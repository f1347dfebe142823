----------------------------- MODULE MCWorkflow -----------------------------
(* Small graphs for the workflow runtime.                                  *)
EXTENDS Workflow

MCStages == {1, 2, 3}
Agent(needs, schema, uses) ==
  [kind |-> "agent", needs |-> needs, over |-> NoStage, schema |-> schema,
   uses |-> uses, text |-> <<>>]
Map(over) ==
  [kind |-> "map", needs |-> {}, over |-> over, schema |-> FALSE,
   uses |-> {}, text |-> <<>>]
S1 == <<1, 0>>
S2 == <<2, 0>>
S3 == <<3, 0>>

(* A source and a map over it, with a reader of both or without; two       *)
(* stages in a row, and with the first one edited; two that need each      *)
(* other.                                                                  *)
Fan == (S1 :> Agent({}, TRUE, {})) @@ (S2 :> Map(S1))
Report == Fan @@ (S3 :> Agent({S1, S2}, FALSE, {S1}))
Chain == (S1 :> Agent({}, FALSE, {})) @@ (S2 :> Agent({S1}, FALSE, {S1}))
Edited == [Chain EXCEPT ![S1].text = <<1>>]
Cycle == (S1 :> Agent({S2}, FALSE, {})) @@ (S2 :> Agent({S1}, FALSE, {}))
MCGraphs == <<{Fan, Report, Chain, Cycle}, {Chain, Edited}>>
=============================================================================
