----------------------------- MODULE AgentRows ------------------------------
(***************************************************************************)
(* What the terminal UI keeps of one spawned agent                         *)
(* (cli/src/tui/events/harness.rs, state/subagents.rs,                     *)
(* state/subagent_history.rs): the rows of its tool calls, twice (under    *)
(* the parent's call while it runs, and in its transcript), its entries    *)
(* and its status.  Rows are found by index; they move whenever settled    *)
(* ones are committed or dropped.                                          *)
(*                                                                         *)
(* The agent's own events come in any order the code says it may meet:     *)
(* results of one batch in any order and after the next message; ids that  *)
(* repeat in a later batch.  The parent's results about the agent, and the *)
(* completions of background tasks, arrive in between.  Budgets in bytes   *)
(* are left out: the counts are smaller.                                   *)
(***************************************************************************)
EXTENDS Integers, Sequences, SequencesExt, FiniteSets, FiniteSetsExt

CONSTANTS ArId,         \* Tool call ids.
          ArKeep,       \* SETTLED_ACTIVITY_HISTORY.
          ArCap,        \* SUBAGENT_TRANSCRIPT_CAP.
          ArMaxCalls,   \* Bound: tool calls, over all.
          ArMaxSays     \* Bound: messages and turns, over all.

ASSUME ArAssumption == /\ ArKeep \in Nat /\ ArCap \in Nat \ {0}
                       /\ ArMaxCalls \in Nat /\ ArMaxSays \in Nat

VARIABLES arKind,     \* "oneshot", "background" or "sidekick".
          arLive,     \* SpawnActivity: [on, tools, pending, omitted].
          arRec,      \* SubagentTranscript.
          arCalls,    \* The agent: arCalls[i]: the outstanding call of id i, or 0.
          arTurn,     \* The agent: "queued", "running" or "over".
          arMade,     \* Tool calls made.
          arSays,
          arBack,     \* The latest task runs in the background.
          arOwed,     \* Completions of background tasks still to be shown.
          arAcked,    \* The own result of the call that gave the task has been shown.
          arStopped,  \* A stop has been acknowledged.
          arLate      \* History: a completion was shown during the next task.

arVars == <<arKind, arLive, arRec, arCalls, arTurn, arMade, arSays, arBack, arOwed,
            arAcked, arStopped, arLate>>

ArNoLive == [on |-> FALSE, tools |-> <<>>, pending |-> <<>>, omitted |-> 0]

ArInit ==
  /\ arKind \in {"oneshot", "background", "sidekick"}
  /\ arLive = [ArNoLive EXCEPT !.on = TRUE]
  /\ arRec = [tools |-> <<>>, pending |-> <<>>, omitted |-> 0, entries |-> <<>>,
              text |-> FALSE, reasoning |-> FALSE, thoughts |-> 0,
              status |-> "Queued", detached |-> FALSE, established |-> FALSE]
  /\ arCalls = [i \in ArId |-> 0] /\ arTurn = "queued"
  /\ arBack \in CASE arKind = "oneshot" -> {FALSE} [] arKind = "background" -> {TRUE}
                   [] arKind = "sidekick" -> BOOLEAN
  /\ arOwed = (IF arBack THEN 1 ELSE 0)
  /\ arMade = 0 /\ arSays = 0 /\ arAcked = FALSE /\ arStopped = FALSE /\ arLate = FALSE

ArActive(status) == status \in {"Queued", "Running"}

----------------------------------------------------------------------------
\* The rows l.tools with l.pending, the index of each outstanding call's row.
ArLast(tools, id) == Max({k \in 1..Len(tools) : tools[k].id = id})
ArUnmapped(l, tools) == l.pending           \* Mutant: indexes are not moved.
ArRemapped(l, tools) == [id \in DOMAIN l.pending |-> ArLast(tools, id)]

ArAddRow(l, id, k) ==
  [l EXCEPT !.tools = Append(@, [id |-> id, call |-> k, out |-> 0]),
            !.pending = [i \in DOMAIN @ \union {id} |-> IF i = id THEN Len(l.tools) + 1 ELSE @[i]]]

ArSetResult(l, id, k) ==
  IF id \notin DOMAIN l.pending THEN l
  ELSE [l EXCEPT !.tools[l.pending[id]].out = k,
                 !.pending = [i \in DOMAIN @ \ {id} |-> @[i]]]

\* compact_activity: the oldest settled rows beyond ArKeep go.
ArCompact(l) ==
  LET settled == Len(l.tools) - Cardinality(DOMAIN l.pending)
      discard == IF settled > ArKeep THEN settled - ArKeep ELSE 0
      gone == {k \in 1..Len(l.tools) :
                 /\ l.tools[k].id \notin DOMAIN l.pending
                 /\ Cardinality({j \in 1..k : l.tools[j].id \notin DOMAIN l.pending}) <= discard}
      kept == [j \in 1..(Len(l.tools) - Cardinality(gone)) |->
                 l.tools[CHOOSE k \in (1..Len(l.tools)) \ gone :
                           Cardinality((1..k) \ gone) = j]]
  IN IF discard = 0 THEN l
     ELSE [l EXCEPT !.tools = kept, !.pending = ArRemapped(l, kept), !.omitted = @ + discard]

----------------------------------------------------------------------------
\* The transcript.  push_entry keeps the newest ArCap entries.
ArPush(r, entry) ==
  LET all == Append(r.entries, entry)
      excess == IF Len(all) > ArCap THEN Len(all) - ArCap ELSE 0
  IN [r EXCEPT !.entries = SubSeq(all, excess + 1, Len(all)), !.omitted = @ + excess]

ArFlush(r) == [r EXCEPT !.thoughts = IF r.reasoning THEN @ + 1 ELSE @, !.reasoning = FALSE]

\* commit_activity: settled rows become an entry; outstanding ones stay.
ArCommit(r0) ==
  LET r == ArFlush(r0)
      live == SelectSeq(r.tools, LAMBDA t : t.id \in DOMAIN r.pending)
      settled == SelectSeq(r.tools, LAMBDA t : t.id \notin DOMAIN r.pending)
      rest == [r EXCEPT !.tools = live, !.pending = ArRemapped(r, live), !.thoughts = 0]
  IN IF r.thoughts = 0 /\ r.tools = <<>> THEN r
     ELSE IF r.thoughts > 0 \/ settled # <<>>
          THEN ArPush(rest, [is |-> "activity", tools |-> settled]) ELSE rest

ArCommitSettled(r) == IF DOMAIN r.pending = {} THEN ArCommit(r) ELSE r

\* A blank or repeated message adds nothing.
ArPushText(r, said) ==
  LET entry == [is |-> "assistant", tools |-> <<>>]
      quiet == [r EXCEPT !.text = FALSE]
  IN IF ~said \/ (r.entries # <<>> /\ Last(r.entries) = entry) THEN quiet ELSE ArPush(quiet, entry)

ArFinish(r) == ArCommit(ArCompact([r EXCEPT !.pending = <<>>]))

\* The first event after a wait starts the row's clock again.
ArStarts(r) ==
  IF \/ r.status \in {"Queued", "Idle"} \/ (r.established /\ r.status = "Failed")
  THEN [r EXCEPT !.status = "Running"] ELSE r

\* The live rows go when the agent is over and nobody waits for it.
ArKept(r) == IF r.detached /\ ~ArActive(r.status) THEN ArNoLive ELSE arLive

\* handle_subagent_event: the transcript is r with the event in it; the live rows that
\* were kept have then taken the event, too.
ArShow(r, live) ==
  /\ arRec' = ArCompact(r)
  /\ arLive' = IF live.on THEN ArCompact(live) ELSE live

----------------------------------------------------------------------------
\* The agent's events.
ArBegins ==
  /\ arTurn = "queued"
  /\ arTurn' = "running"
  /\ LET r == ArStarts(arRec) IN ArShow(r, ArKept(r))
  /\ UNCHANGED <<arKind, arCalls, arMade, arSays, arBack, arOwed, arAcked, arStopped, arLate>>

\* ToolCall; the live rows appear again if they had gone.
ArToolCall(id) ==
  LET r0 == ArStarts(arRec)
      k == arMade + 1
      r == ArAddRow(ArPushText(ArFlush(r0), r0.text), id, k)
  IN /\ arTurn = "running" /\ arCalls[id] = 0 /\ arMade < ArMaxCalls
     /\ arMade' = k /\ arCalls' = [arCalls EXCEPT ![id] = k]
     /\ ArShow(r, ArAddRow([ArKept(r) EXCEPT !.on = TRUE], id, k))
     /\ UNCHANGED <<arKind, arTurn, arSays, arBack, arOwed, arAcked, arStopped, arLate>>

ArToolResult(id) ==
  LET k == arCalls[id]
      r == ArSetResult(ArStarts(arRec), id, k)
  IN /\ arTurn = "running" /\ k # 0
     /\ arCalls' = [arCalls EXCEPT ![id] = 0]
     /\ ArShow(r, ArSetResult(ArKept(r), id, k))
     /\ UNCHANGED <<arKind, arTurn, arMade, arSays, arBack, arOwed, arAcked, arStopped, arLate>>

\* AssistantDelta, ReasoningDelta and Assistant.
ArSay(what) ==
  LET r == ArStarts(arRec)
      said == CASE what = "text" ->
                     [(IF r.text THEN r ELSE ArCommitSettled(r)) EXCEPT !.text = TRUE]
                [] what = "thought" ->
                     [(IF r.reasoning THEN r ELSE ArCommitSettled(r)) EXCEPT !.reasoning = TRUE]
                [] what = "message" -> ArPushText(ArCommit(r), TRUE)
  IN /\ arTurn = "running" /\ arSays < ArMaxSays
     /\ arSays' = arSays + 1
     /\ ArShow(said, ArKept(said))
     /\ UNCHANGED <<arKind, arCalls, arTurn, arMade, arBack, arOwed, arAcked, arStopped, arLate>>

\* Result or Error, shown in record r0; the calls still outstanding are given up.
ArEnded(r0, ok) ==
  LET r == ArFinish(ArStarts(r0))
      said == ArPushText(r, ok \/ r.text)
      noted == IF ok THEN said ELSE ArPush(said, [is |-> "error", tools |-> <<>>])
  IN [noted EXCEPT !.status =
        IF r0.status = "Stopped" THEN "Stopped"
        ELSE IF r.established THEN "Idle" ELSE IF ok THEN "Completed" ELSE "Failed"]

ArEnds(ok) ==
  /\ arTurn = "running"
  /\ arTurn' = "over" /\ arCalls' = [i \in ArId |-> 0]
  /\ LET r == ArEnded(arRec, ok) IN ArShow(r, ArKept(r))
  /\ UNCHANGED <<arKind, arMade, arSays, arBack, arOwed, arAcked, arStopped, arLate>>

----------------------------------------------------------------------------
\* The completion of a background task (SubagentCompleted): it ends a row that has not
\* heard of the end, be it that the task never began.  The sidekick is free before it is
\* sent, so it may come during the next task.
ArCompleted(ok) ==
  LET late == arTurn # "over" /\ (arOwed > 1 \/ ~arBack)
      rec == [arRec EXCEPT !.detached = TRUE]
  IN /\ arOwed > 0
     /\ arOwed' = arOwed - 1
     /\ arLate' = (arLate \/ late)
     /\ IF late THEN UNCHANGED <<arTurn, arCalls>>
        ELSE arTurn' = "over" /\ arCalls' = [i \in ArId |-> 0]
     /\ arRec' = IF ArActive(rec.status) THEN ArCompact(ArEnded(rec, ok)) ELSE rec
     /\ arLive' = ArNoLive
     /\ UNCHANGED <<arKind, arMade, arSays, arBack, arAcked, arStopped>>

\* The parent's results.  A call that was waited for folds the live rows into its own
\* record, and says of a sidekick that it is retained; the acknowledgement of a
\* background task detaches the agent, and says of a sidekick what it was when the
\* task was taken.
ArFold ==
  /\ ~arBack /\ arTurn = "over" /\ ~arAcked
  /\ arAcked' = TRUE
  /\ \E retained \in {arKind = "sidekick", FALSE} :
       arRec' = IF retained /\ arRec.status # "Stopped"
                THEN [arRec EXCEPT !.established = TRUE, !.status = "Idle"] ELSE arRec
  /\ arLive' = IF arRec.established \/ arStopped THEN arLive ELSE ArNoLive
  /\ UNCHANGED <<arKind, arCalls, arTurn, arMade, arSays, arBack, arOwed, arStopped, arLate>>

ArDetach ==
  /\ arBack /\ ~arAcked
  /\ arAcked' = TRUE
  /\ \E then \in {"Queued", "Running"} :
       arRec' = [arRec EXCEPT
         !.detached = TRUE,
         !.established = (arKind = "sidekick" /\ arRec.status # "Stopped") \/ @,
         !.status = IF arKind = "sidekick" /\ @ # "Stopped" THEN then ELSE @]
  /\ arLive' = IF ArActive(arRec.status) THEN arLive ELSE ArNoLive
  /\ UNCHANGED <<arKind, arCalls, arTurn, arMade, arSays, arBack, arOwed, arStopped, arLate>>

\* A sidekick is given another task; those it was given before are acknowledged.
ArTask ==
  /\ arKind = "sidekick" /\ arRec.established /\ arTurn = "over" /\ arAcked
  /\ arSays < ArMaxSays /\ arOwed < 2
  /\ arTurn' = "queued" /\ arSays' = arSays + 1 /\ arAcked' = FALSE
  /\ \E back \in BOOLEAN :
       arBack' = back /\ arOwed' = IF back THEN arOwed + 1 ELSE arOwed
  /\ UNCHANGED <<arKind, arLive, arRec, arCalls, arMade, arStopped, arLate>>

\* mark_sidekick_result on action=status, of a handle the parent has heard of: "idle" or
\* "busy", as it was when asked, which proves it reusable.
ArAsked(was) ==
  /\ arKind = "sidekick" /\ (arRec.established \/ arAcked) /\ arRec.status # "Stopped"
  /\ arRec' = [arRec EXCEPT !.established = TRUE, !.status = was]
  /\ UNCHANGED <<arKind, arLive, arCalls, arTurn, arMade, arSays, arBack, arOwed, arAcked,
                 arStopped, arLate>>

\* mark_sidekick_result on "stopped", with the turn perhaps still running.
ArStop ==
  /\ arKind = "sidekick" /\ arRec.established /\ ~arStopped
  /\ arStopped' = TRUE
  /\ arRec' = [arRec EXCEPT !.status = "Stopped", !.established = FALSE]
  /\ UNCHANGED <<arKind, arLive, arCalls, arTurn, arMade, arSays, arBack, arOwed, arAcked, arLate>>

ArNext ==
  \/ ArBegins \/ ArFold \/ ArDetach \/ ArTask \/ ArStop
  \/ \E id \in ArId : ArToolCall(id) \/ ArToolResult(id)
  \/ \E what \in {"text", "thought", "message"} : ArSay(what)
  \/ \E ok \in BOOLEAN : ArEnds(ok) \/ ArCompleted(ok)
  \/ \E was \in {"Idle", "Running"} : ArAsked(was)
ArSpec == ArInit /\ [][ArNext]_arVars

----------------------------------------------------------------------------
\* Every outstanding call is found at its own row, still without a result, unless a
\* completion came so late that it ended the task of that call too; and in both lists no
\* row ever shows the result of another call, however rows were committed, dropped and
\* moved in between ("remap every pending index after compaction ... so late results
\* cannot be lost", compact_activity).
ArRowsRight ==
  /\ \A id \in ArId : arCalls[id] # 0 /\ ~arLate =>
       /\ id \in DOMAIN arRec.pending /\ arRec.pending[id] \in DOMAIN arRec.tools
       /\ arRec.tools[arRec.pending[id]].call = arCalls[id]
  /\ \A l \in {arRec, arLive} :
       /\ \A id \in DOMAIN l.pending :
            /\ l.pending[id] \in DOMAIN l.tools
            /\ l.tools[l.pending[id]].id = id /\ l.tools[l.pending[id]].out = 0
       /\ \A k \in 1..Len(l.tools) : l.tools[k].out \in {0, l.tools[k].call}

\* Every call made has one row, in the transcript's entries or below them, until
\* something is counted as omitted (commit_activity, finish_activity).
ArRowsOnce ==
  LET committed == FoldLeft(LAMBDA s, e : s \o e.tools, <<>>, arRec.entries)
      all == committed \o arRec.tools
  IN /\ \A j, k \in 1..Len(all) : all[j].call = all[k].call => j = k
     /\ arRec.omitted = 0 => Len(all) = arMade

\* A detached agent that is over, with its completions shown, leaves no live rows behind,
\* although a later call of its turn puts them back; and a stopped sidekick stays stopped,
\* in whichever order its events, its completions and the parent's results arrive
\* (record_subagent_event, mark_subagent_detached, UiMsg::SubagentCompleted).
ArSettles ==
  /\ arRec.detached /\ arTurn = "over" /\ arOwed = 0 => ~arLive.on
  /\ arStopped => arRec.status = "Stopped"

\* The display of a spawned agent is right: rows, entries and status.
ArShown == ArRowsRight /\ ArRowsOnce /\ ArSettles
=============================================================================
