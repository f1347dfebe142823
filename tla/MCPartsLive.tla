---------------------------- MODULE MCPartsLive -----------------------------
(***************************************************************************)
(* Processes, the MCP client and the gate of model requests, which also    *)
(* promise that something will happen: one per behaviour as in MCParts,    *)
(* each under the fairness of its own tasks.                               *)
(***************************************************************************)
EXTENDS Processes, McpClient, ModelGate

CONSTANTS s1, s2, c1, c2

MCSpawns == {s1, s2}
MCCalls == {c1, c2}

VARIABLE focus

Parts ==
  {"processes", "mcp", "gate"}

partVars ==
  <<focus, pmVars, mcVars, mgVars>>

Init ==
  /\ focus \in Parts
  /\ PmInit
     /\ (focus # "processes" => pmMode = [p \in PmSpawn |-> "notify"])
  /\ McInit
  /\ MgInit
     /\ (focus # "gate" => mgLimit = 1)

(* The components a behaviour does not follow stay as they began.          *)
Still(part) ==
  /\ part # "processes" => UNCHANGED pmVars
  /\ part # "mcp" => UNCHANGED mcVars
  /\ part # "gate" => UNCHANGED mgVars

Next ==
  \/ focus = "processes" /\ PmNext /\ Still("processes") /\ UNCHANGED focus
  \/ focus = "mcp" /\ McNext /\ Still("mcp") /\ UNCHANGED focus
  \/ focus = "gate" /\ MgNext /\ Still("gate") /\ UNCHANGED focus

Spec ==
  /\ Init /\ [][Next]_partVars
  /\ \A p \in PmSpawn : WF_pmVars(PmWaiterStep(p))
  /\ McFair
  /\ MgFair

(***************************************************************************)
(* What was closed ends and what waits is served: a closed process manager *)
(* leaves no child alive, a closed MCP connection ends every call on it,   *)
(* and every queued model request is admitted unless it is given up.       *)
(***************************************************************************)
PartsEnd == PmClosedEnds /\ McCloseEndsCalls /\ MgServed
=============================================================================
