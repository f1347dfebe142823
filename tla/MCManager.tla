----------------------------- MODULE MCManager ------------------------------
(***************************************************************************)
(* Small instances of the subagent manager for TLC: alone, with a limit    *)
(* that moves and a host that resets, shuts down and waits; or in a        *)
(* session with the completion inbox, as MCInbox has it.                   *)
(***************************************************************************)
EXTENDS MCInbox

(* The manager alone: one worker, one reset and some limit.                *)
AloneInit == InboxInit /\ cast = "alone" /\ limit > 0
AloneNext ==
  /\ cast = "alone" /\ Next /\ UNCHANGED <<inboxVars, runVars, host, cast>>
  /\ limit' > 0 /\ pc'[j2] = pc[j2]
  /\ st'.gen + (IF closing' THEN 1 ELSE 0) < MaxGen
SessionNext == cast # "alone" /\ MCNext

ManagerSpec == (AloneInit \/ MCInit) /\ [][AloneNext \/ SessionNext]_<<vars, cast>>

-----------------------------------------------------------------------------
(* The workers' notifications go through and a run's steps follow each     *)
(* other.  Runs end, and a host that is told of waiting results starts     *)
(* one.  A run may end before its first model call, but not every run      *)
(* does: one that could drain infinitely often drains.                     *)
InSession(A) == cast # "alone" /\ A
InboxFairness ==
  /\ WF_vars(InSession(Notify)) /\ WF_vars(InSession(Latch))
  /\ WF_vars(InSession(announced /\ RunStart)) /\ WF_vars(InSession(RunEnd))
  /\ WF_vars(InSession(Drain)) /\ SF_vars(InSession(DrainTake)) /\ WF_vars(InSession(Rearm))

(* The manager alone, or a sidekick's reports in a session.                *)
LiveSpec ==
  /\ AloneInit \/ (MCInit /\ cast = "sidekick")
  /\ [][AloneNext \/ SessionNext]_<<vars, cast>>
  /\ ManagerFairness /\ InboxFairness
=============================================================================
