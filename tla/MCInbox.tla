------------------------------ MODULE MCInbox -------------------------------
(***************************************************************************)
(* The completion inbox in use, and small instances of it for TLC: either  *)
(* two workers while conversations are replaced and sessions shut down     *)
(* around them, or a sidekick of two turns in one conversation.  MCManager *)
(* adds the manager alone.                                                 *)
(***************************************************************************)
EXTENDS CompletionInbox, TLC

CONSTANTS j1, j2, k1

MCJobs == {j1, j2}
MCSidekicks == {k1}

VARIABLE cast    \* "workers" or "sidekick"; "alone" for the manager without its inbox

(* Workers with conversations replaced around them, or also sidekicks in a *)
(* single conversation; any number of either.                              *)
CastInit == InboxInit /\ cast \in {"workers", "sidekick"}
CastNext ==
  /\ InboxNext /\ UNCHANGED cast
  /\ cast = "workers" => \A k \in Sidekick : pc'[k] = pc[k]
  /\ cast = "sidekick" => host' = host
CastSpec == CastInit /\ [][CastNext]_<<vars, cast>>

(* The instance: no limit for the workers, one slot and no worker for the  *)
(* sidekick, and one replacement or reset.                                 *)
MCInit == CastInit /\ limit = IF cast = "workers" THEN 0 ELSE 1
MCNext ==
  /\ CastNext /\ UNCHANGED limit
  /\ cast = "workers" /\ st.gen > 0 =>
       IF host = "free" THEN host' = host /\ st'.gen = st.gen
       ELSE host' # host \/ st'.gen = st.gen
  /\ cast = "sidekick" => \A j \in Job : pc'[j] = pc[j]

MCSpec == MCInit /\ [][MCNext]_<<vars, cast>>

(* With no conversation replaced meanwhile, an idle session has been told  *)
(* of every waiting result: NoLostWakeup of the sidekick's behaviours.     *)
WakeupKept == cast = "sidekick" => NoLostWakeup

(* A sidekick's report that landed in the inbox is taken from it in the    *)
(* end: by a drain, by acknowledgement or as no longer acceptable.         *)
SidekickResultsArrive ==
  \A s \in Sidekick : (\E n \in ready : n.spawn = s) ~> ~(\E n \in ready : n.spawn = s)

(***************************************************************************)
(* Results between a worker and the model: each is stamped and reserved as *)
(* the manager believes, none crosses into another conversation, and none  *)
(* of a sidekick waits unannounced while the session is idle.              *)
(***************************************************************************)
InboxSafe ==
  cast # "alone" => InboxTypeOK /\ ResultsReserved /\ NoStaleDelivery /\ WakeupKept
=============================================================================
