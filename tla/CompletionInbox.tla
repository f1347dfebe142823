-------------------------- MODULE CompletionInbox ---------------------------
(***************************************************************************)
(* How the results of detached subagents reach the parent conversation:    *)
(* the CompletionInbox of crates/tools/src/subagent/background/            *)
(* completions.rs between the workers of SubagentManager and the runs of   *)
(* an SDK session (crates/sdk/src/session/execution.rs, background/).      *)
(*                                                                         *)
(* A worker's notify is two steps, push and request_wakeup.  A run of the  *)
(* parent drains the inbox at its model boundaries, and on its end clears  *)
(* the latch and announces what still waits.  clear and shutdown exclude   *)
(* runs through the session's busy flag, but not the workers and spawns.   *)
(***************************************************************************)
EXTENDS SubagentManager

CONSTANTS
  MayCancelAll,  \* cancel_all is called
  MayReplace     \* the host calls clear and shutdown

ASSUME HostAssumption == MayCancelAll \in BOOLEAN /\ MayReplace \in BOOLEAN

VARIABLES
  ready,      \* ReadyBatch
  latch,      \* pushed notifications whose request_wakeup is still to come
  wake,       \* wake_pending
  announced,  \* a CompletionsReady that no run or reset has followed yet
  parent,     \* where the parent's run is
  batch,      \* the drained batch, still to be filtered
  kept,       \* the drained batch after the filter, still to be acknowledged
  turn,       \* the acknowledged part of the batch
  delivered,  \* history: what entered which conversation
  host        \* where the host's clear or shutdown is

inboxVars == <<ready, latch, wake, announced>>
runVars   == <<parent, batch, kept, turn, delivered>>
vars == <<managerVars, inboxVars, runVars, host>>

ParentPC == {"idle", "running", "filter", "ack", "rearm", "look", "announce"}
HostPC == {"free", "close", "close_reset", "reset", "reset_closed", "empty", "empty_closed",
           "unlatch", "unlatch_closed", "closed"}
Delivery == [spawn : Spawn, turn : Nat, from : Nat, into : Nat]

InboxInit ==
  /\ Init
  /\ ready = {} /\ latch = {} /\ wake = FALSE /\ announced = FALSE
  /\ parent = "idle" /\ batch = {} /\ kept = {} /\ turn = {} /\ delivered = {}
  /\ host = "free"

(* accepts_notification                                                    *)
FromSidekick(n) == n.spawn \in Sidekick \cap Registered
Accepts(n) == (st.gen = n.gen \/ FromSidekick(n)) /\ n.spawn \notin st.suppressed

-----------------------------------------------------------------------------
(* A worker notifies the session                                           *)

Push(n) ==
  /\ n \in sent /\ sent' = sent \ {n}
  /\ IF Accepts(n)
     THEN ready' = ready \cup {n} /\ latch' = latch \cup {n}
     ELSE UNCHANGED <<ready, latch>>
  /\ UNCHANGED <<st, limit, workVars, skVars, epoch, closing, waiter, wake, announced, runVars,
                 host>>

(* request_wakeup: only the call that sets the latch announces.            *)
RequestWakeup(n) ==
  /\ n \in latch /\ latch' = latch \ {n}
  /\ wake' = TRUE /\ announced' = (announced \/ ~wake)
  /\ UNCHANGED <<managerVars, ready, runVars, host>>

-----------------------------------------------------------------------------
(* A run of the parent                                                     *)

(* consume_wakeup: the latch is cleared, stale entries are purged.         *)
RunStart ==
  /\ parent = "idle" /\ host = "free"
  /\ parent' = "running"
  /\ wake' = FALSE /\ announced' = FALSE
  /\ ready' = {n \in ready : Accepts(n)}
  /\ UNCHANGED <<managerVars, latch, batch, kept, turn, delivered, host>>

(* drain, at a model boundary: take everything, ...                        *)
DrainTake ==
  /\ parent = "running" /\ ready # {}
  /\ batch' = ready /\ ready' = {} /\ parent' = "filter"
  /\ UNCHANGED <<managerVars, latch, wake, announced, kept, turn, delivered, host>>

(* ... keep what is still accepted, ...                                    *)
DrainFilter ==
  /\ parent = "filter"
  /\ \/ \E n \in batch :
          /\ batch' = batch \ {n}
          /\ kept' = kept \cup (IF Accepts(n) THEN {n} ELSE {})
          /\ parent' = parent
     \/ batch = {} /\ parent' = "ack" /\ UNCHANGED <<batch, kept>>
  /\ UNCHANGED <<managerVars, inboxVars, turn, delivered, host>>

(* ... acknowledge each entry, in the order of the spawns, ...             *)
Acknowledge(u, n) ==
  IF (u.gen = n.gen \/ FromSidekick(n)) /\ u.unack[n.spawn] > 0
  THEN [u EXCEPT !.unack[n.spawn] = @ - 1]
  ELSE u

DrainAcknowledge ==
  /\ parent = "ack"
  /\ \E n \in kept :
       /\ kept' = kept \ {n} /\ turn' = turn \cup {n}
       /\ st' = Acknowledge(st, n)
  /\ UNCHANGED <<limit, workVars, skVars, outVars, inboxVars, parent, batch, delivered, host>>

(* ... and push one user turn with what is left.                           *)
Deliver ==
  /\ parent = "ack" /\ kept = {}
  /\ delivered' = delivered \cup
       {[spawn |-> n.spawn, turn |-> n.turn, from |-> n.epoch, into |-> epoch] : n \in turn}
  /\ turn' = {} /\ parent' = "running"
  /\ UNCHANGED <<managerVars, inboxVars, batch, kept, host>>

RunEndForgets ==    \* mutation: a run that ends does not rearm
  /\ parent = "running" /\ parent' = "idle"
  /\ UNCHANGED <<managerVars, inboxVars, batch, kept, turn, delivered, host>>

(* The run is over, however it ended; rearm follows.                       *)
RunEnd ==
  /\ parent = "running" /\ parent' = "rearm"
  /\ UNCHANGED <<managerVars, inboxVars, batch, kept, turn, delivered, host>>

(* rearm: consume_wakeup clears the latch and then looks, ...              *)
RearmClear ==
  /\ parent = "rearm" /\ parent' = "look" /\ wake' = FALSE
  /\ UNCHANGED <<managerVars, ready, latch, announced, batch, kept, turn, delivered, host>>

RearmLook ==
  /\ parent = "look"
  /\ ready' = {n \in ready : Accepts(n)}
  /\ parent' = IF ready' # {} THEN "announce" ELSE "idle"
  /\ UNCHANGED <<managerVars, latch, wake, announced, batch, kept, turn, delivered, host>>

(* ... and what waits is announced unless a worker was quicker.            *)
RearmAnnounce ==
  /\ parent = "announce" /\ parent' = "idle"
  /\ wake' = TRUE /\ announced' = (announced \/ ~wake)
  /\ UNCHANGED <<managerVars, ready, latch, batch, kept, turn, delivered, host>>

-----------------------------------------------------------------------------
(* The host replaces the conversation (clear) or ends the session          *)
(* (shutdown); the suffix _closed marks the latter.                        *)

(* Both stop every sidekick first.                                         *)
HostBegins(next) ==
  /\ MayReplace /\ host = "free" /\ parent = "idle" /\ st.gen < MaxGen
  /\ StopThem({k \in Sidekick : sk[k].live}) /\ Wake
  /\ host' = next
  /\ UNCHANGED <<limit, pc, own, slots, cancelled, reports, outVars, inboxVars, runVars>>

HostClose ==
  /\ host = "close" /\ host' = "close_reset"
  /\ st' = [st EXCEPT !.closed = TRUE]
  /\ UNCHANGED <<limit, workVars, skVars, outVars, inboxVars, runVars>>

(* manager.close resets, inbox.reset resets again.  An announcement from   *)
(* before is owed to nobody now.                                           *)
HostReset ==
  /\ \/ host = "close_reset" /\ host' = "reset_closed"
     \/ host = "reset" /\ host' = "empty"
     \/ host = "reset_closed" /\ host' = "empty_closed"
  /\ ResetEffect /\ announced' = FALSE
  /\ UNCHANGED <<limit, pc, own, slots, skVars, sent, closing, waiter, ready, latch, wake,
                 runVars>>

HostEmpties ==
  /\ \/ host = "empty" /\ host' = "unlatch"
     \/ host = "empty_closed" /\ host' = "unlatch_closed"
  /\ ready' = {}
  /\ UNCHANGED <<managerVars, latch, wake, announced, runVars>>

HostUnlatches ==
  /\ \/ host = "unlatch" /\ host' = "free"
     \/ host = "unlatch_closed" /\ host' = "closed"
  /\ wake' = FALSE
  /\ UNCHANGED <<managerVars, ready, latch, announced, runVars>>

-----------------------------------------------------------------------------
Notify == \E n \in sent : Push(n)
Latch  == \E n \in latch : RequestWakeup(n)
Drain  == DrainTake \/ DrainFilter \/ DrainAcknowledge \/ Deliver
Rearm  == RearmClear \/ RearmLook \/ RearmAnnounce
Replace == HostClose \/ HostReset \/ HostEmpties \/ HostUnlatches

ManagerStep ==
  /\ ManagerNext /\ (st'.gen # st.gen => MayCancelAll)
  /\ UNCHANGED <<inboxVars, runVars, host>>

InboxNext ==
  \/ ManagerStep
  \/ Notify \/ Latch
  \/ RunStart \/ Drain \/ RunEnd \/ Rearm
  \/ HostBegins("reset") \/ HostBegins("close") \/ Replace
  \/ Quiet /\ sent = {} /\ UNCHANGED <<inboxVars, runVars, host>>

InboxSpec == InboxInit /\ [][InboxNext]_vars

-----------------------------------------------------------------------------
(* Properties                                                              *)

InboxTypeOK ==
  /\ TypeOK
  /\ ready \in SUBSET Notification /\ latch \in SUBSET Notification
  /\ wake \in BOOLEAN /\ announced \in BOOLEAN
  /\ parent \in ParentPC /\ host \in HostPC
  /\ batch \in SUBSET Notification /\ kept \in SUBSET Notification
  /\ turn \in SUBSET Notification /\ delivered \in SUBSET Delivery

(* Results on their way to the parent.                                     *)
Undelivered == sent \cup ready \cup batch \cup kept

(***************************************************************************)
(* "Reservations survive worker completion until the host consumes it":    *)
(* each result that may still be delivered holds a reservation of its      *)
(* spawn, and the reservations never exceed the capacity.  So the inbox is *)
(* bounded, and no completed result needs to be evicted.                   *)
(***************************************************************************)
ResultsReserved ==
  /\ \A s \in Spawn :
       Cardinality({n \in Undelivered : n.spawn = s /\ Accepts(n)}) =< st.unack[s]
  /\ Reserved =< Capacity

(* "a worker or run that finishes after this call has its result refused   *)
(* rather than delivered to the new conversation": what enters a           *)
(* conversation was asked for in it.                                       *)
NoStaleDelivery == \A d \in delivered : d.from = d.into

(***************************************************************************)
(* While the session is idle the host has been told of every waiting       *)
(* result, or its worker is about to tell: a result that lands after the   *)
(* last model boundary of a run is announced by exactly that run's end.    *)
(***************************************************************************)
NoLostWakeup ==
  parent = "idle" /\ host = "free" /\ (\E n \in ready \ latch : Accepts(n)) => announced

=============================================================================
