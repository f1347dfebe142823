----------------------------- MODULE Processes ------------------------------
(***************************************************************************)
(* The process tool (crates/tools/src/core_tools/process.rs, process/):    *)
(* children that outlive the call that started them.  Every spawn call of  *)
(* PmSpawn runs at most once; its process, its waiter task and the calls   *)
(* of the host (kill, kill_all, close, dropping the tool) interleave.      *)
(*                                                                         *)
(* What a process prints is the subject of OutBuf; here a process is       *)
(* alive or dead, and the question is who learns that it ended.            *)
(***************************************************************************)
EXTENDS Integers, FiniteSets

CONSTANTS
  PmSpawn,   \* the spawn calls
  PmMax      \* ProcessConfig::max_processes

ASSUME PmAssumption == IsFiniteSet(PmSpawn) /\ PmMax \in Nat \ {0}

VARIABLES
  pmMode,      \* what the caller asked: waitForExit, notifyOnExit, neither
  pmCall,      \* where the spawn call stands
  pmTold,      \* what its answer said of the process
  pmAlive,     \* the operating system's view of the child
  pmWaiter,    \* where the process's waiter task stands
  pmCounted,   \* Proc::counted
  pmKill,      \* Proc::kill was cancelled for this process alone
  pmNotify,    \* Proc::notify_on_exit
  pmNotes,     \* exit notifications the host received
  pmKilled,    \* the kill or kill_all that removed the process
  pmListed,    \* Manager::procs
  pmReserved,  \* Manager::reserved
  pmStats,     \* BackgroundStats::processes
  pmLife       \* the manager: open, closed, its tool dropped, dropped itself

pmVars == <<pmMode, pmCall, pmTold, pmAlive, pmWaiter, pmCounted, pmKill,
            pmNotify, pmNotes, pmKilled, pmListed, pmReserved, pmStats, pmLife>>

PmModes == {"wait", "notify", "quiet"}
PmCalls == {"idle", "reserved", "started", "settling", "snapshot", "answered",
            "refused", "dropped"}
PmWaiters == {"none", "waiting", "exited", "counted", "done", "telling", "over"}

(* Proc::running: the exit slot is still empty.                            *)
PmRunning(p) == pmWaiter[p] = "waiting"
(* Proc::done has fired.                                                   *)
PmDone(p) == pmWaiter[p] \in {"done", "telling", "over"}
(* The kill token is a child of the manager's shutdown token.              *)
PmOpen == pmLife = "open"
PmDoomed(p) == pmKill[p] \/ ~PmOpen
(* The processes on the list that hold a slot.                             *)
PmLive == Cardinality({p \in pmListed : PmRunning(p)})

PmInit ==
  /\ pmMode \in [PmSpawn -> PmModes]
  /\ pmCall = [p \in PmSpawn |-> "idle"]
  /\ pmTold = [p \in PmSpawn |-> "nothing"]
  /\ pmAlive = [p \in PmSpawn |-> FALSE]
  /\ pmWaiter = [p \in PmSpawn |-> "none"]
  /\ pmCounted = [p \in PmSpawn |-> FALSE]
  /\ pmKill = [p \in PmSpawn |-> FALSE]
  /\ pmNotify = [p \in PmSpawn |-> FALSE]
  /\ pmNotes = [p \in PmSpawn |-> 0]
  /\ pmKilled = [p \in PmSpawn |-> FALSE]
  /\ pmListed = {}
  /\ pmReserved = 0
  /\ pmStats = 0
  /\ pmLife = "open"

-----------------------------------------------------------------------------
(* The spawn call.                                                         *)

PmHasSlot == PmLive + pmReserved < PmMax

(* ensure_open, then reserve_slot: the count and the claim under one guard. *)
PmReserve(p) ==
  /\ pmCall[p] = "idle"
  /\ PmOpen
  /\ PmHasSlot
  /\ pmCall' = [pmCall EXCEPT ![p] = "reserved"]
  /\ pmReserved' = pmReserved + 1
  /\ UNCHANGED <<pmMode, pmTold, pmAlive, pmWaiter, pmCounted, pmKill, pmNotify,
                 pmNotes, pmKilled, pmListed, pmStats, pmLife>>

PmRefuse(p) ==
  /\ pmCall[p] = "idle"
  /\ ~PmHasSlot \/ ~PmOpen
  /\ pmCall' = [pmCall EXCEPT ![p] = "refused"]
  /\ UNCHANGED <<pmMode, pmTold, pmAlive, pmWaiter, pmCounted, pmKill, pmNotify,
                 pmNotes, pmKilled, pmListed, pmReserved, pmStats, pmLife>>

(* Spawner::spawn fails: the Slot is dropped uncommitted.                  *)
PmStartFails(p) ==
  /\ pmCall[p] = "reserved"
  /\ pmCall' = [pmCall EXCEPT ![p] = "refused"]
  /\ pmReserved' = pmReserved - 1
  /\ UNCHANGED <<pmMode, pmTold, pmAlive, pmWaiter, pmCounted, pmKill, pmNotify,
                 pmNotes, pmKilled, pmListed, pmStats, pmLife>>

(* The child exists and is counted; its reader and waiter are running.     *)
PmStart(p) ==
  /\ pmCall[p] = "reserved"
  /\ pmCall' = [pmCall EXCEPT ![p] = "started"]
  /\ pmAlive' = [pmAlive EXCEPT ![p] = TRUE]
  /\ pmWaiter' = [pmWaiter EXCEPT ![p] = "waiting"]
  /\ pmCounted' = [pmCounted EXCEPT ![p] = TRUE]
  /\ pmStats' = pmStats + 1
  /\ UNCHANGED <<pmMode, pmTold, pmKill, pmNotify, pmNotes, pmKilled, pmListed,
                 pmReserved, pmLife>>

(* Slot::commit publishes the process and releases the claim together.     *)
PmCommit(p) ==
  /\ pmCall[p] = "started"
  /\ pmCall' = [pmCall EXCEPT ![p] = "settling"]
  /\ pmListed' = pmListed \cup {p}
  /\ pmReserved' = pmReserved - 1
  /\ UNCHANGED <<pmMode, pmTold, pmAlive, pmWaiter, pmCounted, pmKill, pmNotify,
                 pmNotes, pmKilled, pmStats, pmLife>>

(***************************************************************************)
(* The call has waited long enough (for `done`, or at most `settle`), and  *)
(* settle_exit saw a process that is running or drained.  Its backstop of  *)
(* a second never fires while the waiter lives: `done` follows the exit    *)
(* within the drain grace.                                                 *)
(***************************************************************************)
PmSettle(p) ==
  /\ pmCall[p] = "settling"
  /\ pmMode[p] = "wait" => PmDone(p)
  /\ PmRunning(p) \/ PmDone(p)
  /\ pmCall' = [pmCall EXCEPT ![p] = "snapshot"]
  /\ UNCHANGED <<pmMode, pmTold, pmAlive, pmWaiter, pmCounted, pmKill, pmNotify,
                 pmNotes, pmKilled, pmListed, pmReserved, pmStats, pmLife>>

(* mutation: the liveness the call saw while it settled. *)
PmSnapshotStale(p) == TRUE
(* The exit slot as the snapshot reads it.                                 *)
PmSnapshot(p) == PmRunning(p)
PmArms(p) == pmMode[p] = "notify" /\ PmSnapshot(p)

(* ProcessCore::snapshot reads the exit slot and arms the exit             *)
(* notification under the one lock, so the exit falls before or after both. *)
PmAnswer(p) ==
  /\ pmCall[p] = "snapshot"
  /\ pmCall' = [pmCall EXCEPT ![p] = "answered"]
  /\ pmTold' = [pmTold EXCEPT ![p] = IF PmSnapshot(p) THEN "running" ELSE "exited"]
  /\ pmNotify' = [pmNotify EXCEPT ![p] = PmArms(p) \/ @]
  /\ UNCHANGED <<pmMode, pmAlive, pmWaiter, pmCounted, pmKill, pmNotes, pmKilled,
                 pmListed, pmReserved, pmStats, pmLife>>

(* A cancelled waitForExit call, or a call whose future is dropped: a      *)
(* claim not yet handed over is released, a started process lives on.      *)
PmDropCall(p) ==
  /\ pmCall[p] \in {"reserved", "settling"}
  /\ pmCall' = [pmCall EXCEPT ![p] = "dropped"]
  /\ pmReserved' = IF pmCall[p] = "reserved" THEN pmReserved - 1 ELSE pmReserved
  /\ UNCHANGED <<pmMode, pmTold, pmAlive, pmWaiter, pmCounted, pmKill, pmNotify,
                 pmNotes, pmKilled, pmListed, pmStats, pmLife>>

-----------------------------------------------------------------------------
(* The child and its waiter.                                               *)

PmChildExits(p) ==
  /\ pmAlive[p]
  /\ pmAlive' = [pmAlive EXCEPT ![p] = FALSE]
  /\ UNCHANGED <<pmMode, pmCall, pmTold, pmWaiter, pmCounted, pmKill, pmNotify,
                 pmNotes, pmKilled, pmListed, pmReserved, pmStats, pmLife>>

(* The biased select: kill on demand, else the child's own end (of its     *)
(* output stream under a sandbox); then the exit slot is filled.           *)
PmReap(p) ==
  /\ pmWaiter[p] = "waiting"
  /\ PmDoomed(p) \/ ~pmAlive[p]
  /\ pmAlive' = [pmAlive EXCEPT ![p] = FALSE]
  /\ pmWaiter' = [pmWaiter EXCEPT ![p] = "exited"]
  /\ UNCHANGED <<pmMode, pmCall, pmTold, pmCounted, pmKill, pmNotify, pmNotes,
                 pmKilled, pmListed, pmReserved, pmStats, pmLife>>

(* What the swap of `counted` leaves to count down.                        *)
PmOwes(p) == IF pmCounted[p] THEN 1 ELSE 0

(* Whoever swaps `counted` to false makes the one decrement.               *)
PmUncount(p) ==
  /\ pmWaiter[p] = "exited"
  /\ pmWaiter' = [pmWaiter EXCEPT ![p] = "counted"]
  /\ pmStats' = pmStats - PmOwes(p)
  /\ pmCounted' = [pmCounted EXCEPT ![p] = FALSE]
  /\ UNCHANGED <<pmMode, pmCall, pmTold, pmAlive, pmKill, pmNotify, pmNotes,
                 pmKilled, pmListed, pmReserved, pmLife>>

(* The reader drained, or 200 ms passed.                                   *)
PmDrained(p) ==
  /\ pmWaiter[p] = "counted"
  /\ pmWaiter' = [pmWaiter EXCEPT ![p] = "done"]
  /\ UNCHANGED <<pmMode, pmCall, pmTold, pmAlive, pmCounted, pmKill, pmNotify,
                 pmNotes, pmKilled, pmListed, pmReserved, pmStats, pmLife>>

(* The waiter reads notify_on_exit, and emits the notification afterwards. *)
PmLoadNotify(p) ==
  /\ pmWaiter[p] = "done"
  /\ pmWaiter' = [pmWaiter EXCEPT ![p] = IF pmNotify[p] THEN "telling" ELSE "over"]
  /\ UNCHANGED <<pmMode, pmCall, pmTold, pmAlive, pmCounted, pmKill, pmNotify,
                 pmNotes, pmKilled, pmListed, pmReserved, pmStats, pmLife>>

PmEmitExit(p) ==
  /\ pmWaiter[p] = "telling"
  /\ pmWaiter' = [pmWaiter EXCEPT ![p] = "over"]
  /\ pmNotes' = [pmNotes EXCEPT ![p] = @ + 1]
  /\ UNCHANGED <<pmMode, pmCall, pmTold, pmAlive, pmCounted, pmKill, pmNotify,
                 pmKilled, pmListed, pmReserved, pmStats, pmLife>>

-----------------------------------------------------------------------------
(* The host.                                                               *)

(* kill removes the entry, silences the exit wake and cancels the token;   *)
(* that it then waits for `done` changes nothing.                          *)
PmKillOne(p) ==
  /\ PmOpen
  /\ p \in pmListed
  /\ pmListed' = pmListed \ {p}
  /\ pmNotify' = [pmNotify EXCEPT ![p] = FALSE]
  /\ pmKill' = [pmKill EXCEPT ![p] = TRUE]
  /\ pmKilled' = [pmKilled EXCEPT ![p] = TRUE]
  /\ UNCHANGED <<pmMode, pmCall, pmTold, pmAlive, pmWaiter, pmCounted, pmNotes,
                 pmReserved, pmStats, pmLife>>

(* kill_all forgets every entry and signals the ones still running.        *)
PmKillAll ==
  LET running == {p \in pmListed : PmRunning(p)} IN
  /\ PmOpen
  /\ pmListed # {}
  /\ pmListed' = {}
  /\ pmNotify' = [p \in PmSpawn |-> pmNotify[p] /\ p \notin running]
  /\ pmKill' = [p \in PmSpawn |-> pmKill[p] \/ p \in running]
  /\ pmKilled' = [p \in PmSpawn |-> pmKilled[p] \/ p \in running]
  /\ UNCHANGED <<pmMode, pmCall, pmTold, pmAlive, pmWaiter, pmCounted, pmNotes,
                 pmReserved, pmStats, pmLife>>

(* close, or the tool is dropped: the shutdown token is cancelled.         *)
PmClose(life) ==
  /\ PmOpen
  /\ life \in {"closed", "toolGone"}
  /\ pmLife' = life
  /\ UNCHANGED <<pmMode, pmCall, pmTold, pmAlive, pmWaiter, pmCounted, pmKill,
                 pmNotify, pmNotes, pmKilled, pmListed, pmReserved, pmStats>>

(* Manager::drop, once the tool and every call that holds it are gone.     *)
PmManagerDrops ==
  /\ pmLife = "toolGone"
  /\ \A p \in PmSpawn :
       pmCall[p] \notin {"reserved", "started", "settling", "snapshot"}
  /\ pmLife' = "gone"
  /\ pmAlive' = [p \in PmSpawn |-> pmAlive[p] /\ ~(p \in pmListed /\ PmRunning(p))]
  /\ pmStats' = pmStats - Cardinality({p \in pmListed : pmCounted[p]})
  /\ pmCounted' = [p \in PmSpawn |-> pmCounted[p] /\ p \notin pmListed]
  /\ UNCHANGED <<pmMode, pmCall, pmTold, pmWaiter, pmKill, pmNotify, pmNotes,
                 pmKilled, pmListed, pmReserved>>

-----------------------------------------------------------------------------
PmCallStep(p) ==
  \/ PmReserve(p) \/ PmRefuse(p) \/ PmStart(p) \/ PmStartFails(p)
  \/ PmCommit(p) \/ PmSettle(p) \/ PmAnswer(p)
PmWaiterStep(p) ==
  PmReap(p) \/ PmUncount(p) \/ PmDrained(p) \/ PmLoadNotify(p) \/ PmEmitExit(p)

PmNext ==
  \/ \E p \in PmSpawn :
       \/ PmCallStep(p) \/ PmDropCall(p) \/ PmChildExits(p) \/ PmWaiterStep(p)
       \/ PmKillOne(p)
  \/ PmKillAll
  \/ \E life \in {"closed", "toolGone"} : PmClose(life)
  \/ PmManagerDrops

PmSpec == PmInit /\ [][PmNext]_pmVars

-----------------------------------------------------------------------------
(* The shapes of the process manager's state.                              *)
PmTypeOK ==
  /\ pmMode \in [PmSpawn -> PmModes] /\ pmCall \in [PmSpawn -> PmCalls]
  /\ pmTold \in [PmSpawn -> {"nothing", "running", "exited"}]
  /\ pmAlive \in [PmSpawn -> BOOLEAN] /\ pmWaiter \in [PmSpawn -> PmWaiters]
  /\ pmCounted \in [PmSpawn -> BOOLEAN] /\ pmKill \in [PmSpawn -> BOOLEAN]
  /\ pmNotify \in [PmSpawn -> BOOLEAN] /\ pmNotes \in [PmSpawn -> Nat]
  /\ pmKilled \in [PmSpawn -> BOOLEAN] /\ pmListed \subseteq PmSpawn
  /\ pmReserved \in Nat /\ pmStats \in Nat
  /\ pmLife \in {"open", "closed", "toolGone", "gone"}

(* "parallel spawns cannot all pass the same stale count": the processes   *)
(* on the list that run, and those about to be put there, keep to the      *)
(* limit, whatever fails, is dropped or exits in between.                  *)
PmWithinLimit == PmLive + pmReserved <= PmMax

(* The host hears of an end once: the answer of a spawn that already says  *)
(* "exited" is never followed by a notification, and none comes twice.     *)
PmToldOnce ==
  \A p \in PmSpawn : pmNotes[p] <= 1 /\ (pmTold[p] = "exited" => pmNotes[p] = 0)

(* No end goes unheard: a process whose spawn was answered "running" with  *)
(* the notification asked for, and that nobody killed, has been reported   *)
(* by the time its waiter is over, on a manager closed or dropped as well. *)
PmNoLostExit ==
  \A p \in PmSpawn :
    pmTold[p] = "running" /\ pmMode[p] = "notify" /\ ~pmKilled[p]
      /\ pmWaiter[p] = "over" => pmNotes[p] = 1

(* The live counter shown to the host is exact: it counts each child that  *)
(* was started and not yet reaped or given up, and counts it down once.    *)
PmStatsExact == pmStats = Cardinality({p \in PmSpawn : pmCounted[p]})

(* A closed manager leaves no child behind, a spawn that was under way     *)
(* when it closed included.                                                *)
PmClosedEnds == \A p \in PmSpawn : ~PmOpen ~> ~pmAlive[p]

(***************************************************************************)
(* The accounts of the process manager together: slots within the limit,   *)
(* the live counter exact, and every end told to the host once, none lost  *)
(* between the snapshot that answers a spawn and the waiter that reaps it. *)
(***************************************************************************)
PmSafe == PmTypeOK /\ PmWithinLimit /\ PmToldOnce /\ PmNoLostExit /\ PmStatsExact
=============================================================================
