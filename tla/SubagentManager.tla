-------------------------- MODULE SubagentManager ---------------------------
(***************************************************************************)
(* The lifetime and concurrency boundary of detached subagents: the        *)
(* SubagentManager of crates/tools/src/subagent/background/manager.rs, the *)
(* tasks that run its jobs (background.rs), and the retained sidekicks     *)
(* whose turns it admits (host.rs).                                        *)
(*                                                                         *)
(* Every lock section of the manager is one step.  A slot guard, a token   *)
(* and the generation captured at admission belong to a worker and outlive *)
(* what the manager forgets about it.  The watch channel that wakes the    *)
(* waiting workers is the set woken: the workers for which it has changed  *)
(* since they last marked it seen.  A lock section and the wake that       *)
(* follows it are one step: a waiter that looks in between sees the new    *)
(* state and is woken once more.                                           *)
(***************************************************************************)
EXTENDS Integers, Sequences, FiniteSets, Functions, Queues

CONSTANTS
  Job,         \* spawn ids of ordinary detached workers
  Sidekick,    \* spawn ids of retained sidekicks
  LimitValues, \* the values background_limit may be set to; 0 is no limit
  Capacity,    \* the completion capacity
  MaxGen,      \* bound on the generations explored
  MaxTurns     \* bound on the turns of one sidekick

ASSUME KindsAssumption == Job \cap Sidekick = {} /\ "wait_idle" \notin Job \cup Sidekick
ASSUME FiniteAssumption == IsFiniteSet(Job) /\ IsFiniteSet(Sidekick)
ASSUME LimitsAssumption == LimitValues \subseteq Nat /\ LimitValues # {}
ASSUME CapacityAssumption == Capacity \in Nat
ASSUME BoundsAssumption == MaxGen \in Nat /\ MaxTurns \in Nat

Spawn == Job \cup Sidekick

VARIABLES
  st,        \* SubagentManagerState, behind its Mutex
  limit,     \* settings.background_limit()
  pc,        \* where each worker is
  own,       \* what it captured: generation, cap, conversation
  slots,     \* the workers holding a Slot
  cancelled, \* the workers whose job token is cancelled
  woken,     \* the waiting workers a watch has changed for
  sk,        \* the Sidekick records and their registry
  reports,   \* sidekick turns over whose task has yet to notify
  sent,      \* notifications on their way to the notifier
  epoch,     \* history: how often the conversation was replaced
  closing,   \* SubagentManager::close is between its two lock sections
  waiter     \* where a host's wait_idle is, after close

skVars  == <<sk, reports>>
outVars == <<sent, epoch, closing, waiter>>
workVars == <<pc, own, slots, cancelled, woken>>
managerVars == <<st, limit, pc, own, slots, cancelled, woken, sk, reports, sent,
                 epoch, closing, waiter>>

-----------------------------------------------------------------------------
(* Values                                                                  *)

Status == {"None", "Queued", "Running"}    \* "None": not in the jobs map

ManagerState ==
  [gen : Nat, job : [Spawn -> Status], active : SUBSET Sidekick, queue : Seq(Spawn),
   running : Nat, unack : [Spawn -> Nat], suppressed : SUBSET Spawn, closed : BOOLEAN]

(* acquire passes through "mark", "check" and "wait".                      *)
Acquiring == {"mark", "check", "wait"}
PC == {"new", "admitting", "admitted", "rollback", "registered", "queueing", "running",
       "ending", "idle", "panicked", "over"} \cup Acquiring

(* The host's wait_idle subscribes to the same watch as the workers.       *)
Host == "wait_idle"
WaiterPC == {"off", "mark", "check", "wait", "returned"}

Life == {"Idle", "Busy", "Stopped"}

Notification == [spawn : Spawn, turn : Nat, gen : Nat, epoch : Nat]

Registered == {s \in Spawn : st.job[s] # "None"}
Reserved   == SumFunction(st.unack)

(* sidekick_live                                                           *)
SidekickLive(k) == k \in Registered /\ k \notin cancelled

(* Jobs leave the map and the queue ...                                    *)
Unregister(u, S) ==
  [u EXCEPT !.job = [s \in Spawn |-> IF s \in S THEN "None" ELSE @[s]],
            !.active = @ \ S,
            !.queue = Without(@, S)]
(* ... and their reservations are dropped.                                 *)
Unreserve(u, S) == [u EXCEPT !.unack = [s \in Spawn |-> IF s \in S THEN 0 ELSE @[s]]]

(* wake: every worker subscribed to the watch sees a change.               *)
Subscribed ==
  {s \in Spawn : pc[s] \in {"check", "wait"}}
    \cup (IF waiter \in {"check", "wait"} THEN {Host} ELSE {})
Wake == woken' = woken \cup Subscribed

Init ==
  /\ st = [gen |-> 0, job |-> [s \in Spawn |-> "None"], active |-> {}, queue |-> <<>>,
           running |-> 0, unack |-> [s \in Spawn |-> 0], suppressed |-> {},
           closed |-> FALSE]
  /\ limit \in LimitValues
  /\ pc = [s \in Spawn |-> "new"]
  /\ own = [s \in Spawn |-> [gen |-> 0, cap |-> 0, epoch |-> 0]]
  /\ slots = {} /\ cancelled = {} /\ woken = {}
  /\ sk = [k \in Sidekick |-> [life |-> "Idle", live |-> FALSE, stop |-> FALSE, turn |-> 1]]
  /\ reports = {} /\ sent = {} /\ epoch = 0 /\ closing = FALSE
  /\ waiter = "off"

-----------------------------------------------------------------------------
(* Admission                                                               *)

CanAdmit == ~st.closed /\ Reserved < Capacity

(* The first lock section of admit_job.  The limit has been read before it. *)
Admit(s) ==
  /\ pc[s] = "new" /\ CanAdmit
  /\ st' = [st EXCEPT !.unack[s] = @ + 1, !.job[s] = "Queued",
                      !.active = @ \cup ({s} \cap Sidekick), !.queue = Append(@, s)]
  /\ own' = [own EXCEPT ![s] = [gen |-> st.gen, cap |-> limit, epoch |-> epoch]]
  /\ pc' = [pc EXCEPT ![s] = "admitting"]
  /\ UNCHANGED <<limit, slots, cancelled, woken, skVars, outVars>>

Refuse(s) ==
  /\ pc[s] = "new" /\ ~CanAdmit
  /\ pc' = [pc EXCEPT ![s] = "over"]
  /\ UNCHANGED <<st, limit, own, slots, cancelled, woken, skVars, outVars>>

RoomForOneMore(c) == c = 0 \/ st.running =< c    \* mutation: off by one

(* try_start under the limit c.                                            *)
Room(c) == c = 0 \/ st.running < c
CanStart(s, c) ==
  /\ s \in Registered \ cancelled
  /\ Room(c)
  /\ st.queue # <<>> /\ Head(st.queue) = s

Start(s, c) ==
  /\ st' = [st EXCEPT !.queue = Tail(@), !.running = @ + 1, !.job[s] = "Running"]
  /\ slots' = slots \cup {s}
  /\ IF Tail(st.queue) # <<>> /\ (c = 0 \/ st.running + 1 < c)
     THEN Wake
     ELSE UNCHANGED woken

TryStart(s, c, won, lost) ==
  \/ CanStart(s, c) /\ Start(s, c) /\ pc' = [pc EXCEPT ![s] = won]
  \/ ~CanStart(s, c) /\ UNCHANGED <<st, slots, woken>> /\ pc' = [pc EXCEPT ![s] = lost]

(* admit_job's own attempt, under the limit it read at first.              *)
FirstTry(s) ==
  /\ pc[s] = "admitting"
  /\ TryStart(s, own[s].cap, "admitted", "admitted")
  /\ UNCHANGED <<limit, own, cancelled, skVars, outVars>>

(* detach_subagent                                                         *)
Detach(s) ==
  /\ s \in Job /\ pc[s] = "admitted"
  /\ pc' = [pc EXCEPT ![s] = IF s \in slots THEN "running" ELSE "mark"]
  /\ UNCHANGED <<st, limit, own, slots, cancelled, woken, skVars, outVars>>

(* Host setup failed: dropping the Admission rolls registration back, its  *)
(* slot is dropped afterwards.                                             *)
DropAdmission(s) ==
  /\ s \in Job /\ pc[s] = "admitted"
  /\ st' = IF st.gen = own[s].gen THEN Unreserve(Unregister(st, {s}), {s}) ELSE st
  /\ pc' = [pc EXCEPT ![s] = IF s \in slots THEN "rollback" ELSE "over"]
  /\ Wake
  /\ UNCHANGED <<limit, own, slots, cancelled, skVars, outVars>>

-----------------------------------------------------------------------------
(* acquire: waiting for a slot                                             *)

(* Both watches are marked seen before the attempt.                        *)
Mark(s) ==
  /\ pc[s] = "mark"
  /\ own' = [own EXCEPT ![s].cap = limit]
  /\ woken' = woken \ {s}
  /\ pc' = [pc EXCEPT ![s] = "check"]
  /\ UNCHANGED <<st, limit, slots, cancelled, skVars, outVars>>

Check(s) ==
  /\ pc[s] = "check"
  /\ TryStart(s, own[s].cap, "running", "wait")
  /\ UNCHANGED <<limit, own, cancelled, skVars, outVars>>

(* The token a waiting worker watches; a sidekick's turn has one of its own. *)
Stopped(s) == s \in cancelled \/ (s \in Sidekick /\ sk[s].stop)

(* The select is biased: cancellation comes first.                         *)
Rouse(s) ==
  /\ pc[s] = "wait" /\ s \in woken /\ ~Stopped(s)
  /\ pc' = [pc EXCEPT ![s] = "mark"]
  /\ UNCHANGED <<st, limit, own, slots, cancelled, woken, skVars, outVars>>

GiveUpQuietly(s) ==    \* mutation: the queue entry is left behind
  /\ pc[s] = "wait" /\ Stopped(s)
  /\ pc' = [pc EXCEPT ![s] = "ending"]
  /\ UNCHANGED <<st, limit, own, slots, cancelled, woken, skVars, outVars>>

(* dequeue wakes the others only if the head of the queue went.            *)
GiveUp(s) ==
  /\ pc[s] = "wait" /\ Stopped(s)
  /\ st' = [st EXCEPT !.queue = Without(@, {s})]
  /\ IF st.queue # <<>> /\ Head(st.queue) = s THEN Wake ELSE UNCHANGED woken
  /\ pc' = [pc EXCEPT ![s] = "ending"]
  /\ UNCHANGED <<limit, own, slots, cancelled, skVars, outVars>>

-----------------------------------------------------------------------------
(* The end of a worker                                                     *)

Release == st' = [st EXCEPT !.running = IF @ = 0 THEN 0 ELSE @ - 1]

EndRunSilent(s) ==    \* mutation: nobody is woken for the freed slot
  /\ pc[s] \in {"running", "rollback"}
  /\ Release /\ slots' = slots \ {s}
  /\ pc' = [pc EXCEPT ![s] = IF pc[s] = "running" THEN "ending" ELSE "over"]
  /\ UNCHANGED <<limit, own, cancelled, woken, skVars, outVars>>

(* The agent's run is over, whether it answered, failed, was cancelled or  *)
(* panicked; the slot is dropped.                                          *)
EndRun(s) ==
  /\ pc[s] \in {"running", "rollback"}
  /\ Release /\ slots' = slots \ {s}
  /\ Wake
  /\ pc' = [pc EXCEPT ![s] = IF pc[s] = "running" THEN "ending" ELSE "over"]
  /\ UNCHANGED <<limit, own, cancelled, skVars, outVars>>

(* Completion::drop: finish, then the notifier.                            *)
Finish(s) ==
  /\ s \in Job /\ pc[s] = "ending"
  /\ st' = IF st.gen = own[s].gen THEN Unregister(st, {s}) ELSE st
  /\ sent' = sent \cup {[spawn |-> s, turn |-> 1, gen |-> own[s].gen, epoch |-> own[s].epoch]}
  /\ Wake
  /\ pc' = [pc EXCEPT ![s] = "over"]
  /\ UNCHANGED <<limit, own, slots, cancelled, skVars, epoch, closing, waiter>>

-----------------------------------------------------------------------------
(* Sidekicks                                                               *)

(* start_sidekick enters the admitted sidekick into the registry, ...      *)
RegisterSidekick(k) ==
  /\ pc[k] = "admitted"
  /\ sk' = [sk EXCEPT ![k].live = TRUE]
  /\ pc' = [pc EXCEPT ![k] = "registered"]
  /\ UNCHANGED <<st, limit, own, slots, cancelled, woken, reports, outVars>>

(* ... begins its first turn and spawns the task.                          *)
BeginFirstTurn(k) ==
  /\ pc[k] = "registered" /\ k \notin cancelled /\ sk[k].life = "Idle"
  /\ sk' = [sk EXCEPT ![k].life = "Busy"]
  /\ pc' = [pc EXCEPT ![k] = IF k \in slots THEN "running" ELSE "mark"]
  /\ UNCHANGED <<st, limit, own, slots, cancelled, woken, reports, outVars>>

(* begin refuses, and the caller's expect panics; the slot is dropped.     *)
FirstTurnPanics(k) ==
  /\ pc[k] = "registered" /\ (k \in cancelled \/ sk[k].life # "Idle")
  /\ sk' = [sk EXCEPT ![k].life = "Stopped"]
  /\ pc' = [pc EXCEPT ![k] = "panicked"]
  /\ IF k \in slots
     THEN Release /\ slots' = slots \ {k} /\ Wake
     ELSE UNCHANGED <<st, slots, woken>>
  /\ UNCHANGED <<limit, own, cancelled, reports, outVars>>

QueueTurnDedupes(k) ==    \* mutation: one reservation for all turns of a sidekick
  /\ pc[k] = "idle" /\ sk[k].live /\ sk[k].life = "Idle" /\ sk[k].turn < MaxTurns
  /\ SidekickLive(k) /\ CanAdmit
  /\ st' = [st EXCEPT !.unack[k] = 1, !.job[k] = "Queued",
                      !.active = @ \cup {k}, !.queue = Append(@, k)]
  /\ sk' = [sk EXCEPT ![k].life = "Busy", ![k].stop = FALSE, ![k].turn = @ + 1]
  /\ own' = [own EXCEPT ![k].epoch = epoch]
  /\ pc' = [pc EXCEPT ![k] = "queueing"]
  /\ UNCHANGED <<limit, slots, cancelled, woken, reports, outVars>>

(* sidekick_task: begin, then the lock section of queue_sidekick.          *)
QueueTurn(k) ==
  /\ pc[k] = "idle" /\ sk[k].live /\ sk[k].life = "Idle" /\ sk[k].turn < MaxTurns
  /\ SidekickLive(k) /\ CanAdmit
  /\ st' = [st EXCEPT !.unack[k] = @ + 1, !.job[k] = "Queued",
                      !.active = @ \cup {k}, !.queue = Append(@, k)]
  /\ sk' = [sk EXCEPT ![k].life = "Busy", ![k].stop = FALSE, ![k].turn = @ + 1]
  /\ own' = [own EXCEPT ![k].epoch = epoch]
  /\ pc' = [pc EXCEPT ![k] = "queueing"]
  /\ UNCHANGED <<limit, slots, cancelled, woken, reports, outVars>>

QueueTry(k) ==
  /\ pc[k] = "queueing"
  /\ \/ CanStart(k, limit) /\ Start(k, limit) /\ pc' = [pc EXCEPT ![k] = "running"]
     \/ /\ ~CanStart(k, limit) /\ Wake
        /\ pc' = [pc EXCEPT ![k] = "mark"]
        /\ UNCHANGED <<st, slots>>
  /\ UNCHANGED <<limit, own, cancelled, skVars, outVars>>

(* sidekick_status and sidekick_task stop a sidekick the manager dropped.  *)
NoticeDead(k) ==
  /\ sk[k].live /\ pc[k] # "registered" /\ ~SidekickLive(k) /\ sk[k].life # "Stopped"
  /\ sk' = [sk EXCEPT ![k].life = "Stopped", ![k].stop = sk[k].life = "Busy"]
  /\ UNCHANGED <<st, limit, workVars, reports, outVars>>

Report(k) == [spawn |-> k, turn |-> sk[k].turn, epoch |-> own[k].epoch, step |-> "check"]

(* The lease is dropped: Sidekick::finish and sidekick_idle.               *)
FinishTurn(k) ==
  /\ pc[k] = "ending"
  /\ sk' = [sk EXCEPT ![k].life = IF @ = "Busy" /\ SidekickLive(k) THEN "Idle" ELSE @]
  /\ st' = IF k \in Registered
           THEN [st EXCEPT !.job[k] = "Queued", !.active = @ \ {k}, !.queue = Without(@, {k})]
           ELSE st
  /\ reports' = reports \cup {Report(k)}
  /\ Wake
  /\ pc' = [pc EXCEPT ![k] = "idle"]
  /\ UNCHANGED <<limit, own, slots, cancelled, outVars>>

(* The turn's task asks whether the sidekick is live, and only then reads  *)
(* the generation it stamps its notification with.                         *)
CheckReport(r) ==
  /\ r.step = "check"
  /\ reports' = (reports \ {r}) \cup
                  (IF SidekickLive(r.spawn) THEN {[r EXCEPT !.step = "stamp"]} ELSE {})
  /\ UNCHANGED <<st, limit, workVars, sk, outVars>>

SendReport(r) ==
  /\ r.step = "stamp"
  /\ reports' = reports \ {r}
  /\ sent' = sent \cup {[spawn |-> r.spawn, turn |-> r.turn, gen |-> st.gen, epoch |-> r.epoch]}
  /\ UNCHANGED <<st, limit, workVars, sk, epoch, closing, waiter>>

(* Sidekick::stop and finish_sidekick for the sidekicks in S.              *)
StopThem(S) ==
  /\ sk' = [k \in Sidekick |->
              IF k \in S
              THEN [sk[k] EXCEPT !.live = FALSE, !.life = "Stopped",
                                 !.stop = @ \/ sk[k].life = "Busy"]
              ELSE sk[k]]
  /\ st' = [Unreserve(Unregister(st, S), S) EXCEPT !.suppressed = @ \cup S]

(* Its handle is known to the caller once the first turn was begun.        *)
Disclosed(k) == pc[k] \notin {"new", "admitting", "admitted", "registered"}

StopSidekick(k) ==
  /\ sk[k].live /\ Disclosed(k)
  /\ StopThem({k}) /\ Wake
  /\ UNCHANGED <<limit, pc, own, slots, cancelled, reports, outVars>>

-----------------------------------------------------------------------------
(* Control                                                                 *)

(* cancel: the worker stays registered until it notices.                   *)
CancelJob(s) ==
  /\ s \in Registered \ cancelled /\ (s \in Sidekick => Disclosed(s))
  /\ cancelled' = cancelled \cup {s}
  /\ UNCHANGED <<st, limit, pc, own, slots, woken, skVars, outVars>>

(* cancel_all: ordinary jobs only; sidekicks are kept.                     *)
CancelAll ==
  /\ st.gen < MaxGen
  /\ LET ids == Registered \ Sidekick IN
     /\ st' = [Unreserve(Unregister(st, ids), ids) EXCEPT
                 !.gen = @ + 1, !.suppressed = @ \cup ids]
     /\ cancelled' = cancelled \cup ids
  /\ Wake
  /\ UNCHANGED <<limit, pc, own, slots, skVars, outVars>>

ResetCounts(u) ==    \* mutation: the count of live slots is reset, too
  [Unreserve(Unregister(u, Spawn), Spawn) EXCEPT
     !.gen = @ + 1, !.suppressed = {}, !.running = 0]

(* reset; live slots stay counted.                                         *)
ResetState(u) ==
  [Unreserve(Unregister(u, Spawn), Spawn) EXCEPT !.gen = @ + 1, !.suppressed = {}]
ResetEffect ==
  /\ st' = ResetState(st)
  /\ cancelled' = cancelled \cup Registered
  /\ epoch' = epoch + 1
  /\ Wake

Reset ==
  /\ st.gen < MaxGen /\ ~closing
  /\ ResetEffect
  /\ UNCHANGED <<limit, pc, own, slots, skVars, sent, closing, waiter>>

(* close: first refuse every admission, then reset.                        *)
Close ==
  /\ st.gen < MaxGen /\ ~st.closed /\ ~closing
  /\ st' = [st EXCEPT !.closed = TRUE] /\ closing' = TRUE
  /\ UNCHANGED <<limit, workVars, skVars, sent, epoch, waiter>>

CloseReset ==
  /\ closing
  /\ ResetEffect /\ closing' = FALSE
  /\ UNCHANGED <<limit, pc, own, slots, skVars, sent, waiter>>

(* /subagents changes the live limit; the watch wakes every waiter.        *)
SetLimit(l) ==
  /\ l # limit /\ limit' = l
  /\ Wake
  /\ UNCHANGED <<st, pc, own, slots, cancelled, skVars, outVars>>

-----------------------------------------------------------------------------
(* wait_idle, as a host awaits it once close has returned.                 *)

(* live_workers                                                            *)
Slotted == {s \in Spawn : st.job[s] = "Running"}
RetainedIdle == (Registered \cap Sidekick) \ st.active
LiveWorkers ==
  LET extra == st.running - Cardinality(Slotted)
  IN  Cardinality(Registered \ RetainedIdle) + (IF extra > 0 THEN extra ELSE 0)

WaitIdle ==
  /\ waiter = "off" /\ st.closed /\ ~closing
  /\ waiter' = "mark"
  /\ UNCHANGED <<st, limit, workVars, skVars, sent, epoch, closing>>

WaitMark ==
  /\ waiter = "mark" /\ waiter' = "check" /\ woken' = woken \ {Host}
  /\ UNCHANGED <<st, limit, pc, own, slots, cancelled, skVars, sent, epoch, closing>>

WaitCheck ==
  /\ waiter = "check" /\ waiter' = IF LiveWorkers = 0 THEN "returned" ELSE "wait"
  /\ UNCHANGED <<st, limit, workVars, skVars, sent, epoch, closing>>

WaitRouse ==
  /\ waiter = "wait" /\ Host \in woken /\ waiter' = "mark"
  /\ UNCHANGED <<st, limit, workVars, skVars, sent, epoch, closing>>

HostWaits == WaitIdle \/ WaitMark \/ WaitCheck \/ WaitRouse

-----------------------------------------------------------------------------
Admission(s) == Admit(s) \/ Refuse(s) \/ FirstTry(s) \/ Detach(s) \/ DropAdmission(s)
Waiting(s)   == Mark(s) \/ Check(s) \/ Rouse(s) \/ GiveUp(s)
Starting(k)  == RegisterSidekick(k) \/ BeginFirstTurn(k) \/ FirstTurnPanics(k) \/ QueueTry(k)
Ending(s)    == EndRun(s) \/ Finish(s)

WorkerStep(s) == Admission(s) \/ Waiting(s) \/ Ending(s)
SidekickStep(k) ==
  Starting(k) \/ QueueTurn(k) \/ FinishTurn(k) \/ NoticeDead(k) \/ StopSidekick(k)
ReportStep(r) == CheckReport(r) \/ SendReport(r)

(* Nothing is left to do.                                                  *)
Quiet ==
  /\ \A s \in Spawn : pc[s] \in {"new", "idle", "panicked", "over"}
  /\ reports = {} /\ ~closing
  /\ UNCHANGED managerVars

ManagerNext ==
  \/ \E s \in Spawn : WorkerStep(s) \/ CancelJob(s)
  \/ \E k \in Sidekick : SidekickStep(k)
  \/ \E r \in reports : ReportStep(r)
  \/ CancelAll
  \/ \E l \in LimitValues : SetLimit(l)

Next == ManagerNext \/ Reset \/ Close \/ CloseReset \/ HostWaits \/ Quiet

Spec == Init /\ [][Next]_managerVars

(***************************************************************************)
(* The runtime keeps polling the workers.  Agents end: a model call        *)
(* returns, fails or is interrupted by its token or the worker's timeout.  *)
(***************************************************************************)
ManagerFairness ==
  /\ \A s \in Spawn :
       /\ WF_managerVars(FirstTry(s)) /\ WF_managerVars(Detach(s) \/ DropAdmission(s))
       /\ WF_managerVars(Waiting(s)) /\ WF_managerVars(Ending(s))
  /\ \A k \in Sidekick : WF_managerVars(Starting(k)) /\ WF_managerVars(FinishTurn(k))
  /\ WF_managerVars(CloseReset) /\ WF_managerVars(HostWaits)

-----------------------------------------------------------------------------
(* Properties                                                              *)

TypeOK ==
  /\ st \in ManagerState
  /\ limit \in LimitValues
  /\ pc \in [Spawn -> PC]
  /\ own \in [Spawn -> [gen : Nat, cap : Nat, epoch : Nat]]
  /\ slots \in SUBSET Spawn /\ cancelled \in SUBSET Spawn
  /\ woken \in SUBSET (Spawn \cup {Host})
  /\ sk \in [Sidekick -> [life : Life, live : BOOLEAN, stop : BOOLEAN, turn : Nat]]
  /\ reports \in SUBSET [spawn : Sidekick, turn : Nat, epoch : Nat, step : {"check", "stamp"}]
  /\ sent \in SUBSET Notification
  /\ epoch \in Nat /\ closing \in BOOLEAN /\ waiter \in WaiterPC

(***************************************************************************)
(* "Retain live slots": the count of running workers is the number of slot *)
(* guards alive, across cancel_all, reset and close, so capacity is freed  *)
(* only when workers exit and never twice.                                 *)
(***************************************************************************)
SlotAccounting == st.running = Cardinality(slots)

(***************************************************************************)
(* A worker that gets its slot leaves no more guards alive than the limit  *)
(* it was started under, the workers of replaced conversations and         *)
(* cancelled batches that have not exited yet included.                    *)
(***************************************************************************)
LimitRespected ==
  [][\A s \in slots' \ slots :
       LET c == IF pc[s] = "queueing" THEN limit ELSE own[s].cap
       IN  c = 0 \/ Cardinality(slots') =< c]_managerVars

(***************************************************************************)
(* The queue holds no ghosts: every entry is the only one of a registered  *)
(* job without a slot whose worker will come for it or take it out.  A     *)
(* left-over entry at the head would hold up every later spawn for ever.   *)
(***************************************************************************)
Coming == {"admitting", "admitted", "registered", "queueing"} \cup Acquiring
QueueIsServed ==
  /\ \A i, j \in DOMAIN st.queue : st.queue[i] = st.queue[j] => i = j
  /\ \A s \in Range(st.queue) :
       st.job[s] = "Queued" /\ pc[s] \in Coming /\ s \notin slots

(* wait_idle is right to return: with no live workers nobody holds a slot, *)
(* no job is admitted but idle sidekicks, and no worker can still start.   *)
IdleIsIdle ==
  LiveWorkers = 0 =>
    /\ slots = {}
    /\ Registered = RetainedIdle
    /\ \A s \in Spawn : pc[s] # "running" /\ ~CanStart(s, 0)

(* "Every admission path is refused afterwards, so wait_idle cannot be     *)
(* extended by new work": a closed and idle manager stays idle.            *)
ClosedStaysIdle ==
  [][st.closed /\ ~closing /\ LiveWorkers = 0 => LiveWorkers' = 0]_managerVars

(* A waiting worker is not left waiting: it gets a slot or gives up.       *)
QueueMoves ==
  \A s \in Spawn : pc[s] \in Acquiring ~> pc[s] \notin Acquiring

(* Shutdown ends: once closed, the host's wait_idle returns.  No wake-up   *)
(* is missed between its check and its wait.                               *)
ShutdownReturns == st.closed ~> waiter = "returned"

(***************************************************************************)
(* The manager's counts are well formed, and `running` is exactly the      *)
(* number of slots that are held, across resets that forget the jobs which *)
(* hold them.                                                              *)
(***************************************************************************)
SlotsExact == TypeOK /\ SlotAccounting

(***************************************************************************)
(* The two ways the manager can lose track of work: a queue entry that     *)
(* nobody will come for stops every later spawn, and a live_workers of     *)
(* zero while something runs ends a shutdown early.                        *)
(***************************************************************************)
NothingForgotten == QueueIsServed /\ IdleIsIdle

(***************************************************************************)
(* What no step of the manager does: start a worker beyond the limit in    *)
(* force, or begin anything once it is closed and idle.                    *)
(***************************************************************************)
StartsAllowed == LimitRespected /\ ClosedStaysIdle

(* Every waiter is served or given up, and wait_idle returns after close.  *)
ManagerMoves == QueueMoves /\ ShutdownReturns
=============================================================================
