----------------------------- MODULE Dispatcher -----------------------------
(***************************************************************************)
(* One dispatch of a batch of tool calls: Dispatcher::execute and          *)
(* SharedExecution::run_job of crates/harness-core/src/dispatcher.rs.      *)
(*                                                                         *)
(* The dispatching task runs the before_tool hooks in call order and       *)
(* groups the surviving calls (phase "preflight"), spawns one task per     *)
(* unit (a single call or a chain) but one, which it runs inline, joins    *)
(* the tasks (phase "execute"), and runs the after_tool hooks in call      *)
(* order (phase "collect").  The tasks run concurrently; each takes its    *)
(* calls in order through semaphore permit, RwLock, tool and tool_finished *)
(* hooks.  Cancellation, the run deadline, a panicking tool or hook, and a *)
(* host that drops the run's future may strike at any moment.              *)
(***************************************************************************)
EXTENDS Grouping, Sequences

CONSTANTS
  CallId,        \* the call ids a model may use
  EmptyId,       \* the empty call id
  Batches,       \* the batches a model may ask for: sequences of call ids
  Classes,       \* the concurrency classes the tools give their calls
  MaxParallel,   \* Limits::max_parallel_tools
  HasDeadline,   \* whether Limits::deadline is set
  MayPanic,      \* whether tools and hooks may panic
  MayDrop        \* whether the host may drop the run's future

ASSUME BatchesAssumption ==
  \A b \in Batches : b \in Seq(CallId) /\ Len(b) =< MaxCalls
ASSUME ClassesAssumption == Classes \subseteq Concurrency
ASSUME MaxParallelAssumption == MaxParallel \in Nat
ASSUME SwitchesAssumption ==
  HasDeadline \in BOOLEAN /\ MayPanic \in BOOLEAN /\ MayDrop \in BOOLEAN

VARIABLES
  batch,      \* the calls of this dispatch, by id
  phase,      \* where the dispatching task is in execute
  cursor,     \* the call its hook loops are at
  class,      \* tool.concurrency(&input) of each call that became a job
  group,      \* the Grouping under construction
  task,       \* the tasks of the units
  pc,         \* where each call is in run_job
  started,    \* history: the calls whose tool was polled
  permits,    \* the calls holding a semaphore permit
  semQ,       \* <<x, y>>: x waits for one ahead of y, first come first served
  readers,    \* the calls holding the RwLock shared
  writer,     \* the calls holding it exclusively
  lockQ,      \* <<x, y>>: x waits for it ahead of y, first come first served
  outcome,    \* what run_job computed for each call
  slots,      \* the results the dispatching task has collected
  executed,   \* the calls whose slot was filled by a job
  notified,   \* history: the number of tool_finished rounds per call
  failure,    \* a joined task had panicked; the others are being aborted
  cancelled,  \* the run's CancellationToken
  expired,    \* the run deadline has passed
  ret         \* what execute returned

planVars == <<batch, class, group>>
lockVars == <<permits, semQ, readers, writer, lockQ>>
envVars  == <<cancelled, expired>>
slotVars == <<slots, executed>>
vars == <<batch, phase, cursor, class, group, task, pc, started, permits, semQ,
          readers, writer, lockQ, outcome, slots, executed, notified, failure,
          cancelled, expired, ret>>

-----------------------------------------------------------------------------
(* Values                                                                  *)

Phase == {"preflight", "execute", "collect", "returned", "unwound"}

(* A unit is what one task runs; the tags are those of the enum Chain.     *)
Unit == {"One", "Many"} \X Index
TaskState == {"unspawned", "live", "panicked", "aborted", "joined"}

Waiting == {"permit_wait", "lock_wait"}
Active  == Waiting \cup {"permitted", "locked", "running", "finishing"}
PC      == {"idle", "done", "lost"} \cup Active

(* A result is known by what produced it: "unknown" and "denied" come from *)
(* preflight, "tool" is what the tool returned, Ok or Err, and the others  *)
(* are the errors of fn interrupted.                                       *)
Interrupted == {"cancelled_before", "cancelled_during",
                "deadline_before", "deadline_during"}
Outcome == {"tool"} \cup Interrupted
Result  == {"none", "unknown", "denied"} \cup Outcome

Returned == {"none", "Ok", "InvalidToolCall", "Extension", "Internal"}

-----------------------------------------------------------------------------
(* The plan of the batch                                                   *)

Calls == 1..Len(batch)
Jobs  == JobsIn(class)

Width == IF MaxParallel = 0 THEN 1 ELSE MaxParallel
HasSemaphoreLate == Cardinality(Jobs) > Width + 1    \* mutation: off by one
HasSemaphore == Cardinality(Jobs) > Width
HasLock      == \E i \in Jobs : class[i] = Serial
Exclusive(i) == class[i] = Serial

Greatest(S) == CHOOSE x \in S : \A y \in S : y =< x

UnitOf(i)  == IF i \in group.singles THEN <<"One", i>> ELSE <<"Many", group.chain[i]>>
Units      == {UnitOf(i) : i \in Jobs}
JobsOf(u)  == {i \in Jobs : UnitOf(i) = u}

(* The last single if there is one, else the last chain that has jobs.     *)
InlineUnit ==
  IF group.singles # {}
  THEN <<"One", Greatest(group.singles)>>
  ELSE <<"Many", Greatest({group.chain[i] : i \in Jobs})>>

-----------------------------------------------------------------------------
(* validate_pairing                                                        *)
ValidPairing ==
  \A i, j \in Calls : batch[i] # EmptyId /\ (batch[i] = batch[j] => i = j)

Init ==
  /\ batch \in Batches
  /\ phase = "preflight" /\ cursor = 1 /\ ret = "none"
  /\ class = [i \in Index |-> NoClass]
  /\ group = EmptyGrouping
  /\ task = [u \in Unit |-> "unspawned"]
  /\ pc = [i \in Index |-> "idle"]
  /\ started = {}
  /\ permits = {} /\ semQ = {} /\ readers = {} /\ writer = {} /\ lockQ = {}
  /\ outcome = [i \in Index |-> "none"]
  /\ slots = [i \in Index |-> "none"]
  /\ executed = {}
  /\ notified = [i \in Index |-> 0]
  /\ failure = FALSE
  /\ cancelled \in BOOLEAN
  /\ expired = FALSE

Return(r) == phase' = "returned" /\ ret' = r

-----------------------------------------------------------------------------
(* Phase 1: deterministic pre-hooks, in call order                         *)

RejectPairing ==
  /\ phase = "preflight" /\ cursor = 1 /\ ~ValidPairing
  /\ Return("InvalidToolCall")
  /\ UNCHANGED <<planVars, lockVars, envVars, slotVars, cursor, task, pc, started,
                 outcome, notified, failure>>

InPreflight == phase = "preflight" /\ ValidPairing

(* No tool has the call's name.                                            *)
UnknownTool ==
  /\ InPreflight /\ cursor \in Calls
  /\ slots' = [slots EXCEPT ![cursor] = "unknown"]
  /\ cursor' = cursor + 1
  /\ UNCHANGED <<planVars, lockVars, envVars, executed, phase, task, pc, started,
                 outcome, notified, failure, ret>>

(* A before_tool hook denies the call, which tool_finished reports at once. *)
DenyTool ==
  /\ InPreflight /\ cursor \in Calls
  /\ slots' = [slots EXCEPT ![cursor] = "denied"]
  /\ notified' = [notified EXCEPT ![cursor] = @ + 1]
  /\ cursor' = cursor + 1
  /\ UNCHANGED <<planVars, lockVars, envVars, executed, phase, task, pc, started,
                 outcome, failure, ret>>

(* A before_tool hook fails, which ends the run.                           *)
BeforeToolFails ==
  /\ InPreflight /\ cursor \in Calls
  /\ Return("Extension")
  /\ UNCHANGED <<planVars, lockVars, envVars, slotVars, cursor, task, pc, started,
                 outcome, notified, failure>>

(* The call, rewritten or not, is classified and becomes a job.            *)
AdmitTool(c) ==
  /\ InPreflight /\ cursor \in Calls
  /\ class' = [class EXCEPT ![cursor] = c]
  /\ group' = Add(group, cursor, c)
  /\ cursor' = cursor + 1
  /\ UNCHANGED <<lockVars, envVars, slotVars, batch, phase, task, pc, started,
                 outcome, notified, failure, ret>>

StartExecution ==
  /\ InPreflight /\ cursor = Len(batch) + 1
  /\ phase' = IF Jobs = {} THEN "collect" ELSE "execute"
  /\ cursor' = 1
  /\ task' = [u \in Unit |-> IF u \in Units THEN "live" ELSE "unspawned"]
  /\ UNCHANGED <<planVars, lockVars, envVars, slotVars, pc, started, outcome,
                 notified, failure, ret>>

-----------------------------------------------------------------------------
(* Phase 2: run_job                                                        *)

(* The task of i has come to i: the calls before it in its chain are over. *)
AtHead(i) ==
  /\ i \in Jobs /\ pc[i] = "idle" /\ task[UnitOf(i)] = "live"
  /\ \A x \in Jobs : <<x, i>> \in group.order => pc[x] = "done"

(* The three points where run_job calls guarded, each skipped when the     *)
(* batch cannot contend on what it acquires.                               *)
AtPermit(i) == HasSemaphore /\ AtHead(i)
HasPermit(i) == IF HasSemaphore THEN pc[i] = "permitted" ELSE AtHead(i)
AtLock(i) == HasLock /\ HasPermit(i)
AtTool(i) == IF HasLock THEN pc[i] = "locked" ELSE HasPermit(i)

JobUnchanged == UNCHANGED <<planVars, envVars, phase, cursor, task, failure, ret>>

(* The calls at a wait, the queue once i has joined it, and once the calls *)
(* of S have left it.                                                      *)
At(w) == {x \in Index : pc[x] = w}
JoinQ(q, w, i) == q \cup (At(w) \X {i})
LeaveQ(q, S) == {p \in q : p[1] \notin S /\ p[2] \notin S}
First(q, i) == \A x \in Index : <<x, i>> \notin q

(* guarded(semaphore.acquire()): the first poll, with no token cancelled.  *)
RequestPermit(i) ==
  /\ AtPermit(i) /\ ~cancelled
  /\ pc' = [pc EXCEPT ![i] = "permit_wait"]
  /\ semQ' = JoinQ(semQ, "permit_wait", i)
  /\ UNCHANGED <<permits, readers, writer, lockQ, started, outcome, slotVars, notified>>
  /\ JobUnchanged

PermitReady(i) == First(semQ, i) /\ Cardinality(permits) < Width

(* The select polls the token before the semaphore, so a cancellation that *)
(* falls between the two polls does not keep the permit from being granted. *)
GrantPermit(i) ==
  /\ pc[i] = "permit_wait" /\ PermitReady(i)
  /\ pc' = [pc EXCEPT ![i] = "permitted"]
  /\ permits' = permits \cup {i}
  /\ semQ' = LeaveQ(semQ, {i})
  /\ UNCHANGED <<readers, writer, lockQ, started, outcome, slotVars, notified>>
  /\ JobUnchanged

RequestLock(i) ==
  /\ AtLock(i) /\ ~cancelled
  /\ pc' = [pc EXCEPT ![i] = "lock_wait"]
  /\ lockQ' = JoinQ(lockQ, "lock_wait", i)
  /\ UNCHANGED <<permits, semQ, readers, writer, started, outcome, slotVars, notified>>
  /\ JobUnchanged

LockReady(i) ==
  /\ First(lockQ, i)
  /\ writer = {}
  /\ Exclusive(i) => readers = {}

GrantLockShared(i) ==    \* mutation: a serial call takes the read lock too
  /\ pc[i] = "lock_wait" /\ LockReady(i)
  /\ pc' = [pc EXCEPT ![i] = "locked"]
  /\ readers' = readers \cup {i} /\ UNCHANGED writer
  /\ lockQ' = LeaveQ(lockQ, {i})
  /\ UNCHANGED <<permits, semQ, started, outcome, slotVars, notified>>
  /\ JobUnchanged

GrantLock(i) ==
  /\ pc[i] = "lock_wait" /\ LockReady(i)
  /\ pc' = [pc EXCEPT ![i] = "locked"]
  /\ IF Exclusive(i)
     THEN writer' = writer \cup {i} /\ UNCHANGED readers
     ELSE readers' = readers \cup {i} /\ UNCHANGED writer
  /\ lockQ' = LeaveQ(lockQ, {i})
  /\ UNCHANGED <<permits, semQ, started, outcome, slotVars, notified>>
  /\ JobUnchanged

StartToolUnchecked(i) ==    \* mutation: the fast path skips the token
  /\ AtTool(i)
  /\ pc' = [pc EXCEPT ![i] = "running"]
  /\ started' = started \cup {i}
  /\ UNCHANGED <<lockVars, outcome, slotVars, notified>>
  /\ JobUnchanged

(* The first poll of the tool, or of the around_tool chain that wraps it,  *)
(* right after guarded has seen the token not cancelled: the step stands   *)
(* for both, at the moment of that look.                                   *)
StartTool(i) ==
  /\ AtTool(i) /\ ~cancelled
  /\ pc' = [pc EXCEPT ![i] = "running"]
  /\ started' = started \cup {i}
  /\ UNCHANGED <<lockVars, outcome, slotVars, notified>>
  /\ JobUnchanged

(* run_job settles on a result and enters finish, still holding its guards. *)
Conclude(i, o) ==
  /\ pc' = [pc EXCEPT ![i] = "finishing"]
  /\ outcome' = [outcome EXCEPT ![i] = o]
  /\ semQ' = LeaveQ(semQ, {i})
  /\ lockQ' = LeaveQ(lockQ, {i})
  /\ UNCHANGED <<permits, readers, writer, started, slotVars, notified>>
  /\ JobUnchanged

(* Possible under a cancelled token too: the poll that made the tool ready *)
(* may have begun before the cancellation.                                 *)
ToolReturns(i) ==
  /\ pc[i] = "running"
  /\ Conclude(i, "tool")

CancelBefore(i) ==
  /\ cancelled
  /\ AtPermit(i) \/ AtLock(i) \/ pc[i] \in Waiting
  /\ Conclude(i, "cancelled_before")

(* The call at the tool's guard is reported as the running one is.         *)
CancelDuring(i) ==
  /\ cancelled
  /\ AtTool(i) \/ pc[i] = "running"
  /\ Conclude(i, "cancelled_during")

(* timeout_at polls the acquisition before the clock.  The token may have   *)
(* been cancelled since the select polled it.                              *)
ExpireBefore(i) ==
  /\ expired
  /\ \/ pc[i] = "permit_wait" /\ ~PermitReady(i)
     \/ pc[i] = "lock_wait" /\ ~LockReady(i)
  /\ Conclude(i, "deadline_before")

ExpireDuring(i) ==
  /\ expired
  /\ pc[i] = "running"
  /\ Conclude(i, "deadline_during")

FinishJobKeepsPermit(i) ==    \* mutation: the permit outlives the job
  /\ pc[i] = "finishing"
  /\ pc' = [pc EXCEPT ![i] = "done"]
  /\ notified' = [notified EXCEPT ![i] = @ + 1]
  /\ readers' = readers \ {i}
  /\ writer' = writer \ {i}
  /\ IF UnitOf(i) = InlineUnit
     THEN slots' = [slots EXCEPT ![i] = outcome[i]] /\ executed' = executed \cup {i}
     ELSE UNCHANGED slotVars
  /\ UNCHANGED <<permits, semQ, lockQ, started, outcome>>
  /\ JobUnchanged

(* The tool_finished hooks are over: run_job returns, dropping the guards. *)
(* The dispatching task stores what it ran inline straight away.           *)
FinishJob(i) ==
  /\ pc[i] = "finishing"
  /\ pc' = [pc EXCEPT ![i] = "done"]
  /\ notified' = [notified EXCEPT ![i] = @ + 1]
  /\ permits' = permits \ {i}
  /\ readers' = readers \ {i}
  /\ writer' = writer \ {i}
  /\ IF UnitOf(i) = InlineUnit
     THEN slots' = [slots EXCEPT ![i] = outcome[i]] /\ executed' = executed \cup {i}
     ELSE UNCHANGED slotVars
  /\ UNCHANGED <<semQ, lockQ, started, outcome>>
  /\ JobUnchanged

-----------------------------------------------------------------------------
(* Phase 2: panics, aborts and joins                                       *)

(* Unwinding or dropping the task of u drops the guards of its current job. *)
LoseJobs(u) ==
  LET lost == {i \in JobsOf(u) : pc[i] \in Active}
  IN  /\ pc' = [i \in Index |-> IF i \in lost THEN "lost" ELSE pc[i]]
      /\ permits' = permits \ lost
      /\ readers' = readers \ lost
      /\ writer' = writer \ lost
      /\ semQ' = LeaveQ(semQ, lost)
      /\ lockQ' = LeaveQ(lockQ, lost)

CanPanic(u) == MayPanic /\ \E i \in JobsOf(u) : pc[i] \in {"running", "finishing"}

(* A tool or a tool_finished hook panics in a spawned task.                *)
TaskPanics(u) ==
  /\ task[u] = "live" /\ u # InlineUnit /\ CanPanic(u)
  /\ task' = [task EXCEPT ![u] = "panicked"]
  /\ LoseJobs(u)
  /\ UNCHANGED <<planVars, envVars, slotVars, phase, cursor, started, outcome,
                 notified, failure, ret>>

(* The panic is in the dispatching task, or the host drops it: execute is  *)
(* gone, and dropping its JoinSet aborts what it spawned.                  *)
Unwind ==
  /\ \/ phase = "execute" /\ CanPanic(InlineUnit)
     \/ MayDrop /\ phase \in {"preflight", "execute", "collect"}
  /\ phase' = "unwound"
  /\ IF phase = "execute"
     THEN task' = [task EXCEPT ![InlineUnit] = "aborted"] /\ LoseJobs(InlineUnit)
     ELSE UNCHANGED <<task, pc, lockVars>>
  /\ UNCHANGED <<planVars, envVars, slotVars, cursor, started, outcome, notified,
                 failure, ret>>

UnitDone(u) == \A i \in JobsOf(u) : pc[i] = "done"

(* An aborted task is dropped where it next yields.                        *)
AbortTask(u) ==
  /\ failure \/ phase = "unwound"
  /\ task[u] = "live" /\ u # InlineUnit /\ ~UnitDone(u)
  /\ task' = [task EXCEPT ![u] = "aborted"]
  /\ LoseJobs(u)
  /\ UNCHANGED <<planVars, envVars, slotVars, phase, cursor, started, outcome,
                 notified, failure, ret>>

(* join_next is reached only when the inline unit is over.                 *)
Joining == phase = "execute" /\ UnitDone(InlineUnit)

JoinUnchanged ==
  UNCHANGED <<planVars, lockVars, envVars, phase, cursor, pc, started, outcome,
              notified, ret>>

JoinDone(u) ==
  /\ Joining /\ task[u] = "live" /\ u # InlineUnit /\ UnitDone(u)
  /\ task' = [task EXCEPT ![u] = "joined"]
  /\ slots' = [i \in Index |-> IF i \in JobsOf(u) THEN outcome[i] ELSE slots[i]]
  /\ executed' = executed \cup JobsOf(u)
  /\ UNCHANGED failure
  /\ JoinUnchanged

JoinLostSilently(u) ==    \* mutation: a panic is taken for an abort
  /\ Joining /\ task[u] \in {"panicked", "aborted"}
  /\ task' = [task EXCEPT ![u] = "joined"]
  /\ UNCHANGED <<slotVars, failure>>
  /\ JoinUnchanged

JoinLost(u) ==
  /\ Joining /\ task[u] \in {"panicked", "aborted"}
  /\ task' = [task EXCEPT ![u] = "joined"]
  /\ failure' = (failure \/ task[u] = "panicked")
  /\ UNCHANGED slotVars
  /\ JoinUnchanged

EndExecution ==
  /\ Joining /\ \A u \in Units \ {InlineUnit} : task[u] = "joined"
  /\ IF failure THEN Return("Internal") ELSE phase' = "collect" /\ UNCHANGED ret
  /\ UNCHANGED <<planVars, lockVars, envVars, slotVars, cursor, task, pc, started,
                 outcome, notified, failure>>

-----------------------------------------------------------------------------
(* Phase 3: deterministic post-hooks, in call order                        *)

CollectUnchanged ==
  UNCHANGED <<planVars, lockVars, envVars, slotVars, task, pc, started, outcome,
              notified, failure>>

(* A slot left empty is an internal error ("missing result").              *)
CollectResult ==
  /\ phase = "collect" /\ cursor \in Calls
  /\ IF slots[cursor] = "none"
     THEN Return("Internal") /\ UNCHANGED cursor
     ELSE cursor' = cursor + 1 /\ UNCHANGED <<phase, ret>>
  /\ CollectUnchanged

(* after_tool runs for executed calls only, and may fail.                  *)
AfterToolFails ==
  /\ phase = "collect" /\ cursor \in Calls /\ cursor \in executed
  /\ Return("Extension")
  /\ UNCHANGED cursor
  /\ CollectUnchanged

(* The tool_result hooks see every result, then execute returns them.      *)
ReturnResults ==
  /\ phase = "collect" /\ cursor = Len(batch) + 1
  /\ Return("Ok")
  /\ UNCHANGED cursor
  /\ CollectUnchanged

-----------------------------------------------------------------------------
(* The environment                                                         *)

EnvUnchanged ==
  UNCHANGED <<planVars, lockVars, slotVars, phase, cursor, task, pc, started,
              outcome, notified, failure, ret>>

Over ==
  phase \in {"returned", "unwound"} /\ ~\E u \in Unit : task[u] = "live" /\ ~UnitDone(u)

Cancel == ~Over /\ ~cancelled /\ cancelled' = TRUE /\ UNCHANGED expired /\ EnvUnchanged

Expire == ~Over /\ HasDeadline /\ ~expired /\ expired' = TRUE /\ UNCHANGED cancelled /\ EnvUnchanged

(* The dispatch is over; nothing is left to run.                           *)
Stopped == Over /\ UNCHANGED vars

Acquire(i)   == RequestPermit(i) \/ GrantPermit(i) \/ RequestLock(i) \/ GrantLock(i)
Interrupt(i) == CancelBefore(i) \/ CancelDuring(i) \/ ExpireBefore(i) \/ ExpireDuring(i)

Preflight ==
  \/ RejectPairing \/ UnknownTool \/ DenyTool \/ BeforeToolFails
  \/ \E c \in Classes : AdmitTool(c)
  \/ StartExecution

JobStep(i) == Acquire(i) \/ StartTool(i) \/ ToolReturns(i) \/ Interrupt(i) \/ FinishJob(i)

Join == (\E u \in Unit : JoinDone(u) \/ JoinLost(u)) \/ EndExecution

Collect == CollectResult \/ AfterToolFails \/ ReturnResults

Next ==
  \/ Preflight
  \/ \E i \in Index : JobStep(i)
  \/ \E u \in Unit : TaskPanics(u) \/ AbortTask(u)
  \/ Unwind
  \/ Join
  \/ Collect
  \/ Cancel \/ Expire
  \/ Stopped

Spec == Init /\ [][Next]_vars

(***************************************************************************)
(* The runtime keeps polling every task that can move, and hooks return.   *)
(* A tool need not return, nor the host cancel.                            *)
(***************************************************************************)
Fairness ==
  /\ WF_vars(Preflight) /\ WF_vars(Join) /\ WF_vars(Collect)
  /\ \A i \in Index : /\ WF_vars(Acquire(i)) /\ WF_vars(StartTool(i))
                      /\ WF_vars(Interrupt(i)) /\ WF_vars(FinishJob(i))
  /\ \A u \in Unit : WF_vars(AbortTask(u))

FairSpec == Spec /\ Fairness

-----------------------------------------------------------------------------
(* Properties                                                              *)

TypeOK ==
  /\ batch \in Batches
  /\ phase \in Phase
  /\ cursor \in 1..(MaxCalls + 1)
  /\ class \in [Index -> Concurrency \cup {NoClass}]
  /\ group \in GroupingType
  /\ task \in [Unit -> TaskState]
  /\ pc \in [Index -> PC]
  /\ started \in SUBSET Index
  /\ permits \in SUBSET Index
  /\ semQ \in SUBSET (Index \X Index)
  /\ readers \in SUBSET Index
  /\ writer \in SUBSET Index
  /\ lockQ \in SUBSET (Index \X Index)
  /\ outcome \in [Index -> {"none"} \cup Outcome]
  /\ slots \in [Index -> Result]
  /\ executed \in SUBSET Index
  /\ notified \in [Index -> Nat]
  /\ failure \in BOOLEAN
  /\ cancelled \in BOOLEAN
  /\ expired \in BOOLEAN
  /\ ret \in Returned

Running == {i \in Index : pc[i] = "running"}
Ended   == {i \in Index : pc[i] \in {"finishing", "done", "lost"}}

(***************************************************************************)
(* "Serial calls a write lock ... making serial calls exclusive against    *)
(* everything": no call runs while a Serial call does, although the lock   *)
(* is elided in batches without one and chains are spawned independently.  *)
(***************************************************************************)
SerialExclusive ==
  \A i, j \in Running : Exclusive(i) => i = j

(***************************************************************************)
(* Calls sharing a key run in call order and never overlap, through every  *)
(* merge of chains a multi-key call causes: a call's tool starts only      *)
(* after every earlier call with a common key has left its own.            *)
(***************************************************************************)
KeyedInOrder ==
  \A j \in started : \A i \in Jobs :
    i < j /\ class[i].keys \cap class[j].keys # {} => i \in Ended

(* Never more than max_parallel_tools (at least one) tools run at once,    *)
(* also when the semaphore is elided.                                      *)
WidthBound == Cardinality(Running) =< Width

(***************************************************************************)
(* Every call of a dispatch that ran to its end without a panic has its    *)
(* result: the only internal error is the one a panicked task causes, and  *)
(* the "missing result" error is never produced.                           *)
(***************************************************************************)
NoMissingResult == ret = "Internal" => failure

(***************************************************************************)
(* Interruptions are per call: a result the tool produced reaches the      *)
(* model as such, and an interrupted or refused call is never reported as  *)
(* one the tool completed.                                                 *)
(***************************************************************************)
ResultsAreReal ==
  ret = "Ok" =>
    \A i \in Calls :
      /\ slots[i] # "none"
      /\ i \in Jobs => slots[i] = outcome[i] /\ i \in executed
      /\ slots[i] = "tool" => i \in started
      /\ slots[i] \in {"unknown", "denied"} => i \notin started

(* A result that says a call was stopped before execution is true: its     *)
(* tool never ran.                                                         *)
BeforeMeansNotRun ==
  \A i \in Index :
    outcome[i] \in {"cancelled_before", "deadline_before"} => i \notin started

(* tool_finished is fired once for every call that was denied or executed, *)
(* never for one that is still to run, and never twice.                    *)
FinishedOnce ==
  /\ \A i \in Index : notified[i] =< 1
  /\ ret = "Ok" => \A i \in Calls : notified[i] = 1 <=> slots[i] # "unknown"

(* execute never returns while a task it spawned still lives: no tool runs *)
(* on once its dispatch has returned, whatever panicked.                   *)
NoOrphanTask ==
  phase = "returned" =>
    \A i \in Index : pc[i] \notin Active /\ ~AtHead(i)

(* "A cancelled run must not start tools": once the token is cancelled no  *)
(* call of the batch enters its tool, nor does any after execute is over.  *)
NoStartAfterCancel == [][cancelled \/ phase = "returned" => started' = started]_vars

(***************************************************************************)
(* The inductive invariant behind the properties above.  It says what the  *)
(* code relies on without checking: the grouping of the calls seen so far  *)
(* is consistent; nothing executes during preflight; a call that has left  *)
(* "idle" is a job whose predecessors in its chain are done; past a guard  *)
(* a job holds what the guard acquired.                                    *)
(***************************************************************************)
PlanInv ==
  /\ SlotsAgree(group, class)
  /\ CallOrderKept(group, class)
  /\ ChainsAreLists(group)
  /\ group.len =< MaxCalls
  /\ phase = "preflight" => group.len < cursor /\ \A i \in Jobs : i < cursor

QuietInv ==
  phase = "preflight" =>
    /\ \A i \in Index : pc[i] = "idle"
    /\ \A u \in Unit : task[u] = "unspawned"

JobInv ==
  \A i \in Index :
    /\ pc[i] # "idle" =>
         /\ i \in Jobs
         /\ \A x \in Jobs : <<x, i>> \in group.order => pc[x] = "done"
    /\ i \in started => pc[i] \in {"running", "finishing", "done", "lost"}
    /\ outcome[i] # "none" => pc[i] \in {"finishing", "done", "lost"}
    /\ outcome[i] \in {"cancelled_before", "deadline_before"} => i \notin started

PermitInv ==
  /\ Cardinality(permits) =< Width
  /\ HasSemaphore =>
       \A i \in Index :
         pc[i] \in {"permitted", "lock_wait", "locked", "running"} => i \in permits

LockInv ==
  /\ \A i, j \in writer : i = j
  /\ writer # {} => readers = {}
  /\ HasLock =>
       \A i \in Index :
         pc[i] \in {"locked", "running"} => i \in (IF Exclusive(i) THEN writer ELSE readers)

Inv == TypeOK /\ PlanInv /\ QuietInv /\ JobInv /\ PermitInv /\ LockInv

(***************************************************************************)
(* And behind the books of a batch: a call inside run_job belongs to a     *)
(* live task, and past phase 2 no live task has work left; a call is a job *)
(* or was refused, and is counted as executed only with the result it      *)
(* computed; a task was joined with all its results unless a panic was     *)
(* seen; tool_finished has fired for the refused and the finished calls.   *)
(***************************************************************************)
TaskInv ==
  /\ \A i \in Jobs : pc[i] \in Active => task[UnitOf(i)] = "live"
  /\ phase \in {"collect", "returned"} =>
       \A u \in Unit : task[u] = "live" => UnitDone(u)
  /\ \A u \in Unit : task[u] = "aborted" => failure \/ phase = "unwound"
  /\ \A u \in Unit : task[u] = "joined" => failure \/ JobsOf(u) \subseteq executed

ComputedInv ==
  \A i \in Index :
    /\ pc[i] \in {"finishing", "done"} => outcome[i] # "none"
    /\ pc[i] = "running" => i \in started
    /\ outcome[i] = "tool" => i \in started
    /\ pc[i] = "done" /\ UnitOf(i) = InlineUnit => i \in executed
    /\ i \in executed => i \in Jobs /\ pc[i] = "done" /\ slots[i] = outcome[i]

Refused(i) == slots[i] \in {"unknown", "denied"}

SlotInv ==
  /\ \A i \in Jobs : ~Refused(i)
  /\ phase = "preflight" =>
       \A i \in Index : IF i < cursor THEN i \in Jobs \/ Refused(i) ELSE slots[i] = "none"
  /\ phase \in {"execute", "collect"} \/ ret = "Ok" =>
       \A i \in Calls : i \in Jobs \/ Refused(i)
  /\ phase = "collect" \/ ret = "Ok" => Jobs \subseteq executed
  /\ ret # "none" => phase = "returned"
  /\ ret = "Internal" => failure

NotifyInv ==
  \A i \in Index :
    notified[i] = IF slots[i] = "denied" \/ pc[i] = "done" THEN 1 ELSE 0

AccountsInv == TaskInv /\ ComputedInv /\ SlotInv /\ NotifyInv

(***************************************************************************)
(* The inductive invariant of the dispatcher: what its scheduling and its  *)
(* books rely on without checking.                                         *)
(***************************************************************************)
DispatchInv == Inv /\ AccountsInv

(***************************************************************************)
(* The machinery of tasks, permits, RwLock and chains implements README's  *)
(* table of concurrency classes, as ToolBatch states it.                   *)
(***************************************************************************)
Promise == INSTANCE ToolBatch WITH
             Call <- Index, Class <- Concurrency, running <- Running, ended <- Ended
ImplementsToolBatch == Promise!Spec

(* Cancelling, or passing the deadline, ends the dispatch even if no tool  *)
(* ever returns.                                                           *)
InterruptEnds == (cancelled \/ expired) ~> (phase \in {"returned", "unwound"})

(* Nobody waits for ever on permits and locks: if every tool returns, so   *)
(* does the dispatch, with no interruption needed.                         *)
ToolsReturn == \A i \in Index : WF_vars(ToolReturns(i))
DispatchEnds == ToolsReturn => <>(phase \in {"returned", "unwound"})

(***************************************************************************)
(* What README's table of concurrency classes promises of a batch: a       *)
(* Serial call runs alone, calls that share a key run in call order, no    *)
(* more tools run than max_parallel_tools allows, and a call that is       *)
(* reported as stopped before execution was never run.                     *)
(***************************************************************************)
DispatchOrder == SerialExclusive /\ KeyedInOrder /\ WidthBound /\ BeforeMeansNotRun

(***************************************************************************)
(* The books of a batch: each call has the result of its own tool, every   *)
(* call has one when execute returns normally, tool_finished fired once    *)
(* for each, and no task outlives the dispatch.                            *)
(***************************************************************************)
DispatchAccounts == ResultsAreReal /\ NoMissingResult /\ FinishedOnce /\ NoOrphanTask

(***************************************************************************)
(* A dispatch ends: at once when it is interrupted, whatever the tools do, *)
(* and by itself when every tool returns.                                  *)
(***************************************************************************)
DispatchTerminates == InterruptEnds /\ DispatchEnds
=============================================================================
