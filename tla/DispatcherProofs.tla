-------------------------- MODULE DispatcherProofs --------------------------
(***************************************************************************)
(* Safety of the dispatcher for every batch, width and set of keys: the    *)
(* inductive invariant Inv of its scheduling and what follows from it, the *)
(* books AccountsInv that rest on Inv, and the refinement of ToolBatch.    *)
(***************************************************************************)
EXTENDS Dispatcher, GroupingProofs, FiniteSetTheorems

-----------------------------------------------------------------------------
(* Type correctness                                                        *)

LEMMA BatchFacts ==
  ASSUME TypeOK
  PROVE  /\ Len(batch) \in Nat /\ Len(batch) =< MaxCalls
         /\ Calls \subseteq Index /\ cursor \in Int
         /\ cursor \in Calls => cursor \in Index /\ cursor + 1 \in 1..(MaxCalls + 1)
<1>1. Len(batch) \in Nat /\ Len(batch) =< MaxCalls
  BY BatchesAssumption DEF TypeOK
<1>2. cursor \in Int
  BY MaxCallsAssumption DEF TypeOK
<1>3. Calls \subseteq Index
  BY <1>1, MaxCallsAssumption DEF Calls, Index
<1>4. QED
  BY <1>1, <1>2, <1>3, MaxCallsAssumption DEF Index

LEMMA TypeInit == Init => TypeOK
<1> SUFFICES ASSUME Init PROVE TypeOK
  OBVIOUS
<1>1. EmptyGrouping \in GroupingType
  BY DEF EmptyGrouping, GroupingType
<1>2. cursor \in 1..(MaxCalls + 1)
  BY MaxCallsAssumption DEF Init
<1>3. QED
  BY <1>1, <1>2 DEF Init, TypeOK, Phase, TaskState, PC, Result, Returned

(* The hook loops of phases 1 and 3 keep the types.                        *)
LEMMA TypePreflight == TypeOK /\ Preflight => TypeOK'
<1> SUFFICES ASSUME TypeOK, Preflight PROVE TypeOK'
  OBVIOUS
<1>1. cursor \in Calls => cursor \in Index /\ cursor + 1 \in 1..(MaxCalls + 1)
  BY BatchFacts
<1> USE DEF TypeOK, planVars, lockVars, envVars, slotVars
<1>2. CASE RejectPairing
  BY <1>2 DEF RejectPairing, Return, Phase, Returned
<1>3. CASE UnknownTool
  BY <1>1, <1>3 DEF UnknownTool, Result
<1>4. CASE DenyTool
  BY <1>1, <1>4 DEF DenyTool, Result
<1>5. CASE BeforeToolFails
  BY <1>5 DEF BeforeToolFails, Return, Phase, Returned
<1>6. ASSUME NEW c \in Classes, AdmitTool(c) PROVE TypeOK'
  <2>1. c \in Concurrency
    BY ClassesAssumption
  <2>2. Add(group, cursor, c) \in GroupingType
    BY <1>1, <1>6, <2>1, AddType DEF AdmitTool
  <2>3. QED
    BY <1>1, <1>6, <2>1, <2>2 DEF AdmitTool
<1>7. CASE StartExecution
  BY <1>7, MaxCallsAssumption DEF StartExecution, Phase, TaskState
<1>8. QED
  BY <1>2, <1>3, <1>4, <1>5, <1>6, <1>7 DEF Preflight

LEMMA TypeJobStep == ASSUME NEW i \in Index PROVE TypeOK /\ JobStep(i) => TypeOK'
<1> SUFFICES ASSUME TypeOK, JobStep(i) PROVE TypeOK'
  OBVIOUS
<1> USE DEF TypeOK, planVars, lockVars, envVars, slotVars, JobUnchanged
<1>1. \A q \in SUBSET (Index \X Index), S \in SUBSET Index :
         LeaveQ(q, S) \in SUBSET (Index \X Index)
  BY DEF LeaveQ
<1>2. \A q \in SUBSET (Index \X Index), w \in PC : JoinQ(q, w, i) \in SUBSET (Index \X Index)
  BY DEF JoinQ, At
<1>3. CASE RequestPermit(i)
  <2>1. JoinQ(semQ, "permit_wait", i) \in SUBSET (Index \X Index)
    BY <1>2 DEF PC, Active, Waiting
  <2>2. QED
    BY <1>3, <2>1 DEF RequestPermit, PC, Active, Waiting
<1>4. CASE GrantPermit(i)
  BY <1>1, <1>4 DEF GrantPermit, PC, Active
<1>5. CASE RequestLock(i)
  <2>1. JoinQ(lockQ, "lock_wait", i) \in SUBSET (Index \X Index)
    BY <1>2 DEF PC, Active, Waiting
  <2>2. QED
    BY <1>5, <2>1 DEF RequestLock, PC, Active, Waiting
<1>6. CASE GrantLock(i)
  BY <1>1, <1>6 DEF GrantLock, PC, Active
<1>7. CASE StartTool(i)
  BY <1>7 DEF StartTool, PC, Active
<1>8. ASSUME NEW o \in Outcome, Conclude(i, o) PROVE TypeOK'
  BY <1>1, <1>8 DEF Conclude, PC, Active
<1>9. CASE ToolReturns(i) \/ Interrupt(i)
  BY <1>8, <1>9 DEF ToolReturns, Interrupt, CancelBefore, CancelDuring, ExpireBefore,
                    ExpireDuring, Outcome, Interrupted
<1>10. CASE FinishJob(i)
  BY <1>10 DEF FinishJob, PC, Active, Result
<1>11. QED
  BY <1>3, <1>4, <1>5, <1>6, <1>7, <1>9, <1>10 DEF JobStep, Acquire

LEMMA TypeLoseJobs ==
  ASSUME TypeOK, NEW u, LoseJobs(u)
  PROVE  /\ pc' \in [Index -> PC]
         /\ permits' \in SUBSET Index
         /\ semQ' \in SUBSET (Index \X Index)
         /\ readers' \in SUBSET Index
         /\ writer' \in SUBSET Index
         /\ lockQ' \in SUBSET (Index \X Index)
BY DEF TypeOK, LoseJobs, LeaveQ, PC

LEMMA TypeRest ==
  TypeOK /\ (\/ \E u \in Unit : TaskPanics(u) \/ AbortTask(u)
             \/ Unwind \/ Join \/ Collect \/ Cancel \/ Expire \/ Stopped \/ UNCHANGED vars)
    => TypeOK'
<1> SUFFICES ASSUME TypeOK,
                    \/ \E u \in Unit : TaskPanics(u) \/ AbortTask(u)
                    \/ Unwind \/ Join \/ Collect \/ Cancel \/ Expire \/ Stopped
                    \/ UNCHANGED vars
             PROVE  TypeOK'
  OBVIOUS
<1> USE DEF planVars, lockVars, envVars, slotVars
<1>1. ASSUME NEW u \in Unit, TaskPanics(u) \/ AbortTask(u) PROVE TypeOK'
  <2>1. LoseJobs(u)
    BY <1>1 DEF TaskPanics, AbortTask
  <2>2. QED
    BY <1>1, <2>1, TypeLoseJobs DEF TypeOK, TaskPanics, AbortTask, TaskState
<1>2. CASE Unwind
  <2>1. CASE phase = "execute"
    BY <1>2, <2>1, TypeLoseJobs DEF TypeOK, Unwind, TaskState, Phase
  <2>2. CASE phase # "execute"
    BY <1>2, <2>2 DEF TypeOK, Unwind, Phase
  <2>3. QED
    BY <2>1, <2>2
<1>3. CASE Join
  <2>1. ASSUME NEW u \in Unit, JoinDone(u) PROVE TypeOK'
    BY <2>1 DEF TypeOK, JoinDone, JoinUnchanged, TaskState, Result, JobsOf, Jobs, JobsIn
  <2>2. ASSUME NEW u \in Unit, JoinLost(u) PROVE TypeOK'
    BY <2>2 DEF TypeOK, JoinLost, JoinUnchanged, TaskState
  <2>3. CASE EndExecution
    BY <2>3 DEF TypeOK, EndExecution, Return, Phase, Returned
  <2>4. QED
    BY <1>3, <2>1, <2>2, <2>3 DEF Join
<1>4. CASE Collect
  <2>1. cursor \in Calls => cursor + 1 \in 1..(MaxCalls + 1)
    BY BatchFacts, MaxCallsAssumption DEF Index
  <2>2. QED
    BY <1>4, <2>1 DEF TypeOK, Collect, CollectResult, AfterToolFails, ReturnResults,
                      CollectUnchanged, Return, Phase, Returned
<1>5. CASE Cancel \/ Expire
  BY <1>5 DEF TypeOK, Cancel, Expire, EnvUnchanged
<1>6. CASE Stopped \/ UNCHANGED vars
  BY <1>6 DEF TypeOK, Stopped, vars
<1>7. QED
  BY <1>1, <1>2, <1>3, <1>4, <1>5, <1>6

(* Every reachable state is well typed: in particular the hook loops never *)
(* index past the batch, and a grouping is never malformed.                *)
THEOREM TypeCorrect == Spec => []TypeOK
<1>1. TypeOK /\ [Next]_vars => TypeOK'
  BY TypePreflight, TypeJobStep, TypeRest DEF Next
<1>2. QED
  BY <1>1, TypeInit, PTL DEF Spec

-----------------------------------------------------------------------------
(* The inductive invariant                                                 *)

(* What the state of the jobs depends on.                                  *)
planView == <<class, group>>
jobView  == <<pc, started, outcome, permits, readers, writer>>

LEMMA WidthType == Width \in Nat
BY MaxParallelAssumption DEF Width

LEMMA FiniteCalls ==
  ASSUME NEW S \in SUBSET Index
  PROVE  IsFiniteSet(S) /\ Cardinality(S) \in Nat
<1>1. IsFiniteSet(Index)
  BY FS_Interval, MaxCallsAssumption DEF Index
<1>2. QED
  BY <1>1, FS_Subset, FS_CardinalityType

LEMMA JobsAreCalls == TypeOK => Jobs \subseteq Index /\ class \in ClassMap
BY DEF TypeOK, Jobs, JobsIn, ClassMap

(* A step that leaves the plan alone keeps every operator built on it.     *)
LEMMA PlanFrame ==
  ASSUME UNCHANGED planView
  PROVE  /\ Jobs' = Jobs /\ HasSemaphore' = HasSemaphore /\ HasLock' = HasLock
         /\ \A i \in Index : Exclusive(i)' = Exclusive(i)
         /\ group' = group /\ class' = class
BY DEF planView, Jobs, HasSemaphore, HasLock, Exclusive, Width

LEMMA InvInit == Init => Inv
<1> SUFFICES ASSUME Init PROVE Inv
  OBVIOUS
<1>1. TypeOK
  BY TypeInit
<1>2. Jobs = {}
  BY DEF Init, Jobs, JobsIn
<1>3. PlanInv
  <2>1. SlotsAgree(group, class)
    BY <1>2, ClassFacts DEF Init, SlotsAgree, EmptyGrouping, Jobs, JobsIn
  <2>2. QED
    BY <1>2, <2>1, MaxCallsAssumption
    DEF Init, EmptyGrouping, PlanInv, CallOrderKept, ChainsAreLists, Jobs
<1>4. QuietInv /\ JobInv
  BY DEF Init, QuietInv, JobInv
<1>5. PermitInv
  BY FS_EmptySet, WidthType DEF Init, PermitInv
<1>6. LockInv
  BY DEF Init, LockInv
<1>7. QED
  BY <1>1, <1>3, <1>4, <1>5, <1>6 DEF Inv

(* PlanInv can only be disturbed while calls are being classified.         *)
LEMMA PlanKept ==
  ASSUME Inv, UNCHANGED planView,
         phase' = "preflight" => phase = "preflight" /\ cursor' \in Int /\ cursor =< cursor'
  PROVE  PlanInv'
<1>1. \A i \in Jobs : i \in Int
  BY JobsAreCalls DEF Inv, Index
<1>2. cursor \in Int /\ group.len \in Int
  BY BatchFacts DEF Inv, TypeOK, GroupingType
<1>3. QED
  BY <1>1, <1>2, PlanFrame DEF Inv, PlanInv, planView

(* Steps of the dispatching task that touch no job.                        *)
LEMMA JobsKept ==
  ASSUME Inv, UNCHANGED planView, UNCHANGED jobView
  PROVE  JobInv' /\ PermitInv' /\ LockInv'
<1> USE PlanFrame DEF Inv, jobView
<1>1. JobInv'
  BY DEF JobInv
<1>2. PermitInv'
  BY DEF PermitInv, Width
<1>3. LockInv'
  BY DEF LockInv
<1>4. QED
  BY <1>1, <1>2, <1>3

(* Dropping a task's guards, by panic or by abort.                         *)
LEMMA LoseJobsKeeps ==
  ASSUME Inv, NEW u, LoseJobs(u), UNCHANGED planView, UNCHANGED <<started, outcome>>
  PROVE  JobInv' /\ PermitInv' /\ LockInv'
<1> USE PlanFrame DEF Inv
<1>1. \A i \in Index : pc'[i] = pc[i] \/ (pc'[i] = "lost" /\ pc[i] \in Active)
  BY DEF LoseJobs
<1>2. \A i \in Index :
        pc'[i] # "lost" => /\ i \in permits' <=> i \in permits
                           /\ i \in readers' <=> i \in readers
                           /\ i \in writer' <=> i \in writer
  BY DEF LoseJobs, JobsOf
<1>3. permits' \subseteq permits /\ readers' \subseteq readers /\ writer' \subseteq writer
  BY DEF LoseJobs
<1>4. JobInv'
  <2>1. \A x \in Jobs : pc[x] = "done" => pc'[x] = "done"
    BY <1>1, JobsAreCalls DEF Active, Waiting
  <2>2. \A i \in Index : pc'[i] # "idle" => pc[i] # "idle"
    BY <1>1 DEF Active, Waiting
  <2>3. QED
    BY <1>1, <2>1, <2>2 DEF JobInv
<1>5. PermitInv'
  <2>1. permits \in SUBSET Index /\ permits' \in SUBSET permits
    BY <1>3 DEF TypeOK
  <2>2. Cardinality(permits') =< Cardinality(permits)
        /\ Cardinality(permits') \in Nat /\ Cardinality(permits) \in Nat
    BY <2>1, FiniteCalls, FS_Subset
  <2>3. Cardinality(permits') =< Width
    BY <2>2, WidthType DEF PermitInv
  <2>4. QED
    BY <1>1, <1>2, <2>3 DEF PermitInv, Width
<1>6. LockInv'
  BY <1>1, <1>2, <1>3 DEF LockInv
<1>7. QED
  BY <1>4, <1>5, <1>6

(* Phase 1 classifies calls while nothing runs.                            *)
LEMMA InvPreflight == Inv /\ Preflight => Inv'
<1> SUFFICES ASSUME Inv, Preflight PROVE Inv'
  OBVIOUS
<1> USE DEF planVars, lockVars, envVars, slotVars
<1>1. TypeOK /\ TypeOK'
  BY TypePreflight DEF Inv
<1>2. cursor \in Int
  BY <1>1, BatchFacts
<1>3. CASE RejectPairing \/ BeforeToolFails
  <2>1. UNCHANGED planView /\ UNCHANGED jobView /\ phase' # "preflight"
    BY <1>3 DEF RejectPairing, BeforeToolFails, Return, planView, jobView
  <2>2. QED
    BY <1>1, <2>1, PlanKept, JobsKept DEF Inv, QuietInv
<1>4. CASE UnknownTool \/ DenyTool
  <2>1. UNCHANGED planView /\ UNCHANGED jobView /\ cursor' = cursor + 1
        /\ UNCHANGED <<phase, task>>
    BY <1>4 DEF UnknownTool, DenyTool, planView, jobView
  <2>2. PlanInv'
    BY <1>2, <2>1, PlanKept
  <2>3. QuietInv'
    BY <2>1 DEF Inv, QuietInv, jobView
  <2>4. QED
    BY <1>1, <2>1, <2>2, <2>3, JobsKept DEF Inv
<1>5. CASE StartExecution
  <2>1. UNCHANGED planView /\ UNCHANGED jobView /\ phase' # "preflight"
    BY <1>5 DEF StartExecution, planView, jobView
  <2>2. QED
    BY <1>1, <2>1, PlanKept, JobsKept DEF Inv, QuietInv
<1>6. ASSUME NEW c \in Classes, AdmitTool(c) PROVE Inv'
  <2>1. /\ phase = "preflight" /\ phase' = "preflight"
        /\ cursor \in Index /\ cursor' = cursor + 1
        /\ class' = [class EXCEPT ![cursor] = c]
        /\ group' = Add(group, cursor, c)
        /\ UNCHANGED <<task, jobView>>
    BY <1>1, <1>6, BatchFacts DEF AdmitTool, InPreflight, jobView
  <2>2. c \in Concurrency
    BY ClassesAssumption
  <2>3. group \in GroupingType /\ class \in ClassMap
    BY <1>1, JobsAreCalls DEF TypeOK
  <2>4. class[cursor] = NoClass
    BY <1>2, <2>1 DEF Inv, PlanInv, Jobs, JobsIn
  <2>5. \A j \in JobsIn(class) : j < cursor
    BY <2>1 DEF Inv, PlanInv, Jobs
  <2>6. SlotsAgree(group', class') /\ CallOrderKept(group', class') /\ ChainsAreLists(group')
    <3>1. SlotsAgree(group, class) /\ CallOrderKept(group, class) /\ ChainsAreLists(group)
      BY DEF Inv, PlanInv
    <3>2. QED
      BY <2>1, <2>2, <2>3, <2>4, <2>5, <3>1, AddKeepsSlots, AddKeepsOrder, AddKeepsLists
  <2>7. Jobs' \subseteq Jobs \cup {cursor}
    BY <2>1, <2>3 DEF Jobs, JobsIn, ClassMap
  <2>8. \A j \in Jobs' : j < cursor'
    <3>1. \A j \in Jobs : j \in Int /\ j < cursor
      BY <1>1, <2>5, JobsAreCalls DEF Jobs, Index
    <3>2. QED
      BY <1>2, <2>1, <2>7, <3>1
  <2>9. PlanInv'
    <3>1. group'.len \in {group.len, group.len + 1} /\ group.len \in Nat
      BY <2>1, <2>2, <2>3, AddLen DEF GroupingType
    <3>2. group'.len < cursor' /\ group'.len =< MaxCalls
      BY <1>2, <2>1, <3>1, MaxCallsAssumption DEF Inv, PlanInv, Index
    <3>3. QED
      BY <2>6, <2>8, <3>2 DEF PlanInv
  <2>10. \A i \in Index : pc'[i] = "idle" /\ pc[i] = "idle"
    BY <2>1 DEF Inv, QuietInv, jobView
  <2>11. QuietInv' /\ JobInv'
    BY <2>1, <2>10 DEF Inv, QuietInv, JobInv, jobView
  <2>12. PermitInv' /\ LockInv'
    BY <2>1, <2>10 DEF Inv, PermitInv, LockInv, Width, jobView
  <2>13. QED
    BY <1>1, <2>9, <2>11, <2>12 DEF Inv
<1>7. QED
  BY <1>3, <1>4, <1>5, <1>6 DEF Preflight

(* The slot of every chain is within the bound on calls.                   *)
LEMMA UnitType == ASSUME Inv, NEW i \in Jobs PROVE UnitOf(i) \in Unit
<1>1. i \in Index /\ group.chain[i] \in Nat /\ group.len \in Nat
  BY JobsAreCalls DEF Inv, TypeOK, GroupingType
<1>2. CASE i \in group.singles
  BY <1>1, <1>2 DEF UnitOf, Unit
<1>3. CASE i \notin group.singles
  <2>1. group.chain[i] # 0 /\ group.chain[i] =< MaxCalls
    BY <1>1, <1>3, MaxCallsAssumption DEF Inv, PlanInv, SlotsAgree, Jobs
  <2>2. group.chain[i] \in Index
    BY <1>1, <2>1, MaxCallsAssumption DEF Index
  <2>3. QED
    BY <1>3, <2>2 DEF UnitOf, Unit
<1>4. QED
  BY <1>2, <1>3

(* run_job does nothing before the calls are classified.                   *)
LEMMA JobStepLater ==
  ASSUME Inv, NEW i \in Index, JobStep(i)
  PROVE  phase # "preflight"
<1> SUFFICES ASSUME phase = "preflight" PROVE FALSE
  OBVIOUS
<1>1. pc[i] = "idle" /\ \A u \in Unit : task[u] = "unspawned"
  BY DEF Inv, QuietInv
<1>2. ~AtHead(i)
  BY <1>1, UnitType DEF AtHead
<1>3. QED
  BY <1>1, <1>2
  DEF JobStep, Acquire, Interrupt, RequestPermit, GrantPermit, RequestLock, GrantLock,
      StartTool, ToolReturns, CancelBefore, CancelDuring, ExpireBefore, ExpireDuring,
      FinishJob, AtPermit, AtLock, AtTool, HasPermit, Waiting

(***************************************************************************)
(* Each step of run_job keeps the invariant.  A call leaves "idle" only    *)
(* when it heads its chain; past a guard it holds what the guard acquired, *)
(* until it is finishing.                                                  *)
(***************************************************************************)
LEMMA JobMoves ==
  ASSUME Inv, NEW i \in Index, UNCHANGED planView,
         pc[i] # "done", pc[i] = "idle" => AtHead(i),
         NEW s, s # "idle", pc' = [pc EXCEPT ![i] = s],
         started' \subseteq started \cup {i},
         i \in started' => s \in {"running", "finishing", "done", "lost"},
         \A j \in Index \ {i} : outcome'[j] = outcome[j],
         outcome'[i] # "none" => s \in {"finishing", "done", "lost"},
         outcome'[i] \in {"cancelled_before", "deadline_before"} => i \notin started'
  PROVE  JobInv'
<1> USE PlanFrame
<1>1. pc'[i] = s /\ \A j \in Index \ {i} : pc'[j] = pc[j]
  BY DEF Inv, TypeOK
<1>2. \A x \in Jobs : pc[x] = "done" => pc'[x] = "done"
  BY <1>1, JobsAreCalls DEF Inv
<1>3. i \in Jobs /\ \A x \in Jobs : <<x, i>> \in group.order => pc[x] = "done"
  BY DEF Inv, JobInv, AtHead
<1>4. ASSUME NEW j \in Index
      PROVE  /\ pc'[j] # "idle" =>
                  /\ j \in Jobs'
                  /\ \A x \in Jobs' : <<x, j>> \in group'.order => pc'[x] = "done"
             /\ j \in started' => pc'[j] \in {"running", "finishing", "done", "lost"}
             /\ outcome'[j] # "none" => pc'[j] \in {"finishing", "done", "lost"}
             /\ outcome'[j] \in {"cancelled_before", "deadline_before"} => j \notin started'
  <2>1. CASE j = i
    BY <1>1, <1>2, <1>3, <2>1
  <2>2. CASE j # i
    BY <1>1, <1>2, <2>2 DEF Inv, JobInv
  <2>3. QED
    BY <2>1, <2>2
<1>5. QED
  BY <1>4 DEF JobInv

(* What a call at each of run_job's guards has behind it.                  *)
LEMMA AtGuards ==
  ASSUME Inv, NEW i \in Index
  PROVE  /\ AtHead(i) => pc[i] = "idle"
         /\ AtPermit(i) => pc[i] = "idle" /\ AtHead(i)
         /\ HasPermit(i) => pc[i] \in {"idle", "permitted"} /\ (pc[i] = "idle" => AtHead(i))
         /\ HasPermit(i) /\ HasSemaphore => i \in permits
         /\ AtTool(i) => /\ pc[i] \in {"idle", "permitted", "locked"}
                         /\ pc[i] = "idle" => AtHead(i)
                         /\ HasSemaphore => i \in permits
                         /\ HasLock => i \in (IF Exclusive(i) THEN writer ELSE readers)
<1>1. AtHead(i) => pc[i] = "idle"
  BY DEF AtHead
<1>2. AtPermit(i) => pc[i] = "idle" /\ AtHead(i)
  BY <1>1 DEF AtPermit
<1>3. HasPermit(i) => pc[i] \in {"idle", "permitted"} /\ (pc[i] = "idle" => AtHead(i))
  BY <1>1 DEF HasPermit
<1>4. HasPermit(i) /\ HasSemaphore => i \in permits
  BY DEF HasPermit, Inv, PermitInv
<1>5. AtTool(i) /\ HasLock => pc[i] = "locked"
  BY DEF AtTool
<1>6. AtTool(i) /\ ~HasLock => HasPermit(i)
  BY DEF AtTool
<1>7. QED
  BY <1>1, <1>2, <1>3, <1>4, <1>5, <1>6 DEF Inv, PermitInv, LockInv

(* The permits and the lock when i moves to s and holds them as h says.    *)
LEMMA HoldsKept ==
  ASSUME Inv, NEW i \in Index, UNCHANGED planView,
         NEW s, pc' = [pc EXCEPT ![i] = s],
         \A j \in Index \ {i} : /\ j \in permits => j \in permits'
                                /\ j \in readers => j \in readers'
                                /\ j \in writer => j \in writer',
         Cardinality(permits') =< Width,
         HasSemaphore /\ s \in {"permitted", "lock_wait", "locked", "running"} => i \in permits',
         HasLock /\ s \in {"locked", "running"} =>
           i \in (IF Exclusive(i) THEN writer' ELSE readers'),
         \A x, y \in writer' : x = y,
         writer' # {} => readers' = {}
  PROVE  PermitInv' /\ LockInv'
<1> USE PlanFrame
<1>1. pc'[i] = s /\ \A j \in Index \ {i} : pc'[j] = pc[j]
  BY DEF Inv, TypeOK
<1>2. PermitInv'
  <2>1. ASSUME HasSemaphore, NEW j \in Index,
               pc'[j] \in {"permitted", "lock_wait", "locked", "running"}
        PROVE  j \in permits'
    BY <1>1, <2>1 DEF Inv, PermitInv
  <2>2. QED
    BY <2>1 DEF PermitInv, Width
<1>3. LockInv'
  <2>1. ASSUME HasLock, NEW j \in Index, pc'[j] \in {"locked", "running"}
        PROVE  j \in (IF Exclusive(j) THEN writer' ELSE readers')
    BY <1>1, <2>1 DEF Inv, LockInv
  <2>2. QED
    BY <2>1 DEF LockInv
<1>4. QED
  BY <1>2, <1>3

LEMMA InvJobStep == ASSUME NEW i \in Index PROVE Inv /\ JobStep(i) => Inv'
<1> SUFFICES ASSUME Inv, JobStep(i) PROVE Inv'
  OBVIOUS
<1>1. TypeOK /\ TypeOK'
  BY TypeJobStep DEF Inv
<1>2. /\ JobUnchanged
      /\ UNCHANGED planView /\ phase' # "preflight"
  <2>1. JobUnchanged
    BY DEF JobStep, Acquire, Interrupt, RequestPermit, GrantPermit, RequestLock, GrantLock,
           StartTool, ToolReturns, CancelBefore, CancelDuring, ExpireBefore, ExpireDuring,
           FinishJob, Conclude
  <2>2. QED
    BY <2>1, JobStepLater DEF JobUnchanged, planVars, planView
<1>3. PlanInv' /\ QuietInv'
  BY <1>2, PlanKept DEF QuietInv
<1>4. SUFFICES JobInv' /\ PermitInv' /\ LockInv'
  BY <1>1, <1>3 DEF Inv
<1>5. /\ permits \in SUBSET Index /\ Cardinality(permits) =< Width
      /\ (\A x, y \in writer : x = y) /\ (writer # {} => readers = {})
  BY <1>1 DEF Inv, TypeOK, PermitInv, LockInv
<1> USE DEF lockVars, slotVars
<1>6. CASE RequestPermit(i)
  <2>1. pc[i] = "idle" /\ AtHead(i)
    BY <1>6, AtGuards DEF RequestPermit
  <2>2. JobInv'
    BY <1>2, <1>6, <2>1, JobMoves DEF RequestPermit, Inv, JobInv
  <2>3. QED
    BY <1>2, <1>5, <1>6, <2>2, HoldsKept DEF RequestPermit
<1>7. CASE GrantPermit(i)
  <2>1. JobInv'
    BY <1>2, <1>7, JobMoves DEF GrantPermit, Inv, JobInv
  <2>2. Cardinality(permits \cup {i}) =< Width
    <3>1. IsFiniteSet(permits) /\ Cardinality(permits) \in Nat
      BY <1>5, FiniteCalls
    <3>2. Cardinality(permits) < Width
      BY <1>7 DEF GrantPermit, PermitReady
    <3>3. QED
      BY <3>1, <3>2, FS_AddElement, WidthType
  <2>3. QED
    BY <1>2, <1>5, <1>7, <2>1, <2>2, HoldsKept DEF GrantPermit
<1>8. CASE RequestLock(i)
  <2>1. /\ pc[i] \in {"idle", "permitted"} /\ (pc[i] = "idle" => AtHead(i))
        /\ HasSemaphore => i \in permits
    BY <1>8, AtGuards DEF RequestLock, AtLock
  <2>2. JobInv'
    BY <1>2, <1>8, <2>1, JobMoves DEF RequestLock, Inv, JobInv
  <2>3. QED
    BY <1>2, <1>5, <1>8, <2>1, <2>2, HoldsKept DEF RequestLock
<1>9. CASE GrantLock(i)
  <2>1. JobInv'
    BY <1>2, <1>9, JobMoves DEF GrantLock, Inv, JobInv
  <2>2. HasSemaphore => i \in permits
    BY <1>9 DEF GrantLock, Inv, PermitInv
  <2>3. CASE Exclusive(i)
    BY <1>2, <1>5, <1>9, <2>1, <2>2, <2>3, HoldsKept DEF GrantLock, LockReady
  <2>4. CASE ~Exclusive(i)
    BY <1>2, <1>5, <1>9, <2>1, <2>2, <2>4, HoldsKept DEF GrantLock, LockReady
  <2>5. QED
    BY <2>3, <2>4
<1>10. CASE StartTool(i)
  <2>1. /\ pc[i] \in {"idle", "permitted", "locked"} /\ (pc[i] = "idle" => AtHead(i))
        /\ HasSemaphore => i \in permits
        /\ HasLock => i \in (IF Exclusive(i) THEN writer ELSE readers)
    BY <1>10, AtGuards DEF StartTool
  <2>2. JobInv'
    BY <1>2, <1>10, <2>1, JobMoves DEF StartTool, Inv, JobInv
  <2>3. QED
    BY <1>2, <1>5, <1>10, <2>1, <2>2, HoldsKept DEF StartTool
<1>11. ASSUME NEW o \in Outcome, Conclude(i, o),
              pc[i] \in {"idle", "permitted", "locked", "running"} \cup Waiting,
              pc[i] = "idle" => AtHead(i),
              o \in {"cancelled_before", "deadline_before"} => pc[i] # "running"
       PROVE  JobInv' /\ PermitInv' /\ LockInv'
  <2>1. outcome'[i] = o /\ \A j \in Index \ {i} : outcome'[j] = outcome[j]
    BY <1>1, <1>11 DEF Conclude, TypeOK
  <2>2. pc[i] # "running" => i \notin started
    BY <1>11 DEF Inv, JobInv, Waiting
  <2>3. JobInv'
    BY <1>2, <1>11, <2>1, <2>2, JobMoves DEF Conclude, Waiting
  <2>4. QED
    BY <1>2, <1>5, <1>11, <2>3, HoldsKept DEF Conclude
<1>12. CASE ToolReturns(i)
  BY <1>11, <1>12 DEF ToolReturns, Outcome
<1>13. CASE CancelBefore(i)
  <2>1. /\ pc[i] \in {"idle", "permitted"} \cup Waiting
        /\ pc[i] = "idle" => AtHead(i)
    BY <1>13, AtGuards DEF CancelBefore, AtLock, Waiting
  <2>2. QED
    BY <1>11, <1>13, <2>1 DEF CancelBefore, Outcome, Interrupted, Waiting
<1>14. CASE CancelDuring(i)
  <2>1. /\ pc[i] \in {"idle", "permitted", "locked", "running"}
        /\ pc[i] = "idle" => AtHead(i)
    BY <1>14, AtGuards DEF CancelDuring
  <2>2. QED
    BY <1>11, <1>14, <2>1 DEF CancelDuring, Outcome, Interrupted, Waiting
<1>15. CASE ExpireBefore(i)
  BY <1>11, <1>15 DEF ExpireBefore, Outcome, Interrupted, Waiting
<1>16. CASE ExpireDuring(i)
  BY <1>11, <1>16 DEF ExpireDuring, Outcome, Interrupted, Waiting
<1>17. CASE FinishJob(i)
  <2>1. JobInv'
    BY <1>2, <1>17, JobMoves DEF FinishJob, Inv, JobInv
  <2>2. Cardinality(permits \ {i}) =< Width
    <3>1. /\ Cardinality(permits \ {i}) =< Cardinality(permits)
          /\ Cardinality(permits \ {i}) \in Nat /\ Cardinality(permits) \in Nat
      BY <1>5, FiniteCalls, FS_Subset
    <3>2. QED
      BY <1>5, <3>1, WidthType
  <2>3. QED
    BY <1>2, <1>5, <1>17, <2>1, <2>2, HoldsKept DEF FinishJob
<1>18. QED
  BY <1>6, <1>7, <1>8, <1>9, <1>10, <1>12, <1>13, <1>14, <1>15, <1>16, <1>17
  DEF JobStep, Acquire, Interrupt

(* Panics, aborts, joins, collection and the environment.                  *)
LEMMA InvRest ==
  Inv /\ (\/ \E u \in Unit : TaskPanics(u) \/ AbortTask(u)
          \/ Unwind \/ Join \/ Collect \/ Cancel \/ Expire \/ Stopped \/ UNCHANGED vars)
    => Inv'
<1> SUFFICES ASSUME Inv,
                    \/ \E u \in Unit : TaskPanics(u) \/ AbortTask(u)
                    \/ Unwind \/ Join \/ Collect \/ Cancel \/ Expire \/ Stopped
                    \/ UNCHANGED vars
             PROVE  Inv'
  OBVIOUS
<1> USE DEF planVars, lockVars, envVars, slotVars
<1>1. TypeOK /\ TypeOK'
  BY TypeRest DEF Inv
<1>2. ASSUME UNCHANGED planView, phase' # "preflight", JobInv' /\ PermitInv' /\ LockInv'
      PROVE  Inv'
  BY <1>1, <1>2, PlanKept DEF Inv, QuietInv
<1>3. ASSUME NEW u \in Unit, TaskPanics(u) \/ AbortTask(u) PROVE Inv'
  <2>1. /\ UNCHANGED planView /\ UNCHANGED <<phase, started, outcome>> /\ LoseJobs(u)
        /\ task[u] = "live"
    BY <1>3 DEF TaskPanics, AbortTask, planView
  <2>2. phase # "preflight"
    BY <2>1 DEF Inv, QuietInv
  <2>3. QED
    BY <1>2, <2>1, <2>2, LoseJobsKeeps
<1>4. CASE Unwind
  <2>1. UNCHANGED planView /\ UNCHANGED <<started, outcome>> /\ phase' # "preflight"
    BY <1>4 DEF Unwind, planView
  <2>2. CASE phase = "execute"
    BY <1>2, <1>4, <2>1, <2>2, LoseJobsKeeps DEF Unwind
  <2>3. CASE phase # "execute"
    <3>1. UNCHANGED jobView
      BY <1>4, <2>1, <2>3 DEF Unwind, jobView
    <3>2. QED
      BY <1>2, <2>1, <3>1, JobsKept
  <2>4. QED
    BY <2>2, <2>3
<1>5. CASE Join
  <2>1. UNCHANGED planView /\ UNCHANGED jobView /\ phase' # "preflight"
    BY <1>5 DEF Join, JoinDone, JoinLost, EndExecution, Joining, JoinUnchanged, Return,
                planView, jobView
  <2>2. QED
    BY <1>2, <2>1, JobsKept
<1>6. CASE Collect
  <2>1. UNCHANGED planView /\ UNCHANGED jobView /\ phase' # "preflight"
    BY <1>6 DEF Collect, CollectResult, AfterToolFails, ReturnResults, CollectUnchanged,
                Return, planView, jobView
  <2>2. QED
    BY <1>2, <2>1, JobsKept
<1>7. CASE Cancel \/ Expire \/ Stopped \/ UNCHANGED vars
  <2>1. UNCHANGED planView /\ UNCHANGED jobView /\ UNCHANGED <<phase, cursor, task>>
    BY <1>7 DEF Cancel, Expire, EnvUnchanged, Stopped, vars, planView, jobView
  <2>2. cursor \in Int
    BY <1>1, BatchFacts
  <2>3. PlanInv'
    BY <2>1, <2>2, PlanKept
  <2>4. QuietInv'
    BY <2>1 DEF Inv, QuietInv, jobView
  <2>5. QED
    BY <1>1, <2>1, <2>3, <2>4, JobsKept DEF Inv
<1>8. QED
  BY <1>3, <1>4, <1>5, <1>6, <1>7

(* The invariant the code relies on without checking is one.               *)
THEOREM Invariance == Spec => []Inv
<1>1. Inv /\ [Next]_vars => Inv'
  BY InvPreflight, InvJobStep, InvRest DEF Next
<1>2. QED
  BY <1>1, InvInit, PTL DEF Spec

-----------------------------------------------------------------------------
(* What follows                                                            *)

(***************************************************************************)
(* A Serial call is alone: run_job's write lock, elided in batches with no *)
(* Serial call, keeps every other call's tool out while it runs.           *)
(***************************************************************************)
THEOREM SerialSafety == Spec => []SerialExclusive
<1>1. Inv => SerialExclusive
  <2> SUFFICES ASSUME Inv, NEW i \in Running, NEW j \in Running, Exclusive(i)
               PROVE  i = j
    BY DEF SerialExclusive
  <2>1. i \in Index /\ j \in Index /\ pc[i] = "running" /\ pc[j] = "running"
    BY DEF Running
  <2>2. HasLock
    BY <2>1, ClassFacts DEF HasLock, Exclusive, Jobs, JobsIn
  <2>3. i \in writer /\ j \in (IF Exclusive(j) THEN writer ELSE readers)
    BY <2>1, <2>2 DEF Inv, LockInv
  <2>4. QED
    BY <2>3 DEF Inv, LockInv
<1>2. QED
  BY <1>1, Invariance, PTL

(***************************************************************************)
(* Calls sharing a key run one after the other in call order, whatever     *)
(* chains Grouping::add merged on the way.                                 *)
(***************************************************************************)
THEOREM KeyOrderSafety == Spec => []KeyedInOrder
<1>1. Inv => KeyedInOrder
  <2> SUFFICES ASSUME Inv, NEW j \in started, NEW i \in Jobs, i < j,
                      class[i].keys \cap class[j].keys # {}
               PROVE  i \in Ended
    BY DEF KeyedInOrder
  <2>1. j \in Index /\ i \in Index
    BY JobsAreCalls DEF Inv, TypeOK
  <2>2. pc[j] # "idle" /\ j \in Jobs
    BY <2>1 DEF Inv, JobInv
  <2>3. <<i, j>> \in group.order
    BY <2>1, <2>2 DEF Inv, PlanInv, CallOrderKept, Ordered, Jobs
  <2>4. pc[i] = "done"
    BY <2>1, <2>2, <2>3 DEF Inv, JobInv
  <2>5. QED
    BY <2>1, <2>4 DEF Ended
<1>2. QED
  BY <1>1, Invariance, PTL

(***************************************************************************)
(* max_parallel_tools bounds the running tools, through the semaphore and  *)
(* without it: it is elided only when the batch is no wider than that.     *)
(***************************************************************************)
THEOREM WidthSafety == Spec => []WidthBound
<1>1. Inv => WidthBound
  <2> SUFFICES ASSUME Inv PROVE Cardinality(Running) =< Width
    BY DEF WidthBound
  <2>1. Running \subseteq Index /\ \A i \in Running : pc[i] = "running"
    BY DEF Running
  <2>2. Jobs \in SUBSET Index /\ permits \in SUBSET Index
    BY JobsAreCalls DEF Inv, TypeOK
  <2>3. ASSUME NEW S \in SUBSET Index, Running \subseteq S, Cardinality(S) =< Width
        PROVE  Cardinality(Running) =< Width
    <3>1. IsFiniteSet(S) /\ Cardinality(S) \in Nat /\ Cardinality(Running) \in Nat
      BY <2>1, FiniteCalls
    <3>2. Cardinality(Running) =< Cardinality(S)
      BY <2>3, <3>1, FS_Subset
    <3>3. QED
      BY <2>3, <3>1, <3>2, WidthType
  <2>4. CASE HasSemaphore
    <3>1. Running \subseteq permits /\ Cardinality(permits) =< Width
      BY <2>1, <2>4 DEF Inv, PermitInv
    <3>2. QED
      BY <2>2, <2>3, <3>1
  <2>5. CASE ~HasSemaphore
    <3>1. Running \subseteq Jobs
      BY <2>1 DEF Inv, JobInv
    <3>2. Cardinality(Jobs) =< Width
      BY <2>2, <2>5, FiniteCalls, WidthType DEF HasSemaphore
    <3>3. QED
      BY <2>2, <2>3, <3>1, <3>2
  <2>6. QED
    BY <2>4, <2>5
<1>2. QED
  BY <1>1, Invariance, PTL

(* A result saying "before execution" is never given to a call whose tool  *)
(* was polled.                                                             *)
THEOREM BeforeSafety == Spec => []BeforeMeansNotRun
<1>1. Inv => BeforeMeansNotRun
  BY DEF Inv, JobInv, BeforeMeansNotRun
<1>2. QED
  BY <1>1, Invariance, PTL

(***************************************************************************)
(* The four together, as a batch of any length, of any classes and under   *)
(* any max_parallel_tools keeps them.                                      *)
(***************************************************************************)
THEOREM OrderSafety == Spec => []DispatchOrder
  BY SerialSafety, KeyOrderSafety, WidthSafety, BeforeSafety, PTL DEF DispatchOrder

-----------------------------------------------------------------------------
(* The books of a batch                                                    *)

(* The units of a plan are as fixed as the plan.                           *)
LEMMA UnitFrame ==
  ASSUME UNCHANGED planView
  PROVE  /\ InlineUnit' = InlineUnit
         /\ \A i \in Index : UnitOf(i)' = UnitOf(i)
         /\ \A u \in Unit : JobsOf(u)' = JobsOf(u)
BY DEF planView, InlineUnit, UnitOf, JobsOf, Jobs

LEMMA AccountsInit == Init => AccountsInv
<1> SUFFICES ASSUME Init PROVE AccountsInv
  OBVIOUS
<1>1. Jobs = {}
  BY DEF Init, Jobs, JobsIn
<1>2. TaskInv
  BY <1>1 DEF Init, TaskInv
<1>3. ComputedInv
  BY DEF Init, ComputedInv
<1>4. SlotInv
  <2>1. \A i \in Index : ~(i < 1)
    BY DEF Index
  <2>2. QED
    BY <1>1, <2>1 DEF Init, SlotInv
<1>5. NotifyInv
  BY DEF Init, NotifyInv
<1>6. QED
  BY <1>2, <1>3, <1>4, <1>5 DEF AccountsInv

(* Phase 1 accounts for the calls up to the cursor.                        *)
LEMMA AccountsPreflight == DispatchInv /\ Preflight => AccountsInv'
<1> SUFFICES ASSUME DispatchInv, Preflight PROVE AccountsInv'
  OBVIOUS
<1> USE DEF planVars, lockVars, envVars, slotVars
<1>1. Inv /\ AccountsInv /\ TypeOK
  BY DEF DispatchInv, Inv
<1>2. phase = "preflight"
  BY DEF Preflight, RejectPairing, UnknownTool, DenyTool, BeforeToolFails, AdmitTool,
         StartExecution, InPreflight
<1>3. /\ \A i \in Index : pc[i] = "idle"
      /\ \A u \in Unit : task[u] = "unspawned"
      /\ executed = {} /\ ret = "none"
  BY <1>1, <1>2 DEF Inv, QuietInv, AccountsInv, ComputedInv, SlotInv, TypeOK
<1>4. /\ cursor \in Int /\ Jobs \subseteq Index /\ Index \subseteq Int
      /\ cursor \in Calls => cursor \in Index
      /\ \A i \in Jobs : i < cursor
  BY <1>1, <1>2, BatchFacts, JobsAreCalls DEF Inv, PlanInv, Index
<1>5. \A i \in Index : IF i < cursor THEN i \in Jobs \/ Refused(i) ELSE slots[i] = "none"
  BY <1>1, <1>2 DEF AccountsInv, SlotInv
<1>6. CASE RejectPairing \/ BeforeToolFails
  <2>1. /\ UNCHANGED <<planView, pc, task, outcome, started, slots, executed, notified, failure, batch>>
        /\ phase' = "returned" /\ ret' \in {"InvalidToolCall", "Extension"}
    BY <1>6 DEF RejectPairing, BeforeToolFails, Return, planView
  <2>2. TaskInv'
    BY <1>3, <1>4, <2>1, PlanFrame DEF TaskInv, Active, Waiting
  <2>3. ComputedInv'
    BY <1>1, <1>3, <2>1, PlanFrame DEF ComputedInv, AccountsInv
  <2>4. SlotInv'
    BY <1>1, <2>1, PlanFrame DEF SlotInv, AccountsInv, Refused
  <2>5. NotifyInv'
    BY <1>1, <2>1 DEF NotifyInv, AccountsInv
  <2>6. QED
    BY <2>2, <2>3, <2>4, <2>5 DEF AccountsInv
<1>7. ASSUME NEW r \in {"unknown", "denied"}, cursor \in Calls,
             slots' = [slots EXCEPT ![cursor] = r],
             notified' = IF r = "denied" THEN [notified EXCEPT ![cursor] = @ + 1] ELSE notified,
             cursor' = cursor + 1,
             UNCHANGED <<planView, pc, task, outcome, started, executed, failure, batch, phase, ret>>
      PROVE  AccountsInv'
  <2>1. cursor \in Index /\ cursor \notin Jobs
    BY <1>4, <1>7
  <2>2. slots'[cursor] = r /\ \A i \in Index \ {cursor} : slots'[i] = slots[i]
    BY <1>1, <1>7, <2>1 DEF TypeOK
  <2>3. TaskInv'
    BY <1>2, <1>3, <1>4, <1>7, PlanFrame DEF TaskInv, Active, Waiting
  <2>4. ComputedInv'
    BY <1>1, <1>3, <1>7, PlanFrame DEF ComputedInv, AccountsInv
  <2>5. SlotInv'
    <3>1. \A i \in Jobs' : ~Refused(i)'
      <4>1. Jobs' = Jobs /\ \A i \in Jobs : slots'[i] = slots[i]
        BY <1>4, <1>7, <2>1, <2>2, PlanFrame
      <4>2. \A i \in Jobs : ~Refused(i)
        BY <1>1 DEF AccountsInv, SlotInv
      <4>3. QED
        BY <4>1, <4>2 DEF Refused
    <3>2. ASSUME NEW i \in Index
          PROVE  IF i < cursor' THEN i \in Jobs' \/ Refused(i)' ELSE slots'[i] = "none"
      <4>1. CASE i = cursor
        BY <1>4, <1>7, <2>2, <4>1 DEF Refused
      <4>2. CASE i # cursor
        <5>1. i < cursor + 1 <=> i < cursor
          BY <1>4, <4>2
        <5>2. QED
          BY <1>5, <1>7, <2>2, <4>2, <5>1, PlanFrame DEF Refused
      <4>3. QED
        BY <4>1, <4>2
    <3>3. QED
      BY <1>2, <1>3, <1>7, <3>1, <3>2 DEF SlotInv
  <2>6. NotifyInv'
    <3>1. notified[cursor] = 0
      <4>1. slots[cursor] = "none"
        BY <1>4, <1>5, <2>1
      <4>2. QED
        BY <1>1, <1>3, <2>1, <4>1 DEF AccountsInv, NotifyInv
    <3>2. \A i \in Index \ {cursor} : notified'[i] = notified[i]
      BY <1>1, <1>7, <2>1 DEF TypeOK
    <3>3. notified'[cursor] = IF r = "denied" THEN 1 ELSE 0
      BY <1>1, <1>7, <2>1, <3>1 DEF TypeOK
    <3>4. QED
      BY <1>1, <1>3, <1>7, <2>1, <2>2, <3>2, <3>3 DEF AccountsInv, NotifyInv
  <2>7. QED
    BY <2>3, <2>4, <2>5, <2>6 DEF AccountsInv
<1>8. CASE UnknownTool \/ DenyTool
  BY <1>7, <1>8 DEF UnknownTool, DenyTool, planView
<1>9. ASSUME NEW c \in Classes, AdmitTool(c) PROVE AccountsInv'
  <2>1. /\ cursor \in Index /\ cursor' = cursor + 1
        /\ class' = [class EXCEPT ![cursor] = c]
        /\ UNCHANGED <<pc, task, outcome, started, slots, executed, notified, failure, batch,
                       phase, ret>>
    BY <1>4, <1>9 DEF AdmitTool
  <2>2. Jobs' = Jobs \cup {cursor}
    BY <1>1, <2>1, ClassesAssumption, ClassFacts DEF Jobs, JobsIn, TypeOK
  <2>3. TaskInv'
    BY <1>2, <1>3, <1>4, <2>1, <2>2 DEF TaskInv, Active, Waiting
  <2>4. ComputedInv'
    BY <1>1, <1>3, <2>1 DEF ComputedInv, AccountsInv
  <2>5. SlotInv'
    <3>1. \A i \in Jobs' : ~Refused(i)'
      BY <1>1, <1>4, <1>5, <2>1, <2>2 DEF AccountsInv, SlotInv, Refused
    <3>2. ASSUME NEW i \in Index
          PROVE  IF i < cursor' THEN i \in Jobs' \/ Refused(i)' ELSE slots'[i] = "none"
      <4>1. i # cursor => (i < cursor + 1 <=> i < cursor)
        BY <1>4
      <4>2. QED
        BY <1>4, <1>5, <2>1, <2>2, <4>1 DEF Refused
    <3>3. QED
      BY <1>2, <1>3, <2>1, <3>1, <3>2 DEF SlotInv
  <2>6. NotifyInv'
    BY <1>1, <2>1 DEF NotifyInv, AccountsInv
  <2>7. QED
    BY <2>3, <2>4, <2>5, <2>6 DEF AccountsInv
<1>10. CASE StartExecution
  <2>1. /\ UNCHANGED <<planView, pc, outcome, started, slots, executed, notified, failure, batch, ret>>
        /\ phase' = IF Jobs = {} THEN "collect" ELSE "execute"
        /\ task' = [u \in Unit |-> IF u \in Units THEN "live" ELSE "unspawned"]
        /\ cursor = Len(batch) + 1
    BY <1>10 DEF StartExecution, planView
  <2>2. TaskInv'
    <3>1. \A u \in Unit : task'[u] # "aborted" /\ task'[u] # "joined"
      BY <2>1
    <3>2. Jobs = {} => \A u \in Unit : task'[u] # "live"
      BY <2>1 DEF Units
    <3>3. QED
      BY <1>3, <1>4, <2>1, <3>1, <3>2, PlanFrame DEF TaskInv, Active, Waiting
  <2>3. ComputedInv'
    BY <1>1, <1>3, <2>1, PlanFrame DEF ComputedInv, AccountsInv
  <2>4. SlotInv'
    <3>1. \A i \in Calls : i \in Index /\ i < cursor
      BY <1>1, <2>1, BatchFacts DEF Calls
    <3>2. Calls' = Calls
      BY <2>1 DEF Calls
    <3>3. QED
      BY <1>1, <1>3, <1>5, <2>1, <3>1, <3>2, PlanFrame DEF AccountsInv, SlotInv, Refused
  <2>5. NotifyInv'
    BY <1>1, <2>1 DEF NotifyInv, AccountsInv
  <2>6. QED
    BY <2>2, <2>3, <2>4, <2>5 DEF AccountsInv
<1>11. QED
  BY <1>6, <1>8, <1>9, <1>10 DEF Preflight

(* run_job acts only in a live task, on a call that is not over, and never *)
(* once the dispatching task has left phase 2.                             *)
LEMMA JobStepWhere ==
  ASSUME DispatchInv, NEW i \in Index, JobStep(i)
  PROVE  /\ i \in Jobs /\ UnitOf(i) \in Unit /\ task[UnitOf(i)] = "live"
         /\ pc[i] \in Active \cup {"idle"}
         /\ phase \notin {"preflight", "collect", "returned"}
         /\ JobUnchanged
<1>1. Inv /\ AccountsInv
  BY DEF DispatchInv
<1>2. pc[i] \in Active \/ AtHead(i)
  BY DEF JobStep, Acquire, Interrupt, RequestPermit, GrantPermit, RequestLock, GrantLock,
         StartTool, ToolReturns, CancelBefore, CancelDuring, ExpireBefore, ExpireDuring,
         FinishJob, AtPermit, AtLock, AtTool, HasPermit, Waiting, Active
<1>3. i \in Jobs
  BY <1>1, <1>2 DEF Inv, JobInv, AtHead, Active, Waiting
<1>4. UnitOf(i) \in Unit
  BY <1>1, <1>3, UnitType
<1>5. task[UnitOf(i)] = "live"
  BY <1>1, <1>2, <1>3 DEF AccountsInv, TaskInv, AtHead
<1>6. pc[i] \in Active \cup {"idle"}
  BY <1>2 DEF AtHead
<1>7. ~UnitDone(UnitOf(i))
  BY <1>3, <1>6 DEF UnitDone, JobsOf, Active, Waiting
<1>8. phase \notin {"collect", "returned"}
  BY <1>1, <1>4, <1>5, <1>7 DEF AccountsInv, TaskInv
<1>9. JobUnchanged
  BY DEF JobStep, Acquire, Interrupt, RequestPermit, GrantPermit, RequestLock, GrantLock,
         StartTool, ToolReturns, CancelBefore, CancelDuring, ExpireBefore, ExpireDuring,
         FinishJob, Conclude
<1>10. QED
  BY <1>1, <1>3, <1>4, <1>5, <1>6, <1>8, <1>9, JobStepLater

(* The books when run_job takes i to s.                                    *)
LEMMA AccountsMove ==
  ASSUME DispatchInv, NEW i \in Index, JobStep(i),
         NEW s \in Active \cup {"done"}, pc' = [pc EXCEPT ![i] = s],
         started \subseteq started',
         \A j \in Index \ {i} : /\ outcome'[j] = outcome[j] /\ slots'[j] = slots[j]
                                /\ notified'[j] = notified[j]
                                /\ j \in executed' <=> j \in executed,
         slots'[i] \notin {"unknown", "denied"},
         s \in {"finishing", "done"} => outcome'[i] # "none",
         s = "running" \/ outcome'[i] = "tool" => i \in started',
         s = "done" /\ UnitOf(i) = InlineUnit => i \in executed',
         i \in executed' => s = "done" /\ slots'[i] = outcome'[i],
         notified'[i] = IF s = "done" THEN 1 ELSE 0
  PROVE  AccountsInv'
<1>1. Inv /\ AccountsInv
  BY DEF DispatchInv
<1>2. /\ i \in Jobs /\ UnitOf(i) \in Unit /\ task[UnitOf(i)] = "live"
      /\ pc[i] \in Active \cup {"idle"}
      /\ phase \notin {"preflight", "collect", "returned"}
      /\ JobUnchanged
  BY JobStepWhere
<1>3. /\ UNCHANGED planView /\ UNCHANGED <<task, phase, failure, ret, batch>>
  BY <1>2 DEF JobUnchanged, planVars, planView
<1>4. pc'[i] = s /\ \A j \in Index \ {i} : pc'[j] = pc[j]
  BY <1>1 DEF Inv, TypeOK
<1>5. Jobs \subseteq Index /\ executed \subseteq Index
  BY <1>1, JobsAreCalls DEF Inv, TypeOK
<1>6. i \notin executed
  BY <1>1, <1>2 DEF AccountsInv, ComputedInv, Active, Waiting
<1>7. TaskInv'
  <2>1. \A u \in Unit : JobsOf(u) \subseteq executed => JobsOf(u) \subseteq executed'
    BY <1>5, <1>6 DEF JobsOf
  <2>2. QED
    BY <1>1, <1>2, <1>3, <1>4, <1>5, <2>1, PlanFrame, UnitFrame DEF AccountsInv, TaskInv
<1>8. ComputedInv'
  <2> SUFFICES ASSUME NEW j \in Index
               PROVE  /\ pc'[j] \in {"finishing", "done"} => outcome'[j] # "none"
                      /\ pc'[j] = "running" => j \in started'
                      /\ outcome'[j] = "tool" => j \in started'
                      /\ pc'[j] = "done" /\ UnitOf(j)' = InlineUnit' => j \in executed'
                      /\ j \in executed' => /\ j \in Jobs' /\ pc'[j] = "done"
                                            /\ slots'[j] = outcome'[j]
    BY DEF ComputedInv
  <2>1. CASE j = i
    BY <1>2, <1>3, <1>4, <2>1, PlanFrame, UnitFrame
  <2>2. CASE j # i
    BY <1>1, <1>3, <1>4, <2>2, PlanFrame, UnitFrame DEF AccountsInv, ComputedInv
  <2>3. QED
    BY <2>1, <2>2
<1>9. SlotInv'
  <2>1. ret = "none" /\ ret' = "none"
    BY <1>1, <1>2, <1>3 DEF AccountsInv, SlotInv
  <2>2. \A j \in Jobs : ~Refused(j)'
    BY <1>1, <1>5 DEF AccountsInv, SlotInv, Refused
  <2>3. \A j \in Index \ {i} : Refused(j)' <=> Refused(j)
    BY DEF Refused
  <2>4. Calls' = Calls /\ Calls \subseteq Index
    BY <1>1, <1>3, BatchFacts DEF Calls, Inv
  <2>5. phase = "execute" => \A j \in Calls : j \in Jobs' \/ Refused(j)'
    BY <1>1, <1>2, <1>3, <2>3, <2>4, PlanFrame DEF AccountsInv, SlotInv
  <2>6. QED
    BY <1>2, <1>3, <2>1, <2>2, <2>4, <2>5, PlanFrame DEF SlotInv
<1>10. NotifyInv'
  <2> SUFFICES ASSUME NEW j \in Index
               PROVE  notified'[j] = IF slots'[j] = "denied" \/ pc'[j] = "done" THEN 1 ELSE 0
    BY DEF NotifyInv
  <2>1. CASE j = i
    BY <1>4, <2>1
  <2>2. CASE j # i
    BY <1>1, <1>4, <2>2 DEF AccountsInv, NotifyInv
  <2>3. QED
    BY <2>1, <2>2
<1>11. QED
  BY <1>7, <1>8, <1>9, <1>10 DEF AccountsInv

LEMMA AccountsJobStep ==
  ASSUME DispatchInv, NEW i \in Index, JobStep(i)
  PROVE  AccountsInv'
<1>1. Inv /\ AccountsInv /\ TypeOK
  BY DEF DispatchInv, Inv
<1>2. /\ i \in Jobs /\ pc[i] \in Active \cup {"idle"}
  BY JobStepWhere
<1>3. /\ slots[i] \notin {"unknown", "denied"}
      /\ i \notin executed /\ notified[i] = 0
  <2>1. ~Refused(i) /\ pc[i] # "done"
    BY <1>1, <1>2 DEF AccountsInv, SlotInv, Active, Waiting
  <2>2. QED
    BY <1>1, <2>1 DEF AccountsInv, ComputedInv, NotifyInv, Refused
<1>4. pc[i] \notin {"finishing", "done"} =>
        outcome[i] = "none"
  BY <1>1, <1>2 DEF Inv, JobInv, Active, Waiting
<1> USE DEF slotVars
<1>5. CASE Acquire(i)
  <2>1. \E s \in Active \ {"running", "finishing"} :
           /\ pc' = [pc EXCEPT ![i] = s]
           /\ UNCHANGED <<started, outcome, slots, executed, notified>>
    BY <1>5 DEF Acquire, RequestPermit, GrantPermit, RequestLock, GrantLock, Active, Waiting
  <2>2. outcome[i] = "tool" => i \in started
    BY <1>1 DEF AccountsInv, ComputedInv
  <2>3. QED
    BY <1>3, <2>1, <2>2, AccountsMove DEF Active, Waiting
<1>6. CASE StartTool(i)
  <2>1. /\ pc' = [pc EXCEPT ![i] = "running"] /\ started' = started \cup {i}
        /\ UNCHANGED <<outcome, slots, executed, notified>>
    BY <1>6 DEF StartTool
  <2>2. QED
    BY <1>3, <2>1, AccountsMove DEF Active
<1>7. ASSUME NEW o \in Outcome, Conclude(i, o), o = "tool" => i \in started
      PROVE  AccountsInv'
  <2>1. /\ pc' = [pc EXCEPT ![i] = "finishing"]
        /\ UNCHANGED <<started, slots, executed, notified>>
    BY <1>7 DEF Conclude
  <2>2. outcome'[i] = o /\ o # "none" /\ \A j \in Index \ {i} : outcome'[j] = outcome[j]
    BY <1>1, <1>7 DEF Conclude, TypeOK, Outcome, Interrupted
  <2>3. QED
    BY <1>3, <1>7, <2>1, <2>2, AccountsMove DEF Active
<1>8. CASE ToolReturns(i)
  BY <1>1, <1>7, <1>8 DEF ToolReturns, Outcome, AccountsInv, ComputedInv
<1>9. CASE Interrupt(i)
  BY <1>7, <1>9 DEF Interrupt, CancelBefore, CancelDuring, ExpireBefore, ExpireDuring,
                    Outcome, Interrupted
<1>10. CASE FinishJob(i)
  <2>1. /\ pc' = [pc EXCEPT ![i] = "done"] /\ UNCHANGED <<started, outcome>>
        /\ outcome[i] # "none" /\ (outcome[i] = "tool" => i \in started)
        /\ outcome[i] \in {"none"} \cup Outcome
    BY <1>1, <1>10 DEF FinishJob, AccountsInv, ComputedInv, TypeOK
  <2>2. /\ notified'[i] = 1 /\ \A j \in Index \ {i} : notified'[j] = notified[j]
    BY <1>1, <1>3, <1>10 DEF FinishJob, TypeOK
  <2>3. \A j \in Index \ {i} : slots'[j] = slots[j] /\ (j \in executed' <=> j \in executed)
    BY <1>1, <1>10 DEF FinishJob, TypeOK
  <2>4. UnitOf(i) = InlineUnit => slots'[i] = outcome[i] /\ i \in executed'
    BY <1>1, <1>10 DEF FinishJob, TypeOK
  <2>5. UnitOf(i) # InlineUnit => slots'[i] = slots[i] /\ i \notin executed'
    BY <1>3, <1>10 DEF FinishJob
  <2>6. slots'[i] \notin {"unknown", "denied"}
    BY <1>3, <2>1, <2>4, <2>5 DEF Outcome, Interrupted
  <2>7. QED
    BY <2>1, <2>2, <2>3, <2>4, <2>5, <2>6, AccountsMove
<1>11. QED
  BY <1>5, <1>6, <1>8, <1>9, <1>10 DEF JobStep

(* A task that is lost takes its unfinished calls with it, and no other.   *)
LEMMA AccountsLose ==
  ASSUME DispatchInv, NEW u, NEW w \in {"panicked", "aborted"}, LoseJobs(u),
         task' = [task EXCEPT ![u] = w],
         \/ phase \in {"execute", "unwound"}
         \/ u \in Unit /\ task[u] = "live" /\ ~UnitDone(u),
         w = "aborted" => failure \/ phase' = "unwound",
         phase' \in {phase, "unwound"},
         UNCHANGED <<planView, batch, started, outcome, slots, executed, notified, failure, ret>>
  PROVE  AccountsInv'
<1>1. Inv /\ AccountsInv /\ TypeOK
  BY DEF DispatchInv, Inv
<1>2. phase \notin {"collect", "returned"}
  BY <1>1 DEF AccountsInv, TaskInv
<1>3. \A i \in Index :
         \/ pc'[i] = pc[i] /\ (i \in Jobs /\ UnitOf(i) = u => pc[i] \notin Active)
         \/ pc'[i] = "lost" /\ pc[i] \in Active
  BY DEF LoseJobs, JobsOf
<1>4. \A i \in Index : pc'[i] = "done" <=> pc[i] = "done"
  BY <1>3 DEF Active, Waiting
<1>5. Jobs \subseteq Index /\ \A i \in Jobs : UnitOf(i) \in Unit
  BY <1>1, JobsAreCalls, UnitType
<1>6. \A v \in Unit : task'[v] = IF v = u THEN w ELSE task[v]
  BY <1>1 DEF TypeOK
<1>7. phase = "unwound" => phase' = "unwound"
  OBVIOUS
<1>8. TaskInv'
  <2>1. \A i \in Jobs : pc'[i] \in Active => pc[i] \in Active /\ UnitOf(i) # u
    BY <1>3, <1>5 DEF Active, Waiting
  <2>2. \A i \in Jobs : pc'[i] \in Active => task'[UnitOf(i)] = "live"
    BY <1>1, <1>5, <1>6, <2>1 DEF AccountsInv, TaskInv
  <2>3. \A v \in Unit : task'[v] = "aborted" => failure \/ phase' = "unwound"
    BY <1>1, <1>6, <1>7 DEF AccountsInv, TaskInv
  <2>4. \A v \in Unit : task'[v] = "joined" => failure \/ JobsOf(v) \subseteq executed
    BY <1>1, <1>6 DEF AccountsInv, TaskInv
  <2>5. QED
    BY <1>2, <1>5, <2>2, <2>3, <2>4, PlanFrame, UnitFrame DEF TaskInv
<1>9. ComputedInv'
  BY <1>1, <1>3, <1>4, PlanFrame, UnitFrame DEF AccountsInv, ComputedInv
<1>10. SlotInv'
  <2>1. ret = "none" /\ Calls' = Calls /\ \A i \in Index : Refused(i)' <=> Refused(i)
    BY <1>1, <1>2 DEF AccountsInv, SlotInv, Refused, Calls
  <2>2. phase # "preflight" \/ phase' = "unwound"
    BY <1>1 DEF Inv, QuietInv
  <2>3. Calls \subseteq Index
    BY <1>1, BatchFacts
  <2>4. QED
    BY <1>1, <1>2, <1>5, <2>1, <2>2, <2>3, PlanFrame DEF AccountsInv, SlotInv
<1>11. NotifyInv'
  BY <1>1, <1>4 DEF AccountsInv, NotifyInv
<1>12. QED
  BY <1>8, <1>9, <1>10, <1>11 DEF AccountsInv

(* The host drops the run outside phase 2.                                 *)
LEMMA AccountsDropped ==
  ASSUME DispatchInv, phase # "execute", phase' = "unwound", ret = "none",
         UNCHANGED <<planView, batch, started, outcome, slots, executed, notified, failure, ret,
                     task, pc>>
  PROVE  AccountsInv'
<1>1. AccountsInv
  BY DEF DispatchInv
<1>2. TaskInv'
  BY <1>1, PlanFrame, UnitFrame, JobsAreCalls DEF AccountsInv, TaskInv, DispatchInv, Inv
<1>3. ComputedInv'
  BY <1>1, PlanFrame, UnitFrame DEF AccountsInv, ComputedInv
<1>4. SlotInv'
  BY <1>1, PlanFrame DEF AccountsInv, SlotInv, Refused
<1>5. NotifyInv'
  BY <1>1 DEF AccountsInv, NotifyInv
<1>6. QED
  BY <1>2, <1>3, <1>4, <1>5 DEF AccountsInv

(* Joining a task brings in its results, or the news of a panic.           *)
LEMMA AccountsJoin == DispatchInv /\ Join => AccountsInv'
<1> SUFFICES ASSUME DispatchInv, Join PROVE AccountsInv'
  OBVIOUS
<1> USE DEF planVars, lockVars, envVars, slotVars
<1>1. Inv /\ AccountsInv /\ TypeOK
  BY DEF DispatchInv, Inv
<1>2. /\ phase = "execute" /\ UnitDone(InlineUnit)
      /\ UNCHANGED <<planView, batch, pc, started, outcome, notified>>
  BY DEF Join, JoinDone, JoinLost, EndExecution, Joining, JoinUnchanged, planView
<1>3. ret = "none"
  BY <1>1, <1>2 DEF AccountsInv, SlotInv
<1>4. /\ Jobs \subseteq Index /\ \A i \in Jobs : UnitOf(i) \in Unit
      /\ Calls' = Calls /\ Calls \subseteq Index
  BY <1>1, <1>2, JobsAreCalls, UnitType, BatchFacts DEF Calls
<1>5. \A i \in Calls : i \in Jobs \/ Refused(i)
  BY <1>1, <1>2 DEF AccountsInv, SlotInv
<1>6. ASSUME NEW u \in Unit, JoinDone(u) PROVE AccountsInv'
  <2>1. /\ UNCHANGED <<phase, ret, failure>>
        /\ UnitDone(u) /\ executed' = executed \cup JobsOf(u)
        /\ task'[u] = "joined" /\ \A v \in Unit \ {u} : task'[v] = task[v]
        /\ \A i \in Index : slots'[i] = IF i \in JobsOf(u) THEN outcome[i] ELSE slots[i]
        /\ JobsOf(u) \subseteq Jobs
    BY <1>1, <1>6 DEF JoinDone, JoinUnchanged, TypeOK, JobsOf
  <2>2. \A i \in JobsOf(u) : /\ i \in Jobs /\ i \in Index /\ pc[i] = "done" /\ UnitOf(i) = u
                             /\ outcome[i] \in Outcome
    <3>1. \A i \in JobsOf(u) : i \in Jobs /\ i \in Index /\ pc[i] = "done" /\ UnitOf(i) = u
      BY <1>4, <2>1 DEF UnitDone, JobsOf
    <3>2. QED
      BY <1>1, <3>1 DEF AccountsInv, ComputedInv, TypeOK
  <2>3. \A i \in Index : /\ Refused(i)' <=> Refused(i)
                         /\ slots'[i] = "denied" <=> slots[i] = "denied"
    <3>1. \A i \in JobsOf(u) : slots'[i] \notin {"unknown", "denied"}
      BY <2>1, <2>2 DEF Outcome, Interrupted
    <3>2. \A i \in JobsOf(u) : ~Refused(i)
      BY <1>1, <2>2 DEF AccountsInv, SlotInv
    <3>3. QED
      BY <2>1, <3>1, <3>2 DEF Refused
  <2>4. TaskInv'
    <3>1. \A i \in Jobs : pc[i] \in Active => UnitOf(i) # u
      BY <1>4, <2>1 DEF UnitDone, JobsOf, Active, Waiting
    <3>2. \A i \in Jobs : pc[i] \in Active => task'[UnitOf(i)] = "live"
      BY <1>1, <1>4, <2>1, <3>1 DEF AccountsInv, TaskInv
    <3>3. \A v \in Unit : task'[v] = "aborted" => failure \/ phase = "unwound"
      BY <1>1, <2>1 DEF AccountsInv, TaskInv
    <3>4. \A v \in Unit : task'[v] = "joined" => failure \/ JobsOf(v) \subseteq executed'
      BY <1>1, <2>1 DEF AccountsInv, TaskInv
    <3>5. QED
      BY <1>2, <1>4, <2>1, <3>2, <3>3, <3>4, PlanFrame, UnitFrame DEF TaskInv
  <2>5. ComputedInv'
    <3> SUFFICES ASSUME NEW j \in Index
                 PROVE  /\ pc'[j] \in {"finishing", "done"} => outcome'[j] # "none"
                        /\ pc'[j] = "running" => j \in started'
                        /\ outcome'[j] = "tool" => j \in started'
                        /\ pc'[j] = "done" /\ UnitOf(j)' = InlineUnit' => j \in executed'
                        /\ j \in executed' => /\ j \in Jobs' /\ pc'[j] = "done"
                                              /\ slots'[j] = outcome'[j]
      BY DEF ComputedInv
    <3>1. CASE j \in JobsOf(u)
      BY <1>1, <1>2, <2>1, <2>2, <3>1, PlanFrame DEF AccountsInv, ComputedInv
    <3>2. CASE j \notin JobsOf(u)
      BY <1>1, <1>2, <2>1, <3>2, PlanFrame, UnitFrame DEF AccountsInv, ComputedInv
    <3>3. QED
      BY <3>1, <3>2
  <2>6. SlotInv'
    BY <1>1, <1>2, <1>3, <1>4, <1>5, <2>1, <2>3, PlanFrame DEF AccountsInv, SlotInv
  <2>7. NotifyInv'
    BY <1>1, <1>2, <2>3 DEF AccountsInv, NotifyInv
  <2>8. QED
    BY <2>4, <2>5, <2>6, <2>7 DEF AccountsInv
<1>7. ASSUME NEW u \in Unit, JoinLost(u) PROVE AccountsInv'
  <2>1. /\ UNCHANGED <<phase, ret, slots, executed>>
        /\ task[u] \in {"panicked", "aborted"}
        /\ failure' = (failure \/ task[u] = "panicked")
        /\ task'[u] = "joined" /\ \A v \in Unit \ {u} : task'[v] = task[v]
    BY <1>1, <1>7 DEF JoinLost, JoinUnchanged, TypeOK
  <2>2. failure' = TRUE
    BY <1>1, <1>2, <2>1 DEF AccountsInv, TaskInv, TypeOK
  <2>3. TaskInv'
    <3>1. \A i \in Jobs : pc[i] \in Active => task'[UnitOf(i)] = "live"
      BY <1>1, <1>4, <2>1 DEF AccountsInv, TaskInv
    <3>2. QED
      BY <1>2, <1>4, <2>1, <2>2, <3>1, PlanFrame, UnitFrame DEF TaskInv
  <2>4. ComputedInv'
    BY <1>1, <1>2, <2>1, PlanFrame, UnitFrame DEF AccountsInv, ComputedInv
  <2>5. SlotInv'
    BY <1>1, <1>2, <1>3, <1>4, <1>5, <2>1, PlanFrame DEF AccountsInv, SlotInv, Refused
  <2>6. NotifyInv'
    BY <1>1, <1>2, <2>1 DEF AccountsInv, NotifyInv
  <2>7. QED
    BY <2>3, <2>4, <2>5, <2>6 DEF AccountsInv
<1>8. CASE EndExecution
  <2>1. /\ UNCHANGED <<slots, executed, task, failure>>
        /\ \A u \in Units \ {InlineUnit} : task[u] = "joined"
        /\ \/ failure /\ phase' = "returned" /\ ret' = "Internal"
           \/ ~failure /\ phase' = "collect" /\ ret' = ret
    BY <1>8 DEF EndExecution, Return
  <2>2. ~failure => Jobs \subseteq executed
    <3> SUFFICES ASSUME ~failure, NEW i \in Jobs PROVE i \in executed
      OBVIOUS
    <3>1. i \in Index /\ UnitOf(i) \in Unit /\ UnitOf(i) \in Units
      BY <1>4 DEF Units
    <3>2. CASE UnitOf(i) = InlineUnit
      <4>1. pc[i] = "done"
        BY <1>2, <3>2 DEF UnitDone, JobsOf
      <4>2. QED
        BY <1>1, <3>1, <3>2, <4>1 DEF AccountsInv, ComputedInv
    <3>3. CASE UnitOf(i) # InlineUnit
      <4>1. JobsOf(UnitOf(i)) \subseteq executed
        BY <1>1, <2>1, <3>1, <3>3 DEF AccountsInv, TaskInv
      <4>2. QED
        BY <4>1 DEF JobsOf
    <3>4. QED
      BY <3>2, <3>3
  <2>3. TaskInv'
    <3>1. ASSUME NEW u \in Unit, task[u] = "live" PROVE UnitDone(u)
      <4>1. u = InlineUnit \/ u \notin Units
        BY <2>1, <3>1
      <4>2. u \notin Units => JobsOf(u) = {}
        BY DEF Units, JobsOf
      <4>3. QED
        BY <1>2, <4>1, <4>2 DEF UnitDone
    <3>2. \A u \in Unit : UnitDone(u)' <=> UnitDone(u)
      BY <1>2, UnitFrame DEF UnitDone
    <3>3. \A u \in Unit : task[u] = "aborted" => failure
      BY <1>1, <1>2 DEF AccountsInv, TaskInv
    <3>4. \A i \in Jobs : pc[i] \in Active => task[UnitOf(i)] = "live"
      BY <1>1 DEF AccountsInv, TaskInv
    <3>5. \A u \in Unit : task[u] = "joined" => failure \/ JobsOf(u) \subseteq executed
      BY <1>1 DEF AccountsInv, TaskInv
    <3>6. QED
      BY <1>2, <1>4, <2>1, <3>1, <3>2, <3>3, <3>4, <3>5, PlanFrame, UnitFrame DEF TaskInv
  <2>4. ComputedInv'
    BY <1>1, <1>2, <2>1, PlanFrame, UnitFrame DEF AccountsInv, ComputedInv
  <2>5. SlotInv'
    BY <1>1, <1>2, <1>3, <1>4, <1>5, <2>1, <2>2, PlanFrame DEF AccountsInv, SlotInv, Refused
  <2>6. NotifyInv'
    BY <1>1, <1>2, <2>1 DEF AccountsInv, NotifyInv
  <2>7. QED
    BY <2>3, <2>4, <2>5, <2>6 DEF AccountsInv
<1>9. QED
  BY <1>6, <1>7, <1>8 DEF Join

(* Phase 3 finds every slot filled.                                        *)
LEMMA AccountsCollect == DispatchInv /\ Collect => AccountsInv'
<1> SUFFICES ASSUME DispatchInv, Collect PROVE AccountsInv'
  OBVIOUS
<1>1. Inv /\ AccountsInv /\ TypeOK
  BY DEF DispatchInv, Inv
<1>2. /\ phase = "collect"
      /\ UNCHANGED <<planView, batch, task, pc, started, outcome, slots, executed, notified, failure>>
  BY DEF Collect, CollectResult, AfterToolFails, ReturnResults, CollectUnchanged, planVars,
         slotVars, planView
<1>3. Jobs \subseteq Index /\ Calls' = Calls /\ Calls \subseteq Index
  BY <1>1, <1>2, JobsAreCalls, BatchFacts DEF Calls
<1>4. ret = "none" /\ Jobs \subseteq executed /\ \A i \in Calls : i \in Jobs \/ Refused(i)
  BY <1>1, <1>2 DEF AccountsInv, SlotInv
<1>5. \A i \in Calls : slots[i] # "none"
  BY <1>1, <1>3, <1>4 DEF AccountsInv, ComputedInv, Refused
<1>6. \/ phase' = "collect" /\ ret' = "none"
      \/ phase' = "returned" /\ ret' \in {"Ok", "Extension"}
  BY <1>2, <1>4, <1>5 DEF Collect, CollectResult, AfterToolFails, ReturnResults, Return
<1>7. TaskInv'
  <2>1. \A u \in Unit : UnitDone(u)' <=> UnitDone(u)
    BY <1>2, UnitFrame DEF UnitDone
  <2>2. QED
    BY <1>1, <1>2, <1>3, <1>6, <2>1, PlanFrame, UnitFrame DEF AccountsInv, TaskInv
<1>8. ComputedInv'
  BY <1>1, <1>2, PlanFrame, UnitFrame DEF AccountsInv, ComputedInv
<1>9. SlotInv'
  BY <1>1, <1>2, <1>3, <1>4, <1>6, PlanFrame DEF AccountsInv, SlotInv, Refused
<1>10. NotifyInv'
  BY <1>1, <1>2 DEF AccountsInv, NotifyInv
<1>11. QED
  BY <1>7, <1>8, <1>9, <1>10 DEF AccountsInv

LEMMA AccountsRest ==
  DispatchInv /\ (\/ \E u \in Unit : TaskPanics(u) \/ AbortTask(u)
                  \/ Unwind \/ Cancel \/ Expire \/ Stopped \/ UNCHANGED vars)
    => AccountsInv'
<1> SUFFICES ASSUME DispatchInv,
                    \/ \E u \in Unit : TaskPanics(u) \/ AbortTask(u)
                    \/ Unwind \/ Cancel \/ Expire \/ Stopped \/ UNCHANGED vars
             PROVE  AccountsInv'
  OBVIOUS
<1> USE DEF planVars, lockVars, envVars, slotVars, planView
<1>1. Inv /\ AccountsInv /\ TypeOK
  BY DEF DispatchInv, Inv
<1>2. ASSUME NEW u \in Unit, TaskPanics(u) PROVE AccountsInv'
  <2>1. ~UnitDone(u)
    BY <1>2 DEF TaskPanics, CanPanic, UnitDone
  <2>2. QED
    BY <1>2, <2>1, AccountsLose DEF TaskPanics
<1>3. ASSUME NEW u \in Unit, AbortTask(u) PROVE AccountsInv'
  BY <1>3, AccountsLose DEF AbortTask
<1>4. CASE Unwind
  <2>1. CASE phase = "execute"
    BY <1>4, <2>1, AccountsLose DEF Unwind
  <2>2. CASE phase # "execute"
    <3>1. ret = "none"
      BY <1>1, <1>4, <2>2 DEF Unwind, AccountsInv, SlotInv
    <3>2. QED
      BY <1>4, <2>2, <3>1, AccountsDropped DEF Unwind
  <2>3. QED
    BY <2>1, <2>2
<1>5. CASE Cancel \/ Expire \/ Stopped \/ UNCHANGED vars
  <2>1. UNCHANGED <<planView, batch, phase, cursor, task, pc, started, outcome, slots, executed,
                    notified, failure, ret>>
    BY <1>5 DEF Cancel, Expire, EnvUnchanged, Stopped, vars
  <2>2. Jobs \subseteq Index /\ Calls' = Calls
    BY <1>1, <2>1, JobsAreCalls DEF Calls
  <2>3. TaskInv'
    <3>1. \A u \in Unit : UnitDone(u)' <=> UnitDone(u)
      BY <2>1, UnitFrame DEF UnitDone
    <3>2. QED
      BY <1>1, <2>1, <2>2, <3>1, PlanFrame, UnitFrame DEF AccountsInv, TaskInv
  <2>4. ComputedInv'
    BY <1>1, <2>1, PlanFrame, UnitFrame DEF AccountsInv, ComputedInv
  <2>5. SlotInv'
    BY <1>1, <2>1, <2>2, PlanFrame DEF AccountsInv, SlotInv, Refused
  <2>6. NotifyInv'
    BY <1>1, <2>1 DEF AccountsInv, NotifyInv
  <2>7. QED
    BY <2>3, <2>4, <2>5, <2>6 DEF AccountsInv
<1>6. QED
  BY <1>2, <1>3, <1>4, <1>5

(***************************************************************************)
(* The whole inductive invariant, the books included, holds of every       *)
(* dispatch: of any batch, any classes, any width, through panics, drops,  *)
(* cancellation and the deadline.                                          *)
(***************************************************************************)
THEOREM DispatchInvariance == Spec => []DispatchInv
<1>1. Init => DispatchInv
  BY InvInit, AccountsInit DEF DispatchInv
<1>2. DispatchInv /\ [Next]_vars => DispatchInv'
  <2> SUFFICES ASSUME DispatchInv, [Next]_vars PROVE DispatchInv'
    OBVIOUS
  <2>1. Inv'
    BY InvPreflight, InvJobStep, InvRest DEF Next, DispatchInv
  <2>2. AccountsInv'
    BY AccountsPreflight, AccountsJobStep, AccountsJoin, AccountsCollect, AccountsRest DEF Next
  <2>3. QED
    BY <2>1, <2>2 DEF DispatchInv
<1>3. QED
  BY <1>1, <1>2, PTL DEF Spec

(***************************************************************************)
(* Every call gets the result of its own tool and exactly one              *)
(* tool_finished, the "missing result" error of phase 3 is dead code, and  *)
(* execute returns only when no task it spawned can still run a tool.      *)
(***************************************************************************)
THEOREM AccountsSafety == Spec => []DispatchAccounts
<1>1. DispatchInv => DispatchAccounts
  <2> SUFFICES ASSUME DispatchInv PROVE DispatchAccounts
    OBVIOUS
  <2>1. Inv /\ AccountsInv /\ TypeOK /\ Calls \subseteq Index /\ Jobs \subseteq Index
    BY BatchFacts, JobsAreCalls DEF DispatchInv, Inv
  <2>2. ASSUME ret = "Ok", NEW i \in Calls
        PROVE  /\ slots[i] # "none"
               /\ i \in Jobs => slots[i] = outcome[i] /\ i \in executed
               /\ slots[i] = "tool" => i \in started
               /\ slots[i] \in {"unknown", "denied"} => i \notin started
               /\ notified[i] = 1 <=> slots[i] # "unknown"
    <3>1. CASE i \in Jobs
      <4>1. i \in Index /\ i \in executed /\ pc[i] = "done" /\ slots[i] = outcome[i]
        BY <2>1, <2>2, <3>1 DEF AccountsInv, SlotInv, ComputedInv
      <4>2. slots[i] \notin {"none", "unknown", "denied"}
        BY <2>1, <3>1, <4>1 DEF AccountsInv, SlotInv, ComputedInv, Refused
      <4>3. QED
        BY <2>1, <4>1, <4>2 DEF AccountsInv, ComputedInv, NotifyInv
    <3>2. CASE i \notin Jobs
      <4>1. Refused(i) /\ i \in Index
        BY <2>1, <2>2, <3>2 DEF AccountsInv, SlotInv
      <4>2. pc[i] = "idle" /\ i \notin started
        BY <2>1, <3>2, <4>1 DEF Inv, JobInv
      <4>3. QED
        BY <2>1, <3>2, <4>1, <4>2 DEF AccountsInv, NotifyInv, Refused
    <3>3. QED
      BY <3>1, <3>2
  <2>3. ResultsAreReal
    BY <2>2 DEF ResultsAreReal
  <2>4. NoMissingResult
    BY <2>1 DEF NoMissingResult, AccountsInv, SlotInv
  <2>5. FinishedOnce
    BY <2>1, <2>2 DEF FinishedOnce, AccountsInv, NotifyInv
  <2>6. NoOrphanTask
    <3> SUFFICES ASSUME phase = "returned", NEW i \in Index, pc[i] \in Active \/ AtHead(i)
                 PROVE  FALSE
      BY DEF NoOrphanTask
    <3>1. i \in Jobs /\ task[UnitOf(i)] = "live"
      BY <2>1 DEF Inv, JobInv, AccountsInv, TaskInv, AtHead, Active, Waiting
    <3>2. UnitOf(i) \in Unit
      BY <2>1, <3>1, UnitType
    <3>3. pc[i] = "done"
      BY <2>1, <3>1, <3>2 DEF AccountsInv, TaskInv, UnitDone, JobsOf
    <3>4. QED
      BY <3>3 DEF AtHead, Active, Waiting
  <2>7. QED
    BY <2>3, <2>4, <2>5, <2>6 DEF DispatchAccounts
<1>2. QED
  BY <1>1, DispatchInvariance, PTL

(***************************************************************************)
(* "A cancelled run must not start tools": guarded looks at the token      *)
(* before the first poll, and no task is left once execute has returned.   *)
(***************************************************************************)
THEOREM CancelSafety == Spec => NoStartAfterCancel
<1>1. DispatchInv /\ [Next]_vars =>
        [cancelled \/ phase = "returned" => started' = started]_vars
  <2> SUFFICES ASSUME DispatchInv, [Next]_vars, cancelled \/ phase = "returned"
               PROVE  started' = started
    OBVIOUS
  <2>1. ASSUME NEW i \in Index, JobStep(i) PROVE started' = started
    <3>1. phase # "returned"
      BY <2>1, JobStepWhere
    <3>2. ~StartTool(i)
      BY <3>1 DEF StartTool
    <3>3. QED
      BY <2>1, <3>2
      DEF JobStep, Acquire, Interrupt, RequestPermit, GrantPermit, RequestLock, GrantLock,
          ToolReturns, CancelBefore, CancelDuring, ExpireBefore, ExpireDuring, FinishJob,
          Conclude
  <2>2. CASE Preflight
    BY <2>2 DEF Preflight, RejectPairing, UnknownTool, DenyTool, BeforeToolFails, AdmitTool,
                StartExecution
  <2>3. CASE \E u \in Unit : TaskPanics(u) \/ AbortTask(u)
    BY <2>3 DEF TaskPanics, AbortTask
  <2>4. CASE Unwind \/ Join \/ Collect
    BY <2>4 DEF Unwind, Join, JoinDone, JoinLost, EndExecution, JoinUnchanged, Collect,
                CollectResult, AfterToolFails, ReturnResults, CollectUnchanged
  <2>5. CASE Cancel \/ Expire \/ Stopped \/ UNCHANGED vars
    BY <2>5 DEF Cancel, Expire, EnvUnchanged, Stopped, vars
  <2>6. QED
    BY <2>1, <2>2, <2>3, <2>4, <2>5 DEF Next
<1>2. QED
  BY <1>1, DispatchInvariance, PTL DEF Spec, NoStartAfterCancel

-----------------------------------------------------------------------------
(* The promise of the concurrency classes                                  *)

(* A call that run_job has reached has its turn in the promise's sense.    *)
LEMMA TurnComes ==
  ASSUME DispatchInv, NEW i \in Jobs,
         pc[i] \in {"idle", "permitted", "locked"} \cup Waiting, pc[i] = "idle" => AtHead(i)
  PROVE  Promise!Turn(i)
<1>1. Inv /\ i \in Index /\ Jobs \subseteq Index /\ class \in ClassMap
  BY JobsAreCalls DEF DispatchInv, Inv
<1>2. class[i] # NoClass
  BY DEF Jobs, JobsIn
<1>3. i \notin Running \cup Ended
  BY DEF Running, Ended, Waiting
<1>4. ASSUME NEW j \in Promise!Earlier(i),
             \/ Promise!ShareKey(class[i], class[j])
             \/ Promise!SameSerial(class[i], class[j])
      PROVE  j \in Ended
  <2>1. j \in Jobs /\ j < i
    BY DEF Promise!Earlier, Jobs, JobsIn
  <2>2. class[i] \in Concurrency /\ class[j] \in Concurrency
    BY <1>1, <2>1 DEF ClassMap, Jobs, JobsIn
  <2>3. Ordered(class[j], class[i])
    BY <1>4, <2>2, ClassFacts DEF Promise!ShareKey, Promise!SameSerial, Ordered
  <2>4. <<j, i>> \in group.order
    BY <1>1, <2>1, <2>3 DEF Inv, PlanInv, CallOrderKept, Jobs
  <2>5. pc[j] = "done"
    BY <1>1, <2>1, <2>4 DEF Inv, JobInv, AtHead
  <2>6. QED
    BY <1>1, <2>1, <2>5 DEF Ended
<1>5. QED
  BY <1>2, <1>3, <1>4 DEF Promise!Turn

(* When a tool starts, none runs that its call conflicts with.             *)
LEMMA BeginAllowed ==
  ASSUME DispatchInv, NEW i \in Index, StartTool(i)
  PROVE  Promise!Begin(i)
<1>1. Inv /\ Jobs \subseteq Index /\ class \in ClassMap /\ i \in Jobs /\ TypeOK
  BY JobsAreCalls, JobStepWhere DEF DispatchInv, Inv, JobStep
<1>2. /\ pc[i] \in {"idle", "permitted", "locked"} /\ (pc[i] = "idle" => AtHead(i))
      /\ HasSemaphore => i \in permits
      /\ HasLock => i \in (IF Exclusive(i) THEN writer ELSE readers)
  BY <1>1, AtGuards DEF StartTool
<1>3. Promise!Turn(i)
  BY <1>1, <1>2, TurnComes
<1>4. \A j \in Running : j \in Index /\ j \in Jobs /\ pc[j] = "running" /\ j # i
  BY <1>1, <1>2 DEF Running, Inv, JobInv
<1>5. ASSUME NEW j \in Running PROVE ~Promise!Conflict(class[i], class[j])
  <2>1. class[i] \in Concurrency /\ class[j] \in Concurrency
    BY <1>1, <1>4 DEF ClassMap, Jobs, JobsIn
  <2>2. ~Exclusive(i) /\ ~Exclusive(j)
    <3>1. SUFFICES ASSUME Exclusive(i) \/ Exclusive(j) PROVE FALSE
      OBVIOUS
    <3>2. HasLock
      BY <1>1, <1>4, <3>1 DEF HasLock, Exclusive
    <3>3. j \in (IF Exclusive(j) THEN writer ELSE readers)
      BY <1>1, <1>4, <3>2 DEF Inv, LockInv
    <3>4. QED
      BY <1>1, <1>2, <1>4, <3>1, <3>2, <3>3 DEF Inv, LockInv
  <2>3. class[i].kind # "Serial" /\ class[j].kind # "Serial"
    BY <2>1, <2>2, ClassFacts DEF Exclusive
  <2>4. class[i].keys \cap class[j].keys = {}
    <3>1. SUFFICES ASSUME class[i].keys \cap class[j].keys # {} PROVE FALSE
      OBVIOUS
    <3>2. i \in Int /\ j \in Int
      BY <1>4 DEF Index
    <3>3. CASE j < i
      <4>1. j \in Promise!Earlier(i)
        BY <1>4, <3>3 DEF Promise!Earlier, Jobs, JobsIn
      <4>2. j \in Ended
        BY <1>3, <3>1, <4>1 DEF Promise!Turn, Promise!ShareKey
      <4>3. QED
        BY <1>4, <4>2 DEF Ended
    <3>4. CASE i < j
      <4>1. <<i, j>> \in group.order
        BY <1>1, <1>4, <3>1, <3>4 DEF Inv, PlanInv, CallOrderKept, Ordered, Jobs
      <4>2. pc[i] = "done"
        BY <1>1, <1>4, <4>1 DEF Inv, JobInv
      <4>3. QED
        BY <1>2, <4>2
    <3>5. QED
      BY <1>4, <3>2, <3>3, <3>4
  <2>5. QED
    BY <2>3, <2>4 DEF Promise!Conflict, Promise!ShareKey
<1>6. Cardinality(Running) < Width
  <2>1. Running \in SUBSET Index /\ i \notin Running
    BY <1>4 DEF Running
  <2>2. ASSUME NEW S \in SUBSET Index, Running \cup {i} \subseteq S, Cardinality(S) =< Width
        PROVE  Cardinality(Running) < Width
    <3>1. /\ IsFiniteSet(Running) /\ Cardinality(Running) \in Nat
          /\ IsFiniteSet(S) /\ Cardinality(S) \in Nat
      BY <2>1, FiniteCalls
    <3>2. Cardinality(Running \cup {i}) = Cardinality(Running) + 1
      BY <2>1, <3>1, FS_AddElement
    <3>3. Cardinality(Running \cup {i}) =< Cardinality(S)
      BY <2>2, <3>1, FS_Subset
    <3>4. QED
      BY <2>2, <3>1, <3>2, <3>3, WidthType
  <2>3. CASE HasSemaphore
    <3>1. Running \cup {i} \subseteq permits
      BY <1>1, <1>2, <1>4, <2>3 DEF Inv, PermitInv
    <3>2. permits \in SUBSET Index /\ Cardinality(permits) =< Width
      BY <1>1 DEF TypeOK, Inv, PermitInv
    <3>3. QED
      BY <2>2, <3>1, <3>2
  <2>4. CASE ~HasSemaphore
    <3>1. Running \cup {i} \subseteq Jobs
      BY <1>1, <1>4
    <3>2. Cardinality(Jobs) =< Width
      BY <1>1, <2>4, FiniteCalls, WidthType DEF HasSemaphore
    <3>3. QED
      BY <1>1, <2>2, <3>1, <3>2
  <2>5. QED
    BY <2>3, <2>4
<1>7. Running' = Running \cup {i} /\ Ended' = Ended /\ class' = class
  <2>1. pc'[i] = "running" /\ \A j \in Index \ {i} : pc'[j] = pc[j]
    BY <1>1 DEF StartTool, TypeOK
  <2>2. class' = class
    BY DEF StartTool, JobUnchanged, planVars
  <2>3. QED
    BY <1>2, <2>1, <2>2 DEF Running, Ended
<1>8. QED
  <2>1. Promise!Cardinality(Running) = Cardinality(Running)
    BY DEF Promise!Cardinality, Cardinality
  <2>2. QED
    BY <1>3, <1>5, <1>6, <1>7, <2>1 DEF Promise!Begin

(* A call that leaves its tool ends; one that never got to it is skipped.  *)
LEMMA LeavingAllowed ==
  ASSUME DispatchInv, NEW i \in Jobs, UNCHANGED class,
         pc[i] \in Active \cup {"idle"}, pc[i] = "idle" => AtHead(i),
         pc'[i] \in {"finishing", "done", "lost"}, \A j \in Index \ {i} : pc'[j] = pc[j]
  PROVE  [Promise!Next]_(Promise!vars)
<1>1. i \in Index
  BY JobsAreCalls DEF DispatchInv, Inv
<1>2. Running' = Running \ {i} /\ Ended' = Ended \cup {i}
  BY <1>1 DEF Running, Ended
<1>3. CASE pc[i] = "running"
  <2>1. Promise!End(i)
    BY <1>1, <1>2, <1>3 DEF Promise!End, Running
  <2>2. QED
    BY <1>1, <2>1 DEF Promise!Next
<1>4. CASE pc[i] = "finishing"
  BY <1>1, <1>2, <1>4 DEF Running, Ended, Promise!vars
<1>5. CASE pc[i] \notin {"running", "finishing"}
  <2>1. Promise!Turn(i)
    BY <1>5, TurnComes DEF Active
  <2>2. Running' = Running
    BY <1>2, <1>5 DEF Running
  <2>3. Promise!Skip(i)
    BY <1>2, <2>1, <2>2 DEF Promise!Skip
  <2>4. QED
    BY <1>1, <2>3 DEF Promise!Next
<1>6. QED
  BY <1>3, <1>4, <1>5

(* A task has one call under way at a time, so losing it loses one call.   *)
LEMMA LosingAllowed ==
  ASSUME DispatchInv, NEW u, LoseJobs(u), UNCHANGED class
  PROVE  [Promise!Next]_(Promise!vars)
<1> DEFINE lost == {i \in JobsOf(u) : pc[i] \in Active}
<1>1. Inv /\ TypeOK /\ Jobs \subseteq Index
  BY JobsAreCalls DEF DispatchInv, Inv
<1>2. \A i \in Index : pc'[i] = IF i \in lost THEN "lost" ELSE pc[i]
  BY DEF LoseJobs
<1>3. ASSUME NEW i \in lost, NEW j \in lost, i # j PROVE FALSE
  <2>1. /\ i \in Jobs /\ j \in Jobs /\ UnitOf(i) = UnitOf(j)
        /\ pc[i] \in Active /\ pc[j] \in Active
    BY DEF JobsOf
  <2>2. i \notin group.singles /\ j \notin group.singles /\ group.chain[i] = group.chain[j]
    BY <1>3, <2>1 DEF UnitOf
  <2>3. group.chain[i] # 0
    BY <1>1, <2>1, <2>2 DEF Inv, PlanInv, SlotsAgree, Jobs
  <2>4. <<i, j>> \in group.order \/ <<j, i>> \in group.order
    BY <1>1, <1>3, <2>1, <2>2, <2>3 DEF Inv, PlanInv, ChainsAreLists
  <2>5. pc[i] = "done" \/ pc[j] = "done"
    BY <1>1, <2>1, <2>4 DEF Inv, JobInv, Active, Waiting
  <2>6. QED
    BY <2>1, <2>5 DEF Active, Waiting
<1>4. CASE lost = {}
  <2>1. Running' = Running /\ Ended' = Ended
    BY <1>2, <1>4 DEF Running, Ended
  <2>2. QED
    BY <2>1 DEF Promise!vars
<1>5. CASE lost # {}
  <2>1. PICK i \in lost : TRUE
    BY <1>5
  <2>2. i \in Jobs /\ i \in Index /\ pc[i] \in Active
    BY <1>1 DEF JobsOf
  <2>3. pc'[i] = "lost" /\ \A j \in Index \ {i} : pc'[j] = pc[j]
    BY <1>2, <1>3, <2>2
  <2>4. pc[i] # "idle"
    BY <2>2 DEF Active, Waiting
  <2>5. QED
    BY <2>2, <2>3, <2>4, LeavingAllowed
<1>6. QED
  BY <1>4, <1>5

(***************************************************************************)
(* Permits, RwLock, chains and tasks implement the table of concurrency    *)
(* classes: whatever is elided, merged, aborted or lost, each tool starts  *)
(* and ends as ToolBatch allows.                                           *)
(***************************************************************************)
THEOREM Refinement == Spec => ImplementsToolBatch
<1>1. Init => Promise!Init
  BY DEF Init, Promise!Init, Running, Ended
<1>2. DispatchInv /\ [Next]_vars => [Promise!Next]_(Promise!vars)
  <2> SUFFICES ASSUME DispatchInv, [Next]_vars PROVE [Promise!Next]_(Promise!vars)
    OBVIOUS
  <2> USE DEF planVars, lockVars
  <2>1. Inv /\ TypeOK
    BY DEF DispatchInv, Inv
  <2>2. ASSUME UNCHANGED <<class, pc>> PROVE [Promise!Next]_(Promise!vars)
    BY <2>2 DEF Promise!vars, Running, Ended
  <2>3. ASSUME NEW i \in Index, JobStep(i) PROVE [Promise!Next]_(Promise!vars)
    <3>1. /\ i \in Jobs /\ pc[i] \in Active \cup {"idle"} /\ UNCHANGED class
      BY <2>3, JobStepWhere DEF JobUnchanged
    <3>2. CASE Acquire(i)
      <4>1. pc[i] \in {"idle", "permitted"} \cup Waiting
        BY <2>1, <3>2, AtGuards
        DEF Acquire, RequestPermit, GrantPermit, RequestLock, GrantLock, AtLock, Waiting
      <4>2. \E s \in Active \ {"running", "finishing"} : pc' = [pc EXCEPT ![i] = s]
        BY <3>2 DEF Acquire, RequestPermit, GrantPermit, RequestLock, GrantLock, Active, Waiting
      <4>3. Running' = Running /\ Ended' = Ended
        BY <2>1, <4>1, <4>2 DEF TypeOK, Running, Ended, Active, Waiting
      <4>4. QED
        BY <3>1, <4>3 DEF Promise!vars
    <3>3. CASE StartTool(i)
      BY <2>3, <3>3, BeginAllowed DEF Promise!Next
    <3>4. ASSUME NEW s \in {"finishing", "done"}, pc' = [pc EXCEPT ![i] = s],
                 pc[i] = "idle" => AtHead(i)
          PROVE  [Promise!Next]_(Promise!vars)
      <4>1. pc'[i] = s /\ \A j \in Index \ {i} : pc'[j] = pc[j]
        BY <2>1, <3>4 DEF TypeOK
      <4>2. QED
        BY <3>1, <3>4, <4>1, LeavingAllowed
    <3>5. CASE ToolReturns(i) \/ Interrupt(i) \/ FinishJob(i)
      <4>1. pc[i] = "idle" => AtHead(i)
        BY <2>1, <3>5, AtGuards
        DEF ToolReturns, Interrupt, CancelBefore, CancelDuring, ExpireBefore, ExpireDuring,
            FinishJob, AtLock, Waiting
      <4>2. \E s \in {"finishing", "done"} : pc' = [pc EXCEPT ![i] = s]
        BY <3>5 DEF ToolReturns, Interrupt, CancelBefore, CancelDuring, ExpireBefore,
                    ExpireDuring, FinishJob, Conclude
      <4>3. QED
        BY <3>4, <4>1, <4>2
    <3>6. QED
      BY <2>3, <3>2, <3>3, <3>5 DEF JobStep
  <2>4. ASSUME NEW c \in Classes, AdmitTool(c) PROVE [Promise!Next]_(Promise!vars)
    <3>1. /\ phase = "preflight" /\ cursor \in Index /\ c \in Concurrency
          /\ class' = [class EXCEPT ![cursor] = c] /\ UNCHANGED pc
      BY <2>1, <2>4, BatchFacts, ClassesAssumption DEF AdmitTool, InPreflight
    <3>2. Running = {} /\ Ended = {} /\ Running' = {} /\ Ended' = {}
      BY <2>1, <3>1 DEF Inv, QuietInv, Running, Ended
    <3>3. class[cursor] = NoClass
      BY <2>1, <3>1, BatchFacts DEF Inv, PlanInv, Jobs, JobsIn
    <3>4. Promise!Classify(cursor, c)
      BY <3>1, <3>2, <3>3 DEF Promise!Classify
    <3>5. QED
      BY <3>1, <3>4 DEF Promise!Next
  <2>5. CASE Preflight
    BY <2>2, <2>4, <2>5
    DEF Preflight, RejectPairing, UnknownTool, DenyTool, BeforeToolFails, StartExecution
  <2>6. CASE \E u \in Unit : TaskPanics(u) \/ AbortTask(u)
    BY <2>6, LosingAllowed DEF TaskPanics, AbortTask
  <2>7. CASE Unwind
    BY <2>2, <2>7, LosingAllowed DEF Unwind
  <2>8. CASE Join \/ Collect
    BY <2>2, <2>8
    DEF Join, JoinDone, JoinLost, EndExecution, JoinUnchanged, Collect, CollectResult,
        AfterToolFails, ReturnResults, CollectUnchanged
  <2>9. CASE Cancel \/ Expire \/ Stopped \/ UNCHANGED vars
    BY <2>2, <2>9 DEF Cancel, Expire, EnvUnchanged, Stopped, vars
  <2>10. QED
    BY <2>3, <2>5, <2>6, <2>7, <2>8, <2>9 DEF Next
<1>3. QED
  BY <1>1, <1>2, DispatchInvariance, PTL DEF Spec, Promise!Spec, ImplementsToolBatch
=============================================================================
