------------------------------ MODULE Workflow ------------------------------
(***************************************************************************)
(* The workflow runtime (crates/tools/src/workflow): submitted graphs,     *)
(* the detached workers that run their stages, and the store that keeps    *)
(* their outputs for a later run to reuse.                                 *)
(*                                                                         *)
(* Every transition of a run happens under the dispatch mutex and is one   *)
(* step here.  What follows outside the mutex is a step of its own: the    *)
(* admission of a worker, the notification of the host, the end of a       *)
(* worker and the callback it ends with, the callbacks of a cancellation   *)
(* and the clearing of the store after a reset.                            *)
(***************************************************************************)
EXTENDS Dag, SequencesExt

CONSTANTS
  Graphs,     \* the graphs offered to each submission, valid or not
  MaxRuns,    \* bound: submissions
  MaxStages,  \* bound: stages submitted in all, a map counting double
  MaxUpsets   \* bound: new generations and changes of the model route

ASSUME WorkflowAssumption ==
  /\ MaxRuns \in Nat \ {0} /\ MaxStages \in Nat /\ MaxUpsets \in Nat

Run == 1..MaxRuns
NoRun == 0

VARIABLES
  runs,      \* Runtime.runs, by run id
  store,     \* WorkflowStore, by run id
  submitted, \* run ids handed out so far
  offered,   \* stages submitted so far
  gen,       \* the manager's generation
  closed,    \* the manager's closed flag
  roots,     \* the manager's jobs with an on_cancel callback: runs
  workers,   \* stage workers by spawn, until their callback returned
  admits,    \* Spawn events not delivered yet
  notices,   \* run-level notifications not delivered yet
  told,      \* run-level notifications the host got, by run
  cancels,   \* runs whose on_cancel callback is about to be called
  clearing,  \* CompletionInbox::reset has not cleared the store yet
  cleared,   \* the generation at the last clear
  route      \* the user's model route

wfVars == <<runs, store, submitted, offered, gen, closed, roots, workers, admits,
            notices, told, cancels, clearing, cleared, route>>

(* A spawn: the run, the stage and which attempt at it.                    *)
RunOf(sp) == sp[1]
StageOf(sp) == sp[2]

WfTypeOK ==
  /\ submitted \in 0..MaxRuns /\ offered \in 0..MaxStages /\ gen + route \in 0..MaxUpsets
  /\ cleared \in 0..gen
  /\ closed \in BOOLEAN /\ clearing \in BOOLEAN
  /\ DOMAIN runs \subseteq Run /\ DOMAIN store \subseteq Run
  /\ roots \subseteq Run /\ cancels \subseteq Run
  /\ {q.spawn : q \in admits} \cup DOMAIN workers \subseteq Run \X Id \X (0..1)
  /\ \A r \in DOMAIN runs :
       /\ runs[r].live \subseteq {r} \X Id \X (0..1)
       /\ DOMAIN runs[r].dag.output \cup runs[r].dag.inflight
            \subseteq DOMAIN runs[r].dag.graph
       /\ runs[r].dag.state = "Running"

WfInit ==
  /\ runs = << >> /\ store = << >> /\ submitted = 0 /\ offered = 0
  /\ gen = 0 /\ closed = FALSE /\ roots = {} /\ workers = << >>
  /\ admits = {} /\ notices = << >> /\ told = [r \in Run |-> 0]
  /\ cancels = {} /\ clearing = FALSE /\ cleared = 0 /\ route = 0

(***************************************************************************)
(* apply and plan_stage: the emitted stages are planned first in first     *)
(* out.  A stage whose key matches in the run resumed from completes at    *)
(* once with the stored answer, which may emit more; any other is live and *)
(* waits to be admitted.  Planning stops when the run does.                *)
(***************************************************************************)
Before(s, t) == s[1] < t[1] \/ (s[1] = t[1] /\ s[2] < t[2])
InOrder(S) == SetToSortSeq(S, Before)

(* WorkflowStore::replay: the stored answer, if the keys are equal.        *)
Replayable(run, s) ==
  /\ run.resume \in DOMAIN store
  /\ s \in DOMAIN store[run.resume].output
  /\ store[run.resume].route = run.route
  /\ KeyOf(store[run.resume].graph, s) = KeyOf(run.dag.graph, s)

PlanStage(r, p) ==
  LET s == Head(p.queue)
      sp == <<r, s, IF s \in p.run.dag.retries THEN 1 ELSE 0>>
      c == Complete(p.run.dag, s, store[p.run.resume].output[s])
  IN  IF Replayable(p.run, s)
      THEN [p EXCEPT !.run.dag = c.dag, !.queue = Tail(@) \o InOrder(c.spawn)]
      ELSE [p EXCEPT !.run.live = @ \cup {sp}, !.queue = Tail(@),
                     !.admit = @ \cup {[spawn |-> sp, gen |-> p.run.gen,
                                         route |-> p.run.route]}]

Apply(r, run, spawn) ==
  LET steps == 2 * Cardinality(Id)
      plan[n \in 0..steps] ==
        IF n = 0 THEN [run |-> run, queue |-> InOrder(spawn), admit |-> {}]
        ELSE LET p == plan[n - 1]
             IN  IF p.queue = << >> \/ p.run.dag.state # "Running" THEN p
                 ELSE PlanStage(r, p)
  IN  plan[steps]

(* persist: the outputs that are new, each under the key of its stage.     *)
(* prior and whole are for the properties: the run resumed from, if it had *)
(* ended and kept its outputs, and whether no reset was under way.         *)
Persist(r, run) ==
  LET old == IF r \in DOMAIN store THEN store[r].output ELSE << >>
      new == Restrict(run.dag.output, DOMAIN run.dag.output \ run.persisted)
  IN  [graph |-> run.dag.graph, route |-> run.route, gen |-> run.gen,
       output |-> new @@ old, prior |-> run.prior,
       whole |-> run.whole,
       outcome |-> IF run.dag.state = "Running" THEN "none" ELSE run.dag.state]

(* finish reports a stalled run as failed, without its stages.             *)
Outcome(r, dag) ==
  IF dag.state = "Stalled"
  THEN [run |-> r, state |-> "Failed", status |-> << >>, degraded |-> FALSE]
  ELSE [run |-> r, state |-> dag.state, status |-> dag.status,
        degraded |-> dag.degraded]

CancelJobs(ws, S) ==
  [sp \in DOMAIN ws |->
     IF sp \in S /\ ws[sp].at = "live"
     THEN [ws[sp] EXCEPT !.cancelled = TRUE] ELSE ws[sp]]

(***************************************************************************)
(* The end of every transition of run r, from the workers ws, the root     *)
(* jobs rs and the undelivered spawns as: the run is kept, or finish       *)
(* removes it, cancels the live workers the manager knows of and has the   *)
(* manager forget it.                                                      *)
(***************************************************************************)
Settled(r, p, ws, rs, as) ==
  /\ admits' = as \cup p.admit
  /\ store' = (r :> Persist(r, p.run)) @@ store
  /\ IF p.run.dag.state = "Running"
     THEN /\ runs' = (r :> [p.run EXCEPT !.persisted = DOMAIN p.run.dag.output]) @@ runs
          /\ workers' = ws /\ roots' = rs
          /\ UNCHANGED notices
     ELSE /\ runs' = Restrict(runs, DOMAIN runs \ {r})
          /\ workers' = CancelJobs(ws, p.run.live)
          /\ roots' = IF p.run.gen = gen THEN rs \ {r} ELSE rs
          /\ notices' = Append(notices, Outcome(r, p.run.dag))

Weight(g) == Cardinality(DOMAIN g) + Cardinality({s \in DOMAIN g : g[s].kind = "map"})

(* submit, after admit validated the graph.                                *)
Submit(g, resume) ==
  LET r == submitted + 1
      s == Start(FromStages(Normalise(g)))
      run == [dag |-> s.dag, gen |-> gen, live |-> {}, persisted |-> {},
              resume |-> resume, route |-> route,
              whole |-> ~clearing,
              prior |-> IF /\ resume # NoRun /\ store[resume].whole
                           /\ store[resume].outcome # "none"
                        THEN resume ELSE NoRun]
  IN  /\ submitted < MaxRuns /\ offered + Weight(g) <= MaxStages /\ g \in Graphs[r]
      /\ Valid(Normalise(g))
      /\ resume \in DOMAIN store \cup {NoRun}
      /\ ~closed
      /\ submitted' = r /\ offered' = offered + Weight(g)
      /\ Settled(r, Apply(r, run, s.spawn), workers, roots \cup {r}, admits)
      /\ UNCHANGED <<gen, closed, told, cancels, clearing, cleared, route>>

(* complete and fail_stage, for a run that is there: the DAG advances.     *)
Advance(sp, answer, ws, as) ==
  LET r == RunOf(sp)
      c == Complete(runs[r].dag, StageOf(sp), answer)
      run == [runs[r] EXCEPT !.live = @ \ {sp}, !.dag = c.dag]
  IN  Settled(r, Apply(r, run, c.spawn), ws, roots, as)

(***************************************************************************)
(* deliver, for a Spawn event: prepare_spawn refuses a worker whose model  *)
(* key is no longer the one of its run, and admit_job one whose generation *)
(* is not current.  A refused stage fails the run, if it is still there.   *)
(***************************************************************************)
Admissible(q) == ~closed /\ gen = q.gen /\ route = q.route

DeliverDrops(q) ==    \* mutation: a refused stage does not fail its run
  /\ q \in admits
  /\ admits' = admits \ {q}
  /\ workers' = IF ~Admissible(q) THEN workers
                ELSE (q.spawn :> [at |-> "live", cancelled |-> FALSE,
                                  gen |-> q.gen, answer |-> ErrorAnswer]) @@ workers
  /\ UNCHANGED <<runs, store, notices, roots, submitted, offered, gen, closed,
                 told, cancels, clearing, cleared, route>>

Deliver(q) ==
  /\ q \in admits
  /\ IF Admissible(q)
     THEN /\ workers' = (q.spawn :> [at |-> "live", cancelled |-> FALSE,
                                     gen |-> q.gen, answer |-> ErrorAnswer]) @@ workers
          /\ admits' = admits \ {q}
          /\ UNCHANGED <<runs, store, notices, roots>>
     ELSE IF RunOf(q.spawn) \in DOMAIN runs
     THEN Advance(q.spawn, ErrorAnswer, workers, admits \ {q})
     ELSE admits' = admits \ {q} /\ UNCHANGED <<runs, store, notices, roots, workers>>
  /\ UNCHANGED <<submitted, offered, gen, closed, told, cancels, clearing, cleared, route>>

(***************************************************************************)
(* A worker ends, its job leaves the manager, and then, as a step of its   *)
(* own, Completion's drop calls the notifier plan_stage gave it.           *)
(***************************************************************************)
WorkerEnds(sp, answer) ==
  /\ sp \in DOMAIN workers /\ workers[sp].at = "live"
  /\ workers' = [workers EXCEPT ![sp].at = "ended", ![sp].answer = answer]
  /\ UNCHANGED <<runs, store, submitted, offered, gen, closed, roots, admits, notices,
                 told, cancels, clearing, cleared, route>>

Answer(sp) ==
  LET r == RunOf(sp)
      sizes == IF r \in DOMAIN runs /\ runs[r].dag.graph[StageOf(sp)].schema
               THEN 0..NotArray ELSE {NotArray}
  IN  {Answered(<<r, sp[3]>>, n) : n \in sizes}

WorkerAnswers(sp) == \E a \in Answer(sp) : WorkerEnds(sp, a)
WorkerFails(sp) == WorkerEnds(sp, ErrorAnswer)

Callback(sp) ==
  LET r == RunOf(sp)
      rest == Restrict(workers, DOMAIN workers \ {sp})
  IN  /\ sp \in DOMAIN workers /\ workers[sp].at = "ended"
      /\ IF /\ workers[sp].gen = gen
            /\ r \in DOMAIN runs /\ sp \in runs[r].live
         THEN Advance(sp, workers[sp].answer, rest, admits)
         ELSE workers' = rest /\ UNCHANGED <<runs, store, notices, roots, admits>>
      /\ UNCHANGED <<submitted, offered, gen, closed, told, cancels, clearing, cleared, route>>

(* deliver, for the run-level notification.                                *)
Notify(i) ==
  /\ i \in DOMAIN notices
  /\ told' = [told EXCEPT ![notices[i].run] = @ + 1]
  /\ notices' = RemoveAt(notices, i)
  /\ UNCHANGED <<runs, store, submitted, offered, gen, closed, roots, workers, admits,
                 cancels, clearing, cleared, route>>

(* Runtime::cancel: the manager finds the root job and calls it back.      *)
CancelRun(r) ==
  /\ r \in roots \ cancels
  /\ cancels' = cancels \cup {r}
  /\ UNCHANGED <<runs, store, submitted, offered, gen, closed, roots, workers, admits,
                 notices, told, clearing, cleared, route>>

(* cancel_local, from the root job's callback.                             *)
OnCancel(r) ==
  /\ r \in cancels
  /\ cancels' = cancels \ {r}
  /\ IF r \in DOMAIN runs
     THEN Settled(r, [run |-> [runs[r] EXCEPT !.dag = Cancel(@)], admit |-> {}],
                  workers, roots, admits)
     ELSE UNCHANGED <<runs, store, notices, roots, workers, admits>>
  /\ UNCHANGED <<submitted, offered, gen, closed, told, clearing, cleared, route>>

(***************************************************************************)
(* The manager's cancel_all, reset (from CompletionInbox::reset, which     *)
(* clears the store once the callbacks returned) and close.                *)
(***************************************************************************)
Replace(clear, close) ==
  /\ gen + route < MaxUpsets /\ ~clearing
  /\ gen' = gen + 1
  /\ workers' = CancelJobs(workers, DOMAIN workers)
  /\ cancels' = cancels \cup roots
  /\ roots' = {}
  /\ clearing' = clear
  /\ closed' = (closed \/ close)
  /\ UNCHANGED <<runs, store, submitted, offered, admits, notices, told, cleared, route>>

CancelAll == Replace(FALSE, FALSE)
Reset == Replace(TRUE, FALSE)
Close == Replace(FALSE, TRUE)

ClearStore ==
  /\ clearing /\ cancels \subseteq roots
  /\ clearing' = FALSE
  /\ store' = << >>
  /\ cleared' = gen
  /\ UNCHANGED <<runs, submitted, offered, gen, closed, roots, workers, admits, notices,
                 told, cancels, route>>

(* The user picks another model for subagents.                             *)
ChangeRoute ==
  /\ gen + route < MaxUpsets
  /\ route' = route + 1
  /\ UNCHANGED <<runs, store, submitted, offered, gen, closed, roots, workers, admits,
                 notices, told, cancels, clearing, cleared>>

WfNext ==
  \/ \E g \in UNION {Graphs[r] : r \in Run}, resume \in Run \cup {NoRun} : Submit(g, resume)
  \/ \E q \in admits : Deliver(q)
  \/ \E sp \in DOMAIN workers : WorkerAnswers(sp)
  \/ \E sp \in DOMAIN workers : WorkerFails(sp)
  \/ \E sp \in DOMAIN workers : Callback(sp)
  \/ \E i \in DOMAIN notices : Notify(i)
  \/ \E r \in Run : CancelRun(r)
  \/ \E r \in Run : OnCancel(r)
  \/ CancelAll \/ Reset \/ Close \/ ClearStore \/ ChangeRoute

(***************************************************************************)
(* Threads run, callbacks return, and every worker ends: an agent's loop   *)
(* has a step limit, and its model calls and tools are taken to return.    *)
(* Weak fairness, with the condition that enables the action spelled out.  *)
(***************************************************************************)
WorkersAt(p) == {sp \in DOMAIN workers : workers[sp].at = p}

WfFair ==
  /\ []<>(admits = {}) \/ []<><<\E q \in admits : Deliver(q)>>_wfVars
  /\ \/ []<>(WorkersAt("live") = {})
     \/ []<><<\E sp \in DOMAIN workers : WorkerAnswers(sp) \/ WorkerFails(sp)>>_wfVars
  /\ \/ []<>(WorkersAt("ended") = {})
     \/ []<><<\E sp \in DOMAIN workers : Callback(sp)>>_wfVars
  /\ []<>(notices = << >>) \/ []<><<\E i \in DOMAIN notices : Notify(i)>>_wfVars
  /\ []<>(cancels = {}) \/ []<><<\E r \in cancels : OnCancel(r)>>_wfVars

WfSpec == WfInit /\ [][WfNext]_wfVars /\ WfFair

-----------------------------------------------------------------------------
(***************************************************************************)
(* "a blocking or panicking callback must not strand dependent stages":    *)
(* as long as a run is there, each stage in flight has one attempt that    *)
(* will come back, waiting to be admitted, at work or about to report; or  *)
(* the run is about to be cancelled.  A stage is otherwise waited for, and *)
(* the run never ends.                                                     *)
(***************************************************************************)
NoStrandedStage ==
  \A r \in DOMAIN runs :
    \/ r \in cancels
    \/ /\ {StageOf(sp) : sp \in runs[r].live} = runs[r].dag.inflight
       /\ \A sp \in runs[r].live :
            sp \in {q.spawn : q \in admits} \cup DOMAIN workers

(* "a run ends once at run level": a run that is gone told the host, once. *)
ToldOnce ==
  \A r \in Run :
    told[r] + Cardinality({i \in DOMAIN notices : notices[i].run = r})
    = IF r <= submitted /\ r \notin DOMAIN runs THEN 1 ELSE 0

(***************************************************************************)
(* "Advance::Stalled" is for a lost decrement: no valid graph stalls, maps *)
(* without items and replayed stages included.  A run that is Done ran     *)
(* every stage, and says degraded when a map had no items.                 *)
(***************************************************************************)
OutcomesHonest ==
  \A i \in DOMAIN notices :
    LET o == notices[i]
    IN  /\ o.status # << >>
        /\ o.state = "Done" => \A s \in DOMAIN o.status : o.status[s] = "Done"
        /\ o.state = "Cancelled" <=> \E s \in DOMAIN o.status : o.status[s] = "Cancelled"
        /\ o.state = "Failed" =>
             \E s \in DOMAIN o.status : o.status[s] \in {"Failed", "Stopped"}

(***************************************************************************)
(* "a stage only replays against its own definition": a replayed answer    *)
(* was computed from the inputs that this run has.  It holds for a run     *)
(* that resumed from one that had ended and whose outputs are all there.   *)
(* A run that resumes from one still going may replay a stage whose inputs *)
(* it computed itself, and so may one that resumes from a run submitted    *)
(* while a reset was about to clear the store, which lost its first        *)
(* outputs.                                                                *)
(***************************************************************************)
ReplayConsistent ==
  \A r \in DOMAIN store :
    LET run == store[r]
        replayed == {s \in DOMAIN run.output :
                       /\ run.graph[s].kind = "agent"
                       /\ run.output[s].by[1] # r}
    IN  run.prior \in DOMAIN store =>
          \A s \in replayed : \A n \in run.graph[s].needs :
            /\ n \in DOMAIN store[run.prior].output
            /\ store[run.prior].output[n] = run.output[n]

(***************************************************************************)
(* "leaves nothing behind for a run the replaced conversation can no       *)
(* longer name": once cleared, the store has no run of an older generation *)
(* and no late completion brings one back.                                 *)
(***************************************************************************)
StoreForgets == \A r \in DOMAIN store : store[r].gen >= cleared

(* "Stop one live run; its workers are cancelled and the run settles".     *)
WorkersCancelled ==
  \A sp \in DOMAIN workers :
    workers[sp].at = "live" => workers[sp].cancelled \/ RunOf(sp) \in DOMAIN runs

(* A submitted run ends, and the host hears of it.                         *)
RunsEnd ==
  \A r \in Run :
    r <= submitted ~> told[r] = 1

(***************************************************************************)
(* The runtime keeps the contract of StageContract: a stage is busy while  *)
(* its status is Running and done when it is Done.                         *)
(***************************************************************************)
OfRuns(f(_)) == [r \in Run |-> IF r \in DOMAIN runs THEN f(runs[r].dag) ELSE << >>]

Needs(d) == [s \in DOMAIN d.graph |-> d.graph[s].needs]
Parts(d) ==
  [s \in DOMAIN d.graph |->
     IF s[2] # 0 THEN {} ELSE {c \in DOMAIN d.graph : c[1] = s[1] /\ c # s}]
Phase(d) ==
  [s \in DOMAIN d.graph |->
     CASE d.status[s] = "Pending" -> "idle"
       [] d.status[s] = "Running" -> "busy"
       [] d.status[s] = "Done" -> "done"]

Contract == INSTANCE StageContract WITH
  needs <- OfRuns(Needs), parts <- OfRuns(Parts), phase <- OfRuns(Phase),
  over <- (1..submitted) \ DOMAIN runs

(* Stages run once, in the order of their needs, as StageContract demands. *)
ImplementsContract == Contract!ContractSpec

(***************************************************************************)
(* A workflow run keeps its books: every open stage has somebody who will  *)
(* end it, its end is told once and honestly, replayed answers fit the     *)
(* graph they replay in, and a cleared store keeps nothing of the old      *)
(* conversation.                                                           *)
(***************************************************************************)
WfSafe == WfTypeOK /\ NoStrandedStage /\ ToldOnce /\ OutcomesHonest /\ ReplayConsistent /\ StoreForgets
=============================================================================
