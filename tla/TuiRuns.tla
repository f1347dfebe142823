------------------------------ MODULE TuiRuns ------------------------------
(***************************************************************************)
(* The terminal UI's prompt queue and the worker it feeds: submit, the     *)
(* queue, the run the UI shows, Esc, /queue clear, /clear, the approval of *)
(* a plan, and the worker's loop over its commands (tui/runtime/           *)
(* submission.rs, tui/events/ui_message.rs, runtime/worker.rs).            *)
(*                                                                         *)
(* The UI and the worker are two tasks joined by two unbounded channels,   *)
(* tuCmds and tuMsgs.  A prompt is its number, in the order the user typed *)
(* them; the number is also its run's id and its cancellation token.  A    *)
(* background wake-up (a process event, finished workers) is a run of the  *)
(* worker's own, with a negative id.                                       *)
(***************************************************************************)
EXTENDS Integers, Sequences, SequencesExt

CONSTANTS TuMaxPrompts,     \* Bound: prompts the user types.
          TuMaxWakeups,     \* Bound: background wake-ups.
          TuMaxClears       \* Bound: uses of /clear and of /queue clear.

ASSUME TuBounds == TuMaxPrompts \in Nat /\ TuMaxWakeups \in Nat /\ TuMaxClears \in Nat

VARIABLES tuKind,       \* tuKind[n]: what prompt n is; "bare" is a lone "!".
          tuQueue,      \* app.prompt_queue.
          tuShown,      \* app.run: the id of the run shown, or TuIdle.
          tuModal,      \* The plan decision is on the screen and takes the keys.
          tuPlan,       \* [on, fresh]: plan mode; a plan was written since last asked.
          tuCmds,       \* The worker's command channel.
          tuMsgs,       \* The UI's message channel.
          tuRunning,    \* The id of the run the worker is in, or TuIdle.
          tuCancelled,  \* The runs to end whose token is cancelled.
          tuRan,        \* The prompts whose runs the worker began, in order.
          tuDropped,    \* The prompts discarded or refused.
          tuWakeups,
          tuClears

tuVars == <<tuKind, tuQueue, tuShown, tuModal, tuPlan, tuCmds, tuMsgs, tuRunning,
            tuCancelled, tuRan, tuDropped, tuWakeups, tuClears>>

TuIdle == 0
TuKinds == {"prompt", "shell", "bare"}
TuTyped == 1..Len(tuKind)
TuRun(n) == <<"run", n>>
TuClearCmd == <<"clear", 0>>
TuStarted(n) == <<"started", n>>
TuDone(n, ok) == <<IF ok THEN "done" ELSE "failed", n>>
TuShellDone(n) == <<"shelldone", n>>
TuCleared == <<"cleared", 0>>
TuNotice == <<"notice", 0>>

TuInit ==
  /\ tuKind = <<>> /\ tuQueue = <<>> /\ tuShown = TuIdle /\ tuModal = FALSE
  /\ tuPlan \in [on : BOOLEAN, fresh : {FALSE}]
  /\ tuCmds = <<>> /\ tuMsgs = <<>> /\ tuRunning = TuIdle
  /\ tuCancelled = {} /\ tuRan = <<>> /\ tuDropped = {}
  /\ tuWakeups = 0 /\ tuClears = 0

----------------------------------------------------------------------------
(* The UI.  TuStart is start_submission: a lone "!" has no command to run   *)
(* and starts nothing; anything else is sent and shown as running.          *)

TuStarts(n, kind) == kind[n] # "bare"
TuStart(n) == /\ tuCmds' = Append(tuCmds, TuRun(n))
              /\ tuShown' = n

\* start_next_queued_prompt on queue q: the oldest prompt, which leaves the
\* queue only if it starts.
TuNextStarts(q, kind) == q # <<>> /\ TuStarts(Head(q), kind)
TuLeft(q, kind) == IF TuNextStarts(q, kind) THEN Tail(q) ELSE q
TuStartNext(q, kind) ==
  /\ tuQueue' = TuLeft(q, kind)
  /\ \/ TuNextStarts(q, kind) /\ TuStart(Head(q))
     \/ ~TuNextStarts(q, kind) /\ tuShown' = TuIdle /\ UNCHANGED tuCmds

\* A prompt waits its turn behind a run, and behind a queue held by a failure.
TuWaits == tuShown # TuIdle \/ tuQueue # <<>>

TuSubmit ==
  /\ ~tuModal /\ Len(tuKind) < TuMaxPrompts
  /\ \E k \in TuKinds :
       LET n == Len(tuKind) + 1
           kind == Append(tuKind, k)
       IN /\ tuKind' = kind
          /\ \/ /\ TuWaits /\ tuShown # TuIdle
                /\ tuQueue' = Append(tuQueue, n)
                /\ UNCHANGED <<tuCmds, tuShown, tuDropped>>
             \/ /\ TuWaits /\ tuShown = TuIdle
                /\ TuStartNext(Append(tuQueue, n), kind)
                /\ UNCHANGED tuDropped
             \/ /\ ~TuWaits /\ TuStarts(n, kind)
                /\ TuStart(n)
                /\ UNCHANGED <<tuQueue, tuDropped>>
             \/ /\ ~TuWaits /\ ~TuStarts(n, kind)
                /\ tuDropped' = tuDropped \union {n}
                /\ UNCHANGED <<tuQueue, tuCmds, tuShown>>
  /\ UNCHANGED <<tuModal, tuPlan, tuMsgs, tuRunning, tuCancelled, tuRan, tuWakeups, tuClears>>

\* Enter on an empty composer resumes a queue that an interrupted run held.
TuEnter ==
  /\ ~tuModal /\ tuShown = TuIdle /\ TuNextStarts(tuQueue, tuKind)
  /\ TuStart(Head(tuQueue)) /\ tuQueue' = TuLeft(tuQueue, tuKind)
  /\ UNCHANGED <<tuKind, tuModal, tuPlan, tuMsgs, tuRunning, tuCancelled, tuRan,
                 tuDropped, tuWakeups, tuClears>>

\* /queue clear, allowed during a run.
TuQueueClear ==
  /\ ~tuModal /\ tuQueue # <<>> /\ tuClears < TuMaxClears
  /\ tuQueue' = <<>>
  /\ tuDropped' = tuDropped \union ToSet(tuQueue)
  /\ tuClears' = tuClears + 1
  /\ UNCHANGED <<tuKind, tuShown, tuModal, tuPlan, tuCmds, tuMsgs, tuRunning,
                 tuCancelled, tuRan, tuWakeups>>

\* /clear: any other slash command waits in the composer while a run is shown.
TuClear ==
  /\ ~tuModal /\ tuShown = TuIdle /\ tuClears < TuMaxClears
  /\ tuCmds' = Append(tuCmds, TuClearCmd)
  /\ tuClears' = tuClears + 1
  /\ UNCHANGED <<tuKind, tuQueue, tuShown, tuModal, tuPlan, tuMsgs, tuRunning,
                 tuCancelled, tuRan, tuDropped, tuWakeups>>

\* Esc or Ctrl-C cancels the token of the run shown; the token of a run that
\* has ended no longer matters.
TuEsc ==
  /\ ~tuModal /\ tuShown # TuIdle /\ tuShown \notin tuCancelled
  /\ tuShown = tuRunning \/ TuRun(tuShown) \in ToSet(tuCmds)
  /\ tuCancelled' = tuCancelled \union {tuShown}
  /\ UNCHANGED <<tuKind, tuQueue, tuShown, tuModal, tuPlan, tuCmds, tuMsgs, tuRunning,
                 tuRan, tuDropped, tuWakeups, tuClears>>

\* The plan decision: a yes leaves plan mode and starts the implementation
\* prompt at once, whatever is shown as running by then; a no only closes it.
TuDecidePlan ==
  /\ tuModal
  /\ tuModal' = FALSE
  /\ \/ /\ Len(tuKind) < TuMaxPrompts
        /\ tuPlan' = [tuPlan EXCEPT !.on = FALSE]
        /\ tuKind' = Append(tuKind, "prompt")
        /\ TuStart(Len(tuKind) + 1)
     \/ UNCHANGED <<tuPlan, tuKind, tuCmds, tuShown>>
  /\ UNCHANGED <<tuQueue, tuMsgs, tuRunning, tuCancelled, tuRan, tuDropped, tuWakeups, tuClears>>

\* RunDone and ShellDone of the run shown.  A prompt that succeeded, or any
\* shell command, hands over to the queue; a prompt that failed or was
\* interrupted leaves the queue to the user.  The pending decision goes with
\* the run; a plan-mode run with nothing queued behind it asks about its plan.
TuAsksPlan == tuPlan.on /\ tuPlan.fresh
TuFinishShown(what) ==
  /\ \/ what = "failed" /\ tuShown' = TuIdle /\ UNCHANGED <<tuQueue, tuCmds>>
     \/ what # "failed" /\ TuStartNext(tuQueue, tuKind)
  /\ LET asks == what = "done" /\ ~TuNextStarts(tuQueue, tuKind) /\ TuAsksPlan
     IN /\ tuModal' = asks
        /\ tuPlan' = IF asks THEN [tuPlan EXCEPT !.fresh = FALSE] ELSE tuPlan

\* handle_ui_msg, for the messages about runs.
TuHandle ==
  /\ tuMsgs # <<>>
  /\ tuMsgs' = Tail(tuMsgs)
  /\ LET what == Head(tuMsgs)[1]
         id == Head(tuMsgs)[2]
     IN \/ /\ what = "started" /\ tuShown' = id
           /\ UNCHANGED <<tuQueue, tuModal, tuPlan, tuCmds, tuDropped>>
        \/ /\ what = "cleared" /\ tuQueue' = <<>>
           /\ tuDropped' = tuDropped \union ToSet(tuQueue)
           /\ UNCHANGED <<tuShown, tuModal, tuPlan, tuCmds>>
        \/ /\ what \in {"done", "failed", "shelldone"} /\ tuShown = id
           /\ TuFinishShown(what)
           /\ UNCHANGED tuDropped
        \/ /\ \/ what \in {"done", "failed", "shelldone"} /\ tuShown # id
              \/ what = "notice"
           /\ UNCHANGED <<tuShown, tuQueue, tuModal, tuPlan, tuCmds, tuDropped>>
  /\ UNCHANGED <<tuKind, tuRunning, tuCancelled, tuRan, tuWakeups, tuClears>>

----------------------------------------------------------------------------
(* The worker: one command at a time.                                       *)

\* A process event or a finished worker wakes the agent.
TuWakeup ==
  /\ tuWakeups < TuMaxWakeups
  /\ tuWakeups' = tuWakeups + 1
  /\ tuCmds' = Append(tuCmds, TuRun(-(tuWakeups + 1)))
  /\ UNCHANGED <<tuKind, tuQueue, tuShown, tuModal, tuPlan, tuMsgs, tuRunning,
                 tuCancelled, tuRan, tuDropped, tuClears>>

\* Every run is announced before it begins, the worker's own ones too.
TuAnnouncesPrompts(id) == id > 0                         \* Mutant: only the user's runs.
TuAnnounces(id) == TRUE

TuTake ==
  /\ tuRunning = TuIdle /\ tuCmds # <<>>
  /\ tuCmds' = Tail(tuCmds)
  /\ LET c == Head(tuCmds)
     IN \/ /\ c[1] = "run"
           /\ tuRunning' = c[2]
           /\ tuRan' = IF c[2] > 0 THEN Append(tuRan, c[2]) ELSE tuRan
           /\ tuMsgs' = IF TuAnnounces(c[2]) THEN Append(tuMsgs, TuStarted(c[2])) ELSE tuMsgs
        \/ /\ c[1] = "run" /\ c[2] < 0        \* An older generation, or nothing to deliver.
           /\ UNCHANGED <<tuRunning, tuRan, tuMsgs>>
        \/ /\ c = TuClearCmd                  \* The old transcript may not be preserved.
           /\ \E m \in {TuCleared, TuNotice} : tuMsgs' = Append(tuMsgs, m)
           /\ UNCHANGED <<tuRunning, tuRan>>
  /\ UNCHANGED <<tuKind, tuQueue, tuShown, tuModal, tuPlan, tuCancelled, tuDropped,
                 tuWakeups, tuClears>>

\* The end of a run: a cancelled one fails, any other may; a plan-mode run may
\* have written a plan.
TuFinish ==
  /\ tuRunning # TuIdle
  /\ tuRunning' = TuIdle
  /\ \E ok \in BOOLEAN, wrote \in BOOLEAN :
       LET shell == tuRunning > 0 /\ tuKind[tuRunning] = "shell"
       IN /\ tuRunning \in tuCancelled => ~ok
          /\ wrote => tuPlan.on /\ ~shell
          /\ tuMsgs' = Append(tuMsgs, IF shell THEN TuShellDone(tuRunning) ELSE TuDone(tuRunning, ok))
          /\ tuPlan' = [tuPlan EXCEPT !.fresh = @ \/ wrote]
  /\ tuCancelled' = tuCancelled \ {tuRunning}
  /\ UNCHANGED <<tuKind, tuQueue, tuShown, tuModal, tuCmds, tuRan, tuDropped,
                 tuWakeups, tuClears>>

TuNext == \/ TuSubmit \/ TuEnter \/ TuQueueClear \/ TuClear \/ TuEsc \/ TuDecidePlan
          \/ TuHandle \/ TuWakeup \/ TuTake \/ TuFinish
TuSpec == TuInit /\ [][TuNext]_tuVars

----------------------------------------------------------------------------
TuSent == {c[2] : c \in {d \in ToSet(tuCmds) : d[1] = "run" /\ d[2] > 0}}

\* The worker runs prompts in the order they were typed, none of them twice:
\* neither a background run that takes over the screen, nor an interrupted run
\* that holds the queue, nor the approval of a plan lets one prompt overtake
\* another (submit, start_next_queued_prompt).
TuInOrder == \A i, j \in 1..Len(tuRan) : i < j => tuRan[i] < tuRan[j]

\* Every prompt typed is at any moment in exactly one place: in the queue, on
\* its way to the worker, run, or discarded (start_next_queued_prompt leaves a
\* prompt queued until it is sent).
TuNoneLost ==
  /\ IsInjective(tuQueue)
  /\ \A n \in TuTyped :
       (IF n \in ToSet(tuQueue) THEN 1 ELSE 0) + (IF n \in TuSent THEN 1 ELSE 0)
       + (IF n \in ToSet(tuRan) THEN 1 ELSE 0) + (IF n \in tuDropped THEN 1 ELSE 0) = 1

\* Once the UI has caught up and nothing it sent is waiting, it shows exactly
\* the run the worker is in, so Esc cancels that run and an idle screen means
\* an idle worker: ignoring the end of a run that is no longer shown never
\* leaves a finished run on the screen (handle_ui_msg, RunStarted and RunDone).
TuShowsTheRun == tuMsgs = <<>> /\ TuSent = {} => tuShown = tuRunning

(***************************************************************************)
(* Prompts are run in order, none is lost or run twice, and the screen     *)
(* shows the run the worker is in.                                         *)
(***************************************************************************)
TuSafe == TuInOrder /\ TuNoneLost /\ TuShowsTheRun
=============================================================================
