----------------------------- MODULE SdkSession -----------------------------
(***************************************************************************)
(* An SDK session (crates/sdk/src/session/): the busy guard that           *)
(* serialises its operations, and the operations that move it to another   *)
(* file or another conversation while writes may fail.                     *)
(*                                                                         *)
(* A conversation is a number; a file holds the transcript of one, with an *)
(* environment binding and a recovery store beside it.  What a transcript  *)
(* says and how it is appended to is the subject of Conversation; results  *)
(* of detached work, of CompletionInbox.                                   *)
(***************************************************************************)
EXTENDS Naturals, FiniteSets

CONSTANTS
  SdCall,     \* the host's concurrent calls
  SdMaxFile   \* bound of the model: session files ever created

ASSUME SdAssumption == IsFiniteSet(SdCall) /\ SdMaxFile \in Nat \ {0}

VARIABLES
  sdAt,       \* where each call stands
  sdBusy,     \* Session::busy
  sdClosed,   \* Session::closed
  sdConv,     \* the conversation in the context
  sdPath,     \* the file the recorder appends to
  sdFiles,    \* the session files on disk
  sdNew,      \* the candidate file of a clear
  sdWork,     \* the conversation the detached work and the tools belong to
  sdSkipped   \* history: the last reset gave up before it cleared the tools

sdVars == <<sdAt, sdBusy, sdClosed, sdConv, sdPath, sdFiles, sdNew, sdWork, sdSkipped>>

SdOps == {"run", "clear", "reset", "fork", "compact", "shutdown"}
(* What a call does while it holds the guard.                              *)
SdHolding == {"running", "preparing", "adopting", "resetting", "forking",
              "discarding", "compacting", "killing", "closing"}

(* A file: the conversation of its transcript and of its recovery store    *)
(* (0 when there is none), and whether the environment is bound to it.     *)
SdFile(conv, store, bound) == [conv |-> conv, store |-> store, bound |-> bound]
SdNoFile == SdFile(0, 0, FALSE)
(* A file that resume accepts: verify wants the binding.                   *)
SdWhole(file) == file.conv # 0 /\ file.bound

SdUnused == {f \in 1 .. SdMaxFile : sdFiles[f] = SdNoFile}
SdNextFile == CHOOSE f \in SdUnused : \A g \in SdUnused : f <= g
SdFresh == sdConv + 1

(* Session::open of a persistent session.                                  *)
SdInit ==
  /\ sdAt = [c \in SdCall |-> "outside"]
  /\ sdBusy = FALSE /\ sdClosed = FALSE
  /\ sdConv = 1 /\ sdWork = 1
  /\ sdPath = 1
  /\ sdFiles = [f \in 1 .. SdMaxFile |->
                  IF f = 1 THEN SdFile(1, 0, TRUE) ELSE SdNoFile]
  /\ sdNew = 0
  /\ sdSkipped = FALSE

-----------------------------------------------------------------------------
(* acquire reads `closed`, and takes `busy` with a compare-exchange after. *)
SdCheckOpen(c) ==
  /\ sdAt[c] = "outside"
  /\ sdAt' = [sdAt EXCEPT ![c] = IF sdClosed THEN "refused" ELSE "checked"]
  /\ UNCHANGED <<sdBusy, sdClosed, sdConv, sdPath, sdFiles, sdNew, sdWork, sdSkipped>>

SdMayTake == ~sdBusy

SdFirst(op) ==
  CASE op = "run" -> "running"
    [] op = "clear" -> "preparing"
    [] op = "reset" -> "resetting"
    [] op = "fork" -> "forking"
    [] op = "compact" -> "compacting"
    [] op = "shutdown" -> "closing"

SdAcquire(c, op) ==
  /\ sdAt[c] = "checked"
  /\ SdMayTake
  /\ sdBusy' = TRUE
  /\ sdAt' = [sdAt EXCEPT ![c] = SdFirst(op)]
  /\ sdClosed' = (sdClosed \/ op = "shutdown")
  /\ UNCHANGED <<sdConv, sdPath, sdFiles, sdNew, sdWork, sdSkipped>>

SdRejected(c) ==
  /\ sdAt[c] = "checked" /\ sdBusy
  /\ sdAt' = [sdAt EXCEPT ![c] = "refused"]
  /\ UNCHANGED <<sdBusy, sdClosed, sdConv, sdPath, sdFiles, sdNew, sdWork, sdSkipped>>

(* BusyGuard::drop, on every way out: the host calls again later.          *)
SdRelease(c) ==
  /\ sdBusy' = FALSE
  /\ sdAt' = [sdAt EXCEPT ![c] = "outside"]
SdAgain(c) ==
  /\ sdAt[c] = "refused" /\ ~sdClosed
  /\ sdAt' = [sdAt EXCEPT ![c] = "outside"]
  /\ UNCHANGED <<sdBusy, sdClosed, sdConv, sdPath, sdFiles, sdNew, sdWork, sdSkipped>>

(* A run ends: the recorder is synced and the store saved, or saving it    *)
(* fails.  A run whose future is dropped gets neither.                     *)
SdRunEnds(c, saved) ==
  /\ sdAt[c] = "running"
  /\ sdFiles' = IF saved THEN [sdFiles EXCEPT ![sdPath].store = sdConv] ELSE sdFiles
  /\ SdRelease(c)
  /\ UNCHANGED <<sdClosed, sdConv, sdPath, sdNew, sdWork, sdSkipped>>

(* compact syncs and saves the same way.                                   *)
SdCompactEnds(c, saved) ==
  /\ sdAt[c] = "compacting"
  /\ sdFiles' = IF saved THEN [sdFiles EXCEPT ![sdPath].store = sdConv] ELSE sdFiles
  /\ SdRelease(c)
  /\ UNCHANGED <<sdClosed, sdConv, sdPath, sdNew, sdWork, sdSkipped>>

-----------------------------------------------------------------------------
(* mutation: the candidate is adopted whether or not it is bound. *)
SdPreparedLoosely(bound, written) == written
(* What must have succeeded before the recorder moves.                     *)
SdPrepared(bound, written) == bound /\ written

(* clear: a candidate file is created, bound, written, verified and its    *)
(* store saved before the recorder moves; a failure removes its files.     *)
SdPrepare(c) ==
  /\ sdAt[c] = "preparing" /\ SdUnused # {}
  /\ \E bound \in BOOLEAN, written \in BOOLEAN :
       /\ sdNew' = SdNextFile
       /\ sdFiles' = [sdFiles EXCEPT ![SdNextFile] =
                        SdFile(SdFresh, IF written THEN SdFresh ELSE 0, bound)]
       /\ sdAt' = [sdAt EXCEPT ![c] =
                     IF SdPrepared(bound, written) THEN "adopting" ELSE "discarding"]
  /\ UNCHANGED <<sdBusy, sdClosed, sdConv, sdPath, sdWork, sdSkipped>>

SdCreateFails(c) ==
  /\ sdAt[c] = "preparing"
  /\ SdRelease(c)
  /\ UNCHANGED <<sdClosed, sdConv, sdPath, sdFiles, sdNew, sdWork, sdSkipped>>

SdRemoved(f) == SdNoFile

SdDiscard(c) ==
  /\ sdAt[c] \in {"discarding", "adopting"}   \* switch_to may fail as well
  /\ sdFiles' = [sdFiles EXCEPT ![sdNew] = SdRemoved(sdNew)]
  /\ sdNew' = 0
  /\ SdRelease(c)
  /\ UNCHANGED <<sdClosed, sdConv, sdPath, sdWork, sdSkipped>>

(* SessionTools::clear: a new generation of workers, guard and processes.  *)
SdToolsCleared == SdFresh

(* switch_to, the fresh context, and the part of tools.clear before its    *)
(* first await; then the processes are waited for, unless the host drops   *)
(* the future of the call, which only skips that wait.                     *)
SdAdopt(c) ==
  /\ sdAt[c] = "adopting"
  /\ sdPath' = sdNew
  /\ sdNew' = 0
  /\ sdConv' = SdFresh
  /\ sdWork' = SdToolsCleared
  /\ sdSkipped' = FALSE
  /\ sdAt' = [sdAt EXCEPT ![c] = "killing"]
  /\ UNCHANGED <<sdBusy, sdClosed, sdFiles>>

SdKillsLand(c) ==
  /\ sdAt[c] = "killing"
  /\ SdRelease(c)
  /\ UNCHANGED <<sdClosed, sdConv, sdPath, sdFiles, sdNew, sdWork, sdSkipped>>

(* reset_in_place: recorder.reset may fail before anything changed.        *)
SdResetFails(c) ==
  /\ sdAt[c] = "resetting"
  /\ SdRelease(c)
  /\ UNCHANGED <<sdClosed, sdConv, sdPath, sdFiles, sdNew, sdWork, sdSkipped>>

(* The same file for a fresh conversation.  A store that cannot be saved   *)
(* returns before tools.clear.                                             *)
SdReset(c, saved) ==
  /\ sdAt[c] = "resetting"
  /\ sdConv < SdMaxFile
  /\ sdConv' = SdFresh
  /\ sdFiles' = [sdFiles EXCEPT ![sdPath] =
                   SdFile(SdFresh, IF saved THEN SdFresh ELSE @.store, @.bound)]
  /\ IF saved
     THEN /\ sdWork' = SdToolsCleared /\ sdSkipped' = FALSE
          /\ sdAt' = [sdAt EXCEPT ![c] = "killing"]
          /\ UNCHANGED sdBusy
     ELSE sdSkipped' = TRUE /\ UNCHANGED sdWork /\ SdRelease(c)
  /\ UNCHANGED <<sdClosed, sdPath, sdNew>>

(* fork: the recorder rotates to the copy and comes back whatever happens; *)
(* a copy that could not be completed stays behind.  That the original can *)
(* be reopened is assumed.                                                 *)
SdFork(c) ==
  /\ sdAt[c] = "forking"
  /\ \/ UNCHANGED sdFiles
     \/ /\ SdUnused # {}
        /\ \E bound \in BOOLEAN, saved \in BOOLEAN :
             sdFiles' = [sdFiles EXCEPT ![SdNextFile] =
                           SdFile(sdConv, IF saved THEN sdConv ELSE 0, bound)]
  /\ SdRelease(c)
  /\ UNCHANGED <<sdClosed, sdConv, sdPath, sdNew, sdWork, sdSkipped>>

(* shutdown closed the services when it took the guard; it returns once    *)
(* they are idle, or its grace has passed.                                 *)
SdShutdownEnds(c) ==
  /\ sdAt[c] = "closing"
  /\ SdRelease(c)
  /\ UNCHANGED <<sdClosed, sdConv, sdPath, sdFiles, sdNew, sdWork, sdSkipped>>

SdNext ==
  \E c \in SdCall :
    \/ SdCheckOpen(c) \/ SdRejected(c) \/ SdAgain(c)
    \/ \E op \in SdOps : SdAcquire(c, op)
    \/ \E saved \in BOOLEAN :
         SdRunEnds(c, saved) \/ SdCompactEnds(c, saved) \/ SdReset(c, saved)
    \/ SdPrepare(c) \/ SdCreateFails(c) \/ SdDiscard(c) \/ SdAdopt(c)
    \/ SdKillsLand(c) \/ SdResetFails(c) \/ SdFork(c) \/ SdShutdownEnds(c)

SdSpec == SdInit /\ [][SdNext]_sdVars

-----------------------------------------------------------------------------
SdHolders == {c \in SdCall : sdAt[c] \in SdHolding}

(* One operation at a time, and the guard comes back on every way out:     *)
(* busy says exactly that some call is inside.                             *)
SdOneAtATime == Cardinality(SdHolders) = IF sdBusy THEN 1 ELSE 0

(* Whatever write failed on the way, the session records the conversation  *)
(* it shows, in a file that can be resumed, and the recovery store beside  *)
(* it is not another conversation's (unless a reset could not save it).    *)
SdOnItsFile ==
  ~sdBusy => /\ SdWhole(sdFiles[sdPath]) /\ sdFiles[sdPath].conv = sdConv
             /\ sdSkipped \/ sdFiles[sdPath].store \in {0, sdConv}

(* A clear that failed leaves no trace: between operations, a file of a    *)
(* conversation the session never showed does not exist.                   *)
SdNoTrace == ~sdBusy => \A f \in 1 .. SdMaxFile : sdFiles[f].conv <= sdConv

(***************************************************************************)
(* A fresh conversation starts with fresh tools: between operations the    *)
(* detached workers, results and processes belong to the conversation      *)
(* shown.  The exception the code has is a reset_in_place whose recovery   *)
(* store cannot be saved: it returns the error before it clears the tools. *)
(***************************************************************************)
SdWorkIsCurrent == ~sdBusy /\ ~sdSkipped => sdWork = sdConv

(***************************************************************************)
(* A session between operations is one conversation: one call inside at a  *)
(* time, on its own file, with its own tools, and without a trace of a     *)
(* conversation that failed to start.                                      *)
(***************************************************************************)
SdSafe == SdOneAtATime /\ SdOnItsFile /\ SdNoTrace /\ SdWorkIsCurrent
=============================================================================
