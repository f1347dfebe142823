------------------------------- MODULE Shell --------------------------------
(***************************************************************************)
(* One call of the shell tool on a local executor                          *)
(* (crates/tools/src/core_tools/shell.rs).  The child, and a process it may *)
(* leave in the background, write to two pipes of bounded capacity; the    *)
(* call reads standard output to its end, then standard error, then reaps  *)
(* the child, unless it times out, sees its own cancellation (the `!` of   *)
(* the prompt, cli runtime/worker.rs) or is dropped by the dispatcher,     *)
(* whose select watches the same token and is polled first.                *)
(*                                                                         *)
(* ShScript gives, for each kind of command, the streams it writes to in   *)
(* order; one element stands for as much output as one read returns.       *)
(***************************************************************************)
EXTENDS Naturals, Sequences

CONSTANTS
  ShScript,   \* the commands: sequences over {"out", "err"}
  ShPipe,     \* the capacity of a pipe
  ShTimeout   \* ShellTool::timeout is set

ASSUME ShAssumption ==
  ShScript \subseteq Seq({"out", "err"}) /\ ShPipe \in Nat \ {0} /\ ShTimeout \in BOOLEAN

VARIABLES
  shTodo,     \* what the child has still to write
  shChild,    \* the child: "none", "alive", "ended"
  shBack,     \* a process it started in the background, in its group: "none",
              \* "piped" (with the pipes of the command), "quiet" (without), "ended"
  shOut,      \* bytes waiting in the pipe of standard output
  shErr,      \* bytes waiting in the pipe of standard error
  shGot,      \* what the call has read
  shCall      \* where the call stands, then its result

shVars == <<shTodo, shChild, shBack, shOut, shErr, shGot, shCall>>

ShBackAlive == shBack \in {"piped", "quiet"}
(* Somebody can still write to the pipes.                                  *)
ShWriters == shChild = "alive" \/ shBack = "piped"

ShInit ==
  /\ shTodo \in ShScript
  /\ shChild = "none" /\ shBack = "none"
  /\ shOut = 0 /\ shErr = 0 /\ shGot = 0
  /\ shCall = "start"

ShSpawn ==
  /\ shCall = "start"
  /\ shCall' = "readOut"
  /\ shChild' = "alive"
  /\ UNCHANGED <<shTodo, shBack, shOut, shErr, shGot>>

ShSpawnFails ==
  /\ shCall = "start"
  /\ shCall' = "failed"
  /\ UNCHANGED <<shTodo, shChild, shBack, shOut, shErr, shGot>>

(* `&`, with the command's pipes or with its output sent elsewhere.        *)
ShBackground ==
  /\ shChild = "alive" /\ shBack = "none"
  /\ shBack' \in {"piped", "quiet"}
  /\ UNCHANGED <<shTodo, shChild, shOut, shErr, shGot, shCall>>

(* A write blocks while the pipe is full.                                  *)
ShWrites ==
  /\ ShWriters /\ shTodo # <<>>
  /\ \/ Head(shTodo) = "out" /\ shOut < ShPipe
        /\ shOut' = shOut + 1 /\ UNCHANGED shErr
     \/ Head(shTodo) = "err" /\ shErr < ShPipe
        /\ shErr' = shErr + 1 /\ UNCHANGED shOut
  /\ shTodo' = Tail(shTodo)
  /\ UNCHANGED <<shChild, shBack, shGot, shCall>>

(* What one of them leaves unwritten, the other has to write.              *)
ShChildEnds ==
  /\ shChild = "alive" /\ (shTodo = <<>> \/ shBack = "piped")
  /\ shChild' = "ended"
  /\ UNCHANGED <<shTodo, shBack, shOut, shErr, shGot, shCall>>

ShBackEnds ==
  /\ ShBackAlive /\ (shBack = "piped" /\ shChild = "ended" => shTodo = <<>>)
  /\ shBack' = "ended"
  /\ UNCHANGED <<shTodo, shChild, shOut, shErr, shGot, shCall>>

(* read_to_end of one pipe: some bytes, or the end once every writer left. *)
ShReadOut ==
  /\ shCall = "readOut"
  /\ shOut > 0 \/ ~ShWriters
  /\ shGot' = shGot + shOut
  /\ shOut' = 0
  /\ shCall' = IF shOut = 0 THEN "readErr" ELSE "readOut"
  /\ UNCHANGED <<shTodo, shChild, shBack, shErr>>

ShReadErr ==
  /\ shCall = "readErr"
  /\ shErr > 0 \/ ~ShWriters
  /\ shGot' = shGot + shErr
  /\ shErr' = 0
  /\ shCall' = IF shErr = 0 THEN "wait" ELSE "readErr"
  /\ UNCHANGED <<shTodo, shChild, shBack, shOut>>

(* child.wait, and the answer with exit status and output; what runs in    *)
(* the background runs on.                                                 *)
ShAnswer ==
  /\ shCall = "wait" /\ shChild = "ended"
  /\ shCall' = "answered"
  /\ UNCHANGED <<shTodo, shChild, shBack, shOut, shErr, shGot>>

ShRunning == shCall \in {"readOut", "readErr", "wait"}

(* kill_on_drop: the direct child only.                                    *)
ShKillChild == shChild' = "ended" /\ shBack' = shBack

(* pgroup::kill_group: no process of the command is left.                  *)
ShKillGroup == shChild' = "ended" /\ shBack' = IF ShBackAlive THEN "ended" ELSE shBack

(* The call's own end: the timeout where one is set, or its token, which   *)
(* under the dispatcher has to be cancelled between two polls of a select. *)
ShStop(why) ==
  /\ ShRunning
  /\ why = "cancelled" \/ (why = "timedOut" /\ ShTimeout)
  /\ shCall' = why
  /\ ShKillGroup
  /\ UNCHANGED <<shTodo, shOut, shErr, shGot>>

(* guarded: at a cancellation or the run's deadline the dispatcher drops   *)
(* the call's future, and with it the child's handle.                      *)
ShDropped ==
  /\ ShRunning
  /\ shCall' = "dropped"
  /\ ShKillChild
  /\ UNCHANGED <<shTodo, shOut, shErr, shGot>>

ShRead == ShReadOut \/ ShReadErr \/ ShAnswer
ShCommand == ShBackground \/ ShWrites \/ ShChildEnds \/ ShBackEnds
ShNext ==
  \/ ShSpawn \/ ShSpawnFails \/ ShCommand \/ ShRead
  \/ \E why \in {"cancelled", "timedOut"} : ShStop(why)
  \/ ShDropped

ShSpec == ShInit /\ [][ShNext]_shVars

ShReturned == shCall \in {"answered", "cancelled", "timedOut", "dropped", "failed"}

(***************************************************************************)
(* The command itself never outlives its call.  A call that ended itself,  *)
(* at its timeout or its token, leaves no process of the group; and an     *)
(* answer carries everything that was written to either stream, with       *)
(* nobody left who could write more (shell.rs, call).                      *)
(***************************************************************************)
ShSafe ==
  ShReturned =>
    /\ shChild # "alive"
    /\ shCall \in {"cancelled", "timedOut"} => ~ShBackAlive
    /\ shCall = "answered" => shTodo = <<>> /\ shOut = 0 /\ shErr = 0 /\ ~ShWriters

(***************************************************************************)
(* "On either" - cancellation or the timeout - "the whole process group is *)
(* SIGKILLed so grandchildren die too" (shell.rs, call).                   *)
(***************************************************************************)
ShGroupDies ==
  shCall \in {"cancelled", "timedOut", "dropped"} => shChild # "alive" /\ ~ShBackAlive
=============================================================================
