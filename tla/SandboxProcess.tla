--------------------------- MODULE SandboxProcess ---------------------------
(***************************************************************************)
(* One process in a local Docker sandbox                                   *)
(* (crates/sandbox-providers/src/local/process.rs).  A leader shell in the *)
(* container prints its identity, waits for the host's acknowledgement,    *)
(* runs the caller's command, prints a completion frame on standard error  *)
(* and stays alive until the host kills its group.  On the host a          *)
(* supervisor owns the docker client, two pumps forward its output, and    *)
(* the caller holds a session it may kill or drop.                         *)
(*                                                                         *)
(* Standard error is a sequence of bytes, because the completion frame     *)
(* travels in it: "n" is a newline, "t" the token, "c" the exit code, "a"  *)
(* anything else.  Standard output is a count.  The command does not know  *)
(* the token.                                                              *)
(***************************************************************************)
EXTENDS Naturals, Sequences, SequencesExt, FiniteSetsExt

CONSTANTS
  SxErrMax,   \* the most bytes the command writes to standard error
  SxOutMax,   \* the most it, and what it leaves behind, write to standard output
  SxChunk,    \* the most bytes one read returns
  SxLimit     \* MAX_OUTPUT_BYTES

ASSUME SxAssumption ==
  /\ SxErrMax \in Nat /\ SxOutMax \in Nat
  /\ SxChunk \in Nat \ {0} /\ SxLimit \in Nat

VARIABLES
  sxGroup,    \* the members of the remote process group that are alive
  sxLeader,   \* what the leader does: "starts", "waits" (for the ack), "runs", "sleeps"
  sxErr,      \* what the command wrote to standard error
  sxOut,      \* how much was written to standard output
  sxErrWire,  \* bytes of standard error not read by the host yet
  sxOutWire,  \* bytes of standard output not read by the host yet
  sxCli,      \* the docker client: "alive", "gone", or "broken" when it left early
  sxSup,      \* the supervisor: "handshake", "ack", "running", "drain", "ended"
  sxPump,     \* the two pumps: "none", "reading", "ended"
  sxPending,  \* bytes of standard error held back by its pump
  sxTotal,    \* the shared count of bytes
  sxGotErr,   \* standard error as the session's output delivers it
  sxGotOut,   \* standard output as the session's output delivers it
  sxDone,     \* the completion channel
  sxResult,   \* the supervisor's result so far
  sxExit,     \* what the exit channel holds: "none", "code", "killed", "error"
  sxCancel,   \* the session's cancellation token
  sxCaller    \* the caller: "starting", "holds", "kills", "left", then its answer

sxRemote == <<sxGroup, sxLeader, sxErr, sxOut>>
sxHost == <<sxPump, sxPending, sxTotal, sxGotErr, sxGotOut>>
sxEnd == <<sxSup, sxDone, sxResult, sxExit>>
sxCalls == <<sxCancel, sxCaller>>
sxVars == <<sxRemote, sxErrWire, sxOutWire, sxCli, sxHost, sxEnd, sxCalls>>

SxMarker == <<"n", "t">>
SxStatus == <<"c", "n">>

SxInit ==
  /\ sxGroup = {"leader"} /\ sxLeader = "starts"
  /\ sxErr = <<>> /\ sxOut = 0
  /\ sxErrWire = <<>> /\ sxOutWire = 0
  /\ sxCli = "alive"
  /\ sxSup = "handshake"
  /\ sxPump = [out |-> "none", err |-> "none"]
  /\ sxPending = <<>> /\ sxTotal = 0
  /\ sxGotErr = <<>> /\ sxGotOut = 0
  /\ sxDone = <<>> /\ sxResult = "none" /\ sxExit = "none"
  /\ sxCancel = FALSE /\ sxCaller = "starting"

-----------------------------------------------------------------------------
(* The remote side: the script, and what the operating system does to it.  *)

(* identity prints the leader's pid and start time.                        *)
SxIdentity ==
  /\ "leader" \in sxGroup /\ sxLeader = "starts"
  /\ sxLeader' = "waits"
  /\ UNCHANGED <<sxGroup, sxErr, sxOut, sxErrWire, sxOutWire, sxCli, sxHost, sxEnd, sxCalls>>

(* A byte of standard error, or one of standard output.                    *)
SxWrites ==
  /\ sxCli = "alive"
  /\ \/ /\ "command" \in sxGroup /\ Len(sxErr) < SxErrMax
        /\ \E b \in {"a", "n"} :
             sxErr' = Append(sxErr, b) /\ sxErrWire' = Append(sxErrWire, b)
        /\ UNCHANGED <<sxOut, sxOutWire>>
     \/ /\ sxGroup \cap {"command", "grandchild"} # {} /\ sxOut < SxOutMax
        /\ sxOut' = sxOut + 1 /\ sxOutWire' = sxOutWire + 1
        /\ UNCHANGED <<sxErr, sxErrWire>>
  /\ UNCHANGED <<sxGroup, sxLeader, sxCli, sxHost, sxEnd, sxCalls>>

(* The command ends, and may leave a process of its own behind; the leader *)
(* prints the completion frame and sleeps.                                 *)
SxCommandEnds ==
  /\ "command" \in sxGroup
  /\ \E left \in SUBSET {"grandchild"} :
       sxGroup' = (sxGroup \ {"command"}) \cup left
  /\ IF "leader" \in sxGroup
     THEN /\ sxLeader' = "sleeps"
          /\ sxErrWire' = IF sxCli = "alive" THEN sxErrWire \o SxMarker \o SxStatus ELSE sxErrWire
     ELSE UNCHANGED <<sxLeader, sxErrWire>>
  /\ UNCHANGED <<sxErr, sxOut, sxOutWire, sxCli, sxHost, sxEnd, sxCalls>>

(* Something outside kills the leader, or its client left before the       *)
(* acknowledgement and its read of standard input fails.                   *)
SxLeaderDies ==
  /\ "leader" \in sxGroup
  /\ sxGroup' = sxGroup \ {"leader"}
  /\ UNCHANGED <<sxLeader, sxErr, sxOut, sxErrWire, sxOutWire, sxCli, sxHost, sxEnd, sxCalls>>

(* The docker client leaves once the leader is gone and it has forwarded   *)
(* what it read; or it breaks, and bytes on their way are lost.            *)
SxCliLeaves ==
  /\ sxCli = "alive"
  /\ \/ /\ "leader" \notin sxGroup
        /\ sxCli' = "gone"
        /\ UNCHANGED <<sxErrWire, sxOutWire>>
     \/ /\ sxCli' = "broken"
        /\ \E n \in 0 .. Len(sxErrWire) : sxErrWire' = SubSeq(sxErrWire, 1, n)
        /\ sxOutWire' \in 0 .. sxOutWire
  /\ UNCHANGED <<sxRemote, sxHost, sxEnd, sxCalls>>

-----------------------------------------------------------------------------
(* The pumps.                                                              *)

SxAllowed(n, total) == Min({n, IF total < SxLimit THEN SxLimit - total ELSE 0})

(* The longest end of the bytes that could begin the completion frame.     *)
SxRetain(p) ==
  Max({0} \cup {k \in 1 .. Min({Len(SxMarker), Len(p)}) :
                  IsSuffix(SubSeq(SxMarker, 1, k), p)})

SxFound(p) == {i \in 0 .. Len(p) - Len(SxMarker) :
                 SubSeq(p, i + 1, i + Len(SxMarker)) = SxMarker}

(* emit on standard error: deliver what the limit allows of the first n    *)
(* held bytes.                                                             *)
SxEmitErr(p, n) ==
  /\ sxTotal' = sxTotal + n
  /\ sxGotErr' = IF sxCaller = "left" THEN sxGotErr
                 ELSE sxGotErr \o SubSeq(p, 1, SxAllowed(n, sxTotal))

(* The channel refuses: the output is over the limit, or nobody reads it.  *)
SxRefuses(n) ==
  \/ SxAllowed(n, sxTotal) < n
  \/ sxCaller = "left" /\ SxAllowed(n, sxTotal) > 0

SxPumpErr ==
  /\ sxPump.err = "reading"
  /\ \E size \in 1 .. SxChunk :
       LET p == sxPending \o SubSeq(sxErrWire, 1, size)
           found == SxFound(p)
           index == Min(found)
           status == SubSeq(p, index + Len(SxMarker) + 1, Len(p))
           count == IF found # {} THEN index ELSE Len(p) - SxRetain(p)
           ends == SxRefuses(count) \/ (found # {} /\ "n" \in Range(status))
       IN /\ size <= Len(sxErrWire)
          /\ sxErrWire' = SubSeq(sxErrWire, size + 1, Len(sxErrWire))
          /\ SxEmitErr(p, count)
          /\ sxPending' = IF ends THEN <<>> ELSE SubSeq(p, count + 1, Len(p))
          /\ sxPump' = IF ends THEN [sxPump EXCEPT !.err = "ended"] ELSE sxPump
          /\ sxDone' = IF SxRefuses(count) THEN Append(sxDone, "error")
                       ELSE IF ends THEN Append(sxDone, "code") ELSE sxDone
  /\ UNCHANGED <<sxRemote, sxOutWire, sxCli, sxGotOut, sxSup, sxResult, sxExit, sxCalls>>

(* The end of standard error: what was held back is delivered.             *)
SxPumpErrEnds ==
  /\ sxPump.err = "reading" /\ sxErrWire = <<>> /\ sxCli # "alive"
  /\ SxEmitErr(sxPending, Len(sxPending))
  /\ sxPending' = <<>>
  /\ sxPump' = [sxPump EXCEPT !.err = "ended"]
  /\ sxDone' = IF SxRefuses(Len(sxPending)) THEN Append(sxDone, "error") ELSE sxDone
  /\ UNCHANGED <<sxRemote, sxErrWire, sxOutWire, sxCli, sxGotOut, sxSup, sxResult, sxExit, sxCalls>>

SxPumpOut ==
  /\ sxPump.out = "reading"
  /\ \E size \in 1 .. sxOutWire :
       /\ sxOutWire' = sxOutWire - size
       /\ sxTotal' = sxTotal + size
       /\ sxGotOut' = IF sxCaller = "left" THEN sxGotOut
                      ELSE sxGotOut + SxAllowed(size, sxTotal)
       /\ IF SxRefuses(size)
          THEN sxPump' = [sxPump EXCEPT !.out = "ended"] /\ sxDone' = Append(sxDone, "error")
          ELSE UNCHANGED <<sxPump, sxDone>>
  /\ UNCHANGED <<sxRemote, sxErrWire, sxCli, sxPending, sxGotErr, sxSup, sxResult, sxExit, sxCalls>>

SxPumpOutEnds ==
  /\ sxPump.out = "reading" /\ sxOutWire = 0 /\ sxCli # "alive"
  /\ sxPump' = [sxPump EXCEPT !.out = "ended"]
  /\ UNCHANGED <<sxRemote, sxErrWire, sxOutWire, sxCli, sxPending, sxTotal, sxGotErr, sxGotOut, sxEnd, sxCalls>>

-----------------------------------------------------------------------------
(* The supervisor.                                                         *)

(* child.start_kill and child.wait.                                        *)
SxKillCli == IF sxCli = "alive" THEN "gone" ELSE sxCli

(* Cancelled, out of time, or no valid identity: nothing was started.      *)
SxHandshakeFails ==
  /\ sxSup = "handshake"
  /\ sxSup' = "ended" /\ sxExit' = "error"
  /\ sxCli' = SxKillCli
  /\ sxErrWire' = <<>> /\ sxOutWire' = 0
  /\ sxCaller' = IF sxCaller = "starting" THEN "failed" ELSE sxCaller
  /\ UNCHANGED <<sxRemote, sxHost, sxDone, sxResult, sxCancel>>

SxHandshake ==
  /\ sxSup = "handshake" /\ sxLeader = "waits"
  /\ sxSup' = "ack"
  /\ UNCHANGED <<sxRemote, sxErrWire, sxOutWire, sxCli, sxHost, sxDone, sxResult, sxExit, sxCalls>>

(* The acknowledgement reaches a leader that is still there, and the       *)
(* command starts; the pumps start and start_process returns.              *)
SxAck ==
  /\ sxSup = "ack" /\ sxCli = "alive"
  /\ sxSup' = "running"
  /\ IF "leader" \in sxGroup
     THEN sxGroup' = sxGroup \cup {"command"} /\ sxLeader' = "runs"
     ELSE UNCHANGED <<sxGroup, sxLeader>>
  /\ sxPump' = [out |-> "reading", err |-> "reading"]
  /\ sxCaller' = IF sxCaller = "starting" THEN "holds" ELSE sxCaller
  /\ UNCHANGED <<sxErr, sxOut, sxErrWire, sxOutWire, sxCli, sxPending, sxTotal, sxGotErr, sxGotOut,
                 sxDone, sxResult, sxExit, sxCancel>>

(***************************************************************************)
(* terminate_group.  While the leader lives its pid is its own and the     *)
(* whole group is signalled; without it nothing is signalled and only an   *)
(* empty group is confirmed.  The docker call may fail before or after it  *)
(* did its work.                                                           *)
(***************************************************************************)
SxTerminate(group, confirmed) ==
  IF "leader" \in sxGroup
  THEN group = {} \/ (~confirmed /\ group = sxGroup)
  ELSE group = sxGroup /\ (confirmed => sxGroup = {})

SxAckFails ==
  /\ sxSup = "ack" /\ sxCli # "alive"
  /\ \E confirmed \in BOOLEAN : sxGroup' \in SUBSET sxGroup /\ SxTerminate(sxGroup', confirmed)
  /\ sxSup' = "ended" /\ sxExit' = "error"
  /\ sxErrWire' = <<>> /\ sxOutWire' = 0
  /\ sxCaller' = IF sxCaller = "starting" THEN "failed" ELSE sxCaller
  /\ UNCHANGED <<sxLeader, sxErr, sxOut, sxCli, sxHost, sxDone, sxResult, sxCancel>>

(* What ends the run: cancellation, the first completion event, both pumps *)
(* gone without one, or the docker client gone.                            *)
SxOutcomes ==
  (IF sxCancel THEN {"killed"} ELSE {})
  \cup (IF sxDone # <<>> THEN {Head(sxDone)} ELSE {})
  \cup (IF sxDone = <<>> /\ sxPump = [out |-> "ended", err |-> "ended"] THEN {"error"} ELSE {})
  \cup (IF sxCli # "alive" THEN {"error"} ELSE {})

(* The pumps are aborted with their pipes.                                 *)
SxAbort ==
  /\ sxPump' = [out |-> "ended", err |-> "ended"]
  /\ sxPending' = <<>>
  /\ sxErrWire' = <<>> /\ sxOutWire' = 0
  /\ sxCli' = SxKillCli
  /\ UNCHANGED <<sxTotal, sxGotErr, sxGotOut>>

SxRunEnds ==
  /\ sxSup = "running"
  /\ \E result \in SxOutcomes, confirmed \in BOOLEAN :
       /\ sxGroup' \in SUBSET sxGroup
       /\ SxTerminate(sxGroup', confirmed)
       /\ sxDone' = IF sxDone # <<>> /\ result = Head(sxDone) THEN Tail(sxDone) ELSE sxDone
       /\ sxResult' = IF confirmed THEN result ELSE "error"
       /\ IF result = "code" /\ confirmed
          THEN /\ sxSup' = "drain"
               /\ UNCHANGED <<sxExit, sxErrWire, sxOutWire, sxCli, sxHost>>
          ELSE /\ sxSup' = "ended" /\ sxExit' = sxResult'
               /\ SxAbort
  /\ UNCHANGED <<sxLeader, sxErr, sxOut, sxCalls>>

(* mutation: what the pumps reported meanwhile is not looked at. *)
SxLateErrorIgnored == FALSE
(* Overflow may sit behind the completion frame on the other stream.       *)
SxLateError == "error" \in Range(sxDone)

(* The client has left and both pumps have read to the end.                *)
SxDrained ==
  /\ sxSup = "drain"
  /\ sxCli # "alive" /\ sxPump = [out |-> "ended", err |-> "ended"]
  /\ sxSup' = "ended"
  /\ sxExit' = IF SxLateError THEN "error" ELSE sxResult
  /\ sxResult' = sxExit' /\ sxDone' = <<>>
  /\ UNCHANGED <<sxRemote, sxErrWire, sxOutWire, sxCli, sxHost, sxCalls>>

SxDrainCancelled ==
  /\ sxSup = "drain" /\ sxCancel
  /\ sxSup' = "ended" /\ sxExit' = "killed" /\ sxResult' = "killed"
  /\ SxAbort
  /\ UNCHANGED <<sxRemote, sxDone, sxCalls>>

-----------------------------------------------------------------------------
(* The caller: Session::kill, also at the deadline of execute_bounded; the *)
(* session or the call dropped; and its answer.                            *)

SxKill ==
  /\ sxCaller = "holds"
  /\ sxCaller' = "kills" /\ sxCancel' = TRUE
  /\ UNCHANGED <<sxRemote, sxErrWire, sxOutWire, sxCli, sxHost, sxEnd>>

SxDrop ==
  /\ sxCaller \in {"starting", "holds", "kills"}
  /\ sxCaller' = "left" /\ sxCancel' = TRUE
  /\ UNCHANGED <<sxRemote, sxErrWire, sxOutWire, sxCli, sxHost, sxEnd>>

SxAnswer ==
  /\ sxCaller \in {"holds", "kills"} /\ sxExit # "none"
  /\ sxCaller' = IF sxExit = "error" THEN "failed"
                 ELSE IF sxCaller = "kills" THEN "stopped" ELSE "answered"
  /\ UNCHANGED <<sxRemote, sxErrWire, sxOutWire, sxCli, sxHost, sxEnd, sxCancel>>

SxNext ==
  \/ SxIdentity \/ SxWrites \/ SxCommandEnds \/ SxLeaderDies \/ SxCliLeaves
  \/ SxPumpErr \/ SxPumpErrEnds \/ SxPumpOut \/ SxPumpOutEnds
  \/ SxHandshakeFails \/ SxHandshake \/ SxAck \/ SxAckFails
  \/ SxRunEnds \/ SxDrained \/ SxDrainCancelled
  \/ SxKill \/ SxDrop \/ SxAnswer

SxSpec == SxInit /\ [][SxNext]_sxVars

-----------------------------------------------------------------------------
(***************************************************************************)
(* A session that ended without an error left nothing of its group alive,  *)
(* grandchildren included: neither an exit code nor the answer to a kill   *)
(* or a deadline is given while something still runs.                      *)
(***************************************************************************)
SxNothingLeft ==
  /\ sxExit \in {"code", "killed"} => sxGroup = {}
  /\ sxCaller \in {"answered", "stopped"} => sxGroup = {}

(***************************************************************************)
(* An exit code comes with everything: standard error exactly as the       *)
(* command wrote it, without the completion frame however the reads split  *)
(* it, and standard output to its end, overflow behind the frame           *)
(* included.  (A docker client that breaks after the frame was read may    *)
(* lose standard output unnoticed, and its exit status is not looked at.)  *)
(***************************************************************************)
SxWholeOutput ==
  sxExit = "code" /\ sxCli # "broken" => sxGotErr = sxErr /\ sxGotOut = sxOut

(* No more than the limit is ever delivered, and while the session runs    *)
(* only bytes that may begin the completion frame are held back, so that   *)
(* a prompt on standard error is seen before its answer is typed.          *)
SxNothingWithheld ==
  /\ Len(sxGotErr) + sxGotOut <= SxLimit
  /\ SxFound(sxPending) = {} => IsPrefix(sxPending, SxMarker)

(* The three promises of a sandboxed process.                              *)
SxSafe == SxNothingLeft /\ SxWholeOutput /\ SxNothingWithheld
=============================================================================
