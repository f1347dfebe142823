---------------------------- MODULE Interpreters ----------------------------
(***************************************************************************)
(* The tools that keep an interpreter alive across calls: pykernel         *)
(* (crates/tools/src/kernel.rs) and bun_repl (bun_repl.rs, bun_repl/rpc.rs *)
(* for programmatic calls, which hand the code a `tools` global).  One     *)
(* session is followed: calls take its lock in turn, write their code to   *)
(* the interpreter and read its output up to an end marker; calls time     *)
(* out, are cancelled or dropped, the interpreter hangs or dies.           *)
(*                                                                         *)
(* Code is the number of the call that sent it.  The output is the         *)
(* sequence of end markers: what is printed before a marker goes with it.  *)
(***************************************************************************)
EXTENDS Naturals, Sequences

CONSTANTS
  IpMaxExecs,   \* bound of the model: exec calls
  IpMaxResets   \* bound of the model: reset calls

ASSUME IpAssumption == IpMaxExecs \in Nat /\ IpMaxResets \in Nat

IpExec == 1..IpMaxExecs
IpKinds == {"python", "bun", "programmatic"}

VARIABLES
  ipTool,      \* the tool: "pykernel" or "bun_repl"
  ipKind,      \* the kind of each call
  ipStep,      \* where it stands
  ipTold,      \* its `restarted`
  ipGot,       \* the call whose marker ended it
  ipOn,        \* history: the interpreter its code went to, or 0
  ipLock,      \* the call that holds the session lock, or 0
  ipLive,      \* Session::live: the number of the interpreter, or 0
  ipSpawned,   \* interpreters started so far
  ipUp,        \* the live interpreter's process runs
  ipIn,        \* code on its stdin
  ipNow,       \* code it executes: a sequence of at most one
  ipOut,       \* end markers it wrote that nobody has read
  ipGlobal,    \* it holds a `tools` global
  ipNotice,    \* Session::restart_notice
  ipDirty,     \* Session::interrupted
  ipInstalled, \* Session::tools_installed
  ipKiller,    \* the kill a dropped call scheduled has not run yet
  ipResets,    \* resets so far
  ipKnown      \* history: the interpreter whose state the caller relies on, or 0

ipCallVars == <<ipTool, ipKind, ipStep, ipTold, ipGot, ipOn, ipLock>>
ipProcVars == <<ipLive, ipSpawned, ipUp, ipIn, ipNow, ipOut, ipGlobal>>
ipVars == <<ipCallVars, ipProcVars, ipNotice, ipDirty, ipInstalled, ipKiller, ipResets,
            ipKnown>>

IpInit ==
  /\ ipTool \in {"pykernel", "bun_repl"}
  /\ ipKind = [e \in IpExec |-> "python"] /\ ipStep = [e \in IpExec |-> "idle"]
  /\ ipTold = [e \in IpExec |-> FALSE] /\ ipGot = [e \in IpExec |-> 0]
  /\ ipOn = [e \in IpExec |-> 0]
  /\ ipLock = 0 /\ ipLive = 0 /\ ipSpawned = 0 /\ ipUp = FALSE
  /\ ipIn = <<>> /\ ipNow = <<>> /\ ipOut = <<>> /\ ipGlobal = FALSE
  /\ ipNotice = FALSE /\ ipDirty = FALSE /\ ipInstalled = FALSE /\ ipKiller = FALSE
  /\ ipResets = 0 /\ ipKnown = 0

-----------------------------------------------------------------------------
(* The tool is called; calls wait for the session lock in turn.            *)
IpCall(e, kind) ==
  /\ ipStep[e] = "idle" /\ (e > 1 => ipStep[e - 1] # "idle")
  /\ kind = "python" <=> ipTool = "pykernel"
  /\ ipKind' = [ipKind EXCEPT ![e] = kind]
  /\ ipStep' = [ipStep EXCEPT ![e] = "queued"]
  /\ UNCHANGED <<ipTool, ipTold, ipGot, ipOn, ipLock, ipProcVars, ipNotice, ipDirty,
                 ipInstalled, ipKiller, ipResets, ipKnown>>

IpMyTurn(e) ==
  /\ ipStep[e] = "queued" /\ ipLock = 0
  /\ \A d \in 1..(e - 1) : ipStep[d] # "queued"

(* mutation: an interpreter that died on its own is replaced in silence. *)
IpLostQuietly == ipNotice \/ ipDirty
(* State is gone since the last call: a call dropped half-way left the     *)
(* interpreter dirty, or has_exited.                                       *)
IpLost == ipNotice \/ ipDirty \/ (ipLive # 0 /\ ~ipUp)
IpUsable == ipLive # 0 /\ ipUp /\ ~ipDirty

(* Prefixed to code that must not reach a stale `tools`.                   *)
IpUninstalls(e) == ipKind[e] = "bun" /\ IpUsable /\ ipInstalled

(* A new interpreter, with what is on its stdin.                           *)
IpSpawns(codes) ==
  /\ ipSpawned' = ipSpawned + 1 /\ ipLive' = ipSpawned + 1 /\ ipUp' = TRUE
  /\ ipIn' = codes /\ ipNow' = <<>> /\ ipOut' = <<>> /\ ipGlobal' = FALSE

(* exec under the lock, up to the write of its code.                       *)
IpBegin(e) ==
  /\ IpMyTurn(e)
  /\ ipLock' = e /\ ipStep' = [ipStep EXCEPT ![e] = "reading"]
  /\ ipTold' = [ipTold EXCEPT ![e] = IpLost]
  /\ LET code == [id |-> e, kind |-> ipKind[e], clean |-> IpUninstalls(e)] IN
       IF IpUsable
       THEN /\ ipIn' = Append(ipIn, code)
            /\ UNCHANGED <<ipLive, ipSpawned, ipUp, ipNow, ipOut, ipGlobal>>
       ELSE IpSpawns(<<code>>)
  /\ ipNotice' = FALSE /\ ipDirty' = FALSE
  /\ ipInstalled' = (ipKind[e] = "programmatic")
  /\ ipOn' = [ipOn EXCEPT ![e] = ipLive']
  /\ UNCHANGED <<ipTool, ipKind, ipGot, ipKiller, ipResets, ipKnown>>

(* spawn_kernel or spawn_repl fails.                                       *)
IpSpawnFails(e) ==
  /\ IpMyTurn(e) /\ ~IpUsable
  /\ ipStep' = [ipStep EXCEPT ![e] = "failed"]
  /\ ipLive' = 0 /\ ipUp' = FALSE /\ ipIn' = <<>> /\ ipNow' = <<>> /\ ipOut' = <<>>
  /\ ipGlobal' = FALSE
  /\ ipNotice' = IpLost /\ ipDirty' = FALSE
  /\ UNCHANGED <<ipTool, ipKind, ipTold, ipGot, ipOn, ipLock, ipSpawned, ipInstalled,
                 ipKiller, ipResets, ipKnown>>

(***************************************************************************)
(* bun_repl cannot write the file its code travels in: the interpreter     *)
(* stays, and a `restarted` this call was about to report is never seen.   *)
(***************************************************************************)
IpSourceFails(e) ==
  /\ IpMyTurn(e) /\ ipTool = "bun_repl"
  /\ ipStep' = [ipStep EXCEPT ![e] = "failed"]
  /\ IF IpUsable THEN UNCHANGED <<ipProcVars, ipInstalled>>
     ELSE IpSpawns(<<>>) /\ ipInstalled' = FALSE
  /\ ipNotice' = FALSE /\ ipDirty' = FALSE
  /\ ipKnown' = IF IpLost THEN 0 ELSE ipKnown
  /\ UNCHANGED <<ipTool, ipKind, ipTold, ipGot, ipOn, ipLock, ipKiller, ipResets>>

(* kill_live                                                               *)
IpKills ==
  /\ ipLive' = 0 /\ ipUp' = FALSE /\ ipIn' = <<>> /\ ipNow' = <<>> /\ ipOut' = <<>>
  /\ ipGlobal' = FALSE
  /\ UNCHANGED ipSpawned

(* bun_repl's markers are made per call, pykernel's per interpreter.       *)
IpMine(e, marker) == ipTool = "pykernel" \/ marker = e

(* A chunk is read; the call ends with the marker it was waiting for.      *)
IpRead(e) ==
  /\ ipStep[e] = "reading" /\ ipOut # <<>>
  /\ ipOut' = Tail(ipOut)
  /\ IF IpMine(e, Head(ipOut))
     THEN /\ ipStep' = [ipStep EXCEPT ![e] = "answered"]
          /\ ipGot' = [ipGot EXCEPT ![e] = Head(ipOut)]
          /\ ipLock' = 0 /\ ipKnown' = ipLive
     ELSE UNCHANGED <<ipStep, ipGot, ipLock, ipKnown>>
  /\ UNCHANGED <<ipTool, ipKind, ipTold, ipOn, ipLive, ipSpawned, ipUp, ipIn, ipNow,
                 ipGlobal, ipNotice, ipDirty, ipInstalled, ipKiller, ipResets>>

(* The write failed, the stream closed, the time is up, the call's own     *)
(* token was cancelled or the `tools` protocol broke: "the framing can no  *)
(* longer be trusted".                                                     *)
IpGivesUp(e) ==
  /\ ipStep[e] = "reading"
  /\ ipStep' = [ipStep EXCEPT ![e] = "failed"] /\ ipLock' = 0
  /\ IpKills /\ ipNotice' = TRUE
  /\ IF ipKind[e] = "programmatic" THEN ipDirty' = TRUE /\ ipKiller' = TRUE
     ELSE UNCHANGED <<ipDirty, ipKiller>>
  /\ UNCHANGED <<ipTool, ipKind, ipTold, ipGot, ipOn, ipInstalled, ipResets, ipKnown>>

(***************************************************************************)
(* The dispatcher drops the call's future: its select sees the cancelled   *)
(* token before the tool can.  DirtyOnDrop marks a programmatic one; the   *)
(* others leave their code running in an interpreter nobody kills, and a   *)
(* `restarted` they were about to report is never seen.                    *)
(***************************************************************************)
IpDropped(e) ==
  /\ ipStep[e] \in {"queued", "reading"}
  /\ ipStep' = [ipStep EXCEPT ![e] = "dropped"]
  /\ IF ipStep[e] = "reading"
     THEN /\ ipLock' = 0
          /\ IF ipKind[e] = "programmatic"
             THEN ipDirty' = TRUE /\ ipKiller' = TRUE /\ UNCHANGED ipKnown
             ELSE /\ ipKnown' = IF ipTold[e] THEN 0 ELSE ipKnown
                  /\ UNCHANGED <<ipDirty, ipKiller>>
     ELSE UNCHANGED <<ipLock, ipDirty, ipKiller, ipKnown>>
  /\ UNCHANGED <<ipTool, ipKind, ipTold, ipGot, ipOn, ipProcVars, ipNotice, ipInstalled,
                 ipResets>>

(* The kill DirtyOnDrop scheduled: "The next call may already have         *)
(* replaced the interpreter."                                              *)
IpLateKill ==
  /\ ipKiller /\ ipLock = 0 /\ ipKiller' = FALSE
  /\ ipUp' = (ipUp /\ ~ipDirty)
  /\ UNCHANGED <<ipCallVars, ipLive, ipSpawned, ipIn, ipNow, ipOut, ipGlobal, ipNotice,
                 ipDirty, ipInstalled, ipResets, ipKnown>>

(* reset: the caller knows.                                                *)
IpReset ==
  /\ ipLock = 0 /\ ipResets < IpMaxResets /\ ipResets' = ipResets + 1
  /\ IpKills /\ ipNotice' = FALSE /\ ipDirty' = FALSE /\ ipKnown' = 0
  /\ UNCHANGED <<ipCallVars, ipInstalled, ipKiller>>

-----------------------------------------------------------------------------
(* The interpreter.                                                        *)

IpTakesCode ==
  /\ ipUp /\ ipNow = <<>> /\ ipIn # <<>>
  /\ ipNow' = <<Head(ipIn)>> /\ ipIn' = Tail(ipIn)
  /\ ipGlobal' = ((ipGlobal /\ ~Head(ipIn).clean) \/ Head(ipIn).kind = "programmatic")
  /\ UNCHANGED <<ipCallVars, ipLive, ipSpawned, ipUp, ipOut, ipNotice, ipDirty,
                 ipInstalled, ipKiller, ipResets, ipKnown>>

IpFinishesCode ==
  /\ ipUp /\ ipNow # <<>>
  /\ ipOut' = Append(ipOut, Head(ipNow).id) /\ ipNow' = <<>>
  /\ UNCHANGED <<ipCallVars, ipLive, ipSpawned, ipUp, ipIn, ipGlobal, ipNotice, ipDirty,
                 ipInstalled, ipKiller, ipResets, ipKnown>>

(* Its code ends it, or it crashes; what it wrote can still be read.       *)
IpDies ==
  /\ ipUp /\ ipUp' = FALSE
  /\ UNCHANGED <<ipCallVars, ipLive, ipSpawned, ipIn, ipNow, ipOut, ipGlobal, ipNotice,
                 ipDirty, ipInstalled, ipKiller, ipResets, ipKnown>>

IpNext ==
  \/ \E e \in IpExec :
       \/ \E kind \in IpKinds : IpCall(e, kind)
       \/ IpBegin(e) \/ IpSpawnFails(e) \/ IpSourceFails(e)
       \/ IpRead(e) \/ IpGivesUp(e) \/ IpDropped(e)
  \/ IpLateKill \/ IpReset
  \/ IpTakesCode \/ IpFinishesCode \/ IpDies

IpSpec == IpInit /\ [][IpNext]_ipVars

-----------------------------------------------------------------------------
(* bun_repl returns the output of the call's own code, whatever the calls  *)
(* before it left in the interpreter and in the pipe.  pykernel does too,  *)
(* unless a call was dropped half-way on the same interpreter: then it may *)
(* return an earlier call's, but still no output twice or out of order.    *)
IpOwnAnswer ==
  \A e \in IpExec : ipStep[e] = "answered" =>
    /\ \/ ipGot[e] = e
       \/ /\ ipKind[e] = "python" /\ ipGot[e] < e
          /\ \E d \in 1 .. e - 1 : ipStep[d] = "dropped" /\ ipOn[d] = ipOn[e]
    /\ \A d \in 1 .. e - 1 : ipStep[d] = "answered" => ipGot[d] < ipGot[e]

(* "state loss is explicit, never silent": a call answered by another      *)
(* interpreter than the one before it says `restarted`, however many       *)
(* calls timed out, failed to start or, programmatic, were dropped in      *)
(* between.  (A plain call that had the notice to give and was dropped, or *)
(* whose source file failed, takes it along.)                              *)
IpLossTold ==
  [][\A e \in IpExec :
       ipStep[e] # "answered" /\ ipStep'[e] = "answered" /\ ~ipTold[e]
         => ipKnown \in {0, ipLive}]_ipVars

(* "a later execution without the capability cannot reach a stale" `tools` *)
(* global: plain code never runs while the interpreter holds one.          *)
IpNoStaleTools ==
  ipNow # <<>> /\ Head(ipNow).kind = "bun" => ~ipGlobal

(***************************************************************************)
(* A call gets the output of its own code, or, of a Python kernel that a   *)
(* call was dropped on, an earlier one nobody was given; it hears of lost  *)
(* state, and never reaches the `tools` of another call.                   *)
(***************************************************************************)
IpSafe == [](IpOwnAnswer /\ IpNoStaleTools) /\ IpLossTold

(* What kernel.rs says of itself: "a timed-out or cancelled execution      *)
(* leaves the driver in an unknown spot, so the kernel is killed (whole    *)
(* process group) and the next call respawns fresh".  Only exec's own arm  *)
(* of the cancellation kills, and the dispatcher drops the future first.   *)
IpCancelRespawns ==
  \A d, e \in IpExec :
    ipKind[d] = "python" /\ ipStep[d] = "dropped" /\ ipOn[d] # 0 /\ d < e => ipOn[e] # ipOn[d]
=============================================================================
