---------------------------- MODULE PluginHooks -----------------------------
(***************************************************************************)
(* The hooks a plugin contributes (crates/tool-extensions/src/             *)
(* plugin_hooks.rs).  For one lifecycle event every matching hook is a     *)
(* process run in turn: the host writes the whole input, then reads the    *)
(* answer to its end while it waits for the process, and judges it.  A     *)
(* hook that decides about a tool call may change or deny it; one that     *)
(* only observes may answer nothing; at the end of a run failures are      *)
(* ignored.                                                                *)
(*                                                                         *)
(* Input and answer are counted in chunks.  A hook process does what it    *)
(* likes: it may leave early, answer before it read, or say too much.      *)
(***************************************************************************)
EXTENDS Naturals, Sequences

CONSTANTS
  PhHooks,    \* how many hooks match the event
  PhInput,    \* chunks of input
  PhPipe,     \* the capacity of a pipe
  PhLimit     \* MAX_OUTPUT_BYTES, in chunks

ASSUME PhAssumption ==
  /\ PhHooks \in Nat /\ PhInput \in Nat
  /\ PhPipe \in Nat \ {0} /\ PhLimit \in Nat

PhEvents == {"before_tool", "after_tool", "observe", "notify"}

(* What a process means to answer.                                         *)
PhAnswers ==
  [kind : {"accept", "change", "deny", "bad"}, len : 1 .. PhLimit + 2]

VARIABLES
  phEvent,    \* the event
  phAt,       \* the hook that is being invoked
  phHost,     \* the invocation: "spawn", "write", "collect", then "done"
  phToWrite,  \* input the host still has to write
  phIn,       \* what the process has not read of it
  phOut,      \* what the host has not read of the answer
  phGot,      \* what the host has read of the answer
  phChild,    \* the process: "none", "alive", "ok", "failed"
  phPlan,     \* what it means to answer
  phWrote,    \* how much of that it wrote
  phArgs,     \* whose change of the call or the result stands, 0 for none
  phLog,      \* the invocations that were accepted
  phOutcome   \* what the event came to: "none", "go", "deny", "error", "dropped"

phProc == <<phToWrite, phIn, phOut, phGot, phPlan, phWrote>>
phVars == <<phEvent, phAt, phHost, phProc, phChild, phArgs, phLog, phOutcome>>

PhInit ==
  /\ phEvent \in PhEvents
  /\ phAt = 1 /\ phHost = "spawn"
  /\ phToWrite = 0 /\ phIn = 0 /\ phOut = 0 /\ phGot = 0
  /\ phChild = "none"
  /\ phPlan = [kind |-> "accept", len |-> 1] /\ phWrote = 0
  /\ phArgs = 0 /\ phLog = <<>> /\ phOutcome = "none"

(* The loop over the matching hooks is over.                               *)
PhLoopEnds ==
  /\ phHost = "spawn" /\ phAt > PhHooks
  /\ phHost' = "done" /\ phOutcome' = "go"
  /\ UNCHANGED <<phEvent, phAt, phProc, phChild, phArgs, phLog>>

PhSpawn ==
  /\ phHost = "spawn" /\ phAt <= PhHooks
  /\ phHost' = "write"
  /\ phChild' = "alive"
  /\ phToWrite' = PhInput
  /\ phIn' = 0 /\ phOut' = 0 /\ phGot' = 0 /\ phWrote' = 0
  /\ phPlan' \in PhAnswers
  /\ UNCHANGED <<phEvent, phAt, phArgs, phLog, phOutcome>>

-----------------------------------------------------------------------------
(* The process.                                                            *)

PhChildReads ==
  /\ phChild = "alive" /\ phIn > 0
  /\ phIn' = phIn - 1
  /\ UNCHANGED <<phEvent, phAt, phHost, phToWrite, phOut, phGot, phPlan, phWrote,
                 phChild, phArgs, phLog, phOutcome>>

PhChildWrites ==
  /\ phChild = "alive" /\ phWrote < phPlan.len /\ phOut < PhPipe
  /\ phWrote' = phWrote + 1 /\ phOut' = phOut + 1
  /\ UNCHANGED <<phEvent, phAt, phHost, phToWrite, phIn, phGot, phPlan,
                 phChild, phArgs, phLog, phOutcome>>

PhChildEnds ==
  /\ phChild = "alive"
  /\ phChild' \in {"ok", "failed"}
  /\ UNCHANGED <<phEvent, phAt, phHost, phProc, phArgs, phLog, phOutcome>>

-----------------------------------------------------------------------------
(* invoke.                                                                 *)

PhWrite ==
  /\ phHost = "write"
  /\ \/ /\ phToWrite > 0 /\ phChild = "alive" /\ phIn < PhPipe
        /\ phToWrite' = phToWrite - 1 /\ phIn' = phIn + 1
        /\ UNCHANGED phHost
     \/ /\ phToWrite = 0
        /\ phHost' = "collect"
        /\ UNCHANGED <<phToWrite, phIn>>
  /\ UNCHANGED <<phEvent, phAt, phOut, phGot, phPlan, phWrote, phChild, phArgs, phLog, phOutcome>>

(* read_limited takes one more than the limit, so that excess shows.       *)
PhReadsOn == phGot < PhLimit + 1

PhRead ==
  /\ phHost = "collect" /\ phOut > 0 /\ PhReadsOn
  /\ phOut' = phOut - 1 /\ phGot' = phGot + 1
  /\ UNCHANGED <<phEvent, phAt, phHost, phToWrite, phIn, phPlan, phWrote,
                 phChild, phArgs, phLog, phOutcome>>

(* A dropped or killed process does not survive; one that left has left.   *)
PhKilled == IF phChild = "alive" THEN "failed" ELSE phChild

(* The failure of an invocation: an error for the event, or nothing at all *)
(* when the run is over anyway.                                            *)
PhFails ==
  /\ phChild' = PhKilled
  /\ IF phEvent = "notify"
     THEN phHost' = "spawn" /\ phAt' = phAt + 1 /\ UNCHANGED phOutcome
     ELSE phHost' = "done" /\ phOutcome' = "error" /\ UNCHANGED phAt
  /\ UNCHANGED <<phArgs, phLog>>

(* The process left before it read its input: the write fails.             *)
PhBrokenPipe ==
  /\ phHost = "write" /\ phToWrite > 0 /\ phChild \in {"ok", "failed"}
  /\ PhFails
  /\ UNCHANGED <<phEvent, phProc>>

PhTimeout ==
  /\ phHost \in {"write", "collect"}
  /\ PhFails
  /\ UNCHANGED <<phEvent, phProc>>

(* What the bytes read mean: nothing, the whole object, or no JSON.        *)
PhParsed == IF phGot = 0 THEN "none" ELSE IF phGot = phPlan.len THEN phPlan.kind ELSE "bad"

PhAllowed ==
  CASE phEvent = "before_tool" -> {"none", "accept", "change", "deny"}
    [] phEvent = "after_tool" -> {"none", "accept", "change"}
    [] phEvent = "observe" -> {"none", "accept"}
    [] phEvent = "notify" -> {"none", "accept", "change", "deny"}

PhJoined == phChild \in {"ok", "failed"} /\ (phOut = 0 \/ ~PhReadsOn)

(* mutation: the exit status is not looked at. *)
PhSoundAnyStatus == phGot <= PhLimit /\ PhParsed \in PhAllowed
(* The process succeeded, said no more than it may, and said it in form.   *)
PhSound == phChild = "ok" /\ phGot <= PhLimit /\ PhParsed \in PhAllowed

PhRefuse ==
  /\ phHost = "collect" /\ PhJoined /\ ~PhSound
  /\ PhFails
  /\ UNCHANGED <<phEvent, phProc>>

PhAccept ==
  /\ phHost = "collect" /\ PhJoined /\ PhSound
  /\ phLog' = Append(phLog, [wrote |-> phWrote, plan |-> phPlan, status |-> phChild])
  /\ phArgs' = IF PhParsed = "change" /\ phEvent # "notify" THEN phAt ELSE phArgs
  /\ IF PhParsed = "deny" /\ phEvent = "before_tool"
     THEN phHost' = "done" /\ phOutcome' = "deny" /\ UNCHANGED phAt
     ELSE phHost' = "spawn" /\ phAt' = phAt + 1 /\ UNCHANGED phOutcome
  /\ UNCHANGED <<phEvent, phProc, phChild>>

(* The caller gives the event up; kill_on_drop takes the process with it.  *)
PhDrop ==
  /\ phHost # "done"
  /\ phHost' = "done" /\ phOutcome' = "dropped"
  /\ phChild' = PhKilled
  /\ UNCHANGED <<phEvent, phAt, phProc, phArgs, phLog>>

PhNext ==
  \/ PhLoopEnds \/ PhSpawn
  \/ PhChildReads \/ PhChildWrites \/ PhChildEnds
  \/ PhWrite \/ PhRead \/ PhBrokenPipe \/ PhTimeout \/ PhRefuse \/ PhAccept \/ PhDrop

PhSpec == PhInit /\ [][PhNext]_phVars

-----------------------------------------------------------------------------
(* A whole, well-formed answer of a process that succeeded, or no answer.  *)
PhSaid(entry, kinds) ==
  entry.wrote = 0 \/ (entry.wrote = entry.plan.len /\ entry.plan.kind \in kinds)

(***************************************************************************)
(* Hooks fail closed: a tool call goes ahead, and a result or a model call *)
(* passes, only when every hook ran to the end, succeeded and allowed it   *)
(* in an answer read as a whole; half an answer, an answer over the limit, *)
(* an early exit, a timeout or a denial never counts as consent.           *)
(***************************************************************************)
PhFailsClosed ==
  phOutcome = "go" /\ phEvent # "notify" =>
    /\ Len(phLog) = PhHooks
    /\ \A i \in 1 .. PhHooks :
         phLog[i].status = "ok"
         /\ PhSaid(phLog[i], IF phEvent = "observe" THEN {"accept"} ELSE {"accept", "change"})

(* The change that stands is the last one made in form.                    *)
PhLastChangeStands ==
  phOutcome = "go" /\ phEvent \in {"before_tool", "after_tool"} =>
    LET made == {i \in 1 .. PhHooks : phLog[i].wrote > 0 /\ phLog[i].plan.kind = "change"}
    IN IF made = {} THEN phArgs = 0
       ELSE phArgs \in made /\ \A i \in made : i <= phArgs

(* No hook process outlives the event, and at the end of a run every hook  *)
(* has its turn whatever the others did.                                   *)
PhNothingLeft ==
  phHost = "done" =>
    /\ phChild # "alive"
    /\ phEvent = "notify" /\ phOutcome = "go" => phAt = PhHooks + 1

(* What the hooks of a plugin promise together.                            *)
PhSafe == PhFailsClosed /\ PhLastChangeStands /\ PhNothingLeft
=============================================================================
