----------------------------- MODULE Approvals ------------------------------
(***************************************************************************)
(* Who admits a tool call of the interactive CLI, while the user changes   *)
(* the mode at any moment (crates/cli/src/mode.rs, approval.rs,            *)
(* auto_approval.rs, in the order runtime/interactive.rs registers them):  *)
(* the plan gate and the human prompt before a call may run, then the      *)
(* automatic reviewer around it; a background worker has the plan gate and *)
(* the reviewer only.  One call of the root and one of a worker are        *)
(* followed at a time.                                                     *)
(*                                                                         *)
(* Calls are shell commands or file writes, all of them gated; writes and  *)
(* the shell commands shell_policy knows to be safe need no reviewer.  The *)
(* plan area's own writes are left out.                                    *)
(***************************************************************************)
EXTENDS Naturals, FiniteSets

CONSTANTS
  ApWorkerCalls, \* what the worker calls
  ApMaxFlips,    \* bound of the model: changes of the mode
  ApMaxRequests, \* bound of the model: root requests
  ApMaxGrants    \* bound of the model: tools granted in the session

ApCall == {"root", "subagent"}
ApCalls == {"shell", "safe", "write"}      \* what a call does: "safe" is a known command
ApTool(what) == IF what = "write" THEN "write" ELSE "shell"    \* and its tool
ApTools == {"shell", "write"}
ApModes == {"normal", "plan", "orchestrate", "auto", "yolo"}
ApMayCall(c) == IF c = "root" THEN ApCalls ELSE ApWorkerCalls

ASSUME ApAssumption ==
  /\ ApWorkerCalls \subseteq ApCalls /\ ApWorkerCalls # {}
  /\ ApMaxFlips \in Nat /\ ApMaxRequests \in Nat \ {0} /\ ApMaxGrants \in Nat

VARIABLES
  apMode,      \* the ModeHandle
  apWhat,      \* what each call does
  apStep,      \* where it stands
  apBy,        \* who let it pass the prompt: "human", "grant" or nobody
  apRead,      \* the request its reviewer was shown
  apAlways,    \* session grants, by tool
  apSaved,     \* the workspace's saved grants
  apRequest,   \* AuthorityState::root_request
  apCautions,  \* AuthorityState::cautions: origin and action, with the request
  apFlips,     \* changes of the mode so far
  apModes,     \* history: the modes each call has met since its plan gate
  apKept       \* history: the tools granted for the session only

apVars == <<apMode, apWhat, apStep, apBy, apRead, apAlways, apSaved, apRequest,
            apCautions, apFlips, apModes, apKept>>

ApEnded == {"ran", "refused"}

ApInit ==
  /\ apMode \in ApModes
  /\ apWhat \in [ApCall -> ApCalls] /\ \A c \in ApCall : apWhat[c] \in ApMayCall(c)
  /\ apStep = [c \in ApCall |-> "new"] /\ apBy = [c \in ApCall |-> "nobody"]
  /\ apRead = [c \in ApCall |-> 0]
  /\ apAlways = {} /\ apKept = {}
  /\ apSaved \in {{}, {"shell"}}                      \* what an earlier session saved
  /\ apRequest = 1 /\ apCautions = {} /\ apFlips = 0
  /\ apModes = [c \in ApCall |-> {}]

ApGoes(c, step) == apStep' = [apStep EXCEPT ![c] = step]
ApAdmits(c, by) ==
  ApGoes(c, "cleared") /\ apBy' = [apBy EXCEPT ![c] = by] /\ UNCHANGED apModes
ApEnds(c, step) ==
  /\ ApGoes(c, step)
  /\ apBy' = [apBy EXCEPT ![c] = "nobody"]
  /\ apModes' = [apModes EXCEPT ![c] = {}]
ApWaits(c, step) == ApGoes(c, step) /\ UNCHANGED <<apBy, apModes>>

(* PlanGate::before_tool; a worker reads orchestrate as normal, and only   *)
(* the root has a prompt that lets plan mode admit the shell.              *)
ApStance(c) == IF c = "subagent" /\ apMode = "orchestrate" THEN "normal" ELSE apMode
ApPlanDenies(c) ==
  \/ ApStance(c) = "plan" /\ (apWhat[c] = "write" \/ c = "subagent")
  \/ ApStance(c) = "orchestrate" /\ apWhat[c] # "write"

ApPlanGate(c) ==
  /\ apStep[c] = "new"
  /\ IF ApPlanDenies(c) THEN ApEnds(c, "refused")
     ELSE /\ ApGoes(c, IF c = "root" THEN "gated" ELSE "cleared")
          /\ apModes' = [apModes EXCEPT ![c] = {apMode}]
          /\ UNCHANGED apBy
  /\ UNCHANGED <<apMode, apWhat, apRead, apAlways, apSaved, apRequest, apCautions, apFlips,
                 apKept>>

(* mutation: a standing grant also covers plan mode's shell. *)
ApEveryTimeNever(c) == FALSE
(* "Plan mode admits shell only because a human reads every command"       *)
ApEveryTime(c) == apMode = "plan" /\ ApTool(apWhat[c]) = "shell"

(* always_allowed: the session's grants, then the workspace's.             *)
ApAllowed(c) == ApTool(apWhat[c]) \in apAlways \cup apSaved

(* Approval::before_tool                                                   *)
ApApproval(c) ==
  /\ apStep[c] = "gated"
  /\ IF apMode \in {"auto", "yolo"} THEN ApAdmits(c, "nobody")
     ELSE IF ~ApEveryTime(c) /\ ApAllowed(c) THEN ApAdmits(c, "grant")
     ELSE ApWaits(c, IF ApEveryTime(c) THEN "confirming" ELSE "asking")
  /\ UNCHANGED <<apMode, apWhat, apRead, apAlways, apSaved, apRequest, apCautions, apFlips,
                 apKept>>

(* The user answers; "No standing grant can come out of a prompt that      *)
(* never honors one", though the mode may have changed since it opened.    *)
ApAnswers(c, answer) ==
  /\ apStep[c] = "asking" \/ (apStep[c] = "confirming" /\ answer \in {"once", "deny"})
  /\ IF answer = "deny" THEN ApEnds(c, "refused") ELSE ApAdmits(c, "human")
  /\ IF answer \in {"always", "save"}
     THEN /\ Cardinality(apAlways) < ApMaxGrants
          /\ apAlways' = apAlways \cup {ApTool(apWhat[c])}
     ELSE UNCHANGED apAlways
  /\ apSaved' = IF answer = "save" THEN apSaved \cup {ApTool(apWhat[c])} ELSE apSaved
  /\ apKept' = IF answer = "always" THEN apKept \cup {ApTool(apWhat[c])} ELSE apKept
  /\ UNCHANGED <<apMode, apWhat, apRead, apRequest, apCautions, apFlips>>

(* /settings revokes a saved grant; one saved in this session stays with   *)
(* it, although the picker says "these tools ask again".                  *)
ApRevoke(tool) ==
  /\ tool \in apSaved /\ apSaved' = apSaved \ {tool}
  /\ UNCHANGED <<apMode, apWhat, apStep, apBy, apRead, apAlways, apRequest, apCautions,
                 apFlips, apModes, apKept>>

(* AutoApproval::known_safe: guarded file tools and known commands         *)
ApKnownSafe(c) == apWhat[c] \in {"write", "safe"}

ApHeld(c) == \E k \in apCautions : k.origin = c /\ k.what = apWhat[c]

(* AutoApproval::around_tool up to the reviewer's answer.                  *)
ApAround(c) ==
  /\ apStep[c] = "cleared"
  /\ IF apMode # "auto" \/ ApKnownSafe(c) THEN ApEnds(c, "ran") /\ UNCHANGED apRead
     ELSE IF ApHeld(c) THEN ApEnds(c, "refused") /\ UNCHANGED apRead
     ELSE ApWaits(c, "reviewing") /\ apRead' = [apRead EXCEPT ![c] = apRequest]
  /\ UNCHANGED <<apMode, apWhat, apAlways, apSaved, apRequest, apCautions, apFlips, apKept>>

(* The reviewer clears, cautions, or fails; a caution is remembered.       *)
ApReviews(c, decision) ==
  /\ apStep[c] = "reviewing"
  /\ ApEnds(c, IF decision = "clear" THEN "ran" ELSE "refused")
  /\ apCautions' = IF decision # "caution" THEN apCautions
       ELSE apCautions \cup {[origin |-> c, what |-> apWhat[c], request |-> apRead[c]]}
  /\ apRead' = [apRead EXCEPT ![c] = 0]
  /\ UNCHANGED <<apMode, apWhat, apAlways, apSaved, apRequest, apFlips, apKept>>

(* capture_request                                                         *)
ApCautionsOfNew == {}

(* The model makes another call.                                           *)
ApFresh(c) ==
  /\ apStep[c] \in ApEnded
  /\ \E what \in ApMayCall(c) : apWhat' = [apWhat EXCEPT ![c] = what]
  /\ ApWaits(c, "new")

(* before_model sees the same request or, when the user or a background    *)
(* result spoke, a new one.                                                *)
ApModelStep(new) ==
  /\ IF new THEN /\ apRequest < ApMaxRequests
                 /\ apRequest' = apRequest + 1
                 /\ apCautions' = ApCautionsOfNew
     ELSE UNCHANGED <<apRequest, apCautions>>
  /\ ApFresh("root")
  /\ UNCHANGED <<apMode, apRead, apAlways, apSaved, apFlips, apKept>>

(* on_agent_end, followed by the run of the next request.                  *)
ApRunEnds ==
  /\ apRequest < ApMaxRequests /\ apRequest' = apRequest + 1
  /\ apCautions' = {}
  /\ ApFresh("root")
  /\ UNCHANGED <<apMode, apRead, apAlways, apSaved, apFlips, apKept>>

ApWorkerStep ==
  /\ ApFresh("subagent")
  /\ UNCHANGED <<apMode, apRead, apAlways, apSaved, apRequest, apCautions, apFlips, apKept>>

(* /mode: applies to the call happening right now.                         *)
ApSetMode(mode) ==
  /\ apFlips < ApMaxFlips /\ mode # apMode
  /\ apMode' = mode /\ apFlips' = apFlips + 1
  /\ apModes' = [c \in ApCall |->
       IF apStep[c] \in ApEnded \cup {"new"} THEN {} ELSE apModes[c] \cup {mode}]
  /\ UNCHANGED <<apWhat, apStep, apBy, apRead, apAlways, apSaved, apRequest, apCautions, apKept>>

ApNext ==
  \/ \E c \in ApCall :
       \/ ApPlanGate(c) \/ ApApproval(c) \/ ApAround(c)
       \/ \E answer \in {"once", "always", "save", "deny"} : ApAnswers(c, answer)
       \/ \E decision \in {"clear", "caution", "error"} : ApReviews(c, decision)
  \/ \E tool \in ApTools : ApRevoke(tool)
  \/ \E new \in BOOLEAN : ApModelStep(new)
  \/ ApRunEnds \/ ApWorkerStep
  \/ \E mode \in ApModes : ApSetMode(mode)

ApSpec == ApInit /\ [][ApNext]_apVars

-----------------------------------------------------------------------------
(* What each mode asks of a call that runs: of the root in plan mode a     *)
(* human's answer to this very call, and only for a shell command; in      *)
(* normal mode a human or a standing grant, in orchestrate mode the same   *)
(* and only for a file write; in auto mode the reviewer, unless the call   *)
(* is known to be safe; of a worker nothing, except in plan mode.          *)
ApAdmitted(c, mode) ==
  \/ mode = "plan" /\ apBy[c] = "human" /\ apWhat[c] # "write"
  \/ mode = "normal" /\ (c = "subagent" \/ apBy[c] \in {"human", "grant"})
  \/ mode = "orchestrate" /\ \/ c = "subagent"
                             \/ apBy[c] \in {"human", "grant"} /\ apWhat[c] = "write"
  \/ mode = "auto" /\ (ApKnownSafe(c) \/ apStep[c] = "reviewing")
  \/ mode = "yolo"

(* The two windows between the gates, each of which reads the mode anew:   *)
(* the prompt was spared because the mode was auto, and the reviewer       *)
(* because it no longer was; or orchestrate came when the plan gate was    *)
(* already passed, and the prompt or a grant let the shell through.        *)
ApLeftAuto(c) == "auto" \in apModes[c] /\ apMode # "auto" /\ apBy[c] = "nobody"
ApLateOrchestrate(c) ==
  /\ c = "root" /\ apBy[c] \in {"human", "grant"}
  /\ "orchestrate" \in apModes[c] /\ apModes[c] # {"orchestrate"}

ApBegins(c) == apStep[c] # "ran" /\ apStep'[c] = "ran"

(* However often the mode changes during a call, a call that runs was      *)
(* admitted as one of the modes it met demands, or went through one of     *)
(* those two windows.                                                      *)
ApAdmittedAsMode ==
  [][\A c \in ApCall : ApBegins(c) =>
       \/ \E mode \in apModes[c] : ApAdmitted(c, mode)
       \/ ApLeftAuto(c) \/ ApLateOrchestrate(c)]_apVars

(* The root's remembered cautions were decided against the request that is *)
(* being served: an action the user has since asked for is reviewed anew.  *)
ApCautionsCurrent ==
  \A k \in apCautions : k.origin = "root" => k.request = apRequest

(***************************************************************************)
(* A gated call is admitted as a mode in force during it demands, but for  *)
(* the two windows of ApAdmittedAsMode, and a caution raised by a reviewer *)
(* belongs to the request it was raised on.                                *)
(***************************************************************************)
ApSafe == []ApCautionsCurrent /\ ApAdmittedAsMode

(* What the comment on always_allowed says: "a revocation in /settings     *)
(* applies to the very next tool call", so that a tool passes the prompt   *)
(* only on a grant still saved or given for this session alone.  Answering *)
(* "always, and save" also enters the session's grants, which a revocation *)
(* leaves alone.                                                           *)
ApRevocationApplies ==
  [][\A c \in ApCall : apBy[c] # "grant" /\ apBy'[c] = "grant" =>
       ApTool(apWhat[c]) \in apSaved \cup apKept]_apVars
=============================================================================
