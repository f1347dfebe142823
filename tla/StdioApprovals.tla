--------------------------- MODULE StdioApprovals ---------------------------
(***************************************************************************)
(* Approvals of a headless run over stdio (cli/src/stdio_approval.rs).     *)
(* Gated calls, several at a time, each register a request, print it and   *)
(* wait; one reader thread routes the caller's lines to them by id until   *)
(* the caller's end closes, and then denies whatever is open or comes      *)
(* later.  A call dropped by a cancellation leaves its request open.       *)
(***************************************************************************)
EXTENDS Integers, FiniteSets

CONSTANTS SpCall,       \* Calls; a call's request has the call's id.
          SpTool,       \* SpTool[c]: the tool of call c.
          SpMaxLines    \* Bound: lines the caller writes.

ASSUME SpAssumption == SpMaxLines \in Nat

VARIABLES spAdmit,      \* admit_gated: --auto-approve or yolo.
          spReadOnly,   \* read_only.
          spStep,       \* spStep[c]: where call c is.
          spOpen,       \* Pending.open.
          spClosed,     \* Pending.closed.
          spAlways,     \* The tools granted for the rest of the run.
          spAnswer,     \* spAnswer[c]: the decision in c's channel, or "none".
          spLines

spVars == <<spAdmit, spReadOnly, spStep, spOpen, spClosed, spAlways, spAnswer, spLines>>

SpDecisions == {"allow", "deny", "always"}

SpInit ==
  /\ spAdmit \in BOOLEAN /\ spReadOnly \in BOOLEAN
  /\ spStep = [c \in SpCall |-> "new"]
  /\ spOpen = {} /\ spClosed = FALSE /\ spAlways = {}
  /\ spAnswer = [c \in SpCall |-> "none"]
  /\ spLines = 0

\* needs_answer, for the gated tools: a read-only run's shell always asks.
SpNeedsAnswer(c) ==
  \/ spReadOnly /\ SpTool[c] = "shell"
  \/ ~spAdmit /\ SpTool[c] \notin spAlways

SpCheck(c) ==
  /\ spStep[c] = "new"
  /\ spStep' = [spStep EXCEPT ![c] = IF SpNeedsAnswer(c) THEN "register" ELSE "ran"]
  /\ UNCHANGED <<spAdmit, spReadOnly, spOpen, spClosed, spAlways, spAnswer, spLines>>

\* Under one lock: nobody is left to answer, or the request is open.
SpNeverClosed == FALSE                                       \* Mutant: not looked at.
SpNobodyThere == spClosed
SpRegister(c) ==
  /\ spStep[c] = "register"
  /\ \/ /\ SpNobodyThere /\ spStep' = [spStep EXCEPT ![c] = "denied"] /\ UNCHANGED spOpen
     \/ /\ ~SpNobodyThere /\ spStep' = [spStep EXCEPT ![c] = "print"]
        /\ spOpen' = spOpen \union {c}
  /\ UNCHANGED <<spAdmit, spReadOnly, spClosed, spAlways, spAnswer, spLines>>

SpPrint(c) ==
  /\ spStep[c] = "print"
  /\ spStep' = [spStep EXCEPT ![c] = "wait"]
  /\ UNCHANGED <<spAdmit, spReadOnly, spOpen, spClosed, spAlways, spAnswer, spLines>>

\* read_decisions: a line for an open request answers it; one for an unknown or
\* already answered id, or a malformed one, is ignored.  A caller may well guess
\* an id before it is printed.
SpLine(c, d) ==
  /\ ~spClosed /\ spLines < SpMaxLines
  /\ spLines' = spLines + 1
  /\ spOpen' = spOpen \ {c}
  /\ spAnswer' = IF c \in spOpen THEN [spAnswer EXCEPT ![c] = d] ELSE spAnswer
  /\ UNCHANGED <<spAdmit, spReadOnly, spStep, spClosed, spAlways>>

\* The caller's end closes, or cannot be read.
SpEof ==
  /\ ~spClosed
  /\ spClosed' = TRUE
  /\ spAnswer' = [c \in SpCall |-> IF c \in spOpen THEN "deny" ELSE spAnswer[c]]
  /\ spOpen' = {}
  /\ UNCHANGED <<spAdmit, spReadOnly, spStep, spAlways, spLines>>

SpResume(c) ==
  /\ spStep[c] = "wait" /\ spAnswer[c] # "none"
  /\ spStep' = [spStep EXCEPT ![c] = IF spAnswer[c] = "deny" THEN "denied" ELSE "ran"]
  /\ spAlways' = IF spAnswer[c] = "always" /\ ~(spReadOnly /\ SpTool[c] = "shell")
                 THEN spAlways \union {SpTool[c]} ELSE spAlways
  /\ UNCHANGED <<spAdmit, spReadOnly, spOpen, spClosed, spAnswer, spLines>>

\* The run is cancelled while the call waits.
SpDrop(c) ==
  /\ spStep[c] = "wait"
  /\ spStep' = [spStep EXCEPT ![c] = "dropped"]
  /\ UNCHANGED <<spAdmit, spReadOnly, spOpen, spClosed, spAlways, spAnswer, spLines>>

SpNext ==
  \/ SpEof
  \/ \E c \in SpCall : \/ SpCheck(c) \/ SpRegister(c) \/ SpPrint(c) \/ SpResume(c) \/ SpDrop(c)
                       \/ \E d \in SpDecisions : SpLine(c, d)
SpSpec == SpInit /\ [][SpNext]_spVars

----------------------------------------------------------------------------
\* Once the caller's end is closed nobody waits for it: every call that waits,
\* or is about to, has its answer, whenever the end closed between the check,
\* the registration and the wait (before_tool, read_decisions).
SpNobodyStranded ==
  spClosed => \A c \in SpCall : spStep[c] \in {"print", "wait"} => spAnswer[c] # "none"

\* A gated call runs only on the caller's word: for this very call, or a grant
\* for its tool given on another; the shell of a read-only run only on a word
\* about that call (before_tool).
SpRanOnTheCallersWord ==
  \A c \in SpCall : spStep[c] = "ran" =>
    \/ spAnswer[c] \in {"allow", "always"}
    \/ /\ ~(spReadOnly /\ SpTool[c] = "shell")
       /\ \/ spAdmit
          \/ \E o \in SpCall \ {c} : SpTool[o] = SpTool[c] /\ spStep[o] = "ran" /\ spAnswer[o] = "always"

(***************************************************************************)
(* Nobody waits for a caller that is gone, and nothing gated runs without  *)
(* the caller's word.                                                      *)
(***************************************************************************)
SpSafe == SpNobodyStranded /\ SpRanOnTheCallersWord
=============================================================================
