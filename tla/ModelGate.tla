----------------------------- MODULE ModelGate ------------------------------
(***************************************************************************)
(* Model requests that share a provider's quota (ModelGate and RetryModel  *)
(* of crates/extensions/src/retry.rs): first come first served admission   *)
(* under a limit the host may edit, a cooldown every failure publishes to  *)
(* all, and retries with backoff inside each request.                      *)
(*                                                                         *)
(* Time is what remains until an instant; MgTick lets it pass.             *)
(***************************************************************************)
EXTENDS Naturals, Sequences, FiniteSets, FiniteSetsExt, Queues

CONSTANTS
  MgRequest,    \* the requests of all wrappers that share the gate
  MgLimits,     \* the limits the host may set; 0 means unrestricted
  MgAttempts,   \* max_attempts
  MgDelays,     \* the delays a failure may ask for
  MgMaxEdits    \* bound of the model: edits of the limit

ASSUME MgAssumption ==
  /\ IsFiniteSet(MgRequest) /\ MgLimits \subseteq Nat
  /\ MgAttempts \in Nat \ {0} /\ MgDelays \subseteq Nat /\ MgMaxEdits \in Nat

VARIABLES
  mgStep,      \* where each request stands in RetryModel::run
  mgAttempt,   \* its attempt
  mgEmitted,   \* TrackedSink::emitted of the attempt
  mgWait,      \* how long it still sleeps
  mgFifo,      \* the waiters of the admission mutex, its holder first
  mgActive,    \* ModelGate::active
  mgLimit,     \* ModelGate::limit
  mgNews,      \* requests for which a watched value changed since they looked
  mgCool,      \* what remains of the cooldown
  mgEdits,     \* edits of the limit so far
  mgHeard,     \* history: attempts of each request whose deltas were heard
  mgAsked,     \* history: what remains of the longest delay a failure asked for
  mgEarly      \* history: an attempt started before it was over

mgVars == <<mgStep, mgAttempt, mgEmitted, mgWait, mgFifo, mgActive, mgLimit,
            mgNews, mgCool, mgEdits, mgHeard, mgAsked, mgEarly>>

MgInit ==
  /\ mgStep = [r \in MgRequest |-> "idle"]
  /\ mgAttempt = [r \in MgRequest |-> 1]
  /\ mgEmitted = [r \in MgRequest |-> FALSE]
  /\ mgWait = [r \in MgRequest |-> 0]
  /\ mgFifo = <<>> /\ mgActive = 0 /\ mgLimit \in MgLimits
  /\ mgNews = {} /\ mgCool = 0 /\ mgEdits = 0
  /\ mgHeard = [r \in MgRequest |-> 0] /\ mgAsked = 0 /\ mgEarly = FALSE

MgGoes(r, step) == mgStep' = [mgStep EXCEPT ![r] = step]
MgLeaves(r) == mgFifo' = Without(mgFifo, {r})

(* acquire: wait for the admission mutex, which tokio grants in order.     *)
MgQueue(r) ==
  /\ mgStep[r] = "idle"
  /\ MgGoes(r, "queued") /\ mgFifo' = Append(mgFifo, r)
  /\ UNCHANGED <<mgAttempt, mgEmitted, mgWait, mgActive, mgLimit, mgNews, mgCool,
                 mgEdits, mgHeard, mgAsked, mgEarly>>

MgAdmitted(r) ==
  /\ mgStep[r] = "queued" /\ Head(mgFifo) = r
  /\ MgGoes(r, "looking")
  /\ UNCHANGED <<mgAttempt, mgEmitted, mgWait, mgFifo, mgActive, mgLimit, mgNews,
                 mgCool, mgEdits, mgHeard, mgAsked, mgEarly>>

MgFits == mgLimit = 0 \/ mgActive < mgLimit

(* One turn of the loop, up to the decision.                               *)
MgLook(r) ==
  /\ mgStep[r] = "looking"
  /\ mgNews' = mgNews \ {r}
  /\ IF ~MgFits THEN MgGoes(r, "blocked") /\ UNCHANGED mgWait
     ELSE IF mgCool = 0 THEN MgGoes(r, "entering") /\ UNCHANGED mgWait
     ELSE MgGoes(r, "cooling") /\ mgWait' = [mgWait EXCEPT ![r] = mgCool]
  /\ UNCHANGED <<mgAttempt, mgEmitted, mgFifo, mgActive, mgLimit, mgCool, mgEdits,
                 mgHeard, mgAsked, mgEarly>>

(* active.changed, limit.changed, or the cooldown it saw is over.          *)
MgLooksAgain(r) ==
  /\ \/ mgStep[r] = "blocked" /\ r \in mgNews
     \/ mgStep[r] = "cooling" /\ mgWait[r] = 0
  /\ MgGoes(r, "looking")
  /\ UNCHANGED <<mgAttempt, mgEmitted, mgWait, mgFifo, mgActive, mgLimit, mgNews,
                 mgCool, mgEdits, mgHeard, mgAsked, mgEarly>>

(* The permit is counted, the mutex released, the attempt begins.          *)
MgEnter(r) ==
  /\ mgStep[r] = "entering"
  /\ MgGoes(r, "active") /\ MgLeaves(r)
  /\ mgActive' = mgActive + 1 /\ mgNews' = MgRequest
  /\ mgEmitted' = [mgEmitted EXCEPT ![r] = FALSE]
  /\ mgEarly' = (mgEarly \/ mgAsked > 0)
  /\ UNCHANGED <<mgAttempt, mgWait, mgLimit, mgCool, mgEdits, mgHeard, mgAsked>>

MgEmits(r) ==
  /\ mgStep[r] = "active" /\ ~mgEmitted[r]
  /\ mgEmitted' = [mgEmitted EXCEPT ![r] = TRUE]
  /\ mgHeard' = [mgHeard EXCEPT ![r] = @ + 1]
  /\ UNCHANGED <<mgStep, mgAttempt, mgWait, mgFifo, mgActive, mgLimit, mgNews,
                 mgCool, mgEdits, mgEarly, mgAsked>>

(* mutation: a released permit wakes nobody. *)
MgReleaseTellsNobody == mgNews
(* send_modify wakes whoever watches the count.                            *)
MgReleaseTells == MgRequest

(* ModelPermit::drop                                                       *)
MgRelease == mgActive' = mgActive - 1 /\ mgNews' = MgReleaseTells

(* The attempt succeeds, or fails for good: the permit is dropped on       *)
(* return and nothing is published.                                        *)
MgEnds(r) ==
  /\ mgStep[r] = "active"
  /\ MgGoes(r, "done") /\ MgRelease
  /\ UNCHANGED <<mgAttempt, mgEmitted, mgWait, mgFifo, mgLimit, mgCool, mgEdits,
                 mgHeard, mgAsked, mgEarly>>

(* mutation: the cooldown stays with the request that failed. *)
MgPublishesNothing(delay) == mgCool
(* ModelGate::defer never shortens the cooldown.                           *)
MgPublishes(delay) == Max({mgCool, delay})

(* A retryable failure: publish the cooldown while the permit is held.     *)
MgFails(r, delay) ==
  /\ mgStep[r] = "active"
  /\ MgGoes(r, "failed")
  /\ mgWait' = [mgWait EXCEPT ![r] = delay]
  /\ mgCool' = MgPublishes(delay)
  /\ mgAsked' = Max({mgAsked, delay})
  /\ UNCHANGED <<mgAttempt, mgEmitted, mgFifo, mgActive, mgLimit, mgNews, mgEdits,
                 mgHeard, mgEarly>>

(* What the caller has heard is never replayed.                            *)
MgGivesUp(r) == mgAttempt[r] >= MgAttempts \/ mgEmitted[r]

(* Then the permit is dropped, and the request returns or backs off.       *)
MgBacksOff(r) ==
  /\ mgStep[r] = "failed"
  /\ MgRelease
  /\ MgGoes(r, IF MgGivesUp(r) THEN "done" ELSE "backoff")
  /\ UNCHANGED <<mgAttempt, mgEmitted, mgWait, mgFifo, mgLimit, mgCool, mgEdits,
                 mgHeard, mgAsked, mgEarly>>

MgRetry(r) ==
  /\ mgStep[r] = "backoff" /\ mgWait[r] = 0
  /\ mgAttempt' = [mgAttempt EXCEPT ![r] = @ + 1]
  /\ MgGoes(r, "queued") /\ mgFifo' = Append(mgFifo, r)
  /\ UNCHANGED <<mgEmitted, mgWait, mgActive, mgLimit, mgNews, mgCool, mgEdits,
                 mgHeard, mgAsked, mgEarly>>

(* The future is dropped: its place in the queue or its permit is freed.   *)
MgCancel(r) ==
  /\ mgStep[r] \notin {"idle", "done"}
  /\ MgGoes(r, "done") /\ MgLeaves(r)
  /\ IF mgStep[r] \in {"active", "failed"} THEN MgRelease
     ELSE UNCHANGED <<mgActive, mgNews>>
  /\ mgWait' = [mgWait EXCEPT ![r] = 0]
  /\ UNCHANGED <<mgAttempt, mgEmitted, mgLimit, mgCool, mgEdits, mgHeard, mgAsked, mgEarly>>

MgEdit(limit) ==
  /\ mgEdits < MgMaxEdits /\ limit # mgLimit
  /\ mgLimit' = limit /\ mgEdits' = mgEdits + 1
  /\ mgNews' = MgRequest
  /\ UNCHANGED <<mgStep, mgAttempt, mgEmitted, mgWait, mgFifo, mgActive, mgCool,
                 mgHeard, mgAsked, mgEarly>>

(* A failed request's own delay runs from when it backs off.               *)
MgSleeps(r) == mgWait[r] > 0 /\ mgStep[r] \in {"cooling", "backoff"}
MgTick ==
  /\ mgCool > 0 \/ \E r \in MgRequest : MgSleeps(r)
  /\ mgCool' = IF mgCool > 0 THEN mgCool - 1 ELSE 0
  /\ mgAsked' = IF mgAsked > 0 THEN mgAsked - 1 ELSE 0
  /\ mgWait' = [r \in MgRequest |-> IF MgSleeps(r) THEN mgWait[r] - 1 ELSE mgWait[r]]
  /\ UNCHANGED <<mgStep, mgAttempt, mgEmitted, mgFifo, mgActive, mgLimit, mgNews,
                 mgEdits, mgHeard, mgEarly>>

(* What a request does when it is polled.                                  *)
MgGateStep(r) ==
  MgAdmitted(r) \/ MgLook(r) \/ MgLooksAgain(r) \/ MgEnter(r) \/ MgBacksOff(r) \/ MgRetry(r)

MgNext ==
  \/ \E r \in MgRequest :
       \/ MgQueue(r) \/ MgGateStep(r) \/ MgEmits(r) \/ MgEnds(r) \/ MgCancel(r)
       \/ \E delay \in MgDelays : MgFails(r, delay)
  \/ \E limit \in MgLimits : MgEdit(limit)
  \/ MgTick

(* Polled when woken, attempts end, and time passes.                       *)
MgFair ==
  /\ \A r \in MgRequest : WF_mgVars(MgGateStep(r)) /\ WF_mgVars(MgEnds(r))
  /\ WF_mgVars(MgTick)
MgSpec == MgInit /\ [][MgNext]_mgVars /\ MgFair

-----------------------------------------------------------------------------
(* The count is the number of requests that run, whoever was cancelled     *)
(* where, and while the host leaves the limit alone it is kept.            *)
MgWithinLimit ==
  /\ mgActive = Cardinality({r \in MgRequest : mgStep[r] \in {"active", "failed"}})
  /\ mgEdits = 0 /\ mgLimit # 0 => mgActive <= mgLimit

(* "Publish before releasing the permit": with one request at a time, none *)
(* starts inside the cooldown a failure before it asked for.               *)
MgCooldownHeard == mgLimit = 1 /\ mgEdits = 0 => ~mgEarly

(* A request whose deltas reached the caller is not sent again: the caller *)
(* hears one attempt at most.                                              *)
MgNoReplay == \A r \in MgRequest : mgHeard[r] <= 1

(* No request waits for ever: none is starved by later ones, and no wake-  *)
(* up is lost between looking at the count and waiting for its change.     *)
MgServed ==
  \A r \in MgRequest : mgStep[r] = "queued" ~> mgStep[r] \in {"active", "done"}

(***************************************************************************)
(* The gate of concurrent model requests: the count is exact, a cooldown   *)
(* is heard before a permit is free, and no streamed attempt is repeated.  *)
(***************************************************************************)
MgSafe == MgWithinLimit /\ MgCooldownHeard /\ MgNoReplay
=============================================================================
