--------------------------- MODULE ManagerProofs ----------------------------
(***************************************************************************)
(* Proofs about the manager of detached subagents and the completion       *)
(* inbox, for any number of workers and sidekicks, any capacity and any    *)
(* limits.                                                                 *)
(***************************************************************************)
EXTENDS MCInbox, CommonLemmas

(* The fields of a state from which jobs were removed ...                  *)
LEMMA UnregisterFields ==
  ASSUME NEW u \in ManagerState, NEW S
  PROVE  /\ Unregister(u, S) \in ManagerState
         /\ Unregister(u, S).gen = u.gen /\ Unregister(u, S).running = u.running
         /\ Unregister(u, S).unack = u.unack /\ Unregister(u, S).suppressed = u.suppressed
         /\ Unregister(u, S).closed = u.closed
         /\ \A s \in Spawn : Unregister(u, S).job[s] = IF s \in S THEN "None" ELSE u.job[s]
         /\ Unregister(u, S).active = u.active \ S
         /\ Unregister(u, S).queue = Without(u.queue, S)
<1> DEFINE jb == [s \in Spawn |-> IF s \in S THEN "None" ELSE u.job[s]]
           ac == u.active \ S
           qu == Without(u.queue, S)
<1>1. qu \in Seq(Spawn)
  BY WithoutKeeps DEF ManagerState
<1>2. jb \in [Spawn -> Status] /\ ac \in SUBSET Sidekick
  BY DEF ManagerState, Status
<1>3. Unregister(u, S) = [u EXCEPT !.job = jb, !.active = ac, !.queue = qu]
  BY DEF Unregister
<1>4. \A s \in Spawn : jb[s] = IF s \in S THEN "None" ELSE u.job[s]
  OBVIOUS
<1> HIDE DEF jb, ac, qu
<1>5. Unregister(u, S) \in ManagerState
  BY <1>1, <1>2, <1>3 DEF ManagerState
<1>6. /\ Unregister(u, S).gen = u.gen /\ Unregister(u, S).running = u.running
      /\ Unregister(u, S).unack = u.unack /\ Unregister(u, S).suppressed = u.suppressed
      /\ Unregister(u, S).closed = u.closed
      /\ Unregister(u, S).job = jb /\ Unregister(u, S).active = ac
      /\ Unregister(u, S).queue = qu
  BY <1>3 DEF ManagerState
<1>7. QED
  BY <1>4, <1>5, <1>6 DEF ac, qu

(* ... with their reservations.                                            *)
LEMMA UnreserveFields ==
  ASSUME NEW u \in ManagerState, NEW S
  PROVE  /\ Unreserve(u, S) \in ManagerState
         /\ Unreserve(u, S).gen = u.gen /\ Unreserve(u, S).running = u.running
         /\ Unreserve(u, S).job = u.job /\ Unreserve(u, S).suppressed = u.suppressed
         /\ Unreserve(u, S).closed = u.closed /\ Unreserve(u, S).active = u.active
         /\ Unreserve(u, S).queue = u.queue
<1> DEFINE un == [s \in Spawn |-> IF s \in S THEN 0 ELSE u.unack[s]]
<1>1. un \in [Spawn -> Nat]
  BY DEF ManagerState
<1>2. Unreserve(u, S) = [u EXCEPT !.unack = un]
  BY DEF Unreserve
<1> HIDE DEF un
<1>3. QED
  BY <1>1, <1>2 DEF ManagerState

Removed(u, S) == Unreserve(Unregister(u, S), S)

LEMMA RemovedFields ==
  ASSUME NEW u \in ManagerState, NEW S
  PROVE  /\ Removed(u, S) \in ManagerState
         /\ Removed(u, S).gen = u.gen /\ Removed(u, S).running = u.running
         /\ Removed(u, S).suppressed = u.suppressed /\ Removed(u, S).closed = u.closed
         /\ \A s \in Spawn : Removed(u, S).job[s] = IF s \in S THEN "None" ELSE u.job[s]
         /\ Removed(u, S).active = u.active \ S
         /\ Removed(u, S).queue = Without(u.queue, S)
  BY UnregisterFields, UnreserveFields DEF Removed

LEMMA ReleaseFields ==
  ASSUME st \in ManagerState, Release
  PROVE  /\ st' \in ManagerState
         /\ st'.running = IF st.running = 0 THEN 0 ELSE st.running - 1
         /\ st'.gen = st.gen /\ st'.job = st.job /\ st'.active = st.active
         /\ st'.queue = st.queue /\ st'.closed = st.closed
<1> DEFINE r == IF st.running = 0 THEN 0 ELSE st.running - 1
<1>1. r \in Nat
  BY DEF ManagerState
<1>2. st' = [st EXCEPT !.running = r]
  BY DEF Release
<1> HIDE DEF r
<1>3. /\ st' \in ManagerState /\ st'.running = r
      /\ st'.gen = st.gen /\ st'.job = st.job /\ st'.active = st.active
      /\ st'.queue = st.queue /\ st'.closed = st.closed
  BY <1>1, <1>2 DEF ManagerState
<1>4. QED
  BY <1>3 DEF r

(* In v the jobs of S are gone; v is otherwise u, but for the generation.  *)
Gone(u, v, S) ==
  /\ v \in ManagerState
  /\ v.running = u.running /\ v.closed = u.closed
  /\ \A s \in Spawn : v.job[s] = IF s \in S THEN "None" ELSE u.job[s]
  /\ v.active = u.active \ S
  /\ v.queue = Without(u.queue, S)

AfterRemoval(u, S, g, sup) == [Removed(u, S) EXCEPT !.gen = g, !.suppressed = sup]

LEMMA RemoveSome ==
  ASSUME NEW u \in ManagerState, NEW S, NEW sup \in SUBSET Spawn, NEW g \in Nat
  PROVE  Gone(u, AfterRemoval(u, S, g, sup), S) /\ AfterRemoval(u, S, g, sup).gen = g
<1> DEFINE v == AfterRemoval(u, S, g, sup)
<1>1. Removed(u, S) \in ManagerState
  BY RemovedFields
<1>2. /\ v \in ManagerState /\ v.gen = g
      /\ v.running = Removed(u, S).running /\ v.closed = Removed(u, S).closed
      /\ v.job = Removed(u, S).job /\ v.active = Removed(u, S).active
      /\ v.queue = Removed(u, S).queue
  BY <1>1 DEF ManagerState, AfterRemoval
<1>3. QED
  BY <1>2, RemovedFields DEF Gone

LEMMA StopFields ==
  ASSUME st \in ManagerState, NEW S \in SUBSET Sidekick, StopThem(S)
  PROVE  Gone(st, st', S) /\ st'.gen = st.gen
<1>1. Removed(st, S) \in ManagerState /\ st.suppressed \cup S \in SUBSET Spawn /\ st.gen \in Nat
  BY RemovedFields DEF ManagerState, Spawn
<1>2. Removed(st, S).gen = st.gen /\ Removed(st, S).suppressed = st.suppressed
  BY RemovedFields
<1>3. st' = AfterRemoval(st, S, st.gen, st.suppressed \cup S)
  <2>1. st' = [Removed(st, S) EXCEPT !.suppressed = st.suppressed \cup S]
    BY <1>1, <1>2 DEF StopThem, Removed
  <2> DEFINE w == Removed(st, S)
  <2> HIDE DEF w
  <2>2. w \in ManagerState /\ w.gen = st.gen /\ st' = [w EXCEPT !.suppressed = st.suppressed \cup S]
    BY <1>1, <1>2, <2>1 DEF w
  <2>3. st' = [w EXCEPT !.gen = st.gen, !.suppressed = st.suppressed \cup S]
    BY <2>2 DEF ManagerState
  <2>4. QED
    BY <2>3 DEF w, AfterRemoval
<1>4. QED
  BY <1>1, <1>3, RemoveSome

LEMMA CancelAllFields ==
  ASSUME st \in ManagerState, CancelAll
  PROVE  Gone(st, st', Registered \ Sidekick) /\ st'.gen = st.gen + 1
<1> DEFINE ids == Registered \ Sidekick
<1>1. /\ Removed(st, ids) \in ManagerState /\ st.suppressed \cup ids \in SUBSET Spawn
      /\ st.gen + 1 \in Nat
  BY RemovedFields DEF ManagerState, Registered
<1>2. st' = AfterRemoval(st, ids, st.gen + 1, st.suppressed \cup ids)
  BY <1>1, RemovedFields DEF CancelAll, Removed, AfterRemoval
<1> HIDE DEF ids
<1>3. Gone(st, st', ids) /\ st'.gen = st.gen + 1
  BY <1>1, <1>2, RemoveSome
<1>4. QED
  BY <1>3 DEF ids

LEMMA ResetFields ==
  ASSUME st \in ManagerState, ResetEffect
  PROVE  Gone(st, st', Spawn) /\ st'.gen = st.gen + 1
<1>1. Removed(st, Spawn) \in ManagerState /\ {} \in SUBSET Spawn /\ st.gen + 1 \in Nat
  BY RemovedFields DEF ManagerState
<1>2. st' = AfterRemoval(st, Spawn, st.gen + 1, {})
  BY <1>1, RemovedFields DEF ResetEffect, ResetState, Removed, AfterRemoval
<1>3. QED
  BY <1>1, <1>2, RemoveSome

(* What the two ways to enter the queue do.                                *)
Enqueues(s) ==
  /\ st' \in ManagerState
  /\ st'.gen = st.gen /\ st'.running = st.running /\ st'.closed = st.closed
  /\ st'.job = [st.job EXCEPT ![s] = "Queued"]
  /\ st'.active = st.active \cup ({s} \cap Sidekick)
  /\ st'.queue = Append(st.queue, s)

LEMMA EnqueueFields ==
  ASSUME st \in ManagerState, NEW s \in Spawn, NEW a, a = {s} \cap Sidekick,
         st' = [st EXCEPT !.unack[s] = @ + 1, !.job[s] = "Queued",
                          !.active = @ \cup a, !.queue = Append(@, s)]
  PROVE  Enqueues(s)
<1> DEFINE un == [st.unack EXCEPT ![s] = @ + 1]
           jb == [st.job EXCEPT ![s] = "Queued"]
           ac == st.active \cup a
           qu == Append(st.queue, s)
<1>1. /\ ac \in SUBSET Sidekick /\ qu \in Seq(Spawn)
      /\ un \in [Spawn -> Nat] /\ jb \in [Spawn -> Status]
  BY DEF ManagerState, Status
<1>2. st' = [st EXCEPT !.unack = un, !.job = jb, !.active = ac, !.queue = qu]
  OBVIOUS
<1> HIDE DEF un, jb, ac, qu
<1>3. /\ st' \in ManagerState
      /\ st'.gen = st.gen /\ st'.running = st.running /\ st'.closed = st.closed
      /\ st'.job = jb /\ st'.active = ac /\ st'.queue = qu
  BY <1>1, <1>2 DEF ManagerState
<1>4. QED
  BY <1>3 DEF Enqueues, jb, ac, qu

(* What the end of a sidekick's turn does to a registered one.             *)
LeavesTurn(k) ==
  /\ st' \in ManagerState
  /\ st'.gen = st.gen /\ st'.running = st.running /\ st'.closed = st.closed
  /\ st'.job = [st.job EXCEPT ![k] = "Queued"]
  /\ st'.active = st.active \ {k}
  /\ st'.queue = Without(st.queue, {k})

LEMMA LeaveTurnFields ==
  ASSUME st \in ManagerState, NEW k \in Sidekick,
         st' = IF k \in Registered
               THEN [st EXCEPT !.job[k] = "Queued", !.active = @ \ {k}, !.queue = Without(@, {k})]
               ELSE st
  PROVE  /\ k \in Registered => LeavesTurn(k)
         /\ k \notin Registered => st' = st
         /\ st' \in ManagerState
<1> DEFINE jb == [st.job EXCEPT ![k] = "Queued"]
           ac == st.active \ {k}
           qu == Without(st.queue, {k})
<1>1. /\ ac \in SUBSET Sidekick /\ qu \in Seq(Spawn) /\ jb \in [Spawn -> Status]
  <2>1. qu \in Seq(Spawn)
    BY WithoutKeeps DEF ManagerState
  <2>2. ac \in SUBSET Sidekick /\ jb \in [Spawn -> Status]
    BY DEF ManagerState, Status
  <2>3. QED
    BY <2>1, <2>2
<1>2. CASE k \in Registered
  <2>1. st' = [st EXCEPT !.job = jb, !.active = ac, !.queue = qu]
    BY <1>2
  <2> HIDE DEF jb, ac, qu
  <2>2. /\ st' \in ManagerState
        /\ st'.gen = st.gen /\ st'.running = st.running /\ st'.closed = st.closed
        /\ st'.job = jb /\ st'.active = ac /\ st'.queue = qu
    BY <1>1, <2>1 DEF ManagerState
  <2>3. QED
    BY <1>2, <2>2 DEF LeavesTurn, jb, ac, qu
<1>3. CASE k \notin Registered
  BY <1>3
<1>4. QED
  BY <1>2, <1>3

-----------------------------------------------------------------------------
(* Types                                                                   *)

LimitNat == limit \in Nat /\ LimitValues \subseteq Nat

LEMMA LimitIsNat == TypeOK => LimitNat
  BY LimitsAssumption DEF TypeOK, LimitNat

LEMMA WakeType == TypeOK /\ Wake => woken' \in SUBSET (Spawn \cup {Host})
  BY DEF TypeOK, Wake, Subscribed

LEMMA HeadTail ==
  ASSUME NEW q \in Seq(Spawn), q # <<>>
  PROVE  Head(q) \in Spawn /\ Tail(q) \in Seq(Spawn)
  OBVIOUS

(* A worker starts.                                                        *)
LEMMA StartType ==
  ASSUME TypeOK, NEW s \in Spawn, NEW c, CanStart(s, c), Start(s, c)
  PROVE  st' \in ManagerState /\ slots' \in SUBSET Spawn /\ woken' \in SUBSET (Spawn \cup {Host})
<1>1. st.queue \in Seq(Spawn) /\ st.queue # <<>> /\ st \in ManagerState
  BY DEF TypeOK, ManagerState, CanStart
<1>2. Tail(st.queue) \in Seq(Spawn)
  BY <1>1, HeadTail
<1> DEFINE jb == [st.job EXCEPT ![s] = "Running"]
           qu == Tail(st.queue)
<1>3. st' = [st EXCEPT !.queue = qu, !.running = st.running + 1, !.job = jb]
  BY DEF Start
<1>3a. jb \in [Spawn -> Status] /\ qu \in Seq(Spawn) /\ st.running + 1 \in Nat
  BY <1>1, <1>2 DEF ManagerState, Status
<1>4. st' \in ManagerState
  <2> HIDE DEF jb, qu
  <2>1. QED
    BY <1>1, <1>3, <1>3a DEF ManagerState
<1>5. woken' \in SUBSET (Spawn \cup {Host})
  BY WakeType DEF Start, TypeOK
<1>6. QED
  BY <1>4, <1>5 DEF Start, TypeOK

LEMMA TryStartType ==
  ASSUME TypeOK, NEW s \in Spawn, NEW c, NEW won \in PC, NEW lost \in PC,
         TryStart(s, c, won, lost)
  PROVE  /\ st' \in ManagerState /\ slots' \in SUBSET Spawn
         /\ woken' \in SUBSET (Spawn \cup {Host}) /\ pc' \in [Spawn -> PC]
<1>1. CASE CanStart(s, c) /\ Start(s, c) /\ pc' = [pc EXCEPT ![s] = won]
  BY <1>1, StartType DEF TypeOK
<1>2. CASE ~CanStart(s, c) /\ UNCHANGED <<st, slots, woken>> /\ pc' = [pc EXCEPT ![s] = lost]
  BY <1>2 DEF TypeOK
<1>3. QED
  BY <1>1, <1>2 DEF TryStart

(* The workers' steps keep the types.                                      *)
LEMMA WorkerType ==
  ASSUME TypeOK, NEW s \in Spawn, WorkerStep(s) \/ CancelJob(s)
  PROVE  TypeOK'
<1> USE DEF skVars, outVars
<1>0. LimitNat
  BY LimitIsNat
<1>1. CASE Admit(s)
  <2>1. Append(st.queue, s) \in Seq(Spawn)
    BY DEF TypeOK, ManagerState
  <2>2. st' \in ManagerState
    <3> DEFINE un == [st.unack EXCEPT ![s] = @ + 1]
               jb == [st.job EXCEPT ![s] = "Queued"]
               ac == st.active \cup ({s} \cap Sidekick)
               qu == Append(st.queue, s)
    <3>1. /\ st \in ManagerState /\ ac \in SUBSET Sidekick /\ qu \in Seq(Spawn)
          /\ un \in [Spawn -> Nat] /\ jb \in [Spawn -> Status]
      BY <2>1 DEF TypeOK, ManagerState, Status
    <3>2. st' = [st EXCEPT !.unack = un, !.job = jb, !.active = ac, !.queue = qu]
      BY <1>1 DEF Admit
    <3> HIDE DEF un, jb, ac, qu
    <3>3. QED
      BY <3>1, <3>2 DEF ManagerState
  <2>3. own' \in [Spawn -> [gen : Nat, cap : Nat, epoch : Nat]]
    BY <1>0, <1>1 DEF Admit, TypeOK, ManagerState, LimitNat
  <2>4. pc' \in [Spawn -> PC]
    BY <1>1 DEF Admit, TypeOK, PC
  <2>5. QED
    BY <1>1, <2>2, <2>3, <2>4 DEF Admit, TypeOK
<1>2. CASE Refuse(s)
  BY <1>2 DEF Refuse, TypeOK, PC
<1>3. CASE FirstTry(s)
  <2>1. TryStart(s, own[s].cap, "admitted", "admitted") /\ "admitted" \in PC
    BY <1>3 DEF FirstTry, PC
  <2>2. /\ st' \in ManagerState /\ slots' \in SUBSET Spawn
        /\ woken' \in SUBSET (Spawn \cup {Host}) /\ pc' \in [Spawn -> PC]
    BY <2>1, TryStartType
  <2>3. QED
    BY <1>3, <2>2 DEF FirstTry, TypeOK
<1>4. CASE Detach(s)
  BY <1>4 DEF Detach, TypeOK, PC, Acquiring
<1>5. CASE DropAdmission(s)
  <2>1. st' \in ManagerState
    BY <1>5, RemovedFields DEF DropAdmission, TypeOK, Removed
  <2>2. woken' \in SUBSET (Spawn \cup {Host})
    BY <1>5, WakeType DEF DropAdmission
  <2>3. pc' \in [Spawn -> PC]
    BY <1>5 DEF DropAdmission, TypeOK, PC
  <2>4. QED
    BY <1>5, <2>1, <2>2, <2>3 DEF DropAdmission, TypeOK
<1>6. CASE Mark(s)
  <2>1. own' \in [Spawn -> [gen : Nat, cap : Nat, epoch : Nat]]
    BY <1>0, <1>6 DEF Mark, TypeOK, LimitNat
  <2>2. pc' \in [Spawn -> PC]
    BY <1>6 DEF Mark, TypeOK, PC, Acquiring
  <2>3. QED
    BY <1>6, <2>1, <2>2 DEF Mark, TypeOK
<1>7. CASE Check(s)
  <2>1. TryStart(s, own[s].cap, "running", "wait") /\ "running" \in PC /\ "wait" \in PC
    BY <1>7 DEF Check, PC, Acquiring
  <2>2. /\ st' \in ManagerState /\ slots' \in SUBSET Spawn
        /\ woken' \in SUBSET (Spawn \cup {Host}) /\ pc' \in [Spawn -> PC]
    BY <2>1, TryStartType
  <2>3. QED
    BY <1>7, <2>2 DEF Check, TypeOK
<1>8. CASE Rouse(s)
  BY <1>8 DEF Rouse, TypeOK, PC, Acquiring
<1>9. CASE GiveUp(s)
  <2>1. Without(st.queue, {s}) \in Seq(Spawn)
    BY WithoutKeeps DEF TypeOK, ManagerState
  <2>2. st' \in ManagerState
    <3> DEFINE qu == Without(st.queue, {s})
    <3>1. st \in ManagerState /\ st' = [st EXCEPT !.queue = qu]
      BY <1>9 DEF GiveUp, TypeOK
    <3> HIDE DEF qu
    <3>2. QED
      BY <3>1, <2>1 DEF ManagerState, qu
  <2>3. woken' \in SUBSET (Spawn \cup {Host})
    BY <1>9, WakeType DEF GiveUp, TypeOK
  <2>4. pc' \in [Spawn -> PC]
    BY <1>9 DEF GiveUp, TypeOK, PC
  <2>5. QED
    BY <1>9, <2>2, <2>3, <2>4 DEF GiveUp, TypeOK
<1>10. CASE EndRun(s)
  <2>1. st' \in ManagerState
    BY <1>10, ReleaseFields DEF EndRun, TypeOK
  <2>2. woken' \in SUBSET (Spawn \cup {Host})
    BY <1>10, WakeType DEF EndRun
  <2>3. pc' \in [Spawn -> PC]
    BY <1>10 DEF EndRun, TypeOK, PC
  <2>4. QED
    BY <1>10, <2>1, <2>2, <2>3 DEF EndRun, TypeOK
<1>11. CASE Finish(s)
  <2>1. st' \in ManagerState
    BY <1>11, UnregisterFields DEF Finish, TypeOK
  <2>2. woken' \in SUBSET (Spawn \cup {Host})
    BY <1>11, WakeType DEF Finish
  <2>3. pc' \in [Spawn -> PC]
    BY <1>11 DEF Finish, TypeOK, PC
  <2>4. sent' \in SUBSET Notification
    BY <1>11 DEF Finish, TypeOK, Notification
  <2>5. QED
    BY <1>11, <2>1, <2>2, <2>3, <2>4 DEF Finish, TypeOK
<1>12. CASE CancelJob(s)
  BY <1>12 DEF CancelJob, TypeOK
<1>13. QED
  BY <1>1, <1>2, <1>3, <1>4, <1>5, <1>6, <1>7, <1>8, <1>9, <1>10, <1>11, <1>12
     DEF WorkerStep, Admission, Waiting, Ending

(* The sidekicks' steps keep the types.                                    *)
LEMMA SidekickType ==
  ASSUME TypeOK, NEW k \in Sidekick, SidekickStep(k)
  PROVE  TypeOK'
<1> USE DEF skVars, outVars, workVars
<1>0. k \in Spawn /\ LimitNat /\ st \in ManagerState
  BY LimitIsNat DEF Spawn, TypeOK
<1>1. CASE RegisterSidekick(k)
  BY <1>0, <1>1 DEF RegisterSidekick, TypeOK, PC, Life
<1>2. CASE BeginFirstTurn(k)
  BY <1>0, <1>2 DEF BeginFirstTurn, TypeOK, PC, Life, Acquiring
<1>3. CASE FirstTurnPanics(k)
  <2>1. st' \in ManagerState
    BY <1>0, <1>3, ReleaseFields DEF FirstTurnPanics
  <2>2. woken' \in SUBSET (Spawn \cup {Host}) /\ slots' \in SUBSET Spawn
    BY <1>3, WakeType DEF FirstTurnPanics, TypeOK
  <2>3. pc' \in [Spawn -> PC]
    BY <1>3 DEF FirstTurnPanics, TypeOK, PC
  <2>4. sk' \in [Sidekick -> [life : Life, live : BOOLEAN, stop : BOOLEAN, turn : Nat]]
    BY <1>3 DEF FirstTurnPanics, TypeOK, Life
  <2>5. QED
    BY <1>3, <2>1, <2>2, <2>3, <2>4 DEF FirstTurnPanics, TypeOK
<1>4. CASE QueueTry(k)
  <2>1. CASE CanStart(k, limit) /\ Start(k, limit) /\ pc' = [pc EXCEPT ![k] = "running"]
    <3>1. st' \in ManagerState /\ slots' \in SUBSET Spawn /\ woken' \in SUBSET (Spawn \cup {Host})
      BY <1>0, <2>1, StartType
    <3>2. QED
      BY <1>4, <2>1, <3>1 DEF QueueTry, TypeOK, PC
  <2>2. CASE Wake /\ pc' = [pc EXCEPT ![k] = "mark"] /\ UNCHANGED <<st, slots>>
    <3>1. woken' \in SUBSET (Spawn \cup {Host})
      BY <2>2, WakeType
    <3>2. QED
      BY <1>4, <2>2, <3>1 DEF QueueTry, TypeOK, PC, Acquiring
  <2>3. QED
    BY <1>4, <2>1, <2>2 DEF QueueTry
<1>5. CASE QueueTurn(k)
  <2>1. st' \in ManagerState
    <3>1. {k} = {k} \cap Sidekick
      OBVIOUS
    <3>2. Enqueues(k)
      BY <1>0, <1>5, <3>1, EnqueueFields DEF QueueTurn
    <3>3. QED
      BY <3>2 DEF Enqueues
  <2>2. sk' \in [Sidekick -> [life : Life, live : BOOLEAN, stop : BOOLEAN, turn : Nat]]
    BY <1>5 DEF QueueTurn, TypeOK, Life
  <2>3. own' \in [Spawn -> [gen : Nat, cap : Nat, epoch : Nat]] /\ pc' \in [Spawn -> PC]
    BY <1>5 DEF QueueTurn, TypeOK, PC
  <2>4. QED
    BY <1>5, <2>1, <2>2, <2>3 DEF QueueTurn, TypeOK
<1>6. CASE FinishTurn(k)
  <2>1. st' \in ManagerState
    BY <1>0, <1>6, LeaveTurnFields DEF FinishTurn, LeavesTurn
  <2>2. woken' \in SUBSET (Spawn \cup {Host})
    BY <1>6, WakeType DEF FinishTurn
  <2>3. pc' \in [Spawn -> PC]
    BY <1>6 DEF FinishTurn, TypeOK, PC
  <2>4. sk' \in [Sidekick -> [life : Life, live : BOOLEAN, stop : BOOLEAN, turn : Nat]]
    BY <1>6 DEF FinishTurn, TypeOK, Life
  <2>5. reports' \in SUBSET [spawn : Sidekick, turn : Nat, epoch : Nat, step : {"check", "stamp"}]
    BY <1>0, <1>6 DEF FinishTurn, TypeOK, Report
  <2>6. UNCHANGED <<limit, own, slots, cancelled, outVars>>
    BY <1>6 DEF FinishTurn
  <2>7. QED
    BY <2>1, <2>2, <2>3, <2>4, <2>5, <2>6 DEF TypeOK
<1>7. CASE NoticeDead(k)
  <2>1. sk' \in [Sidekick -> [life : Life, live : BOOLEAN, stop : BOOLEAN, turn : Nat]]
    <3> DEFINE b == sk[k].life = "Busy"
    <3>1. b \in BOOLEAN /\ sk' = [sk EXCEPT ![k].life = "Stopped", ![k].stop = b]
      BY <1>7 DEF NoticeDead
    <3> HIDE DEF b
    <3>2. QED
      BY <3>1 DEF TypeOK, Life
  <2>2. QED
    BY <1>7, <2>1 DEF NoticeDead, TypeOK
<1>8. CASE StopSidekick(k)
  <2>1. st' \in ManagerState
    BY <1>0, <1>8, StopFields DEF StopSidekick, Gone
  <2>2. woken' \in SUBSET (Spawn \cup {Host})
    BY <1>8, WakeType DEF StopSidekick
  <2>3. sk' \in [Sidekick -> [life : Life, live : BOOLEAN, stop : BOOLEAN, turn : Nat]]
    BY <1>8 DEF StopSidekick, StopThem, TypeOK, Life
  <2>4. QED
    BY <1>8, <2>1, <2>2, <2>3 DEF StopSidekick, TypeOK
<1>9. QED
  BY <1>1, <1>2, <1>3, <1>4, <1>5, <1>6, <1>7, <1>8 DEF SidekickStep, Starting

(* The manager's other steps keep the types.                               *)
LEMMA ControlType ==
  ASSUME TypeOK,
         \/ \E r \in reports : ReportStep(r)
         \/ CancelAll
         \/ \E l \in LimitValues : SetLimit(l)
         \/ Reset \/ Close \/ CloseReset \/ HostWaits \/ Quiet
  PROVE  TypeOK'
<1> USE DEF skVars, outVars, workVars
<1>0. LimitNat /\ st \in ManagerState
  BY LimitIsNat DEF TypeOK
<1>1. ASSUME NEW r \in reports, CheckReport(r) PROVE TypeOK'
  <2>1. reports' \in SUBSET [spawn : Sidekick, turn : Nat, epoch : Nat, step : {"check", "stamp"}]
    BY <1>1 DEF CheckReport, TypeOK
  <2>2. QED
    BY <1>1, <2>1 DEF CheckReport, TypeOK
<1>2. ASSUME NEW r \in reports, SendReport(r) PROVE TypeOK'
  <2>1. sent' \in SUBSET Notification
    BY <1>0, <1>2 DEF SendReport, TypeOK, Notification, ManagerState, Spawn
  <2>2. QED
    BY <1>2, <2>1 DEF SendReport, TypeOK
<1>3. CASE CancelAll
  <2>1. st' \in ManagerState
    BY <1>0, <1>3, CancelAllFields DEF Gone
  <2>2. woken' \in SUBSET (Spawn \cup {Host})
    BY <1>3, WakeType DEF CancelAll
  <2>3. QED
    BY <1>3, <2>1, <2>2 DEF CancelAll, TypeOK, Registered
<1>4. ASSUME NEW l \in LimitValues, SetLimit(l) PROVE TypeOK'
  BY <1>4, WakeType DEF SetLimit, TypeOK
<1>5. ASSUME ResetEffect PROVE st' \in ManagerState /\ cancelled' \in SUBSET Spawn
                               /\ woken' \in SUBSET (Spawn \cup {Host}) /\ epoch' \in Nat
  BY <1>0, <1>5, WakeType, ResetFields DEF ResetEffect, TypeOK, Gone, Registered
<1>6. CASE Reset
  BY <1>5, <1>6 DEF Reset, TypeOK
<1>7. CASE Close
  <2>1. st' = [st EXCEPT !.closed = TRUE]
    BY <1>7 DEF Close
  <2>2. st' \in ManagerState
    BY <1>0, <2>1 DEF ManagerState
  <2>3. QED
    BY <1>7, <2>2 DEF Close, TypeOK
<1>8. CASE CloseReset
  BY <1>5, <1>8 DEF CloseReset, TypeOK
<1>9. CASE HostWaits
  BY <1>9 DEF HostWaits, WaitIdle, WaitMark, WaitCheck, WaitRouse, TypeOK, WaiterPC
<1>10. CASE Quiet
  BY <1>10 DEF Quiet, TypeOK, managerVars
<1>11. QED
  BY <1>1, <1>2, <1>3, <1>4, <1>6, <1>7, <1>8, <1>9, <1>10 DEF ReportStep

LEMMA TypeStep == TypeOK /\ [Next]_managerVars => TypeOK'
<1> SUFFICES ASSUME TypeOK, [Next]_managerVars PROVE TypeOK'
  OBVIOUS
<1>1. CASE UNCHANGED managerVars
  BY <1>1 DEF TypeOK, managerVars
<1>2. CASE Next
  BY <1>2, WorkerType, SidekickType, ControlType DEF Next, ManagerNext
<1>3. QED
  BY <1>1, <1>2

LEMMA TypeInit == Init => TypeOK
<1> SUFFICES ASSUME Init PROVE TypeOK
  OBVIOUS
<1>1. st \in ManagerState
  BY DEF Init, ManagerState, Status
<1>2. QED
  BY <1>1 DEF Init, TypeOK, PC, Life, WaiterPC

-----------------------------------------------------------------------------
(* The invariant                                                           *)

Unbegun(k) == pc[k] \in {"new", "admitting", "admitted", "registered"}

(* An entry of the queue is the only one of a job that waits for a slot;   *)
(* an ordinary job there is of the present generation, so a dropped        *)
(* admission takes its own entry out; a sidekick there counts as active.   *)
Waits(s) ==
  /\ st.job[s] = "Queued" /\ pc[s] \in Coming /\ s \notin slots
  /\ s \in Job => own[s].gen = st.gen
  /\ s \in Sidekick => s \in st.active
QueueInv == Unique(st.queue) /\ \A s \in Range(st.queue) : Waits(s)

(* A slot is held where its guard can be.                                  *)
Holding == {"admitted", "registered", "running", "rollback"}
SlotInv ==
  /\ IsFiniteSet(slots) /\ st.running = Cardinality(slots)
  /\ \A s \in slots : pc[s] \in Holding
  /\ \A s \in Spawn : pc[s] \in {"running", "rollback"} => s \in slots

(* Finitely many jobs are in the map; a sidekick that runs is active.      *)
JobInv ==
  /\ IsFiniteSet(Registered)
  /\ \A k \in Sidekick : st.job[k] = "Running" => k \in st.active

(* Nobody reaches a sidekick before its first turn has begun, but a reset. *)
UnbegunInv ==
  \A k \in Sidekick : Unbegun(k) =>
    /\ sk[k].life = "Idle"
    /\ pc[k] # "registered" => ~sk[k].live
    /\ k \in cancelled => st.job[k] = "None"
    /\ pc[k] = "new" => st.job[k] = "None" /\ k \notin cancelled

ManagerInv == TypeOK /\ QueueInv /\ SlotInv /\ JobInv /\ UnbegunInv

-----------------------------------------------------------------------------
(* What a start and the release of a slot do to the invariant's parts.     *)

LEMMA QueueFacts ==
  ASSUME ManagerInv
  PROVE  /\ st.queue \in Seq(Spawn) /\ Unique(st.queue)
         /\ Range(st.queue) \subseteq Spawn
         /\ st \in ManagerState
<1>1. st.queue \in Seq(Spawn) /\ st \in ManagerState
  BY DEF ManagerInv, TypeOK, ManagerState
<1>2. \A i \in DOMAIN st.queue : st.queue[i] \in Spawn
  BY <1>1
<1>3. QED
  BY <1>1, <1>2 DEF Range, ManagerInv, QueueInv

LEMMA StartEffect ==
  ASSUME ManagerInv, NEW s \in Spawn, NEW c, CanStart(s, c), Start(s, c)
  PROVE  /\ Unique(st'.queue) /\ Range(st'.queue) = Range(st.queue) \ {s}
         /\ s \in Range(st.queue)
         /\ st'.job = [st.job EXCEPT ![s] = "Running"]
         /\ st'.gen = st.gen /\ st'.active = st.active /\ st'.closed = st.closed
         /\ s \notin slots /\ slots' = slots \cup {s}
         /\ IsFiniteSet(slots') /\ st'.running = Cardinality(slots')
<1>1. /\ st.queue \in Seq(Spawn) /\ st.queue # <<>> /\ Head(st.queue) = s
      /\ Unique(st.queue) /\ st \in ManagerState
  BY QueueFacts DEF CanStart
<1>2. /\ Unique(Tail(st.queue)) /\ Range(Tail(st.queue)) = Range(st.queue) \ {s}
      /\ s \in Range(st.queue)
  BY <1>1, TailUnique
<1>3. /\ st'.queue = Tail(st.queue) /\ st'.job = [st.job EXCEPT ![s] = "Running"]
      /\ st'.gen = st.gen /\ st'.active = st.active /\ st'.closed = st.closed
      /\ st'.running = st.running + 1
  <2> DEFINE qu == Tail(st.queue)
             jb == [st.job EXCEPT ![s] = "Running"]
  <2>1. st' = [st EXCEPT !.queue = qu, !.running = st.running + 1, !.job = jb]
    BY DEF Start
  <2> HIDE DEF qu, jb
  <2>2. /\ st'.queue = qu /\ st'.job = jb
        /\ st'.gen = st.gen /\ st'.active = st.active /\ st'.closed = st.closed
        /\ st'.running = st.running + 1
    BY <2>1, <1>1 DEF ManagerState
  <2>3. QED
    BY <2>2 DEF qu, jb
<1>4. s \notin slots /\ slots' = slots \cup {s}
  BY <1>2 DEF ManagerInv, QueueInv, Waits, Start
<1>5. IsFiniteSet(slots') /\ Cardinality(slots') = Cardinality(slots) + 1
  BY <1>4, FS_AddElement DEF ManagerInv, SlotInv
<1>6. QED
  BY <1>2, <1>3, <1>4, <1>5 DEF ManagerInv, SlotInv

LEMMA ReleaseEffect ==
  ASSUME ManagerInv, NEW s \in slots, Release, slots' = slots \ {s}
  PROVE  /\ st'.gen = st.gen /\ st'.job = st.job /\ st'.active = st.active
         /\ st'.queue = st.queue /\ st'.closed = st.closed
         /\ IsFiniteSet(slots') /\ st'.running = Cardinality(slots')
<1>1. st \in ManagerState /\ IsFiniteSet(slots) /\ st.running = Cardinality(slots)
  BY DEF ManagerInv, TypeOK, SlotInv
<1>2. /\ IsFiniteSet(slots \ {s}) /\ Cardinality(slots \ {s}) = Cardinality(slots) - 1
  BY <1>1, FS_RemoveElement
<1>3. Cardinality(slots \ {s}) \in Nat /\ Cardinality(slots) \in Nat
  BY <1>1, <1>2, FS_CardinalityType
<1>4. st'.running = Cardinality(slots')
  BY <1>1, <1>2, <1>3, ReleaseFields
<1>5. QED
  BY <1>1, <1>2, <1>4, ReleaseFields

(* At most one job enters the map.                                         *)
LEMMA FiniteMore ==
  ASSUME IsFiniteSet(Registered), NEW s \in Spawn,
         \A x \in Spawn : x # s /\ st'.job[x] # "None" => st.job[x] # "None"
  PROVE  IsFiniteSet(Registered')
<1>1. IsFiniteSet(Registered \cup {s})
  BY FS_AddElement
<1>2. Registered' \subseteq Registered \cup {s}
  BY DEF Registered
<1>3. QED
  BY <1>1, <1>2, FS_Subset

LEMMA FiniteLess ==
  ASSUME IsFiniteSet(Registered),
         \A x \in Spawn : st'.job[x] # "None" => st.job[x] # "None"
  PROVE  IsFiniteSet(Registered')
<1>1. Registered' \subseteq Registered
  BY DEF Registered
<1>2. QED
  BY <1>1, FS_Subset

(* Jobs S leave, and nothing else moves but the generation.                *)
LEMMA GoneEffect ==
  ASSUME ManagerInv, NEW S, Gone(st, st', S)
  PROVE  /\ Unique(st'.queue) /\ Range(st'.queue) = Range(st.queue) \ S
         /\ \A s \in Spawn : st'.job[s] = IF s \in S THEN "None" ELSE st.job[s]
         /\ st'.active = st.active \ S
         /\ st'.running = st.running /\ st'.closed = st.closed
         /\ IsFiniteSet(Registered')
<1>1. st'.queue = Without(st.queue, S) /\ st.queue \in Seq(Spawn) /\ Unique(st.queue)
  BY QueueFacts DEF Gone
<1>2. /\ Unique(Without(st.queue, S))
      /\ \A x : x \in Range(Without(st.queue, S)) <=> x \in Range(st.queue) /\ x \notin S
  BY <1>1, WithoutKeeps
<1>3. Range(st'.queue) = Range(st.queue) \ S /\ Unique(st'.queue)
  BY <1>1, <1>2
<1>4. IsFiniteSet(Registered')
  BY FiniteLess DEF Gone, ManagerInv, JobInv
<1>5. QED
  BY <1>3, <1>4 DEF Gone

-----------------------------------------------------------------------------
(* Every step keeps the invariant.                                         *)

PartsHold == QueueInv /\ SlotInv /\ JobInv /\ UnbegunInv

(* A step that moves one worker and leaves the books alone.                *)
LEMMA MoveKeeps ==
  ASSUME ManagerInv, NEW s \in Spawn, NEW step,
         UNCHANGED <<st, slots>>, pc' = [pc EXCEPT ![s] = step],
         s \in Range(st.queue) => step \in Coming,
         s \in slots => step \in Holding,
         step \in {"running", "rollback"} => s \in slots,
         \A x \in Job : x \in Range(st.queue) => own'[x].gen = own[x].gen,
         UnbegunInv'
  PROVE  PartsHold'
<1>1. QueueInv'
  <2>1. \A x \in Range(st.queue) : x \in Spawn
    BY QueueFacts
  <2>2. QED
    BY <2>1 DEF ManagerInv, TypeOK, QueueInv, Waits
<1>2. SlotInv'
  BY DEF ManagerInv, TypeOK, SlotInv
<1>3. JobInv'
  BY DEF ManagerInv, JobInv, Registered
<1>4. QED
  BY <1>1, <1>2, <1>3 DEF PartsHold

(* A worker gets its slot.                                                 *)
LEMMA StartKeeps ==
  ASSUME ManagerInv, NEW s \in Spawn, NEW c, CanStart(s, c), Start(s, c),
         NEW step \in {"admitted", "running"}, pc' = [pc EXCEPT ![s] = step],
         UNCHANGED <<own, sk, cancelled>>,
         s \in Sidekick /\ step = "admitted" => pc[s] = "admitting",
         step = "admitted" => Unbegun(s)
  PROVE  PartsHold'
<1>0. /\ Unique(st'.queue) /\ Range(st'.queue) = Range(st.queue) \ {s}
      /\ s \in Range(st.queue)
      /\ st'.job = [st.job EXCEPT ![s] = "Running"]
      /\ st'.gen = st.gen /\ st'.active = st.active /\ st'.closed = st.closed
      /\ s \notin slots /\ slots' = slots \cup {s}
      /\ IsFiniteSet(slots') /\ st'.running = Cardinality(slots')
  BY StartEffect
<1>1. QueueInv'
  <2>1. \A x \in Range(st.queue) : x \in Spawn /\ Waits(x)
    BY QueueFacts DEF ManagerInv, QueueInv
  <2>2. ASSUME NEW x \in Range(st'.queue) PROVE Waits(x)'
    <3>1. x \in Range(st.queue) /\ x # s /\ x \in Spawn
      BY <1>0, <2>1
    <3>2. st'.job[x] = st.job[x] /\ pc'[x] = pc[x]
      BY <1>0, <3>1 DEF ManagerInv, TypeOK, ManagerState
    <3>3. QED
      BY <1>0, <2>1, <3>1, <3>2 DEF Waits
  <2>3. QED
    BY <1>0, <2>2 DEF QueueInv
<1>2. SlotInv'
  BY <1>0 DEF ManagerInv, TypeOK, SlotInv, Holding
<1>3. JobInv'
  <2>1. \A x \in Spawn : x # s => st'.job[x] = st.job[x]
    BY <1>0 DEF ManagerInv, TypeOK, ManagerState
  <2>2. IsFiniteSet(Registered')
    BY <2>1, FiniteMore DEF ManagerInv, JobInv
  <2>3. s \in Sidekick => s \in st.active
    BY <1>0 DEF ManagerInv, QueueInv, Waits
  <2>4. \A k \in Sidekick : st'.job[k] = "Running" => k \in st'.active
    BY <2>1, <2>3, <1>0 DEF ManagerInv, JobInv, Spawn
  <2>5. QED
    BY <2>2, <2>4 DEF JobInv
<1>4. UnbegunInv'
  <2>1. s \notin cancelled
    BY DEF CanStart
  <2>2. \A k \in Sidekick : k # s => st'.job[k] = st.job[k] /\ pc'[k] = pc[k]
    BY <1>0 DEF ManagerInv, TypeOK, ManagerState, Spawn
  <2>3. pc'[s] = step
    BY DEF ManagerInv, TypeOK
  <2>4. QED
    BY <2>1, <2>2, <2>3 DEF ManagerInv, UnbegunInv, Unbegun
<1>5. QED
  BY <1>1, <1>2, <1>3, <1>4 DEF PartsHold

(* A worker lets its slot go.                                              *)
LEMMA ReleaseKeeps ==
  ASSUME ManagerInv, NEW s \in slots, Release, slots' = slots \ {s},
         NEW step \in {"ending", "over", "panicked"}, pc' = [pc EXCEPT ![s] = step],
         UNCHANGED <<own, cancelled>>, UnbegunInv'
  PROVE  PartsHold'
<1>0. /\ st'.gen = st.gen /\ st'.job = st.job /\ st'.active = st.active
      /\ st'.queue = st.queue /\ st'.closed = st.closed
      /\ IsFiniteSet(slots') /\ st'.running = Cardinality(slots')
  BY ReleaseEffect
<1>1. QueueInv'
  <2>1. \A x \in Range(st.queue) : x \in Spawn /\ Waits(x)
    BY QueueFacts DEF ManagerInv, QueueInv
  <2>2. s \notin Range(st.queue)
    BY <2>1 DEF Waits
  <2>3. ASSUME NEW x \in Range(st'.queue) PROVE Waits(x)'
    <3>1. x \in Range(st.queue) /\ x # s /\ x \in Spawn
      BY <1>0, <2>1, <2>2
    <3>2. pc'[x] = pc[x]
      BY <3>1 DEF ManagerInv, TypeOK
    <3>3. QED
      BY <1>0, <2>1, <3>1, <3>2 DEF Waits
  <2>4. QED
    BY <1>0, <2>3 DEF QueueInv, ManagerInv
<1>2. SlotInv'
  BY <1>0 DEF ManagerInv, TypeOK, SlotInv, Holding
<1>3. JobInv'
  BY <1>0 DEF ManagerInv, JobInv, Registered
<1>4. QED
  BY <1>1, <1>2, <1>3 DEF PartsHold

(* Jobs leave the map and the queue.                                       *)
LEMMA GoneKeeps ==
  ASSUME ManagerInv, NEW S, Gone(st, st', S), UNCHANGED <<slots, own>>,
         NEW D \in SUBSET S, pc' \in [Spawn -> PC],
         \A x \in Spawn \ D : pc'[x] = pc[x],
         \A x \in D \cap Spawn : pc'[x] \notin {"running"}
               /\ (x \in slots <=> pc'[x] = "rollback"),
         st'.gen = st.gen \/ Job \cap Range(st.queue) \subseteq S,
         UnbegunInv'
  PROVE  PartsHold'
<1>0. /\ Unique(st'.queue) /\ Range(st'.queue) = Range(st.queue) \ S
      /\ \A s \in Spawn : st'.job[s] = IF s \in S THEN "None" ELSE st.job[s]
      /\ st'.active = st.active \ S
      /\ st'.running = st.running /\ st'.closed = st.closed
      /\ IsFiniteSet(Registered')
  BY GoneEffect
<1>1. QueueInv'
  <2>1. \A x \in Range(st.queue) : x \in Spawn /\ Waits(x)
    BY QueueFacts DEF ManagerInv, QueueInv
  <2>2. ASSUME NEW x \in Range(st'.queue) PROVE Waits(x)'
    BY <1>0, <2>1 DEF Waits
  <2>3. QED
    BY <1>0, <2>2 DEF QueueInv
<1>2. SlotInv'
  <2>1. \A x \in slots : x \in Spawn /\ pc'[x] \in Holding
    BY DEF ManagerInv, TypeOK, SlotInv, Holding
  <2>2. \A x \in Spawn : pc'[x] \in {"running", "rollback"} => x \in slots
    BY DEF ManagerInv, SlotInv
  <2>3. QED
    BY <1>0, <2>1, <2>2 DEF ManagerInv, SlotInv
<1>3. JobInv'
  BY <1>0 DEF ManagerInv, JobInv, Spawn
<1>4. QED
  BY <1>1, <1>2, <1>3 DEF PartsHold

(* A job joins the queue.                                                  *)
LEMMA EnqueueKeeps ==
  ASSUME ManagerInv, NEW s \in Spawn, Enqueues(s), UNCHANGED slots,
         NEW step \in {"admitting", "queueing"}, pc' = [pc EXCEPT ![s] = step],
         pc[s] \in {"new", "idle"},
         s \in Job => own'[s].gen = st.gen,
         \A x \in Spawn : x # s => own'[x] = own[x],
         UnbegunInv'
  PROVE  PartsHold'
<1>0. \A x \in Range(st.queue) : x \in Spawn /\ Waits(x)
  BY QueueFacts DEF ManagerInv, QueueInv
<1>1. s \notin Range(st.queue)
  BY <1>0 DEF Waits, Coming, Acquiring
<1>2. s \notin slots
  BY DEF ManagerInv, SlotInv, Holding
<1>3. /\ st'.queue = Append(st.queue, s)
      /\ Unique(st'.queue) /\ Range(st'.queue) = Range(st.queue) \cup {s}
  BY <1>1, QueueFacts, AppendUnique DEF Enqueues
<1>4. /\ \A x \in Spawn : x # s => st'.job[x] = st.job[x] /\ pc'[x] = pc[x]
      /\ st'.job[s] = "Queued" /\ pc'[s] = step
  BY DEF Enqueues, ManagerInv, TypeOK, ManagerState
<1>5. QueueInv'
  <2>1. Waits(s)'
    BY <1>2, <1>4 DEF Waits, Coming, Enqueues
  <2>2. ASSUME NEW x \in Range(st.queue) PROVE Waits(x)'
    BY <1>0, <1>1, <1>4 DEF Waits, Enqueues
  <2>3. QED
    BY <1>3, <2>1, <2>2 DEF QueueInv
<1>6. SlotInv'
  BY <1>2, <1>4 DEF ManagerInv, SlotInv, Enqueues
<1>7. JobInv'
  <2>1. IsFiniteSet(Registered')
    BY <1>4, FiniteMore DEF ManagerInv, JobInv
  <2>2. \A k \in Sidekick : st'.job[k] = "Running" => k \in st'.active
    BY <1>4 DEF ManagerInv, JobInv, Spawn, Enqueues
  <2>3. QED
    BY <2>1, <2>2 DEF JobInv
<1>8. QED
  BY <1>5, <1>6, <1>7 DEF PartsHold

(* An entry leaves the queue, its job stays in the map.                    *)
LEMMA DequeueKeeps ==
  ASSUME ManagerInv, NEW s \in Spawn, st' \in ManagerState,
         st'.queue = Without(st.queue, {s}),
         st'.gen = st.gen, st'.running = st.running,
         \A x \in Spawn : x # s => st'.job[x] = st.job[x] /\ (x \in st.active => x \in st'.active),
         s \in Sidekick /\ st'.job[s] = "Running" => s \in st'.active,
         NEW step \in {"ending", "idle"}, pc' = [pc EXCEPT ![s] = step],
         s \notin slots,
         UNCHANGED <<own, slots>>, UnbegunInv'
  PROVE  PartsHold'
<1>0. \A x \in Range(st.queue) : x \in Spawn /\ Waits(x)
  BY QueueFacts DEF ManagerInv, QueueInv
<1>1. Unique(st'.queue) /\ \A x : x \in Range(st'.queue) <=> x \in Range(st.queue) /\ x \notin {s}
  BY QueueFacts, WithoutKeeps
<1>2. \A x \in Spawn : x # s => pc'[x] = pc[x]
  BY DEF ManagerInv, TypeOK
<1>3. QueueInv'
  <2>1. ASSUME NEW x \in Range(st'.queue) PROVE Waits(x)'
    BY <1>0, <1>1, <1>2 DEF Waits
  <2>2. QED
    BY <1>1, <2>1 DEF QueueInv
<1>4. SlotInv'
  BY <1>2 DEF ManagerInv, TypeOK, SlotInv
<1>5. JobInv'
  <2>1. IsFiniteSet(Registered')
    BY FiniteMore DEF ManagerInv, JobInv
  <2>2. QED
    BY <2>1 DEF ManagerInv, JobInv, Spawn
<1>6. QED
  BY <1>3, <1>4, <1>5 DEF PartsHold

(* Nothing moves that the invariant's parts look at.                       *)
LEMMA StillKeeps ==
  ASSUME ManagerInv, UNCHANGED <<pc, own, slots>>,
         st'.queue = st.queue, st'.job = st.job, st'.active = st.active,
         st'.gen = st.gen, st'.running = st.running, UnbegunInv'
  PROVE  PartsHold'
<1>1. QueueInv'
  BY DEF ManagerInv, QueueInv, Waits
<1>2. SlotInv' /\ JobInv'
  BY DEF ManagerInv, SlotInv, JobInv, Registered
<1>3. QED
  BY <1>1, <1>2 DEF PartsHold

(* A step of an ordinary worker says nothing of the other sidekicks.       *)
LEMMA UnbegunFrame ==
  ASSUME ManagerInv, NEW s \in Spawn,
         \A k \in Sidekick : k # s =>
           /\ pc'[k] = pc[k] /\ sk'[k] = sk[k] /\ (k \in cancelled' => k \in cancelled)
           /\ (st.job[k] = "None" => st'.job[k] = "None"),
         s \in Sidekick => ~Unbegun(s)' \/
           /\ sk'[s].life = "Idle" /\ (pc'[s] # "registered" => ~sk'[s].live)
           /\ s \notin cancelled' \/ st'.job[s] = "None"
           /\ pc'[s] # "new"
  PROVE  UnbegunInv'
  BY DEF ManagerInv, UnbegunInv, Unbegun

LEMMA WorkerKeeps ==
  ASSUME ManagerInv, NEW s \in Spawn, WorkerStep(s) \/ CancelJob(s)
  PROVE  PartsHold'
<1> USE DEF skVars, outVars
<1>0. /\ \A x \in Range(st.queue) : x \in Spawn /\ Waits(x)
      /\ TypeOK /\ st \in ManagerState /\ pc \in [Spawn -> PC] /\ slots \in SUBSET Spawn
      /\ \A k \in Sidekick : k \in Spawn
  BY QueueFacts DEF ManagerInv, QueueInv, TypeOK, Spawn
<1>a. s \in slots => pc[s] \in Holding
  BY DEF ManagerInv, SlotInv
<1>b. s \in Range(st.queue) => pc[s] \in Coming /\ s \notin slots
  BY <1>0 DEF Waits
<1>1. CASE Admit(s)
  <2>1. Enqueues(s)
    BY <1>0, <1>1, EnqueueFields DEF Admit
  <2>2. \A x \in Spawn : x # s => st'.job[x] = st.job[x]
    BY <2>1, <1>0 DEF Enqueues, ManagerState
  <2>3. UnbegunInv'
    BY <1>0, <1>1, <2>2, UnbegunFrame DEF Admit, ManagerInv, UnbegunInv, Unbegun
  <2>4. own'[s].gen = st.gen /\ \A x \in Spawn : x # s => own'[x] = own[x]
    BY <1>0, <1>1 DEF Admit, TypeOK
  <2>5. QED
    BY <1>1, <2>1, <2>3, <2>4, EnqueueKeeps DEF Admit
<1>2. CASE Refuse(s)
  <2>1. UnbegunInv'
    BY <1>0, <1>2, UnbegunFrame DEF Refuse, Unbegun
  <2>2. QED
    BY <1>2, <1>a, <1>b, <2>1, MoveKeeps DEF Refuse, Coming, Acquiring, Holding
<1>3. CASE FirstTry(s)
  <2>1. CASE CanStart(s, own[s].cap) /\ Start(s, own[s].cap) /\ pc' = [pc EXCEPT ![s] = "admitted"]
    BY <1>3, <2>1, StartKeeps DEF FirstTry, Unbegun
  <2>2. CASE UNCHANGED <<st, slots, woken>> /\ pc' = [pc EXCEPT ![s] = "admitted"]
    <3>1. UnbegunInv'
      BY <1>0, <1>3, <2>2, UnbegunFrame DEF FirstTry, Unbegun, ManagerInv, UnbegunInv
    <3>2. QED
      BY <1>3, <2>2, <3>1, MoveKeeps DEF FirstTry, Coming, Holding
  <2>3. QED
    BY <1>3, <2>1, <2>2 DEF FirstTry, TryStart
<1>4. CASE Detach(s)
  <2> DEFINE step == IF s \in slots THEN "running" ELSE "mark"
  <2>1. UnbegunInv'
    BY <1>0, <1>4, UnbegunFrame, KindsAssumption DEF Detach, Unbegun
  <2>2. pc' = [pc EXCEPT ![s] = step] /\ UNCHANGED <<st, slots, own>>
    BY <1>4 DEF Detach
  <2>3. /\ s \in Range(st.queue) => step \in Coming
        /\ s \in slots => step \in Holding
        /\ step \in {"running", "rollback"} => s \in slots
    BY <1>b DEF Coming, Acquiring, Holding
  <2> HIDE DEF step
  <2>4. QED
    BY <2>1, <2>2, <2>3, MoveKeeps
<1>5. CASE DropAdmission(s)
  <2> DEFINE step == IF s \in slots THEN "rollback" ELSE "over"
  <2>0. pc' = [pc EXCEPT ![s] = step] /\ UNCHANGED <<slots, own>> /\ s \in Job /\ s \notin Sidekick
    BY <1>5, KindsAssumption DEF DropAdmission
  <2>1. CASE st.gen = own[s].gen
    <3>1. st' = Removed(st, {s})
      BY <1>5, <2>1 DEF DropAdmission, Removed
    <3>2. Gone(st, st', {s}) /\ st'.gen = st.gen
      BY <1>0, <3>1, RemovedFields DEF Gone
    <3>3. UnbegunInv'
      BY <1>0, <1>5, <3>2, <2>0, UnbegunFrame DEF DropAdmission, Gone
    <3>4. /\ pc' \in [Spawn -> PC] /\ \A x \in Spawn \ {s} : pc'[x] = pc[x]
          /\ pc'[s] \notin {"running"} /\ (s \in slots <=> pc'[s] = "rollback")
      BY <2>0, <1>0 DEF PC
    <3>5. QED
      BY <2>0, <3>2, <3>3, <3>4, GoneKeeps
  <2>2. CASE st.gen # own[s].gen
    <3>1. st' = st
      BY <1>5, <2>2 DEF DropAdmission
    <3>2. s \notin Range(st.queue)
      BY <1>0, <2>0, <2>2 DEF Waits
    <3>3. UnbegunInv'
      BY <1>0, <1>5, <3>1, <2>0, UnbegunFrame DEF DropAdmission
    <3>4. /\ s \in slots => step \in Holding
          /\ step \in {"running", "rollback"} => s \in slots
      BY DEF Holding
    <3> HIDE DEF step
    <3>5. QED
      BY <2>0, <3>1, <3>2, <3>3, <3>4, MoveKeeps
  <2>3. QED
    BY <2>1, <2>2
<1>6. CASE Mark(s)
  <2>1. UnbegunInv'
    BY <1>0, <1>6, UnbegunFrame DEF Mark, Unbegun
  <2>2. \A x \in Spawn : own'[x].gen = own[x].gen
    BY <1>0, <1>6 DEF Mark, TypeOK
  <2>3. QED
    BY <1>0, <1>6, <1>a, <2>1, <2>2, MoveKeeps DEF Mark, Coming, Acquiring, Holding
<1>7. CASE Check(s)
  <2>1. CASE CanStart(s, own[s].cap) /\ Start(s, own[s].cap) /\ pc' = [pc EXCEPT ![s] = "running"]
    BY <1>7, <2>1, StartKeeps DEF Check
  <2>2. CASE UNCHANGED <<st, slots, woken>> /\ pc' = [pc EXCEPT ![s] = "wait"]
    <3>1. UnbegunInv'
      BY <1>0, <1>7, <2>2, UnbegunFrame DEF Check, Unbegun
    <3>2. QED
      BY <1>7, <1>a, <2>2, <3>1, MoveKeeps DEF Check, Coming, Acquiring, Holding
  <2>3. QED
    BY <1>7, <2>1, <2>2 DEF Check, TryStart
<1>8. CASE Rouse(s)
  <2>1. UnbegunInv'
    BY <1>0, <1>8, UnbegunFrame DEF Rouse, Unbegun
  <2>2. QED
    BY <1>8, <1>a, <2>1, MoveKeeps DEF Rouse, Coming, Acquiring, Holding
<1>9. CASE GiveUp(s)
  <2> DEFINE qu == Without(st.queue, {s})
  <2>1. st' = [st EXCEPT !.queue = qu]
    BY <1>9 DEF GiveUp
  <2>2. qu \in Seq(Spawn)
    BY QueueFacts, WithoutKeeps
  <2> HIDE DEF qu
  <2>3. /\ st' \in ManagerState /\ st'.queue = qu /\ st'.job = st.job /\ st'.active = st.active
        /\ st'.gen = st.gen /\ st'.running = st.running
    BY <1>0, <2>1, <2>2 DEF ManagerState
  <2>4. UnbegunInv'
    BY <1>0, <1>9, <2>3, UnbegunFrame DEF GiveUp, Unbegun
  <2>5. s \notin slots /\ (s \in Sidekick /\ st.job[s] = "Running" => s \in st.active)
    BY <1>9, <1>a DEF GiveUp, Holding, ManagerInv, JobInv
  <2>6. QED
    BY <1>9, <2>3, <2>4, <2>5, DequeueKeeps DEF GiveUp, qu
<1>10. CASE EndRun(s)
  <2> DEFINE step == IF pc[s] = "running" THEN "ending" ELSE "over"
  <2>1. s \in slots
    BY <1>10 DEF EndRun, ManagerInv, SlotInv
  <2>2. /\ pc' = [pc EXCEPT ![s] = step] /\ Release /\ slots' = slots \ {s}
        /\ UNCHANGED <<own, cancelled>> /\ step \in {"ending", "over", "panicked"}
    BY <1>10 DEF EndRun
  <2>3. UnbegunInv'
    BY <1>0, <1>10, <2>1, <2>2, ReleaseEffect, UnbegunFrame DEF EndRun, Unbegun
  <2> HIDE DEF step
  <2>4. QED
    BY <2>1, <2>2, <2>3, ReleaseKeeps
<1>11. CASE Finish(s)
  <2>0. /\ pc' = [pc EXCEPT ![s] = "over"] /\ UNCHANGED <<slots, own>>
        /\ s \in Job /\ s \notin Sidekick /\ s \notin slots /\ s \notin Range(st.queue)
    BY <1>11, <1>a, <1>b, KindsAssumption DEF Finish, Holding, Coming, Acquiring
  <2>1. CASE st.gen = own[s].gen
    <3>1. Gone(st, st', {s}) /\ st'.gen = st.gen
      BY <1>0, <1>11, <2>1, UnregisterFields DEF Finish, Gone
    <3>2. UnbegunInv'
      BY <1>0, <1>11, <3>1, <2>0, UnbegunFrame DEF Finish, Gone
    <3>3. /\ pc' \in [Spawn -> PC] /\ \A x \in Spawn \ {s} : pc'[x] = pc[x] /\ pc'[s] = "over"
      BY <2>0, <1>0 DEF PC
    <3>4. QED
      BY <2>0, <3>1, <3>2, <3>3, GoneKeeps
  <2>2. CASE st.gen # own[s].gen
    <3>1. st' = st
      BY <1>11, <2>2 DEF Finish
    <3>2. UnbegunInv'
      BY <1>0, <1>11, <3>1, <2>0, UnbegunFrame DEF Finish
    <3>3. QED
      BY <2>0, <3>1, <3>2, MoveKeeps
  <2>3. QED
    BY <2>1, <2>2
<1>12. CASE CancelJob(s)
  <2>1. UnbegunInv'
    BY <1>0, <1>12, UnbegunFrame DEF CancelJob, Disclosed, Unbegun
  <2>2. QED
    BY <1>12, <2>1, StillKeeps DEF CancelJob
<1>13. QED
  BY <1>1, <1>2, <1>3, <1>4, <1>5, <1>6, <1>7, <1>8, <1>9, <1>10, <1>11, <1>12
     DEF WorkerStep, Admission, Waiting, Ending

LEMMA SidekickKeeps ==
  ASSUME ManagerInv, NEW k \in Sidekick, SidekickStep(k)
  PROVE  PartsHold'
<1> USE DEF skVars, outVars, workVars
<1>0. /\ \A x \in Range(st.queue) : x \in Spawn /\ Waits(x)
      /\ TypeOK /\ st \in ManagerState /\ pc \in [Spawn -> PC] /\ slots \in SUBSET Spawn
      /\ sk \in [Sidekick -> [life : Life, live : BOOLEAN, stop : BOOLEAN, turn : Nat]]
      /\ \A x \in Sidekick : x \in Spawn
      /\ k \in Spawn
  BY QueueFacts DEF ManagerInv, QueueInv, TypeOK, Spawn
<1>a. k \in slots => pc[k] \in Holding
  BY DEF ManagerInv, SlotInv
<1>b. k \in Range(st.queue) => pc[k] \in Coming /\ k \notin slots /\ st.job[k] = "Queued"
  BY <1>0 DEF Waits
<1>c. Unbegun(k) => /\ sk[k].life = "Idle"
                    /\ pc[k] # "registered" => ~sk[k].live
                    /\ k \in cancelled => st.job[k] = "None"
  BY DEF ManagerInv, UnbegunInv
<1>1. CASE RegisterSidekick(k)
  <2>1. sk'[k].life = sk[k].life /\ \A x \in Sidekick : x # k => sk'[x] = sk[x]
    BY <1>0, <1>1 DEF RegisterSidekick
  <2>2. UnbegunInv'
    BY <1>0, <1>1, <1>c, <2>1, UnbegunFrame DEF RegisterSidekick, Unbegun
  <2>3. QED
    BY <1>0, <1>1, <2>2, MoveKeeps DEF RegisterSidekick, Coming, Holding
<1>2. CASE BeginFirstTurn(k)
  <2> DEFINE step == IF k \in slots THEN "running" ELSE "mark"
  <2>1. UnbegunInv'
    BY <1>0, <1>2, UnbegunFrame DEF BeginFirstTurn, Unbegun
  <2>2. pc' = [pc EXCEPT ![k] = step] /\ UNCHANGED <<st, slots, own>>
    BY <1>2 DEF BeginFirstTurn
  <2>3. /\ k \in Range(st.queue) => step \in Coming
        /\ k \in slots => step \in Holding
        /\ step \in {"running", "rollback"} => k \in slots
    BY <1>b DEF Coming, Acquiring, Holding
  <2> HIDE DEF step
  <2>4. QED
    BY <1>0, <2>1, <2>2, <2>3, MoveKeeps
<1>3. CASE FirstTurnPanics(k)
  <2>1. k \notin Range(st.queue)
    BY <1>3, <1>b, <1>c DEF FirstTurnPanics, Unbegun
  <2>2. CASE k \in slots
    <3>1. Release /\ slots' = slots \ {k} /\ pc' = [pc EXCEPT ![k] = "panicked"]
          /\ UNCHANGED <<own, cancelled>>
      BY <1>3, <2>2 DEF FirstTurnPanics
    <3>2. UnbegunInv'
      BY <1>0, <1>3, <2>2, <3>1, ReleaseEffect, UnbegunFrame DEF FirstTurnPanics, Unbegun
    <3>3. QED
      BY <2>2, <3>1, <3>2, ReleaseKeeps
  <2>3. CASE k \notin slots
    <3>1. UNCHANGED <<st, slots, own>> /\ pc' = [pc EXCEPT ![k] = "panicked"]
      BY <1>3, <2>3 DEF FirstTurnPanics
    <3>2. UnbegunInv'
      BY <1>0, <1>3, <3>1, UnbegunFrame DEF FirstTurnPanics, Unbegun
    <3>3. QED
      BY <1>0, <2>1, <2>3, <3>1, <3>2, MoveKeeps
  <2>4. QED
    BY <2>2, <2>3
<1>4. CASE QueueTry(k)
  <2>1. CASE CanStart(k, limit) /\ Start(k, limit) /\ pc' = [pc EXCEPT ![k] = "running"]
    BY <1>0, <1>4, <2>1, StartKeeps DEF QueueTry
  <2>2. CASE UNCHANGED <<st, slots>> /\ pc' = [pc EXCEPT ![k] = "mark"]
    <3>1. UnbegunInv'
      BY <1>0, <1>4, <2>2, UnbegunFrame DEF QueueTry, Unbegun
    <3>2. k \notin slots
      BY <1>4, <1>a DEF QueueTry, Holding
    <3>3. QED
      BY <1>0, <1>4, <2>2, <3>1, <3>2, MoveKeeps DEF QueueTry, Coming, Acquiring
  <2>3. QED
    BY <1>4, <2>1, <2>2 DEF QueueTry
<1>5. CASE QueueTurn(k)
  <2>1. Enqueues(k)
    <3>1. {k} = {k} \cap Sidekick
      OBVIOUS
    <3>2. QED
      BY <1>0, <1>5, <3>1, EnqueueFields DEF QueueTurn
  <2>2. \A x \in Spawn : x # k => st'.job[x] = st.job[x]
    BY <2>1, <1>0 DEF Enqueues, ManagerState
  <2>3. \A x \in Sidekick : x # k => sk'[x] = sk[x]
    BY <1>0, <1>5 DEF QueueTurn
  <2>4. UnbegunInv'
    BY <1>0, <1>5, <2>2, <2>3, UnbegunFrame DEF QueueTurn, Unbegun
  <2>5. /\ \A x \in Spawn : x # k => own'[x] = own[x]
        /\ k \notin Job
    BY <1>0, <1>5, KindsAssumption DEF QueueTurn, TypeOK
  <2>6. pc' = [pc EXCEPT ![k] = "queueing"] /\ pc[k] = "idle" /\ UNCHANGED slots
    BY <1>5 DEF QueueTurn
  <2>7. QED
    BY <1>0, <2>1, <2>4, <2>5, <2>6, EnqueueKeeps
<1>6. CASE FinishTurn(k)
  <2>0. pc[k] = "ending" /\ pc' = [pc EXCEPT ![k] = "idle"] /\ UNCHANGED <<own, slots, cancelled>>
    BY <1>6 DEF FinishTurn
  <2>1. k \notin slots /\ k \notin Range(st.queue)
    BY <2>0, <1>a, <1>b DEF Holding, Coming, Acquiring
  <2>2. \A x \in Sidekick : x # k => sk'[x] = sk[x]
    BY <1>0, <1>6 DEF FinishTurn
  <2>3. /\ k \in Registered => LeavesTurn(k)
        /\ k \notin Registered => st' = st
    BY <1>0, <1>6, LeaveTurnFields DEF FinishTurn
  <2>4. CASE k \in Registered
    <3>1. LeavesTurn(k)
      BY <2>3, <2>4
    <3>2. /\ \A x \in Spawn : x # k => st'.job[x] = st.job[x] /\ (x \in st.active => x \in st'.active)
          /\ st'.job[k] = "Queued"
      BY <3>1, <1>0 DEF LeavesTurn, ManagerState
    <3>3. UnbegunInv'
      BY <1>0, <2>0, <2>2, <3>2, UnbegunFrame DEF Unbegun
    <3>4. QED
      BY <1>0, <2>0, <2>1, <3>1, <3>2, <3>3, DequeueKeeps DEF LeavesTurn
  <2>5. CASE k \notin Registered
    <3>1. st' = st
      BY <2>3, <2>5
    <3>2. UnbegunInv'
      BY <1>0, <2>0, <2>2, <3>1, UnbegunFrame DEF Unbegun
    <3>3. QED
      BY <1>0, <2>0, <2>1, <3>1, <3>2, MoveKeeps
  <2>6. QED
    BY <2>4, <2>5
<1>7. CASE NoticeDead(k)
  <2>1. ~Unbegun(k)
    BY <1>7, <1>c DEF NoticeDead
  <2>2. \A x \in Sidekick : x # k => sk'[x] = sk[x]
    BY <1>0, <1>7 DEF NoticeDead
  <2>3. UNCHANGED <<st, pc, own, slots, cancelled>>
    BY <1>7 DEF NoticeDead
  <2>4. UnbegunInv'
    BY <1>0, <2>1, <2>2, <2>3, UnbegunFrame DEF Unbegun
  <2>5. QED
    BY <2>3, <2>4, StillKeeps
<1>8. CASE StopSidekick(k)
  <2>1. StopThem({k}) /\ UNCHANGED <<pc, own, slots, cancelled>> /\ ~Unbegun(k)
    BY <1>8 DEF StopSidekick, Disclosed, Unbegun
  <2>2. Gone(st, st', {k}) /\ st'.gen = st.gen
    BY <1>0, <2>1, StopFields
  <2>3. \A x \in Sidekick : x # k => sk'[x] = sk[x]
    BY <1>0, <2>1 DEF StopThem
  <2>4. UnbegunInv'
    BY <1>0, <2>1, <2>2, <2>3, UnbegunFrame DEF Unbegun, Gone
  <2>5. /\ {} \in SUBSET {k} /\ pc' \in [Spawn -> PC] /\ \A x \in Spawn \ {} : pc'[x] = pc[x]
        /\ \A x \in {} \cap Spawn : pc'[x] \notin {"running"} /\ (x \in slots <=> pc'[x] = "rollback")
    BY <1>0, <2>1
  <2>6. QED
    BY <2>1, <2>2, <2>4, <2>5, GoneKeeps
<1>9. QED
  BY <1>1, <1>2, <1>3, <1>4, <1>5, <1>6, <1>7, <1>8 DEF SidekickStep, Starting

LEMMA ControlKeeps ==
  ASSUME ManagerInv,
         \/ \E r \in reports : ReportStep(r)
         \/ CancelAll
         \/ \E l \in LimitValues : SetLimit(l)
         \/ Reset \/ Close \/ CloseReset \/ HostWaits \/ Quiet
  PROVE  PartsHold'
<1> USE DEF skVars, outVars, workVars
<1>0. /\ \A x \in Range(st.queue) : x \in Spawn /\ Waits(x)
      /\ st \in ManagerState /\ pc \in [Spawn -> PC]
      /\ \A x \in Sidekick : x \in Spawn
  BY QueueFacts DEF ManagerInv, QueueInv, TypeOK, Spawn
<1>1. ASSUME UNCHANGED <<st, pc, own, slots, cancelled, sk>> PROVE PartsHold'
  <2>1. UnbegunInv'
    BY <1>1 DEF ManagerInv, UnbegunInv, Unbegun
  <2>2. QED
    BY <1>1, <2>1, StillKeeps
<1>2. ASSUME NEW r \in reports, ReportStep(r) PROVE PartsHold'
  BY <1>1, <1>2 DEF ReportStep, CheckReport, SendReport
<1>3. ASSUME NEW l \in LimitValues, SetLimit(l) PROVE PartsHold'
  BY <1>1, <1>3 DEF SetLimit
<1>4. CASE HostWaits
  BY <1>1, <1>4 DEF HostWaits, WaitIdle, WaitMark, WaitCheck, WaitRouse
<1>5. CASE Quiet
  BY <1>1, <1>5 DEF Quiet, managerVars
<1>6. CASE Close
  <2>1. /\ st'.queue = st.queue /\ st'.job = st.job /\ st'.active = st.active
        /\ st'.gen = st.gen /\ st'.running = st.running
    BY <1>0, <1>6 DEF Close, ManagerState
  <2>2. UNCHANGED <<pc, own, slots, cancelled, sk>>
    BY <1>6 DEF Close
  <2>3. UnbegunInv'
    BY <2>1, <2>2 DEF ManagerInv, UnbegunInv, Unbegun
  <2>4. QED
    BY <2>1, <2>2, <2>3, StillKeeps
<1>7. ASSUME NEW S, Gone(st, st', S), UNCHANGED <<pc, own, slots, sk>>,
             Job \cap Range(st.queue) \subseteq S, UnbegunInv'
      PROVE  PartsHold'
  <2>1. /\ {} \in SUBSET S /\ pc' \in [Spawn -> PC] /\ \A x \in Spawn \ {} : pc'[x] = pc[x]
        /\ \A x \in {} \cap Spawn : pc'[x] \notin {"running"} /\ (x \in slots <=> pc'[x] = "rollback")
    BY <1>0, <1>7
  <2>2. QED
    BY <1>7, <2>1, GoneKeeps
<1>8. CASE CancelAll
  <2> DEFINE ids == Registered \ Sidekick
  <2>1. Gone(st, st', ids)
    BY <1>0, <1>8, CancelAllFields
  <2>2. UNCHANGED <<pc, own, slots, sk>> /\ cancelled' = cancelled \cup ids
    BY <1>8 DEF CancelAll
  <2>3. Job \cap Range(st.queue) \subseteq ids
    BY <1>0, KindsAssumption DEF Waits, Registered
  <2>4. \A x \in Sidekick : x \notin ids /\ st'.job[x] = st.job[x]
    BY <1>0, <2>1 DEF Gone
  <2>5. UnbegunInv'
    BY <2>2, <2>4 DEF ManagerInv, UnbegunInv, Unbegun
  <2> HIDE DEF ids
  <2>6. QED
    BY <1>7, <2>1, <2>2, <2>3, <2>5
<1>9. ASSUME ResetEffect, UNCHANGED <<pc, own, slots, sk>> PROVE PartsHold'
  <2>1. Gone(st, st', Spawn)
    BY <1>0, <1>9, ResetFields
  <2>2. cancelled' = cancelled \cup Registered
    BY <1>9 DEF ResetEffect
  <2>3. \A x \in Sidekick : st'.job[x] = "None"
    BY <1>0, <2>1 DEF Gone
  <2>4. UnbegunInv'
    BY <1>0, <1>9, <2>2, <2>3 DEF ManagerInv, UnbegunInv, Unbegun, Registered
  <2>5. Job \cap Range(st.queue) \subseteq Spawn
    BY <1>0
  <2>6. QED
    BY <1>7, <1>9, <2>1, <2>4, <2>5
<1>10. CASE Reset
  BY <1>9, <1>10 DEF Reset
<1>11. CASE CloseReset
  BY <1>9, <1>11 DEF CloseReset
<1>12. QED
  BY <1>2, <1>3, <1>4, <1>5, <1>6, <1>8, <1>10, <1>11

LEMMA InvStep == ManagerInv /\ [Next]_managerVars => ManagerInv'
<1> SUFFICES ASSUME ManagerInv, [Next]_managerVars PROVE ManagerInv'
  OBVIOUS
<1>1. TypeOK'
  BY TypeStep DEF ManagerInv
<1>2. PartsHold'
  <2>1. CASE UNCHANGED managerVars
    BY <2>1 DEF managerVars, ManagerInv, PartsHold, QueueInv, Waits, SlotInv, JobInv,
                Registered, UnbegunInv, Unbegun
  <2>2. CASE Next
    BY <2>2, WorkerKeeps, SidekickKeeps, ControlKeeps DEF Next, ManagerNext
  <2>3. QED
    BY <2>1, <2>2
<1>3. QED
  BY <1>1, <1>2 DEF ManagerInv, PartsHold

LEMMA InvInit == Init => ManagerInv
<1> SUFFICES ASSUME Init PROVE ManagerInv
  OBVIOUS
<1>1. st.queue = <<>> /\ slots = {} /\ st.running = 0 /\ Registered = {}
  BY DEF Init, Registered
<1>2. QueueInv
  <2>1. DOMAIN <<>> = {}
    OBVIOUS
  <2>2. QED
    BY <1>1, <2>1 DEF QueueInv, Unique, Range
<1>3. SlotInv
  BY <1>1, FS_EmptySet DEF SlotInv, Init
<1>4. JobInv
  BY <1>1, FS_EmptySet DEF JobInv, Init, Spawn
<1>5. UnbegunInv
  BY DEF UnbegunInv, Init, Spawn
<1>6. QED
  BY TypeInit, <1>2, <1>3, <1>4, <1>5 DEF ManagerInv

-----------------------------------------------------------------------------
(* What follows from the invariant.                                        *)

LEMMA InvHasQueue == ManagerInv => QueueIsServed
  BY DEF ManagerInv, QueueInv, Waits, Unique, QueueIsServed

LEMMA IdleMeans ==
  ASSUME ManagerInv, LiveWorkers = 0
  PROVE  /\ slots = {} /\ Registered = RetainedIdle
         /\ \A s \in Spawn : pc[s] # "running"
         /\ \A s \in Spawn, c \in Nat : ~CanStart(s, c)
<1> DEFINE busy == Registered \ RetainedIdle
           extra == st.running - Cardinality(Slotted)
<1>1. IsFiniteSet(busy) /\ IsFiniteSet(Slotted)
  <2>1. busy \subseteq Registered /\ Slotted \subseteq Registered
    BY DEF Slotted, Registered
  <2>2. QED
    BY <2>1, FS_Subset DEF ManagerInv, JobInv
<1>2. Cardinality(busy) \in Nat /\ Cardinality(Slotted) \in Nat /\ st.running \in Nat
  BY <1>1, FS_CardinalityType DEF ManagerInv, TypeOK, ManagerState
<1>3. LiveWorkers = Cardinality(busy) + (IF extra > 0 THEN extra ELSE 0)
  BY DEF LiveWorkers
<1> HIDE DEF busy
<1>4. Cardinality(busy) = 0 /\ st.running =< Cardinality(Slotted)
  BY <1>2, <1>3
<1>5. busy = {}
  BY <1>1, <1>4, FS_EmptySet
<1>6. Registered = RetainedIdle
  BY <1>5 DEF busy, RetainedIdle
<1>7. Slotted = {}
  BY <1>6 DEF Slotted, Registered, RetainedIdle, ManagerInv, JobInv
<1>8. slots = {}
  <2>1. Cardinality(Slotted) = 0
    BY <1>7, FS_EmptySet
  <2>2. Cardinality(slots) = 0
    BY <1>2, <1>4, <2>1 DEF ManagerInv, SlotInv
  <2>3. QED
    BY <2>2, FS_EmptySet DEF ManagerInv, SlotInv
<1>9. ASSUME NEW s \in Spawn, NEW c \in Nat, CanStart(s, c) PROVE FALSE
  <2>1. s \in Range(st.queue)
    BY <1>9, QueueFacts, TailUnique DEF CanStart
  <2>2. Waits(s) /\ s \in Registered
    BY <1>9, <2>1 DEF ManagerInv, QueueInv, CanStart
  <2>3. QED
    BY <1>6, <2>2 DEF Waits, RetainedIdle
<1>10. QED
  BY <1>6, <1>8, <1>9 DEF ManagerInv, SlotInv

LEMMA InvHasIdle == ManagerInv => IdleIsIdle
  BY IdleMeans DEF IdleIsIdle

(* Nothing is admitted, entered or started by the step.                    *)
Shrinks ==
  /\ slots' \subseteq slots /\ st'.active \subseteq st.active
  /\ \A x \in Spawn : st'.job[x] # "None" => st.job[x] # "None"

LEMMA StaysIdle ==
  ASSUME ManagerInv, ManagerInv', LiveWorkers = 0, Shrinks
  PROVE  LiveWorkers' = 0
<1>1. slots = {} /\ Registered = RetainedIdle
  BY IdleMeans
<1>2. slots' = {} /\ Registered' = RetainedIdle'
  BY <1>1 DEF Shrinks, Registered, RetainedIdle
<1>3. st'.running = 0
  <2>1. Cardinality(slots') = 0
    BY <1>2, FS_EmptySet
  <2>2. QED
    BY <2>1 DEF ManagerInv, SlotInv
<1>4. Cardinality(Registered' \ RetainedIdle') = 0
  <2>1. Registered' \ RetainedIdle' = {}
    BY <1>2
  <2>2. QED
    BY <2>1, FS_EmptySet
<1>5. Cardinality(Slotted') \in Nat
  <2>1. Slotted' \subseteq Registered'
    BY DEF Slotted, Registered
  <2>2. QED
    BY <2>1, FS_Subset, FS_CardinalityType DEF ManagerInv, JobInv
<1>6. LiveWorkers' = Cardinality(Registered' \ RetainedIdle')
        + (IF st'.running - Cardinality(Slotted') > 0
           THEN st'.running - Cardinality(Slotted') ELSE 0)
  BY DEF LiveWorkers
<1>7. QED
  BY <1>3, <1>4, <1>5, <1>6

(* A start keeps to the limit it was made under.                           *)
LEMMA StartWithin ==
  ASSUME ManagerInv, NEW s \in Spawn, NEW c \in Nat, CanStart(s, c), Start(s, c)
  PROVE  slots' = slots \cup {s} /\ (c = 0 \/ Cardinality(slots') =< c)
<1>1. s \notin slots /\ slots' = slots \cup {s}
  BY StartEffect
<1>2. Cardinality(slots') = st.running + 1
  BY <1>1, FS_AddElement DEF ManagerInv, SlotInv
<1>3. st.running \in Nat /\ (c = 0 \/ st.running < c)
  BY DEF CanStart, Room, ManagerInv, TypeOK, ManagerState
<1>4. QED
  BY <1>1, <1>2, <1>3

LEMMA RemovedShrinks ==
  ASSUME NEW S, Gone(st, st', S), UNCHANGED slots
  PROVE  Shrinks
  BY DEF Gone, Shrinks

(* The three ways to start.                                                *)
Starts(s) ==
  \/ pc[s] # "queueing" /\ CanStart(s, own[s].cap) /\ Start(s, own[s].cap)
  \/ pc[s] = "queueing" /\ CanStart(s, limit) /\ Start(s, limit)

(* What each step may do to the slots and the jobs.                        *)
LEMMA StepKinds ==
  ASSUME ManagerInv, [Next]_managerVars
  PROVE  \/ Shrinks
         \/ CanAdmit /\ UNCHANGED slots
         \/ \E s \in Spawn : Starts(s)
<1> USE DEF skVars, outVars, workVars
<1>0. st \in ManagerState
  BY QueueFacts
<1>1. ASSUME UNCHANGED <<st, slots>> PROVE Shrinks
  BY <1>1 DEF Shrinks
<1>2. ASSUME Release, slots' \subseteq slots PROVE Shrinks
  BY <1>0, <1>2, ReleaseFields DEF Shrinks
<1>3. ASSUME NEW s \in Spawn, WorkerStep(s) \/ CancelJob(s)
      PROVE  Shrinks \/ (CanAdmit /\ UNCHANGED slots) \/ Starts(s)
  <2>1. CASE Admit(s)
    BY <2>1 DEF Admit
  <2>2. CASE Refuse(s) \/ Detach(s) \/ Mark(s) \/ Rouse(s) \/ CancelJob(s)
    BY <1>1, <2>2 DEF Refuse, Detach, Mark, Rouse, CancelJob
  <2>3. CASE FirstTry(s)
    BY <1>1, <2>3 DEF FirstTry, TryStart, Starts
  <2>4. CASE Check(s)
    BY <1>1, <2>4 DEF Check, TryStart, Starts
  <2>5. CASE DropAdmission(s)
    <3>1. CASE st.gen = own[s].gen
      <4>1. Gone(st, st', {s})
        BY <1>0, <2>5, <3>1, RemovedFields DEF DropAdmission, Removed, Gone
      <4>2. QED
        BY <2>5, <4>1, RemovedShrinks DEF DropAdmission
    <3>2. CASE st.gen # own[s].gen
      BY <1>1, <2>5, <3>2 DEF DropAdmission
    <3>3. QED
      BY <3>1, <3>2
  <2>6. CASE GiveUp(s)
    <3> DEFINE qu == Without(st.queue, {s})
    <3>1. st' = [st EXCEPT !.queue = qu] /\ UNCHANGED slots
      BY <2>6 DEF GiveUp
    <3> HIDE DEF qu
    <3>2. QED
      BY <1>0, <3>1 DEF Shrinks, ManagerState
  <2>7. CASE EndRun(s)
    BY <1>2, <2>7 DEF EndRun
  <2>8. CASE Finish(s)
    <3>1. CASE st.gen = own[s].gen
      <4>1. Gone(st, st', {s})
        BY <1>0, <2>8, <3>1, UnregisterFields DEF Finish, Gone
      <4>2. QED
        BY <2>8, <4>1, RemovedShrinks DEF Finish
    <3>2. CASE st.gen # own[s].gen
      BY <1>1, <2>8, <3>2 DEF Finish
    <3>3. QED
      BY <3>1, <3>2
  <2>9. QED
    BY <1>3, <2>1, <2>2, <2>3, <2>4, <2>5, <2>6, <2>7, <2>8
       DEF WorkerStep, Admission, Waiting, Ending
<1>4. ASSUME NEW k \in Sidekick, SidekickStep(k)
      PROVE  Shrinks \/ (CanAdmit /\ UNCHANGED slots) \/ Starts(k)
  <2>1. CASE RegisterSidekick(k) \/ BeginFirstTurn(k) \/ NoticeDead(k)
    BY <1>1, <2>1 DEF RegisterSidekick, BeginFirstTurn, NoticeDead
  <2>2. CASE FirstTurnPanics(k)
    BY <1>1, <1>2, <2>2 DEF FirstTurnPanics
  <2>3. CASE QueueTry(k)
    BY <1>1, <2>3 DEF QueueTry, Starts
  <2>4. CASE QueueTurn(k)
    BY <2>4 DEF QueueTurn
  <2>5. CASE FinishTurn(k)
    <3>1. k \in Registered => LeavesTurn(k)
      BY <1>0, <2>5, LeaveTurnFields DEF FinishTurn
    <3>2. CASE k \in Registered
      BY <1>0, <2>5, <3>1, <3>2 DEF LeavesTurn, Shrinks, FinishTurn, Registered, ManagerState
    <3>3. CASE k \notin Registered
      BY <1>1, <2>5, <3>3 DEF FinishTurn
    <3>4. QED
      BY <3>2, <3>3
  <2>6. CASE StopSidekick(k)
    <3>1. Gone(st, st', {k})
      BY <1>0, <2>6, StopFields DEF StopSidekick
    <3>2. QED
      BY <2>6, <3>1, RemovedShrinks DEF StopSidekick
  <2>7. QED
    BY <1>4, <2>1, <2>2, <2>3, <2>4, <2>5, <2>6 DEF SidekickStep, Starting
<1>5. CASE \E r \in reports : ReportStep(r)
  BY <1>1, <1>5 DEF ReportStep, CheckReport, SendReport
<1>6. CASE CancelAll
  <2>1. Gone(st, st', Registered \ Sidekick)
    BY <1>0, <1>6, CancelAllFields
  <2>2. QED
    BY <1>6, <2>1, RemovedShrinks DEF CancelAll
<1>7. CASE \E l \in LimitValues : SetLimit(l)
  BY <1>1, <1>7 DEF SetLimit
<1>8. ASSUME ResetEffect, UNCHANGED slots PROVE Shrinks
  BY <1>0, <1>8, ResetFields, RemovedShrinks
<1>9. CASE Reset \/ CloseReset
  BY <1>8, <1>9 DEF Reset, CloseReset
<1>10. CASE Close
  <2>1. st'.job = st.job /\ st'.active = st.active /\ UNCHANGED slots
    BY <1>0, <1>10 DEF Close, ManagerState
  <2>2. QED
    BY <2>1 DEF Shrinks
<1>11. CASE HostWaits \/ Quiet
  BY <1>1, <1>11 DEF HostWaits, WaitIdle, WaitMark, WaitCheck, WaitRouse, Quiet, managerVars
<1>12. CASE UNCHANGED managerVars
  BY <1>1, <1>12 DEF managerVars
<1>13. QED
  BY <1>3, <1>4, <1>5, <1>6, <1>7, <1>9, <1>10, <1>11, <1>12 DEF Next, ManagerNext, Spawn

LEMMA StepWithin ==
  ASSUME ManagerInv, [Next]_managerVars
  PROVE  \A s \in slots' \ slots :
           LET c == IF pc[s] = "queueing" THEN limit ELSE own[s].cap
           IN  c = 0 \/ Cardinality(slots') =< c
<1>1. CASE slots' \subseteq slots
  BY <1>1
<1>2. ASSUME NEW x \in Spawn, Starts(x)
      PROVE  \A s \in slots' \ slots :
               LET c == IF pc[s] = "queueing" THEN limit ELSE own[s].cap
               IN  c = 0 \/ Cardinality(slots') =< c
  <2>1. limit \in Nat /\ own[x].cap \in Nat
    BY LimitIsNat DEF LimitNat, ManagerInv, TypeOK
  <2>2. CASE pc[x] # "queueing" /\ CanStart(x, own[x].cap) /\ Start(x, own[x].cap)
    BY <2>1, <2>2, StartWithin
  <2>3. CASE pc[x] = "queueing" /\ CanStart(x, limit) /\ Start(x, limit)
    BY <2>1, <2>3, StartWithin
  <2>4. QED
    BY <1>2, <2>2, <2>3 DEF Starts
<1>3. QED
  BY <1>1, <1>2, StepKinds DEF Shrinks

LEMMA StepIdle ==
  ASSUME ManagerInv, ManagerInv', [Next]_managerVars, st.closed, LiveWorkers = 0
  PROVE  LiveWorkers' = 0
<1>1. ~CanAdmit
  BY DEF CanAdmit
<1>2. \A s \in Spawn : ~Starts(s)
  <2>1. \A s \in Spawn : own[s].cap \in Nat /\ limit \in Nat
    BY LimitIsNat DEF LimitNat, ManagerInv, TypeOK
  <2>2. QED
    BY <2>1, IdleMeans DEF Starts
<1>3. QED
  BY <1>1, <1>2, StepKinds, StaysIdle

-----------------------------------------------------------------------------
(* The theorems                                                            *)

(***************************************************************************)
(* The invariant: entries of the queue are those of workers still to come, *)
(* slots are where their guards can be, a sidekick that runs or waits is   *)
(* active, and a sidekick is out of reach until its first turn has begun.  *)
(***************************************************************************)
THEOREM ManagerInvariance == Spec => []ManagerInv
  BY InvInit, InvStep, PTL DEF Spec

(***************************************************************************)
(* try_start and Slot::drop: `running` is the number of slot guards alive, *)
(* through cancel_all, reset and close, which forget jobs but no slots.    *)
(***************************************************************************)
THEOREM SlotsSafety == Spec => []SlotsExact
<1>1. ManagerInv => SlotsExact
  BY DEF ManagerInv, SlotInv, SlotsExact, SlotAccounting
<1>2. QED
  BY <1>1, ManagerInvariance, PTL

(***************************************************************************)
(* Every entry of the queue has a worker that comes for it, and wait_idle  *)
(* returns only when nothing holds a slot or can still start.              *)
(***************************************************************************)
THEOREM NothingForgottenSafety == Spec => []NothingForgotten
<1>1. ManagerInv => NothingForgotten
  BY InvHasQueue, InvHasIdle DEF NothingForgotten
<1>2. QED
  BY <1>1, ManagerInvariance, PTL

(***************************************************************************)
(* No worker is started beyond the limit read for it, and a closed manager *)
(* that is idle stays idle.                                                *)
(***************************************************************************)
THEOREM StartsSafety == Spec => StartsAllowed
<1>1. ManagerInv /\ [Next]_managerVars =>
        [\A s \in slots' \ slots :
           LET c == IF pc[s] = "queueing" THEN limit ELSE own[s].cap
           IN  c = 0 \/ Cardinality(slots') =< c]_managerVars
  BY StepWithin
<1>2. ManagerInv /\ ManagerInv' /\ [Next]_managerVars =>
        [st.closed /\ ~closing /\ LiveWorkers = 0 => LiveWorkers' = 0]_managerVars
  BY StepIdle
<1>3. Spec => LimitRespected
  BY <1>1, ManagerInvariance, PTL DEF Spec, LimitRespected
<1>4. Spec => ClosedStaysIdle
  BY <1>2, ManagerInvariance, PTL DEF Spec, ClosedStaysIdle
<1>5. QED
  BY <1>3, <1>4, PTL DEF StartsAllowed

-----------------------------------------------------------------------------
(* The completion inbox: what each spawn may still deliver, and what it    *)
(* has reserved for it.                                                    *)

(* A worker that has yet to end its turn ...                               *)
InTurn(s) == pc[s] \notin {"new", "over", "rollback", "idle", "panicked"}
(* ... and what became of the turns that are over.                         *)
Notes(s)   == {n \in Undelivered : n.spawn = s}
Pending(s) == {r \in reports : r.spawn = s}

(* A notification of the spawn would be accepted.                          *)
Counted(s) == s \notin st.suppressed /\ (s \in Job => own[s].gen = st.gen)
Due(s) == Cardinality(Notes(s)) + Cardinality(Pending(s)) + (IF InTurn(s) THEN 1 ELSE 0)
Booked(s) ==
  /\ IsFiniteSet(Notes(s)) /\ IsFiniteSet(Pending(s))
  /\ Counted(s) => Due(s) =< st.unack[s]
Books == \A s \in Spawn : Booked(s)

(* A job notifies once, at its end; a sidekick once for each turn.         *)
JobNotes ==
  \A n \in Undelivered :
    n.spawn \in Job =>
      pc[n.spawn] = "over" /\ n.gen = own[n.spawn].gen /\ n.epoch = own[n.spawn].epoch
Past(k, t) == pc[k] # "new" /\ t =< sk[k].turn /\ (InTurn(k) => t < sk[k].turn)
TurnsPast ==
  /\ \A n \in Undelivered : n.spawn \in Sidekick => Past(n.spawn, n.turn)
  /\ \A r \in reports : Past(r.spawn, r.turn)
OncePerTurn ==
  /\ \A r, q \in reports : r.spawn = q.spawn /\ r.turn = q.turn => r = q
  /\ \A r \in reports, n \in Undelivered : r.spawn = n.spawn => r.turn # n.turn
NotesInv == JobNotes /\ TurnsPast /\ OncePerTurn

(* The generation a job captured stands for the conversation it is of.     *)
OwnStamps ==
  \A s \in Spawn :
    /\ own[s].gen =< st.gen /\ own[s].epoch =< epoch
    /\ s \in Job /\ own[s].gen = st.gen => own[s].epoch = epoch
NoteStamps ==
  /\ \A r \in reports : r.epoch =< epoch
  /\ \A n \in Undelivered : n.gen =< st.gen /\ n.epoch =< epoch
StampInv == OwnStamps /\ NoteStamps

WithinCapacity == Reserved =< Capacity

(* No conversation is replaced, or no sidekick was admitted.               *)
Calm == host = "free" /\ epoch = 0
Alone == \A k \in Sidekick : pc[k] = "new"

LedgerParts == Books /\ NotesInv /\ StampInv /\ WithinCapacity
LedgerInv == InboxTypeOK /\ LedgerParts

-----------------------------------------------------------------------------
(* What the ledger says of a state.                                        *)

LEMMA LedgerTypes ==
  ASSUME LedgerInv
  PROVE  /\ \A s \in Spawn : /\ st.unack[s] \in Nat /\ own[s].gen \in Nat /\ own[s].epoch \in Nat
                             /\ Cardinality(Notes(s)) \in Nat
                             /\ Cardinality(Pending(s)) \in Nat
         /\ \A k \in Sidekick : k \in Spawn /\ k \notin Job /\ sk[k].turn \in Nat
         /\ \A s \in Spawn : s \in Job \/ s \in Sidekick
         /\ st \in ManagerState /\ st.gen \in Nat /\ epoch \in Nat
         /\ \A n \in Undelivered :
              n \in Notification /\ n.spawn \in Spawn /\ n.turn \in Nat /\ n.gen \in Nat /\ n.epoch \in Nat
         /\ \A r \in reports :
              r.spawn \in Sidekick /\ r.turn \in Nat /\ r.epoch \in Nat
<1>1. \A s \in Spawn : Cardinality(Notes(s)) \in Nat /\ Cardinality(Pending(s)) \in Nat
  BY FS_CardinalityType DEF LedgerInv, LedgerParts, Books, Booked
<1>2. /\ \A s \in Spawn : st.unack[s] \in Nat /\ own[s].gen \in Nat /\ own[s].epoch \in Nat
      /\ st \in ManagerState /\ st.gen \in Nat /\ epoch \in Nat
  BY DEF LedgerInv, LedgerParts, InboxTypeOK, TypeOK, ManagerState
<1>3. \A k \in Sidekick : k \in Spawn /\ k \notin Job /\ sk[k].turn \in Nat
  BY KindsAssumption DEF LedgerInv, LedgerParts, InboxTypeOK, TypeOK, Spawn
<1>4. \A n \in Undelivered :
        n \in Notification /\ n.spawn \in Spawn /\ n.turn \in Nat /\ n.gen \in Nat /\ n.epoch \in Nat
  BY DEF LedgerInv, LedgerParts, InboxTypeOK, TypeOK, Undelivered, Notification
<1>5. \A r \in reports : r.spawn \in Sidekick /\ r.turn \in Nat /\ r.epoch \in Nat
  BY DEF LedgerInv, LedgerParts, InboxTypeOK, TypeOK
<1>6. QED
  BY <1>1, <1>2, <1>3, <1>4, <1>5 DEF Spawn

(* The notifications keep, where no new one is made.                       *)
LEMMA NotesKeep ==
  ASSUME LedgerInv,
         Undelivered' \subseteq Undelivered, reports' \subseteq reports,
         \A s \in Job : pc[s] = "over" =>
           pc'[s] = "over" /\ own'[s].gen = own[s].gen /\ own'[s].epoch = own[s].epoch,
         \A k \in Sidekick : \A t \in Nat : Past(k, t) => Past(k, t)'
  PROVE  NotesInv'
<1>0. /\ \A n \in Undelivered : n.turn \in Nat
      /\ \A r \in reports : r.spawn \in Sidekick /\ r.turn \in Nat
  BY LedgerTypes
<1>1. JobNotes'
  BY DEF LedgerInv, LedgerParts, NotesInv, JobNotes
<1>2. TurnsPast'
  <2>1. \A n \in Undelivered : n.spawn \in Sidekick => Past(n.spawn, n.turn)'
    BY <1>0 DEF LedgerInv, LedgerParts, NotesInv, TurnsPast
  <2>2. \A r \in reports : Past(r.spawn, r.turn)'
    BY <1>0 DEF LedgerInv, LedgerParts, NotesInv, TurnsPast
  <2>3. QED
    BY <2>1, <2>2 DEF TurnsPast
<1>3. OncePerTurn'
  BY DEF LedgerInv, LedgerParts, NotesInv, OncePerTurn
<1>4. QED
  BY <1>1, <1>2, <1>3 DEF NotesInv

(* The books of a spawn keep when nothing more is due.                     *)
LEMMA BookedKeeps ==
  ASSUME LedgerInv, NEW s \in Spawn, st' \in ManagerState,
         Notes(s)' \subseteq Notes(s), Pending(s)' \subseteq Pending(s),
         InTurn(s)' => InTurn(s),
         Counted(s)' => Counted(s) /\ st'.unack[s] >= st.unack[s]
  PROVE  Booked(s)'
<1>1. IsFiniteSet(Notes(s)) /\ IsFiniteSet(Pending(s))
  BY DEF LedgerInv, LedgerParts, Books, Booked
<1>2. /\ IsFiniteSet(Notes(s)') /\ Cardinality(Notes(s)') =< Cardinality(Notes(s))
      /\ Cardinality(Notes(s)') \in Nat /\ Cardinality(Notes(s)) \in Nat
  BY <1>1, FS_Subset, FS_CardinalityType
<1>3. /\ IsFiniteSet(Pending(s)') /\ Cardinality(Pending(s)') =< Cardinality(Pending(s))
      /\ Cardinality(Pending(s)') \in Nat /\ Cardinality(Pending(s)) \in Nat
  BY <1>1, FS_Subset, FS_CardinalityType
<1>4. ASSUME Counted(s)' PROVE Due(s)' =< st'.unack[s]
  <2>1. Due(s) =< st.unack[s] /\ st'.unack[s] >= st.unack[s]
    BY <1>4 DEF LedgerInv, LedgerParts, Books, Booked
  <2>2. st.unack[s] \in Nat /\ st'.unack[s] \in Nat
    BY DEF LedgerInv, LedgerParts, InboxTypeOK, TypeOK, ManagerState
  <2>3. Due(s)' =< Due(s) /\ Due(s)' \in Nat /\ Due(s) \in Nat
    BY <1>2, <1>3 DEF Due
  <2>4. QED
    BY <2>1, <2>2, <2>3
<1>5. QED
  BY <1>2, <1>3, <1>4 DEF Booked

(* The reservations stay within the capacity when none is added, ...       *)
LEMMA CapacityKeeps ==
  ASSUME LedgerInv, st' \in ManagerState, \A s \in Spawn : st'.unack[s] =< st.unack[s]
  PROVE  WithinCapacity'
<1>1. IsFiniteSet(Spawn)
  BY FiniteAssumption, FS_Union DEF Spawn
<1>2. st.unack \in [Spawn -> Nat] /\ st'.unack \in [Spawn -> Nat]
  BY DEF LedgerInv, LedgerParts, InboxTypeOK, TypeOK, ManagerState
<1>3. Reserved' =< Reserved
  BY <1>1, <1>2, SumCompare DEF Reserved
<1>4. Reserved \in Nat /\ Reserved' \in Nat
  BY <1>1, <1>2, SumType DEF Reserved
<1>5. QED
  BY <1>3, <1>4, CapacityAssumption DEF WithinCapacity, LedgerInv, LedgerParts

(* ... or one by an admission.                                             *)
LEMMA CapacityMore ==
  ASSUME LedgerInv, NEW s \in Spawn, CanAdmit, st'.unack = [st.unack EXCEPT ![s] = @ + 1]
  PROVE  WithinCapacity'
<1>1. IsFiniteSet(Spawn)
  BY FiniteAssumption, FS_Union DEF Spawn
<1>2. st.unack \in [Spawn -> Nat]
  BY DEF LedgerInv, LedgerParts, InboxTypeOK, TypeOK, ManagerState
<1>3. Reserved' = Reserved + 1
  BY <1>1, <1>2, SumOneMore DEF Reserved
<1>4. Reserved \in Nat
  BY <1>1, <1>2, SumType DEF Reserved
<1>5. Reserved < Capacity
  BY DEF CanAdmit
<1>6. QED
  BY <1>3, <1>4, <1>5, CapacityAssumption DEF WithinCapacity

-----------------------------------------------------------------------------
(* What the manager's steps do to the ledger.                              *)

(* The reservations of a state from which jobs were removed.               *)
LEMMA RemovedBooks ==
  ASSUME NEW u \in ManagerState, NEW S
  PROVE  \A s \in Spawn : Removed(u, S).unack[s] = IF s \in S THEN 0 ELSE u.unack[s]
<1> DEFINE un == [s \in Spawn |-> IF s \in S THEN 0 ELSE u.unack[s]]
           w == Unregister(u, S)
<1>1. w \in ManagerState /\ w.unack = u.unack
  BY UnregisterFields
<1>2. Removed(u, S) = [w EXCEPT !.unack = un]
  BY <1>1 DEF Removed, Unreserve
<1>3. un \in [Spawn -> Nat]
  BY DEF ManagerState
<1>4. \A s \in Spawn : un[s] = IF s \in S THEN 0 ELSE u.unack[s]
  OBVIOUS
<1> HIDE DEF un, w
<1>5. Removed(u, S).unack = un
  BY <1>1, <1>2, <1>3 DEF ManagerState
<1>6. QED
  BY <1>4, <1>5

(* Workers only move towards their end.                                    *)
MovesOn ==
  \A s \in Spawn :
    /\ InTurn(s)' => InTurn(s)
    /\ pc'[s] = "new" => pc[s] = "new"
    /\ pc[s] = "over" => pc'[s] = "over"

(* The inbox and the history are what they were.                           *)
Elsewhere == UNCHANGED <<ready, latch, batch, kept, turn, delivered>>

(* Nothing more is due: reservations of S are dropped, if any.             *)
LEMMA LeaveKeeps ==
  ASSUME LedgerInv, st' \in ManagerState, MovesOn, NEW S,
         Undelivered' \subseteq Undelivered, reports' \subseteq reports,
         \A s \in Spawn : st'.unack[s] = IF s \in S THEN 0 ELSE st.unack[s],
         \A s \in Spawn : own'[s].gen = own[s].gen /\ own'[s].epoch = own[s].epoch,
         \A k \in Sidekick : sk'[k].turn = sk[k].turn,
         \A s \in Spawn : Counted(s)' =>
           \/ s \notin S /\ Counted(s)
           \/ Notes(s) = {} /\ Pending(s) = {} /\ ~InTurn(s)',
         \/ st'.gen = st.gen /\ epoch' = epoch
         \/ st'.gen > st.gen /\ epoch' >= epoch /\ epoch' \in Nat
  PROVE  LedgerParts'
<1>0. /\ \A s \in Spawn : st.unack[s] \in Nat /\ own[s].gen \in Nat /\ own[s].epoch \in Nat
      /\ \A k \in Sidekick : k \in Spawn /\ k \notin Job
      /\ st \in ManagerState /\ st.gen \in Nat /\ epoch \in Nat
      /\ \A n \in Undelivered : n.gen \in Nat /\ n.epoch \in Nat
      /\ \A r \in reports : r.epoch \in Nat
  BY LedgerTypes
<1>1. Books'
  <2> SUFFICES ASSUME NEW s \in Spawn PROVE Booked(s)'
    BY DEF Books
  <2>1. Notes(s)' \subseteq Notes(s) /\ Pending(s)' \subseteq Pending(s)
    BY DEF Notes, Pending
  <2>2. InTurn(s)' => InTurn(s)
    BY DEF MovesOn
  <2>3. CASE Counted(s)' => s \notin S /\ Counted(s)
    <3>1. Counted(s)' => Counted(s) /\ st'.unack[s] >= st.unack[s]
      BY <1>0, <2>3
    <3>2. QED
      BY <2>1, <2>2, <3>1, BookedKeeps
  <2>4. CASE Notes(s) = {} /\ Pending(s) = {} /\ ~InTurn(s)'
    <3>1. Notes(s)' = {} /\ Pending(s)' = {} /\ ~InTurn(s)'
      BY <2>1, <2>4
    <3>2. IsFiniteSet({}) /\ Cardinality({}) = 0
      BY FS_EmptySet
    <3>3. Due(s)' = 0 /\ st'.unack[s] \in Nat
      BY <3>1, <3>2 DEF Due, ManagerState
    <3>4. QED
      BY <3>1, <3>2, <3>3 DEF Booked
  <2>5. QED
    BY <2>3, <2>4
<1>2. NotesInv'
  <2>1. \A k \in Sidekick : \A t \in Nat : Past(k, t) => Past(k, t)'
    BY <1>0 DEF Past, MovesOn
  <2>2. \A s \in Job : s \in Spawn
    BY DEF Spawn
  <2>3. QED
    BY <2>1, <2>2, NotesKeep DEF MovesOn
<1>3. StampInv'
  <2>1. st'.gen \in Nat
    BY DEF ManagerState
  <2>2. OwnStamps /\ NoteStamps
    BY DEF LedgerInv, LedgerParts, StampInv
  <2>3. OwnStamps'
    BY <1>0, <2>1, <2>2 DEF OwnStamps
  <2>4. NoteStamps'
    BY <1>0, <2>1, <2>2 DEF NoteStamps
  <2>5. QED
    BY <2>3, <2>4 DEF StampInv
<1>4. WithinCapacity'
  <2>1. \A s \in Spawn : st'.unack[s] =< st.unack[s]
    BY <1>0
  <2>2. QED
    BY <2>1, CapacityKeeps
<1>5. QED
  BY <1>1, <1>2, <1>3, <1>4 DEF LedgerParts

(* Nothing is booked at all.                                               *)
Steady ==
  /\ st'.gen = st.gen /\ st'.unack = st.unack /\ st'.suppressed = st.suppressed
  /\ \A s \in Spawn : own'[s].gen = own[s].gen /\ own'[s].epoch = own[s].epoch
  /\ \A k \in Sidekick : sk'[k].turn = sk[k].turn
  /\ UNCHANGED <<reports, sent, epoch>>

LEMMA SteadyKeeps ==
  ASSUME LedgerInv, st' \in ManagerState, MovesOn, Steady, Elsewhere
  PROVE  LedgerParts'
<1>1. Undelivered' \subseteq Undelivered /\ reports' \subseteq reports
  BY DEF Undelivered, Steady, Elsewhere
<1>2. \A s \in Spawn : st'.unack[s] = IF s \in {} THEN 0 ELSE st.unack[s]
  BY DEF Steady
<1>3. \A s \in Spawn : Counted(s)' =>
        \/ s \notin {} /\ Counted(s)
        \/ Notes(s) = {} /\ Pending(s) = {} /\ ~InTurn(s)'
  <2>1. \A s \in Job : s \in Spawn
    BY DEF Spawn
  <2>2. \A s \in Spawn : Counted(s)' => Counted(s)
    BY <2>1 DEF Counted, Steady
  <2>3. QED
    BY <2>2
<1>4. /\ \A s \in Spawn : own'[s].gen = own[s].gen /\ own'[s].epoch = own[s].epoch
      /\ \A k \in Sidekick : sk'[k].turn = sk[k].turn
      /\ st'.gen = st.gen /\ epoch' = epoch
  BY DEF Steady
<1>5. QED
  BY <1>1, <1>2, <1>3, <1>4, LeaveKeeps

(* A worker that has not begun, or a job that has not ended, owes nothing  *)
(* from earlier turns.                                                     *)
LEMMA NothingYet ==
  ASSUME LedgerInv, NEW s \in Spawn, pc[s] = "new" \/ (s \in Job /\ pc[s] # "over")
  PROVE  Notes(s) = {} /\ Pending(s) = {}
<1>0. /\ \A k \in Sidekick : k \notin Job
      /\ \A x \in Spawn : x \in Job \/ x \in Sidekick
      /\ \A r \in reports : r.spawn \in Sidekick
  BY LedgerTypes
<1>1. JobNotes /\ TurnsPast
  BY DEF LedgerInv, LedgerParts, NotesInv
<1>2. \A n \in Undelivered : n.spawn # s
  BY <1>0, <1>1 DEF JobNotes, TurnsPast, Past
<1>3. \A r \in reports : r.spawn # s
  BY <1>0, <1>1 DEF TurnsPast, Past
<1>4. QED
  BY <1>2, <1>3 DEF Notes, Pending

(* A turn begins and reserves the delivery of its result.                  *)
Begins(s) ==
  /\ CanAdmit /\ st'.unack = [st.unack EXCEPT ![s] = @ + 1]
  /\ st'.gen = st.gen /\ st'.suppressed = st.suppressed
  /\ InTurn(s)' /\ \A x \in Spawn : x # s => pc'[x] = pc[x] /\ own'[x] = own[x]
  /\ own'[s].epoch = epoch
  /\ \A k \in Sidekick : k # s => sk'[k].turn = sk[k].turn
  /\ \/ pc[s] = "new" /\ own'[s].gen = st.gen
     \/ /\ pc[s] = "idle" /\ s \in Sidekick /\ own'[s].gen = own[s].gen
        /\ sk'[s].turn = sk[s].turn + 1
  /\ UNCHANGED <<reports, sent, epoch>>

LEMMA BeginKeeps ==
  ASSUME LedgerInv, st' \in ManagerState, NEW s \in Spawn, Begins(s), Elsewhere
  PROVE  LedgerParts'
<1>0. /\ \A x \in Spawn : st.unack[x] \in Nat /\ own[x].gen \in Nat /\ own[x].epoch \in Nat
                          /\ Cardinality(Notes(x)) \in Nat /\ Cardinality(Pending(x)) \in Nat
      /\ \A k \in Sidekick : k \in Spawn /\ k \notin Job /\ sk[k].turn \in Nat
      /\ st \in ManagerState /\ st.gen \in Nat /\ epoch \in Nat
      /\ \A r \in reports : r.spawn \in Sidekick
      /\ st.unack \in [Spawn -> Nat]
  <2>1. st.unack \in [Spawn -> Nat]
    BY DEF LedgerInv, InboxTypeOK, TypeOK, ManagerState
  <2>2. QED
    BY <2>1, LedgerTypes
<1>1. Undelivered' = Undelivered /\ reports' = reports
  BY DEF Undelivered, Begins, Elsewhere
<1>2. \A x \in Spawn : Notes(x)' = Notes(x) /\ Pending(x)' = Pending(x)
  BY <1>1 DEF Notes, Pending
<1>3. st'.unack[s] = st.unack[s] + 1 /\ \A x \in Spawn : x # s => st'.unack[x] = st.unack[x]
  BY <1>0 DEF Begins
<1>4. ASSUME NEW x \in Spawn, x # s PROVE Booked(x)'
  <2>1. pc'[x] = pc[x] /\ own'[x] = own[x] /\ st'.gen = st.gen /\ st'.suppressed = st.suppressed
    BY <1>4 DEF Begins
  <2>2. (InTurn(x)' => InTurn(x)) /\ (Counted(x)' => Counted(x))
    BY <2>1 DEF InTurn, Counted
  <2>3. st'.unack[x] >= st.unack[x]
    BY <1>0, <1>3, <1>4
  <2>4. QED
    BY <1>2, <2>2, <2>3, BookedKeeps
<1>5. Booked(s)'
  <2>1. IsFiniteSet(Notes(s)) /\ IsFiniteSet(Pending(s)) /\ (Counted(s) => Due(s) =< st.unack[s])
    BY DEF LedgerInv, LedgerParts, Books, Booked
  <2>2. Due(s)' = Cardinality(Notes(s)) + Cardinality(Pending(s)) + 1
    BY <1>2 DEF Due, Begins
  <2>3. CASE pc[s] = "new"
    <3>1. Notes(s) = {} /\ Pending(s) = {}
      BY <2>3, NothingYet
    <3>2. Cardinality(Notes(s)) = 0 /\ Cardinality(Pending(s)) = 0
      BY <3>1, FS_EmptySet
    <3>3. Due(s)' =< st'.unack[s]
      BY <1>0, <1>3, <2>2, <3>2
    <3>4. QED
      BY <1>2, <2>1, <3>3 DEF Booked
  <2>4. CASE pc[s] = "idle" /\ s \in Sidekick
    <3>1. Counted(s)' => Counted(s)
      BY <1>0, <2>4 DEF Counted, Begins
    <3>2. Due(s) = Cardinality(Notes(s)) + Cardinality(Pending(s))
      BY <1>0, <2>4 DEF Due, InTurn
    <3>3. Counted(s)' => Due(s)' =< st'.unack[s]
      BY <1>0, <1>3, <2>1, <2>2, <3>1, <3>2
    <3>4. QED
      BY <1>2, <2>1, <3>3 DEF Booked
  <2>5. QED
    BY <2>3, <2>4 DEF Begins
<1>6. Books'
  BY <1>4, <1>5 DEF Books
<1>7. NotesInv'
  <2>1. \A x \in Job : pc[x] = "over" =>
          pc'[x] = "over" /\ own'[x].gen = own[x].gen /\ own'[x].epoch = own[x].epoch
    <3>1. \A x \in Job : x \in Spawn
      BY DEF Spawn
    <3>2. QED
      BY <3>1 DEF Begins
  <2>2. ASSUME NEW k \in Sidekick, NEW t \in Nat, Past(k, t) PROVE Past(k, t)'
    <3>1. CASE k # s
      BY <1>0, <2>2, <3>1 DEF Past, Begins, InTurn
    <3>2. CASE k = s
      <4>1. pc[s] = "idle" /\ sk'[s].turn = sk[s].turn + 1 /\ t =< sk[s].turn
        BY <2>2, <3>2 DEF Past, Begins
      <4>2. pc'[s] # "new"
        BY DEF Begins, InTurn
      <4>3. sk[s].turn \in Nat
        BY <1>0, <3>2
      <4>4. QED
        BY <3>2, <4>1, <4>2, <4>3 DEF Past
    <3>3. QED
      BY <3>1, <3>2
  <2>3. QED
    BY <1>1, <2>1, <2>2, NotesKeep
<1>8. StampInv'
  <2>1. OwnStamps /\ NoteStamps
    BY DEF LedgerInv, LedgerParts, StampInv
  <2>2. OwnStamps'
    <3> SUFFICES ASSUME NEW x \in Spawn
                 PROVE  /\ own'[x].gen =< st'.gen /\ own'[x].epoch =< epoch'
                        /\ x \in Job /\ own'[x].gen = st'.gen => own'[x].epoch = epoch'
      BY DEF OwnStamps
    <3>1. CASE x # s
      BY <2>1, <3>1 DEF OwnStamps, Begins
    <3>2. CASE x = s
      BY <1>0, <2>1, <3>2 DEF OwnStamps, Begins
    <3>3. QED
      BY <3>1, <3>2
  <2>3. NoteStamps'
    BY <1>1, <2>1 DEF NoteStamps, Begins
  <2>4. QED
    BY <2>2, <2>3 DEF StampInv
<1>9. WithinCapacity'
  BY CapacityMore DEF Begins
<1>10. QED
  BY <1>6, <1>7, <1>8, <1>9 DEF LedgerParts

(* All but one worker is where it was.                                     *)
OnlyMoves(s) ==
  /\ st'.gen = st.gen /\ st'.unack = st.unack /\ st'.suppressed = st.suppressed
  /\ \A x \in Spawn : x # s => pc'[x] = pc[x]
  /\ \A x \in Spawn : own'[x] = own[x]
  /\ \A k \in Sidekick : sk'[k].turn = sk[k].turn
  /\ UNCHANGED epoch

LEMMA OthersKeep ==
  ASSUME LedgerInv, st' \in ManagerState, NEW s, OnlyMoves(s),
         NEW x \in Spawn, x # s, Notes(x)' = Notes(x), Pending(x)' = Pending(x)
  PROVE  Booked(x)'
<1>1. pc'[x] = pc[x] /\ own'[x] = own[x] /\ st'.gen = st.gen /\ st'.suppressed = st.suppressed
      /\ st'.unack[x] = st.unack[x]
  BY DEF OnlyMoves
<1>2. (InTurn(x)' => InTurn(x)) /\ (Counted(x)' => Counted(x))
  BY <1>1 DEF InTurn, Counted
<1>3. st'.unack[x] >= st.unack[x]
  BY <1>1, LedgerTypes
<1>4. QED
  BY <1>2, <1>3, BookedKeeps

LEMMA OnlyMovesRest ==
  ASSUME LedgerInv, st' \in ManagerState, NEW s, OnlyMoves(s)
  PROVE  OwnStamps' /\ WithinCapacity'
<1>1. OwnStamps'
  BY DEF LedgerInv, LedgerParts, StampInv, OwnStamps, OnlyMoves
<1>2. \A x \in Spawn : st'.unack[x] =< st.unack[x]
  BY LedgerTypes DEF OnlyMoves
<1>3. QED
  BY <1>1, <1>2, CapacityKeeps

(* A job ends: what was due from its turn is due from its notification.    *)
JobEnds(s) ==
  /\ OnlyMoves(s) /\ s \in Job /\ InTurn(s) /\ pc'[s] = "over"
  /\ sent' = sent \cup
       {[spawn |-> s, turn |-> 1, gen |-> own[s].gen, epoch |-> own[s].epoch]}
  /\ UNCHANGED reports

LEMMA JobEndKeeps ==
  ASSUME LedgerInv, st' \in ManagerState, NEW s \in Spawn, JobEnds(s), Elsewhere
  PROVE  LedgerParts'
<1> DEFINE new == [spawn |-> s, turn |-> 1, gen |-> own[s].gen, epoch |-> own[s].epoch]
<1>0. /\ new.spawn = s /\ new.gen = own[s].gen /\ new.epoch = own[s].epoch
      /\ OnlyMoves(s)
  BY DEF JobEnds
<1>1. Undelivered' = Undelivered \cup {new} /\ reports' = reports
  BY DEF Undelivered, JobEnds, Elsewhere
<1> HIDE DEF new
<1>2. pc[s] # "over" /\ pc[s] # "new" /\ s \in Job /\ pc'[s] = "over"
  BY DEF JobEnds, InTurn
<1>3. Notes(s) = {} /\ Pending(s) = {}
  BY <1>2, NothingYet
<1>4. /\ Notes(s)' = {new} /\ Pending(s)' = {}
      /\ \A x \in Spawn : x # s => Notes(x)' = Notes(x) /\ Pending(x)' = Pending(x)
  BY <1>0, <1>1, <1>3 DEF Notes, Pending
<1>5. /\ \A x \in Spawn : st.unack[x] \in Nat
      /\ \A k \in Sidekick : k \in Spawn /\ k \notin Job
      /\ \A r \in reports : r.spawn \in Sidekick
  BY LedgerTypes
<1>6. Booked(s)'
  <2>1. /\ IsFiniteSet({new}) /\ Cardinality({new}) = 1
        /\ IsFiniteSet({}) /\ Cardinality({}) = 0
    BY FS_Singleton, FS_EmptySet
  <2>2. Counted(s) => Due(s) =< st.unack[s]
    BY DEF LedgerInv, LedgerParts, Books, Booked
  <2>3. Due(s) = 1 /\ Due(s)' = 1
    BY <1>2, <1>3, <1>4, <2>1 DEF Due, InTurn, JobEnds
  <2>4. (Counted(s)' => Counted(s)) /\ st'.unack[s] = st.unack[s]
    BY <1>0 DEF OnlyMoves, Counted
  <2>5. QED
    BY <1>4, <1>5, <2>1, <2>2, <2>3, <2>4 DEF Booked
<1>7. Books'
  BY <1>0, <1>4, <1>6, OthersKeep DEF Books
<1>8. NotesInv'
  <2>0. JobNotes /\ TurnsPast /\ OncePerTurn
    BY DEF LedgerInv, LedgerParts, NotesInv
  <2>1. JobNotes'
    <3> SUFFICES ASSUME NEW n \in Undelivered', n.spawn \in Job
                 PROVE  /\ pc'[n.spawn] = "over" /\ n.gen = own'[n.spawn].gen
                        /\ n.epoch = own'[n.spawn].epoch
      BY DEF JobNotes
    <3>0. n.spawn \in Spawn
      BY DEF Spawn
    <3>1. CASE n = new
      BY <1>0, <1>2, <3>0, <3>1 DEF OnlyMoves
    <3>2. CASE n \in Undelivered
      <4>1. n.spawn # s
        BY <1>3, <3>2 DEF Notes
      <4>2. QED
        BY <1>0, <2>0, <3>0, <3>2, <4>1 DEF JobNotes, OnlyMoves
    <3>3. QED
      BY <1>1, <3>1, <3>2
  <2>2. \A k \in Sidekick : \A t : Past(k, t) => Past(k, t)'
    BY <1>0, <1>2, <1>5 DEF Past, InTurn, OnlyMoves
  <2>3. TurnsPast'
    <3>1. \A n \in Undelivered' : n.spawn \in Sidekick => Past(n.spawn, n.turn)'
      BY <1>0, <1>1, <1>2, <1>5, <2>0, <2>2 DEF TurnsPast
    <3>2. \A r \in reports' : Past(r.spawn, r.turn)'
      BY <1>1, <1>5, <2>0, <2>2 DEF TurnsPast
    <3>3. QED
      BY <3>1, <3>2 DEF TurnsPast
  <2>4. OncePerTurn'
    BY <1>0, <1>1, <1>2, <1>5, <2>0 DEF OncePerTurn
  <2>5. QED
    BY <2>1, <2>3, <2>4 DEF NotesInv
<1>9. NoteStamps'
  <2>1. OwnStamps /\ NoteStamps
    BY DEF LedgerInv, LedgerParts, StampInv
  <2>2. QED
    BY <1>0, <1>1, <2>1 DEF OwnStamps, NoteStamps, OnlyMoves
<1>10. QED
  BY <1>0, <1>7, <1>8, <1>9, OnlyMovesRest DEF LedgerParts, StampInv

(* A sidekick's turn ends: its task will report.                           *)
TurnEnds(k) ==
  /\ OnlyMoves(k) /\ InTurn(k) /\ pc'[k] = "idle"
  /\ reports' = reports \cup {Report(k)}
  /\ UNCHANGED sent

LEMMA TurnEndKeeps ==
  ASSUME LedgerInv, st' \in ManagerState, NEW k \in Sidekick, TurnEnds(k), Elsewhere
  PROVE  LedgerParts'
<1> DEFINE new == Report(k)
<1>0. /\ new.spawn = k /\ new.turn = sk[k].turn /\ new.epoch = own[k].epoch
      /\ OnlyMoves(k)
  BY DEF TurnEnds, Report
<1>1. Undelivered' = Undelivered /\ reports' = reports \cup {new}
  BY DEF Undelivered, TurnEnds, Elsewhere
<1> HIDE DEF new
<1>2. InTurn(k) /\ pc[k] # "new" /\ pc'[k] = "idle" /\ pc'[k] # "new" /\ ~InTurn(k)'
  BY DEF TurnEnds, InTurn
<1>3. /\ Pending(k)' = Pending(k) \cup {new} /\ Notes(k)' = Notes(k)
      /\ \A x \in Spawn : x # k => Notes(x)' = Notes(x) /\ Pending(x)' = Pending(x)
  BY <1>0, <1>1 DEF Notes, Pending
<1>4. /\ \A x \in Spawn : st.unack[x] \in Nat /\ Cardinality(Notes(x)) \in Nat
                          /\ Cardinality(Pending(x)) \in Nat
      /\ \A x \in Sidekick : x \in Spawn /\ x \notin Job /\ sk[x].turn \in Nat
      /\ \A r \in reports : r.spawn \in Sidekick /\ r.turn \in Nat
      /\ \A n \in Undelivered : n.turn \in Nat
  BY LedgerTypes
<1>5. Booked(k)'
  <2>1. IsFiniteSet(Notes(k)) /\ IsFiniteSet(Pending(k)) /\ (Counted(k) => Due(k) =< st.unack[k])
    BY <1>4 DEF LedgerInv, LedgerParts, Books, Booked
  <2>2. /\ IsFiniteSet(Pending(k)') /\ Cardinality(Pending(k)') =< Cardinality(Pending(k)) + 1
        /\ Cardinality(Pending(k)') \in Nat
    BY <1>3, <2>1, OneMoreOrFewer, FS_CardinalityType
  <2>3. Due(k)' =< Due(k) /\ Due(k) \in Nat /\ Due(k)' \in Nat
    BY <1>2, <1>3, <1>4, <2>2 DEF Due
  <2>4. (Counted(k)' => Counted(k)) /\ st'.unack[k] = st.unack[k]
    BY <1>0, <1>4 DEF OnlyMoves, Counted
  <2>5. QED
    BY <1>3, <1>4, <2>1, <2>2, <2>3, <2>4 DEF Booked
<1>6. Books'
  BY <1>0, <1>3, <1>5, OthersKeep DEF Books
<1>7. NotesInv'
  <2>0. JobNotes /\ TurnsPast /\ OncePerTurn
    BY DEF LedgerInv, LedgerParts, NotesInv
  <2>1. JobNotes'
    <3>1. \A x \in Job : x \in Spawn /\ x # k
      BY <1>4 DEF Spawn
    <3>2. QED
      BY <1>0, <1>1, <2>0, <3>1 DEF JobNotes, OnlyMoves
  <2>2. \A x \in Sidekick : \A t \in Nat : Past(x, t) => Past(x, t)'
    BY <1>0, <1>2, <1>4 DEF Past, InTurn, OnlyMoves
  <2>3. \A t : t = new.turn => Past(k, t)'
    BY <1>0, <1>2, <1>4 DEF Past, OnlyMoves
  <2>4. TurnsPast'
    <3>1. \A n \in Undelivered' : n.spawn \in Sidekick => Past(n.spawn, n.turn)'
      BY <1>1, <1>4, <2>0, <2>2 DEF TurnsPast
    <3>2. \A r \in reports : Past(r.spawn, r.turn)'
      BY <1>4, <2>0, <2>2 DEF TurnsPast
    <3>3. QED
      BY <1>0, <1>1, <2>3, <3>1, <3>2 DEF TurnsPast
  <2>5. /\ \A r \in reports : r.spawn = k => r.turn # new.turn
        /\ \A n \in Undelivered : n.spawn = k => n.turn # new.turn
    BY <1>0, <1>2, <1>4, <2>0 DEF TurnsPast, Past
  <2>6. OncePerTurn'
    <3>1. \A r, q \in reports' : r.spawn = q.spawn /\ r.turn = q.turn => r = q
      BY <1>0, <1>1, <2>0, <2>5 DEF OncePerTurn
    <3>2. \A r \in reports', n \in Undelivered' : r.spawn = n.spawn => r.turn # n.turn
      BY <1>0, <1>1, <2>0, <2>5 DEF OncePerTurn
    <3>3. QED
      BY <3>1, <3>2 DEF OncePerTurn
  <2>7. QED
    BY <2>1, <2>4, <2>6 DEF NotesInv
<1>8. NoteStamps'
  <2>1. OwnStamps /\ NoteStamps
    BY DEF LedgerInv, LedgerParts, StampInv
  <2>2. own[k].epoch =< epoch
    BY <1>4, <2>1 DEF OwnStamps
  <2>3. QED
    BY <1>0, <1>1, <2>1, <2>2 DEF NoteStamps, OnlyMoves
<1>9. QED
  BY <1>0, <1>6, <1>7, <1>8, OnlyMovesRest DEF LedgerParts, StampInv

(* The task of a turn that is over goes on, or ends without a word.        *)
LEMMA CheckKeeps ==
  ASSUME LedgerInv, NEW r \in reports, CheckReport(r), Elsewhere
  PROVE  LedgerParts'
<1> DEFINE new == [r EXCEPT !.step = "stamp"]
<1>0. /\ \A q \in reports :
           q.spawn \in Sidekick /\ q \in [spawn : Sidekick, turn : Nat, epoch : Nat, step : {"check", "stamp"}]
      /\ \A k \in Sidekick : k \in Spawn /\ k \notin Job
      /\ \A x \in Spawn : st.unack[x] \in Nat
      /\ st \in ManagerState
  BY LedgerTypes DEF LedgerInv, InboxTypeOK, TypeOK
<1>1. new.spawn = r.spawn /\ new.turn = r.turn /\ new.epoch = r.epoch
  BY <1>0
<1>2. /\ Undelivered' = Undelivered /\ UNCHANGED <<st, pc, own, sk, epoch>>
      /\ reports' \subseteq (reports \ {r}) \cup {new}
  BY DEF Undelivered, CheckReport, workVars, outVars, Elsewhere
<1> HIDE DEF new
<1>3. \A x \in Spawn : Notes(x)' = Notes(x) /\ (InTurn(x)' <=> InTurn(x)) /\ (Counted(x)' <=> Counted(x))
  BY <1>2 DEF Notes, InTurn, Counted
<1>4. ASSUME NEW x \in Spawn PROVE Booked(x)'
  <2>1. IsFiniteSet(Notes(x)) /\ IsFiniteSet(Pending(x)) /\ (Counted(x) => Due(x) =< st.unack[x])
    BY DEF LedgerInv, LedgerParts, Books, Booked
  <2>2. IsFiniteSet(Pending(x)') /\ Cardinality(Pending(x)') =< Cardinality(Pending(x))
    <3>1. CASE r \in Pending(x)
      <4>1. Pending(x)' \subseteq (Pending(x) \ {r}) \cup {new}
        BY <1>2 DEF Pending
      <4>2. /\ IsFiniteSet(Pending(x) \ {r})
            /\ Cardinality(Pending(x) \ {r}) = Cardinality(Pending(x)) - 1
            /\ Cardinality(Pending(x)) \in Nat
        BY <2>1, <3>1, OneMoreOrFewer
      <4>3. /\ IsFiniteSet((Pending(x) \ {r}) \cup {new})
            /\ Cardinality((Pending(x) \ {r}) \cup {new}) =< Cardinality(Pending(x) \ {r}) + 1
        BY <4>2, OneMoreOrFewer
      <4>4. /\ IsFiniteSet(Pending(x)')
            /\ Cardinality(Pending(x)') =< Cardinality((Pending(x) \ {r}) \cup {new})
        BY <4>1, <4>3, FS_Subset
      <4>5. /\ Cardinality((Pending(x) \ {r}) \cup {new}) \in Nat
            /\ Cardinality(Pending(x)') \in Nat
        BY <4>3, <4>4, FS_CardinalityType
      <4>6. QED
        BY <4>2, <4>3, <4>4, <4>5
    <3>2. CASE r \notin Pending(x)
      <4>1. Pending(x)' \subseteq Pending(x)
        BY <1>1, <1>2, <3>2 DEF Pending
      <4>2. QED
        BY <2>1, <4>1, FS_Subset
    <3>3. QED
      BY <3>1, <3>2
  <2>3. /\ Cardinality(Pending(x)') \in Nat /\ Cardinality(Pending(x)) \in Nat
        /\ Cardinality(Notes(x)) \in Nat
    BY <2>1, <2>2, FS_CardinalityType
  <2>4. Due(x)' =< Due(x) /\ Due(x)' \in Nat /\ Due(x) \in Nat
    BY <1>3, <2>2, <2>3 DEF Due
  <2>5. st'.unack[x] = st.unack[x] /\ st.unack[x] \in Nat
    BY <1>0, <1>2
  <2>6. QED
    BY <1>3, <2>1, <2>2, <2>4, <2>5 DEF Booked
<1>5. NotesInv'
  <2>0. JobNotes /\ TurnsPast /\ OncePerTurn
    BY DEF LedgerInv, LedgerParts, NotesInv
  <2>1. JobNotes'
    BY <1>2, <2>0 DEF JobNotes
  <2>2. \A x : \A t : Past(x, t) => Past(x, t)'
    BY <1>2 DEF Past, InTurn
  <2>3. TurnsPast'
    BY <1>1, <1>2, <2>0, <2>2 DEF TurnsPast
  <2>4. OncePerTurn'
    <3>1. \A p, q \in reports' : p.spawn = q.spawn /\ p.turn = q.turn => p = q
      <4>1. \A p \in reports \ {r} : p.spawn = r.spawn => p.turn # r.turn
        BY <2>0 DEF OncePerTurn
      <4>2. QED
        BY <1>1, <1>2, <2>0, <4>1 DEF OncePerTurn
    <3>2. \A q \in reports', n \in Undelivered' : q.spawn = n.spawn => q.turn # n.turn
      BY <1>1, <1>2, <2>0 DEF OncePerTurn
    <3>3. QED
      BY <3>1, <3>2 DEF OncePerTurn
  <2>5. QED
    BY <2>1, <2>3, <2>4 DEF NotesInv
<1>6. StampInv'
  <2>1. OwnStamps /\ NoteStamps
    BY DEF LedgerInv, LedgerParts, StampInv
  <2>2. OwnStamps'
    BY <1>2, <2>1 DEF OwnStamps
  <2>3. NoteStamps'
    BY <1>1, <1>2, <2>1 DEF NoteStamps
  <2>4. QED
    BY <2>2, <2>3 DEF StampInv
<1>7. WithinCapacity'
  BY <1>2 DEF LedgerInv, LedgerParts, WithinCapacity, Reserved
<1>8. QED
  BY <1>4, <1>5, <1>6, <1>7 DEF LedgerParts, Books

(* A report is stamped and sent: what was due from it is due from the      *)
(* notification.                                                           *)
LEMMA SendKeeps ==
  ASSUME LedgerInv, NEW r \in reports, SendReport(r), Elsewhere
  PROVE  LedgerParts'
<1> DEFINE new == [spawn |-> r.spawn, turn |-> r.turn, gen |-> st.gen, epoch |-> r.epoch]
<1>0. /\ \A q \in reports : q.spawn \in Sidekick
      /\ \A k \in Sidekick : k \in Spawn /\ k \notin Job
      /\ \A x \in Spawn : st.unack[x] \in Nat /\ Cardinality(Notes(x)) \in Nat
                          /\ Cardinality(Pending(x)) \in Nat
      /\ st.gen \in Nat
  BY LedgerTypes
<1>1. new.spawn = r.spawn /\ new.turn = r.turn /\ new.epoch = r.epoch /\ new.gen = st.gen
  OBVIOUS
<1>2. /\ Undelivered' = Undelivered \cup {new} /\ UNCHANGED <<st, pc, own, sk, epoch>>
      /\ reports' = reports \ {r}
  BY DEF Undelivered, SendReport, workVars, Elsewhere
<1> HIDE DEF new
<1>3. \A x \in Spawn : (InTurn(x)' <=> InTurn(x)) /\ (Counted(x)' <=> Counted(x))
  BY <1>2 DEF InTurn, Counted
<1>4. ASSUME NEW x \in Spawn PROVE Booked(x)'
  <2>1. IsFiniteSet(Notes(x)) /\ IsFiniteSet(Pending(x)) /\ (Counted(x) => Due(x) =< st.unack[x])
    BY DEF LedgerInv, LedgerParts, Books, Booked
  <2>2. CASE x = r.spawn
    <3>1. /\ Notes(x)' = Notes(x) \cup {new} /\ Pending(x)' = Pending(x) \ {r}
          /\ r \in Pending(x)
      BY <1>1, <1>2, <2>2 DEF Notes, Pending
    <3>2. /\ IsFiniteSet(Notes(x)') /\ Cardinality(Notes(x)') =< Cardinality(Notes(x)) + 1
          /\ Cardinality(Notes(x)') \in Nat
      <4>1. /\ IsFiniteSet(Notes(x) \cup {new})
            /\ Cardinality(Notes(x) \cup {new}) =< Cardinality(Notes(x)) + 1
        BY <2>1, OneMoreOrFewer
      <4>2. Cardinality(Notes(x) \cup {new}) \in Nat
        BY <4>1, FS_CardinalityType
      <4>3. QED
        BY <3>1, <4>1, <4>2
    <3>3. /\ IsFiniteSet(Pending(x)') /\ Cardinality(Pending(x)') = Cardinality(Pending(x)) - 1
          /\ Cardinality(Pending(x)') \in Nat
      <4>1. /\ IsFiniteSet(Pending(x) \ {r})
            /\ Cardinality(Pending(x) \ {r}) = Cardinality(Pending(x)) - 1
        BY <2>1, <3>1, OneMoreOrFewer
      <4>2. Cardinality(Pending(x) \ {r}) \in Nat
        BY <4>1, FS_CardinalityType
      <4>3. QED
        BY <3>1, <4>1, <4>2
    <3>4. Due(x)' =< Due(x) /\ Due(x)' \in Nat /\ Due(x) \in Nat
      BY <1>0, <1>3, <3>2, <3>3 DEF Due
    <3>5. st'.unack[x] = st.unack[x] /\ st.unack[x] \in Nat
      BY <1>0, <1>2
    <3>6. QED
      BY <1>3, <2>1, <3>2, <3>3, <3>4, <3>5 DEF Booked
  <2>3. CASE x # r.spawn
    <3>1. Notes(x)' = Notes(x) /\ Pending(x)' = Pending(x)
      BY <1>1, <1>2, <2>3 DEF Notes, Pending
    <3>2. Due(x)' = Due(x) /\ st'.unack[x] = st.unack[x]
      BY <1>2, <1>3, <3>1 DEF Due
    <3>3. QED
      BY <1>3, <2>1, <3>1, <3>2 DEF Booked
  <2>4. QED
    BY <2>2, <2>3
<1>5. NotesInv'
  <2>0. JobNotes /\ TurnsPast /\ OncePerTurn
    BY DEF LedgerInv, LedgerParts, NotesInv
  <2>1. JobNotes'
    BY <1>0, <1>1, <1>2, <2>0 DEF JobNotes
  <2>2. \A x : \A t : Past(x, t) => Past(x, t)'
    BY <1>2 DEF Past, InTurn
  <2>3. TurnsPast'
    BY <1>1, <1>2, <2>0, <2>2 DEF TurnsPast
  <2>4. OncePerTurn'
    <3>1. \A p, q \in reports' : p.spawn = q.spawn /\ p.turn = q.turn => p = q
      BY <1>2, <2>0 DEF OncePerTurn
    <3>2. \A q \in reports', n \in Undelivered' : q.spawn = n.spawn => q.turn # n.turn
      BY <1>1, <1>2, <2>0 DEF OncePerTurn
    <3>3. QED
      BY <3>1, <3>2 DEF OncePerTurn
  <2>5. QED
    BY <2>1, <2>3, <2>4 DEF NotesInv
<1>6. StampInv'
  <2>1. OwnStamps /\ NoteStamps
    BY DEF LedgerInv, LedgerParts, StampInv
  <2>2. OwnStamps'
    BY <1>2, <2>1 DEF OwnStamps
  <2>3. NoteStamps'
    BY <1>0, <1>1, <1>2, <2>1 DEF NoteStamps
  <2>4. QED
    BY <2>2, <2>3 DEF StampInv
<1>7. WithinCapacity'
  BY <1>2 DEF LedgerInv, LedgerParts, WithinCapacity, Reserved
<1>8. QED
  BY <1>4, <1>5, <1>6, <1>7 DEF LedgerParts, Books

(* Jobs S leave with what they reserved, and their notifications count no  *)
(* more: they are suppressed, or of an older generation.                   *)
LEMMA RemovalKeeps ==
  ASSUME LedgerInv, NEW S, st' \in ManagerState,
         \A s \in Spawn : st'.unack[s] = IF s \in S THEN 0 ELSE st.unack[s],
         \A s \in Spawn : /\ pc'[s] = pc[s] /\ own'[s].gen = own[s].gen
                          /\ own'[s].epoch = own[s].epoch,
         \A k \in Sidekick : sk'[k].turn = sk[k].turn,
         UNCHANGED <<reports, sent>>, Elsewhere,
         \/ st'.gen = st.gen /\ epoch' = epoch
         \/ st'.gen > st.gen /\ epoch' >= epoch /\ epoch' \in Nat,
         \A s \in Spawn :
           \/ s \in st'.suppressed
           \/ s \in Job /\ st'.gen > st.gen
           \/ s \notin S /\ s \notin st.suppressed /\ (s \in Job => st'.gen = st.gen)
           \/ s \in Sidekick /\ pc[s] = "new"
  PROVE  LedgerParts'
<1>0. /\ st.gen \in Nat /\ st'.gen \in Nat
      /\ \A s \in Spawn : own[s].gen \in Nat
      /\ \A s \in Job : s \in Spawn
  BY LedgerTypes DEF Spawn, ManagerState
<1>2. MovesOn
  BY DEF MovesOn, InTurn
<1>3. Undelivered' \subseteq Undelivered /\ reports' \subseteq reports
  BY DEF Undelivered, Elsewhere
<1>4. ASSUME NEW s \in Spawn, Counted(s)'
      PROVE  \/ s \notin S /\ Counted(s)
             \/ Notes(s) = {} /\ Pending(s) = {} /\ ~InTurn(s)'
  <2>1. s \notin st'.suppressed
    BY <1>4 DEF Counted
  <2>2. ~(s \in Job /\ st'.gen > st.gen)
    <3>1. s \in Job => own[s].gen = st'.gen
      BY <1>4 DEF Counted
    <3>2. own[s].gen =< st.gen
      BY DEF LedgerInv, LedgerParts, StampInv, OwnStamps
    <3>3. QED
      BY <1>0, <3>1, <3>2
  <2>3. CASE s \notin S /\ s \notin st.suppressed /\ (s \in Job => st'.gen = st.gen)
    BY <1>4, <2>3 DEF Counted
  <2>4. CASE s \in Sidekick /\ pc[s] = "new"
    BY <2>4, NothingYet DEF InTurn
  <2>5. QED
    BY <2>1, <2>2, <2>3, <2>4
<1>6. QED
  BY <1>2, <1>3, <1>4, LeaveKeeps

-----------------------------------------------------------------------------
(* Every step of the manager keeps the ledger.                             *)

SameBooks == st'.gen = st.gen /\ st'.unack = st.unack /\ st'.suppressed = st.suppressed


LEMMA StartBooks ==
  ASSUME st \in ManagerState, NEW s, NEW c, Start(s, c)
  PROVE  SameBooks
<1> DEFINE qu == Tail(st.queue)
           jb == [st.job EXCEPT ![s] = "Running"]
           ru == st.running + 1
<1>1. st' = [st EXCEPT !.queue = qu, !.running = ru, !.job = jb]
  BY DEF Start
<1> HIDE DEF qu, jb, ru
<1>2. QED
  BY <1>1 DEF ManagerState, SameBooks

LEMMA ReleaseBooks ==
  ASSUME st \in ManagerState, Release
  PROVE  SameBooks
<1> DEFINE ru == IF st.running = 0 THEN 0 ELSE st.running - 1
<1>1. st' = [st EXCEPT !.running = ru]
  BY DEF Release
<1> HIDE DEF ru
<1>2. QED
  BY <1>1 DEF ManagerState, SameBooks

(* The worker s goes on to q; nothing is booked.                           *)
GoesOn(s, q) ==
  /\ SameBooks /\ pc' = [pc EXCEPT ![s] = q]
  /\ pc[s] \notin {"over", "rollback", "idle", "panicked"}
  /\ pc[s] = "new" => q = "over"
  /\ q # "new"
  /\ \A x \in Spawn : own'[x].gen = own[x].gen /\ own'[x].epoch = own[x].epoch
  /\ \A k \in Sidekick : sk'[k].turn = sk[k].turn
  /\ UNCHANGED <<reports, sent, epoch>>

LEMMA GoesOnKeeps ==
  ASSUME LedgerInv, st' \in ManagerState, NEW s \in Spawn, NEW q, GoesOn(s, q), Elsewhere
  PROVE  LedgerParts'
<1>1. pc \in [Spawn -> PC]
  BY DEF LedgerInv, InboxTypeOK, TypeOK
<1>2. MovesOn
  BY <1>1 DEF GoesOn, MovesOn, InTurn
<1>3. Steady
  BY DEF GoesOn, Steady, SameBooks
<1>4. QED
  BY <1>2, <1>3, SteadyKeeps

(* Every worker is where it was, and nothing is booked.                    *)
LEMMA StandsKeeps ==
  ASSUME LedgerInv, st' \in ManagerState, SameBooks, pc' = pc, own' = own,
         \A k \in Sidekick : sk'[k].turn = sk[k].turn,
         UNCHANGED <<reports, sent, epoch>>, Elsewhere
  PROVE  LedgerParts'
<1>1. MovesOn /\ Steady
  BY DEF MovesOn, InTurn, Steady, SameBooks
<1>2. QED
  BY <1>1, SteadyKeeps

LEMMA WorkerLedger ==
  ASSUME LedgerInv, st' \in ManagerState, NEW s \in Spawn, WorkerStep(s) \/ CancelJob(s), Elsewhere
  PROVE  LedgerParts'
<1> USE DEF skVars, outVars
<1>0. /\ st \in ManagerState /\ pc \in [Spawn -> PC]
      /\ own \in [Spawn -> [gen : Nat, cap : Nat, epoch : Nat]]
      /\ \A k \in Sidekick : k \in Spawn /\ k \notin Job
  BY LedgerTypes DEF LedgerInv, InboxTypeOK, TypeOK
<1>a. st' = st => SameBooks
  BY DEF SameBooks
<1>1. CASE Admit(s)
  <2>1. /\ st'.unack = [st.unack EXCEPT ![s] = @ + 1]
        /\ st'.gen = st.gen /\ st'.suppressed = st.suppressed
    <3> DEFINE un == [st.unack EXCEPT ![s] = @ + 1]
               jb == [st.job EXCEPT ![s] = "Queued"]
               ac == st.active \cup ({s} \cap Sidekick)
               qu == Append(st.queue, s)
    <3>1. st' = [st EXCEPT !.unack = un, !.job = jb, !.active = ac, !.queue = qu]
      BY <1>1 DEF Admit
    <3> HIDE DEF un, jb, ac, qu
    <3>2. st'.unack = un /\ st'.gen = st.gen /\ st'.suppressed = st.suppressed
      BY <1>0, <3>1 DEF ManagerState
    <3>3. QED
      BY <3>2 DEF un
  <2>2. /\ own'[s].gen = st.gen /\ own'[s].epoch = epoch
        /\ \A x \in Spawn : x # s => own'[x] = own[x] /\ pc'[x] = pc[x]
        /\ pc[s] = "new" /\ pc'[s] = "admitting"
    BY <1>0, <1>1 DEF Admit
  <2>3. CanAdmit /\ UNCHANGED <<reports, sent, epoch, sk>>
    BY <1>1 DEF Admit
  <2>4. Begins(s)
    BY <2>1, <2>2, <2>3 DEF Begins, InTurn
  <2>5. QED
    BY <2>4, BeginKeeps
<1>2. CASE Refuse(s)
  <2>1. GoesOn(s, "over")
    BY <1>2, <1>a DEF Refuse, GoesOn
  <2>2. QED
    BY <2>1, GoesOnKeeps
<1>3. CASE FirstTry(s)
  <2>1. SameBooks
    BY <1>0, <1>3, <1>a, StartBooks DEF FirstTry, TryStart
  <2>2. GoesOn(s, "admitted")
    BY <1>3, <2>1 DEF FirstTry, TryStart, GoesOn
  <2>3. QED
    BY <2>2, GoesOnKeeps
<1>4. CASE Detach(s)
  <2> DEFINE q == IF s \in slots THEN "running" ELSE "mark"
  <2>1. GoesOn(s, q)
    BY <1>4, <1>a DEF Detach, GoesOn
  <2>2. QED
    BY <2>1, GoesOnKeeps
<1>5. CASE DropAdmission(s)
  <2>1. /\ pc[s] = "admitted" /\ pc'[s] \in {"rollback", "over"} /\ s \in Job
        /\ \A x \in Spawn : x # s => pc'[x] = pc[x]
        /\ UNCHANGED <<own, sk, reports, sent, epoch>>
    BY <1>0, <1>5 DEF DropAdmission
  <2>2. MovesOn
    BY <2>1 DEF MovesOn, InTurn
  <2>3. Undelivered' \subseteq Undelivered /\ reports' \subseteq reports
    BY <2>1 DEF Undelivered, Elsewhere
  <2>4. Notes(s) = {} /\ Pending(s) = {} /\ ~InTurn(s)'
    BY <2>1, NothingYet DEF InTurn
  <2>5. CASE st.gen = own[s].gen
    <3>1. st' = Removed(st, {s})
      BY <1>5, <2>5 DEF DropAdmission, Removed
    <3>2. /\ \A x \in Spawn : st'.unack[x] = IF x \in {s} THEN 0 ELSE st.unack[x]
          /\ st'.gen = st.gen /\ st'.suppressed = st.suppressed
      BY <1>0, <3>1, RemovedBooks, RemovedFields
    <3>3. \A x \in Spawn : Counted(x)' =>
            \/ x \notin {s} /\ Counted(x)
            \/ Notes(x) = {} /\ Pending(x) = {} /\ ~InTurn(x)'
      BY <2>1, <2>4, <3>2 DEF Counted
    <3>4. QED
      BY <2>1, <2>2, <2>3, <3>2, <3>3, LeaveKeeps
  <2>6. CASE st.gen # own[s].gen
    <3>1. SameBooks
      BY <1>5, <1>a, <2>6 DEF DropAdmission
    <3>2. Steady
      BY <2>1, <3>1 DEF SameBooks, Steady
    <3>3. QED
      BY <2>2, <3>2, SteadyKeeps
  <2>7. QED
    BY <2>5, <2>6
<1>6. CASE Mark(s)
  <2>1. \A x \in Spawn : own'[x].gen = own[x].gen /\ own'[x].epoch = own[x].epoch
    BY <1>0, <1>6 DEF Mark
  <2>2. GoesOn(s, "check")
    BY <1>6, <1>a, <2>1 DEF Mark, GoesOn
  <2>3. QED
    BY <2>2, GoesOnKeeps
<1>7. CASE Check(s)
  <2>1. SameBooks
    BY <1>0, <1>7, <1>a, StartBooks DEF Check, TryStart
  <2>2. GoesOn(s, "running") \/ GoesOn(s, "wait")
    BY <1>7, <2>1 DEF Check, TryStart, GoesOn
  <2>3. QED
    BY <2>2, GoesOnKeeps
<1>8. CASE Rouse(s)
  <2>1. GoesOn(s, "mark")
    BY <1>8, <1>a DEF Rouse, GoesOn
  <2>2. QED
    BY <2>1, GoesOnKeeps
<1>9. CASE GiveUp(s)
  <2>1. SameBooks
    <3> DEFINE qu == Without(st.queue, {s})
    <3>1. st' = [st EXCEPT !.queue = qu]
      BY <1>9 DEF GiveUp
    <3> HIDE DEF qu
    <3>2. QED
      BY <1>0, <3>1 DEF ManagerState, SameBooks
  <2>2. GoesOn(s, "ending")
    BY <1>9, <2>1 DEF GiveUp, GoesOn
  <2>3. QED
    BY <2>2, GoesOnKeeps
<1>10. CASE EndRun(s)
  <2>1. SameBooks
    BY <1>0, <1>10, ReleaseBooks DEF EndRun
  <2>2. /\ pc[s] \in {"running", "rollback"}
        /\ pc'[s] = IF pc[s] = "running" THEN "ending" ELSE "over"
        /\ \A x \in Spawn : x # s => pc'[x] = pc[x]
        /\ UNCHANGED <<own, sk, reports, sent, epoch>>
    BY <1>0, <1>10 DEF EndRun
  <2>3. MovesOn /\ Steady
    BY <2>1, <2>2 DEF MovesOn, InTurn, Steady, SameBooks
  <2>4. QED
    BY <2>3, SteadyKeeps
<1>11. CASE Finish(s)
  <2>1. SameBooks
    BY <1>0, <1>11, <1>a, UnregisterFields DEF Finish, SameBooks
  <2>2. /\ \A x \in Spawn : x # s => pc'[x] = pc[x]
        /\ pc[s] = "ending" /\ pc'[s] = "over" /\ s \in Job /\ InTurn(s)
        /\ UNCHANGED <<own, sk, reports, epoch>>
    BY <1>0, <1>11 DEF Finish, InTurn
  <2>3. JobEnds(s)
    BY <1>11, <2>1, <2>2 DEF Finish, JobEnds, OnlyMoves, SameBooks
  <2>4. QED
    BY <2>3, JobEndKeeps
<1>12. CASE CancelJob(s)
  BY <1>12, <1>a, StandsKeeps DEF CancelJob
<1>13. QED
  BY <1>1, <1>2, <1>3, <1>4, <1>5, <1>6, <1>7, <1>8, <1>9, <1>10, <1>11, <1>12
     DEF WorkerStep, Admission, Waiting, Ending

(* Sidekicks leave, and are suppressed until the next reset.               *)
LEMMA StopKeeps ==
  ASSUME LedgerInv, st' \in ManagerState, NEW S \in SUBSET Sidekick, StopThem(S),
         UNCHANGED <<pc, own, reports, sent, epoch>>, Elsewhere
  PROVE  LedgerParts'
<1>0. /\ st \in ManagerState
      /\ sk \in [Sidekick -> [life : Life, live : BOOLEAN, stop : BOOLEAN, turn : Nat]]
      /\ \A s \in Spawn : s \in Job \/ s \in Sidekick
      /\ \A k \in Sidekick : k \in Spawn /\ k \notin Job
  BY LedgerTypes DEF LedgerInv, InboxTypeOK, TypeOK
<1>1. Removed(st, S) \in ManagerState /\ Removed(st, S).gen = st.gen
      /\ Removed(st, S).suppressed = st.suppressed
  BY <1>0, RemovedFields
<1>2. st' = [Removed(st, S) EXCEPT !.suppressed = st.suppressed \cup S]
  BY <1>1 DEF StopThem, Removed
<1>3. /\ st'.gen = st.gen /\ st'.suppressed = st.suppressed \cup S
      /\ st'.unack = Removed(st, S).unack
  BY <1>1, <1>2 DEF ManagerState
<1>4. \A s \in Spawn : st'.unack[s] = IF s \in S THEN 0 ELSE st.unack[s]
  BY <1>0, <1>3, RemovedBooks
<1>5. \A k \in Sidekick : sk'[k].turn = sk[k].turn
  BY <1>0 DEF StopThem
<1>6. /\ \A s \in Spawn : /\ pc'[s] = pc[s] /\ own'[s].gen = own[s].gen
                          /\ own'[s].epoch = own[s].epoch
      /\ st'.gen = st.gen /\ epoch' = epoch
  BY <1>3
<1>7. \A s \in Spawn :
        \/ s \in st'.suppressed
        \/ s \in Job /\ st'.gen > st.gen
        \/ s \notin S /\ s \notin st.suppressed /\ (s \in Job => st'.gen = st.gen)
        \/ s \in Sidekick /\ pc[s] = "new"
  BY <1>3
<1>8. QED
  BY <1>4, <1>5, <1>6, <1>7, RemovalKeeps

LEMMA SidekickLedger ==
  ASSUME LedgerInv, st' \in ManagerState, NEW k \in Sidekick, SidekickStep(k), Elsewhere
  PROVE  LedgerParts'
<1> USE DEF skVars, outVars, workVars
<1>0. /\ st \in ManagerState /\ pc \in [Spawn -> PC]
      /\ own \in [Spawn -> [gen : Nat, cap : Nat, epoch : Nat]]
      /\ sk \in [Sidekick -> [life : Life, live : BOOLEAN, stop : BOOLEAN, turn : Nat]]
      /\ k \in Spawn /\ k \notin Job
  BY LedgerTypes DEF LedgerInv, InboxTypeOK, TypeOK
<1>a. st' = st => SameBooks
  BY DEF SameBooks
<1>1. CASE RegisterSidekick(k)
  <2>1. \A x \in Sidekick : sk'[x].turn = sk[x].turn
    BY <1>0, <1>1 DEF RegisterSidekick
  <2>2. GoesOn(k, "registered")
    BY <1>1, <1>a, <2>1 DEF RegisterSidekick, GoesOn
  <2>3. QED
    BY <1>0, <2>2, GoesOnKeeps
<1>2. CASE BeginFirstTurn(k)
  <2> DEFINE q == IF k \in slots THEN "running" ELSE "mark"
  <2>1. \A x \in Sidekick : sk'[x].turn = sk[x].turn
    BY <1>0, <1>2 DEF BeginFirstTurn
  <2>2. GoesOn(k, q)
    BY <1>2, <1>a, <2>1 DEF BeginFirstTurn, GoesOn
  <2>3. QED
    BY <1>0, <2>2, GoesOnKeeps
<1>3. CASE FirstTurnPanics(k)
  <2>1. \A x \in Sidekick : sk'[x].turn = sk[x].turn
    BY <1>0, <1>3 DEF FirstTurnPanics
  <2>2. SameBooks
    BY <1>0, <1>3, <1>a, ReleaseBooks DEF FirstTurnPanics
  <2>3. GoesOn(k, "panicked")
    BY <1>3, <2>1, <2>2 DEF FirstTurnPanics, GoesOn
  <2>4. QED
    BY <1>0, <2>3, GoesOnKeeps
<1>4. CASE QueueTry(k)
  <2>1. SameBooks
    BY <1>0, <1>4, <1>a, StartBooks DEF QueueTry
  <2>2. GoesOn(k, "running") \/ GoesOn(k, "mark")
    BY <1>4, <2>1 DEF QueueTry, GoesOn
  <2>3. QED
    BY <1>0, <2>2, GoesOnKeeps
<1>5. CASE QueueTurn(k)
  <2>1. /\ st'.unack = [st.unack EXCEPT ![k] = @ + 1]
        /\ st'.gen = st.gen /\ st'.suppressed = st.suppressed
    <3> DEFINE un == [st.unack EXCEPT ![k] = @ + 1]
               jb == [st.job EXCEPT ![k] = "Queued"]
               ac == st.active \cup {k}
               qu == Append(st.queue, k)
    <3>1. st' = [st EXCEPT !.unack = un, !.job = jb, !.active = ac, !.queue = qu]
      BY <1>5 DEF QueueTurn
    <3> HIDE DEF un, jb, ac, qu
    <3>2. st'.unack = un /\ st'.gen = st.gen /\ st'.suppressed = st.suppressed
      BY <1>0, <3>1 DEF ManagerState
    <3>3. QED
      BY <3>2 DEF un
  <2>2. /\ own'[k].gen = own[k].gen /\ own'[k].epoch = epoch
        /\ \A x \in Spawn : x # k => own'[x] = own[x] /\ pc'[x] = pc[x]
        /\ pc[k] = "idle" /\ pc'[k] = "queueing"
    BY <1>0, <1>5 DEF QueueTurn
  <2>3. /\ sk'[k].turn = sk[k].turn + 1
        /\ \A x \in Sidekick : x # k => sk'[x].turn = sk[x].turn
    BY <1>0, <1>5 DEF QueueTurn
  <2>4. CanAdmit /\ UNCHANGED <<reports, sent, epoch>>
    BY <1>5 DEF QueueTurn
  <2>5. Begins(k)
    BY <2>1, <2>2, <2>3, <2>4 DEF Begins, InTurn
  <2>6. QED
    BY <1>0, <2>5, BeginKeeps
<1>6. CASE FinishTurn(k)
  <2>1. SameBooks
    <3>1. CASE k \in Registered
      <4> DEFINE jb == [st.job EXCEPT ![k] = "Queued"]
                 ac == st.active \ {k}
                 qu == Without(st.queue, {k})
      <4>1. st' = [st EXCEPT !.job = jb, !.active = ac, !.queue = qu]
        BY <1>6, <3>1 DEF FinishTurn
      <4> HIDE DEF jb, ac, qu
      <4>2. QED
        BY <1>0, <4>1 DEF ManagerState, SameBooks
    <3>2. CASE k \notin Registered
      BY <1>6, <1>a, <3>2 DEF FinishTurn
    <3>3. QED
      BY <3>1, <3>2
  <2>2. /\ \A x \in Spawn : x # k => pc'[x] = pc[x]
        /\ pc[k] = "ending" /\ pc'[k] = "idle" /\ InTurn(k)
        /\ UNCHANGED <<own, sent, epoch>> /\ reports' = reports \cup {Report(k)}
    BY <1>0, <1>6 DEF FinishTurn, InTurn
  <2>3. \A x \in Sidekick : sk'[x].turn = sk[x].turn
    BY <1>0, <1>6 DEF FinishTurn
  <2>4. TurnEnds(k)
    BY <2>1, <2>2, <2>3 DEF TurnEnds, OnlyMoves, SameBooks
  <2>5. QED
    BY <2>4, TurnEndKeeps
<1>7. CASE NoticeDead(k)
  <2>1. \A x \in Sidekick : sk'[x].turn = sk[x].turn
    BY <1>0, <1>7 DEF NoticeDead
  <2>2. QED
    BY <1>7, <1>a, <2>1, StandsKeeps DEF NoticeDead
<1>8. CASE StopSidekick(k)
  <2>1. StopThem({k}) /\ UNCHANGED <<pc, own, reports, sent, epoch>>
    BY <1>8 DEF StopSidekick
  <2>2. QED
    BY <2>1, StopKeeps
<1>9. QED
  BY <1>1, <1>2, <1>3, <1>4, <1>5, <1>6, <1>7, <1>8 DEF SidekickStep, Starting

(* The batch of ordinary jobs is cancelled: the generation moves on.       *)
LEMMA CancelLedger ==
  ASSUME LedgerInv, st' \in ManagerState, CancelAll, Elsewhere
  PROVE  LedgerParts'
<1> DEFINE ids == Registered \ Sidekick
<1>0. /\ st \in ManagerState /\ st.gen \in Nat
      /\ \A s \in Spawn : s \in Job \/ s \in Sidekick
      /\ \A k \in Sidekick : k \in Spawn /\ k \notin Job /\ k \notin ids
  BY LedgerTypes
<1>1. Removed(st, ids) \in ManagerState /\ Removed(st, ids).gen = st.gen
      /\ Removed(st, ids).suppressed = st.suppressed
  BY <1>0, RemovedFields
<1>2. st' = [Removed(st, ids) EXCEPT !.gen = st.gen + 1, !.suppressed = st.suppressed \cup ids]
  BY <1>1 DEF CancelAll, Removed
<1>3. UNCHANGED <<pc, own, sk, reports, sent, epoch>>
  BY DEF CancelAll, skVars, outVars
<1> HIDE DEF ids
<1>4. /\ st'.gen = st.gen + 1 /\ st'.suppressed = st.suppressed \cup ids
      /\ st'.unack = Removed(st, ids).unack
  BY <1>1, <1>2 DEF ManagerState
<1>5. \A s \in Spawn : st'.unack[s] = IF s \in ids THEN 0 ELSE st.unack[s]
  BY <1>0, <1>4, RemovedBooks
<1>6. /\ \A s \in Spawn : /\ pc'[s] = pc[s] /\ own'[s].gen = own[s].gen
                          /\ own'[s].epoch = own[s].epoch
      /\ \A k \in Sidekick : sk'[k].turn = sk[k].turn
      /\ st'.gen > st.gen /\ epoch' >= epoch /\ epoch' \in Nat
  BY <1>0, <1>3, <1>4, LedgerTypes
<1>7. \A s \in Spawn :
        \/ s \in st'.suppressed
        \/ s \in Job /\ st'.gen > st.gen
        \/ s \notin ids /\ s \notin st.suppressed /\ (s \in Job => st'.gen = st.gen)
        \/ s \in Sidekick /\ pc[s] = "new"
  BY <1>0, <1>4, <1>6
<1>8. UNCHANGED <<reports, sent>>
  BY <1>3
<1>9. QED
  BY <1>5, <1>6, <1>7, <1>8, RemovalKeeps

(* A reset forgets the sidekicks with the jobs, but lifts the suppression: *)
(* no sidekick's result may be under way then.                             *)
LEMMA ResetLedger ==
  ASSUME LedgerInv, st' \in ManagerState, ResetEffect, Alone,
         UNCHANGED <<pc, own, sk, reports, sent>>, Elsewhere
  PROVE  LedgerParts'
<1>0. /\ st \in ManagerState /\ st.gen \in Nat /\ epoch \in Nat
      /\ \A s \in Spawn : s \in Job \/ s \in Sidekick
  BY LedgerTypes
<1>1. Removed(st, Spawn) \in ManagerState /\ Removed(st, Spawn).gen = st.gen
  BY <1>0, RemovedFields
<1>2. st' = [Removed(st, Spawn) EXCEPT !.gen = st.gen + 1, !.suppressed = {}]
  BY <1>1 DEF ResetEffect, ResetState, Removed
<1>3. st'.gen = st.gen + 1 /\ st'.unack = Removed(st, Spawn).unack
  BY <1>1, <1>2 DEF ManagerState
<1>4. \A s \in Spawn : st'.unack[s] = IF s \in Spawn THEN 0 ELSE st.unack[s]
  BY <1>0, <1>3, RemovedBooks
<1>5. /\ \A s \in Spawn : /\ pc'[s] = pc[s] /\ own'[s].gen = own[s].gen
                          /\ own'[s].epoch = own[s].epoch
      /\ \A k \in Sidekick : sk'[k].turn = sk[k].turn
      /\ st'.gen > st.gen /\ epoch' >= epoch /\ epoch' \in Nat
  BY <1>0, <1>3 DEF ResetEffect
<1>6. \A s \in Spawn :
        \/ s \in st'.suppressed
        \/ s \in Job /\ st'.gen > st.gen
        \/ s \notin Spawn /\ s \notin st.suppressed /\ (s \in Job => st'.gen = st.gen)
        \/ s \in Sidekick /\ pc[s] = "new"
  BY <1>0, <1>5 DEF Alone
<1>7. QED
  BY <1>4, <1>5, <1>6, RemovalKeeps

(* All of the manager's own steps.                                         *)
LEMMA ManagerLedger ==
  ASSUME LedgerInv, st' \in ManagerState, ManagerNext \/ Quiet, Elsewhere
  PROVE  LedgerParts'
<1>1. ASSUME NEW r \in reports, ReportStep(r) PROVE LedgerParts'
  BY <1>1, CheckKeeps, SendKeeps DEF ReportStep
<1>2. ASSUME NEW l \in LimitValues, SetLimit(l) PROVE LedgerParts'
  BY <1>2, StandsKeeps DEF SetLimit, SameBooks, skVars, outVars
<1>3. CASE Quiet
  BY <1>3, StandsKeeps DEF Quiet, SameBooks, managerVars
<1>4. QED
  BY <1>1, <1>2, <1>3, WorkerLedger, SidekickLedger, CancelLedger DEF ManagerNext

-----------------------------------------------------------------------------
(* The inbox and the parent's run.                                         *)

(* A result is in one place, ...                                           *)
OnePlace ==
  /\ sent \cap ready = {} /\ sent \cap batch = {} /\ sent \cap kept = {}
  /\ ready \cap batch = {} /\ ready \cap kept = {} /\ batch \cap kept = {}

(* ... and on the parent's side only while a drain is under way.           *)
Phases ==
  /\ parent # "filter" => batch = {}
  /\ parent \notin {"filter", "ack"} => kept = {}
  /\ parent # "ack" => turn = {}
  /\ host # "free" => parent = "idle"

(* What passed the filter is of the present conversation.                  *)
Fresh == (\A n \in kept \cup turn : n.epoch = epoch) /\ NoStaleDelivery

(* An idle session was told.                                               *)
Told == (wake => announced) /\ NoLostWakeup

(* The two kinds of behaviour of the instances.                            *)
Casting ==
  /\ cast \in {"workers", "sidekick"}
  /\ cast = "workers" => Alone
  /\ cast = "sidekick" => Calm /\ Told

InboxInv == LedgerInv /\ OnePlace /\ Phases /\ Fresh /\ Casting

(* Types.                                                                  *)
LEMMA StopType ==
  ASSUME TypeOK, NEW S \in SUBSET Sidekick, StopThem(S), Wake,
         UNCHANGED <<limit, pc, own, slots, cancelled, reports, outVars>>
  PROVE  TypeOK'
<1>1. st' \in ManagerState
  BY StopFields DEF TypeOK, Gone
<1>2. sk' \in [Sidekick -> [life : Life, live : BOOLEAN, stop : BOOLEAN, turn : Nat]]
  BY DEF TypeOK, StopThem, Life
<1>3. woken' \in SUBSET (Spawn \cup {Host})
  BY WakeType
<1>4. QED
  BY <1>1, <1>2, <1>3 DEF TypeOK, outVars

LEMMA ResetType ==
  ASSUME TypeOK, ResetEffect,
         UNCHANGED <<limit, pc, own, slots, skVars, sent, closing, waiter>>
  PROVE  TypeOK'
<1>1. st' \in ManagerState
  BY ResetFields DEF TypeOK, Gone
<1>2. woken' \in SUBSET (Spawn \cup {Host})
  BY WakeType DEF ResetEffect
<1>3. cancelled' \in SUBSET Spawn /\ epoch' \in Nat
  BY DEF TypeOK, ResetEffect, Registered
<1>4. QED
  BY <1>1, <1>2, <1>3 DEF TypeOK, skVars

LEMMA AcknowledgeFields ==
  ASSUME NEW u \in ManagerState, NEW n, n.spawn \in Spawn
  PROVE  /\ Acknowledge(u, n) \in ManagerState
         /\ Acknowledge(u, n).gen = u.gen /\ Acknowledge(u, n).suppressed = u.suppressed
         /\ \A s \in Spawn :
              /\ Acknowledge(u, n).unack[s] =< u.unack[s]
              /\ Acknowledge(u, n).unack[s] >= (IF s = n.spawn THEN u.unack[s] - 1 ELSE u.unack[s])
<1>0. u.unack \in [Spawn -> Nat]
  BY DEF ManagerState
<1>1. CASE (u.gen = n.gen \/ FromSidekick(n)) /\ u.unack[n.spawn] > 0
  <2> DEFINE un == [u.unack EXCEPT ![n.spawn] = @ - 1]
  <2>1. Acknowledge(u, n) = [u EXCEPT !.unack = un]
    BY <1>1 DEF Acknowledge
  <2>2. un \in [Spawn -> Nat]
    BY <1>0, <1>1
  <2>3. \A s \in Spawn : un[s] = IF s = n.spawn THEN u.unack[s] - 1 ELSE u.unack[s]
    BY <1>0
  <2> HIDE DEF un
  <2>4. /\ Acknowledge(u, n) \in ManagerState
        /\ Acknowledge(u, n).gen = u.gen /\ Acknowledge(u, n).suppressed = u.suppressed
        /\ Acknowledge(u, n).unack = un
    BY <2>1, <2>2 DEF ManagerState
  <2>5. QED
    BY <1>0, <2>2, <2>3, <2>4
<1>2. CASE ~((u.gen = n.gen \/ FromSidekick(n)) /\ u.unack[n.spawn] > 0)
  <2>1. Acknowledge(u, n) = u
    BY <1>2 DEF Acknowledge
  <2>2. QED
    BY <1>0, <2>1
<1>3. QED
  BY <1>1, <1>2

LEMMA InboxTypeStep == InboxTypeOK /\ [InboxNext]_vars => InboxTypeOK'
<1> SUFFICES ASSUME InboxTypeOK, [InboxNext]_vars PROVE InboxTypeOK'
  OBVIOUS
<1> USE DEF inboxVars, runVars
<1>0. TypeOK
  BY DEF InboxTypeOK
<1>1. CASE UNCHANGED vars
  BY <1>1 DEF InboxTypeOK, TypeOK, vars, managerVars
<1>2. ASSUME UNCHANGED managerVars PROVE TypeOK'
  BY <1>0, <1>2 DEF TypeOK, managerVars
<1>3. CASE ManagerStep \/ (Quiet /\ sent = {} /\ UNCHANGED <<inboxVars, runVars, host>>)
  <2>1. TypeOK'
    BY <1>0, <1>3, TypeStep DEF ManagerStep, Next
  <2>2. QED
    BY <1>3, <2>1 DEF ManagerStep, InboxTypeOK
<1>4. CASE Notify
  <2>1. PICK n \in sent : Push(n)
    BY <1>4 DEF Notify
  <2>2. n \in Notification
    BY <1>0 DEF TypeOK
  <2>3. TypeOK'
    BY <1>0, <2>1 DEF Push, TypeOK, workVars, skVars
  <2>4. QED
    BY <2>1, <2>2, <2>3 DEF Push, InboxTypeOK
<1>5. CASE Latch
  <2>1. PICK n \in latch : RequestWakeup(n)
    BY <1>5 DEF Latch
  <2>2. TypeOK'
    BY <1>2, <2>1 DEF RequestWakeup
  <2>3. wake' \in BOOLEAN /\ announced' \in BOOLEAN
    BY <2>1, Zenon DEF RequestWakeup, InboxTypeOK
  <2>4. QED
    BY <2>1, <2>2, <2>3 DEF RequestWakeup, InboxTypeOK
<1>6. CASE RunStart
  <2>1. TypeOK'
    BY <1>2, <1>6 DEF RunStart
  <2>2. QED
    BY <1>6, <2>1 DEF RunStart, InboxTypeOK, ParentPC
<1>7. CASE DrainTake
  <2>1. TypeOK'
    BY <1>2, <1>7 DEF DrainTake
  <2>2. QED
    BY <1>7, <2>1 DEF DrainTake, InboxTypeOK, ParentPC
<1>8. CASE DrainFilter
  <2>1. TypeOK'
    BY <1>2, <1>8 DEF DrainFilter
  <2>2. /\ batch' \in SUBSET Notification /\ kept' \in SUBSET Notification
        /\ parent' \in ParentPC
    BY <1>8 DEF DrainFilter, InboxTypeOK, ParentPC
  <2>3. QED
    BY <1>8, <2>1, <2>2 DEF DrainFilter, InboxTypeOK
<1>9. CASE DrainAcknowledge
  <2>1. PICK n \in kept : kept' = kept \ {n} /\ turn' = turn \cup {n} /\ st' = Acknowledge(st, n)
    BY <1>9 DEF DrainAcknowledge
  <2>2. n \in Notification /\ n.spawn \in Spawn
    BY DEF InboxTypeOK, Notification
  <2>3. st' \in ManagerState
    BY <1>0, <2>1, <2>2, AcknowledgeFields DEF TypeOK
  <2>4. TypeOK'
    BY <1>0, <1>9, <2>3 DEF DrainAcknowledge, TypeOK, workVars, skVars, outVars
  <2>5. QED
    BY <1>9, <2>1, <2>2, <2>4 DEF DrainAcknowledge, InboxTypeOK
<1>10. CASE Deliver
  <2>1. TypeOK'
    BY <1>2, <1>10 DEF Deliver
  <2>2. \A n \in turn : n.spawn \in Spawn /\ n.turn \in Nat /\ n.epoch \in Nat /\ epoch \in Nat
    BY <1>0 DEF InboxTypeOK, Notification, TypeOK
  <2>3. delivered' \in SUBSET Delivery
    BY <1>10, <2>2 DEF Deliver, InboxTypeOK, Delivery
  <2>4. QED
    BY <1>10, <2>1, <2>3 DEF Deliver, InboxTypeOK, ParentPC
<1>11. CASE RunEnd
  <2>1. TypeOK'
    BY <1>2, <1>11 DEF RunEnd
  <2>2. QED
    BY <1>11, <2>1 DEF RunEnd, InboxTypeOK, ParentPC
<1>12. CASE RearmClear \/ RearmLook
  <2>1. TypeOK'
    BY <1>2, <1>12 DEF RearmClear, RearmLook
  <2>2. QED
    BY <1>12, <2>1 DEF RearmClear, RearmLook, InboxTypeOK, ParentPC
<1>13. CASE RearmAnnounce
  <2>1. TypeOK'
    BY <1>2, <1>13 DEF RearmAnnounce
  <2>2. wake' \in BOOLEAN /\ announced' \in BOOLEAN
    BY <1>13, Zenon DEF RearmAnnounce, InboxTypeOK
  <2>3. QED
    BY <1>13, <2>1, <2>2 DEF RearmAnnounce, InboxTypeOK, ParentPC
<1>14. ASSUME NEW next \in {"reset", "close"}, HostBegins(next) PROVE InboxTypeOK'
  <2>1. {k \in Sidekick : sk[k].live} \in SUBSET Sidekick
    OBVIOUS
  <2>2. TypeOK'
    BY <1>0, <1>14, <2>1, StopType DEF HostBegins
  <2>3. QED
    BY <1>14, <2>2 DEF HostBegins, InboxTypeOK, HostPC
<1>15. CASE HostClose
  <2>1. st' \in ManagerState
    BY <1>0, <1>15 DEF HostClose, TypeOK, ManagerState
  <2>2. TypeOK'
    BY <1>0, <1>15, <2>1 DEF HostClose, TypeOK, workVars, skVars, outVars
  <2>3. QED
    BY <1>15, <2>2 DEF HostClose, InboxTypeOK, HostPC
<1>16. CASE HostReset
  <2>1. TypeOK'
    BY <1>0, <1>16, ResetType DEF HostReset
  <2>2. QED
    BY <1>16, <2>1 DEF HostReset, InboxTypeOK, HostPC
<1>17. CASE HostEmpties \/ HostUnlatches
  <2>1. TypeOK'
    BY <1>2, <1>17 DEF HostEmpties, HostUnlatches
  <2>2. QED
    BY <1>17, <2>1 DEF HostEmpties, HostUnlatches, InboxTypeOK, HostPC
<1>18. QED
  BY <1>1, <1>3, <1>4, <1>5, <1>6, <1>7, <1>8, <1>9, <1>10, <1>11, <1>12, <1>13, <1>14,
     <1>15, <1>16, <1>17 DEF InboxNext, Drain, Rearm, Replace

(* The inbox's own steps book nothing.                                     *)
LEMMA InboxLedger ==
  ASSUME LedgerInv, Undelivered' \subseteq Undelivered,
         UNCHANGED <<st, pc, own, sk, reports, epoch>>
  PROVE  LedgerParts'
<1>1. st \in ManagerState
  BY LedgerTypes
<1>2. MovesOn
  BY DEF MovesOn, InTurn
<1>3. \A s \in Spawn : st'.unack[s] = IF s \in {} THEN 0 ELSE st.unack[s]
  OBVIOUS
<1>4. \A s \in Spawn : Counted(s)' =>
        \/ s \notin {} /\ Counted(s)
        \/ Notes(s) = {} /\ Pending(s) = {} /\ ~InTurn(s)'
  BY DEF Counted
<1>5. QED
  BY <1>1, <1>2, <1>3, <1>4, LeaveKeeps

(* An acknowledged result gives back its reservation.                      *)
LEMMA AcknowledgeLedger ==
  ASSUME LedgerInv, OnePlace, DrainAcknowledge
  PROVE  LedgerParts'
<1>1. PICK n \in kept : kept' = kept \ {n} /\ turn' = turn \cup {n} /\ st' = Acknowledge(st, n)
  BY DEF DrainAcknowledge
<1>2. UNCHANGED <<pc, own, sk, reports, epoch, sent, ready, batch>>
  BY DEF DrainAcknowledge, workVars, skVars, outVars, inboxVars
<1>3. /\ st \in ManagerState /\ st.gen \in Nat /\ n.spawn \in Spawn
      /\ \A s \in Spawn : st.unack[s] \in Nat /\ Cardinality(Notes(s)) \in Nat
                          /\ Cardinality(Pending(s)) \in Nat
  BY LedgerTypes DEF Undelivered
<1>4. /\ st' \in ManagerState /\ st'.gen = st.gen /\ st'.suppressed = st.suppressed
      /\ \A s \in Spawn :
           /\ st'.unack[s] =< st.unack[s]
           /\ st'.unack[s] >= (IF s = n.spawn THEN st.unack[s] - 1 ELSE st.unack[s])
  BY <1>1, <1>3, AcknowledgeFields
<1>5. Undelivered' = Undelivered \ {n} /\ n \in Undelivered
  BY <1>1, <1>2 DEF Undelivered, OnePlace
<1>6. \A s \in Spawn : (InTurn(s)' <=> InTurn(s)) /\ (Counted(s)' <=> Counted(s))
                       /\ Pending(s)' = Pending(s)
  BY <1>2, <1>4 DEF InTurn, Counted, Pending
<1>7. ASSUME NEW s \in Spawn PROVE Booked(s)'
  <2>1. IsFiniteSet(Notes(s)) /\ IsFiniteSet(Pending(s)) /\ (Counted(s) => Due(s) =< st.unack[s])
    BY DEF LedgerInv, LedgerParts, Books, Booked
  <2>2. st'.unack[s] \in Nat
    BY <1>4 DEF ManagerState
  <2>3. CASE s = n.spawn
    <3>1. Notes(s)' = Notes(s) \ {n} /\ n \in Notes(s)
      BY <1>5, <2>3 DEF Notes
    <3>2. IsFiniteSet(Notes(s)') /\ Cardinality(Notes(s)') = Cardinality(Notes(s)) - 1
      BY <2>1, <3>1, OneMoreOrFewer
    <3>3. Due(s)' = Due(s) - 1 /\ Due(s) \in Nat
      BY <1>3, <1>6, <3>2 DEF Due
    <3>4. st'.unack[s] >= st.unack[s] - 1
      BY <1>4, <2>3
    <3>5. Counted(s)' => Due(s)' =< st'.unack[s]
      BY <1>3, <1>6, <2>1, <2>2, <3>3, <3>4
    <3>6. QED
      BY <1>6, <2>1, <3>2, <3>5 DEF Booked
  <2>4. CASE s # n.spawn
    <3>1. Notes(s)' = Notes(s)
      BY <1>5, <2>4 DEF Notes
    <3>2. Due(s)' = Due(s) /\ Due(s) \in Nat
      BY <1>3, <1>6, <3>1 DEF Due
    <3>3. st'.unack[s] >= st.unack[s]
      BY <1>4, <2>4
    <3>4. Counted(s)' => Due(s)' =< st'.unack[s]
      BY <1>3, <1>6, <2>1, <2>2, <3>2, <3>3
    <3>5. QED
      BY <1>6, <2>1, <3>1, <3>4 DEF Booked
  <2>5. QED
    BY <2>3, <2>4
<1>8. NotesInv'
  <2>1. Undelivered' \subseteq Undelivered /\ reports' \subseteq reports
    BY <1>2, <1>5
  <2>2. \A s \in Job : pc[s] = "over" =>
          pc'[s] = "over" /\ own'[s].gen = own[s].gen /\ own'[s].epoch = own[s].epoch
    BY <1>2
  <2>3. \A k \in Sidekick : \A t \in Nat : Past(k, t) => Past(k, t)'
    BY <1>2 DEF Past, InTurn
  <2>4. QED
    BY <2>1, <2>2, <2>3, NotesKeep
<1>9. StampInv'
  BY <1>2, <1>4, <1>5 DEF LedgerInv, LedgerParts, StampInv, OwnStamps, NoteStamps
<1>10. WithinCapacity'
  BY <1>4, CapacityKeeps
<1>11. QED
  BY <1>7, <1>8, <1>9, <1>10 DEF LedgerParts, Books

(* What a step of the inbox does to the results on their way.              *)
InboxMoves == Notify \/ Latch \/ RunStart \/ DrainTake \/ DrainFilter \/ Deliver \/ RunEnd \/ Rearm
              \/ HostEmpties \/ HostUnlatches

LEMMA MovesFrame ==
  ASSUME InboxMoves
  PROVE  /\ Undelivered' \subseteq Undelivered
         /\ UNCHANGED <<st, pc, own, sk, reports, epoch>>
<1> USE DEF managerVars, workVars, skVars, inboxVars, runVars
<1>1. CASE Notify \/ Latch
  BY <1>1 DEF Notify, Push, Latch, RequestWakeup, Undelivered
<1>2. CASE RunStart \/ DrainTake \/ Deliver \/ RunEnd
  BY <1>2 DEF RunStart, DrainTake, Deliver, RunEnd, Undelivered
<1>3. CASE DrainFilter
  BY <1>3 DEF DrainFilter, Undelivered
<1>4. CASE Rearm \/ HostEmpties \/ HostUnlatches
  BY <1>4 DEF Rearm, RearmClear, RearmLook, RearmAnnounce, HostEmpties, HostUnlatches, Undelivered
<1>5. QED
  BY <1>1, <1>2, <1>3, <1>4 DEF InboxMoves

LEMMA LedgerStep == InboxInv /\ [CastNext]_<<vars, cast>> => LedgerInv'
<1> SUFFICES ASSUME InboxInv, [CastNext]_<<vars, cast>> PROVE LedgerInv'
  OBVIOUS
<1>0. LedgerInv /\ OnePlace /\ Casting
  BY DEF InboxInv
<1>1. InboxTypeOK' /\ st' \in ManagerState
  <2>1. InboxTypeOK'
    BY InboxTypeStep DEF InboxInv, LedgerInv, CastNext, vars
  <2>2. QED
    BY <2>1 DEF InboxTypeOK, TypeOK
<1>2. LedgerParts'
  <2>1. CASE UNCHANGED <<vars, cast>>
    <3>1. Undelivered' \subseteq Undelivered /\ UNCHANGED <<st, pc, own, sk, reports, epoch>>
      BY <2>1 DEF vars, managerVars, inboxVars, runVars, Undelivered
    <3>2. QED
      BY <1>0, <3>1, InboxLedger
  <2>2. CASE InboxMoves
    BY <1>0, <2>2, MovesFrame, InboxLedger
  <2>3. CASE DrainAcknowledge
    BY <1>0, <2>3, AcknowledgeLedger
  <2>4. CASE ManagerStep \/ (Quiet /\ sent = {} /\ UNCHANGED <<inboxVars, runVars, host>>)
    <3>1. Elsewhere /\ (ManagerNext \/ Quiet)
      BY <2>4 DEF ManagerStep, Elsewhere, inboxVars, runVars
    <3>2. QED
      BY <1>0, <1>1, <3>1, ManagerLedger
  <2>5. ASSUME NEW next, HostBegins(next) PROVE LedgerParts'
    <3> DEFINE S == {k \in Sidekick : sk[k].live}
    <3>1. /\ StopThem(S) /\ UNCHANGED <<pc, own, reports, sent, epoch>> /\ Elsewhere
          /\ S \in SUBSET Sidekick
      BY <2>5 DEF HostBegins, Elsewhere, inboxVars, runVars, outVars
    <3> HIDE DEF S
    <3>2. QED
      BY <1>0, <1>1, <3>1, StopKeeps
  <2>6. CASE HostClose
    <3>1. SameBooks
      BY <1>0, <2>6, LedgerTypes DEF HostClose, ManagerState, SameBooks
    <3>2. UNCHANGED <<pc, own, sk, reports, sent, epoch>> /\ Elsewhere
      BY <2>6 DEF HostClose, workVars, skVars, outVars, Elsewhere, inboxVars, runVars
    <3>3. QED
      BY <1>0, <1>1, <3>1, <3>2, StandsKeeps
  <2>7. CASE HostReset
    <3>1. Alone
      BY <1>0, <2>7 DEF Casting, Calm, HostReset
    <3>2. ResetEffect /\ UNCHANGED <<pc, own, sk, reports, sent>> /\ Elsewhere
      BY <2>7 DEF HostReset, skVars, Elsewhere, runVars
    <3>3. QED
      BY <1>0, <1>1, <3>1, <3>2, ResetLedger
  <2>8. QED
    BY <2>1, <2>2, <2>3, <2>4, <2>5, <2>6, <2>7
       DEF CastNext, InboxNext, InboxMoves, Drain, Replace
<1>3. QED
  BY <1>1, <1>2 DEF LedgerInv

(* A notification is sent once.                                            *)
LEMMA SentOnce ==
  ASSUME LedgerInv, ManagerNext \/ Quiet
  PROVE  /\ epoch' = epoch
         /\ sent' = sent \/ \E new : new \notin Undelivered /\ sent' = sent \cup {new}
<1> USE DEF outVars
<1>1. ASSUME NEW s \in Spawn, WorkerStep(s) \/ CancelJob(s)
      PROVE  /\ epoch' = epoch
             /\ sent' = sent \/ \E new : new \notin Undelivered /\ sent' = sent \cup {new}
  <2>1. CASE Finish(s)
    <3> DEFINE new == [spawn |-> s, turn |-> 1, gen |-> own[s].gen, epoch |-> own[s].epoch]
    <3>1. new.spawn = s
      OBVIOUS
    <3>2. sent' = sent \cup {new} /\ epoch' = epoch /\ s \in Job /\ pc[s] # "over"
      BY <2>1 DEF Finish
    <3> HIDE DEF new
    <3>3. Notes(s) = {}
      BY <3>2, NothingYet
    <3>4. QED
      BY <3>1, <3>2, <3>3 DEF Notes
  <2>2. CASE ~Finish(s)
    BY <1>1, <2>2 DEF WorkerStep, Admission, Waiting, Ending, Admit, Refuse, FirstTry, Detach,
                      DropAdmission, Mark, Check, Rouse, GiveUp, EndRun, CancelJob
  <2>3. QED
    BY <2>1, <2>2
<1>2. ASSUME NEW k \in Sidekick, SidekickStep(k) PROVE sent' = sent /\ epoch' = epoch
  BY <1>2 DEF SidekickStep, Starting, RegisterSidekick, BeginFirstTurn, FirstTurnPanics, QueueTry,
              QueueTurn, FinishTurn, NoticeDead, StopSidekick
<1>3. ASSUME NEW r \in reports, ReportStep(r)
      PROVE  /\ epoch' = epoch
             /\ sent' = sent \/ \E new : new \notin Undelivered /\ sent' = sent \cup {new}
  <2>1. CASE CheckReport(r)
    BY <2>1 DEF CheckReport
  <2>2. CASE SendReport(r)
    <3> DEFINE new == [spawn |-> r.spawn, turn |-> r.turn, gen |-> st.gen, epoch |-> r.epoch]
    <3>1. new.spawn = r.spawn /\ new.turn = r.turn
      OBVIOUS
    <3>2. sent' = sent \cup {new} /\ epoch' = epoch
      BY <2>2 DEF SendReport
    <3> HIDE DEF new
    <3>3. new \notin Undelivered
      BY <3>1 DEF LedgerInv, LedgerParts, NotesInv, OncePerTurn
    <3>4. QED
      BY <3>2, <3>3
  <2>3. QED
    BY <1>3, <2>1, <2>2 DEF ReportStep
<1>4. CASE CancelAll \/ Quiet \/ \E l \in LimitValues : SetLimit(l)
  BY <1>4 DEF CancelAll, Quiet, SetLimit, managerVars
<1>5. QED
  BY <1>1, <1>2, <1>3, <1>4 DEF ManagerNext

(* What the other steps do, seen from the inbox.                           *)
Apart == ManagerStep \/ (Quiet /\ sent = {} /\ UNCHANGED <<inboxVars, runVars, host>>)

LEMMA PlaceStep == InboxInv /\ [CastNext]_<<vars, cast>> => OnePlace'
<1> SUFFICES ASSUME InboxInv, [CastNext]_<<vars, cast>> PROVE OnePlace'
  OBVIOUS
<1> USE DEF inboxVars, runVars, managerVars, outVars, OnePlace
<1>0. OnePlace /\ LedgerInv
  BY DEF InboxInv
<1>1. CASE UNCHANGED <<vars, cast>>
  BY <1>0, <1>1 DEF vars
<1>2. CASE Apart
  <2>1. UNCHANGED <<ready, batch, kept>> /\ (ManagerNext \/ Quiet)
    BY <1>2 DEF Apart, ManagerStep
  <2>2. sent' = sent \/ \E new : new \notin Undelivered /\ sent' = sent \cup {new}
    BY <1>0, <2>1, SentOnce
  <2>3. QED
    BY <1>0, <2>1, <2>2 DEF Undelivered
<1>3. CASE Notify \/ Latch
  BY <1>0, <1>3 DEF Notify, Push, Latch, RequestWakeup
<1>4. CASE RunStart \/ DrainTake \/ Deliver \/ RunEnd \/ Rearm
  BY <1>0, <1>4 DEF RunStart, DrainTake, Deliver, RunEnd, Rearm, RearmClear, RearmLook, RearmAnnounce,
                    InboxInv, Phases
<1>5. CASE DrainFilter \/ DrainAcknowledge
  BY <1>0, <1>5 DEF DrainFilter, DrainAcknowledge
<1>6. ASSUME NEW next, HostBegins(next) PROVE OnePlace'
  BY <1>0, <1>6 DEF HostBegins
<1>7. CASE Replace
  BY <1>0, <1>7 DEF Replace, HostClose, HostReset, HostEmpties, HostUnlatches
<1>8. QED
  BY <1>1, <1>2, <1>3, <1>4, <1>5, <1>6, <1>7 DEF CastNext, InboxNext, Drain, Apart

LEMMA PhaseStep == InboxInv /\ [CastNext]_<<vars, cast>> => Phases'
<1> SUFFICES ASSUME InboxInv, [CastNext]_<<vars, cast>> PROVE Phases'
  OBVIOUS
<1> USE DEF inboxVars, runVars, Phases
<1>0. Phases
  BY DEF InboxInv
<1>1. CASE UNCHANGED <<vars, cast>> \/ Apart
  BY <1>0, <1>1 DEF vars, Apart, ManagerStep
<1>2. CASE Notify \/ Latch \/ RunStart \/ RunEnd \/ Rearm
  BY <1>0, <1>2 DEF Notify, Push, Latch, RequestWakeup, RunStart, RunEnd, Rearm, RearmClear,
                    RearmLook, RearmAnnounce
<1>3. CASE Drain
  BY <1>0, <1>3 DEF Drain, DrainTake, DrainFilter, DrainAcknowledge, Deliver
<1>4. ASSUME NEW next \in {"reset", "close"}, HostBegins(next) PROVE Phases'
  BY <1>0, <1>4 DEF HostBegins
<1>5. CASE Replace
  BY <1>0, <1>5 DEF Replace, HostClose, HostReset, HostEmpties, HostUnlatches
<1>6. QED
  BY <1>1, <1>2, <1>3, <1>4, <1>5 DEF CastNext, InboxNext, Apart

(* What the filter accepts was asked for in the present conversation.      *)
LEMMA AcceptedIsFresh ==
  ASSUME InboxInv, NEW n \in Undelivered, Accepts(n)
  PROVE  n.epoch = epoch
<1>0. /\ n.spawn \in Spawn /\ n.epoch \in Nat /\ epoch \in Nat /\ (n.spawn \in Job \/ n.spawn \in Sidekick)
      /\ \A k \in Sidekick : k \notin Job
      /\ n.epoch =< epoch /\ NotesInv /\ OwnStamps
  BY LedgerTypes DEF InboxInv, LedgerInv, LedgerParts, StampInv, NoteStamps
<1>1. CASE cast = "workers"
  <2>1. n.spawn \in Job
    BY <1>0, <1>1 DEF InboxInv, Casting, Alone, NotesInv, TurnsPast, Past
  <2>2. n.gen = st.gen
    BY <1>0, <2>1 DEF Accepts, FromSidekick
  <2>3. n.gen = own[n.spawn].gen /\ n.epoch = own[n.spawn].epoch
    BY <1>0, <2>1 DEF NotesInv, JobNotes
  <2>4. QED
    BY <1>0, <2>1, <2>2, <2>3 DEF OwnStamps
<1>2. CASE cast = "sidekick"
  <2>1. epoch = 0
    BY <1>2 DEF InboxInv, Casting, Calm
  <2>2. QED
    BY <1>0, <2>1
<1>3. QED
  BY <1>1, <1>2 DEF InboxInv, Casting

LEMMA FreshStep == InboxInv /\ [CastNext]_<<vars, cast>> => Fresh'
<1> SUFFICES ASSUME InboxInv, [CastNext]_<<vars, cast>> PROVE Fresh'
  OBVIOUS
<1> USE DEF inboxVars, runVars, managerVars, outVars, Fresh, NoStaleDelivery
<1>0. Fresh /\ LedgerInv /\ Phases
  BY DEF InboxInv
<1>1. CASE UNCHANGED <<vars, cast>>
  BY <1>0, <1>1 DEF vars
<1>2. CASE Apart
  <2>1. UNCHANGED <<kept, turn, delivered>> /\ (ManagerNext \/ Quiet)
    BY <1>2 DEF Apart, ManagerStep
  <2>2. epoch' = epoch
    BY <1>0, <2>1, SentOnce
  <2>3. QED
    BY <1>0, <2>1, <2>2
<1>3. CASE Notify \/ Latch \/ RunStart \/ DrainTake \/ RunEnd \/ Rearm
  BY <1>0, <1>3 DEF Notify, Push, Latch, RequestWakeup, RunStart, DrainTake, RunEnd, Rearm,
                    RearmClear, RearmLook, RearmAnnounce
<1>4. CASE DrainFilter
  <2>1. UNCHANGED <<turn, delivered, epoch>>
    BY <1>4 DEF DrainFilter
  <2>2. \A n \in kept' : n \in kept \/ (n \in batch /\ Accepts(n))
    BY <1>4 DEF DrainFilter
  <2>3. \A n \in batch : Accepts(n) => n.epoch = epoch
    BY AcceptedIsFresh DEF Undelivered
  <2>4. QED
    BY <1>0, <2>1, <2>2, <2>3
<1>5. CASE DrainAcknowledge
  BY <1>0, <1>5 DEF DrainAcknowledge
<1>6. CASE Deliver
  <2>1. /\ turn' = {} /\ kept' = kept /\ epoch' = epoch /\ kept = {}
        /\ delivered' = delivered \cup
             {[spawn |-> n.spawn, turn |-> n.turn, from |-> n.epoch, into |-> epoch] : n \in turn}
    BY <1>6 DEF Deliver
  <2>2. \A n \in turn : n.epoch = epoch
    BY <1>0
  <2>3. \A d \in delivered' : d.from = d.into
    BY <1>0, <2>1, <2>2
  <2>4. QED
    BY <2>1, <2>3
<1>7. ASSUME NEW next, HostBegins(next) PROVE Fresh'
  BY <1>0, <1>7 DEF HostBegins
<1>8. CASE HostReset
  <2>1. kept' = {} /\ turn' = {} /\ delivered' = delivered
    BY <1>0, <1>8 DEF HostReset, Phases
  <2>2. QED
    BY <1>0, <2>1
<1>9. CASE HostClose \/ HostEmpties \/ HostUnlatches
  BY <1>0, <1>9 DEF HostClose, HostEmpties, HostUnlatches
<1>10. QED
  BY <1>1, <1>2, <1>3, <1>4, <1>5, <1>6, <1>7, <1>8, <1>9 DEF CastNext, InboxNext, Drain, Apart, Replace

(* A refused result stays refused, where nothing is reset: no sidekick     *)
(* registers anew, and no suppression is lifted.                           *)
Lasting ==
  /\ st'.gen >= st.gen /\ st.suppressed \subseteq st'.suppressed
  /\ \A k \in Sidekick : pc[k] # "new" /\ st'.job[k] # "None" => st.job[k] # "None"

LEMMA StartLasts ==
  ASSUME st \in ManagerState, NEW s, NEW c, CanStart(s, c), Start(s, c)
  PROVE  Lasting
<1> DEFINE qu == Tail(st.queue)
           jb == [st.job EXCEPT ![s] = "Running"]
           ru == st.running + 1
<1>1. st' = [st EXCEPT !.queue = qu, !.running = ru, !.job = jb]
  BY DEF Start
<1>2. \A k \in Sidekick : jb[k] # "None" => st.job[k] # "None"
  BY DEF CanStart, Registered, ManagerState, Spawn
<1> HIDE DEF qu, jb, ru
<1>3. st'.gen = st.gen /\ st'.suppressed = st.suppressed /\ st'.job = jb /\ st.gen \in Nat
  BY <1>1 DEF ManagerState
<1>4. QED
  BY <1>2, <1>3 DEF Lasting

LEMMA ReleaseLasts ==
  ASSUME st \in ManagerState, Release
  PROVE  Lasting
<1>1. SameBooks /\ st'.job = st.job /\ st.gen \in Nat
  BY ReleaseBooks, ReleaseFields DEF ManagerState
<1>2. QED
  BY <1>1 DEF Lasting, SameBooks

LEMMA SameLasts ==
  ASSUME st \in ManagerState, st' = st
  PROVE  Lasting
  BY DEF Lasting, ManagerState

(* One spawn is queued that was new or registered.                         *)
LEMMA QueuedLasts ==
  ASSUME st \in ManagerState, NEW s, NEW un, NEW ac, NEW qu,
         st' = [st EXCEPT !.unack = un, !.job = [st.job EXCEPT ![s] = "Queued"],
                          !.active = ac, !.queue = qu],
         s \in Sidekick => pc[s] = "new" \/ st.job[s] # "None"
  PROVE  Lasting
<1> DEFINE jb == [st.job EXCEPT ![s] = "Queued"]
<1>1. \A k \in Sidekick : pc[k] # "new" /\ jb[k] # "None" => st.job[k] # "None"
  BY DEF ManagerState, Spawn
<1>2. st' = [st EXCEPT !.unack = un, !.job = jb, !.active = ac, !.queue = qu]
  OBVIOUS
<1> HIDE DEF jb
<1>3. st'.gen = st.gen /\ st'.suppressed = st.suppressed /\ st'.job = jb /\ st.gen \in Nat
  BY <1>2 DEF ManagerState
<1>4. QED
  BY <1>1, <1>3 DEF Lasting

(* Spawns were removed.                                                    *)
LEMMA RemovedLasts ==
  ASSUME st \in ManagerState, NEW S, NEW g \in Nat, NEW sup \in SUBSET Spawn,
         st' = [Removed(st, S) EXCEPT !.gen = g, !.suppressed = sup],
         g >= st.gen, st.suppressed \subseteq sup
  PROVE  Lasting
<1> DEFINE w == Removed(st, S)
<1>1. /\ w \in ManagerState /\ \A s \in Spawn : w.job[s] = IF s \in S THEN "None" ELSE st.job[s]
  BY RemovedFields
<1>2. st' = [w EXCEPT !.gen = g, !.suppressed = sup]
  OBVIOUS
<1> HIDE DEF w
<1>3. st'.gen = g /\ st'.suppressed = sup /\ st'.job = w.job
  BY <1>1, <1>2 DEF ManagerState
<1>4. QED
  BY <1>1, <1>3 DEF Lasting, Spawn

LEMMA WorkerLasts ==
  ASSUME LedgerInv, NEW s \in Spawn, WorkerStep(s) \/ CancelJob(s)
  PROVE  Lasting
<1>0. st \in ManagerState /\ st.gen \in Nat /\ \A k \in Sidekick : k \in Spawn /\ k \notin Job
  BY LedgerTypes
<1>1. CASE Admit(s)
  <2> DEFINE un == [st.unack EXCEPT ![s] = @ + 1]
             ac == st.active \cup ({s} \cap Sidekick)
             qu == Append(st.queue, s)
  <2>1. /\ st' = [st EXCEPT !.unack = un, !.job = [st.job EXCEPT ![s] = "Queued"],
                            !.active = ac, !.queue = qu]
        /\ pc[s] = "new"
    BY <1>1 DEF Admit
  <2> HIDE DEF un, ac, qu
  <2>2. QED
    BY <1>0, <2>1, QueuedLasts
<1>2. CASE FirstTry(s) \/ Check(s)
  BY <1>0, <1>2, StartLasts, SameLasts DEF FirstTry, Check, TryStart
<1>3. CASE DropAdmission(s)
  <2>1. CASE st.gen = own[s].gen
    <3>1. st' = Removed(st, {s})
      BY <1>3, <2>1 DEF DropAdmission, Removed
    <3>2. /\ \A x \in Spawn : st'.job[x] = IF x \in {s} THEN "None" ELSE st.job[x]
          /\ st'.gen = st.gen /\ st'.suppressed = st.suppressed
      BY <1>0, <3>1, RemovedFields
    <3>3. QED
      BY <1>0, <3>2 DEF Lasting
  <2>2. CASE st.gen # own[s].gen
    BY <1>0, <1>3, <2>2, SameLasts DEF DropAdmission
  <2>3. QED
    BY <2>1, <2>2
<1>4. CASE GiveUp(s)
  <2> DEFINE qu == Without(st.queue, {s})
  <2>1. st' = [st EXCEPT !.queue = qu]
    BY <1>4 DEF GiveUp
  <2> HIDE DEF qu
  <2>2. st'.gen = st.gen /\ st'.suppressed = st.suppressed /\ st'.job = st.job
    BY <1>0, <2>1 DEF ManagerState
  <2>3. QED
    BY <1>0, <2>2 DEF Lasting
<1>5. CASE EndRun(s)
  BY <1>0, <1>5, ReleaseLasts DEF EndRun
<1>6. CASE Finish(s)
  <2>1. CASE st.gen = own[s].gen
    <3>1. st' = Unregister(st, {s})
      BY <1>6, <2>1 DEF Finish
    <3>2. /\ \A x \in Spawn : st'.job[x] = IF x \in {s} THEN "None" ELSE st.job[x]
          /\ st'.gen = st.gen /\ st'.suppressed = st.suppressed
      BY <1>0, <3>1, UnregisterFields
    <3>3. QED
      BY <1>0, <3>2 DEF Lasting
  <2>2. CASE st.gen # own[s].gen
    BY <1>0, <1>6, <2>2, SameLasts DEF Finish
  <2>3. QED
    BY <2>1, <2>2
<1>7. CASE Refuse(s) \/ Detach(s) \/ Mark(s) \/ Rouse(s) \/ CancelJob(s)
  BY <1>0, <1>7, SameLasts DEF Refuse, Detach, Mark, Rouse, CancelJob
<1>8. QED
  BY <1>1, <1>2, <1>3, <1>4, <1>5, <1>6, <1>7 DEF WorkerStep, Admission, Waiting, Ending

LEMMA SidekickLasts ==
  ASSUME LedgerInv, NEW k \in Sidekick, SidekickStep(k)
  PROVE  Lasting
<1>0. st \in ManagerState /\ st.gen \in Nat /\ \A x \in Sidekick : x \in Spawn
  BY LedgerTypes
<1>1. CASE RegisterSidekick(k) \/ BeginFirstTurn(k) \/ NoticeDead(k)
  BY <1>0, <1>1, SameLasts DEF RegisterSidekick, BeginFirstTurn, NoticeDead
<1>2. CASE FirstTurnPanics(k)
  BY <1>0, <1>2, SameLasts, ReleaseLasts DEF FirstTurnPanics
<1>3. CASE QueueTry(k)
  BY <1>0, <1>3, StartLasts, SameLasts DEF QueueTry
<1>4. CASE QueueTurn(k)
  <2> DEFINE un == [st.unack EXCEPT ![k] = @ + 1]
             ac == st.active \cup {k}
             qu == Append(st.queue, k)
  <2>1. /\ st' = [st EXCEPT !.unack = un, !.job = [st.job EXCEPT ![k] = "Queued"],
                            !.active = ac, !.queue = qu]
        /\ st.job[k] # "None"
    BY <1>4 DEF QueueTurn, SidekickLive, Registered
  <2> HIDE DEF un, ac, qu
  <2>2. QED
    BY <1>0, <2>1, QueuedLasts
<1>5. CASE FinishTurn(k)
  <2>1. CASE k \in Registered
    <3> DEFINE jb == [st.job EXCEPT ![k] = "Queued"]
               ac == st.active \ {k}
               qu == Without(st.queue, {k})
    <3>1. st' = [st EXCEPT !.job = jb, !.active = ac, !.queue = qu] /\ st.job[k] # "None"
      BY <1>5, <2>1 DEF FinishTurn, Registered
    <3>2. \A x \in Sidekick : jb[x] # "None" => st.job[x] # "None"
      BY <1>0, <3>1 DEF ManagerState
    <3> HIDE DEF jb, ac, qu
    <3>3. st'.gen = st.gen /\ st'.suppressed = st.suppressed /\ st'.job = jb
      BY <1>0, <3>1 DEF ManagerState
    <3>4. QED
      BY <1>0, <3>2, <3>3 DEF Lasting
  <2>2. CASE k \notin Registered
    BY <1>0, <1>5, <2>2, SameLasts DEF FinishTurn
  <2>3. QED
    BY <2>1, <2>2
<1>6. CASE StopSidekick(k)
  <2>1. /\ Removed(st, {k}) \in ManagerState
        /\ Removed(st, {k}).suppressed = st.suppressed /\ Removed(st, {k}).gen = st.gen
        /\ \A s \in Spawn : Removed(st, {k}).job[s] = IF s \in {k} THEN "None" ELSE st.job[s]
    BY <1>0, RemovedFields
  <2>2. st' = [Removed(st, {k}) EXCEPT !.suppressed = st.suppressed \cup {k}]
    BY <1>6, <2>1 DEF StopSidekick, StopThem, Removed
  <2>3. /\ st'.gen = st.gen /\ st'.suppressed = st.suppressed \cup {k}
        /\ st'.job = Removed(st, {k}).job
    BY <2>1, <2>2 DEF ManagerState
  <2>4. QED
    BY <1>0, <2>1, <2>3 DEF Lasting
<1>7. QED
  BY <1>1, <1>2, <1>3, <1>4, <1>5, <1>6 DEF SidekickStep, Starting

LEMMA ManagerLasts ==
  ASSUME LedgerInv, ManagerNext \/ Quiet
  PROVE  Lasting
<1>0. st \in ManagerState /\ st.gen \in Nat
  BY LedgerTypes
<1>1. CASE CancelAll
  <2> DEFINE ids == Registered \ Sidekick
  <2>1. /\ Removed(st, ids) \in ManagerState /\ st.suppressed \cup ids \in SUBSET Spawn
        /\ Removed(st, ids).gen = st.gen /\ Removed(st, ids).suppressed = st.suppressed
        /\ st.gen + 1 \in Nat /\ st.gen + 1 >= st.gen
    BY <1>0, RemovedFields DEF ManagerState, Registered
  <2>2. st' = [Removed(st, ids) EXCEPT !.gen = st.gen + 1, !.suppressed = st.suppressed \cup ids]
    BY <1>1, <2>1 DEF CancelAll, Removed
  <2> HIDE DEF ids
  <2>3. QED
    BY <1>0, <2>1, <2>2, RemovedLasts
<1>2. ASSUME NEW r \in reports, ReportStep(r) PROVE Lasting
  BY <1>0, <1>2, SameLasts DEF ReportStep, CheckReport, SendReport
<1>3. CASE Quiet \/ \E l \in LimitValues : SetLimit(l)
  BY <1>0, <1>3, SameLasts DEF Quiet, SetLimit, managerVars
<1>4. QED
  BY <1>1, <1>2, <1>3, WorkerLasts, SidekickLasts DEF ManagerNext

(* A waiting result that is acceptable was acceptable before.              *)
LEMMA StaysRefused ==
  ASSUME LedgerInv, ManagerNext \/ Quiet, NEW n \in ready, Accepts(n)'
  PROVE  Accepts(n)
<1>0. /\ st \in ManagerState /\ st.gen \in Nat /\ n.gen \in Nat /\ n.gen =< st.gen
      /\ NotesInv /\ n \in Undelivered /\ \A k \in Sidekick : k \in Spawn
  BY LedgerTypes DEF LedgerInv, LedgerParts, StampInv, NoteStamps, Undelivered
<1>1. Lasting
  BY ManagerLasts
<1>3. n.spawn \notin st.suppressed
  BY <1>1 DEF Accepts, Lasting
<1>4. CASE st'.gen = n.gen
  <2>1. st.gen = n.gen
    BY <1>0, <1>1, <1>4 DEF Lasting
  <2>2. QED
    BY <1>3, <2>1 DEF Accepts
<1>5. CASE FromSidekick(n)'
  <2>1. n.spawn \in Sidekick /\ st'.job[n.spawn] # "None"
    BY <1>5 DEF FromSidekick, Registered
  <2>2. pc[n.spawn] # "new"
    BY <1>0, <2>1 DEF NotesInv, TurnsPast, Past
  <2>3. FromSidekick(n)
    BY <1>0, <1>1, <2>1, <2>2 DEF Lasting, FromSidekick, Registered
  <2>4. QED
    BY <1>3, <2>3 DEF Accepts
<1>6. QED
  BY <1>4, <1>5 DEF Accepts

(* The session keeps being told, while no conversation is replaced.        *)
LEMMA ToldStep ==
  ASSUME InboxInv, [InboxNext]_vars, Calm, Told, host' = host
  PROVE  Told'
<1> USE DEF inboxVars, runVars, managerVars
<1>0. LedgerInv /\ host = "free"
  BY DEF InboxInv, Calm
<1>1. ASSUME UNCHANGED <<wake, announced, parent, ready, latch, host>>,
             \A n \in ready : Accepts(n)' => Accepts(n)
      PROVE  Told'
  BY <1>1 DEF Told, NoLostWakeup
<1>2. CASE UNCHANGED vars
  BY <1>1, <1>2 DEF vars, Accepts, FromSidekick, Registered
<1>3. CASE Apart
  <2>1. UNCHANGED <<wake, announced, parent, ready, latch, host>> /\ (ManagerNext \/ Quiet)
    BY <1>3 DEF Apart, ManagerStep
  <2>2. \A n \in ready : Accepts(n)' => Accepts(n)
    BY <1>0, <2>1, StaysRefused
  <2>3. QED
    BY <1>1, <2>1, <2>2
<1>4. CASE Notify
  <2>1. PICK n \in sent : Push(n)
    BY <1>4 DEF Notify
  <2>2. \A m : Accepts(m)' <=> Accepts(m)
    BY <2>1 DEF Push, Accepts, FromSidekick, Registered
  <2>3. /\ \A m \in ready' \ latch' : m \in ready \ latch
        /\ UNCHANGED <<wake, announced, parent>>
    BY <2>1 DEF Push
  <2>4. QED
    BY <1>0, <2>2, <2>3 DEF Told, NoLostWakeup
<1>5. CASE Latch
  <2>1. PICK n \in latch : RequestWakeup(n)
    BY <1>5 DEF Latch
  <2>2. announced'
    BY <2>1, Zenon DEF RequestWakeup, Told
  <2>3. QED
    BY <2>2 DEF Told, NoLostWakeup
<1>6. CASE RunStart \/ DrainTake \/ DrainFilter \/ DrainAcknowledge \/ Deliver \/ RunEnd \/ RearmClear
  <2>1. parent' # "idle"
    BY <1>6 DEF RunStart, DrainTake, DrainFilter, DrainAcknowledge, Deliver, RunEnd, RearmClear
  <2>2. wake' => announced'
    <3>1. CASE RunStart \/ RearmClear
      BY <3>1 DEF RunStart, RearmClear
    <3>2. CASE DrainTake \/ DrainFilter \/ DrainAcknowledge \/ Deliver \/ RunEnd
      <4>1. wake' = wake /\ announced' = announced
        BY <3>2 DEF DrainTake, DrainFilter, DrainAcknowledge, Deliver, RunEnd
      <4>2. QED
        BY <4>1 DEF Told
    <3>3. QED
      BY <1>6, <3>1, <3>2
  <2>3. QED
    BY <2>1, <2>2 DEF Told, NoLostWakeup
<1>7. CASE RearmLook
  <2>1. wake' = wake /\ announced' = announced /\ (parent' = "idle" => ready' = {})
    BY <1>7 DEF RearmLook
  <2>2. QED
    BY <2>1 DEF Told, NoLostWakeup
<1>8. CASE RearmAnnounce
  <2>1. announced'
    BY <1>8, Zenon DEF RearmAnnounce, Told
  <2>2. QED
    BY <2>1 DEF Told, NoLostWakeup
<1>9. ASSUME NEW next \in {"reset", "close"} PROVE ~HostBegins(next)
  BY <1>0 DEF HostBegins
<1>10. ~Replace
  BY <1>0 DEF Replace, HostClose, HostReset, HostEmpties, HostUnlatches
<1>11. QED
  BY <1>2, <1>3, <1>4, <1>5, <1>6, <1>7, <1>8, <1>9, <1>10 DEF InboxNext, Drain, Rearm, Apart

LEMMA CastingStep == InboxInv /\ [CastNext]_<<vars, cast>> => Casting'
<1> SUFFICES ASSUME InboxInv, [CastNext]_<<vars, cast>> PROVE Casting'
  OBVIOUS
<1>0. Casting /\ LedgerInv /\ cast' = cast
  BY DEF InboxInv, CastNext
<1>1. CASE cast = "workers"
  <2>1. \A k \in Sidekick : pc'[k] = pc[k]
    BY <1>1 DEF CastNext, vars, managerVars
  <2>2. Alone'
    BY <1>0, <1>1, <2>1 DEF Casting, Alone
  <2>3. QED
    BY <1>0, <1>1, <2>2 DEF Casting
<1>2. CASE cast = "sidekick"
  <2>1. Calm /\ Told /\ host' = host
    BY <1>0, <1>2 DEF Casting, CastNext, vars
  <2>2. [InboxNext]_vars
    BY DEF CastNext, vars
  <2>3. Told'
    BY <2>1, <2>2, ToldStep
  <2>4. epoch' = epoch
    <3>1. CASE UNCHANGED <<vars, cast>>
      BY <3>1 DEF vars, managerVars
    <3>2. CASE InboxMoves
      BY <3>2, MovesFrame
    <3>3. CASE Apart
      BY <1>0, <3>3, SentOnce DEF Apart, ManagerStep
    <3>4. CASE DrainAcknowledge
      BY <3>4 DEF DrainAcknowledge, outVars
    <3>5. ~Replace /\ \A next : ~HostBegins(next) \/ epoch' = epoch
      BY <2>1 DEF Calm, Replace, HostClose, HostReset, HostEmpties, HostUnlatches, HostBegins,
                  outVars
    <3>6. QED
      BY <3>1, <3>2, <3>3, <3>4, <3>5 DEF CastNext, InboxNext, InboxMoves, Drain, Apart
  <2>5. Calm'
    BY <2>1, <2>4 DEF Calm
  <2>6. QED
    BY <1>0, <1>2, <2>3, <2>5 DEF Casting
<1>3. QED
  BY <1>0, <1>1, <1>2 DEF Casting

LEMMA InboxInvStep == InboxInv /\ [CastNext]_<<vars, cast>> => InboxInv'
  BY LedgerStep, PlaceStep, PhaseStep, FreshStep, CastingStep DEF InboxInv

LEMMA InboxInvInit == CastInit => InboxInv
<1> SUFFICES ASSUME CastInit PROVE InboxInv
  OBVIOUS
<1> USE DEF CastInit, InboxInit
<1>0. Init
  OBVIOUS
<1>1. InboxTypeOK
  <2>1. TypeOK
    BY <1>0, TypeInit
  <2>2. QED
    BY <2>1 DEF InboxTypeOK, ParentPC, HostPC
<1>2. /\ st.gen = 0 /\ st.suppressed = {} /\ epoch = 0 /\ reports = {} /\ Undelivered = {}
      /\ st.unack = [s \in Spawn |-> 0]
      /\ \A s \in Spawn : pc[s] = "new" /\ own[s].gen = 0 /\ own[s].epoch = 0
  BY <1>0 DEF Init, Undelivered
<1>3. Books
  <2>1. IsFiniteSet({}) /\ Cardinality({}) = 0
    BY FS_EmptySet
  <2>2. ASSUME NEW s \in Spawn PROVE Booked(s)
    <3>1. Notes(s) = {} /\ Pending(s) = {} /\ ~InTurn(s)
      BY <1>2 DEF Notes, Pending, InTurn
    <3>2. Due(s) = 0 /\ st.unack[s] = 0
      BY <1>2, <2>1, <3>1 DEF Due
    <3>3. QED
      BY <2>1, <3>1, <3>2 DEF Booked
  <2>3. QED
    BY <2>2 DEF Books
<1>4. NotesInv
  BY <1>2 DEF NotesInv, JobNotes, TurnsPast, OncePerTurn
<1>5. StampInv
  BY <1>2 DEF StampInv, OwnStamps, NoteStamps
<1>6. WithinCapacity
  <2>1. IsFiniteSet(Spawn)
    BY FiniteAssumption, FS_Union DEF Spawn
  <2>2. Reserved = 0
    BY <1>2, <2>1, SumNothing DEF Reserved
  <2>3. QED
    BY <2>2, CapacityAssumption DEF WithinCapacity
<1>7. OnePlace /\ Phases /\ Fresh
  BY DEF OnePlace, Phases, Fresh, NoStaleDelivery
<1>8. Casting
  BY <1>0, <1>2 DEF Casting, Alone, Calm, Told, NoLostWakeup, Spawn
<1>9. QED
  BY <1>1, <1>3, <1>4, <1>5, <1>6, <1>7, <1>8 DEF InboxInv, LedgerInv, LedgerParts

(* What is owed to the parent is part of the books.                        *)
LEMMA InvHasReserved == InboxInv => ResultsReserved
<1> SUFFICES ASSUME InboxInv PROVE ResultsReserved
  OBVIOUS
<1>0. LedgerInv
  BY DEF InboxInv
<1>1. ASSUME NEW s \in Spawn
      PROVE  Cardinality({n \in Undelivered : n.spawn = s /\ Accepts(n)}) =< st.unack[s]
  <2> DEFINE Owed == {n \in Undelivered : n.spawn = s /\ Accepts(n)}
  <2>0. /\ st.unack[s] \in Nat /\ Cardinality(Notes(s)) \in Nat /\ Cardinality(Pending(s)) \in Nat
        /\ Booked(s) /\ JobNotes /\ \A k \in Sidekick : k \notin Job
    BY <1>0, LedgerTypes DEF LedgerInv, LedgerParts, Books, NotesInv
  <2>1. Owed \subseteq Notes(s)
    BY DEF Notes
  <2>2. IsFiniteSet(Owed) /\ Cardinality(Owed) =< Cardinality(Notes(s))
    BY <2>0, <2>1, FS_Subset DEF Booked
  <2>3. CASE Owed = {}
    <3>1. Cardinality(Owed) = 0
      BY <2>3, FS_EmptySet
    <3>2. QED
      BY <2>0, <3>1
  <2>4. CASE Owed # {}
    <3>1. PICK n \in Undelivered : n.spawn = s /\ Accepts(n)
      BY <2>4
    <3>2. Counted(s)
      BY <2>0, <3>1 DEF Accepts, FromSidekick, Counted, JobNotes
    <3>3. Due(s) =< st.unack[s] /\ Due(s) >= Cardinality(Notes(s)) /\ Due(s) \in Nat
      BY <2>0, <3>2 DEF Booked, Due
    <3>4. Cardinality(Owed) \in Nat
      BY <2>2, FS_CardinalityType
    <3> HIDE DEF Owed
    <3>5. Cardinality(Owed) =< st.unack[s]
      BY <2>0, <2>2, <3>3, <3>4
    <3>6. QED
      BY <3>5 DEF Owed
  <2>5. QED
    BY <2>3, <2>4
<1>2. QED
  BY <1>0, <1>1 DEF ResultsReserved, LedgerInv, LedgerParts, WithinCapacity

(***************************************************************************)
(* Results between a worker and the model, for any number of workers and   *)
(* sidekicks and any capacity: every result that may still be delivered    *)
(* holds a reservation of its spawn and the reservations stay within the   *)
(* completion capacity, so nothing finished is evicted; none is delivered  *)
(* into another conversation than the one that asked for it; and with no   *)
(* conversation replaced an idle session was told of what waits.           *)
(***************************************************************************)
THEOREM InboxSafetyUnbounded == CastSpec => []InboxSafe
<1>1. InboxInv => InboxSafe
  BY InvHasReserved DEF InboxInv, LedgerInv, InboxSafe, Fresh, Casting, Told, WakeupKept
<1>2. QED
  BY <1>1, InboxInvInit, InboxInvStep, PTL DEF CastSpec

(***************************************************************************)
(* The behaviours TLC follows are among these: they only bound how often a *)
(* conversation is replaced and who runs beside a sidekick.                *)
(***************************************************************************)
THEOREM InboxSafety == MCSpec => []InboxSafe
<1>1. MCInit => CastInit
  BY DEF MCInit
<1>2. [MCNext]_<<vars, cast>> => [CastNext]_<<vars, cast>>
  BY DEF MCNext
<1>3. MCSpec => CastSpec
  BY <1>1, <1>2, PTL DEF MCSpec, CastSpec
<1>4. QED
  BY <1>3, InboxSafetyUnbounded
=============================================================================
