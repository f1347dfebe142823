----------------------------- MODULE ToolsProofs -----------------------------
(***************************************************************************)
(* Proofs about the tools: the process manager, the shell, the             *)
(* interpreters, the file tools, the buffer of a process's output and the  *)
(* store of large results.  They share no state; each has a section of its *)
(* own.                                                                    *)
(***************************************************************************)
EXTENDS Processes, Shell, Interpreters, FileTools, OutBuf, ToolResults, CommonLemmas

-----------------------------------------------------------------------------
(* Processes: the accounts of the process manager                          *)
(* The claims, and the children that count.                                *)
PmClaims == {p \in PmSpawn : pmCall[p] \in {"reserved", "started"}}
PmCountedSet == {p \in PmSpawn : pmCounted[p]}
PmLiveSet == {p \in pmListed : PmRunning(p)}

(* How far the call of a process and its waiter have come together: a      *)
(* process is listed and counted once its child exists, and no sooner.     *)
PmStages ==
  \A p \in PmSpawn :
    /\ p \in pmListed => pmCall[p] \in {"settling", "snapshot", "answered", "dropped"}
    /\ pmCall[p] \in {"idle", "reserved", "refused"} => ~pmCounted[p]
    /\ pmCall[p] = "answered" <=> pmTold[p] # "nothing"

(* What the answer of a spawn said of the process, and what follows.       *)
PmTellings ==
  \A p \in PmSpawn :
    /\ pmNotes[p] = 0 \/ (pmNotes[p] = 1 /\ pmWaiter[p] = "over")
    /\ pmTold[p] # "running" => ~pmNotify[p] /\ pmWaiter[p] # "telling" /\ pmNotes[p] = 0
    /\ pmTold[p] = "running" /\ pmMode[p] = "notify" /\ ~pmKilled[p] =>
         pmNotify[p] /\ (pmWaiter[p] = "over" => pmNotes[p] = 1)

PmInv ==
  /\ PmTypeOK /\ PmWithinLimit /\ PmStatsExact
  /\ pmReserved = Cardinality(PmClaims)
  /\ PmStages /\ PmTellings

(* The two counters, when only p's entry in them may change.               *)
LEMMA PmClaimsKeep ==
  ASSUME PmInv, NEW p \in PmSpawn,
         \A o \in PmSpawn : o # p => pmCall'[o] = pmCall[o],
         \/ /\ pmReserved' = pmReserved
            /\ pmCall[p] \in {"reserved", "started"} <=> pmCall'[p] \in {"reserved", "started"}
         \/ /\ pmReserved' = pmReserved + 1 /\ pmCall'[p] \in {"reserved", "started"}
            /\ pmCall[p] \notin {"reserved", "started"}
         \/ /\ pmReserved' = pmReserved - 1 /\ pmCall'[p] \notin {"reserved", "started"}
            /\ pmCall[p] \in {"reserved", "started"}
  PROVE  pmReserved' \in Nat /\ pmReserved' = Cardinality(PmClaims')
<1>1. IsFiniteSet(PmClaims) /\ pmReserved = Cardinality(PmClaims) /\ pmReserved \in Nat
  BY PmAssumption, FS_Subset DEF PmClaims, PmInv, PmTypeOK
<1>2. CASE /\ pmReserved' = pmReserved
           /\ pmCall[p] \in {"reserved", "started"} <=> pmCall'[p] \in {"reserved", "started"}
  <2>1. PmClaims' = PmClaims
    BY <1>2 DEF PmClaims
  <2>2. QED
    BY <1>1, <1>2, <2>1
<1>3. CASE /\ pmReserved' = pmReserved + 1 /\ pmCall'[p] \in {"reserved", "started"}
           /\ pmCall[p] \notin {"reserved", "started"}
  <2>1. PmClaims' = PmClaims \cup {p} /\ p \notin PmClaims
    BY <1>3 DEF PmClaims
  <2>2. QED
    BY <1>1, <1>3, <2>1, OneMoreOrFewer
<1>4. CASE /\ pmReserved' = pmReserved - 1 /\ pmCall'[p] \notin {"reserved", "started"}
           /\ pmCall[p] \in {"reserved", "started"}
  <2>1. PmClaims' = PmClaims \ {p} /\ p \in PmClaims
    BY <1>4 DEF PmClaims
  <2>2. Cardinality(PmClaims) > 0 /\ Cardinality(PmClaims \ {p}) = Cardinality(PmClaims) - 1
    BY <1>1, <2>1, OneMoreOrFewer
  <2>3. QED
    BY <1>1, <1>4, <2>1, <2>2
<1>5. QED
  BY <1>2, <1>3, <1>4

LEMMA PmStatsKeep ==
  ASSUME PmInv, NEW p \in PmSpawn,
         \A o \in PmSpawn : o # p => pmCounted'[o] = pmCounted[o],
         \/ pmStats' = pmStats /\ (pmCounted[p] <=> pmCounted'[p])
         \/ pmStats' = pmStats + 1 /\ pmCounted'[p] /\ ~pmCounted[p]
         \/ pmStats' = pmStats - 1 /\ ~pmCounted'[p] /\ pmCounted[p]
  PROVE  pmStats' \in Nat /\ PmStatsExact'
<1> USE DEF PmCountedSet
<1>1. IsFiniteSet(PmCountedSet) /\ pmStats = Cardinality(PmCountedSet) /\ pmStats \in Nat
  BY PmAssumption, FS_Subset DEF PmInv, PmTypeOK, PmStatsExact
<1> SUFFICES pmStats' \in Nat /\ pmStats' = Cardinality(PmCountedSet')
  BY DEF PmStatsExact
<1>2. CASE pmStats' = pmStats /\ (pmCounted[p] <=> pmCounted'[p])
  <2>1. \A o \in PmSpawn : pmCounted[o] <=> pmCounted'[o]
    BY <1>2
  <2>2. PmCountedSet' = PmCountedSet
    BY <2>1
  <2>3. QED
    BY <1>1, <1>2, <2>2
<1>3. CASE pmStats' = pmStats + 1 /\ pmCounted'[p] /\ ~pmCounted[p]
  <2>1. PmCountedSet' = PmCountedSet \cup {p} /\ p \notin PmCountedSet
    BY <1>3
  <2> HIDE DEF PmCountedSet
  <2>2. QED
    BY <1>1, <1>3, <2>1, OneMoreOrFewer
<1>4. CASE pmStats' = pmStats - 1 /\ ~pmCounted'[p] /\ pmCounted[p]
  <2>1. PmCountedSet' = PmCountedSet \ {p} /\ p \in PmCountedSet
    BY <1>4
  <2> HIDE DEF PmCountedSet
  <2>2. Cardinality(PmCountedSet) > 0
        /\ Cardinality(PmCountedSet \ {p}) = Cardinality(PmCountedSet) - 1
    BY <1>1, <2>1, OneMoreOrFewer
  <2>3. QED
    BY <1>1, <1>4, <2>1, <2>2
<1>5. QED
  BY <1>2, <1>3, <1>4

(* No process joins the list; or one does, and its claim is given back.    *)
LEMMA PmLimitKeeps ==
  ASSUME PmInv, NEW p \in PmSpawn, pmReserved' \in Nat,
         \/ PmLiveSet' \subseteq PmLiveSet /\ pmReserved' <= pmReserved
         \/ PmLiveSet' \subseteq PmLiveSet /\ pmReserved' = pmReserved + 1 /\ PmHasSlot
         \/ PmLiveSet' \subseteq PmLiveSet \cup {p} /\ pmReserved' = pmReserved - 1
  PROVE  PmWithinLimit'
<1>1. /\ IsFiniteSet(PmLiveSet) /\ PmLive = Cardinality(PmLiveSet)
      /\ PmLive' = Cardinality(PmLiveSet')
      /\ PmLive + pmReserved <= PmMax /\ pmReserved \in Nat /\ PmMax \in Nat
  BY PmAssumption, FS_Subset DEF PmLive, PmLiveSet, PmInv, PmTypeOK, PmWithinLimit
<1>2. PmLive \in Nat
  BY <1>1, FS_CardinalityType
<1>3. CASE PmLiveSet' \subseteq PmLiveSet
  <2>1. PmLive' <= PmLive /\ PmLive' \in Nat
    BY <1>1, <1>3, FS_Subset, FS_CardinalityType
  <2>2. QED
    BY <1>1, <1>2, <1>3, <2>1 DEF PmWithinLimit, PmHasSlot
<1>4. CASE PmLiveSet' \subseteq PmLiveSet \cup {p} /\ pmReserved' = pmReserved - 1
  <2>1. IsFiniteSet(PmLiveSet \cup {p}) /\ Cardinality(PmLiveSet \cup {p}) <= PmLive + 1
    BY <1>1, OneMoreOrFewer
  <2>2. /\ IsFiniteSet(PmLiveSet') /\ PmLive' <= Cardinality(PmLiveSet \cup {p})
        /\ Cardinality(PmLiveSet \cup {p}) \in Nat /\ PmLive' \in Nat
    BY <1>1, <1>4, <2>1, FS_Subset, FS_CardinalityType
  <2>3. QED
    BY <1>1, <1>2, <1>4, <2>1, <2>2 DEF PmWithinLimit
<1>5. QED
  BY <1>3, <1>4

LEMMA PmCallSteps ==
  ASSUME PmInv, NEW p \in PmSpawn,
         PmReserve(p) \/ PmRefuse(p) \/ PmStartFails(p) \/ PmSettle(p) \/ PmDropCall(p)
  PROVE  PmInv'
<1>1. /\ pmCall \in [PmSpawn -> PmCalls] /\ pmListed \subseteq PmSpawn /\ pmReserved \in Nat
      /\ \A o \in pmListed : pmCall[o] \in {"settling", "snapshot", "answered", "dropped"}
  BY DEF PmInv, PmTypeOK, PmStages
<1>2. /\ UNCHANGED <<pmMode, pmTold, pmAlive, pmWaiter, pmCounted, pmKill, pmNotify,
                     pmNotes, pmKilled, pmListed, pmStats, pmLife>>
      /\ pmCall' = [pmCall EXCEPT ![p] = pmCall'[p]]
      /\ pmCall'[p] \in PmCalls \ {"idle", "answered", "started"}
      /\ pmCall[p] # "answered"
      /\ pmCall'[p] \in {"reserved", "refused"} => pmCall[p] \in {"idle", "reserved"}
      /\ p \in pmListed => pmCall'[p] \in {"settling", "snapshot", "answered", "dropped"}
  BY <1>1 DEF PmReserve, PmRefuse, PmStartFails, PmSettle, PmDropCall, PmCalls
<1>3. /\ pmCall' \in [PmSpawn -> PmCalls]
      /\ \A o \in PmSpawn : o # p => pmCall'[o] = pmCall[o]
  BY <1>1, <1>2
<1>4. \/ /\ pmReserved' = pmReserved
         /\ pmCall[p] \in {"reserved", "started"} <=> pmCall'[p] \in {"reserved", "started"}
      \/ /\ pmReserved' = pmReserved + 1 /\ pmCall'[p] \in {"reserved", "started"}
         /\ pmCall[p] \notin {"reserved", "started"} /\ PmHasSlot
      \/ /\ pmReserved' = pmReserved - 1 /\ pmCall'[p] \notin {"reserved", "started"}
         /\ pmCall[p] \in {"reserved", "started"}
  BY <1>1 DEF PmReserve, PmRefuse, PmStartFails, PmSettle, PmDropCall
<1>5. pmReserved' \in Nat /\ pmReserved' = Cardinality(PmClaims')
  BY <1>3, <1>4, PmClaimsKeep
<1>6. PmWithinLimit'
  <2>1. PmLiveSet' = PmLiveSet
    BY <1>2 DEF PmLiveSet, PmRunning
  <2>2. QED
    BY <1>1, <1>4, <1>5, <2>1, PmLimitKeeps
<1>7. PmStages'
  BY <1>2, <1>3 DEF PmInv, PmStages
<1>8. PmTellings' /\ PmStatsExact'
  BY <1>2 DEF PmInv, PmTellings, PmStatsExact
<1>9. PmTypeOK'
  BY <1>2, <1>3, <1>5 DEF PmInv, PmTypeOK
<1>10. QED
  BY <1>5, <1>6, <1>7, <1>8, <1>9 DEF PmInv

LEMMA PmStartKeeps ==
  ASSUME PmInv, NEW p \in PmSpawn, PmStart(p) PROVE PmInv'
<1>1. /\ pmCall[p] = "reserved" /\ pmCall' = [pmCall EXCEPT ![p] = "started"]
      /\ pmAlive' = [pmAlive EXCEPT ![p] = TRUE]
      /\ pmWaiter' = [pmWaiter EXCEPT ![p] = "waiting"]
      /\ pmCounted' = [pmCounted EXCEPT ![p] = TRUE] /\ pmStats' = pmStats + 1
      /\ UNCHANGED <<pmMode, pmTold, pmKill, pmNotify, pmNotes, pmKilled, pmListed,
                     pmReserved, pmLife>>
  BY DEF PmStart
<1>2. ~pmCounted[p] /\ p \notin pmListed /\ pmTold[p] = "nothing"
  BY <1>1 DEF PmInv, PmStages
<1>3. /\ pmCall'[p] = "started" /\ pmCounted'[p] /\ pmWaiter'[p] = "waiting"
      /\ \A o \in PmSpawn : o # p => /\ pmCall'[o] = pmCall[o] /\ pmCounted'[o] = pmCounted[o]
                                     /\ pmWaiter'[o] = pmWaiter[o]
  BY <1>1 DEF PmInv, PmTypeOK
<1>4. pmReserved' \in Nat /\ pmReserved' = Cardinality(PmClaims')
  BY <1>1, <1>3, PmClaimsKeep
<1>5. pmStats' \in Nat /\ PmStatsExact'
  BY <1>1, <1>2, <1>3, PmStatsKeep
<1>6. PmWithinLimit'
  <2>1. pmListed \subseteq PmSpawn
    BY DEF PmInv, PmTypeOK
  <2>2. PmLiveSet' = PmLiveSet
    BY <1>1, <1>2, <1>3, <2>1 DEF PmLiveSet, PmRunning
  <2>3. QED
    BY <1>1, <1>4, <2>2, PmLimitKeeps DEF PmInv, PmTypeOK
<1>7. PmStages'
  BY <1>1, <1>2, <1>3 DEF PmInv, PmStages
<1>8. PmTellings'
  BY <1>1, <1>2, <1>3 DEF PmInv, PmTellings
<1>9. PmTypeOK'
  BY <1>1, <1>4, <1>5 DEF PmInv, PmTypeOK, PmCalls, PmWaiters
<1>10. QED
  BY <1>4, <1>5, <1>6, <1>7, <1>8, <1>9 DEF PmInv

LEMMA PmCommitKeeps ==
  ASSUME PmInv, NEW p \in PmSpawn, PmCommit(p) PROVE PmInv'
<1>1. /\ pmCall[p] = "started" /\ pmCall' = [pmCall EXCEPT ![p] = "settling"]
      /\ pmListed' = pmListed \cup {p} /\ pmReserved' = pmReserved - 1
      /\ UNCHANGED <<pmMode, pmTold, pmAlive, pmWaiter, pmCounted, pmKill, pmNotify,
                     pmNotes, pmKilled, pmStats, pmLife>>
  BY DEF PmCommit
<1>2. /\ pmCall'[p] = "settling"
      /\ \A o \in PmSpawn : o # p => pmCall'[o] = pmCall[o]
  BY <1>1 DEF PmInv, PmTypeOK
<1>3. pmReserved' \in Nat /\ pmReserved' = Cardinality(PmClaims')
  BY <1>1, <1>2, PmClaimsKeep
<1>4. PmWithinLimit'
  <2>1. PmLiveSet' \subseteq PmLiveSet \cup {p}
    BY <1>1 DEF PmLiveSet, PmRunning
  <2>2. QED
    BY <1>1, <1>3, <2>1, PmLimitKeeps
<1>5. PmStages'
  BY <1>1, <1>2 DEF PmInv, PmStages
<1>6. PmTellings' /\ PmStatsExact'
  BY <1>1 DEF PmInv, PmTellings, PmStatsExact
<1>7. PmTypeOK'
  BY <1>1, <1>3 DEF PmInv, PmTypeOK, PmCalls
<1>8. QED
  BY <1>3, <1>4, <1>5, <1>6, <1>7 DEF PmInv

LEMMA PmAnswerKeeps ==
  ASSUME PmInv, NEW p \in PmSpawn, PmAnswer(p) PROVE PmInv'
<1> DEFINE notify == PmArms(p) \/ pmNotify[p]
<1>1. /\ pmCall[p] = "snapshot" /\ pmCall' = [pmCall EXCEPT ![p] = "answered"]
      /\ pmTold' = [pmTold EXCEPT ![p] = IF PmSnapshot(p) THEN "running" ELSE "exited"]
      /\ pmNotify' = [pmNotify EXCEPT ![p] = notify]
      /\ UNCHANGED <<pmMode, pmAlive, pmWaiter, pmCounted, pmKill, pmNotes, pmKilled,
                     pmListed, pmReserved, pmStats, pmLife>>
  BY DEF PmAnswer
<1>2. /\ pmTold[p] = "nothing" /\ ~pmNotify[p]
      /\ pmWaiter[p] # "telling" /\ pmNotes[p] = 0
      /\ pmWaiter[p] = "waiting" => pmWaiter[p] # "over"
  BY <1>1 DEF PmInv, PmStages, PmTellings
<1>3. notify <=> pmMode[p] = "notify" /\ pmWaiter[p] = "waiting"
  BY <1>2 DEF PmArms, PmSnapshot, PmRunning
<1>4. notify \in BOOLEAN
  BY <1>2 DEF PmArms, PmSnapshot, PmRunning
<1> HIDE DEF notify
<1>5. /\ pmCall'[p] = "answered"
      /\ pmTold'[p] = IF pmWaiter[p] = "waiting" THEN "running" ELSE "exited"
      /\ pmNotify'[p] = notify
      /\ \A o \in PmSpawn : o # p => /\ pmCall'[o] = pmCall[o] /\ pmTold'[o] = pmTold[o]
                                     /\ pmNotify'[o] = pmNotify[o]
  BY <1>1 DEF PmInv, PmTypeOK, PmSnapshot, PmRunning
<1>6. pmReserved' \in Nat /\ pmReserved' = Cardinality(PmClaims')
  BY <1>1, <1>5, PmClaimsKeep
<1>7. PmWithinLimit'
  <2>1. PmLiveSet' = PmLiveSet
    BY <1>1 DEF PmLiveSet, PmRunning
  <2>2. QED
    BY <1>1, <1>6, <2>1, PmLimitKeeps DEF PmInv, PmTypeOK
<1>8. PmStages'
  BY <1>1, <1>5 DEF PmInv, PmStages
<1>9. PmTellings'
  <2> SUFFICES ASSUME NEW o \in PmSpawn
               PROVE  /\ pmNotes[o] = 0 \/ (pmNotes[o] = 1 /\ pmWaiter[o] = "over")
                      /\ pmTold'[o] # "running" =>
                           ~pmNotify'[o] /\ pmWaiter[o] # "telling" /\ pmNotes[o] = 0
                      /\ pmTold'[o] = "running" /\ pmMode[o] = "notify" /\ ~pmKilled[o] =>
                           pmNotify'[o] /\ (pmWaiter[o] = "over" => pmNotes[o] = 1)
    BY <1>1 DEF PmTellings
  <2>1. CASE o # p
    BY <1>5, <2>1 DEF PmInv, PmTellings
  <2>2. CASE o = p
    BY <1>2, <1>3, <1>5, <2>2
  <2>3. QED
    BY <2>1, <2>2
<1>10. PmStatsExact'
  BY <1>1 DEF PmInv, PmStatsExact
<1>11. PmTypeOK'
  BY <1>1, <1>4, <1>6 DEF PmInv, PmTypeOK, PmCalls
<1>12. QED
  BY <1>6, <1>7, <1>8, <1>9, <1>10, <1>11 DEF PmInv

(* Steps that leave the call, the claims and the list alone: whatever the  *)
(* waiter does, no process begins to hold a slot again.                    *)
LEMMA PmQuietKeeps ==
  ASSUME PmInv, NEW p \in PmSpawn,
         UNCHANGED <<pmMode, pmCall, pmTold, pmReserved>>,
         pmListed' \subseteq pmListed,
         \A o \in PmSpawn : pmWaiter'[o] = "waiting" => pmWaiter[o] = "waiting",
         \A o \in PmSpawn : pmCounted'[o] => pmCounted[o],
         PmTypeOK', PmStatsExact', PmTellings'
  PROVE  PmInv'
<1>1. pmReserved' \in Nat /\ pmReserved' = Cardinality(PmClaims')
  BY DEF PmInv, PmTypeOK, PmClaims
<1>2. PmWithinLimit'
  <2>1. PmLiveSet' \subseteq PmLiveSet
    BY DEF PmLiveSet, PmRunning, PmInv, PmTypeOK
  <2>2. QED
    BY <1>1, <2>1, PmLimitKeeps DEF PmInv, PmTypeOK
<1>3. PmStages'
  BY DEF PmInv, PmStages
<1>4. QED
  BY <1>1, <1>2, <1>3 DEF PmInv

LEMMA PmWaiterSteps ==
  ASSUME PmInv, NEW p \in PmSpawn, PmChildExits(p) \/ PmWaiterStep(p)
  PROVE  PmInv'
<1> USE DEF PmWaiterStep, PmWaiters
<1>1. CASE PmChildExits(p) \/ PmReap(p) \/ PmDrained(p)
  <2>1. /\ UNCHANGED <<pmMode, pmCall, pmTold, pmCounted, pmKill, pmNotify, pmNotes,
                       pmKilled, pmListed, pmReserved, pmStats, pmLife>>
        /\ pmAlive' \in [PmSpawn -> BOOLEAN] /\ pmWaiter' \in [PmSpawn -> PmWaiters]
        /\ \A o \in PmSpawn : \/ pmWaiter'[o] = pmWaiter[o]
                              \/ /\ pmWaiter[o] \in {"waiting", "counted"}
                                 /\ pmWaiter'[o] \in {"exited", "done"}
    BY <1>1 DEF PmChildExits, PmReap, PmDrained, PmInv, PmTypeOK
  <2>2. PmTypeOK' /\ PmStatsExact'
    BY <2>1 DEF PmInv, PmTypeOK, PmStatsExact
  <2>3. PmTellings'
    BY <2>1 DEF PmInv, PmTellings
  <2>4. QED
    BY <2>1, <2>2, <2>3, PmQuietKeeps
<1>2. CASE PmUncount(p)
  <2>1. /\ UNCHANGED <<pmMode, pmCall, pmTold, pmAlive, pmKill, pmNotify, pmNotes,
                       pmKilled, pmListed, pmReserved, pmLife>>
        /\ pmWaiter[p] = "exited" /\ pmWaiter' = [pmWaiter EXCEPT ![p] = "counted"]
        /\ pmStats' = pmStats - PmOwes(p)
        /\ pmCounted' = [pmCounted EXCEPT ![p] = FALSE]
    BY <1>2 DEF PmUncount
  <2>2. /\ pmWaiter'[p] = "counted" /\ ~pmCounted'[p]
        /\ \A o \in PmSpawn : o # p => pmCounted'[o] = pmCounted[o] /\ pmWaiter'[o] = pmWaiter[o]
    BY <2>1 DEF PmInv, PmTypeOK
  <2>3. pmStats' = IF pmCounted[p] THEN pmStats - 1 ELSE pmStats
    BY <2>1 DEF PmOwes, PmInv, PmTypeOK
  <2>4. pmStats' \in Nat /\ PmStatsExact'
    BY <2>2, <2>3, PmStatsKeep
  <2>5. PmTellings'
    BY <2>1, <2>2 DEF PmInv, PmTellings
  <2>6. PmTypeOK'
    BY <2>1, <2>4 DEF PmInv, PmTypeOK
  <2>7. QED
    BY <2>1, <2>2, <2>4, <2>5, <2>6, PmQuietKeeps
<1>3. CASE PmLoadNotify(p)
  <2>1. /\ UNCHANGED <<pmMode, pmCall, pmTold, pmAlive, pmCounted, pmKill, pmNotify, pmNotes,
                       pmKilled, pmListed, pmReserved, pmStats, pmLife>>
        /\ pmWaiter[p] = "done"
        /\ pmWaiter' = [pmWaiter EXCEPT ![p] = IF pmNotify[p] THEN "telling" ELSE "over"]
    BY <1>3 DEF PmLoadNotify
  <2>2. /\ pmWaiter'[p] = IF pmNotify[p] THEN "telling" ELSE "over"
        /\ \A o \in PmSpawn : o # p => pmWaiter'[o] = pmWaiter[o]
    BY <2>1 DEF PmInv, PmTypeOK
  <2>3. PmTellings'
    BY <2>1, <2>2 DEF PmInv, PmTellings
  <2>4. PmTypeOK' /\ PmStatsExact'
    BY <2>1 DEF PmInv, PmTypeOK, PmStatsExact
  <2>5. QED
    BY <2>1, <2>2, <2>3, <2>4, PmQuietKeeps
<1>4. CASE PmEmitExit(p)
  <2>1. /\ UNCHANGED <<pmMode, pmCall, pmTold, pmAlive, pmCounted, pmKill, pmNotify,
                       pmKilled, pmListed, pmReserved, pmStats, pmLife>>
        /\ pmWaiter[p] = "telling" /\ pmWaiter' = [pmWaiter EXCEPT ![p] = "over"]
        /\ pmNotes' = [pmNotes EXCEPT ![p] = pmNotes[p] + 1]
    BY <1>4 DEF PmEmitExit
  <2>2. pmNotes[p] = 0 /\ pmTold[p] = "running"
    BY <2>1 DEF PmInv, PmTellings
  <2>3. /\ pmWaiter'[p] = "over" /\ pmNotes'[p] = 1
        /\ \A o \in PmSpawn : o # p => pmWaiter'[o] = pmWaiter[o] /\ pmNotes'[o] = pmNotes[o]
    BY <2>1, <2>2 DEF PmInv, PmTypeOK
  <2>4. PmTellings'
    BY <2>1, <2>2, <2>3 DEF PmInv, PmTellings
  <2>5. PmTypeOK' /\ PmStatsExact'
    BY <2>1, <2>2 DEF PmInv, PmTypeOK, PmStatsExact
  <2>6. QED
    BY <2>1, <2>3, <2>4, <2>5, PmQuietKeeps
<1>5. QED
  BY <1>1, <1>2, <1>3, <1>4

LEMMA PmHostSteps ==
  ASSUME PmInv, (\E p \in PmSpawn : PmKillOne(p)) \/ PmKillAll
                \/ \E life \in {"closed", "toolGone"} : PmClose(life)
  PROVE  PmInv'
<1>1. ASSUME NEW p \in PmSpawn, PmKillOne(p) PROVE PmInv'
  <2>1. /\ UNCHANGED <<pmMode, pmCall, pmTold, pmAlive, pmWaiter, pmCounted, pmNotes,
                       pmReserved, pmStats, pmLife>>
        /\ pmListed' = pmListed \ {p}
        /\ pmNotify' = [pmNotify EXCEPT ![p] = FALSE]
        /\ pmKill' = [pmKill EXCEPT ![p] = TRUE]
        /\ pmKilled' = [pmKilled EXCEPT ![p] = TRUE]
    BY <1>1 DEF PmKillOne
  <2>2. /\ ~pmNotify'[p] /\ pmKilled'[p]
        /\ \A o \in PmSpawn : o # p => pmNotify'[o] = pmNotify[o] /\ pmKilled'[o] = pmKilled[o]
    BY <2>1 DEF PmInv, PmTypeOK
  <2>3. PmTellings'
    BY <2>1, <2>2 DEF PmInv, PmTellings
  <2>4. PmTypeOK' /\ PmStatsExact'
    BY <2>1 DEF PmInv, PmTypeOK, PmStatsExact
  <2>5. QED
    BY <2>1, <2>3, <2>4, PmQuietKeeps
<1>2. CASE PmKillAll
  <2> DEFINE running == {p \in pmListed : PmRunning(p)}
  <2>1. /\ UNCHANGED <<pmMode, pmCall, pmTold, pmAlive, pmWaiter, pmCounted, pmNotes,
                       pmReserved, pmStats, pmLife>>
        /\ pmListed' = {} /\ pmListed # {}
        /\ pmNotify' = [p \in PmSpawn |-> pmNotify[p] /\ p \notin running]
        /\ pmKill' = [p \in PmSpawn |-> pmKill[p] \/ p \in running]
        /\ pmKilled' = [p \in PmSpawn |-> pmKilled[p] \/ p \in running]
    BY <1>2 DEF PmKillAll
  <2> HIDE DEF running
  <2>2. \A p \in PmSpawn : pmNotify[p] \in BOOLEAN /\ pmKill[p] \in BOOLEAN
                           /\ pmKilled[p] \in BOOLEAN
    BY DEF PmInv, PmTypeOK
  <2>3. \A p \in PmSpawn : /\ pmNotify'[p] = (pmNotify[p] /\ p \notin running)
                           /\ pmKilled'[p] = (pmKilled[p] \/ p \in running)
    BY <2>1, Zenon
  <2>4. PmTellings'
    <3> SUFFICES ASSUME NEW p \in PmSpawn
                 PROVE  /\ pmNotes[p] = 0 \/ (pmNotes[p] = 1 /\ pmWaiter[p] = "over")
                        /\ pmTold[p] # "running" =>
                             ~pmNotify'[p] /\ pmWaiter[p] # "telling" /\ pmNotes[p] = 0
                        /\ pmTold[p] = "running" /\ pmMode[p] = "notify" /\ ~pmKilled'[p] =>
                             pmNotify'[p] /\ (pmWaiter[p] = "over" => pmNotes[p] = 1)
      BY <2>1 DEF PmTellings
    <3>1. /\ pmNotify'[p] <=> pmNotify[p] /\ p \notin running
          /\ ~pmKilled'[p] => ~pmKilled[p] /\ p \notin running
      BY <2>3, Zenon
    <3>2. QED
      BY <3>1 DEF PmInv, PmTellings
  <2>5. /\ pmNotify' \in [PmSpawn -> BOOLEAN] /\ pmKill' \in [PmSpawn -> BOOLEAN]
        /\ pmKilled' \in [PmSpawn -> BOOLEAN]
    BY <2>1, <2>2
  <2>6. PmTypeOK' /\ PmStatsExact'
    BY <2>1, <2>5 DEF PmInv, PmTypeOK, PmStatsExact
  <2>7. \E p : p \in PmSpawn
    BY <2>1 DEF PmInv, PmTypeOK
  <2>8. QED
    BY <2>1, <2>4, <2>6, <2>7, PmQuietKeeps
<1>3. ASSUME NEW life \in {"closed", "toolGone"}, PmClose(life) PROVE PmInv'
  BY <1>3 DEF PmClose, PmInv, PmTypeOK, PmWithinLimit, PmLive, PmRunning, PmStatsExact,
              PmClaims, PmStages, PmTellings
<1>4. QED
  BY <1>1, <1>2, <1>3

LEMMA PmManagerDropsKeeps ==
  ASSUME PmInv, PmManagerDrops PROVE PmInv'
<1> DEFINE given == {p \in pmListed : pmCounted[p]}
<1>1. /\ UNCHANGED <<pmMode, pmCall, pmTold, pmWaiter, pmKill, pmNotify, pmNotes,
                     pmKilled, pmListed, pmReserved>>
      /\ pmLife' = "gone"
      /\ pmAlive' = [p \in PmSpawn |-> pmAlive[p] /\ ~(p \in pmListed /\ PmRunning(p))]
      /\ pmStats' = pmStats - Cardinality(given)
      /\ pmCounted' = [p \in PmSpawn |-> pmCounted[p] /\ p \notin pmListed]
  BY DEF PmManagerDrops
<1>2. \A p \in PmSpawn : pmCounted'[p] <=> pmCounted[p] /\ p \notin pmListed
  BY <1>1, Zenon
<1>3. /\ IsFiniteSet(PmCountedSet) /\ pmStats = Cardinality(PmCountedSet)
      /\ given \subseteq PmCountedSet
  BY PmAssumption, FS_Subset DEF PmInv, PmTypeOK, PmStatsExact, PmCountedSet
<1>4. PmCountedSet' = PmCountedSet \ given
  BY <1>2 DEF PmCountedSet
<1> HIDE DEF given
<1>5. PmCountedSet \cap given = given
  BY <1>3
<1>6. /\ IsFiniteSet(PmCountedSet \ given)
      /\ Cardinality(PmCountedSet \ given) = Cardinality(PmCountedSet) - Cardinality(given)
  BY <1>3, <1>5, FS_Difference
<1>7. Cardinality(PmCountedSet \ given) \in Nat
  BY <1>6, FS_CardinalityType
<1>8. pmStats' \in Nat /\ pmStats' = Cardinality(PmCountedSet')
  BY <1>1, <1>3, <1>4, <1>6, <1>7
<1>9. PmStatsExact'
  BY <1>8 DEF PmStatsExact, PmCountedSet
<1>10. PmTypeOK'
  <2>1. \A p \in PmSpawn : pmAlive[p] \in BOOLEAN /\ pmCounted[p] \in BOOLEAN
    BY DEF PmInv, PmTypeOK
  <2>2. pmAlive' \in [PmSpawn -> BOOLEAN] /\ pmCounted' \in [PmSpawn -> BOOLEAN]
    BY <1>1, <2>1
  <2>3. QED
    BY <1>1, <1>8, <2>2 DEF PmInv, PmTypeOK
<1>11. PmTellings'
  BY <1>1 DEF PmInv, PmTellings
<1>12. PmWithinLimit' /\ pmReserved' = Cardinality(PmClaims')
  BY <1>1 DEF PmInv, PmWithinLimit, PmLive, PmRunning, PmClaims
<1>13. PmStages'
  BY <1>1, <1>2 DEF PmInv, PmStages
<1>14. QED
  BY <1>9, <1>10, <1>11, <1>12, <1>13 DEF PmInv

LEMMA PmInvInit == PmInit => PmInv
<1> SUFFICES ASSUME PmInit PROVE PmInv
  OBVIOUS
<1>1. PmTypeOK
  BY DEF PmInit, PmTypeOK, PmCalls, PmWaiters
<1>2. PmClaims = {} /\ PmCountedSet = {} /\ PmLiveSet = {}
  BY DEF PmInit, PmClaims, PmCountedSet, PmLiveSet
<1>3. pmReserved = 0 /\ pmStats = 0 /\ Cardinality({}) = 0
  BY FS_EmptySet DEF PmInit
<1>4. PmWithinLimit
  BY <1>2, <1>3, PmAssumption DEF PmWithinLimit, PmLive, PmLiveSet
<1>5. PmStatsExact
  BY <1>2, <1>3 DEF PmStatsExact, PmCountedSet
<1>6. PmStages /\ PmTellings
  BY DEF PmInit, PmStages, PmTellings
<1>7. QED
  BY <1>1, <1>2, <1>3, <1>4, <1>5, <1>6 DEF PmInv

LEMMA PmInvStep == PmInv /\ [PmNext]_pmVars => PmInv'
<1> SUFFICES ASSUME PmInv, [PmNext]_pmVars PROVE PmInv'
  OBVIOUS
<1>1. CASE UNCHANGED pmVars
  BY <1>1 DEF pmVars, PmInv, PmTypeOK, PmWithinLimit, PmLive, PmRunning, PmStatsExact,
              PmClaims, PmStages, PmTellings
<1>2. CASE PmNext
  BY <1>2, PmCallSteps, PmStartKeeps, PmCommitKeeps, PmAnswerKeeps, PmWaiterSteps,
     PmHostSteps, PmManagerDropsKeeps DEF PmNext, PmCallStep
<1>3. QED
  BY <1>1, <1>2

(***************************************************************************)
(* ProcessCore::spawn, the waiter task, kill, kill_all, close and the drop *)
(* of the manager: for any number of spawns, the slots stay within         *)
(* max_processes, the counter is exact, and every end is told once.        *)
(***************************************************************************)
THEOREM PmSafety == PmSpec => []PmSafe
<1>1. PmInv => PmSafe
  BY DEF PmInv, PmSafe, PmTellings, PmToldOnce, PmNoLostExit
<1>2. QED
  BY <1>1, PmInvInit, PmInvStep, PTL DEF PmSpec

-----------------------------------------------------------------------------
(* Shell: what outlives a call, and what an answer says                    *)
ShTypes ==
  /\ shTodo \in Seq({"out", "err"}) /\ shOut \in Nat /\ shErr \in Nat
  /\ shChild \in {"none", "alive", "ended"}
  /\ shBack \in {"none", "piped", "quiet", "ended"}
  /\ shCall \in {"start", "failed", "readOut", "readErr", "wait",
                 "answered", "cancelled", "timedOut", "dropped"}

(* A child exists from the spawn on, and a call that returned has none.    *)
ShChildOfCall ==
  /\ shCall \in {"start", "failed"} => shChild = "none" /\ shBack = "none"
  /\ shCall \in {"readOut", "readErr", "wait"} => shChild # "none"
  /\ shCall \in {"answered", "cancelled", "timedOut", "dropped"} => shChild = "ended"
  /\ shCall \in {"cancelled", "timedOut"} => ~ShBackAlive

(* How far the reads have come: processes that left of themselves have     *)
(* written everything, so a pipe found empty after that stays empty.       *)
ShReadSoFar ==
  /\ shCall \in {"readOut", "readErr", "wait", "answered"} /\ ~ShWriters => shTodo = <<>>
  /\ shCall \in {"readErr", "wait", "answered"} => ~ShWriters /\ shChild = "ended" /\ shOut = 0
  /\ shCall \in {"wait", "answered"} => shErr = 0

ShInv == ShTypes /\ ShChildOfCall /\ ShReadSoFar

(***************************************************************************)
(* The child is dead when its call returns, the whole group when the call  *)
(* ended itself, and an answer has all that was written to either pipe     *)
(* (shell.rs, call; pgroup::kill_group), for every script, pipe capacity   *)
(* and interleaving, with a process left in the background or not.         *)
(***************************************************************************)
THEOREM ShSafety == ShSpec => []ShSafe
<1>1. ShInit => ShInv
  BY ShAssumption DEF ShInit, ShInv, ShTypes, ShChildOfCall, ShReadSoFar
<1>2. ShInv /\ [ShNext]_shVars => ShInv'
  <2> SUFFICES ASSUME ShInv, [ShNext]_shVars PROVE ShInv'
    OBVIOUS
  <2> USE DEF ShInv, ShTypes, ShChildOfCall, ShReadSoFar, ShWriters, ShBackAlive
  <2>1. CASE ShSpawn
    BY <2>1 DEF ShSpawn
  <2>2. CASE ShSpawnFails
    BY <2>2 DEF ShSpawnFails
  <2>3. CASE ShWrites
    <3>1. shTodo' \in Seq({"out", "err"})
      BY <2>3 DEF ShWrites
    <3>2. /\ ShWriters /\ shTodo # <<>> /\ shCall' = shCall
          /\ shChild' = shChild /\ shBack' = shBack
      BY <2>3 DEF ShWrites
    <3>3. shOut' \in Nat /\ shErr' \in Nat
      BY <2>3 DEF ShWrites
    <3>4. shCall \notin {"readErr", "wait", "answered"}
      BY <3>2
    <3> QED  BY <3>1, <3>2, <3>3, <3>4
  <2>4. CASE ShChildEnds
    BY <2>4 DEF ShChildEnds
  <2>5. CASE ShReadOut
    BY <2>5 DEF ShReadOut
  <2>6. CASE ShReadErr
    BY <2>6 DEF ShReadErr
  <2>7. CASE ShAnswer
    BY <2>7 DEF ShAnswer
  <2>8. ASSUME NEW why \in {"cancelled", "timedOut"}, ShStop(why) PROVE ShInv'
    BY <2>8 DEF ShStop, ShKillGroup, ShRunning
  <2>9. CASE ShDropped
    BY <2>9 DEF ShDropped, ShKillChild, ShRunning
  <2>10. CASE ShBackground
    BY <2>10 DEF ShBackground
  <2>11. CASE ShBackEnds
    <3>1. /\ ShBackAlive /\ shBack' = "ended" /\ (shBack = "piped" /\ shChild = "ended" => shTodo = <<>>)
          /\ UNCHANGED <<shTodo, shChild, shOut, shErr, shGot, shCall>>
      BY <2>11 DEF ShBackEnds
    <3>2. ShTypes' /\ ShChildOfCall'
      BY <3>1
    <3>3. ShReadSoFar'
      <4>1. CASE shBack = "quiet"
        BY <3>1, <4>1
      <4>2. CASE shBack = "piped" /\ shChild = "ended"
        BY <3>1, <4>2
      <4>3. CASE shBack = "piped" /\ shChild # "ended"
        BY <3>1, <4>3
      <4> QED  BY <3>1, <4>1, <4>2, <4>3
    <3> QED  BY <3>2, <3>3
  <2>12. CASE UNCHANGED shVars
    BY <2>12 DEF shVars
  <2> QED
    BY <2>1, <2>2, <2>3, <2>4, <2>5, <2>6, <2>7, <2>8, <2>9, <2>10, <2>11, <2>12
    DEF ShNext, ShRead, ShCommand
<1>3. ShInv => ShSafe
  BY DEF ShInv, ShTypes, ShChildOfCall, ShReadSoFar, ShSafe, ShReturned, ShWriters, ShBackAlive
<1> QED  BY <1>1, <1>2, <1>3, PTL DEF ShSpec

-----------------------------------------------------------------------------
(* Interpreters: whose output, whose state, whose `tools`                  *)
IpSteps == {"idle", "queued", "reading", "answered", "failed", "dropped"}
IpCode == [id : IpExec, kind : IpKinds, clean : BOOLEAN]

IpCalls ==
  /\ ipTool \in {"pykernel", "bun_repl"}
  /\ ipKind \in [IpExec -> IpKinds] /\ ipStep \in [IpExec -> IpSteps]
  /\ ipTold \in [IpExec -> BOOLEAN] /\ ipGot \in [IpExec -> {0} \cup IpExec]
  /\ ipLock \in {0} \cup IpExec /\ ipOn \in [IpExec -> Nat]

IpPipes ==
  /\ ipLive \in Nat /\ ipSpawned \in Nat
  /\ ipIn \in Seq(IpCode) /\ ipNow \in Seq(IpCode) /\ ipOut \in Seq(IpExec)
  /\ ipUp \in BOOLEAN /\ ipGlobal \in BOOLEAN /\ ipNotice \in BOOLEAN
  /\ ipDirty \in BOOLEAN /\ ipInstalled \in BOOLEAN /\ ipKnown \in Nat

(* The call that reads is the one that holds the session's lock.           *)
IpHeld ==
  /\ \A e \in IpExec : ipStep[e] = "reading" <=> ipLock = e
  /\ \A e \in IpExec :
       ipStep[e] # "idle" => (ipKind[e] = "python" <=> ipTool = "pykernel")

(* Code that must not see a `tools` global: it removes it itself, or it    *)
(* comes after code that left none.                                        *)
IpPlain(code) == code.kind # "programmatic"
IpShielded ==
  /\ \A i \in DOMAIN ipIn :
       IpPlain(ipIn[i]) =>
         \/ ipIn[i].clean
         \/ IF i = 1 THEN ~ipGlobal ELSE IpPlain(ipIn[i - 1])
  /\ \A i \in DOMAIN ipNow : IpPlain(ipNow[i]) => ~ipGlobal
  /\ Len(ipNow) =< 1

(* tools_installed is a promise about the end of the queue.                *)
IpInstalledTrue ==
  /\ ipInstalled => ipTool = "bun_repl"
  /\ ~ipInstalled => IF ipIn = <<>> THEN ~ipGlobal ELSE IpPlain(ipIn[Len(ipIn)])

(* The interpreter the caller relies on is still there, or it will hear.   *)
IpHears ==
  /\ ipLock = 0 /\ ~ipNotice /\ ~ipDirty => ipKnown \in {0, ipLive}
  /\ \A e \in IpExec : ipLock = e /\ ~ipTold[e] => ipKnown \in {0, ipLive}

IpInv ==
  IpCalls /\ IpPipes /\ IpHeld /\ IpShielded /\ IpInstalledTrue /\ IpHears
LEMMA IpInitInv == IpInit => IpInv
<1> SUFFICES ASSUME IpInit PROVE IpInv
  OBVIOUS
<1>1. <<>> \in Seq(IpCode) /\ <<>> \in Seq(IpExec) /\ Len(<<>>) = 0 /\ DOMAIN <<>> = {}
  BY QueueNone
<1>2. IpCalls /\ IpPipes
  BY <1>1 DEF IpInit, IpCalls, IpPipes, IpKinds, IpSteps
<1>3. IpHeld /\ IpHears
  BY DEF IpInit, IpHeld, IpHears, IpExec
<1>4. IpShielded /\ IpInstalledTrue
  BY <1>1 DEF IpInit, IpShielded, IpInstalledTrue
<1> QED
  BY <1>2, <1>3, <1>4 DEF IpInv

(* The queues of an interpreter that is gone, or has just begun.           *)
IpEmpty == ipIn = <<>> /\ ipNow = <<>> /\ ipOut = <<>> /\ ~ipGlobal

LEMMA IpGone ==
  ASSUME IpEmpty'
  PROVE  /\ IpShielded'
         /\ (ipInstalled' => ipTool' = "bun_repl") => IpInstalledTrue'
         /\ ipIn' \in Seq(IpCode) /\ ipNow' \in Seq(IpCode) /\ ipOut' \in Seq(IpExec)
<1>1. <<>> \in Seq(IpCode) /\ <<>> \in Seq(IpExec) /\ Len(<<>>) = 0 /\ DOMAIN <<>> = {}
  BY QueueNone
<1>2. (ipInstalled' => ipTool' = "bun_repl") => IpInstalledTrue'
  BY <1>1 DEF IpEmpty, IpInstalledTrue
<1>3. IpShielded'
  BY <1>1 DEF IpEmpty, IpShielded
<1> QED
  BY <1>1, <1>2, <1>3 DEF IpEmpty

LEMMA IpBeginInv ==
  ASSUME IpInv, NEW e \in IpExec, IpBegin(e)
  PROVE  IpInv'
<1> DEFINE code == [id |-> e, kind |-> ipKind[e], clean |-> IpUninstalls(e)]
<1>0. /\ IpCalls /\ IpPipes /\ IpHeld /\ IpShielded /\ IpInstalledTrue /\ IpHears
  BY DEF IpInv
<1>1. code \in IpCode
  BY <1>0 DEF IpCalls, IpPipes, IpCode, IpUninstalls, IpUsable
<1>2. IF IpUsable
      THEN /\ ipIn' = Append(ipIn, code)
           /\ UNCHANGED <<ipLive, ipSpawned, ipUp, ipNow, ipOut, ipGlobal>>
      ELSE IpSpawns(<<code>>)
  BY DEF IpBegin
<1>3. code.id = e /\ code.kind = ipKind[e] /\ code.clean = IpUninstalls(e)
  OBVIOUS
<1>4. /\ ipLock = 0 /\ ipStep[e] = "queued" /\ ipLock' = e
      /\ ipStep' = [ipStep EXCEPT ![e] = "reading"]
      /\ ipTold' = [ipTold EXCEPT ![e] = IpLost]
      /\ ipNotice' = FALSE /\ ipDirty' = FALSE
      /\ ipInstalled' = (ipKind[e] = "programmatic")
      /\ ipOn' = [ipOn EXCEPT ![e] = ipLive']
      /\ UNCHANGED <<ipTool, ipKind, ipGot, ipKnown>>
  BY DEF IpBegin, IpMyTurn
<1>5. e \in Nat /\ e # 0 /\ IpLost \in BOOLEAN
  BY <1>0 DEF IpExec, IpLost, IpCalls, IpPipes
<1> HIDE DEF code
<1>6. IpHeld'
  <2>1. \A d \in IpExec : d # e => ipStep'[d] = ipStep[d] /\ ipStep[d] # "reading"
    BY <1>0, <1>4, <1>5 DEF IpCalls, IpHeld, IpExec
  <2>2. ipStep'[e] = "reading"
    BY <1>0, <1>4 DEF IpCalls
  <2> QED
    BY <2>1, <2>2, <1>0, <1>4 DEF IpHeld
<1>10. IpCalls' /\ (ipInstalled' => ipTool' = "bun_repl")
  <2>0. ipLive' \in Nat
    BY <1>0, <1>2 DEF IpPipes, IpSpawns
  <2>1. IpCalls'
    BY <2>0, <1>0, <1>4, <1>5 DEF IpCalls, IpSteps
  <2>2. ipKind[e] = "programmatic" => ipTool = "bun_repl"
    BY <1>0, <1>4 DEF IpCalls, IpHeld
  <2> QED
    BY <2>1, <2>2, <1>4
<1>7. IpHears'
  <2>1. ASSUME NEW d \in IpExec, ipLock' = d, ~ipTold'[d] PROVE ipKnown' \in {0, ipLive'}
    <3>1. d = e /\ ~IpLost
      BY <2>1, <1>4, <1>0 DEF IpCalls, IpPipes
    <3>2. ~ipNotice /\ ~ipDirty /\ (ipLive = 0 \/ ipUp)
      BY <3>1 DEF IpLost
    <3>3. ipKnown \in {0, ipLive}
      BY <3>2, <1>0, <1>4 DEF IpHears
    <3>4. CASE IpUsable
      BY <3>4, <3>3, <1>2, <1>4
    <3>5. CASE ~IpUsable
      BY <3>5, <3>3, <3>2, <1>4 DEF IpUsable
    <3> QED
      BY <3>4, <3>5
  <2> QED
    BY <2>1, <1>4, <1>5 DEF IpHears
<1>8. CASE IpUsable
  <2>1. ipIn' = Append(ipIn, code) /\ UNCHANGED <<ipLive, ipSpawned, ipUp, ipNow, ipOut, ipGlobal>>
    BY <1>2, <1>8
  <2> DEFINE n == Len(ipIn)
  <2>2. ipIn \in Seq(IpCode)
    BY <1>0 DEF IpCalls, IpPipes
  <2>3. /\ ipIn' \in Seq(IpCode) /\ Len(ipIn') = n + 1
        /\ \A i \in 1 .. n : ipIn'[i] = ipIn[i]
        /\ ipIn'[n + 1] = code /\ n \in Nat /\ DOMAIN ipIn = 1 .. n
        /\ DOMAIN ipIn' = 1 .. (n + 1) /\ ipIn' # <<>> /\ (ipIn = <<>> <=> n = 0)
    BY <2>1, <2>2, <1>1, QueueAppend
  <2> HIDE DEF n
  <2>4. IpPipes'
    BY <2>3, <2>1, <1>0, <1>4 DEF IpPipes
  <2>6. IpInstalledTrue'
    BY <2>3, <1>4, <1>3, <1>10 DEF IpInstalledTrue, IpPlain
  <2>7. IpShielded'
    <3>1. ASSUME NEW i \in DOMAIN ipIn', IpPlain(ipIn'[i])
          PROVE  ipIn'[i].clean \/ IF i = 1 THEN ~ipGlobal ELSE IpPlain(ipIn'[i - 1])
      <4>1. CASE i \in 1 .. n
        <5>1. ipIn'[i] = ipIn[i] /\ (i # 1 => ipIn'[i - 1] = ipIn[i - 1]) /\ i \in DOMAIN ipIn
          BY <4>1, <2>3
        <5> QED
          BY <5>1, <3>1, <1>0 DEF IpShielded
      <4>2. CASE i = n + 1
        <5>1. ipKind[e] # "programmatic" /\ ipIn'[i] = code
          BY <4>2, <3>1, <2>3, <1>3 DEF IpPlain
        <5>2. CASE ipInstalled
          <6>1. ipKind[e] = "bun"
            BY <5>1, <5>2, <1>0, <1>4 DEF IpCalls, IpPipes, IpKinds, IpHeld, IpInstalledTrue
          <6> QED
            BY <6>1, <5>1, <5>2, <1>3, <1>8 DEF IpUninstalls
        <5>3. CASE ~ipInstalled
          <6>1. IF n = 0 THEN ~ipGlobal ELSE IpPlain(ipIn[n])
            BY <5>3, <1>0, <2>3 DEF IpInstalledTrue, n
          <6>2. CASE n = 0
            BY <6>1, <6>2, <4>2
          <6>3. CASE n # 0
            <7>1. i # 1 /\ i - 1 = n /\ n \in 1 .. n
              BY <6>3, <4>2, <2>3
            <7> QED
              BY <7>1, <6>1, <6>3, <2>3
          <6> QED
            BY <6>2, <6>3
        <5> QED
          BY <5>2, <5>3
      <4> QED
        BY <4>1, <4>2, <2>3
    <3> QED
      BY <3>1, <2>1, <1>0 DEF IpShielded
  <2> QED
    BY <2>4, <2>6, <2>7, <1>6, <1>7, <1>10 DEF IpInv
<1>9. CASE ~IpUsable
  <2>1. /\ ipSpawned' = ipSpawned + 1 /\ ipLive' = ipSpawned + 1 /\ ipUp' = TRUE
        /\ ipIn' = <<code>> /\ ipNow' = <<>> /\ ipOut' = <<>> /\ ipGlobal' = FALSE
    BY <1>2, <1>9 DEF IpSpawns
  <2>2. ipIn' \in Seq(IpCode) /\ Len(ipIn') = 1 /\ DOMAIN ipIn' = {1} /\ ipIn'[1] = code /\ ipIn' # <<>>
    BY <2>1, <1>1, QueueOne
  <2>3. /\ ipNow' \in Seq(IpCode) /\ ipOut' \in Seq(IpExec) /\ Len(ipNow') = 0 /\ Len(ipOut') = 0
        /\ DOMAIN ipNow' = {} /\ DOMAIN ipOut' = {}
    BY <2>1, QueueNone
  <2>8. ipLive' \in Nat /\ ipSpawned' \in Nat /\ ipUp' = TRUE /\ ipGlobal' = FALSE
    BY <2>1, <1>0 DEF IpPipes
  <2>4. IpPipes'
    BY <2>8, <2>3, <2>2, <1>0, <1>4 DEF IpPipes
  <2>6. IpInstalledTrue'
    BY <2>2, <1>4, <1>3, <1>10 DEF IpInstalledTrue, IpPlain
  <2>7. IpShielded'
    BY <2>1, <2>2, <2>3 DEF IpShielded
  <2> QED
    BY <2>4, <2>6, <2>7, <1>6, <1>7, <1>10 DEF IpInv
<1> QED
  BY <1>8, <1>9

LEMMA IpCallInv ==
  ASSUME IpInv, NEW e \in IpExec, NEW kind \in IpKinds, IpCall(e, kind)
  PROVE  IpInv'
<1>0. /\ IpCalls /\ IpPipes /\ IpHeld /\ IpShielded /\ IpInstalledTrue
      /\ IpHears
  BY DEF IpInv
<1>1. /\ ipStep[e] = "idle" /\ (kind = "python" <=> ipTool = "pykernel")
      /\ ipKind' = [ipKind EXCEPT ![e] = kind] /\ ipStep' = [ipStep EXCEPT ![e] = "queued"]
      /\ UNCHANGED <<ipTool, ipTold, ipGot, ipOn, ipLock, ipKnown>>
      /\ UNCHANGED <<ipProcVars, ipNotice, ipDirty, ipInstalled>>
  BY DEF IpCall
<1>2. IpCalls' /\ IpHeld'
  BY <1>0, <1>1 DEF IpCalls, IpHeld, IpSteps
<1>3. IpHears'
  BY <1>0, <1>1 DEF IpHears, ipProcVars
<1>4. IpPipes'
  BY <1>0, <1>1 DEF IpPipes, ipProcVars
<1>6. IpShielded' /\ IpInstalledTrue'
  BY <1>0, <1>1 DEF IpShielded, IpInstalledTrue, ipProcVars
<1> QED
  BY <1>2, <1>3, <1>4, <1>6 DEF IpInv

LEMMA IpSpawnFailsInv ==
  ASSUME IpInv, NEW e \in IpExec, IpSpawnFails(e)
  PROVE  IpInv'
<1>0. /\ IpCalls /\ IpPipes /\ IpHeld /\ IpInstalledTrue /\ IpHears
  BY DEF IpInv
<1>1. /\ ipStep[e] = "queued" /\ ipLock = 0 /\ ~IpUsable
      /\ ipStep' = [ipStep EXCEPT ![e] = "failed"]
      /\ ipLive' = 0 /\ ipUp' = FALSE /\ IpEmpty' /\ ipGlobal' = FALSE
      /\ ipNotice' = IpLost /\ ipDirty' = FALSE
      /\ UNCHANGED <<ipTool, ipKind, ipTold, ipGot, ipOn, ipLock, ipSpawned, ipInstalled>>
      /\ ipKnown' = ipKnown
  BY DEF IpSpawnFails, IpMyTurn, IpEmpty
<1>2. IpCalls' /\ IpHeld'
  BY <1>0, <1>1 DEF IpCalls, IpHeld, IpSteps
<1>3. IpHears'
  <2>1. ASSUME ~IpLost PROVE ipKnown = 0
    BY <2>1, <1>0, <1>1 DEF IpHears, IpLost, IpUsable
  <2> QED
    BY <2>1, <1>1, <1>0 DEF IpHears, IpExec
<1>4. /\ ipIn' \in Seq(IpCode) /\ ipNow' \in Seq(IpCode) /\ ipOut' \in Seq(IpExec)
      /\ IpShielded' /\ IpInstalledTrue'
  BY <1>0, <1>1, IpGone DEF IpInstalledTrue
<1>5. IpPipes'
  BY <1>0, <1>1, <1>4 DEF IpPipes, IpLost
<1> QED
  BY <1>2, <1>3, <1>4, <1>5 DEF IpInv

LEMMA IpSourceFailsInv ==
  ASSUME IpInv, NEW e \in IpExec, IpSourceFails(e)
  PROVE  IpInv'
<1>0. /\ IpCalls /\ IpPipes /\ IpHeld /\ IpShielded /\ IpInstalledTrue
      /\ IpHears
  BY DEF IpInv
<1>1. /\ ipStep[e] = "queued" /\ ipLock = 0 /\ ipTool = "bun_repl"
      /\ ipStep' = [ipStep EXCEPT ![e] = "failed"]
      /\ ipNotice' = FALSE /\ ipDirty' = FALSE
      /\ ipKnown' = IF IpLost THEN 0 ELSE ipKnown
      /\ UNCHANGED <<ipTool, ipKind, ipTold, ipGot, ipOn, ipLock>>
  BY DEF IpSourceFails, IpMyTurn
<1>2. IpCalls' /\ IpHeld'
  BY <1>0, <1>1 DEF IpCalls, IpHeld, IpSteps
<1>3. ipKnown' \in Nat /\ (ipKnown' = 0 \/ (~IpLost /\ ipKnown' = ipKnown))
  BY <1>0, <1>1 DEF IpPipes
<1>4. CASE IpUsable
  <2>1. UNCHANGED <<ipLive, ipSpawned, ipUp, ipIn, ipNow, ipOut, ipGlobal, ipInstalled>>
    BY <1>4 DEF IpSourceFails, ipProcVars
  <2>2. IpHears'
    BY <2>1, <1>0, <1>1, <1>3 DEF IpHears, IpLost, IpExec
  <2>3. IpPipes'
    BY <2>1, <1>0, <1>1, <1>3 DEF IpPipes
  <2>5. IpShielded' /\ IpInstalledTrue'
    BY <2>1, <1>0, <1>1 DEF IpShielded, IpInstalledTrue
  <2> QED
    BY <2>2, <2>3, <2>5, <1>2 DEF IpInv
<1>5. CASE ~IpUsable
  <2>1. /\ ipSpawned' = ipSpawned + 1 /\ ipLive' = ipSpawned + 1 /\ ipUp' = TRUE /\ IpEmpty'
        /\ ipGlobal' = FALSE /\ ipInstalled' = FALSE
    BY <1>5 DEF IpSourceFails, IpSpawns, IpEmpty
  <2>2. ~IpLost => ipKnown = 0
    BY <1>5, <1>0, <1>1 DEF IpHears, IpLost, IpUsable
  <2>3. IpHears'
    BY <2>1, <2>2, <1>1, <1>3, <1>0 DEF IpHears, IpExec
  <2>4. /\ ipIn' \in Seq(IpCode) /\ ipNow' \in Seq(IpCode) /\ ipOut' \in Seq(IpExec)
        /\ IpShielded' /\ IpInstalledTrue'
    BY <2>1, <1>1, IpGone
  <2>6. ipLive' \in Nat /\ ipSpawned' \in Nat
    BY <2>1, <1>0 DEF IpPipes
  <2>5. IpPipes'
    BY <2>1, <2>4, <2>6, <1>1, <1>3 DEF IpPipes
  <2> QED
    BY <2>3, <2>4, <2>5, <1>2 DEF IpInv
<1> QED
  BY <1>4, <1>5

LEMMA IpGivesUpInv ==
  ASSUME IpInv, NEW e \in IpExec, IpGivesUp(e)
  PROVE  IpInv'
<1>0. IpCalls /\ IpPipes /\ IpHeld /\ IpInstalledTrue
  BY DEF IpInv
<1>1. /\ ipStep[e] = "reading" /\ ipStep' = [ipStep EXCEPT ![e] = "failed"] /\ ipLock' = 0
      /\ ipLive' = 0 /\ ipUp' = FALSE /\ IpEmpty' /\ ipGlobal' = FALSE
      /\ ipNotice' = TRUE /\ ipDirty' \in {TRUE, ipDirty}
      /\ UNCHANGED <<ipTool, ipKind, ipTold, ipGot, ipOn, ipSpawned, ipInstalled, ipKnown>>
  BY DEF IpGivesUp, IpKills, IpEmpty
<1>2. IpCalls'
  BY <1>0, <1>1 DEF IpCalls, IpSteps
<1>3. IpHeld'
  BY <1>0, <1>1 DEF IpCalls, IpHeld, IpExec
<1>4. IpHears'
  BY <1>1 DEF IpHears, IpExec
<1>5. /\ ipIn' \in Seq(IpCode) /\ ipNow' \in Seq(IpCode) /\ ipOut' \in Seq(IpExec)
      /\ IpShielded' /\ IpInstalledTrue'
  BY <1>0, <1>1, IpGone DEF IpInstalledTrue
<1>6. IpPipes'
  BY <1>0, <1>1, <1>5 DEF IpPipes
<1> QED
  BY <1>2, <1>3, <1>4, <1>5, <1>6 DEF IpInv

LEMMA IpResetInv ==
  ASSUME IpInv, IpReset
  PROVE  IpInv'
<1>0. IpCalls /\ IpPipes /\ IpHeld /\ IpInstalledTrue
  BY DEF IpInv
<1>1. /\ ipLock = 0 /\ ipLive' = 0 /\ ipUp' = FALSE /\ IpEmpty' /\ ipGlobal' = FALSE
      /\ ipNotice' = FALSE /\ ipDirty' = FALSE /\ ipKnown' = 0
      /\ UNCHANGED <<ipTool, ipKind, ipStep, ipTold, ipGot, ipOn, ipLock, ipSpawned>>
      /\ ipInstalled' = ipInstalled
  BY DEF IpReset, IpKills, IpEmpty, ipCallVars
<1>2. IpCalls' /\ IpHeld'
  BY <1>0, <1>1 DEF IpCalls, IpHeld
<1>4. IpHears'
  BY <1>1 DEF IpHears
<1>5. /\ ipIn' \in Seq(IpCode) /\ ipNow' \in Seq(IpCode) /\ ipOut' \in Seq(IpExec)
      /\ IpShielded' /\ IpInstalledTrue'
  BY <1>0, <1>1, IpGone DEF IpInstalledTrue
<1>6. IpPipes'
  BY <1>0, <1>1, <1>5 DEF IpPipes
<1> QED
  BY <1>2, <1>4, <1>5, <1>6 DEF IpInv

(* A call may be dropped while its code runs.                              *)
LEMMA IpDroppedInv ==
  ASSUME IpInv, NEW e \in IpExec, IpDropped(e)
  PROVE  IpInv'
<1>0. /\ IpCalls /\ IpPipes /\ IpHeld /\ IpShielded /\ IpInstalledTrue
      /\ IpHears
  BY DEF IpInv
<1>1. /\ ipStep[e] \in {"queued", "reading"}
      /\ ipStep' = [ipStep EXCEPT ![e] = "dropped"]
      /\ UNCHANGED <<ipTool, ipKind, ipTold, ipGot, ipOn, ipNotice, ipInstalled>>
      /\ UNCHANGED <<ipLive, ipSpawned, ipUp, ipIn, ipNow, ipOut, ipGlobal>>
  BY DEF IpDropped, ipProcVars
<1>4. IpShielded' /\ IpInstalledTrue'
  BY <1>0, <1>1 DEF IpShielded, IpInstalledTrue
<1>5. CASE ipStep[e] = "queued"
  <2>1. UNCHANGED <<ipLock, ipDirty, ipKnown>>
    BY <1>5 DEF IpDropped
  <2>2. IpCalls' /\ IpHeld'
    BY <2>1, <1>0, <1>1, <1>5 DEF IpCalls, IpHeld, IpSteps
  <2>3. IpHears'
    BY <2>1, <1>0, <1>1 DEF IpHears
  <2>4. IpPipes'
    BY <2>1, <1>0, <1>1 DEF IpPipes
  <2> QED
    BY <2>2, <2>3, <2>4, <1>4 DEF IpInv
<1>6. CASE ipStep[e] = "reading"
  <2>1. /\ ipLock' = 0 /\ ipDirty' \in {TRUE, ipDirty}
        /\ ipDirty' = TRUE \/ ipKnown' = IF ipTold[e] THEN 0 ELSE ipKnown
        /\ ipKnown' \in {0, ipKnown}
    BY <1>6 DEF IpDropped
  <2>2. IpCalls'
    BY <2>1, <1>0, <1>1 DEF IpCalls, IpSteps
  <2>3. IpHeld'
    BY <2>1, <1>0, <1>1, <1>6 DEF IpCalls, IpHeld, IpExec
  <2>4. IpHears'
    <3>1. ~ipTold[e] => ipKnown \in {0, ipLive}
      BY <1>0, <1>6 DEF IpHears, IpHeld
    <3> QED
      BY <3>1, <2>1, <1>1 DEF IpHears, IpExec
  <2>6. ipKnown' \in Nat
    BY <2>1, <1>0 DEF IpPipes
  <2>7. ipDirty' \in BOOLEAN
    BY <2>1, <1>0 DEF IpPipes
  <2>5. IpPipes'
    BY <2>6, <2>7, <1>0, <1>1 DEF IpPipes
  <2> QED
    BY <2>2, <2>3, <2>4, <2>5, <1>4 DEF IpInv
<1> QED
  BY <1>1, <1>5, <1>6

(* The end of the interpreter, and the kill that comes late.               *)
LEMMA IpDeathInv ==
  ASSUME IpInv, IpDies \/ IpLateKill
  PROVE  IpInv'
<1>0. /\ IpCalls /\ IpPipes /\ IpHeld /\ IpShielded /\ IpInstalledTrue
      /\ IpHears
  BY DEF IpInv
<1>1. /\ ipUp' \in BOOLEAN
      /\ UNCHANGED <<ipTool, ipKind, ipStep, ipTold, ipGot, ipOn, ipLock>>
      /\ UNCHANGED <<ipLive, ipSpawned, ipIn, ipNow, ipOut, ipGlobal, ipNotice, ipDirty,
                     ipInstalled, ipKnown>>
  BY <1>0 DEF IpDies, IpLateKill, ipCallVars, IpPipes
<1>2. IpCalls' /\ IpHeld'
  BY <1>0, <1>1 DEF IpCalls, IpHeld
<1>3. IpHears' /\ IpPipes'
  BY <1>0, <1>1 DEF IpHears, IpPipes
<1>5. IpShielded' /\ IpInstalledTrue'
  BY <1>0, <1>1 DEF IpShielded, IpInstalledTrue
<1> QED
  BY <1>2, <1>3, <1>5 DEF IpInv

(* A step of the interpreter leaves the calls alone.                       *)
LEMMA IpFinishesCodeInv ==
  ASSUME IpInv, IpFinishesCode
  PROVE  IpInv'
<1>0. /\ IpCalls /\ IpPipes /\ IpHeld /\ IpShielded /\ IpInstalledTrue
      /\ IpHears
  BY DEF IpInv
<1>1. /\ ipNow # <<>> /\ ipOut' = Append(ipOut, Head(ipNow).id) /\ ipNow' = <<>>
      /\ UNCHANGED <<ipTool, ipKind, ipStep, ipTold, ipGot, ipOn, ipLock>>
      /\ UNCHANGED <<ipLive, ipSpawned, ipUp, ipIn, ipGlobal, ipNotice, ipDirty,
                     ipInstalled, ipKnown>>
  BY DEF IpFinishesCode, ipCallVars
<1> DEFINE n == Len(ipOut)
           done == Head(ipNow).id
<1>2. ipNow \in Seq(IpCode) /\ ipOut \in Seq(IpExec)
  BY <1>0 DEF IpPipes
<1>3. /\ Head(ipNow) \in IpCode /\ Head(ipNow) = ipNow[1] /\ Len(ipNow) \in Nat
      /\ Len(ipNow) >= 1 /\ DOMAIN ipNow = 1 .. Len(ipNow)
  BY <1>1, <1>2, QueueTail
<1>4. done \in IpExec
  BY <1>3 DEF IpCode
<1>5. ipNow' \in Seq(IpCode) /\ Len(ipNow') = 0 /\ DOMAIN ipNow' = {}
  BY <1>1, QueueNone
<1> HIDE DEF done
<1>6. /\ Append(ipOut, done) \in Seq(IpExec) /\ Len(Append(ipOut, done)) = n + 1
      /\ \A i \in 1 .. n : Append(ipOut, done)[i] = ipOut[i]
      /\ Append(ipOut, done)[n + 1] = done /\ n \in Nat /\ DOMAIN ipOut = 1 .. n
      /\ DOMAIN Append(ipOut, done) = 1 .. (n + 1)
  BY <1>2, <1>4, QueueAppend
<1>7. ipOut' = Append(ipOut, done)
  BY <1>1 DEF done
<1>8. IpCalls' /\ IpHeld'
  BY <1>0, <1>1 DEF IpCalls, IpHeld
<1>9. IpHears'
  BY <1>0, <1>1 DEF IpHears
<1>10. IpPipes'
  BY <1>0, <1>1, <1>5, <1>6, <1>7 DEF IpPipes
<1>11. IpShielded' /\ IpInstalledTrue'
  BY <1>0, <1>1, <1>5 DEF IpShielded, IpInstalledTrue
<1> QED
  BY <1>8, <1>9, <1>10, <1>11 DEF IpInv

LEMMA IpTakesCodeInv ==
  ASSUME IpInv, IpTakesCode
  PROVE  IpInv'
<1>0. /\ IpCalls /\ IpPipes /\ IpHeld /\ IpShielded /\ IpInstalledTrue
      /\ IpHears
  BY DEF IpInv
<1> DEFINE code == Head(ipIn)
           n == Len(ipIn)
<1>1. /\ ipNow = <<>> /\ ipIn # <<>> /\ ipNow' = <<code>> /\ ipIn' = Tail(ipIn)
      /\ ipGlobal' = ((ipGlobal /\ ~code.clean) \/ code.kind = "programmatic")
      /\ UNCHANGED <<ipTool, ipKind, ipStep, ipTold, ipGot, ipOn, ipLock>>
      /\ UNCHANGED <<ipLive, ipSpawned, ipUp, ipOut, ipNotice, ipDirty, ipInstalled, ipKnown>>
  BY DEF IpTakesCode, ipCallVars
<1>2. ipIn \in Seq(IpCode) /\ ipOut \in Seq(IpExec) /\ ipGlobal \in BOOLEAN
  BY <1>0 DEF IpPipes
<1>3. /\ Tail(ipIn) \in Seq(IpCode) /\ Len(Tail(ipIn)) = n - 1 /\ code \in IpCode
      /\ \A i \in 1 .. n - 1 : Tail(ipIn)[i] = ipIn[i + 1]
      /\ code = ipIn[1] /\ n \in Nat /\ n >= 1
      /\ DOMAIN Tail(ipIn) = 1 .. (n - 1) /\ DOMAIN ipIn = 1 .. n
      /\ Tail(ipIn) = <<>> <=> n = 1
  BY <1>1, <1>2, QueueTail
<1> HIDE DEF code
<1>4. ipNow' \in Seq(IpCode) /\ Len(ipNow') = 1 /\ DOMAIN ipNow' = {1} /\ ipNow'[1] = code
  BY <1>1, <1>3, QueueOne
<1>5. /\ ipIn' \in Seq(IpCode) /\ Len(ipIn') = n - 1
      /\ \A i \in 1 .. n - 1 : ipIn'[i] = ipIn[i + 1]
      /\ DOMAIN ipIn' = 1 .. (n - 1) /\ (ipIn' = <<>> <=> n = 1)
  BY <1>1, <1>3
<1> HIDE DEF n
<1>6. Len(ipNow) = 0
  BY <1>1, QueueNone
<1>7. IpCalls' /\ IpHeld'
  BY <1>0, <1>1 DEF IpCalls, IpHeld
<1>8. IpHears'
  BY <1>0, <1>1 DEF IpHears
<1>9. ipGlobal' \in BOOLEAN
  BY <1>1, <1>2
<1>10. IpPipes'
  <2>1. /\ ipLive' \in Nat /\ ipSpawned' \in Nat /\ ipUp' \in BOOLEAN /\ ipNotice' \in BOOLEAN
        /\ ipDirty' \in BOOLEAN /\ ipInstalled' \in BOOLEAN /\ ipKnown' \in Nat
        /\ ipOut' \in Seq(IpExec)
    BY <1>0, <1>1 DEF IpPipes
  <2> QED
    BY <2>1, <1>9, <1>4, <1>5 DEF IpPipes
(* Plain code at the head of the queue: there is no global, or it goes.    *)
<1>11. IpPlain(code) => ~ipGlobal'
  <2>1. IpPlain(code) => code.clean \/ ~ipGlobal
    BY <1>0, <1>3 DEF IpShielded
  <2> QED
    BY <2>1, <1>1 DEF IpPlain
<1>12. IpShielded'
  <2>1. ASSUME NEW i \in 1 .. n - 1, IpPlain(ipIn'[i])
        PROVE  ipIn'[i].clean \/ IF i = 1 THEN ~ipGlobal' ELSE IpPlain(ipIn'[i - 1])
    <3>1. i + 1 \in 1 .. n /\ i + 1 # 1 /\ (i + 1) - 1 = i /\ ipIn'[i] = ipIn[i + 1]
      BY <1>5, <1>3
    <3>2. ipIn'[i].clean \/ IpPlain(ipIn[i])
      BY <3>1, <2>1, <1>0, <1>3 DEF IpShielded
    <3>3. i # 1 => ipIn'[i - 1] = ipIn[i]
      BY <1>5, <1>3
    <3> QED
      BY <3>2, <3>3, <1>3, <1>11
  <2>2. \A i \in DOMAIN ipNow' : IpPlain(ipNow'[i]) => ~ipGlobal'
    BY <1>4, <1>11
  <2> QED
    BY <2>1, <2>2, <1>4, <1>5 DEF IpShielded
<1>13. IpInstalledTrue'
  <2>1. SUFFICES ASSUME ~ipInstalled
                 PROVE  IF ipIn' = <<>> THEN ~ipGlobal' ELSE IpPlain(ipIn'[Len(ipIn')])
    BY <1>0, <1>1 DEF IpInstalledTrue
  <2>2. IpPlain(ipIn[n])
    BY <2>1, <1>0, <1>1 DEF IpInstalledTrue, n
  <2>3. CASE n = 1
    BY <2>3, <2>2, <1>5, <1>3, <1>11
  <2>4. CASE n # 1
    <3>1. n - 1 \in 1 .. n - 1 /\ (n - 1) + 1 = n
      BY <2>4, <1>3
    <3> QED
      BY <3>1, <2>2, <2>4, <1>5
  <2> QED
    BY <2>3, <2>4
<1> QED
  BY <1>7, <1>8, <1>10, <1>12, <1>13 DEF IpInv

LEMMA IpReadInv ==
  ASSUME IpInv, NEW e \in IpExec, IpRead(e)
  PROVE  IpInv' /\ (ipStep'[e] = "answered" /\ ~ipTold[e] => ipKnown \in {0, ipLive})
<1>0. /\ IpCalls /\ IpPipes /\ IpHeld /\ IpShielded /\ IpInstalledTrue
      /\ IpHears
  BY DEF IpInv
<1> DEFINE marker == Head(ipOut)
           n == Len(ipOut)
<1>1. /\ ipStep[e] = "reading" /\ ipOut # <<>> /\ ipOut' = Tail(ipOut)
      /\ UNCHANGED <<ipTool, ipKind, ipTold, ipOn>>
      /\ UNCHANGED <<ipLive, ipSpawned, ipUp, ipIn, ipNow, ipGlobal, ipNotice, ipDirty,
                     ipInstalled>>
  BY DEF IpRead
<1>2. ipOut \in Seq(IpExec) /\ ipIn \in Seq(IpCode) /\ ipNow \in Seq(IpCode)
  BY <1>0 DEF IpPipes
<1>3. /\ ipOut' \in Seq(IpExec) /\ Len(ipOut') = n - 1 /\ marker \in IpExec
      /\ \A i \in 1 .. n - 1 : ipOut'[i] = ipOut[i + 1]
      /\ marker = ipOut[1] /\ n \in Nat /\ n >= 1
      /\ DOMAIN ipOut' = 1 .. (n - 1) /\ DOMAIN ipOut = 1 .. n
  BY <1>1, <1>2, QueueTail
<1>4. IF IpMine(e, marker)
      THEN /\ ipStep' = [ipStep EXCEPT ![e] = "answered"]
           /\ ipGot' = [ipGot EXCEPT ![e] = marker]
           /\ ipLock' = 0 /\ ipKnown' = ipLive
      ELSE UNCHANGED <<ipStep, ipGot, ipLock, ipKnown>>
  BY DEF IpRead
<1> HIDE DEF marker
<1>5. ipLock = e /\ e \in Nat \ {0}
  BY <1>0, <1>1 DEF IpHeld, IpExec
<1>6. ~ipTold[e] => ipKnown \in {0, ipLive}
  BY <1>0, <1>5 DEF IpHears
<1>7. IpShielded' /\ IpInstalledTrue'
  BY <1>0, <1>1 DEF IpShielded, IpInstalledTrue
<1>8. ipKnown' \in Nat
  BY <1>0, <1>4 DEF IpPipes
<1>9. IpPipes'
  BY <1>0, <1>1, <1>3, <1>8 DEF IpPipes
<1>12. CASE IpMine(e, marker)
  <2>2. IpCalls'
    BY <1>12, <1>4, <1>0, <1>1, <1>3 DEF IpCalls, IpSteps
  <2>3. IpHeld'
    BY <1>12, <1>4, <1>0, <1>1, <1>5 DEF IpCalls, IpHeld, IpExec
  <2>4. IpHears'
    BY <1>12, <1>4, <1>1 DEF IpHears, IpExec
  <2> QED
    BY <2>2, <2>3, <2>4, <1>6, <1>7, <1>9 DEF IpInv
<1>13. CASE ~IpMine(e, marker)
  <2>1. IpCalls' /\ IpHeld'
    BY <1>13, <1>4, <1>0, <1>1 DEF IpCalls, IpHeld
  <2>2. IpHears'
    BY <1>13, <1>4, <1>0, <1>1 DEF IpHears
  <2> QED
    BY <2>1, <2>2, <1>6, <1>7, <1>9 DEF IpInv
<1> QED
  BY <1>12, <1>13

(* The answer of a call tells of the loss, or there was none.              *)
IpTells ==
  \A e \in IpExec :
    ipStep[e] # "answered" /\ ipStep'[e] = "answered" /\ ~ipTold[e] => ipKnown \in {0, ipLive}

LEMMA IpStepInv ==
  ASSUME IpInv, [IpNext]_ipVars
  PROVE  IpInv' /\ IpTells
<1>0. ipStep \in [IpExec -> IpSteps]
  BY DEF IpInv, IpCalls
<1>1. ASSUME NEW e \in IpExec, NEW kind \in IpKinds, IpCall(e, kind) PROVE IpInv' /\ IpTells
  BY <1>0, <1>1, IpCallInv DEF IpCall, IpTells
<1>2. ASSUME NEW e \in IpExec, IpBegin(e) PROVE IpInv' /\ IpTells
  BY <1>0, <1>2, IpBeginInv DEF IpBegin, IpTells
<1>3. ASSUME NEW e \in IpExec, IpSpawnFails(e) PROVE IpInv' /\ IpTells
  BY <1>0, <1>3, IpSpawnFailsInv DEF IpSpawnFails, IpTells
<1>4. ASSUME NEW e \in IpExec, IpSourceFails(e) PROVE IpInv' /\ IpTells
  BY <1>0, <1>4, IpSourceFailsInv DEF IpSourceFails, IpTells
<1>5. ASSUME NEW e \in IpExec, IpRead(e) PROVE IpInv' /\ IpTells
  <2>1. \A d \in IpExec : d # e => ipStep'[d] = ipStep[d]
    BY <1>0, <1>5 DEF IpRead
  <2>2. IpInv' /\ (ipStep'[e] = "answered" /\ ~ipTold[e] => ipKnown \in {0, ipLive})
    BY <1>5, IpReadInv
  <2> QED
    BY <2>1, <2>2 DEF IpTells
<1>6. ASSUME NEW e \in IpExec, IpGivesUp(e) PROVE IpInv' /\ IpTells
  BY <1>0, <1>6, IpGivesUpInv DEF IpGivesUp, IpTells
<1>7. ASSUME NEW e \in IpExec, IpDropped(e) PROVE IpInv' /\ IpTells
  BY <1>0, <1>7, IpDroppedInv DEF IpDropped, IpTells
<1>8. CASE IpLateKill
  BY <1>8, IpDeathInv DEF IpLateKill, ipCallVars, IpTells
<1>9. CASE IpReset
  BY <1>9, IpResetInv DEF IpReset, ipCallVars, IpTells
<1>10. CASE IpTakesCode
  BY <1>10, IpTakesCodeInv DEF IpTakesCode, ipCallVars, IpTells
<1>11. CASE IpFinishesCode
  BY <1>11, IpFinishesCodeInv DEF IpFinishesCode, ipCallVars, IpTells
<1>12. CASE IpDies
  BY <1>12, IpDeathInv DEF IpDies, ipCallVars, IpTells
<1>13. CASE UNCHANGED ipVars
  <2>1. UNCHANGED <<ipTool, ipKind, ipStep, ipTold, ipGot, ipOn, ipLock>>
    BY <1>13 DEF ipVars, ipCallVars
  <2>2. UNCHANGED <<ipLive, ipSpawned, ipUp, ipIn, ipNow, ipOut, ipGlobal, ipNotice, ipDirty,
                    ipInstalled, ipKnown>>
    BY <1>13 DEF ipVars, ipProcVars
  <2>3. IpCalls' /\ IpHeld' /\ IpHears' /\ IpTells
    BY <2>1, <2>2 DEF IpInv, IpCalls, IpHeld, IpHears, IpTells
  <2>4. IpPipes'
    BY <2>1, <2>2 DEF IpInv, IpPipes
  <2>5. IpShielded' /\ IpInstalledTrue'
    BY <2>1, <2>2 DEF IpInv, IpShielded, IpInstalledTrue
  <2> QED
    BY <2>3, <2>4, <2>5 DEF IpInv
<1> QED
  BY <1>1, <1>2, <1>3, <1>4, <1>5, <1>6, <1>7, <1>8, <1>9, <1>10, <1>11, <1>12, <1>13
  DEF IpNext

LEMMA IpInvSafe == IpInv => IpNoStaleTools
<1> SUFFICES ASSUME IpInv, ipNow # <<>>, Head(ipNow).kind = "bun" PROVE ~ipGlobal
  BY DEF IpInv, IpNoStaleTools
<1>1. ipNow \in Seq(IpCode)
  BY DEF IpInv, IpPipes
<1>2. Head(ipNow) = ipNow[1] /\ 1 \in DOMAIN ipNow
  BY <1>1, QueueTail
<1> QED
  BY <1>2 DEF IpInv, IpShielded, IpPlain

(* The calls whose markers are written or still to be written.             *)
IpPending ==
  {ipOut[i] : i \in DOMAIN ipOut} \cup {ipNow[i].id : i \in DOMAIN ipNow}
    \cup {ipIn[i].id : i \in DOMAIN ipIn}

IpSorted ==
  /\ \A i, j \in DOMAIN ipOut : i < j => ipOut[i] < ipOut[j]
  /\ \A i \in DOMAIN ipOut, j \in DOMAIN ipNow : ipOut[i] < ipNow[j].id
  /\ \A i \in DOMAIN ipOut, j \in DOMAIN ipIn : ipOut[i] < ipIn[j].id
  /\ \A i \in DOMAIN ipNow, j \in DOMAIN ipIn : ipNow[i].id < ipIn[j].id
  /\ \A i, j \in DOMAIN ipIn : i < j => ipIn[i].id < ipIn[j].id

(* Calls begin in turn.                                                    *)
IpTurns ==
  /\ \A e \in IpExec :
       /\ ipStep[e] \in {"idle", "queued"} => ipOn[e] = 0
       /\ ipStep[e] = "answered" => ipOn[e] # 0
       /\ ipLock = e => ipOn[e] = ipLive /\ ipLive # 0
  /\ \A d, e \in IpExec :
       /\ ipOn[d] # 0 /\ ipStep[e] \in {"idle", "queued"} => d < e
       /\ ipOn[d] # 0 /\ ipLock = e => d =< e
       /\ ipStep[d] = "idle" /\ d < e => ipStep[e] = "idle"

(* What is pending belongs to the interpreter, is of the call that reads   *)
(* or there after a call was dropped, and comes after all that was given.  *)
IpStale == \E d \in IpExec : ipStep[d] = "dropped" /\ ipOn[d] = ipLive
IpWork ==
  \A x \in IpPending :
    /\ ipOn[x] = ipLive /\ ipLive # 0
    /\ x = ipLock \/ IpStale
    /\ \A e \in IpExec : ipStep[e] = "answered" => ipGot[e] < x

IpAnswers == IpTurns /\ IpSorted /\ IpWork /\ IpOwnAnswer

LEMMA IpPendingTyped ==
  ASSUME IpInv
  PROVE  IpPending \subseteq IpExec
<1>1. ipIn \in Seq(IpCode) /\ ipNow \in Seq(IpCode) /\ ipOut \in Seq(IpExec)
  BY DEF IpInv, IpPipes
<1>2. /\ \A i \in DOMAIN ipIn : ipIn[i] \in IpCode
      /\ \A i \in DOMAIN ipNow : ipNow[i] \in IpCode
      /\ \A i \in DOMAIN ipOut : ipOut[i] \in IpExec
  BY <1>1
<1>3. \A code \in IpCode : code.id \in IpExec
  BY DEF IpCode
<1> QED  BY ONLY <1>2, <1>3, Zenon DEF IpPending

LEMMA IpExecRange ==
  /\ \A e \in IpExec : e \in Nat /\ e # 0 /\ 1 .. e - 1 \subseteq IpExec
  /\ \A d, e \in IpExec : d < e => d \in 1 .. e - 1
  /\ 0 \notin IpExec
BY IpAssumption DEF IpExec

(* The answers given stand.                                                *)
LEMMA IpOwnKept ==
  ASSUME IpOwnAnswer,
         \A e \in IpExec : ipStep'[e] = "answered" =>
           /\ ipStep[e] = "answered" /\ ipGot'[e] = ipGot[e]
           /\ ipKind'[e] = ipKind[e] /\ ipOn'[e] = ipOn[e],
         \A e \in IpExec : ipStep[e] = "dropped" => ipStep'[e] = "dropped" /\ ipOn'[e] = ipOn[e]
  PROVE  IpOwnAnswer'
<1> SUFFICES ASSUME NEW e \in IpExec, ipStep'[e] = "answered"
             PROVE  /\ \/ ipGot'[e] = e
                       \/ /\ ipKind'[e] = "python" /\ ipGot'[e] < e
                          /\ \E d \in 1 .. e - 1 : ipStep'[d] = "dropped" /\ ipOn'[d] = ipOn'[e]
                    /\ \A d \in 1 .. e - 1 : ipStep'[d] = "answered" => ipGot'[d] < ipGot'[e]
  BY DEF IpOwnAnswer
<1>1. \A d \in 1 .. e - 1 : d \in IpExec
  BY IpExecRange
<1>2. /\ ipStep[e] = "answered" /\ ipGot'[e] = ipGot[e]
      /\ ipKind'[e] = ipKind[e] /\ ipOn'[e] = ipOn[e]
  OBVIOUS
<1>3. /\ \/ ipGot[e] = e
         \/ /\ ipKind[e] = "python" /\ ipGot[e] < e
            /\ \E d \in 1 .. e - 1 : ipStep[d] = "dropped" /\ ipOn[d] = ipOn[e]
      /\ \A d \in 1 .. e - 1 : ipStep[d] = "answered" => ipGot[d] < ipGot[e]
  BY <1>2 DEF IpOwnAnswer
<1> QED  BY <1>1, <1>2, <1>3

(* A call ends, or is about to begin, and its interpreter is as it was or  *)
(* holds nothing.                                                          *)
LEMMA IpEndsAnswers ==
  ASSUME IpInv, IpAnswers, NEW e \in IpExec, NEW v \in {"queued", "failed", "dropped"},
         ipStep[e] = IF v = "queued" THEN "idle" ELSE ipStep[e],
         ipStep[e] \in {"idle", "queued", "reading"}, ipStep[e] = "idle" => v = "queued",
         v = "queued" => e = 1 \/ ipStep[e - 1] # "idle",
         ipStep' = [ipStep EXCEPT ![e] = v], ipGot' = ipGot, ipOn' = ipOn,
         \A d \in IpExec : d # e => ipKind'[d] = ipKind[d],
         ipLock' = IF ipStep[e] = "reading" THEN 0 ELSE ipLock,
         \/ IpPending' = {} /\ IpSorted' /\ (ipLock' = 0 \/ ipLive' = ipLive)
         \/ /\ IpPending' = IpPending /\ IpSorted' /\ ipLive' = ipLive
            /\ v = "dropped" \/ ipLock' = ipLock
  PROVE  IpAnswers'
<1> USE IpExecRange
<1>1. ipStep \in [IpExec -> IpSteps] /\ ipOn \in [IpExec -> Nat] /\ IpHeld
  BY DEF IpInv, IpCalls
<1>2. /\ \A d \in IpExec : d # e => ipStep'[d] = ipStep[d]
      /\ ipStep'[e] = v
  BY <1>1
<1>3. ipStep[e] = "reading" <=> ipLock = e
  BY <1>1 DEF IpHeld
<1>4. IpOwnAnswer'
  BY <1>2, IpOwnKept DEF IpAnswers
<1>5. IpTurns'
  <2>1. \A d \in IpExec :
          /\ ipStep'[d] \in {"idle", "queued"} => ipStep[d] \in {"idle", "queued"}
          /\ ipStep'[d] = "answered" => ipStep[d] = "answered"
          /\ ipLock' = d => ipLock = d /\ ipLive' = ipLive
    BY <1>2, <1>3
  <2>2. \A d, f \in IpExec : ipStep'[d] = "idle" /\ d < f => ipStep'[f] = "idle"
    <3> SUFFICES ASSUME NEW d \in IpExec, NEW f \in IpExec, ipStep'[d] = "idle", d < f
                 PROVE  ipStep'[f] = "idle"
      OBVIOUS
    <3>1. d # e /\ ipStep[d] = "idle" /\ ipStep[f] = "idle"
      BY <1>2 DEF IpAnswers, IpTurns
    <3>2. CASE f = e
      <4>1. v = "queued" /\ e # 1 /\ e - 1 \in IpExec /\ ipStep[e - 1] # "idle"
        BY <3>1, <3>2
      <4>2. d < e - 1 \/ d = e - 1
        BY <3>1, <3>2, <4>1
      <4> QED  BY <3>1, <4>1, <4>2 DEF IpAnswers, IpTurns
    <3> QED  BY <1>2, <3>1, <3>2
  <2> QED  BY <2>1, <2>2 DEF IpAnswers, IpTurns
<1>6. IpWork'
  <2>1. CASE IpPending' = {}
    BY <2>1 DEF IpWork
  <2>2. CASE /\ IpPending' = IpPending /\ IpSorted' /\ ipLive' = ipLive
             /\ v = "dropped" \/ ipLock' = ipLock
    <3> SUFFICES ASSUME NEW x \in IpPending
                 PROVE  /\ ipOn[x] = ipLive /\ ipLive # 0
                        /\ x = ipLock' \/ IpStale'
                        /\ \A f \in IpExec : ipStep'[f] = "answered" => ipGot[f] < x
      BY <2>2 DEF IpWork
    <3>1. /\ ipOn[x] = ipLive /\ ipLive # 0
          /\ x = ipLock \/ IpStale
          /\ \A f \in IpExec : ipStep[f] = "answered" => ipGot[f] < x
          /\ x \in IpExec
      BY IpPendingTyped DEF IpAnswers, IpWork
    <3>2. IpStale => IpStale'
      BY <1>2, <2>2 DEF IpStale
    <3>3. x = ipLock /\ ipLock' # ipLock => IpStale'
      <4>1. x = ipLock /\ ipLock' # ipLock => x = e /\ v = "dropped"
        BY <1>3, <2>2
      <4> QED  BY <1>2, <2>2, <3>1, <4>1 DEF IpStale
    <3> QED  BY <1>2, <3>1, <3>2, <3>3
  <2> QED  BY <2>1, <2>2
<1> QED  BY <1>4, <1>5, <1>6 DEF IpAnswers

(* The calls stay, and so does what is pending, or it goes.                *)
LEMMA IpStillAnswers ==
  ASSUME IpInv, IpAnswers, UNCHANGED <<ipStep, ipGot, ipOn, ipKind, ipLock>>, IpSorted',
         \/ IpPending' = IpPending /\ ipLive' = ipLive
         \/ IpPending' = {} /\ ipLock = 0
  PROVE  IpAnswers'
<1> USE IpExecRange
<1>1. IpOwnAnswer'
  BY IpOwnKept DEF IpAnswers
<1>2. IpTurns'
  BY DEF IpAnswers, IpTurns
<1>3. IpWork'
  BY DEF IpAnswers, IpWork, IpStale
<1> QED  BY <1>1, <1>2, <1>3 DEF IpAnswers

LEMMA IpNonePending ==
  ASSUME IpEmpty'
  PROVE  IpPending' = {} /\ IpSorted'
<1>1. DOMAIN <<>> = {}
  OBVIOUS
<1> QED  BY <1>1 DEF IpEmpty, IpPending, IpSorted

LEMMA IpSamePending ==
  ASSUME UNCHANGED <<ipIn, ipNow, ipOut>>
  PROVE  IpPending' = IpPending /\ (IpSorted => IpSorted')
BY DEF IpPending, IpSorted

LEMMA IpTakesPending ==
  ASSUME IpInv, IpSorted, IpTakesCode
  PROVE  IpPending' = IpPending /\ IpSorted'
<1> DEFINE code == Head(ipIn)
           n == Len(ipIn)
<1>1. ipNow = <<>> /\ ipIn # <<>> /\ ipNow' = <<code>> /\ ipIn' = Tail(ipIn) /\ ipOut' = ipOut
  BY DEF IpTakesCode
<1>2. ipIn \in Seq(IpCode)
  BY DEF IpInv, IpPipes
<1>3. /\ \A i \in 1 .. n - 1 : ipIn'[i] = ipIn[i + 1]
      /\ code = ipIn[1] /\ n \in Nat /\ n >= 1 /\ code \in IpCode
      /\ DOMAIN ipIn' = 1 .. (n - 1) /\ DOMAIN ipIn = 1 .. n
  BY <1>1, <1>2, QueueTail
<1> HIDE DEF code
<1>4. DOMAIN ipNow' = {1} /\ ipNow'[1] = code /\ DOMAIN ipNow = {}
  BY <1>1, <1>3, QueueOne, QueueNone
<1> HIDE DEF n
<1>5. \A i \in 1 .. n - 1 : i + 1 \in DOMAIN ipIn /\ 1 \in DOMAIN ipIn
  BY <1>3
<1>6. \A i \in DOMAIN ipIn : i = 1 \/ (i - 1 \in 1 .. n - 1 /\ ipIn'[i - 1] = ipIn[i])
  <2>1. \A i \in 1 .. n : i = 1 \/ (i - 1 \in 1 .. n - 1 /\ (i - 1) + 1 = i)
    BY <1>3
  <2> QED  BY <1>3, <2>1
<1>7. IpPending' = IpPending
  <2>1. {ipNow[i].id : i \in DOMAIN ipNow} = {} /\ {ipNow'[i].id : i \in DOMAIN ipNow'} = {code.id}
    BY <1>4
  <2>2. \A x : x \in {ipIn[i].id : i \in DOMAIN ipIn} <=>
                 x = code.id \/ x \in {ipIn'[i].id : i \in DOMAIN ipIn'}
    BY <1>3, <1>5, <1>6
  <2> QED  BY <1>1, <2>1, <2>2 DEF IpPending
<1>8. IpSorted'
  <2>1. \A i \in DOMAIN ipIn' : code.id < ipIn'[i].id
    <3> SUFFICES ASSUME NEW i \in 1 .. n - 1 PROVE code.id < ipIn'[i].id
      BY <1>3
    <3>1. 1 < i + 1 /\ i + 1 \in DOMAIN ipIn /\ 1 \in DOMAIN ipIn /\ ipIn'[i] = ipIn[i + 1]
      BY <1>3, <1>5
    <3> QED  BY <1>3, <3>1 DEF IpSorted
  <2>2. \A i, j \in DOMAIN ipIn' : i < j => ipIn'[i].id < ipIn'[j].id
    <3> SUFFICES ASSUME NEW i \in 1 .. n - 1, NEW j \in 1 .. n - 1, i < j
                 PROVE  ipIn'[i].id < ipIn'[j].id
      BY <1>3
    <3>1. /\ i + 1 < j + 1 /\ i + 1 \in DOMAIN ipIn /\ j + 1 \in DOMAIN ipIn
          /\ ipIn'[i] = ipIn[i + 1] /\ ipIn'[j] = ipIn[j + 1]
      BY <1>3, <1>5
    <3> QED  BY <3>1 DEF IpSorted
  <2>3. \A i \in DOMAIN ipOut' : /\ ipOut'[i] < code.id
                                 /\ \A j \in DOMAIN ipIn' : ipOut'[i] < ipIn'[j].id
    <3>1. \A i \in DOMAIN ipOut, j \in DOMAIN ipIn : ipOut[i] < ipIn[j].id
      BY DEF IpSorted
    <3> QED  BY <1>1, <1>3, <1>5, <3>1
  <2>4. \A i, j \in DOMAIN ipOut' : i < j => ipOut'[i] < ipOut'[j]
    BY <1>1 DEF IpSorted
  <2> QED  BY <1>4, <2>1, <2>2, <2>3, <2>4 DEF IpSorted
<1> QED  BY <1>7, <1>8

LEMMA IpFinishesPending ==
  ASSUME IpInv, IpSorted, IpFinishesCode
  PROVE  IpPending' = IpPending /\ IpSorted'
<1> DEFINE done == Head(ipNow).id
           n == Len(ipOut)
<1>1. ipNow # <<>> /\ ipNow' = <<>> /\ ipOut' = Append(ipOut, done) /\ ipIn' = ipIn
  BY DEF IpFinishesCode
<1>2. ipNow \in Seq(IpCode) /\ ipOut \in Seq(IpExec) /\ Len(ipNow) =< 1
  BY DEF IpInv, IpPipes, IpShielded
<1>3. /\ Head(ipNow) \in IpCode /\ Head(ipNow) = ipNow[1] /\ Len(ipNow) = 1
      /\ DOMAIN ipNow = {1}
  BY <1>1, <1>2, QueueTail
<1>4. done \in IpExec /\ ipNow[1].id = done
  BY <1>3 DEF IpCode
<1>5. DOMAIN ipNow' = {}
  BY <1>1, QueueNone
<1> HIDE DEF done
<1>6. /\ \A i \in 1 .. n : ipOut'[i] = ipOut[i]
      /\ ipOut'[n + 1] = done /\ n \in Nat /\ DOMAIN ipOut = 1 .. n
      /\ DOMAIN ipOut' = 1 .. (n + 1)
  BY <1>1, <1>2, <1>4, QueueAppend
<1> HIDE DEF n
<1>7. \A i \in 1 .. (n + 1) : i \in 1 .. n \/ i = n + 1
  BY <1>6
<1>8. IpPending' = IpPending
  <2>1. {ipNow[i].id : i \in DOMAIN ipNow} = {done} /\ {ipNow'[i].id : i \in DOMAIN ipNow'} = {}
    BY <1>3, <1>4, <1>5
  <2>2. \A x : x \in {ipOut'[i] : i \in DOMAIN ipOut'} <=>
                 x = done \/ x \in {ipOut[i] : i \in DOMAIN ipOut}
    BY <1>6, <1>7
  <2> QED  BY <1>1, <2>1, <2>2 DEF IpPending
<1>9. IpSorted'
  <2>1. /\ \A i \in 1 .. n : ipOut[i] < done
        /\ \A j \in DOMAIN ipIn : done < ipIn[j].id
        /\ \A i \in 1 .. n, j \in DOMAIN ipIn : ipOut[i] < ipIn[j].id
        /\ \A i, j \in 1 .. n : i < j => ipOut[i] < ipOut[j]
        /\ \A i, j \in DOMAIN ipIn : i < j => ipIn[i].id < ipIn[j].id
    BY <1>3, <1>4, <1>6 DEF IpSorted
  <2>2. \A i, j \in DOMAIN ipOut' : i < j => ipOut'[i] < ipOut'[j]
    <3> SUFFICES ASSUME NEW i \in 1 .. (n + 1), NEW j \in 1 .. (n + 1), i < j
                 PROVE  ipOut'[i] < ipOut'[j]
      BY <1>6
    <3>1. i \in 1 .. n /\ (j \in 1 .. n \/ j = n + 1)
      BY <1>6
    <3> QED  BY <1>6, <2>1, <3>1
  <2>3. \A i \in DOMAIN ipOut', j \in DOMAIN ipIn' : ipOut'[i] < ipIn'[j].id
    BY <1>1, <1>6, <1>7, <2>1
  <2> QED  BY <1>1, <1>5, <2>1, <2>2, <2>3 DEF IpSorted
<1> QED  BY <1>8, <1>9

LEMMA IpBeginAnswers ==
  ASSUME IpInv, IpAnswers, NEW e \in IpExec, IpBegin(e)
  PROVE  IpAnswers'
<1> USE IpExecRange
<1> DEFINE code == [id |-> e, kind |-> ipKind[e], clean |-> IpUninstalls(e)]
<1>1. /\ ipLock = 0 /\ ipStep[e] = "queued" /\ ipLock' = e
      /\ ipStep' = [ipStep EXCEPT ![e] = "reading"]
      /\ ipOn' = [ipOn EXCEPT ![e] = ipLive']
      /\ ipGot' = ipGot /\ ipKind' = ipKind
      /\ \A d \in 1 .. e - 1 : ipStep[d] # "queued"
  BY DEF IpBegin, IpMyTurn
<1>2. /\ ipStep \in [IpExec -> IpSteps] /\ ipOn \in [IpExec -> Nat] /\ ipLive \in Nat
      /\ ipSpawned \in Nat /\ ipIn \in Seq(IpCode) /\ ipKind[e] \in IpKinds
      /\ ipInstalled \in BOOLEAN /\ ipUp \in BOOLEAN /\ ipDirty \in BOOLEAN
      /\ ipGot \in [IpExec -> {0} \cup IpExec]
  BY DEF IpInv, IpCalls, IpPipes
<1>3. /\ \A d \in IpExec : d # e => ipStep'[d] = ipStep[d] /\ ipOn'[d] = ipOn[d]
      /\ ipStep'[e] = "reading" /\ ipOn'[e] = ipLive'
  BY <1>1, <1>2
<1>4. /\ \/ IpUsable /\ ipIn' = Append(ipIn, code) /\ UNCHANGED <<ipLive, ipNow, ipOut>>
         \/ ~IpUsable /\ ipIn' = <<code>> /\ ipNow' = <<>> /\ ipOut' = <<>>
            /\ ipLive' = ipSpawned + 1
      /\ ipLive' # 0
  <2>1. IF IpUsable
        THEN ipIn' = Append(ipIn, code) /\ UNCHANGED <<ipLive, ipNow, ipOut>>
        ELSE ipIn' = <<code>> /\ ipNow' = <<>> /\ ipOut' = <<>> /\ ipLive' = ipSpawned + 1
    BY DEF IpBegin, IpSpawns
  <2>2. IpUsable => ipLive # 0
    BY DEF IpUsable
  <2> QED  BY <1>2, <2>1, <2>2
<1>5. code \in IpCode /\ code.id = e
  BY <1>2 DEF IpCode, IpUninstalls, IpUsable
<1> HIDE DEF code
<1>6. ipOn[e] = 0 /\ \A d \in IpExec : ipOn[d] # 0 => d < e
  BY <1>1 DEF IpAnswers, IpTurns
<1>7. IpOwnAnswer'
  <2>1. \A d \in IpExec : ipStep[d] = "dropped" => d # e
    BY <1>1
  <2> QED  BY <1>1, <1>3, <2>1, IpOwnKept DEF IpAnswers
<1>8. IpTurns'
  <2>1. ASSUME NEW d \in IpExec, NEW f \in IpExec, ipOn'[d] # 0, ipStep'[f] \in {"idle", "queued"}
        PROVE  d < f
    <3>1. f # e /\ ipStep[f] \in {"idle", "queued"}
      BY <1>3, <2>1
    <3>2. CASE d # e
      BY <1>3, <2>1, <3>1, <3>2 DEF IpAnswers, IpTurns
    <3>3. CASE d = e
      <4>1. ~(f < e)
        <5>1. f < e => ipStep[f] # "queued"
          BY <1>1
        <5>2. f < e => ipStep[f] # "idle"
          BY <1>1 DEF IpAnswers, IpTurns
        <5> QED  BY <3>1, <5>1, <5>2
      <4> QED  BY <3>1, <3>3, <4>1
    <3> QED  BY <3>2, <3>3
  <2>2. \A d \in IpExec : ipOn'[d] # 0 => d =< e
    BY <1>3, <1>6
  <2>3. \A d, f \in IpExec : ipStep'[d] = "idle" /\ d < f => ipStep'[f] = "idle"
    <3> SUFFICES ASSUME NEW d \in IpExec, NEW f \in IpExec, ipStep'[d] = "idle", d < f
                 PROVE  ipStep'[f] = "idle"
      OBVIOUS
    <3>1. d # e /\ ipStep[d] = "idle" /\ ipStep[f] = "idle"
      BY <1>3 DEF IpAnswers, IpTurns
    <3> QED  BY <1>1, <1>3, <3>1
  <2>4. \A d \in IpExec :
          /\ ipStep'[d] \in {"idle", "queued"} => ipOn'[d] = 0
          /\ ipStep'[d] = "answered" => ipOn'[d] # 0
          /\ ipLock' = d => ipOn'[d] = ipLive' /\ ipLive' # 0
    BY <1>1, <1>3, <1>4 DEF IpAnswers, IpTurns
  <2> QED  BY <1>1, <2>1, <2>2, <2>3, <2>4 DEF IpTurns
<1>9. \A d \in IpExec : ipStep'[d] = "answered" => ipGot[d] < e
  <2> SUFFICES ASSUME NEW d \in IpExec, ipStep'[d] = "answered" PROVE ipGot[d] < e
    OBVIOUS
  <2>1. d # e /\ ipStep[d] = "answered"
    BY <1>3
  <2>2. d < e
    BY <1>6, <2>1 DEF IpAnswers, IpTurns
  <2>3. ipGot[d] = d \/ ipGot[d] < d
    BY <2>1 DEF IpAnswers, IpOwnAnswer
  <2>4. ipGot[d] \in Nat
    BY <1>2
  <2> QED  BY <2>2, <2>3, <2>4
<1>10. IpSorted' /\ IpWork'
  <2>1. CASE ~IpUsable
    <3>1. /\ DOMAIN ipIn' = {1} /\ ipIn'[1] = code /\ DOMAIN ipNow' = {} /\ DOMAIN ipOut' = {}
      BY <1>4, <1>5, <2>1, QueueOne, QueueNone
    <3>2. IpSorted' /\ IpPending' = {e}
      BY <1>5, <3>1 DEF IpSorted, IpPending
    <3> QED  BY <1>1, <1>3, <1>4, <1>9, <3>2 DEF IpWork
  <2>2. CASE IpUsable
    <3> DEFINE n == Len(ipIn)
    <3>1. ipIn' = Append(ipIn, code) /\ ipLive' = ipLive /\ ipNow' = ipNow /\ ipOut' = ipOut
      BY <1>4, <2>2
    <3>2. /\ \A i \in 1 .. n : ipIn'[i] = ipIn[i]
          /\ ipIn'[n + 1] = code /\ n \in Nat /\ DOMAIN ipIn = 1 .. n
          /\ DOMAIN ipIn' = 1 .. (n + 1)
      BY <1>2, <1>5, <3>1, QueueAppend
    <3> HIDE DEF n
    <3>3. \A i \in 1 .. (n + 1) : i \in 1 .. n \/ i = n + 1
      BY <3>2
    <3>4. IpPending' = IpPending \cup {e}
      <4>1. \A x : x \in {ipIn'[i].id : i \in DOMAIN ipIn'} <=>
                     x = e \/ x \in {ipIn[i].id : i \in DOMAIN ipIn}
        BY <1>5, <3>2, <3>3
      <4> QED  BY <3>1, <4>1 DEF IpPending
    <3>5. \A x \in IpPending : x < e /\ x \in IpExec
      BY <1>6, IpPendingTyped DEF IpAnswers, IpWork
    <3>6. /\ \A i \in DOMAIN ipOut : ipOut[i] < e
          /\ \A i \in DOMAIN ipNow : ipNow[i].id < e
          /\ \A i \in DOMAIN ipIn : ipIn[i].id < e
      BY <3>5 DEF IpPending
    <3>7. IpSorted'
      <4>1. /\ \A i \in DOMAIN ipOut, j \in DOMAIN ipIn' : ipOut[i] < ipIn'[j].id
            /\ \A i \in DOMAIN ipNow, j \in DOMAIN ipIn' : ipNow[i].id < ipIn'[j].id
        BY <1>5, <3>2, <3>3, <3>6 DEF IpAnswers, IpSorted
      <4>2. ASSUME NEW i \in DOMAIN ipIn', NEW j \in DOMAIN ipIn', i < j
            PROVE  ipIn'[i].id < ipIn'[j].id
        <5>1. i \in 1 .. n /\ (j \in 1 .. n \/ j = n + 1)
          BY <3>2, <4>2
        <5> QED  BY <1>5, <3>2, <3>6, <4>2, <5>1 DEF IpAnswers, IpSorted
      <4>3. \A i, j \in DOMAIN ipOut : i < j => ipOut[i] < ipOut[j]
        BY DEF IpAnswers, IpSorted
      <4>4. \A i \in DOMAIN ipOut, j \in DOMAIN ipNow : ipOut[i] < ipNow[j].id
        BY DEF IpAnswers, IpSorted
      <4> QED  BY <3>1, <4>1, <4>2, <4>3, <4>4 DEF IpSorted
    <3>8. IpStale => IpStale'
      BY <1>1, <1>3, <3>1 DEF IpStale
    <3>9. \A x \in IpPending' :
            /\ ipOn'[x] = ipLive' /\ ipLive' # 0
            /\ x = ipLock' \/ IpStale'
            /\ \A d \in IpExec : ipStep'[d] = "answered" => ipGot'[d] < x
      <4> SUFFICES ASSUME NEW x \in IpPending'
                   PROVE  /\ ipOn'[x] = ipLive' /\ ipLive' # 0
                          /\ x = ipLock' \/ IpStale'
                          /\ \A d \in IpExec : ipStep'[d] = "answered" => ipGot'[d] < x
        OBVIOUS
      <4>1. CASE x = e
        BY <1>1, <1>3, <1>4, <1>9, <4>1
      <4>2. CASE x # e
        <5>1. x \in IpPending /\ x \in IpExec
          BY <3>4, <3>5, <4>2
        <5>2. /\ ipOn[x] = ipLive /\ ipLive # 0 /\ (x = ipLock \/ IpStale)
              /\ \A d \in IpExec : ipStep[d] = "answered" => ipGot[d] < x
          BY <5>1 DEF IpAnswers, IpWork
        <5> QED  BY <1>1, <1>3, <3>1, <3>8, <4>2, <5>1, <5>2
      <4> QED  BY <4>1, <4>2
    <3> QED  BY <3>7, <3>9 DEF IpWork
  <2> QED  BY <2>1, <2>2
<1> QED  BY <1>7, <1>8, <1>10 DEF IpAnswers

LEMMA IpReadAnswers ==
  ASSUME IpInv, IpAnswers, NEW e \in IpExec, IpRead(e)
  PROVE  IpAnswers'
<1> USE IpExecRange
<1> DEFINE marker == Head(ipOut)
           n == Len(ipOut)
<1>1. /\ ipStep[e] = "reading" /\ ipOut # <<>> /\ ipOut' = Tail(ipOut)
      /\ UNCHANGED <<ipTool, ipKind, ipOn, ipLive, ipIn, ipNow>>
  BY DEF IpRead
<1>2. /\ ipOut \in Seq(IpExec) /\ ipStep \in [IpExec -> IpSteps]
      /\ ipGot \in [IpExec -> {0} \cup IpExec] /\ IpHeld
      /\ ipOn \in [IpExec -> Nat]
  BY DEF IpInv, IpPipes, IpCalls
<1>3. /\ \A i \in 1 .. n - 1 : ipOut'[i] = ipOut[i + 1]
      /\ marker = ipOut[1] /\ n \in Nat /\ n >= 1 /\ marker \in IpExec
      /\ DOMAIN ipOut' = 1 .. (n - 1) /\ DOMAIN ipOut = 1 .. n
  BY <1>1, <1>2, QueueTail
<1>4. IF IpMine(e, marker)
      THEN /\ ipStep' = [ipStep EXCEPT ![e] = "answered"]
           /\ ipGot' = [ipGot EXCEPT ![e] = marker] /\ ipLock' = 0
      ELSE UNCHANGED <<ipStep, ipGot, ipLock>>
  BY DEF IpRead
<1> HIDE DEF marker, n
<1>5. ipLock = e /\ ipOn[e] = ipLive /\ ipLive # 0
  BY <1>1, <1>2 DEF IpHeld, IpAnswers, IpTurns
<1>6. \A i \in 1 .. n - 1 : i + 1 \in 1 .. n /\ 1 \in 1 .. n /\ 1 < i + 1
  BY <1>3
<1>7. IpPending' \subseteq IpPending /\ marker \in IpPending /\ IpPending \subseteq IpExec
  BY <1>1, <1>3, <1>6, IpPendingTyped DEF IpPending
<1>8. \A x \in IpPending' : marker < x
  <2>1. \A i \in DOMAIN ipOut' : marker < ipOut'[i]
    BY <1>3, <1>6 DEF IpAnswers, IpSorted
  <2>2. /\ \A j \in DOMAIN ipNow' : marker < ipNow'[j].id
        /\ \A j \in DOMAIN ipIn' : marker < ipIn'[j].id
    <3>1. 1 \in DOMAIN ipOut
      BY <1>3
    <3> QED  BY <1>1, <1>3, <3>1 DEF IpAnswers, IpSorted
  <2> QED  BY <2>1, <2>2 DEF IpPending
<1>9. IpSorted'
  <2>1. \A i, j \in DOMAIN ipOut' : i < j => ipOut'[i] < ipOut'[j]
    <3> SUFFICES ASSUME NEW i \in 1 .. n - 1, NEW j \in 1 .. n - 1, i < j
                 PROVE  ipOut'[i] < ipOut'[j]
      BY <1>3
    <3>1. i + 1 < j + 1 /\ i + 1 \in DOMAIN ipOut /\ j + 1 \in DOMAIN ipOut
      BY <1>3, <1>6
    <3> QED  BY <1>3, <3>1 DEF IpAnswers, IpSorted
  <2>2. /\ \A i \in DOMAIN ipOut', j \in DOMAIN ipNow' : ipOut'[i] < ipNow'[j].id
        /\ \A i \in DOMAIN ipOut', j \in DOMAIN ipIn' : ipOut'[i] < ipIn'[j].id
    BY <1>1, <1>3, <1>6 DEF IpAnswers, IpSorted
  <2>3. /\ \A i \in DOMAIN ipNow', j \in DOMAIN ipIn' : ipNow'[i].id < ipIn'[j].id
        /\ \A i, j \in DOMAIN ipIn' : i < j => ipIn'[i].id < ipIn'[j].id
    BY <1>1 DEF IpAnswers, IpSorted
  <2> QED  BY <2>1, <2>2, <2>3 DEF IpSorted
<1>10. CASE ~IpMine(e, marker)
  <2>1. UNCHANGED <<ipStep, ipGot, ipLock>>
    BY <1>4, <1>10
  <2>2. IpOwnAnswer'
    BY <1>1, <2>1, IpOwnKept DEF IpAnswers
  <2>3. IpTurns'
    BY <1>1, <2>1 DEF IpAnswers, IpTurns
  <2>4. IpStale' <=> IpStale
    BY <1>1, <2>1 DEF IpStale
  <2>5. IpWork'
    BY <1>1, <1>7, <2>1, <2>4 DEF IpAnswers, IpWork
  <2> QED  BY <1>9, <2>2, <2>3, <2>5 DEF IpAnswers
<1>11. CASE IpMine(e, marker)
  <2>1. /\ ipStep'[e] = "answered" /\ ipGot'[e] = marker /\ ipLock' = 0
        /\ \A d \in IpExec : d # e => ipStep'[d] = ipStep[d] /\ ipGot'[d] = ipGot[d]
    BY <1>2, <1>4, <1>11
  <2>2. IpTurns'
    <3>1. \A d \in IpExec :
            /\ ipStep'[d] \in {"idle", "queued"} => d # e /\ ipStep[d] \in {"idle", "queued"}
            /\ ipStep'[d] = "answered" => ipOn[d] # 0
      BY <1>5, <2>1 DEF IpAnswers, IpTurns
    <3>2. \A d, f \in IpExec : ipStep'[d] = "idle" /\ d < f => ipStep'[f] = "idle"
      <4> SUFFICES ASSUME NEW d \in IpExec, NEW f \in IpExec, ipStep'[d] = "idle", d < f
                   PROVE  ipStep'[f] = "idle"
        OBVIOUS
      <4>1. d # e /\ ipStep[d] = "idle" /\ ipStep[f] = "idle"
        BY <2>1 DEF IpAnswers, IpTurns
      <4> QED  BY <1>1, <2>1, <4>1
    <3> QED  BY <1>1, <2>1, <3>1, <3>2 DEF IpAnswers, IpTurns
  <2>3. \A d \in IpExec : d # e /\ ipStep[d] = "answered" => d < e /\ ipGot[d] < marker
    <3> SUFFICES ASSUME NEW d \in IpExec, d # e, ipStep[d] = "answered"
                 PROVE  d < e /\ ipGot[d] < marker
      OBVIOUS
    <3>1. d =< e
      BY <1>5 DEF IpAnswers, IpTurns
    <3>2. ipGot[d] < marker
      BY <1>7 DEF IpAnswers, IpWork
    <3> QED  BY <3>1, <3>2
  <2>4. marker =< e
    <3>1. ipOn[marker] # 0
      BY <1>7 DEF IpAnswers, IpWork
    <3> QED  BY <1>3, <1>5, <3>1 DEF IpAnswers, IpTurns
  <2>5. /\ \/ marker = e
           \/ /\ ipKind[e] = "python" /\ marker < e
              /\ \E d \in 1 .. e - 1 : ipStep'[d] = "dropped" /\ ipOn'[d] = ipOn'[e]
    <3> SUFFICES ASSUME marker # e
                 PROVE  /\ ipKind[e] = "python" /\ marker < e
                        /\ \E d \in 1 .. e - 1 : ipStep'[d] = "dropped" /\ ipOn'[d] = ipOn'[e]
      OBVIOUS
    <3>1. ipKind[e] = "python"
      BY <1>1, <1>2, <1>11 DEF IpMine, IpHeld
    <3>2. PICK d \in IpExec : ipStep[d] = "dropped" /\ ipOn[d] = ipLive
      BY <1>5, <1>7 DEF IpAnswers, IpWork, IpStale
    <3>3. d # e /\ d =< e
      BY <1>1, <1>5, <3>2 DEF IpAnswers, IpTurns
    <3>4. d \in 1 .. e - 1
      BY <3>3
    <3> QED  BY <1>1, <1>3, <1>5, <2>1, <2>4, <3>1, <3>2, <3>3, <3>4
  <2>6. IpOwnAnswer'
    <3> SUFFICES ASSUME NEW f \in IpExec, ipStep'[f] = "answered"
                 PROVE  /\ \/ ipGot'[f] = f
                           \/ /\ ipKind'[f] = "python" /\ ipGot'[f] < f
                              /\ \E d \in 1 .. f - 1 : ipStep'[d] = "dropped" /\ ipOn'[d] = ipOn'[f]
                        /\ \A d \in 1 .. f - 1 : ipStep'[d] = "answered" => ipGot'[d] < ipGot'[f]
      BY DEF IpOwnAnswer
    <3>1. CASE f = e
      <4>1. \A d \in 1 .. e - 1 : d \in IpExec /\ d # e
        OBVIOUS
      <4>2. \A d \in 1 .. e - 1 : ipStep'[d] = "answered" => ipGot'[d] < marker
        BY <2>1, <2>3, <4>1
      <4> QED  BY <1>1, <2>1, <2>5, <3>1, <4>2
    <3>2. CASE f # e
      <4>1. ipStep[f] = "answered" /\ f < e /\ ipGot'[f] = ipGot[f]
        BY <2>1, <2>3, <3>2
      <4>2. \A d \in 1 .. f - 1 : d \in IpExec /\ d # e /\ ipStep'[d] = ipStep[d]
                                  /\ ipGot'[d] = ipGot[d] /\ ipOn'[d] = ipOn[d]
        BY <1>1, <2>1, <4>1
      <4>3. /\ \/ ipGot[f] = f
               \/ /\ ipKind[f] = "python" /\ ipGot[f] < f
                  /\ \E d \in 1 .. f - 1 : ipStep[d] = "dropped" /\ ipOn[d] = ipOn[f]
            /\ \A d \in 1 .. f - 1 : ipStep[d] = "answered" => ipGot[d] < ipGot[f]
        BY <4>1 DEF IpAnswers, IpOwnAnswer
      <4> QED  BY <1>1, <4>1, <4>2, <4>3
    <3> QED  BY <3>1, <3>2
  <2>7. IpWork'
    <3>1. IpStale => IpStale'
      BY <1>1, <2>1 DEF IpStale
    <3> SUFFICES ASSUME NEW x \in IpPending'
                 PROVE  /\ ipOn'[x] = ipLive' /\ ipLive' # 0
                        /\ x = ipLock' \/ IpStale'
                        /\ \A d \in IpExec : ipStep'[d] = "answered" => ipGot'[d] < x
      BY DEF IpWork
    <3>2. /\ ipOn[x] = ipLive /\ ipLive # 0 /\ (x = e \/ IpStale)
          /\ \A d \in IpExec : ipStep[d] = "answered" => ipGot[d] < x
          /\ marker < x /\ x \in IpExec
      BY <1>5, <1>7, <1>8 DEF IpAnswers, IpWork
    <3>3. x = e => IpStale
      <4>1. x = e => marker # e
        BY <1>3, <3>2
      <4> QED  BY <1>5, <1>7, <4>1 DEF IpAnswers, IpWork
    <3> QED  BY <1>1, <2>1, <3>1, <3>2, <3>3
  <2> QED  BY <1>9, <2>2, <2>6, <2>7 DEF IpAnswers
<1> QED  BY <1>10, <1>11

LEMMA IpStepAnswers ==
  ASSUME IpInv, IpAnswers, [IpNext]_ipVars
  PROVE  IpAnswers'
<1>0. IpHeld /\ ipLock \in {0} \cup IpExec /\ IpSorted /\ ipStep \in [IpExec -> IpSteps]
      /\ ipKind \in [IpExec -> IpKinds]
  BY DEF IpInv, IpCalls, IpAnswers
<1>1. ASSUME NEW e \in IpExec, NEW kind \in IpKinds, IpCall(e, kind) PROVE IpAnswers'
  <2> DEFINE v == "queued"
  <2>1. /\ ipStep[e] = "idle" /\ (e > 1 => ipStep[e - 1] # "idle")
        /\ ipStep' = [ipStep EXCEPT ![e] = v]
        /\ \A d \in IpExec : d # e => ipKind'[d] = ipKind[d]
        /\ UNCHANGED <<ipGot, ipOn, ipLock, ipLive, ipIn, ipNow, ipOut>>
    BY <1>0, <1>1 DEF IpCall, ipProcVars
  <2>2. v \in {"queued", "failed", "dropped"} /\ v = "queued"
    OBVIOUS
  <2> HIDE DEF v
  <2>3. e = 1 \/ ipStep[e - 1] # "idle"
    BY <2>1, IpExecRange
  <2> QED  BY <1>0, <2>1, <2>2, <2>3, IpSamePending, IpEndsAnswers
<1>2. ASSUME NEW e \in IpExec, IpBegin(e) PROVE IpAnswers'
  BY <1>2, IpBeginAnswers
<1>3. ASSUME NEW e \in IpExec, IpSpawnFails(e) \/ IpSourceFails(e) PROVE IpAnswers'
  <2> DEFINE v == "failed"
  <2>1. /\ ipStep[e] = "queued" /\ ipLock = 0 /\ ipStep' = [ipStep EXCEPT ![e] = v]
        /\ UNCHANGED <<ipGot, ipOn, ipLock, ipKind>>
        /\ IpEmpty' \/ UNCHANGED <<ipLive, ipIn, ipNow, ipOut>>
    BY <1>3 DEF IpSpawnFails, IpSourceFails, IpMyTurn, ipProcVars, IpSpawns, IpEmpty
  <2>2. v \in {"queued", "failed", "dropped"} /\ v = "failed"
    OBVIOUS
  <2> HIDE DEF v
  <2>3. \/ IpPending' = {} /\ IpSorted'
        \/ IpPending' = IpPending /\ IpSorted' /\ ipLive' = ipLive
    BY <1>0, <2>1, IpSamePending, IpNonePending
  <2> QED  BY <2>1, <2>2, <2>3, IpEndsAnswers
<1>4. ASSUME NEW e \in IpExec, IpRead(e) PROVE IpAnswers'
  BY <1>4, IpReadAnswers
<1>5. ASSUME NEW e \in IpExec, IpGivesUp(e) PROVE IpAnswers'
  <2> DEFINE v == "failed"
  <2>1. /\ ipStep[e] = "reading" /\ ipLock' = 0 /\ ipStep' = [ipStep EXCEPT ![e] = v]
        /\ UNCHANGED <<ipGot, ipOn, ipKind>> /\ IpEmpty'
    BY <1>5 DEF IpGivesUp, IpKills, IpEmpty
  <2>2. v \in {"queued", "failed", "dropped"} /\ v = "failed"
    OBVIOUS
  <2> HIDE DEF v
  <2> QED  BY <2>1, <2>2, IpNonePending, IpEndsAnswers
<1>6. ASSUME NEW e \in IpExec, IpDropped(e) PROVE IpAnswers'
  <2> DEFINE v == "dropped"
  <2>1. /\ ipStep[e] \in {"queued", "reading"} /\ ipStep' = [ipStep EXCEPT ![e] = v]
        /\ UNCHANGED <<ipGot, ipOn, ipKind, ipLive, ipIn, ipNow, ipOut>>
        /\ ipLock' = IF ipStep[e] = "reading" THEN 0 ELSE ipLock
    BY <1>6 DEF IpDropped, ipProcVars
  <2>2. v \in {"queued", "failed", "dropped"} /\ v = "dropped"
    OBVIOUS
  <2> HIDE DEF v
  <2> QED  BY <1>0, <2>1, <2>2, IpSamePending, IpEndsAnswers
<1>7. CASE IpReset
  <2>1. UNCHANGED <<ipStep, ipGot, ipOn, ipKind, ipLock>> /\ IpEmpty' /\ ipLock = 0
    BY <1>7 DEF IpReset, IpKills, ipCallVars, IpEmpty
  <2> QED  BY <2>1, IpNonePending, IpStillAnswers
<1>8. CASE IpTakesCode
  <2>1. UNCHANGED <<ipStep, ipGot, ipOn, ipKind, ipLock, ipLive>>
    BY <1>8 DEF IpTakesCode, ipCallVars
  <2> QED  BY <1>0, <1>8, <2>1, IpTakesPending, IpStillAnswers
<1>9. CASE IpFinishesCode
  <2>1. UNCHANGED <<ipStep, ipGot, ipOn, ipKind, ipLock, ipLive>>
    BY <1>9 DEF IpFinishesCode, ipCallVars
  <2> QED  BY <1>0, <1>9, <2>1, IpFinishesPending, IpStillAnswers
<1>10. CASE IpDies \/ IpLateKill \/ UNCHANGED ipVars
  <2>1. UNCHANGED <<ipStep, ipGot, ipOn, ipKind, ipLock, ipLive, ipIn, ipNow, ipOut>>
    BY <1>10 DEF IpDies, IpLateKill, ipCallVars, ipVars, ipProcVars
  <2> QED  BY <1>0, <2>1, IpSamePending, IpStillAnswers
<1> QED
  BY <1>1, <1>2, <1>3, <1>4, <1>5, <1>6, <1>7, <1>8, <1>9, <1>10 DEF IpNext

LEMMA IpInitAnswers == IpInit => IpAnswers
<1> SUFFICES ASSUME IpInit PROVE IpAnswers
  OBVIOUS
<1>1. DOMAIN ipIn = {} /\ DOMAIN ipNow = {} /\ DOMAIN ipOut = {}
  BY DEF IpInit
<1>2. IpSorted /\ IpWork
  BY <1>1 DEF IpSorted, IpWork, IpPending
<1>3. IpTurns /\ IpOwnAnswer
  BY IpExecRange DEF IpInit, IpTurns, IpOwnAnswer
<1> QED  BY <1>2, <1>3 DEF IpAnswers

(* A call to an interpreter that outlives its calls gets its own output,   *)
(* or, of a Python kernel that a call was dropped on, the output of an     *)
(* earlier call that nobody was given; it is told when the state it relied *)
(* on is gone, and plain code never finds the `tools` of a programmatic    *)
(* call: exec, its timeouts, failures, cancellations and drops, reset, and *)
(* whatever the interpreter does.                                          *)
THEOREM InterpreterSafety == IpSpec => IpSafe
<1>1. IpInit => IpInv /\ IpAnswers
  BY IpInitInv, IpInitAnswers
<1>2. IpInv /\ IpAnswers /\ [IpNext]_ipVars => IpInv' /\ IpAnswers'
  BY IpStepInv, IpStepAnswers
<1>3. IpInv /\ [IpNext]_ipVars =>
        [\A e \in IpExec :
           ipStep[e] # "answered" /\ ipStep'[e] = "answered" /\ ~ipTold[e]
             => ipKnown \in {0, ipLive}]_ipVars
  BY IpStepInv DEF IpTells
<1>4. IpInv /\ IpAnswers => IpOwnAnswer /\ IpNoStaleTools
  BY IpInvSafe DEF IpAnswers
<1> QED
  BY <1>1, <1>2, <1>3, <1>4, PTL DEF IpSpec, IpSafe, IpLossTold

-----------------------------------------------------------------------------
(* FileTools: what was read, who may write, what the stamps mean           *)
FtSteps == {"idle", "begun", "reading", "recording", "writing", "restamping", "committing",
            "rollback", "ok", "failed"}
FtVersions == [ver : Nat, text : Nat]

(* The paths a call keeps others from writing.                             *)
FtHeld(s) ==
  IF ftJob[s].op = "read_file" THEN {}
  ELSE IF ftJob[s].op = "copy_file" THEN {ftJob[s].on[2]} ELSE FtOn(s)

(* A version is one file's, and no version is from the future.             *)
FtDiskInv ==
  /\ ftClock \in Nat /\ ftDisk \in [FtFiles -> FtVersions]
  /\ \A p \in FtFiles : ftDisk[p].ver =< ftClock /\ (ftDisk[p].ver = 0 => ftDisk[p] = FtAbsent)
  /\ \A p, q \in FtFiles : ftDisk[p].ver = ftDisk[q].ver /\ ftDisk[p].ver # 0 => p = q

(* The file whose version a path is stamped with, wherever it is now, has  *)
(* a text that was read or written at that path, or stamped unseen.        *)
FtAllowed(p) == ftKnown[p] \cup ftUnseen[p]

FtBooks ==
  /\ ftKnown \in [FtFiles -> SUBSET Nat] /\ ftUnseen \in [FtFiles -> SUBSET Nat]
  /\ ftMeddled \in [FtSlots -> SUBSET FtFiles] /\ ftRespelt \in [FtSlots -> SUBSET FtFiles]

FtGuardInv ==
  /\ FtBooks /\ ftGuard \in [FtFiles -> Nat]
  /\ \A p \in FtFiles : ftGuard[p] =< ftClock
  /\ \A p, q \in FtFiles :
       ftGuard[p] # 0 /\ ftDisk[q].ver = ftGuard[p] => ftDisk[q].text \in FtAllowed(p)

FtCallSet ==
  [op : FtOps \cup {"none"}, on : Seq(FtFiles), spelt : FtSpellings, step : FtSteps, at : Nat,
   saw : [FtFiles -> FtVersions], bad : BOOLEAN]

FtCallOK(s) ==
  LET job == ftJob[s] IN
  /\ FtRunning(s) =>
       /\ job.op \in FtOps /\ Len(job.on) >= 1
       /\ \A i, j \in DOMAIN job.on : job.on[i] = job.on[j] => i = j
       /\ job.op \in {"copy_file", "rename_file"} => Len(job.on) = 2
       /\ job.op \notin {"copy_file", "rename_file", "edit_file"} => Len(job.on) = 1
  /\ job.step \in {"reading", "recording"} => job.op = "read_file"
  /\ job.step = "writing" => job.op = "write_file"
  /\ job.step \in {"committing", "rollback"} => job.op = "edit_file"
  /\ job.step = "restamping" => job.op \in {"write_file", "edit_file"}
  /\ job.step \in {"begun", "writing"} => job.at = 0
  /\ job.step \in {"committing", "restamping"} => job.at < Len(job.on)
  /\ job.step = "rollback" => job.at \in DOMAIN job.on

FtAlike(s, t) == FtSpelling(ftJob[s]) = FtSpelling(ftJob[t])

FtExclusive ==
  \A s, t \in FtSlots :
    s # t /\ FtRunning(s) /\ FtRunning(t) /\ FtAlike(s, t) => FtHeld(s) \cap FtHeld(t) = {}

(* What a call saw of a file it will replace, or has given back, is there. *)
FtSees(s) ==
  LET job == ftJob[s] IN
  /\ job.step = "begun" /\ job.op = "edit_file" =>
       \A p \in FtOn(s) \ FtStirred(s) : job.saw[p] # FtAbsent => ftDisk[p] = job.saw[p]
  /\ job.step = "writing" /\ FtFile(s) \notin FtStirred(s) =>
       ftDisk[FtFile(s)] = job.saw[FtFile(s)]
  /\ job.step = "committing" =>
       \A i \in DOMAIN job.on :
         i > job.at /\ job.on[i] \notin FtStirred(s) => ftDisk[job.on[i]] = job.saw[job.on[i]]
  /\ job.step = "rollback" /\ ~job.bad =>
       \A i \in DOMAIN job.on :
         i > job.at /\ job.on[i] \notin FtStirred(s) =>
           ftDisk[job.on[i]].text = job.saw[job.on[i]].text

(* A file written and not yet restamped still holds what was written.      *)
FtWrote(s) ==
  \A i \in DOMAIN ftJob[s].on :
    /\ \/ ftJob[s].step = "committing" /\ i <= ftJob[s].at
       \/ ftJob[s].step = "restamping" /\ i > ftJob[s].at
    /\ ftJob[s].on[i] \notin FtStirred(s)
    => ftDisk[ftJob[s].on[i]].text \in ftKnown[ftJob[s].on[i]]

(* What a read will stamp: the version is at its path, or what it holds    *)
(* was blessed; and once the file is read the version's text is known.     *)
FtStamps(s) ==
  LET job == ftJob[s] IN
  /\ job.step \in {"reading", "recording"} => FtStamp(s) =< ftClock
  /\ job.step = "reading" =>
       \A q \in FtFiles :
         FtStamp(s) # 0 /\ ftDisk[q].ver = FtStamp(s) =>
           q = FtFile(s) \/ ftDisk[q].text \in ftUnseen[FtFile(s)]
  /\ job.step = "recording" =>
       \A q \in FtFiles :
         FtStamp(s) # 0 /\ ftDisk[q].ver = FtStamp(s) => ftDisk[q].text \in FtAllowed(FtFile(s))
  /\ job.step = "writing" => job.saw[FtFile(s)].text \in {0} \cup FtAllowed(FtFile(s))

FtCallInv(s) == FtCallOK(s) /\ FtSees(s) /\ FtWrote(s) /\ FtStamps(s)

FtInv ==
  /\ FtDiskInv /\ FtGuardInv /\ FtExclusive /\ ftJob \in [FtSlots -> FtCallSet]
  /\ \A s \in FtSlots : FtCallInv(s)

(* The ways a call or somebody else changes the files.                     *)
FtGone(p) == ftClock' = ftClock + 1 /\ ftDisk' = [ftDisk EXCEPT ![p] = FtAbsent]
FtMoved(p, q) ==
  /\ ftClock' = ftClock + 1
  /\ ftDisk' = [ftDisk EXCEPT ![p] = FtAbsent, ![q] = ftDisk[p]]

(* Where a version that is not new was: at its path, or it came by a move. *)
FtOrigins(moves) ==
  /\ FtDiskInv' /\ ftClock =< ftClock'
  /\ \A q \in FtFiles :
       ftDisk'[q].ver # 0 /\ ftDisk'[q].ver =< ftClock =>
         \/ ftDisk'[q] = ftDisk[q]
         \/ \E p \in FtFiles : <<p, q>> \in moves /\ ftDisk'[q] = ftDisk[p]

LEMMA FtPathFacts ==
  /\ FtPath \in Seq(FtFiles) /\ Len(FtPath) \in Nat /\ DOMAIN FtPath = 1 .. Len(FtPath)
  /\ \A i \in DOMAIN FtPath : FtPath[i] \in FtFiles
  /\ \A i, j \in DOMAIN FtPath : FtPath[i] = FtPath[j] => i = j
<1>1. FtPath \in Seq(FtFiles) /\ \A i, j \in DOMAIN FtPath : FtPath[i] = FtPath[j] => i = j
  BY FtAssumption
<1>2. Len(FtPath) \in Nat /\ DOMAIN FtPath = 1 .. Len(FtPath)
  BY <1>1, LenProperties
<1> QED
  BY <1>1, <1>2 DEF FtFiles

LEMMA FtPutsOrigins ==
  ASSUME FtDiskInv, NEW p \in FtFiles, NEW text \in Nat, FtPuts(p, text)
  PROVE  FtOrigins({}) /\ ftDisk'[p].text = text /\ ftDisk'[p].ver = ftClock'
         /\ (\A q \in FtFiles : q # p => ftDisk'[q] = ftDisk[q])
<1> DEFINE new == [ver |-> ftClock + 1, text |-> text]
<1>0. ftClock \in Nat /\ ftDisk \in [FtFiles -> FtVersions]
  BY DEF FtDiskInv
<1>1. new \in FtVersions /\ new.ver = ftClock + 1 /\ new.text = text
  BY <1>0 DEF FtVersions
<1>2. ftClock' = ftClock + 1 /\ ftDisk' = [ftDisk EXCEPT ![p] = new]
  BY DEF FtPuts
<1> HIDE DEF new
<1>3. ftDisk'[p] = new /\ \A q \in FtFiles : q # p => ftDisk'[q] = ftDisk[q]
  BY <1>0, <1>2
<1>4. ftClock' \in Nat /\ ftDisk' \in [FtFiles -> FtVersions]
  BY <1>0, <1>1, <1>2
<1>5. \A q \in FtFiles : ftDisk[q].ver \in Nat
  BY <1>0 DEF FtVersions
<1>6. \A q \in FtFiles : ftDisk[q].ver =< ftClock /\ (ftDisk[q].ver = 0 => ftDisk[q] = FtAbsent)
  BY DEF FtDiskInv
<1>7. \A q \in FtFiles : ftDisk'[q].ver =< ftClock' /\ (ftDisk'[q].ver = 0 => ftDisk'[q] = FtAbsent)
  BY <1>0, <1>1, <1>2, <1>3, <1>5, <1>6
<1>8. \A q \in FtFiles : q # p => ftDisk'[q].ver # ftDisk'[p].ver
  BY <1>0, <1>1, <1>3, <1>5, <1>6
<1>9. \A q, r \in FtFiles : ftDisk'[q].ver = ftDisk'[r].ver /\ ftDisk'[q].ver # 0 => q = r
  BY <1>3, <1>8 DEF FtDiskInv
<1>10. \A q \in FtFiles : ftDisk'[q].ver =< ftClock => ftDisk'[q] = ftDisk[q]
  BY <1>0, <1>1, <1>3
<1>11. ftClock =< ftClock'
  BY <1>0, <1>2
<1> QED
  BY <1>1, <1>2, <1>3, <1>4, <1>7, <1>9, <1>10, <1>11 DEF FtOrigins, FtDiskInv

LEMMA FtGoneOrigins ==
  ASSUME FtDiskInv, NEW p \in FtFiles, FtGone(p)
  PROVE  FtOrigins({}) /\ (\A q \in FtFiles : q # p => ftDisk'[q] = ftDisk[q])
<1>0. ftClock \in Nat /\ ftDisk \in [FtFiles -> FtVersions]
  BY DEF FtDiskInv
<1>1. FtAbsent \in FtVersions /\ FtAbsent.ver = 0
  BY DEF FtVersions, FtAbsent
<1>2. ftClock' = ftClock + 1 /\ ftDisk' = [ftDisk EXCEPT ![p] = FtAbsent]
  BY DEF FtGone
<1>3. ftDisk'[p] = FtAbsent /\ \A q \in FtFiles : q # p => ftDisk'[q] = ftDisk[q]
  BY <1>0, <1>2
<1>4. ftClock' \in Nat /\ ftDisk' \in [FtFiles -> FtVersions]
  BY <1>0, <1>1, <1>2
<1>5. \A q \in FtFiles : ftDisk[q].ver \in Nat
  BY <1>0 DEF FtVersions
<1>6. \A q \in FtFiles : ftDisk[q].ver =< ftClock /\ (ftDisk[q].ver = 0 => ftDisk[q] = FtAbsent)
  BY DEF FtDiskInv
<1>7. \A q \in FtFiles : ftDisk'[q].ver =< ftClock' /\ (ftDisk'[q].ver = 0 => ftDisk'[q] = FtAbsent)
  BY <1>0, <1>1, <1>2, <1>3, <1>5, <1>6
<1>8. \A q, r \in FtFiles : ftDisk'[q].ver = ftDisk'[r].ver /\ ftDisk'[q].ver # 0 => q = r
  BY <1>1, <1>3 DEF FtDiskInv
<1>9. \A q \in FtFiles : ftDisk'[q].ver # 0 => ftDisk'[q] = ftDisk[q]
  BY <1>1, <1>3
<1>10. ftClock =< ftClock'
  BY <1>0, <1>2
<1> QED
  BY <1>3, <1>4, <1>7, <1>8, <1>9, <1>10 DEF FtOrigins, FtDiskInv

LEMMA FtMovedOrigins ==
  ASSUME FtDiskInv, NEW p \in FtFiles, NEW r \in FtFiles, p # r, FtMoved(p, r)
  PROVE  /\ FtOrigins({<<p, r>>})
         /\ \A q \in FtFiles : q # p /\ q # r => ftDisk'[q] = ftDisk[q]
<1>0. ftClock \in Nat /\ ftDisk \in [FtFiles -> FtVersions]
  BY DEF FtDiskInv
<1>1. FtAbsent \in FtVersions /\ FtAbsent.ver = 0
  BY DEF FtVersions, FtAbsent
<1>2. ftClock' = ftClock + 1 /\ ftDisk' = [ftDisk EXCEPT ![p] = FtAbsent, ![r] = ftDisk[p]]
  BY DEF FtMoved
<1>3. /\ ftDisk'[p] = FtAbsent /\ ftDisk'[r] = ftDisk[p]
      /\ \A q \in FtFiles : q # p /\ q # r => ftDisk'[q] = ftDisk[q]
  BY <1>0, <1>2
<1>4. ftClock' \in Nat /\ ftDisk' \in [FtFiles -> FtVersions]
  BY <1>0, <1>1, <1>2
<1>5. \A q \in FtFiles : ftDisk[q].ver \in Nat
  BY <1>0 DEF FtVersions
<1>6. \A q \in FtFiles : ftDisk[q].ver =< ftClock /\ (ftDisk[q].ver = 0 => ftDisk[q] = FtAbsent)
  BY DEF FtDiskInv
<1>7. \A q \in FtFiles : ftDisk'[q].ver =< ftClock' /\ (ftDisk'[q].ver = 0 => ftDisk'[q] = FtAbsent)
  BY <1>0, <1>1, <1>2, <1>3, <1>5, <1>6
<1>8. \A q, s \in FtFiles : ftDisk'[q].ver = ftDisk'[s].ver /\ ftDisk'[q].ver # 0 => q = s
  BY <1>1, <1>3 DEF FtDiskInv
<1>9. ASSUME NEW q \in FtFiles, ftDisk'[q].ver # 0
      PROVE  \/ ftDisk'[q] = ftDisk[q]
             \/ \E o \in FtFiles : <<o, q>> \in {<<p, r>>} /\ ftDisk'[q] = ftDisk[o]
  <2>1. q # p
    BY <1>1, <1>3, <1>9
  <2> QED
    BY <2>1, <1>3
<1>10. ftClock =< ftClock'
  BY <1>0, <1>2
<1> QED
  BY <1>3, <1>4, <1>7, <1>8, <1>9, <1>10 DEF FtOrigins, FtDiskInv

LEMMA FtStillOrigins ==
  ASSUME FtDiskInv, UNCHANGED <<ftDisk, ftClock>>
  PROVE  FtOrigins({}) /\ ftDisk' = ftDisk
<1>1. ftClock =< ftClock'
  BY DEF FtDiskInv
<1>2. FtDiskInv'
  BY DEF FtDiskInv
<1> QED
  BY <1>1, <1>2 DEF FtOrigins

(* Texts are learnt and blessed, never forgotten.                          *)
FtLearnt ==
  /\ ftKnown' \in [FtFiles -> SUBSET Nat] /\ ftUnseen' \in [FtFiles -> SUBSET Nat]
  /\ \A p \in FtFiles : ftKnown[p] \subseteq ftKnown'[p] /\ ftUnseen[p] \subseteq ftUnseen'[p]

(* A step of a call changes the files it keeps to itself, learns, and      *)
(* blesses what it moves away from under a read.                           *)
FtAround(s, moves) ==
  /\ FtRunning(s) /\ FtOrigins(moves) /\ FtLearnt
  /\ \A q \in FtFiles \ FtHeld(s) : ftDisk'[q] = ftDisk[q]
  /\ \A p, q \in FtFiles : \A t \in FtSlots :
       <<p, q>> \in moves /\ ftJob[t].step = "reading" /\ FtFile(t) = p
         => ftDisk[p].text \in ftUnseen'[p]

LEMMA FtAllowedMore ==
  ASSUME FtLearnt, NEW p \in FtFiles
  PROVE  FtAllowed(p) \subseteq FtAllowed(p)'
  BY DEF FtLearnt, FtAllowed

LEMMA FtAllowedIs ==
  ASSUME NEW p \in FtFiles
  PROVE  FtAllowed(p)' = ftKnown'[p] \cup ftUnseen'[p]
  BY DEF FtAllowed

LEMMA FtNothingLearnt ==
  ASSUME FtBooks, UNCHANGED <<ftKnown, ftUnseen>>
  PROVE  FtLearnt
  BY DEF FtBooks, FtLearnt

(* What a call's paths are.                                                *)
LEMMA FtPaths ==
  ASSUME FtInv, NEW s \in FtSlots
  PROVE  /\ ftJob[s] \in FtCallSet /\ ftJob[s].on \in Seq(FtFiles)
         /\ Len(ftJob[s].on) \in Nat /\ DOMAIN ftJob[s].on = 1 .. Len(ftJob[s].on)
         /\ \A i \in DOMAIN ftJob[s].on : ftJob[s].on[i] \in FtFiles
         /\ FtRunning(s) => FtFile(s) \in FtFiles /\ 1 \in DOMAIN ftJob[s].on
         /\ ftJob[s].at \in Nat /\ ftJob[s].saw \in [FtFiles -> FtVersions]
         /\ FtRunning(s) /\ ftJob[s].op \in FtOps \ {"read_file", "copy_file"} =>
              FtHeld(s) = FtOn(s) /\ FtFile(s) \in FtHeld(s)
<1>1. ftJob[s] \in FtCallSet
  BY DEF FtInv
<1>2. ftJob[s].on \in Seq(FtFiles) /\ ftJob[s].at \in Nat /\ ftJob[s].saw \in [FtFiles -> FtVersions]
  BY <1>1 DEF FtCallSet
<1>3. Len(ftJob[s].on) \in Nat /\ DOMAIN ftJob[s].on = 1 .. Len(ftJob[s].on)
  BY <1>2, LenProperties
<1>4. \A i \in DOMAIN ftJob[s].on : ftJob[s].on[i] \in FtFiles
  BY <1>2
<1>5. FtRunning(s) => Len(ftJob[s].on) >= 1
  BY DEF FtInv, FtCallInv, FtCallOK
<1>6. FtRunning(s) => FtFile(s) \in FtFiles /\ 1 \in DOMAIN ftJob[s].on
  BY <1>3, <1>4, <1>5 DEF FtFile
<1>7. FtRunning(s) /\ ftJob[s].op \in FtOps \ {"read_file", "copy_file"} =>
              FtHeld(s) = FtOn(s) /\ FtFile(s) \in FtHeld(s)
  BY <1>6 DEF FtHeld, FtOn, FtFile
<1> QED
  BY <1>1, <1>2, <1>3, <1>4, <1>6, <1>7

(* Another call's hold on its files outlives the step.                     *)
LEMMA FtOthersKeep ==
  ASSUME FtInv, NEW s \in FtSlots, NEW moves, FtAround(s, moves),
         NEW t \in FtSlots, t # s, ftJob'[t] = ftJob[t],
         FtRunning(t) => FtStirred(t)' = FtStirred(t) \cup FtChanged(s, t)
  PROVE  FtCallInv(t)'
<1> DEFINE job == ftJob[t]
<1>0. /\ FtDiskInv /\ FtGuardInv /\ FtCallOK(t) /\ FtSees(t) /\ FtWrote(t) /\ FtStamps(t)
      /\ FtOrigins(moves)
  BY DEF FtInv, FtCallInv, FtAround
<1>1. CASE ~FtRunning(t)
  BY <1>1, <1>0 DEF FtRunning, FtCallInv, FtCallOK, FtSees, FtWrote, FtStamps
<1>2. CASE FtRunning(t)
  <2>0. FtStirred(t)' = FtStirred(t) \cup FtChanged(s, t)
    BY <1>2
  <2>1. FtAlike(s, t) => FtHeld(s) \cap FtHeld(t) = {}
    BY <1>2 DEF FtInv, FtExclusive, FtAround
  <2>2. \A q \in FtHeld(t) : q \in FtFiles /\ q \notin FtStirred(t)' => ftDisk'[q] = ftDisk[q]
    BY <2>0, <2>1 DEF FtAround, FtAlike, FtChanged
  <2>3. /\ \A i \in DOMAIN job.on : job.on[i] \in FtFiles
        /\ FtFile(t) \in FtFiles /\ 1 \in DOMAIN job.on
        /\ job.saw \in [FtFiles -> FtVersions]
        /\ job.op \in FtOps \ {"read_file", "copy_file"} =>
              FtHeld(t) = FtOn(t) /\ FtFile(t) \in FtHeld(t)
    BY <1>2, FtPaths
  <2>4. job.op \in FtOps
    BY <1>2, <1>0 DEF FtCallOK
  <2>5. job.op \notin {"read_file", "copy_file"} =>
          \A i \in DOMAIN job.on :
            job.on[i] \notin FtStirred(t)' => ftDisk'[job.on[i]] = ftDisk[job.on[i]]
    BY <2>2, <2>3, <2>4 DEF FtOn
  <2>6. job.op \notin {"read_file", "copy_file"} /\ FtFile(t) \notin FtStirred(t)' =>
          ftDisk'[FtFile(t)] = ftDisk[FtFile(t)]
    BY <2>5, <2>3 DEF FtFile
  <2>7. FtCallOK(t)'
    BY <1>0 DEF FtCallOK, FtRunning
  <2>8. FtSees(t)'
    BY <1>0, <2>0, <2>5, <2>6 DEF FtSees, FtCallOK, FtFile, FtOn
  <2>9. FtWrote(t)'
    <3>1. ASSUME NEW i \in DOMAIN job.on,
                 \/ job.step = "committing" /\ i <= job.at
                 \/ job.step = "restamping" /\ i > job.at,
                 job.on[i] \notin FtStirred(t)'
          PROVE  ftDisk'[job.on[i]].text \in ftKnown'[job.on[i]]
      <4>1. ftDisk[job.on[i]].text \in ftKnown[job.on[i]]
        BY <3>1, <1>0, <2>0 DEF FtWrote
      <4>2. ftDisk'[job.on[i]] = ftDisk[job.on[i]]
        BY <3>1, <1>0, <2>5 DEF FtCallOK
      <4> QED
        BY <4>1, <4>2, <2>3 DEF FtAround, FtLearnt
    <3> QED
      BY <3>1 DEF FtWrote
  <2>10. FtStamps(t)'
    <3>1. FtFile(t)' = FtFile(t) /\ FtStamp(t)' = FtStamp(t)
      BY DEF FtFile, FtStamp
    <3>2. ftClock \in Nat /\ ftClock' \in Nat /\ ftClock =< ftClock' /\ FtStamp(t) \in Nat
      BY <1>0, <2>3 DEF FtOrigins, FtDiskInv, FtStamp, FtVersions
    <3>7. FtAllowed(FtFile(t)) \subseteq FtAllowed(FtFile(t))'
      <4> DEFINE p == FtFile(t)
      <4>1. p \in FtFiles /\ p' = p
        BY <2>3, <3>1
      <4> QED
        BY <4>1 DEF FtAround, FtLearnt, FtAllowed
    <3>3. job.step \in {"reading", "recording"} => FtStamp(t)' =< ftClock'
      BY <1>0, <3>1, <3>2 DEF FtStamps
    <3>4. ASSUME job.step = "reading", NEW q \in FtFiles, FtStamp(t) # 0, ftDisk'[q].ver = FtStamp(t)
          PROVE  q = FtFile(t) \/ ftDisk'[q].text \in ftUnseen'[FtFile(t)]
      <4>1. ftDisk'[q].ver # 0 /\ ftDisk'[q].ver =< ftClock
        BY <3>4, <1>0 DEF FtStamps
      <4>2. \/ ftDisk'[q] = ftDisk[q]
            \/ \E p \in FtFiles : <<p, q>> \in moves /\ ftDisk'[q] = ftDisk[p]
        BY <4>1, <1>0 DEF FtOrigins
      <4>0. ftUnseen[FtFile(t)] \subseteq ftUnseen'[FtFile(t)]
        BY <2>3 DEF FtAround, FtLearnt
      <4>3. CASE ftDisk'[q] = ftDisk[q]
        BY <4>0, <4>3, <3>4, <1>0 DEF FtStamps
      <4>4. ASSUME NEW p \in FtFiles, <<p, q>> \in moves, ftDisk'[q] = ftDisk[p]
            PROVE  ftDisk'[q].text \in ftUnseen'[FtFile(t)]
        <5>1. p = FtFile(t) \/ ftDisk[p].text \in ftUnseen[FtFile(t)]
          BY <4>4, <3>4, <1>0 DEF FtStamps
        <5> QED
          BY <5>1, <4>0, <4>4, <3>4 DEF FtAround
      <4> QED
        BY <4>2, <4>3, <4>4
    <3>5. ASSUME job.step = "recording", NEW q \in FtFiles, FtStamp(t) # 0, ftDisk'[q].ver = FtStamp(t)
          PROVE  ftDisk'[q].text \in FtAllowed(FtFile(t))'
      <4>1. ftDisk'[q].ver # 0 /\ ftDisk'[q].ver =< ftClock
        BY <3>5, <1>0 DEF FtStamps
      <4>2. \E p \in FtFiles : ftDisk'[q] = ftDisk[p]
        BY <4>1, <1>0 DEF FtOrigins
      <4>3. ftDisk'[q].text \in FtAllowed(FtFile(t))
        BY <4>2, <3>5, <1>0 DEF FtStamps
      <4> QED
        BY <4>3, <3>1, <3>7
    <3>6. job.step = "writing" => job.saw[FtFile(t)].text \in {0} \cup FtAllowed(FtFile(t))'
      BY <1>0, <3>7 DEF FtStamps
    <3> QED
      BY <3>1, <3>3, <3>4, <3>5, <3>6 DEF FtStamps
  <2> QED
    BY <2>7, <2>8, <2>9, <2>10 DEF FtCallInv
<1> QED
  BY <1>1, <1>2

(* Stamps stay honest when versions move, texts are learnt and nothing is  *)
(* recorded.                                                               *)
LEMMA FtGuardKeeps ==
  ASSUME FtDiskInv, FtGuardInv, NEW moves, FtOrigins(moves), UNCHANGED ftGuard,
         FtLearnt, FtBooks'
  PROVE  FtGuardInv'
<1>1. ftClock \in Nat /\ ftClock' \in Nat /\ ftClock =< ftClock' /\ ftGuard \in [FtFiles -> Nat]
  BY DEF FtDiskInv, FtOrigins, FtGuardInv
<1>2. \A p \in FtFiles : ftGuard'[p] =< ftClock'
  BY <1>1 DEF FtGuardInv
<1>3. ASSUME NEW p \in FtFiles, NEW q \in FtFiles, ftGuard[p] # 0, ftDisk'[q].ver = ftGuard[p]
      PROVE  ftDisk'[q].text \in FtAllowed(p)'
  <2>1. ftDisk'[q].ver # 0 /\ ftDisk'[q].ver =< ftClock
    BY <1>3 DEF FtGuardInv
  <2>2. \E o \in FtFiles : ftDisk'[q] = ftDisk[o]
    BY <2>1 DEF FtOrigins
  <2>3. ftDisk'[q].text \in FtAllowed(p)
    BY <2>2, <1>3 DEF FtGuardInv
  <2> QED
    BY <2>3, FtAllowedMore
<1> QED
  BY <1>1, <1>2, <1>3 DEF FtGuardInv

(* One call's entry changes.                                               *)
LEMMA FtEntry ==
  ASSUME FtInv, NEW s \in FtSlots, NEW j \in FtCallSet, ftJob' = [ftJob EXCEPT ![s] = j], FtTells(s)
  PROVE  /\ ftJob' \in [FtSlots -> FtCallSet] /\ ftJob'[s] = j
         /\ \A t \in FtSlots : t # s =>
              /\ ftJob'[t] = ftJob[t]
              /\ FtRunning(t) => FtStirred(t)' = FtStirred(t) \cup FtChanged(s, t)
         /\ ftMeddled' \in [FtSlots -> SUBSET FtFiles] /\ ftRespelt' \in [FtSlots -> SUBSET FtFiles]
         /\ FtRunning(s)' => FtStirred(s)' = FtStirred(s)
<1>1. /\ ftJob \in [FtSlots -> FtCallSet] /\ ftMeddled \in [FtSlots -> SUBSET FtFiles]
      /\ ftRespelt \in [FtSlots -> SUBSET FtFiles]
  BY DEF FtInv, FtGuardInv, FtBooks
<1>2. ftJob' \in [FtSlots -> FtCallSet] /\ ftJob'[s] = j /\ \A t \in FtSlots : t # s => ftJob'[t] = ftJob[t]
  BY <1>1
<1>3. /\ ftMeddled' = IF FtRunning(s)' THEN ftMeddled ELSE [ftMeddled EXCEPT ![s] = {}]
      /\ ftRespelt' = [t \in FtSlots |-> IF FtRunning(t)' THEN ftRespelt[t] \cup FtChanged(s, t)
                                        ELSE {}]
  BY DEF FtTells
<1>4. \A t \in FtSlots : FtChanged(s, t) \subseteq FtFiles
  BY DEF FtChanged
<1>5. FtChanged(s, s) = {}
  BY DEF FtChanged
<1>6. ftMeddled' \in [FtSlots -> SUBSET FtFiles] /\ ftRespelt' \in [FtSlots -> SUBSET FtFiles]
  <2>1. ftMeddled' \in [FtSlots -> SUBSET FtFiles]
    BY <1>1, <1>3
  <2>2. ftRespelt' \in [FtSlots -> SUBSET FtFiles]
    BY <1>1, <1>3, <1>4
  <2> QED
    BY <2>1, <2>2
<1>7. \A t \in FtSlots : t # s => ftMeddled'[t] = ftMeddled[t]
  BY <1>1, <1>3
<1>8. \A t \in FtSlots : FtRunning(t)' => ftRespelt'[t] = ftRespelt[t] \cup FtChanged(s, t)
  BY <1>3
<1>9. FtRunning(s)' => FtStirred(s)' = FtStirred(s)
  BY <1>3, <1>5, <1>8 DEF FtStirred
<1>10. \A t \in FtSlots : t # s /\ FtRunning(t) => FtStirred(t)' = FtStirred(t) \cup FtChanged(s, t)
  <2>1. ASSUME NEW t \in FtSlots, t # s, FtRunning(t) PROVE FtStirred(t)' = FtStirred(t) \cup FtChanged(s, t)
    <3>1. FtRunning(t)'
      BY <1>2, <2>1 DEF FtRunning
    <3> QED
      BY <3>1, <2>1, <1>7, <1>8 DEF FtStirred
  <2> QED
    BY <2>1
<1> QED
  BY <1>2, <1>6, <1>9, <1>10

LEMMA FtStepKeeps ==
  ASSUME FtInv, NEW s \in FtSlots, NEW moves, FtAround(s, moves), NEW j \in FtCallSet,
         ftJob' = [ftJob EXCEPT ![s] = j], FtTells(s),
         FtRunning(s)' => j.op = ftJob[s].op /\ j.on = ftJob[s].on /\ j.spelt = ftJob[s].spelt,
         FtGuardInv' \/ UNCHANGED ftGuard, FtCallInv(s)'
  PROVE  FtInv'
<1>1. /\ ftJob' \in [FtSlots -> FtCallSet] /\ ftJob'[s] = j
      /\ \A t \in FtSlots : t # s =>
           /\ ftJob'[t] = ftJob[t]
           /\ FtRunning(t) => FtStirred(t)' = FtStirred(t) \cup FtChanged(s, t)
      /\ ftMeddled' \in [FtSlots -> SUBSET FtFiles] /\ ftRespelt' \in [FtSlots -> SUBSET FtFiles]
  BY FtEntry
<1>2. \A t \in FtSlots : FtCallInv(t)'
  BY <1>1, FtOthersKeep
<1>3. FtExclusive'
  <2> DEFINE alike(t) == FtHeld(t)' = FtHeld(t) /\ FtSpelling(ftJob[t])' = FtSpelling(ftJob[t])
  <2>1. \A t \in FtSlots : FtRunning(t)' => FtRunning(t) /\ alike(t)
    <3>1. ASSUME NEW t \in FtSlots, t # s PROVE FtRunning(t)' => FtRunning(t) /\ alike(t)
      <4>1. ftJob'[t] = ftJob[t]
        BY <1>1, <3>1
      <4> QED
        BY <4>1 DEF FtRunning, FtHeld, FtOn, FtSpelling
    <3>2. FtRunning(s)' => FtRunning(s) /\ alike(s)
      <4>1. ftJob'[s] = j /\ FtRunning(s)
        BY <1>1 DEF FtAround
      <4>2. SUFFICES ASSUME FtRunning(s)' PROVE alike(s)
        BY <4>1
      <4>3. ftJob'[s].op = ftJob[s].op /\ ftJob'[s].on = ftJob[s].on /\ ftJob'[s].spelt = ftJob[s].spelt
        BY <4>1, <4>2
      <4> QED
        BY <4>3 DEF FtHeld, FtOn, FtSpelling
    <3> QED
      BY <3>1, <3>2
  <2> QED
    BY <2>1 DEF FtInv, FtExclusive, FtAlike
<1>4. FtGuardInv'
  <2>1. FtBooks'
    BY <1>1 DEF FtBooks, FtAround, FtLearnt
  <2> QED
    BY <2>1, FtGuardKeeps DEF FtInv, FtAround
<1>5. FtDiskInv'
  BY DEF FtAround, FtOrigins
<1> QED
  BY <1>1, <1>2, <1>3, <1>4, <1>5 DEF FtInv

(* A call that is over promises nothing.                                   *)
LEMMA FtOver ==
  ASSUME FtInv, NEW s \in FtSlots, NEW moves, FtAround(s, moves),
         NEW outcome \in {"idle", "ok", "failed"}, FtEnds(s, outcome), FtTells(s),
         FtGuardInv' \/ UNCHANGED ftGuard
  PROVE  FtInv'
<1> DEFINE j == [FtIdle EXCEPT !.step = outcome]
<1>1. FtAbsent \in FtVersions /\ <<>> \in Seq(FtFiles)
  BY QueueNone DEF FtAbsent, FtVersions
<1>2. FtSawNothing \in [FtFiles -> FtVersions]
  BY <1>1 DEF FtSawNothing
<1>3. j \in FtCallSet /\ j.step = outcome
  BY <1>1, <1>2 DEF FtCallSet, FtIdle, FtSteps, FtSpellings
<1>4. ftJob' = [ftJob EXCEPT ![s] = j]
  BY DEF FtEnds
<1> HIDE DEF j
<1>5. ftJob'[s].step = outcome
  BY <1>3, <1>4, FtEntry
<1>6. ~FtRunning(s)' /\ FtCallInv(s)'
  BY <1>5 DEF FtRunning, FtCallInv, FtCallOK, FtSees, FtWrote, FtStamps
<1> QED
  BY <1>3, <1>4, <1>6, FtStepKeeps

(* ... and keeps the books.                                                *)
LEMMA FtOverEntry ==
  ASSUME FtInv, NEW s \in FtSlots, NEW outcome \in {"idle", "ok", "failed"}, FtEnds(s, outcome),
         FtTells(s), FtLearnt
  PROVE  FtBooks'
<1> DEFINE j == [FtIdle EXCEPT !.step = outcome]
<1>1. FtAbsent \in FtVersions /\ <<>> \in Seq(FtFiles)
  BY QueueNone DEF FtAbsent, FtVersions
<1>2. FtSawNothing \in [FtFiles -> FtVersions]
  BY <1>1 DEF FtSawNothing
<1>3. j \in FtCallSet
  BY <1>1, <1>2 DEF FtCallSet, FtIdle, FtSteps, FtSpellings
<1>4. ftJob' = [ftJob EXCEPT ![s] = j]
  BY DEF FtEnds
<1> HIDE DEF j
<1> QED
  BY <1>3, <1>4, FtEntry DEF FtBooks, FtLearnt

(* A step that leaves the files and what is known of them.                 *)
LEMMA FtIdleAround ==
  ASSUME FtInv, NEW s \in FtSlots, FtRunning(s), UNCHANGED <<ftDisk, ftClock, ftKnown, ftUnseen>>
  PROVE  FtAround(s, {})
<1>1. FtOrigins({})
  BY FtStillOrigins DEF FtInv
<1>2. FtLearnt
  BY FtNothingLearnt DEF FtInv, FtGuardInv
<1> QED
  BY <1>1, <1>2 DEF FtAround

(* A step that gives a file of the call's own a new text, and may learn it.*)
LEMMA FtPutsAround ==
  ASSUME FtInv, NEW s \in FtSlots, FtRunning(s), NEW p \in FtFiles, p \in FtHeld(s),
         NEW text \in Nat, FtPuts(p, text), UNCHANGED ftKnown \/ FtLearns(p, text),
         UNCHANGED ftUnseen
  PROVE  FtAround(s, {})
<1>1. FtOrigins({}) /\ \A q \in FtFiles : q # p => ftDisk'[q] = ftDisk[q]
  BY FtPutsOrigins DEF FtInv
<1>2. ftKnown \in [FtFiles -> SUBSET Nat] /\ ftUnseen \in [FtFiles -> SUBSET Nat]
  BY DEF FtInv, FtGuardInv, FtBooks
<1>3. ftKnown' \in [FtFiles -> SUBSET Nat] /\ \A q \in FtFiles : ftKnown[q] \subseteq ftKnown'[q]
  BY <1>2 DEF FtLearns
<1>4. FtLearnt
  BY <1>2, <1>3 DEF FtLearnt
<1> QED
  BY <1>1, <1>4 DEF FtAround

LEMMA FtToIs ==
  ASSUME FtInv, NEW s \in FtSlots, NEW step \in FtSteps, FtTo(s, step)
  PROVE  \E j \in FtCallSet :
           /\ ftJob' = [ftJob EXCEPT ![s] = j] /\ j.step = step /\ j.op = ftJob[s].op
           /\ j.on = ftJob[s].on /\ j.at = ftJob[s].at /\ j.saw = ftJob[s].saw
           /\ j.bad = ftJob[s].bad /\ j.spelt = ftJob[s].spelt
<1> DEFINE j == [ftJob[s] EXCEPT !.step = step]
<1>1. ftJob[s] \in FtCallSet
  BY DEF FtInv
<1>2. /\ j \in FtCallSet /\ j.step = step /\ j.op = ftJob[s].op /\ j.on = ftJob[s].on
      /\ j.at = ftJob[s].at /\ j.saw = ftJob[s].saw /\ j.bad = ftJob[s].bad
      /\ j.spelt = ftJob[s].spelt
  BY <1>1 DEF FtCallSet
<1>3. ftJob' = [ftJob EXCEPT ![s] = j]
  BY DEF FtTo
<1> QED
  BY <1>2, <1>3

(* read_file.                                                              *)
LEMMA FtReadStatInv ==
  ASSUME FtInv, NEW s \in FtSlots, FtReadStat(s), FtTells(s)
  PROVE  FtInv'
<1> DEFINE p == FtFile(s)
           j == [ftJob[s] EXCEPT !.step = "reading", !.saw[p] = ftDisk[p]]
<1>1. ftJob[s].step = "begun" /\ ftJob[s].op = "read_file" /\ FtRunning(s)
  BY DEF FtReadStat, FtRunning
<1>2. /\ ftJob[s] \in FtCallSet /\ p \in FtFiles /\ 1 \in DOMAIN ftJob[s].on
      /\ ftJob[s].saw \in [FtFiles -> FtVersions]
  BY <1>1, FtPaths
<1>3. ftJob' = [ftJob EXCEPT ![s] = j] /\ UNCHANGED <<ftDisk, ftGuard, ftClock, ftKnown, ftUnseen>>
  BY DEF FtReadStat
<1>4. FtAround(s, {})
  BY <1>1, <1>3, FtIdleAround
<1>5. ftDisk[p] \in FtVersions
  BY <1>2 DEF FtInv, FtDiskInv
<1>6. /\ j \in FtCallSet /\ j.step = "reading" /\ j.op = "read_file" /\ j.on = ftJob[s].on
      /\ j.spelt = ftJob[s].spelt
      /\ j.saw[p] = ftDisk[p] /\ j.at = ftJob[s].at
  BY <1>1, <1>2, <1>5 DEF FtCallSet, FtSteps
<1> HIDE DEF j
<1>7. ftJob'[s] = j
  BY <1>3, <1>6, FtEntry
<1>8. FtCallOK(s)'
  BY <1>1, <1>6, <1>7 DEF FtCallOK, FtRunning, FtInv, FtCallInv
<1>9. FtSees(s)' /\ FtWrote(s)'
  BY <1>6, <1>7 DEF FtSees, FtWrote
<1>10. FtStamps(s)'
  <2>1. FtFile(s)' = p /\ FtStamp(s)' = ftDisk[p].ver
    BY <1>6, <1>7 DEF FtFile, FtStamp
  <2>2. ftDisk[p].ver =< ftClock
    BY <1>2 DEF FtInv, FtDiskInv
  <2>3. \A q \in FtFiles : ftDisk[p].ver # 0 /\ ftDisk[q].ver = ftDisk[p].ver => q = p
    BY <1>2 DEF FtInv, FtDiskInv
  <2> QED
    BY <2>1, <2>2, <2>3, <1>3, <1>6, <1>7 DEF FtStamps
<1> QED
  BY <1>1, <1>3, <1>4, <1>6, <1>8, <1>9, <1>10, FtStepKeeps DEF FtCallInv

LEMMA FtReadInv ==
  ASSUME FtInv, NEW s \in FtSlots, FtRead(s), FtTells(s)
  PROVE  FtInv'
<1> DEFINE p == FtFile(s)
<1>1. ftJob[s].step = "reading" /\ FtRunning(s) /\ UNCHANGED <<ftDisk, ftGuard, ftClock, ftUnseen>>
  BY DEF FtRead, FtRunning
<1>2. /\ ftJob[s] \in FtCallSet /\ p \in FtFiles /\ 1 \in DOMAIN ftJob[s].on
      /\ ftJob[s].saw \in [FtFiles -> FtVersions]
  BY <1>1, FtPaths
<1>3. CASE ftDisk[p] = FtAbsent
  <2>1. FtEnds(s, "failed") /\ UNCHANGED ftKnown
    BY <1>3 DEF FtRead
  <2> QED
    BY <2>1, <1>1, FtIdleAround, FtOver
<1>4. CASE ftDisk[p] # FtAbsent
  <2>1. FtTo(s, "recording") /\ FtLearns(p, ftDisk[p].text)
    BY <1>4 DEF FtRead
  <2>2. /\ ftKnown \in [FtFiles -> SUBSET Nat] /\ ftUnseen \in [FtFiles -> SUBSET Nat]
        /\ ftDisk[p].text \in Nat
    BY <1>2 DEF FtInv, FtGuardInv, FtBooks, FtDiskInv, FtVersions
  <2>3. /\ ftKnown' \in [FtFiles -> SUBSET Nat] /\ ftDisk[p].text \in ftKnown'[p]
        /\ \A q \in FtFiles : ftKnown[q] \subseteq ftKnown'[q]
    BY <1>2, <2>1, <2>2 DEF FtLearns
  <2>4. FtOrigins({})
    BY <1>1, FtStillOrigins DEF FtInv
  <2>5. FtAround(s, {})
    <3>1. FtLearnt
      BY <1>1, <2>2, <2>3 DEF FtLearnt
    <3> QED
      BY <3>1, <1>1, <2>4 DEF FtAround
  <2>6. "recording" \in FtSteps
    BY DEF FtSteps
  <2>7. PICK j \in FtCallSet :
           /\ ftJob' = [ftJob EXCEPT ![s] = j] /\ j.step = "recording" /\ j.op = ftJob[s].op
           /\ j.on = ftJob[s].on
           /\ j.spelt = ftJob[s].spelt /\ j.at = ftJob[s].at /\ j.saw = ftJob[s].saw
    BY <2>1, <2>6, FtToIs
  <2>8. ftJob'[s] = j
    BY <2>7, FtEntry
  <2>9. FtCallOK(s)'
    BY <1>1, <2>7, <2>8 DEF FtCallOK, FtRunning, FtInv, FtCallInv
  <2>10. FtSees(s)' /\ FtWrote(s)'
    BY <2>7, <2>8 DEF FtSees, FtWrote
  <2>11. FtStamps(s)'
    <3>1. FtFile(s)' = p /\ FtStamp(s)' = FtStamp(s)
      BY <2>7, <2>8 DEF FtFile, FtStamp
    <3>2. /\ FtStamp(s) =< ftClock
          /\ \A q \in FtFiles : FtStamp(s) # 0 /\ ftDisk[q].ver = FtStamp(s) =>
               q = p \/ ftDisk[q].text \in ftUnseen[p]
      BY <1>1 DEF FtInv, FtCallInv, FtStamps
    <3>3. \A q \in FtFiles : FtStamp(s) # 0 /\ ftDisk[q].ver = FtStamp(s) =>
            ftDisk[q].text \in ftKnown'[p] \cup ftUnseen[p]
      BY <3>2, <2>3
    <3>4. FtAllowed(FtFile(s))' = ftKnown'[p] \cup ftUnseen[p]
      BY <3>1, <1>1 DEF FtAllowed
    <3>5. ftJob'[s].step = "recording"
      BY <2>7, <2>8
    <3>6. UNCHANGED <<ftDisk, ftClock>>
      BY <1>1
    <3> QED
      BY ONLY <3>1, <3>2, <3>3, <3>4, <3>5, <3>6 DEF FtStamps
  <2> QED
    BY <2>5, <2>7, <2>9, <2>10, <2>11, <1>1, FtStepKeeps DEF FtCallInv
<1> QED
  BY <1>3, <1>4

(* A path is stamped with a version whose text is known.                   *)
LEMMA FtRecords ==
  ASSUME FtInv, NEW p \in FtFiles, NEW v \in Nat, v =< ftClock, FtDiskInv',
         \A q \in FtFiles :
           v # 0 /\ ftDisk[q].ver = v => ftDisk[q].text \in ftKnown'[p] \cup ftUnseen'[p],
         ftGuard' = [ftGuard EXCEPT ![p] = IF v = 0 THEN @ ELSE v],
         UNCHANGED <<ftDisk, ftClock>>, FtLearnt, FtBooks'
  PROVE  FtGuardInv'
<1>1. ftGuard \in [FtFiles -> Nat]
  BY DEF FtInv, FtGuardInv
<1>2. \A o \in FtFiles : o # p => ftGuard'[o] = ftGuard[o]
  BY <1>1
<1>3. ftGuard'[p] = IF v = 0 THEN ftGuard[p] ELSE v
  BY <1>1
<1>4. ftGuard' \in [FtFiles -> Nat]
  BY <1>1
<1>5. \A o \in FtFiles : ftGuard'[o] =< ftClock
  BY <1>2, <1>3 DEF FtInv, FtGuardInv
<1>6. \A o, q \in FtFiles :
       ftGuard'[o] # 0 /\ ftDisk[q].ver = ftGuard'[o] => ftDisk[q].text \in FtAllowed(o)'
  <2>1. ASSUME NEW o \in FtFiles, NEW q \in FtFiles, ftGuard'[o] # 0, ftDisk[q].ver = ftGuard'[o]
        PROVE  ftDisk[q].text \in FtAllowed(o)'
    <3>1. CASE ftGuard'[o] = ftGuard[o]
      <4>1. ftDisk[q].text \in FtAllowed(o)
        BY <2>1, <3>1 DEF FtInv, FtGuardInv
      <4> QED
        BY <4>1, FtAllowedMore
    <3>2. CASE o = p /\ ftGuard'[o] = v
      BY <3>2, <2>1, FtAllowedIs
    <3> QED
      BY <3>1, <3>2, <1>2, <1>3
  <2> QED
    BY <2>1
<1> QED
  BY <1>1, <1>4, <1>5, <1>6 DEF FtGuardInv

LEMMA FtRecordInv ==
  ASSUME FtInv, NEW s \in FtSlots, FtRecord(s), FtTells(s)
  PROVE  FtInv'
<1>1. /\ ftJob[s].step = "recording" /\ FtRunning(s) /\ FtEnds(s, "ok")
      /\ ftGuard' = [ftGuard EXCEPT ![FtFile(s)] = IF FtStamp(s) = 0 THEN @ ELSE FtStamp(s)]
      /\ UNCHANGED <<ftDisk, ftClock, ftKnown, ftUnseen>>
  BY DEF FtRecord, FtRunning
<1>2. FtFile(s) \in FtFiles /\ ftJob[s].saw \in [FtFiles -> FtVersions]
  BY <1>1, FtPaths
<1>3. FtStamp(s) \in Nat
  BY <1>2 DEF FtStamp, FtVersions
<1>4. /\ FtStamp(s) =< ftClock
      /\ \A q \in FtFiles : FtStamp(s) # 0 /\ ftDisk[q].ver = FtStamp(s)
                              => ftDisk[q].text \in FtAllowed(FtFile(s))
  BY <1>1 DEF FtInv, FtCallInv, FtStamps
<1>5. FtAround(s, {})
  BY <1>1, FtIdleAround
<1>6. FtDiskInv' /\ FtLearnt /\ FtBooks'
  <2>1. FtDiskInv' /\ FtLearnt
    BY <1>5 DEF FtAround, FtOrigins
  <2> QED
    BY <2>1, <1>1, FtOverEntry
<1>7. FtAllowed(FtFile(s)) = ftKnown'[FtFile(s)] \cup ftUnseen'[FtFile(s)]
  BY <1>1 DEF FtAllowed
<1>8. FtGuardInv'
  BY <1>1, <1>2, <1>3, <1>4, <1>6, <1>7, FtRecords
<1> QED
  BY <1>1, <1>5, <1>8, FtOver

(* write_file.                                                             *)
LEMMA FtCheckInv ==
  ASSUME FtInv, NEW s \in FtSlots, FtCheck(s), FtTells(s)
  PROVE  FtInv'
<1> DEFINE p == FtFile(s)
           j == [ftJob[s] EXCEPT !.step = "writing", !.saw[p] = ftDisk[p]]
<1>1. /\ ftJob[s].step = "begun" /\ ftJob[s].op = "write_file" /\ FtRunning(s)
      /\ UNCHANGED <<ftDisk, ftGuard, ftClock, ftKnown, ftUnseen>>
  BY DEF FtCheck, FtRunning
<1>2. /\ ftJob[s] \in FtCallSet /\ p \in FtFiles /\ 1 \in DOMAIN ftJob[s].on
      /\ ftJob[s].saw \in [FtFiles -> FtVersions]
  BY <1>1, FtPaths
<1>3. FtAround(s, {})
  BY <1>1, FtIdleAround
<1>4. CASE ~FtMayOverwrite(p)
  <2>1. FtEnds(s, "failed")
    BY <1>4 DEF FtCheck
  <2> QED
    BY <2>1, <1>1, <1>3, FtOver
<1>5. CASE FtMayOverwrite(p)
  <2>1. ftJob' = [ftJob EXCEPT ![s] = j]
    BY <1>5 DEF FtCheck
  <2>2. ftDisk[p] \in FtVersions
    BY <1>2 DEF FtInv, FtDiskInv
  <2>3. /\ j \in FtCallSet /\ j.step = "writing" /\ j.op = "write_file" /\ j.on = ftJob[s].on
        /\ j.spelt = ftJob[s].spelt
        /\ j.saw[p] = ftDisk[p] /\ j.at = ftJob[s].at
    BY <1>1, <1>2, <2>2 DEF FtCallSet, FtSteps
  <2> HIDE DEF j
  <2>4. ftJob'[s] = j
    BY <2>1, <2>3, FtEntry
  <2>5. FtFile(s)' = p
    BY <2>3, <2>4 DEF FtFile
  <2>6. FtCallOK(s)'
    BY <1>1, <2>3, <2>4 DEF FtCallOK, FtRunning, FtInv, FtCallInv
  <2>7. FtSees(s)' /\ FtWrote(s)'
    BY <1>1, <2>3, <2>4, <2>5 DEF FtSees, FtWrote
  <2>8. ftDisk[p].text \in {0} \cup FtAllowed(p)
    <3>1. CASE ftDisk[p] = FtAbsent
      BY <3>1 DEF FtAbsent
    <3>2. CASE ftDisk[p] # FtAbsent
      <4>1. ftDisk[p].ver # 0 /\ ftGuard[p] = ftDisk[p].ver
        BY <3>2, <1>2, <1>5 DEF FtMayOverwrite, FtInv, FtDiskInv
      <4> QED
        BY <4>1, <1>2 DEF FtInv, FtGuardInv
    <3> QED
      BY <3>1, <3>2
  <2>9. FtStamps(s)'
    <3>1. FtAllowed(FtFile(s))' = FtAllowed(p)
      BY <2>5, <1>1 DEF FtAllowed
    <3> QED
      BY <3>1, <2>8, <1>1, <2>3, <2>4, <2>5 DEF FtStamps
  <2> QED
    BY <1>1, <1>3, <2>1, <2>3, <2>6, <2>7, <2>9, FtStepKeeps DEF FtCallInv
<1> QED
  BY <1>4, <1>5

(* The text of a new version.                                              *)
LEMMA FtNewText ==
  ASSUME FtInv
  PROVE  ftClock + 1 \in Nat
  BY DEF FtInv, FtDiskInv

LEMMA FtWriteInv ==
  ASSUME FtInv, NEW s \in FtSlots, FtWrite(s), FtTells(s)
  PROVE  FtInv'
<1> DEFINE p == FtFile(s)
<1>1. /\ ftJob[s].step = "writing" /\ FtRunning(s) /\ FtTo(s, "restamping")
      /\ FtPuts(p, ftClock + 1) /\ FtLearns(p, ftClock + 1) /\ UNCHANGED <<ftGuard, ftUnseen>>
  BY DEF FtWrite, FtRunning
<1>2. ftJob[s].op = "write_file" /\ ftJob[s].at = 0 /\ Len(ftJob[s].on) = 1
  BY <1>1 DEF FtInv, FtCallInv, FtCallOK, FtOps
<1>3. /\ p \in FtFiles /\ p \in FtHeld(s) /\ DOMAIN ftJob[s].on = 1 .. Len(ftJob[s].on)
  BY <1>1, <1>2, FtPaths DEF FtOps
<1>4. ftClock + 1 \in Nat
  BY FtNewText
<1>5. FtAround(s, {})
  BY <1>1, <1>3, <1>4, FtPutsAround
<1>6. ftDisk'[p].text = ftClock + 1
  BY <1>1, <1>3, <1>4, FtPutsOrigins DEF FtInv
<1>7. ftClock + 1 \in ftKnown'[p]
  BY <1>1, <1>3 DEF FtLearns, FtInv, FtGuardInv, FtBooks
<1>8. "restamping" \in FtSteps
  BY DEF FtSteps
<1>9. PICK j \in FtCallSet :
         /\ ftJob' = [ftJob EXCEPT ![s] = j] /\ j.step = "restamping" /\ j.op = ftJob[s].op
         /\ j.on = ftJob[s].on /\ j.spelt = ftJob[s].spelt /\ j.at = ftJob[s].at
  BY <1>1, <1>8, FtToIs
<1>10. ftJob'[s] = j
  BY <1>9, FtEntry
<1>11. FtCallOK(s)'
  BY <1>1, <1>2, <1>9, <1>10 DEF FtCallOK, FtRunning, FtInv, FtCallInv
<1>12. FtSees(s)' /\ FtStamps(s)'
  BY <1>9, <1>10 DEF FtSees, FtStamps
<1>13. FtWrote(s)'
  <2>1. \A i \in DOMAIN ftJob'[s].on : ftJob'[s].on[i] = p
    BY <1>2, <1>3, <1>9, <1>10 DEF FtFile
  <2> QED
    BY <2>1, <1>6, <1>7 DEF FtWrote
<1> QED
  BY <1>1, <1>5, <1>9, <1>11, <1>12, <1>13, FtStepKeeps DEF FtCallInv

LEMMA FtWriteFailsInv ==
  ASSUME FtInv, NEW s \in FtSlots, FtWriteFails(s), FtTells(s)
  PROVE  FtInv'
<1>1. /\ ftJob[s].step = "writing" /\ FtRunning(s) /\ FtEnds(s, "failed")
      /\ UNCHANGED <<ftDisk, ftClock>> \/ FtPuts(FtFile(s), ftClock + 1)
      /\ UNCHANGED ftGuard /\ UNCHANGED ftKnown /\ UNCHANGED ftUnseen
  BY DEF FtWriteFails, FtRunning
<1>2. ftJob[s].op = "write_file"
  BY <1>1 DEF FtInv, FtCallInv, FtCallOK
<1>3. FtFile(s) \in FtFiles /\ FtFile(s) \in FtHeld(s)
  BY <1>1, <1>2, FtPaths DEF FtOps
<1>4. FtAround(s, {})
  <2>1. CASE UNCHANGED <<ftDisk, ftClock>>
    BY <2>1, <1>1, FtIdleAround
  <2>2. CASE FtPuts(FtFile(s), ftClock + 1)
    BY <2>2, <1>1, <1>3, FtPutsAround, FtNewText
  <2> QED
    BY <2>1, <2>2, <1>1
<1> QED
  BY <1>1, <1>4, FtOver

(* edit_file: what it reads, and whether it goes on.                       *)
LEMMA FtEditReadInv ==
  ASSUME FtInv, NEW s \in FtSlots, NEW p \in FtFiles, FtEditRead(s, p), FtTells(s)
  PROVE  FtInv'
<1> DEFINE j == [ftJob[s] EXCEPT !.saw[p] = ftDisk[p]]
<1>1. /\ ftJob[s].step = "begun" /\ ftJob[s].op = "edit_file" /\ FtRunning(s)
      /\ UNCHANGED <<ftDisk, ftGuard, ftClock, ftKnown, ftUnseen>>
      /\ IF ftDisk[p] = FtAbsent THEN FtEnds(s, "failed")
         ELSE ftJob' = [ftJob EXCEPT ![s].saw[p] = ftDisk[p]]
  BY DEF FtEditRead, FtRunning
<1>2. /\ ftJob[s] \in FtCallSet /\ ftJob[s].saw \in [FtFiles -> FtVersions]
      /\ \A i \in DOMAIN ftJob[s].on : ftJob[s].on[i] \in FtFiles
  BY FtPaths
<1>3. FtAround(s, {})
  BY <1>1, FtIdleAround
<1>4. CASE ftDisk[p] = FtAbsent
  BY <1>1, <1>3, <1>4, FtOver
<1>5. CASE ftDisk[p] # FtAbsent
  <2>1. ftJob' = [ftJob EXCEPT ![s] = j]
    BY <1>1, <1>5
  <2>2. ftDisk[p] \in FtVersions
    BY DEF FtInv, FtDiskInv
  <2>3. /\ j \in FtCallSet /\ j.step = "begun" /\ j.op = "edit_file" /\ j.on = ftJob[s].on
        /\ j.spelt = ftJob[s].spelt
        /\ j.saw = [ftJob[s].saw EXCEPT ![p] = ftDisk[p]] /\ j.at = ftJob[s].at
    BY <1>1, <1>2, <2>2 DEF FtCallSet
  <2> HIDE DEF j
  <2>4. /\ ftJob'[s] = j
        /\ FtRunning(s)' => FtStirred(s)' = FtStirred(s)
    BY <2>1, <2>3, FtEntry
  <2>5. FtCallOK(s)' /\ FtRunning(s)'
    BY <1>1, <2>3, <2>4 DEF FtCallOK, FtRunning, FtInv, FtCallInv
  <2>6. FtWrote(s)' /\ FtStamps(s)'
    BY <2>3, <2>4 DEF FtWrote, FtStamps
  <2>7. FtSees(s)'
    <3>1. FtOn(s)' = FtOn(s) /\ \A q \in FtOn(s) : q \in FtFiles
      BY <2>3, <2>4, <1>2 DEF FtOn
    <3>2. \A q \in FtFiles : j.saw[q] = IF q = p THEN ftDisk[p] ELSE ftJob[s].saw[q]
      BY <2>3, <1>2
    <3>3. \A q \in FtOn(s) \ FtStirred(s) : ftJob[s].saw[q] # FtAbsent => ftDisk[q] = ftJob[s].saw[q]
      BY <1>1 DEF FtInv, FtCallInv, FtSees
    <3>4. \A q \in FtOn(s) \ FtStirred(s) : j.saw[q] # FtAbsent => ftDisk[q] = j.saw[q]
      BY <3>1, <3>2, <3>3
    <3> QED
      BY <3>1, <3>4, <2>3, <2>4, <2>5, <1>1 DEF FtSees
  <2> QED
    BY <1>1, <1>3, <2>1, <2>3, <2>5, <2>6, <2>7, FtStepKeeps DEF FtCallInv
<1> QED
  BY <1>4, <1>5

LEMMA FtEditMatchInv ==
  ASSUME FtInv, NEW s \in FtSlots, FtEditMatch(s), FtTells(s)
  PROVE  FtInv'
<1>1. /\ ftJob[s].step = "begun" /\ ftJob[s].op = "edit_file" /\ FtRunning(s)
      /\ \A p \in FtOn(s) : ftJob[s].saw[p] # FtAbsent
      /\ FtTo(s, "committing") \/ FtEnds(s, "failed")
      /\ UNCHANGED <<ftDisk, ftGuard, ftClock, ftKnown, ftUnseen>>
  BY DEF FtEditMatch, FtRunning
<1>2. FtAround(s, {})
  BY <1>1, FtIdleAround
<1>3. CASE FtEnds(s, "failed")
  BY <1>1, <1>2, <1>3, FtOver
<1>4. CASE FtTo(s, "committing")
  <2>1. "committing" \in FtSteps
    BY DEF FtSteps
  <2>2. PICK j \in FtCallSet :
           /\ ftJob' = [ftJob EXCEPT ![s] = j] /\ j.step = "committing" /\ j.op = ftJob[s].op
           /\ j.on = ftJob[s].on
           /\ j.spelt = ftJob[s].spelt /\ j.at = ftJob[s].at /\ j.saw = ftJob[s].saw
    BY <1>4, <2>1, FtToIs
  <2>3. /\ ftJob'[s] = j
        /\ FtRunning(s)' => FtStirred(s)' = FtStirred(s)
    BY <2>2, FtEntry
  <2>4. FtRunning(s)'
    BY <2>2, <2>3 DEF FtRunning
  <2>5. ftJob[s].at = 0 /\ Len(ftJob[s].on) \in Nat /\ DOMAIN ftJob[s].on = 1 .. Len(ftJob[s].on)
    BY <1>1, FtPaths DEF FtInv, FtCallInv, FtCallOK
  <2>6. FtCallOK(s)'
    BY <1>1, <2>2, <2>3, <2>5 DEF FtCallOK, FtRunning, FtInv, FtCallInv
  <2>7. FtSees(s)'
    <3>1. \A i \in DOMAIN ftJob[s].on :
            ftJob[s].on[i] \notin FtStirred(s) => ftDisk[ftJob[s].on[i]] = ftJob[s].saw[ftJob[s].on[i]]
      BY <1>1 DEF FtInv, FtCallInv, FtSees, FtOn
    <3> QED
      BY <3>1, <1>1, <2>2, <2>3, <2>4 DEF FtSees
  <2>8. FtWrote(s)' /\ FtStamps(s)'
    BY <2>2, <2>3, <2>5 DEF FtWrote, FtStamps
  <2> QED
    BY <1>1, <1>2, <2>2, <2>6, <2>7, <2>8, FtStepKeeps DEF FtCallInv
<1> QED
  BY <1>1, <1>3, <1>4

(* What a call that edits knows of its paths.                              *)
LEMMA FtEditing ==
  ASSUME FtInv, NEW s \in FtSlots, ftJob[s].step \in {"committing", "rollback", "restamping"}
  PROVE  /\ FtRunning(s) /\ ftJob[s] \in FtCallSet /\ Len(ftJob[s].on) \in Nat
         /\ DOMAIN ftJob[s].on = 1 .. Len(ftJob[s].on) /\ ftJob[s].at \in Nat
         /\ \A i \in DOMAIN ftJob[s].on : ftJob[s].on[i] \in FtFiles /\ ftJob[s].on[i] \in FtHeld(s)
         /\ \A i, j \in DOMAIN ftJob[s].on : ftJob[s].on[i] = ftJob[s].on[j] => i = j
         /\ ftJob[s].step # "rollback" => ftJob[s].at + 1 \in DOMAIN ftJob[s].on
         /\ ftJob[s].step = "rollback" => ftJob[s].at \in DOMAIN ftJob[s].on
         /\ FtCallOK(s) /\ FtSees(s) /\ FtWrote(s)
<1>1. FtRunning(s)
  BY DEF FtRunning
<1>2. FtCallOK(s) /\ FtSees(s) /\ FtWrote(s)
  BY DEF FtInv, FtCallInv
<1>3. ftJob[s].op \in {"write_file", "edit_file"}
  BY <1>2 DEF FtCallOK
<1>4. /\ ftJob[s] \in FtCallSet /\ Len(ftJob[s].on) \in Nat
      /\ DOMAIN ftJob[s].on = 1 .. Len(ftJob[s].on) /\ ftJob[s].at \in Nat
      /\ \A i \in DOMAIN ftJob[s].on : ftJob[s].on[i] \in FtFiles
      /\ FtHeld(s) = FtOn(s)
  BY <1>1, <1>3, FtPaths DEF FtOps
<1>5. \A i \in DOMAIN ftJob[s].on : ftJob[s].on[i] \in FtHeld(s)
  BY <1>4 DEF FtOn
<1>6. ftJob[s].step # "rollback" => ftJob[s].at + 1 \in DOMAIN ftJob[s].on
  BY <1>2, <1>4 DEF FtCallOK
<1> QED
  BY <1>1, <1>2, <1>4, <1>5, <1>6 DEF FtCallOK

LEMMA FtCommitInv ==
  ASSUME FtInv, NEW s \in FtSlots, FtCommit(s), FtTells(s)
  PROVE  FtInv'
<1> DEFINE i == ftJob[s].at + 1
           p == ftJob[s].on[i]
           done == [ftJob[s] EXCEPT !.step = "restamping", !.at = 0]
           more == [ftJob[s] EXCEPT !.at = i]
           last == i = Len(ftJob[s].on)
           j == IF last THEN done ELSE more
<1>1. /\ ftJob[s].step = "committing" /\ FtPuts(p, ftClock + 1) /\ FtLearns(p, ftClock + 1)
      /\ UNCHANGED ftGuard /\ UNCHANGED ftUnseen
      /\ ftJob' = IF last THEN [ftJob EXCEPT ![s].step = "restamping", ![s].at = 0]
                  ELSE [ftJob EXCEPT ![s].at = i]
  BY DEF FtCommit
<1>2. /\ FtRunning(s) /\ ftJob[s] \in FtCallSet /\ Len(ftJob[s].on) \in Nat
      /\ DOMAIN ftJob[s].on = 1 .. Len(ftJob[s].on) /\ ftJob[s].at \in Nat
      /\ \A k \in DOMAIN ftJob[s].on : ftJob[s].on[k] \in FtFiles /\ ftJob[s].on[k] \in FtHeld(s)
      /\ \A k, l \in DOMAIN ftJob[s].on : ftJob[s].on[k] = ftJob[s].on[l] => k = l
      /\ i \in DOMAIN ftJob[s].on /\ FtCallOK(s) /\ FtSees(s) /\ FtWrote(s)
  BY <1>1, FtEditing
<1>3. p \in FtFiles /\ p \in FtHeld(s) /\ i \in Nat /\ ftClock + 1 \in Nat
  BY <1>2, FtNewText
<1>4. FtAround(s, {})
  BY <1>1, <1>2, <1>3, FtPutsAround
<1>5. ftDisk'[p].text = ftClock + 1 /\ \A q \in FtFiles : q # p => ftDisk'[q] = ftDisk[q]
  BY <1>1, <1>3, FtPutsOrigins DEF FtInv
<1>6. ftClock + 1 \in ftKnown'[p] /\ \A q \in FtFiles : ftKnown[q] \subseteq ftKnown'[q]
  BY <1>1, <1>3 DEF FtLearns, FtInv, FtGuardInv, FtBooks
<1>7. ftJob' = [ftJob EXCEPT ![s] = j]
  BY <1>1
<1>8. /\ done \in FtCallSet /\ done.step = "restamping" /\ done.at = 0 /\ done.op = ftJob[s].op
      /\ done.on = ftJob[s].on /\ done.spelt = ftJob[s].spelt
  BY <1>2 DEF FtCallSet, FtSteps
<1>9. /\ more \in FtCallSet /\ more.step = "committing" /\ more.at = i /\ more.op = ftJob[s].op
      /\ more.on = ftJob[s].on /\ more.spelt = ftJob[s].spelt /\ more.saw = ftJob[s].saw
  BY <1>1, <1>2, <1>3 DEF FtCallSet
<1> HIDE DEF done, more, i, last
<1>10. /\ j \in FtCallSet /\ j.op = ftJob[s].op /\ j.on = ftJob[s].on /\ j.spelt = ftJob[s].spelt
       /\ (last /\ j.step = "restamping" /\ j.at = 0)
          \/ (~last /\ j.step = "committing" /\ j.at = i /\ j.saw = ftJob[s].saw)
  BY <1>8, <1>9
<1> HIDE DEF j
<1>11. /\ ftJob'[s] = j
       /\ FtRunning(s)' => FtStirred(s)' = FtStirred(s)
  BY <1>7, <1>10, FtEntry
<1>12. FtRunning(s)'
  BY <1>10, <1>11 DEF FtRunning
<1>13. FtCallOK(s)'
  <2>1. j.step = "committing" => j.at < Len(j.on)
    BY <1>10, <1>2 DEF i, last
  <2>2. j.step = "restamping" => j.at < Len(j.on)
    BY <1>10, <1>2
  <2>3. /\ ftJob[s].op = "edit_file" /\ j.on = ftJob[s].on /\ j.op = ftJob[s].op /\ Len(ftJob[s].on) >= 1
    BY <1>1, <1>2, <1>10 DEF FtCallOK
  <2> QED
    BY <2>1, <2>2, <2>3, <1>10, <1>11, <1>2 DEF FtCallOK, FtOps
<1>14. FtSees(s)'
  <2>1. ASSUME ~last, NEW k \in DOMAIN ftJob[s].on, k > i, ftJob[s].on[k] \notin FtStirred(s)
        PROVE  ftDisk'[ftJob[s].on[k]] = ftJob[s].saw[ftJob[s].on[k]]
    <3>1. k > ftJob[s].at /\ k # i /\ k \in Nat
      BY <2>1, <1>2 DEF i
    <3>2. ftJob[s].on[k] # p
      BY <3>1, <2>1, <1>2
    <3>3. ftDisk[ftJob[s].on[k]] = ftJob[s].saw[ftJob[s].on[k]]
      BY <3>1, <2>1, <1>1, <1>2 DEF FtSees
    <3> QED
      BY <3>2, <3>3, <1>2, <1>5
  <2> QED
    BY <2>1, <1>10, <1>11, <1>12 DEF FtSees
<1>15. FtWrote(s)'
  <2>1. ASSUME NEW k \in DOMAIN ftJob[s].on, k <= i, ftJob[s].on[k] \notin FtStirred(s)
        PROVE  ftDisk'[ftJob[s].on[k]].text \in ftKnown'[ftJob[s].on[k]]
    <3>1. CASE k = i
      BY <3>1, <1>5, <1>6
    <3>2. CASE k # i
      <4>1. k <= ftJob[s].at /\ ftJob[s].on[k] # p
        BY <3>2, <2>1, <1>2 DEF i
      <4>2. ftDisk[ftJob[s].on[k]].text \in ftKnown[ftJob[s].on[k]]
        BY <4>1, <2>1, <1>1, <1>2 DEF FtWrote
      <4> QED
        BY <4>1, <4>2, <1>2, <1>5, <1>6
    <3> QED
      BY <3>1, <3>2
  <2>2. last => \A k \in DOMAIN ftJob[s].on : k <= i
    BY <1>2 DEF last
  <2> QED
    BY <2>1, <2>2, <1>10, <1>11, <1>12 DEF FtWrote
<1>16. FtStamps(s)'
  BY <1>10, <1>11 DEF FtStamps
<1> QED
  BY <1>1, <1>4, <1>7, <1>10, <1>13, <1>14, <1>15, <1>16, FtStepKeeps DEF FtCallInv

(* A batch between two of its files.                                       *)
LEMMA FtGoesOn ==
  ASSUME NEW s \in FtSlots, FtCallOK(s), FtRunning(s),
         ftJob'[s].op = ftJob[s].op, ftJob'[s].on = ftJob[s].on,
         \/ /\ ftJob'[s].step = "rollback" /\ ftJob[s].op = "edit_file"
            /\ ftJob'[s].at \in DOMAIN ftJob[s].on
         \/ /\ ftJob'[s].step = "restamping" /\ ftJob[s].op \in {"write_file", "edit_file"}
            /\ ftJob'[s].at < Len(ftJob[s].on)
  PROVE  FtCallOK(s)'
<1> DEFINE on == ftJob[s].on
<1>1. /\ ftJob[s].op \in FtOps /\ Len(on) >= 1
      /\ \A k, l \in DOMAIN on : on[k] = on[l] => k = l
      /\ ftJob[s].op \in {"copy_file", "rename_file"} => Len(on) = 2
      /\ ftJob[s].op \notin {"copy_file", "rename_file", "edit_file"} => Len(on) = 1
  BY DEF FtCallOK
<1>2. /\ ftJob'[s].op \in FtOps /\ Len(ftJob'[s].on) >= 1
      /\ \A k, l \in DOMAIN ftJob'[s].on : ftJob'[s].on[k] = ftJob'[s].on[l] => k = l
      /\ ftJob'[s].op \in {"copy_file", "rename_file"} => Len(ftJob'[s].on) = 2
      /\ ftJob'[s].op \notin {"copy_file", "rename_file", "edit_file"} => Len(ftJob'[s].on) = 1
  BY <1>1
<1>3. CASE /\ ftJob'[s].step = "rollback" /\ ftJob'[s].op = "edit_file"
           /\ ftJob'[s].at \in DOMAIN ftJob'[s].on
  BY ONLY <1>2, <1>3 DEF FtCallOK
<1>4. CASE /\ ftJob'[s].step = "restamping" /\ ftJob'[s].op \in {"write_file", "edit_file"}
           /\ ftJob'[s].at < Len(ftJob'[s].on)
  BY ONLY <1>2, <1>4 DEF FtCallOK
<1> QED
  BY <1>3, <1>4

LEMMA FtCommitFailsInv ==
  ASSUME FtInv, NEW s \in FtSlots, FtCommitFails(s), FtTells(s)
  PROVE  FtInv' /\ ftJob'[s].step # "failed"
<1> DEFINE i == ftJob[s].at + 1
           p == ftJob[s].on[i]
           j == [ftJob[s] EXCEPT !.step = "rollback", !.at = i]
<1>1. /\ ftJob[s].step = "committing" /\ UNCHANGED ftGuard /\ UNCHANGED ftKnown /\ UNCHANGED ftUnseen
      /\ UNCHANGED <<ftDisk, ftClock>> \/ FtPuts(p, ftClock + 1)
  BY DEF FtCommitFails
<1>2. /\ FtRunning(s) /\ ftJob[s] \in FtCallSet /\ Len(ftJob[s].on) \in Nat
      /\ DOMAIN ftJob[s].on = 1 .. Len(ftJob[s].on) /\ ftJob[s].at \in Nat
      /\ \A k \in DOMAIN ftJob[s].on : ftJob[s].on[k] \in FtFiles /\ ftJob[s].on[k] \in FtHeld(s)
      /\ \A k, l \in DOMAIN ftJob[s].on : ftJob[s].on[k] = ftJob[s].on[l] => k = l
      /\ i \in DOMAIN ftJob[s].on /\ FtCallOK(s) /\ FtSees(s)
  BY <1>1, FtEditing
<1>3. p \in FtFiles /\ p \in FtHeld(s) /\ i \in Nat /\ i # 0 /\ ftClock + 1 \in Nat
  BY <1>2, FtNewText
<1>4. ftJob' = [ftJob EXCEPT ![s] = j]
  BY <1>3 DEF FtCommitFails, FtFirstBack
<1>5. FtAround(s, {}) /\ \A q \in FtFiles : q # p => ftDisk'[q] = ftDisk[q]
  <2>1. CASE UNCHANGED <<ftDisk, ftClock>>
    BY <2>1, <1>1, <1>2, FtIdleAround
  <2>2. CASE FtPuts(p, ftClock + 1)
    <3>1. FtAround(s, {})
      BY <2>2, <1>1, <1>2, <1>3, FtPutsAround
    <3>2. \A q \in FtFiles : q # p => ftDisk'[q] = ftDisk[q]
      BY <2>2, <1>3, FtPutsOrigins DEF FtInv
    <3> QED
      BY <3>1, <3>2
  <2> QED
    BY <2>1, <2>2, <1>1
<1>6. /\ j \in FtCallSet /\ j.step = "rollback" /\ j.at = i /\ j.op = ftJob[s].op
      /\ j.on = ftJob[s].on /\ j.spelt = ftJob[s].spelt /\ j.saw = ftJob[s].saw
  BY <1>1, <1>2, <1>3 DEF FtCallSet, FtSteps
<1> HIDE DEF j, i
<1>7. /\ ftJob'[s] = j
      /\ FtRunning(s)' => FtStirred(s)' = FtStirred(s)
  BY <1>4, <1>6, FtEntry
<1>8. FtRunning(s)'
  BY <1>6, <1>7 DEF FtRunning
<1>9. FtCallOK(s)'
  <2>1. ftJob[s].op = "edit_file" /\ FtCallOK(s) /\ FtRunning(s)
    BY <1>1, <1>2 DEF FtCallOK
  <2>2. /\ ftJob'[s].op = ftJob[s].op /\ ftJob'[s].on = ftJob[s].on
        /\ ftJob'[s].step = "rollback" /\ ftJob'[s].at \in DOMAIN ftJob[s].on
    BY <1>2, <1>6, <1>7
  <2> QED
    BY <2>1, <2>2, FtGoesOn
<1>10. FtSees(s)'
  <2>1. ASSUME NEW k \in DOMAIN ftJob[s].on, k > i, ftJob[s].on[k] \notin FtStirred(s)
        PROVE  ftDisk'[ftJob[s].on[k]].text = ftJob[s].saw[ftJob[s].on[k]].text
    <3>1. k > ftJob[s].at /\ k # i
      BY <2>1, <1>2 DEF i
    <3>2. ftJob[s].on[k] # p
      BY <3>1, <2>1, <1>2
    <3>3. ftDisk[ftJob[s].on[k]] = ftJob[s].saw[ftJob[s].on[k]]
      BY <3>1, <2>1, <1>1, <1>2 DEF FtSees
    <3> QED
      BY <3>2, <3>3, <1>2, <1>5
  <2> QED
    BY <2>1, <1>6, <1>7, <1>8 DEF FtSees
<1>11. FtWrote(s)' /\ FtStamps(s)'
  BY <1>6, <1>7 DEF FtWrote, FtStamps
<1> QED
  BY <1>1, <1>4, <1>5, <1>6, <1>7, <1>9, <1>10, <1>11, FtStepKeeps DEF FtCallInv

LEMMA FtRollbackInv ==
  ASSUME FtInv, NEW s \in FtSlots, FtRollback(s), FtTells(s)
  PROVE  /\ FtInv'
         /\ ftJob'[s].step = "failed" =>
              \A q \in FtOn(s) \ FtStirred(s) : ftDisk'[q].text = ftJob[s].saw[q].text
<1> DEFINE i == ftJob[s].at
           p == ftJob[s].on[i]
<1>1. ftJob[s].step = "rollback" /\ UNCHANGED ftGuard /\ UNCHANGED ftKnown /\ UNCHANGED ftUnseen
  BY DEF FtRollback
<1>2. /\ FtRunning(s) /\ ftJob[s] \in FtCallSet /\ Len(ftJob[s].on) \in Nat
      /\ DOMAIN ftJob[s].on = 1 .. Len(ftJob[s].on) /\ i \in Nat
      /\ \A k \in DOMAIN ftJob[s].on : ftJob[s].on[k] \in FtFiles /\ ftJob[s].on[k] \in FtHeld(s)
      /\ \A k, l \in DOMAIN ftJob[s].on : ftJob[s].on[k] = ftJob[s].on[l] => k = l
      /\ i \in DOMAIN ftJob[s].on /\ FtCallOK(s) /\ FtSees(s)
  BY <1>1, FtEditing
<1>3. p \in FtFiles /\ p \in FtHeld(s) /\ ftJob[s].saw \in [FtFiles -> FtVersions] /\ ftJob[s].bad \in BOOLEAN
  BY <1>2 DEF FtCallSet
<1>4. ftJob[s].saw[p].text \in Nat
  BY <1>3 DEF FtVersions
<1>5. PICK restored \in BOOLEAN :
        /\ IF restored THEN FtPuts(p, ftJob[s].saw[p].text) ELSE UNCHANGED <<ftDisk, ftClock>>
        /\ IF i = 1
           THEN FtEnds(s, IF restored /\ ~ftJob[s].bad THEN "failed" ELSE "idle")
           ELSE ftJob' = [ftJob EXCEPT ![s].at = @ - 1, ![s].bad = @ \/ ~restored]
  BY DEF FtRollback
<1>6. /\ FtAround(s, {})
      /\ \A q \in FtFiles : q # p => ftDisk'[q] = ftDisk[q]
      /\ restored => ftDisk'[p].text = ftJob[s].saw[p].text
  <2>1. CASE ~restored
    BY <2>1, <1>1, <1>2, <1>5, FtIdleAround
  <2>2. CASE restored
    <3>1. FtPuts(p, ftJob[s].saw[p].text)
      BY <2>2, <1>5
    <3>2. FtAround(s, {})
      BY <3>1, <1>1, <1>2, <1>3, <1>4, FtPutsAround
    <3>3. /\ \A q \in FtFiles : q # p => ftDisk'[q] = ftDisk[q]
          /\ ftDisk'[p].text = ftJob[s].saw[p].text
      BY <3>1, <1>3, <1>4, FtPutsOrigins DEF FtInv
    <3> QED
      BY <3>2, <3>3
  <2> QED
    BY <2>1, <2>2
(* The files from here on have their texts again.                          *)
<1>7. ASSUME restored, ~ftJob[s].bad, NEW k \in DOMAIN ftJob[s].on, k >= i,
             ftJob[s].on[k] \notin FtStirred(s)
      PROVE  ftDisk'[ftJob[s].on[k]].text = ftJob[s].saw[ftJob[s].on[k]].text
  <2>1. CASE k = i
    BY <2>1, <1>6, <1>7
  <2>2. CASE k # i
    <3>1. k > i /\ ftJob[s].on[k] # p
      BY <2>2, <1>2, <1>7
    <3>2. ftDisk[ftJob[s].on[k]].text = ftJob[s].saw[ftJob[s].on[k]].text
      BY <3>1, <1>1, <1>2, <1>7 DEF FtSees
    <3> QED
      BY <3>1, <3>2, <1>2, <1>6
  <2> QED
    BY <2>1, <2>2
<1>8. CASE i = 1
  <2> DEFINE outcome == IF restored /\ ~ftJob[s].bad THEN "failed" ELSE "idle"
  <2>1. FtEnds(s, outcome) /\ outcome \in {"idle", "ok", "failed"}
    BY <1>5, <1>8
  <2>2. FtInv'
    BY <2>1, <1>1, <1>6, FtOver
  <2>3. ftJob'[s].step = outcome
    BY <2>1 DEF FtEnds, FtInv, FtIdle
  <2>4. ASSUME outcome = "failed", NEW q \in FtOn(s) \ FtStirred(s)
        PROVE  ftDisk'[q].text = ftJob[s].saw[q].text
    <3>1. restored /\ ~ftJob[s].bad
      BY <2>4
    <3>2. PICK k \in DOMAIN ftJob[s].on : ftJob[s].on[k] = q
      BY DEF FtOn
    <3>3. k >= i
      BY <1>2, <1>8
    <3> QED
      BY <3>1, <3>2, <3>3, <1>7
  <2> QED
    BY <2>2, <2>3, <2>4
<1>9. CASE i # 1
  <2> DEFINE j == [ftJob[s] EXCEPT !.at = i - 1, !.bad = ftJob[s].bad \/ ~restored]
  <2>1. ftJob' = [ftJob EXCEPT ![s] = j]
    BY <1>5, <1>9
  <2>2. i - 1 \in Nat /\ i - 1 \in DOMAIN ftJob[s].on
    BY <1>2, <1>9
  <2>3. (ftJob[s].bad \/ ~restored) \in BOOLEAN
    OBVIOUS
  <2>4. /\ j \in FtCallSet /\ j.step = "rollback" /\ j.at = i - 1 /\ j.op = ftJob[s].op
        /\ j.on = ftJob[s].on
        /\ j.spelt = ftJob[s].spelt /\ j.saw = ftJob[s].saw /\ j.bad = (ftJob[s].bad \/ ~restored)
    BY <1>1, <1>2, <2>2, <2>3 DEF FtCallSet
  <2> HIDE DEF j
  <2>5. /\ ftJob'[s] = j
        /\ FtRunning(s)' => FtStirred(s)' = FtStirred(s)
    BY <2>1, <2>4, FtEntry
  <2>6. FtRunning(s)'
    BY <2>4, <2>5 DEF FtRunning
  <2>7. FtCallOK(s)'
    <3>1. ftJob[s].op = "edit_file" /\ FtCallOK(s) /\ FtRunning(s)
      BY <1>1, <1>2 DEF FtCallOK
    <3>2. /\ ftJob'[s].op = ftJob[s].op /\ ftJob'[s].on = ftJob[s].on
          /\ ftJob'[s].step = "rollback" /\ ftJob'[s].at \in DOMAIN ftJob[s].on
      BY <2>2, <2>4, <2>5
    <3> QED
      BY <3>1, <3>2, FtGoesOn
  <2>8. FtSees(s)'
    <3>1. ASSUME ~j.bad, NEW k \in DOMAIN ftJob[s].on, k > j.at, ftJob[s].on[k] \notin FtStirred(s)
          PROVE  ftDisk'[ftJob[s].on[k]].text = ftJob[s].saw[ftJob[s].on[k]].text
      <4>1. k >= i
        BY <3>1, <1>2, <2>4
      <4>2. restored /\ ~ftJob[s].bad
        BY <3>1, <2>4
      <4> QED
        BY <4>1, <4>2, <3>1, <1>7
    <3> QED
      BY <3>1, <2>4, <2>5, <2>6 DEF FtSees
  <2>9. FtWrote(s)' /\ FtStamps(s)'
    BY <2>4, <2>5 DEF FtWrote, FtStamps
  <2>10. FtInv'
    BY <1>1, <1>6, <2>1, <2>4, <2>7, <2>8, <2>9, FtStepKeeps DEF FtCallInv
  <2> QED
    BY <2>10, <2>4, <2>5
<1> QED
  BY <1>8, <1>9

LEMMA FtRestampInv ==
  ASSUME FtInv, NEW s \in FtSlots, FtRestamp(s), FtTells(s)
  PROVE  FtInv'
<1> DEFINE i == ftJob[s].at + 1
           p == ftJob[s].on[i]
           v == ftDisk[p].ver
           j == [ftJob[s] EXCEPT !.at = i]
<1>1. /\ ftJob[s].step = "restamping" /\ UNCHANGED <<ftDisk, ftClock, ftKnown>>
      /\ IF p \in FtStirred(s) THEN FtBlesses(p, ftDisk[p].text) ELSE UNCHANGED ftUnseen
      /\ ftGuard' = [ftGuard EXCEPT ![p] = IF ftDisk[p] = FtAbsent THEN @ ELSE ftDisk[p].ver]
      /\ IF i = Len(ftJob[s].on) THEN FtEnds(s, "ok") ELSE ftJob' = [ftJob EXCEPT ![s].at = i]
  BY DEF FtRestamp
<1>2. /\ FtRunning(s) /\ ftJob[s] \in FtCallSet /\ Len(ftJob[s].on) \in Nat
      /\ DOMAIN ftJob[s].on = 1 .. Len(ftJob[s].on) /\ ftJob[s].at \in Nat
      /\ \A k \in DOMAIN ftJob[s].on : ftJob[s].on[k] \in FtFiles /\ ftJob[s].on[k] \in FtHeld(s)
      /\ i \in DOMAIN ftJob[s].on /\ FtCallOK(s) /\ FtWrote(s)
  BY <1>1, FtEditing
<1>3. p \in FtFiles /\ i \in Nat /\ i > ftJob[s].at
  BY <1>2
<1>14. /\ FtLearnt
       /\ p \in FtStirred(s) => ftDisk[p].text \in ftUnseen'[p]
  <2>1. ftKnown \in [FtFiles -> SUBSET Nat] /\ ftUnseen \in [FtFiles -> SUBSET Nat]
    BY DEF FtInv, FtGuardInv, FtBooks
  <2>2. ftDisk[p].text \in Nat
    BY <1>3 DEF FtInv, FtDiskInv, FtVersions
  <2>3. CASE p \in FtStirred(s)
    <3>1. ftUnseen' = [ftUnseen EXCEPT ![p] = @ \cup {ftDisk[p].text}]
      BY <2>3, <1>1 DEF FtBlesses
    <3> QED
      BY <3>1, <2>1, <2>2, <1>1, <1>3 DEF FtLearnt
  <2>4. CASE p \notin FtStirred(s)
    BY <2>4, <2>1, <1>1 DEF FtLearnt
  <2> QED
    BY <2>3, <2>4
<1>4. FtAround(s, {})
  <2>1. FtOrigins({}) /\ ftDisk' = ftDisk
    BY <1>1, FtStillOrigins DEF FtInv
  <2> QED
    BY <2>1, <1>2, <1>14 DEF FtAround
<1>5. ftDisk[p].text \in ftKnown'[p] \cup ftUnseen'[p]
  <2>1. p \notin FtStirred(s) => ftDisk[p].text \in ftKnown[p]
    BY <1>1, <1>2, <1>3 DEF FtWrote
  <2> HIDE DEF p
  <2> QED
    BY <2>1, <1>1, <1>14
<1>6. v \in Nat /\ v =< ftClock /\ (v = 0 => ftDisk[p] = FtAbsent)
  BY <1>3 DEF FtInv, FtDiskInv, FtVersions
<1>7. FtAbsent.ver = 0
  BY DEF FtAbsent
<1>8. ftGuard' = [ftGuard EXCEPT ![p] = IF v = 0 THEN @ ELSE v]
  BY <1>1, <1>6, <1>7
<1>9. \A q \in FtFiles :
        v # 0 /\ ftDisk[q].ver = v => ftDisk[q].text \in ftKnown'[p] \cup ftUnseen'[p]
  BY <1>3, <1>5 DEF FtInv, FtDiskInv
<1>10. FtDiskInv' /\ FtBooks'
  <2>1. FtDiskInv'
    BY <1>4 DEF FtAround, FtOrigins
  <2>2. FtBooks'
    <3>1. CASE i = Len(ftJob[s].on)
      BY <3>1, <1>1, <1>14, FtOverEntry
    <3>2. CASE i # Len(ftJob[s].on)
      <4>1. ftJob' = [ftJob EXCEPT ![s] = j] /\ j \in FtCallSet
        BY <3>2, <1>1, <1>2, <1>3 DEF FtCallSet
      <4> HIDE DEF j
      <4> QED
        BY <4>1, <1>14, FtEntry DEF FtBooks, FtLearnt
    <3> QED
      BY <3>1, <3>2
  <2> QED
    BY <2>1, <2>2
<1> HIDE DEF v, p
<1>11. FtGuardInv'
  BY <1>1, <1>3, <1>6, <1>8, <1>9, <1>10, <1>14, FtRecords
<1>12. CASE i = Len(ftJob[s].on)
  BY <1>1, <1>4, <1>11, <1>12, FtOver
<1>13. CASE i # Len(ftJob[s].on)
  <2>1. ftJob' = [ftJob EXCEPT ![s] = j]
    BY <1>1, <1>13
  <2>2. /\ j \in FtCallSet /\ j.step = "restamping" /\ j.at = i /\ j.op = ftJob[s].op
        /\ j.on = ftJob[s].on /\ j.spelt = ftJob[s].spelt
    BY <1>1, <1>2, <1>3 DEF FtCallSet
  <2> HIDE DEF j, i
  <2>3. ftJob'[s] = j
    BY <2>1, <2>2, FtEntry
  <2>4. i < Len(ftJob[s].on)
    BY <1>2, <1>3, <1>13
  <2>5. FtCallOK(s)'
    <3>1. ftJob[s].op \in {"write_file", "edit_file"} /\ FtCallOK(s) /\ FtRunning(s)
      BY <1>1, <1>2 DEF FtCallOK
    <3>2. /\ ftJob'[s].op = ftJob[s].op /\ ftJob'[s].on = ftJob[s].on
          /\ ftJob'[s].step = "restamping" /\ ftJob'[s].at < Len(ftJob[s].on)
      BY <2>2, <2>3, <2>4
    <3> QED
      BY <3>1, <3>2, FtGoesOn
  <2>6. FtSees(s)' /\ FtStamps(s)'
    BY <2>2, <2>3 DEF FtSees, FtStamps
  <2>8. FtStirred(s)' = FtStirred(s)
    BY <2>1, <2>2, <2>3, FtEntry DEF FtRunning
  <2>7. FtWrote(s)'
    <3>1. ASSUME NEW k \in DOMAIN ftJob[s].on, k > i, ftJob[s].on[k] \notin FtStirred(s)
          PROVE  ftDisk[ftJob[s].on[k]].text \in ftKnown[ftJob[s].on[k]]
      <4>1. k > ftJob[s].at
        BY <3>1, <1>2, <1>3
      <4> QED
        BY <4>1, <3>1, <1>1, <1>2 DEF FtWrote
    <3> QED
      BY <3>1, <2>2, <2>3, <2>8, <1>1 DEF FtWrote
  <2> QED
    BY <1>4, <1>11, <2>1, <2>2, <2>5, <2>6, <2>7, FtStepKeeps DEF FtCallInv
<1> QED
  BY <1>12, <1>13

(* What a move away from under a read blesses.                             *)
LEMMA FtMovesBlessed ==
  ASSUME FtInv, NEW s \in FtSlots, FtRename(s), FtFile(s) \in FtFiles,
         NEW t \in FtSlots, ftJob[t].step = "reading", FtFile(t) = FtFile(s)
  PROVE  ftDisk[FtFile(s)].text \in ftUnseen'[FtFile(s)]
<1>1. FtBlesses(FtFile(s), ftDisk[FtFile(s)].text)
  BY DEF FtRename
<1>2. ftUnseen \in [FtFiles -> SUBSET Nat]
  BY DEF FtInv, FtGuardInv, FtBooks
<1> QED
  BY <1>1, <1>2 DEF FtBlesses

LEMMA FtMovesLearnt ==
  ASSUME FtInv, NEW s \in FtSlots, FtCopy(s) \/ FtRename(s) \/ FtDelete(s), FtFile(s) \in FtFiles
  PROVE  FtLearnt
<1> DEFINE p == FtFile(s)
<1>1. ftKnown \in [FtFiles -> SUBSET Nat] /\ ftUnseen \in [FtFiles -> SUBSET Nat]
  BY DEF FtInv, FtGuardInv, FtBooks
<1>2. ftKnown' = ftKnown
  BY DEF FtCopy, FtRename, FtDelete, FtAdmin
<1>3. UNCHANGED ftUnseen \/ FtBlesses(p, ftDisk[p].text)
  BY DEF FtCopy, FtRename, FtDelete
<1>4. ftDisk[p].text \in Nat
  BY DEF FtInv, FtDiskInv, FtVersions
<1> HIDE DEF p
<1>5. ftUnseen' \in [FtFiles -> SUBSET Nat] /\ \A q \in FtFiles : ftUnseen[q] \subseteq ftUnseen'[q]
  BY <1>1, <1>3, <1>4 DEF FtBlesses
<1> QED
  BY <1>1, <1>2, <1>5 DEF FtLearnt

(* copy_file, rename_file, delete_file.                                    *)
LEMMA FtAdminInv ==
  ASSUME FtInv, NEW s \in FtSlots, FtCopy(s) \/ FtRename(s) \/ FtDelete(s), FtTells(s)
  PROVE  FtInv'
<1> DEFINE p == FtFile(s)
           r == ftJob[s].on[2]
<1>1. /\ ftJob[s].step = "begun" /\ FtRunning(s) /\ UNCHANGED ftGuard /\ UNCHANGED ftKnown
      /\ ftJob[s].op \in {"copy_file", "rename_file", "delete_file"}
  BY DEF FtCopy, FtRename, FtDelete, FtAdmin, FtRunning
<1>2. /\ p \in FtFiles /\ 1 \in DOMAIN ftJob[s].on /\ DOMAIN ftJob[s].on = 1 .. Len(ftJob[s].on)
      /\ \A i \in DOMAIN ftJob[s].on : ftJob[s].on[i] \in FtFiles
      /\ ftJob[s].op # "copy_file" => FtHeld(s) = FtOn(s) /\ p \in FtHeld(s)
  BY <1>1, FtPaths DEF FtOps
<1>3. ftJob[s].op # "delete_file" => r \in FtFiles /\ r # p /\ r \in FtHeld(s)
  <2>1. SUFFICES ASSUME ftJob[s].op # "delete_file" PROVE r \in FtFiles /\ r # p /\ r \in FtHeld(s)
    OBVIOUS
  <2>2. /\ Len(ftJob[s].on) = 2
        /\ \A i, j \in DOMAIN ftJob[s].on : ftJob[s].on[i] = ftJob[s].on[j] => i = j
    BY <1>1, <2>1 DEF FtInv, FtCallInv, FtCallOK
  <2>3. 2 \in DOMAIN ftJob[s].on
    BY <2>2, <1>2
  <2>4. r \in FtOn(s)
    BY <2>3 DEF FtOn
  <2>5. r \in FtHeld(s)
    BY <2>4, <1>1, <2>1 DEF FtHeld
  <2>6. r # p
    BY <2>2, <2>3, <1>2 DEF FtFile
  <2> QED
    BY <2>3, <2>5, <2>6, <1>2
<1>4. CASE ftDisk[p] = FtAbsent
  <2>1. FtEnds(s, "failed") /\ UNCHANGED <<ftDisk, ftClock>>
    BY <1>4 DEF FtCopy, FtRename, FtDelete, FtAdmin
  <2>2. FtLearnt
    BY <1>2, <1>4, FtMovesLearnt
  <2>3. FtOrigins({}) /\ ftDisk' = ftDisk
    BY <2>1, FtStillOrigins DEF FtInv
  <2>4. FtAround(s, {})
    BY <2>2, <2>3, <1>1 DEF FtAround
  <2> QED
    BY <2>1, <2>4, <1>1, FtOver
<1>5. CASE ftDisk[p] # FtAbsent
  <2>1. FtEnds(s, "ok")
    BY <1>5 DEF FtCopy, FtRename, FtDelete, FtAdmin
  <2>2. CASE FtCopy(s)
    <3>1. ftJob[s].op = "copy_file" /\ FtPuts(r, ftDisk[p].text)
      BY <1>5, <2>2 DEF FtCopy, FtAdmin, FtPuts
    <3>2. ftDisk[p].text \in Nat
      BY <1>2 DEF FtInv, FtDiskInv, FtVersions
    <3>3. UNCHANGED ftUnseen
      BY <2>2 DEF FtCopy
    <3>4. FtAround(s, {})
      BY <3>1, <3>2, <3>3, <1>1, <1>3, FtPutsAround
    <3> QED
      BY <3>4, <2>1, <1>1, FtOver
  <2>3. CASE FtRename(s)
    <3>1. /\ ftJob[s].op = "rename_file" /\ FtMoved(p, r)
      BY <1>5, <2>3 DEF FtRename, FtAdmin, FtMoved
    <3>2. /\ FtOrigins({<<p, r>>})
          /\ \A q \in FtFiles : q # p /\ q # r => ftDisk'[q] = ftDisk[q]
      BY <3>1, <1>2, <1>3, FtMovedOrigins DEF FtInv
    <3>3. FtAround(s, {<<p, r>>})
      <4>1. \A q \in FtFiles \ FtHeld(s) : ftDisk'[q] = ftDisk[q]
        BY <3>1, <3>2, <1>2, <1>3
      <4>2. \A q, o \in FtFiles : \A t \in FtSlots :
              <<q, o>> \in {<<p, r>>} /\ ftJob[t].step = "reading" /\ FtFile(t) = q
                => ftDisk[q].text \in ftUnseen'[q]
        BY <2>3, <1>2, FtMovesBlessed
      <4>3. FtLearnt
        BY <1>2, FtMovesLearnt
      <4> QED
        BY <4>1, <4>2, <4>3, <3>2, <1>1 DEF FtAround
    <3> QED
      BY <3>3, <2>1, <1>1, FtOver
  <2>4. CASE FtDelete(s)
    <3>1. ftJob[s].op = "delete_file" /\ FtGone(p)
      BY <1>5, <2>4 DEF FtDelete, FtAdmin, FtGone
    <3>2. FtOrigins({}) /\ \A q \in FtFiles : q # p => ftDisk'[q] = ftDisk[q]
      BY <3>1, <1>2, FtGoneOrigins DEF FtInv
    <3>3. FtAround(s, {})
      <4>1. \A q \in FtFiles \ FtHeld(s) : ftDisk'[q] = ftDisk[q]
        BY <3>1, <3>2, <1>2
      <4>2. FtLearnt
        BY <1>2, FtMovesLearnt
      <4> QED
        BY <4>1, <4>2, <3>2, <1>1 DEF FtAround
    <3> QED
      BY <3>3, <2>1, <1>1, FtOver
  <2> QED
    BY <2>2, <2>3, <2>4
<1> QED
  BY <1>4, <1>5

LEMMA FtDropInv ==
  ASSUME FtInv, NEW s \in FtSlots, FtDrop(s), FtTells(s)
  PROVE  FtInv'
<1>1. FtRunning(s) /\ FtEnds(s, "idle") /\ UNCHANGED <<ftDisk, ftGuard, ftClock, ftKnown, ftUnseen>>
  BY DEF FtDrop
<1> QED
  BY <1>1, FtIdleAround, FtOver

(* An edit that fails says so once its files are as they were.             *)
FtGivesBack ==
  \A s \in FtSlots :
    /\ ftJob[s].step \in {"committing", "rollback"} /\ ftJob'[s].step = "failed"
    => \A p \in FtOn(s) \ FtStirred(s) : ftDisk'[p].text = ftJob[s].saw[p].text

LEMMA FtCallStepInv ==
  ASSUME FtInv, NEW s \in FtSlots, FtCallStep(s)
  PROVE  FtInv' /\ FtGivesBack
<1>0. FtTells(s)
  BY DEF FtCallStep
<1>1. ASSUME FtInv', ftJob'[s].step = "failed" =>
                        \/ ftJob[s].step \notin {"committing", "rollback"}
                        \/ \A q \in FtOn(s) \ FtStirred(s) : ftDisk'[q].text = ftJob[s].saw[q].text,
             \A t \in FtSlots : t # s => ftJob'[t] = ftJob[t]
      PROVE  FtInv' /\ FtGivesBack
  BY <1>1 DEF FtGivesBack
<1>2. \A t \in FtSlots : t # s => ftJob'[t] = ftJob[t]
  <2>1. ftJob \in [FtSlots -> FtCallSet]
    BY DEF FtInv
  <2> QED
    BY <2>1 DEF FtCallStep, FtReadStat, FtRead, FtRecord, FtCheck, FtWrite, FtWriteFails, FtEditRead,
       FtEditMatch, FtCommit, FtCommitFails, FtRollback, FtRestamp, FtCopy, FtRename, FtDelete,
       FtAdmin, FtDrop, FtTo, FtEnds
<1>3. CASE FtReadStat(s) \/ FtRead(s) \/ FtRecord(s)
  <2>1. ftJob[s].step \notin {"committing", "rollback"}
    BY <1>3 DEF FtReadStat, FtRead, FtRecord
  <2> QED
    BY <1>0, <1>1, <1>2, <1>3, <2>1, FtReadStatInv, FtReadInv, FtRecordInv
<1>4. CASE FtCheck(s) \/ FtWrite(s) \/ FtWriteFails(s)
  <2>1. ftJob[s].step \notin {"committing", "rollback"}
    BY <1>4 DEF FtCheck, FtWrite, FtWriteFails
  <2> QED
    BY <1>0, <1>1, <1>2, <1>4, <2>1, FtCheckInv, FtWriteInv, FtWriteFailsInv
<1>5. CASE (\E p \in FtFiles : FtEditRead(s, p)) \/ FtEditMatch(s)
  <2>1. ftJob[s].step \notin {"committing", "rollback"}
    BY <1>5 DEF FtEditRead, FtEditMatch
  <2> QED
    BY <1>0, <1>1, <1>2, <1>5, <2>1, FtEditReadInv, FtEditMatchInv
<1>6. CASE FtCommit(s)
  <2>1. ftJob'[s].step # "failed"
    BY <1>6 DEF FtCommit, FtInv
  <2> QED
    BY <1>0, <1>1, <1>2, <1>6, <2>1, FtCommitInv
<1>7. CASE FtCommitFails(s)
  BY <1>0, <1>1, <1>2, <1>7, FtCommitFailsInv
<1>8. CASE FtRollback(s)
  BY <1>0, <1>1, <1>2, <1>8, FtRollbackInv
<1>9. CASE FtRestamp(s)
  <2>1. ftJob[s].step \notin {"committing", "rollback"}
    BY <1>9 DEF FtRestamp
  <2> QED
    BY <1>0, <1>1, <1>2, <1>9, <2>1, FtRestampInv
<1>10. CASE FtCopy(s) \/ FtRename(s) \/ FtDelete(s)
  <2>1. ftJob[s].step \notin {"committing", "rollback"}
    BY <1>10 DEF FtCopy, FtRename, FtDelete, FtAdmin
  <2> QED
    BY <1>0, <1>1, <1>2, <1>10, <2>1, FtAdminInv
<1>11. CASE FtDrop(s)
  <2>1. ftJob'[s].step # "failed"
    BY <1>11 DEF FtDrop, FtEnds, FtIdle, FtInv
  <2> QED
    BY <1>0, <1>1, <1>2, <1>11, <2>1, FtDropInv
<1> QED
  BY <1>3, <1>4, <1>5, <1>6, <1>7, <1>8, <1>9, <1>10, <1>11 DEF FtCallStep

(* The paths a call may name.                                              *)
FtNamed(op, on) ==
  /\ on \in Seq(FtFiles) /\ Len(on) >= 1
  /\ \A i, j \in DOMAIN on : on[i] = on[j] => i = j
  /\ op \in {"copy_file", "rename_file"} => Len(on) = 2
  /\ op \notin {"copy_file", "rename_file", "edit_file"} => Len(on) = 1

LEMMA FtArgumentsAre ==
  ASSUME NEW op \in FtOps, NEW on \in FtArguments(op)
  PROVE  FtNamed(op, on)
<1>1. ASSUME NEW p \in FtFiles, on = <<p>>, op \notin {"copy_file", "rename_file"}
      PROVE  FtNamed(op, on)
  <2>1. on \in Seq(FtFiles) /\ Len(on) = 1 /\ DOMAIN on = {1}
    BY <1>1, QueueOne
  <2> QED
    BY <2>1, <1>1 DEF FtNamed
<1>2. ASSUME NEW p \in FtFiles, NEW q \in FtFiles, p # q, on = <<p, q>>,
             op \in {"copy_file", "rename_file"}
      PROVE  FtNamed(op, on)
  <2>1. on \in Seq(FtFiles) /\ Len(on) = 2 /\ DOMAIN on = {1, 2} /\ on[1] = p /\ on[2] = q
    BY <1>2
  <2> QED
    BY <2>1, <1>2 DEF FtNamed
<1>3. CASE op = "edit_file"
  <2>1. CASE on = FtPath
    <3>1. Len(FtPath) # 0
      BY FtPathFacts, FtAssumption, EmptySeq
    <3>2. Len(FtPath) >= 1
      BY <3>1, FtPathFacts
    <3> QED
      BY <3>2, <2>1, <1>3, FtPathFacts DEF FtNamed
  <2>2. on # FtPath => \E p \in FtFiles : on = <<p>>
    BY <1>3 DEF FtArguments
  <2> QED
    BY <2>1, <2>2, <1>1, <1>3
<1>4. CASE op \in {"copy_file", "rename_file"}
  <2>1. on \in {<<p, q>> : p \in FtFiles, q \in FtFiles} \ {<<p, p>> : p \in FtFiles}
    BY <1>4 DEF FtArguments
  <2>2. \E p, q \in FtFiles : on = <<p, q>> /\ p # q
    BY <2>1
  <2> QED
    BY <2>2, <1>2, <1>4
<1>5. CASE op \notin {"copy_file", "rename_file", "edit_file"}
  <2>1. \E p \in FtFiles : on = <<p>>
    BY <1>5 DEF FtArguments
  <2> QED
    BY <2>1, <1>1, <1>5
<1> QED
  BY <1>3, <1>4, <1>5

(* A call's keys tell the paths it holds, as it spells them.               *)
LEMMA FtKeysHold ==
  ASSUME NEW job \in FtCallSet, job.op \in FtOps, NEW p,
         p \in IF job.op = "read_file" THEN {}
               ELSE IF job.op = "copy_file" THEN {job.on[2]}
               ELSE {job.on[i] : i \in DOMAIN job.on}
  PROVE  <<p, FtSpelling(job)>> \in FtKeys(job)
<1>1. CASE job.op = "copy_file"
  BY <1>1 DEF FtKeys
<1>2. CASE job.op \notin {"read_file", "copy_file"}
  BY <1>2 DEF FtKeys
<1> QED
  BY <1>1, <1>2

LEMMA FtBeginInv ==
  ASSUME FtInv, NEW s \in FtSlots, NEW op \in FtOps,
         NEW spelt \in FtSpellings, NEW on \in FtArguments(op), FtBegin(s, op, on, spelt)
  PROVE  FtInv' /\ ftJob'[s].step = "begun" /\ \A t \in FtSlots : t # s => ftJob'[t] = ftJob[t]
<1> DEFINE j == [FtIdle EXCEPT !.op = op, !.on = on, !.spelt = spelt, !.step = "begun"]
<1>1. FtNamed(op, on)
  BY FtArgumentsAre
<1>2. FtAbsent \in FtVersions /\ FtAbsent.ver = 0
  BY DEF FtAbsent, FtVersions
<1>3. FtSawNothing \in [FtFiles -> FtVersions]
  BY <1>2 DEF FtSawNothing
<1>4. on \in Seq(FtFiles)
  BY <1>1 DEF FtNamed
<1>5. /\ j \in FtCallSet /\ j.op = op /\ j.on = on /\ j.step = "begun" /\ j.at = 0
      /\ j.saw = FtSawNothing
  BY <1>1, <1>3, <1>4 DEF FtCallSet, FtIdle, FtSteps
<1>6. /\ ~FtRunning(s) /\ ftJob' = [ftJob EXCEPT ![s] = j]
      /\ \A other \in FtSlots \ {s} : FtRunning(other) => FtKeys(j) \cap FtKeys(ftJob[other]) = {}
      /\ UNCHANGED <<ftDisk, ftGuard, ftClock, ftKnown, ftUnseen, ftMeddled, ftRespelt>>
  BY DEF FtBegin
<1> HIDE DEF j
<1>7. ftJob \in [FtSlots -> FtCallSet]
  BY DEF FtInv
<1>8. /\ ftJob' \in [FtSlots -> FtCallSet] /\ ftJob'[s] = j
      /\ \A t \in FtSlots : t # s => ftJob'[t] = ftJob[t]
  BY <1>5, <1>6, <1>7
<1>9. FtDiskInv' /\ FtGuardInv'
  BY <1>6 DEF FtInv, FtDiskInv, FtGuardInv, FtBooks, FtAllowed
<1>10. ASSUME NEW t \in FtSlots, t # s PROVE FtCallInv(t)'
  <2>1. ftJob'[t] = ftJob[t] /\ UNCHANGED <<ftDisk, ftClock, ftKnown, ftUnseen, ftMeddled, ftRespelt>>
    BY <1>6, <1>8, <1>10
  <2>2. FtCallOK(t)' /\ FtWrote(t)'
    BY <2>1 DEF FtInv, FtCallInv, FtCallOK, FtWrote, FtRunning, FtStirred
  <2>3. FtSees(t)'
    BY <2>1 DEF FtInv, FtCallInv, FtSees, FtOn, FtFile, FtStirred
  <2>4. FtStamps(t)'
    BY <2>1 DEF FtInv, FtCallInv, FtStamps, FtStamp, FtFile, FtAllowed
  <2> QED
    BY <2>2, <2>3, <2>4 DEF FtCallInv
<1>11. FtCallInv(s)'
  <2>1. FtCallOK(s)'
    BY <1>1, <1>5, <1>8 DEF FtCallOK, FtNamed
  <2>2. FtWrote(s)' /\ FtStamps(s)'
    BY <1>5, <1>8 DEF FtWrote, FtStamps
  <2>3. FtSees(s)'
    <3>1. \A i \in DOMAIN on : on[i] \in FtFiles
      BY <1>4
    <3>2. \A p \in FtOn(s)' : j.saw[p] = FtAbsent
      BY <3>1, <1>5, <1>8 DEF FtOn, FtSawNothing
    <3> QED
      BY <3>2, <1>5, <1>8 DEF FtSees
  <2> QED
    BY <2>1, <2>2, <2>3 DEF FtCallInv
<1>12. FtExclusive'
  <2> DEFINE spells(t) == FtSpelling(ftJob[t])
  <2>1. \A t \in FtSlots : t # s => /\ FtRunning(t)' <=> FtRunning(t)
                                  /\ FtHeld(t)' = FtHeld(t) /\ spells(t)' = spells(t)
    BY <1>8 DEF FtRunning, FtHeld, FtOn
  <2>2. \A p \in FtHeld(s)' : <<p, spells(s)'>> \in FtKeys(j)
    BY <1>5, <1>8, FtKeysHold DEF FtHeld, FtOn
  <2>3. ASSUME NEW t \in FtSlots, t # s, FtRunning(t), spells(t) = spells(s)',
               NEW p \in FtHeld(t), p \in FtHeld(s)'
        PROVE  FALSE
    <3>1. ftJob[t] \in FtCallSet /\ ftJob[t].op \in FtOps
      BY <2>3, <1>7 DEF FtInv, FtCallInv, FtCallOK
    <3>2. <<p, spells(t)>> \in FtKeys(ftJob[t])
      BY <3>1, <2>3, FtKeysHold DEF FtHeld, FtOn
    <3> QED
      BY <3>2, <2>2, <2>3, <1>6
  <2>4. \A t \in FtSlots : t # s /\ FtRunning(t)' /\ spells(t)' = spells(s)' =>
                             FtHeld(s)' \cap FtHeld(t)' = {}
    BY <2>1, <2>3
  <2> QED
    BY <2>1, <2>4 DEF FtExclusive, FtInv, FtAlike
<1> QED
  BY <1>5, <1>8, <1>9, <1>10, <1>11, <1>12 DEF FtInv

(* Somebody else writes a file.                                            *)
LEMMA FtSomebodyInv ==
  ASSUME FtInv, NEW p \in FtFiles, FtSomebodyWrites(p)
  PROVE  FtInv'
<1>1. /\ FtPuts(p, ftClock + 1) /\ UNCHANGED <<ftGuard, ftJob, ftKnown, ftUnseen, ftRespelt>>
      /\ ftMeddled' = [s \in FtSlots |-> IF FtRunning(s) THEN ftMeddled[s] \cup {p} ELSE {}]
  BY DEF FtSomebodyWrites
<1>2. FtOrigins({}) /\ \A q \in FtFiles : q # p => ftDisk'[q] = ftDisk[q]
  BY <1>1, FtNewText, FtPutsOrigins DEF FtInv
<1>3. FtBooks' /\ FtLearnt
  <2>1. FtBooks
    BY DEF FtInv, FtGuardInv
  <2>2. ftMeddled' \in [FtSlots -> SUBSET FtFiles]
    BY <2>1, <1>1 DEF FtBooks
  <2> QED
    BY <2>1, <2>2, <1>1, FtNothingLearnt DEF FtBooks
<1>4. FtGuardInv'
  BY <1>1, <1>2, <1>3, FtGuardKeeps DEF FtInv
<1>5. FtDiskInv'
  BY <1>2 DEF FtOrigins
<1>6. FtExclusive' /\ ftJob' \in [FtSlots -> FtCallSet]
  <2>1. \A s \in FtSlots : (FtRunning(s)' <=> FtRunning(s)) /\ FtHeld(s)' = FtHeld(s)
    BY <1>1 DEF FtRunning, FtHeld, FtOn
  <2> QED
    BY <1>1, <2>1 DEF FtInv, FtExclusive, FtAlike
<1>7. ASSUME NEW t \in FtSlots PROVE FtCallInv(t)'
  <2>1. FtCallOK(t)'
    BY <1>1 DEF FtInv, FtCallInv, FtCallOK, FtRunning
  <2>2. FtRunning(t) => FtStirred(t)' = FtStirred(t) \cup {p}
    BY <1>1 DEF FtStirred
  <2>3. /\ \A i \in DOMAIN ftJob[t].on : ftJob[t].on[i] \in FtFiles
        /\ FtRunning(t) => FtFile(t) \in FtFiles
        /\ ftJob[t].saw \in [FtFiles -> FtVersions]
    BY FtPaths
  <2>4. FtSees(t)'
    BY <1>1, <1>2, <2>2, <2>3 DEF FtInv, FtCallInv, FtSees, FtOn, FtFile, FtRunning
  <2>5. FtWrote(t)'
    BY <1>1, <1>2, <2>2, <2>3 DEF FtInv, FtCallInv, FtWrote, FtRunning
  <2>6. FtStamps(t)'
    <3>1. FtFile(t)' = FtFile(t) /\ FtStamp(t)' = FtStamp(t)
      BY <1>1 DEF FtFile, FtStamp
    <3>2. ftClock \in Nat /\ ftClock' \in Nat /\ ftClock =< ftClock' /\ FtDiskInv
      BY <1>2 DEF FtOrigins, FtDiskInv, FtInv
    <3>3. FtRunning(t) => FtStamp(t) \in Nat
      BY <2>3 DEF FtStamp, FtVersions
    <3>4. ftJob[t].step \in {"reading", "recording", "writing"} => FtRunning(t)
      BY DEF FtRunning
    <3>5. ftJob[t].step \in {"reading", "recording"} => FtStamp(t) =< ftClock /\ FtStamp(t) =< ftClock'
      BY <3>2, <3>3, <3>4 DEF FtInv, FtCallInv, FtStamps
    <3>6. ASSUME ftJob[t].step \in {"reading", "recording"}, NEW q \in FtFiles,
                 FtStamp(t) # 0, ftDisk'[q].ver = FtStamp(t)
          PROVE  ftDisk'[q] = ftDisk[q]
      BY <3>5, <3>6, <1>2 DEF FtOrigins
    <3>7. ftJob[t].step = "reading" =>
            \A q \in FtFiles : FtStamp(t) # 0 /\ ftDisk'[q].ver = FtStamp(t) =>
              q = FtFile(t) \/ ftDisk'[q].text \in ftUnseen[FtFile(t)]
      BY <3>6 DEF FtInv, FtCallInv, FtStamps
    <3>8. ftJob[t].step = "recording" =>
            \A q \in FtFiles : FtStamp(t) # 0 /\ ftDisk'[q].ver = FtStamp(t)
                                 => ftDisk'[q].text \in FtAllowed(FtFile(t))
      BY <3>6 DEF FtInv, FtCallInv, FtStamps
    <3>9. ftJob[t].step = "writing" =>
            ftJob[t].saw[FtFile(t)].text \in {0} \cup FtAllowed(FtFile(t))
      BY DEF FtInv, FtCallInv, FtStamps
    <3>10. FtAllowed(FtFile(t))' = FtAllowed(FtFile(t))
      BY <3>1, <1>1 DEF FtAllowed
    <3> QED
      BY <3>1, <3>5, <3>7, <3>8, <3>9, <3>10, <1>1 DEF FtStamps
  <2> QED
    BY <2>1, <2>4, <2>5, <2>6 DEF FtCallInv
<1> QED
  BY <1>4, <1>5, <1>6, <1>7 DEF FtInv

LEMMA FtClearInv ==
  ASSUME FtInv, FtClear
  PROVE  FtInv'
<1>1. /\ \A s \in FtSlots : ~FtRunning(s)
      /\ ftGuard' = [p \in FtFiles |-> 0] /\ ftKnown' = [p \in FtFiles |-> {}]
      /\ ftUnseen' = [p \in FtFiles |-> {}]
      /\ UNCHANGED <<ftDisk, ftClock, ftJob, ftMeddled, ftRespelt>>
  BY DEF FtClear
<1>2. FtDiskInv' /\ ftJob' \in [FtSlots -> FtCallSet]
  BY <1>1 DEF FtInv, FtDiskInv
<1>3. FtGuardInv'
  BY <1>1 DEF FtInv, FtGuardInv, FtDiskInv, FtBooks
<1>4. FtExclusive'
  BY <1>1 DEF FtExclusive, FtRunning
<1>5. \A s \in FtSlots : FtCallInv(s)'
  BY <1>1 DEF FtCallInv, FtCallOK, FtSees, FtWrote, FtStamps, FtRunning
<1> QED
  BY <1>2, <1>3, <1>4, <1>5 DEF FtInv

LEMMA FtInitInv == FtInit => FtInv
<1> SUFFICES ASSUME FtInit PROVE FtInv
  OBVIOUS
<1> DEFINE at(p) == CHOOSE i \in DOMAIN FtPath : FtPath[i] = p
<1>1. \A p \in FtFiles : at(p) \in DOMAIN FtPath /\ FtPath[at(p)] = p
  BY DEF FtFiles
<1>2. /\ ftDisk = [p \in FtFiles |-> [ver |-> at(p), text |-> at(p)]] /\ ftClock = Len(FtPath)
      /\ ftGuard = [p \in FtFiles |-> 0] /\ ftJob = [s \in FtSlots |-> FtIdle]
      /\ ftKnown = [p \in FtFiles |-> {}] /\ ftMeddled = [s \in FtSlots |-> {}]
      /\ ftUnseen = [p \in FtFiles |-> {}] /\ ftRespelt = [s \in FtSlots |-> {}]
  BY DEF FtInit
<1> HIDE DEF at
<1>3. \A p \in FtFiles : at(p) \in Nat /\ at(p) # 0 /\ at(p) =< Len(FtPath)
  BY <1>1, FtPathFacts
<1>4. FtDiskInv
  <2>1. \A p \in FtFiles : ftDisk[p] \in FtVersions /\ ftDisk[p].ver = at(p)
    BY <1>2, <1>3 DEF FtVersions
  <2>2. ftDisk \in [FtFiles -> FtVersions] /\ ftClock \in Nat
    BY <1>2, <2>1, FtPathFacts
  <2>3. \A p, q \in FtFiles : at(p) = at(q) => p = q
    BY <1>1
  <2> QED
    BY <2>1, <2>2, <2>3, <1>2, <1>3 DEF FtDiskInv
<1>5. FtGuardInv
  BY <1>2, <1>4 DEF FtGuardInv, FtDiskInv, FtBooks
<1>6. FtIdle \in FtCallSet /\ FtIdle.step = "idle"
  <2>1. FtAbsent \in FtVersions /\ <<>> \in Seq(FtFiles)
    BY QueueNone DEF FtAbsent, FtVersions
  <2>2. FtSawNothing \in [FtFiles -> FtVersions]
    BY <2>1 DEF FtSawNothing
  <2> QED
    BY <2>1, <2>2 DEF FtCallSet, FtIdle, FtSteps, FtSpellings
<1>7. \A s \in FtSlots : ftJob[s].step = "idle" /\ ~FtRunning(s)
  BY <1>2, <1>6 DEF FtRunning
<1>8. \A s \in FtSlots : FtCallInv(s)
  BY <1>7 DEF FtCallInv, FtCallOK, FtSees, FtWrote, FtStamps
<1> QED
  BY <1>2, <1>4, <1>5, <1>6, <1>7, <1>8 DEF FtInv, FtExclusive

LEMMA FtNextInv ==
  ASSUME FtInv, [FtNext]_ftVars
  PROVE  FtInv' /\ FtGivesBack
<1>1. ASSUME NEW s \in FtSlots, NEW op \in FtOps, NEW spelt \in FtSpellings,
             NEW on \in FtArguments(op), FtBegin(s, op, on, spelt)
      PROVE  FtInv' /\ FtGivesBack
  <2>1. FtInv' /\ ftJob'[s].step = "begun" /\ \A t \in FtSlots : t # s => ftJob'[t] = ftJob[t]
    BY <1>1, FtBeginInv
  <2> QED
    BY <2>1 DEF FtGivesBack
<1>2. ASSUME NEW s \in FtSlots, FtCallStep(s) PROVE FtInv' /\ FtGivesBack
  BY <1>2, FtCallStepInv
<1>3. ASSUME NEW p \in FtFiles, FtSomebodyWrites(p) PROVE FtInv' /\ FtGivesBack
  BY <1>3, FtSomebodyInv DEF FtSomebodyWrites, FtGivesBack
<1>4. CASE FtClear
  BY <1>4, FtClearInv DEF FtClear, FtGivesBack
<1>5. CASE UNCHANGED ftVars
  <2>1. UNCHANGED <<ftDisk, ftGuard, ftClock, ftJob, ftKnown, ftUnseen, ftMeddled, ftRespelt>>
    BY <1>5 DEF ftVars
  <2>6. \A s \in FtSlots : (FtRunning(s)' <=> FtRunning(s)) /\ FtHeld(s)' = FtHeld(s)
    BY <2>1 DEF FtRunning, FtHeld, FtOn
  <2>7. FtExclusive' /\ ftJob' \in [FtSlots -> FtCallSet]
    BY <2>1, <2>6 DEF FtInv, FtExclusive, FtAlike
  <2>2. FtDiskInv' /\ FtGuardInv'
    BY <2>1 DEF FtInv, FtDiskInv, FtGuardInv, FtBooks, FtAllowed
  <2>3. \A t \in FtSlots : FtCallOK(t)' /\ FtWrote(t)'
    BY <2>1 DEF FtInv, FtCallInv, FtCallOK, FtWrote, FtRunning, FtStirred
  <2>4. \A t \in FtSlots : FtSees(t)'
    BY <2>1 DEF FtInv, FtCallInv, FtSees, FtOn, FtFile, FtStirred
  <2>5. \A t \in FtSlots : FtStamps(t)'
    BY <2>1 DEF FtInv, FtCallInv, FtStamps, FtStamp, FtFile, FtAllowed
  <2> QED
    BY <2>1, <2>2, <2>3, <2>4, <2>5, <2>7 DEF FtInv, FtCallInv, FtGivesBack
<1> QED
  BY <1>1, <1>2, <1>3, <1>4, <1>5 DEF FtNext

LEMMA FtInvSafe == FtInv => FtNoBlindOverwrite /\ FtNoLostWrite
<1> SUFFICES ASSUME FtInv PROVE FtNoBlindOverwrite /\ FtNoLostWrite
  OBVIOUS
<1>1. FtNoBlindOverwrite
  BY DEF FtNoBlindOverwrite, FtInv, FtCallInv, FtStamps, FtAllowed
<1>2. ASSUME NEW s \in FtSlots, ftJob[s].step = "committing",
             NEW i \in (ftJob[s].at + 1) .. Len(ftJob[s].on), ftJob[s].on[i] \notin FtStirred(s)
      PROVE  ftDisk[ftJob[s].on[i]] = ftJob[s].saw[ftJob[s].on[i]]
  <2>1. i \in DOMAIN ftJob[s].on /\ i > ftJob[s].at
    BY <1>2, FtEditing
  <2> QED
    BY <2>1, <1>2 DEF FtInv, FtCallInv, FtSees
<1>3. ASSUME NEW s \in FtSlots, ftJob[s].step = "writing", FtFile(s) \notin FtStirred(s)
      PROVE  ftDisk[FtFile(s)] = ftJob[s].saw[FtFile(s)]
  BY <1>3 DEF FtInv, FtCallInv, FtSees
<1>4. FtNoLostWrite
  <2> SUFFICES ASSUME NEW s \in FtSlots, NEW p \in FtToReplace(s) \ FtStirred(s)
               PROVE  ftDisk[p] = ftJob[s].saw[p]
    BY DEF FtNoLostWrite
  <2>1. CASE ftJob[s].step = "writing"
    BY <2>1, <1>3 DEF FtToReplace
  <2>2. CASE ftJob[s].step = "committing"
    BY <2>2, <1>2 DEF FtToReplace
  <2> QED
    BY <2>1, <2>2 DEF FtToReplace
<1> QED
  BY <1>1, <1>4

(* write_file replaces no text that was not read or written here, or       *)
(* stamped unseen in one of the two windows of a stamp; calls that run at  *)
(* once and spell a path alike lose no work of one another; and an edit of *)
(* several files that fails and reports no failed rollback leaves the texts*)
(* that nobody else, and no call that spells them otherwise, changed: for  *)
(* any files, any calls at once and any changes by others.                 *)
THEOREM FileToolsSafety == FtSpec => FtSafe
<1>1. FtInit => FtInv
  BY FtInitInv
<1>2. FtInv /\ [FtNext]_ftVars => FtInv'
  BY FtNextInv
<1>3. FtInv /\ [FtNext]_ftVars =>
        [\A s \in FtSlots :
           /\ ftJob[s].step \in {"committing", "rollback"} /\ ftJob'[s].step = "failed"
           => \A p \in FtOn(s) \ FtStirred(s) : ftDisk'[p].text = ftJob[s].saw[p].text]_ftVars
  BY FtNextInv DEF FtGivesBack
<1>4. FtInv => FtNoBlindOverwrite /\ FtNoLostWrite
  BY FtInvSafe
<1> QED
  BY <1>1, <1>2, <1>3, <1>4, PTL DEF FtSpec, FtSafe, FtEditAllOrNothing

-----------------------------------------------------------------------------
(* OutBuf: nothing printed is lost unreported, no match is missed          *)
(* t is the end of s.                                                      *)
ObEnds(t, s) ==
  /\ Len(t) =< Len(s)
  /\ \A i \in 1 .. Len(t) : t[i] = s[Len(s) - Len(t) + i]

(* The literal stands in s after the first i bytes; it stands somewhere.   *)
ObAt(s, i) == \A k \in 1 .. Len(ObNeedle) : s[i + k] = ObNeedle[k]
ObSeen(s) == \E i \in 0 .. (Len(s) - Len(ObNeedle)) : ObAt(s, i)

ObTypes ==
  /\ obFeed \in Seq(ObByte) /\ obArmed \in Seq(ObByte)
  /\ obData \in Seq(ObByte) /\ obTail \in Seq(ObByte)
  /\ obOn \in BOOLEAN /\ obNotified \in BOOLEAN
  /\ obRead \in Nat /\ obReported \in Nat /\ obDropped \in Nat

ObBooks ==
  /\ ObEnds(obData, obFeed)
  /\ Len(obFeed) = obRead + obReported + obDropped + Len(obData)

(* The matcher has seen the literal when it has been printed, and until    *)
(* then keeps as much of the end as could begin it.                        *)
ObMatched ==
  /\ obNotified <=> ObSeen(obArmed)
  /\ obWakes = IF obNotified THEN 1 ELSE 0
  /\ ~obOn => obArmed = <<>>
  /\ obOn /\ ~obNotified =>
       /\ ObEnds(obTail, obArmed)
       /\ Len(obTail) = IF Len(obArmed) =< ObKept THEN Len(obArmed) ELSE ObKept

ObInv == ObTypes /\ ObBooks /\ ObMatched

LEMMA ObNeedleIs ==
  ObNeedle \in Seq(ObByte) /\ Len(ObNeedle) \in Nat /\ Len(ObNeedle) >= 1
<1>1. ObNeedle \in Seq(ObByte) /\ ObNeedle # <<>>
  BY ObAssumption
<1>2. Len(ObNeedle) \in Nat \ {0}
  BY <1>1, EmptySeq
<1> QED
  BY <1>1, <1>2

(* Arithmetic of the books.                                                *)
LEMMA ObCounts ==
  /\ \A m, n \in Nat : n =< m /\ ~(n + 1 =< m) => n = m
  /\ \A f, c, d, r, p, o, e, l \in Nat :
       f = r + p + o + d /\ e + l = d + c => f + c = r + p + (o + e) + l
  /\ \A f, d, r, p, o, k \in Nat :
       f = r + p + o + d => f = (r + k) + (p + o) + 0 + (d - k)
  OBVIOUS

(* What ObLast keeps, and that an end of s is its last part.               *)
LEMMA ObLastIs ==
  ASSUME NEW S, NEW s \in Seq(S), NEW n \in Nat
  PROVE  /\ ObLast(s, n) \in Seq(S) /\ ObEnds(ObLast(s, n), s)
         /\ Len(ObLast(s, n)) = IF Len(s) =< n THEN Len(s) ELSE n
         /\ ObExcess(s, n) \in Nat /\ ObExcess(s, n) + Len(ObLast(s, n)) = Len(s)
<1>1. Len(s) \in Nat
  BY LenProperties
<1>2. CASE Len(s) =< n
  <2>1. ObLast(s, n) = s /\ ObExcess(s, n) = 0
    BY <1>2 DEF ObLast, ObExcess
  <2>2. ObEnds(s, s)
    <3>1. \A i \in 1 .. Len(s) : Len(s) - Len(s) + i = i
      BY <1>1
    <3> QED
      BY <1>1, <3>1 DEF ObEnds
  <2> QED
    BY <1>1, <1>2, <2>1, <2>2
<1>3. CASE ~(Len(s) =< n)
  <2> DEFINE m == Len(s) - n + 1
             t == SubSeq(s, m, Len(s))
  <2>1. m \in Nat /\ m >= 1 /\ Len(s) - m + 1 = n /\ (m =< Len(s) \/ n = 0)
    BY <1>1, <1>3
  <2>2. ObLast(s, n) = t /\ ObExcess(s, n) = Len(s) - n
    BY <1>3 DEF ObLast, ObExcess
  <2> HIDE DEF m
  <2>3. /\ t \in Seq(S)
        /\ Len(t) = IF m =< Len(s) THEN Len(s) - m + 1 ELSE 0
        /\ \A i \in 1 .. Len(s) - m + 1 : t[i] = s[m + i - 1]
    BY <1>1, <2>1, PartIs
  <2> HIDE DEF t
  <2>4. Len(t) = n /\ \A i \in 1 .. n : t[i] = s[m + i - 1]
    BY <1>1, <2>1, <2>3
  <2>5. \A i \in 1 .. n : m + i - 1 = Len(s) - n + i
    BY <1>1 DEF m
  <2>6. ObEnds(t, s)
    BY <1>1, <1>3, <2>4, <2>5 DEF ObEnds
  <2> QED
    BY <1>1, <1>3, <2>2, <2>3, <2>4, <2>6
<1> QED
  BY <1>2, <1>3

LEMMA ObEndsIs ==
  ASSUME NEW S, NEW s \in Seq(S), NEW t \in Seq(S), ObEnds(t, s)
  PROVE  t = ObLast(s, Len(t))
<1> DEFINE u == ObLast(s, Len(t))
<1>1. Len(s) \in Nat /\ Len(t) \in Nat /\ Len(t) =< Len(s)
  BY LenProperties DEF ObEnds
<1>2. u \in Seq(S) /\ ObEnds(u, s) /\ Len(u) = IF Len(s) =< Len(t) THEN Len(s) ELSE Len(t)
  BY <1>1, ObLastIs
<1> HIDE DEF u
<1>3. Len(u) = Len(t)
  BY <1>1, <1>2
<1>4. \A i \in 1 .. Len(t) : t[i] = u[i]
  BY <1>2, <1>3 DEF ObEnds
<1>5. t = u
  BY <1>2, <1>3, <1>4, SeqEqual
<1> QED
  BY <1>5 DEF u

(* The end of an end; an end with more after it.                           *)
LEMMA ObEndsOfEnds ==
  ASSUME NEW S, NEW s \in Seq(S), NEW t \in Seq(S), NEW u \in Seq(S), ObEnds(t, s), ObEnds(u, t)
  PROVE  ObEnds(u, s)
<1>1. Len(s) \in Nat /\ Len(t) \in Nat /\ Len(u) \in Nat
  BY LenProperties
<1>2. Len(u) =< Len(t) /\ Len(t) =< Len(s)
  BY DEF ObEnds
<1>3. ASSUME NEW i \in 1 .. Len(u) PROVE u[i] = s[Len(s) - Len(u) + i]
  <2>1. Len(t) - Len(u) + i \in 1 .. Len(t)
    BY <1>1, <1>2
  <2>2. u[i] = t[Len(t) - Len(u) + i]
    BY DEF ObEnds
  <2>3. t[Len(t) - Len(u) + i] = s[Len(s) - Len(t) + (Len(t) - Len(u) + i)]
    BY <2>1 DEF ObEnds
  <2>4. Len(s) - Len(t) + (Len(t) - Len(u) + i) = Len(s) - Len(u) + i
    BY <1>1
  <2> QED
    BY <2>2, <2>3, <2>4
<1> QED
  BY <1>1, <1>2, <1>3 DEF ObEnds

LEMMA ObEndsMore ==
  ASSUME NEW S, NEW s \in Seq(S), NEW t \in Seq(S), NEW c \in Seq(S), ObEnds(t, s)
  PROVE  ObEnds(t \o c, s \o c)
<1> DEFINE T == t \o c
           R == s \o c
<1>1. /\ T \in Seq(S) /\ Len(T) = Len(t) + Len(c)
      /\ \A i \in 1 .. Len(t) : T[i] = t[i]
      /\ \A i \in 1 .. Len(c) : T[Len(t) + i] = c[i]
      /\ Len(t) \in Nat /\ Len(c) \in Nat
  BY JoinIs
<1>2. /\ R \in Seq(S) /\ Len(R) = Len(s) + Len(c)
      /\ \A i \in 1 .. Len(s) : R[i] = s[i]
      /\ \A i \in 1 .. Len(c) : R[Len(s) + i] = c[i]
      /\ Len(s) \in Nat
  BY JoinIs
<1>3. Len(t) =< Len(s) /\ \A i \in 1 .. Len(t) : t[i] = s[Len(s) - Len(t) + i]
  BY DEF ObEnds
<1> HIDE DEF T, R
<1>4. ASSUME NEW i \in 1 .. Len(T) PROVE T[i] = R[Len(R) - Len(T) + i]
  <2>1. Len(R) - Len(T) + i = Len(s) - Len(t) + i
    BY <1>1, <1>2
  <2>2. CASE i =< Len(t)
    <3>1. i \in 1 .. Len(t) /\ Len(s) - Len(t) + i \in 1 .. Len(s)
      BY <1>1, <1>2, <1>3, <2>2
    <3>2. T[i] = t[i] /\ t[i] = s[Len(s) - Len(t) + i]
      BY ONLY <1>1, <1>3, <3>1
    <3>3. R[Len(s) - Len(t) + i] = s[Len(s) - Len(t) + i]
      BY ONLY <1>2, <3>1
    <3> QED
      BY ONLY <2>1, <3>2, <3>3
  <2>3. CASE ~(i =< Len(t))
    <3> DEFINE j == i - Len(t)
    <3>1. j \in 1 .. Len(c) /\ i = Len(t) + j /\ Len(s) - Len(t) + i = Len(s) + j
      BY <1>1, <1>2, <2>3
    <3> HIDE DEF j
    <3>2. T[i] = c[j]
      BY ONLY <1>1, <3>1
    <3>3. R[Len(s) - Len(t) + i] = c[j]
      BY ONLY <1>2, <3>1
    <3> QED
      BY ONLY <2>1, <3>2, <3>3
  <2> QED
    BY <2>2, <2>3
<1>5. Len(T) =< Len(R)
  BY <1>1, <1>2, <1>3
<1> QED
  BY <1>4, <1>5 DEF ObEnds, T, R

(* What is left of the unread output is its end.                           *)
LEMMA ObRest ==
  ASSUME NEW S, NEW s \in Seq(S), NEW n \in Nat, n =< Len(s)
  PROVE  /\ SubSeq(s, n + 1, Len(s)) \in Seq(S) /\ ObEnds(SubSeq(s, n + 1, Len(s)), s)
         /\ Len(SubSeq(s, n + 1, Len(s))) = Len(s) - n
<1> DEFINE t == SubSeq(s, n + 1, Len(s))
<1>1. Len(s) \in Nat /\ n + 1 \in Nat /\ n + 1 >= 1 /\ Len(s) - (n + 1) + 1 = Len(s) - n
  BY LenProperties
<1>2. /\ t \in Seq(S) /\ Len(t) = IF n + 1 =< Len(s) THEN Len(s) - (n + 1) + 1 ELSE 0
      /\ \A i \in 1 .. Len(s) - (n + 1) + 1 : t[i] = s[n + 1 + i - 1]
  BY <1>1, PartIs
<1> HIDE DEF t
<1>3. Len(t) = Len(s) - n
  <2>1. CASE n + 1 =< Len(s)
    BY <1>1, <1>2, <2>1
  <2>2. CASE ~(n + 1 =< Len(s))
    <3>1. Len(t) = 0
      BY <1>2, <2>2
    <3>2. n = Len(s)
      BY <1>1, <2>2, ObCounts
    <3> QED
      BY <1>1, <3>1, <3>2
  <2> QED
    BY <2>1, <2>2
<1>4. \A i \in 1 .. Len(t) : t[i] = s[Len(s) - Len(t) + i]
  <2>1. \A i \in 1 .. Len(t) : n + 1 + i - 1 = Len(s) - Len(t) + i /\ i \in 1 .. Len(s) - (n + 1) + 1
    BY <1>1, <1>3
  <2> QED
    BY <1>2, <2>1
<1>5. ObEnds(t, s)
  BY <1>1, <1>3, <1>4 DEF ObEnds
<1> QED
  BY <1>2, <1>3, <1>5 DEF t

(* The literal stands in s when it is one of the parts of s.               *)
LEMMA ObSeenIs ==
  ASSUME NEW s \in Seq(ObByte)
  PROVE  ObNeedle \in SubSeqs(s) <=> ObSeen(s)
<1> DEFINE N == Len(ObNeedle)
<1>0. Len(s) \in Nat /\ N \in Nat /\ N >= 1 /\ ObNeedle \in Seq(ObByte)
  BY LenProperties, ObNeedleIs
<1> HIDE DEF N
<1>1. ASSUME ObNeedle \in SubSeqs(s) PROVE ObSeen(s)
  <2>1. PICK i \in 0 .. Len(s), j \in 0 .. Len(s) : ObNeedle = SubSeq(s, i + 1, j)
    BY <1>1 DEF SubSeqs
  <2>2. i \in Nat /\ j \in Nat /\ i + 1 \in Nat /\ i + 1 >= 1 /\ j =< Len(s) /\ j - (i + 1) + 1 = j - i
    BY <1>0
  <2>3. /\ Len(SubSeq(s, i + 1, j)) = IF i + 1 =< j THEN j - (i + 1) + 1 ELSE 0
        /\ \A k \in 1 .. j - (i + 1) + 1 : SubSeq(s, i + 1, j)[k] = s[i + 1 + k - 1]
    BY <2>2, PartIs
  <2>4. N = j - i
    <3>1. N = IF i + 1 =< j THEN j - i ELSE 0
      BY <2>1, <2>2, <2>3 DEF N
    <3> QED
      BY <3>1, <1>0
  <2>5. \A k \in 1 .. N : ObNeedle[k] = s[i + k]
    <3>1. \A k \in 1 .. N : k \in 1 .. j - (i + 1) + 1 /\ i + 1 + k - 1 = i + k
      BY <1>0, <2>2, <2>4
    <3> QED
      BY <2>1, <2>3, <3>1
  <2>6. i \in 0 .. (Len(s) - N)
    BY <1>0, <2>2, <2>4
  <2> QED
    BY <2>5, <2>6 DEF ObSeen, ObAt, N
<1>2. ASSUME ObSeen(s) PROVE ObNeedle \in SubSeqs(s)
  <2>1. PICK i \in 0 .. (Len(s) - N) : \A k \in 1 .. N : s[i + k] = ObNeedle[k]
    BY <1>2 DEF ObSeen, ObAt, N
  <2> DEFINE j == i + N
             u == SubSeq(s, i + 1, j)
  <2>2. /\ i + 1 \in Nat /\ i + 1 >= 1 /\ j \in Nat /\ j =< Len(s) /\ j - (i + 1) + 1 = N
        /\ i + 1 =< j /\ i \in 0 .. Len(s) /\ j \in 0 .. Len(s)
    BY <1>0
  <2> HIDE DEF j
  <2>3. /\ u \in Seq(ObByte) /\ Len(u) = IF i + 1 =< j THEN j - (i + 1) + 1 ELSE 0
        /\ \A k \in 1 .. j - (i + 1) + 1 : u[k] = s[i + 1 + k - 1]
    BY <2>2, PartIs
  <2>4. u \in SubSeqs(s)
    BY <2>2 DEF SubSeqs
  <2> HIDE DEF u
  <2>5. Len(u) = Len(ObNeedle)
    BY <2>2, <2>3 DEF N
  <2>6. \A k \in 1 .. Len(u) : u[k] = ObNeedle[k]
    <3>1. \A k \in 1 .. N : k \in 1 .. j - (i + 1) + 1 /\ i + 1 + k - 1 = i + k
      BY <1>0, <2>2
    <3> QED
      BY <2>1, <2>3, <2>5, <3>1 DEF N
  <2>7. u = ObNeedle
    BY <1>0, <2>3, <2>5, <2>6, SeqEqual
  <2> QED
    BY <2>4, <2>7
<1> QED
  BY <1>1, <1>2

(* What has been printed stays printed, and what stands in the end of the  *)
(* output stands in the output.                                            *)
LEMMA ObSeenMore ==
  ASSUME NEW s \in Seq(ObByte), NEW c \in Seq(ObByte), ObSeen(s)
  PROVE  ObSeen(s \o c)
<1> DEFINE N == Len(ObNeedle)
           u == s \o c
<1>1. /\ Len(u) = Len(s) + Len(c) /\ Len(s) \in Nat /\ Len(c) \in Nat
      /\ \A i \in 1 .. Len(s) : u[i] = s[i]
  BY JoinIs
<1>2. N \in Nat
  BY ObNeedleIs
<1> HIDE DEF N, u
<1>3. PICK i \in 0 .. (Len(s) - N) : \A k \in 1 .. N : s[i + k] = ObNeedle[k]
  BY DEF ObSeen, ObAt, N
<1>4. i \in 0 .. (Len(u) - N) /\ \A k \in 1 .. N : i + k \in 1 .. Len(s)
  BY <1>1, <1>2
<1>5. \A k \in 1 .. N : u[i + k] = ObNeedle[k]
  BY <1>1, <1>3, <1>4
<1>6. ObSeen(u)
  BY <1>4, <1>5 DEF ObSeen, ObAt, N
<1> QED
  BY <1>6 DEF u

LEMMA ObSeenAtEnd ==
  ASSUME NEW s \in Seq(ObByte), NEW t \in Seq(ObByte), ObEnds(t, s), ObSeen(t)
  PROVE  ObSeen(s)
<1> DEFINE N == Len(ObNeedle)
<1>1. Len(s) \in Nat /\ Len(t) \in Nat /\ Len(t) =< Len(s) /\ N \in Nat
  BY LenProperties, ObNeedleIs DEF ObEnds
<1> HIDE DEF N
<1>2. PICK i \in 0 .. (Len(t) - N) : \A k \in 1 .. N : t[i + k] = ObNeedle[k]
  BY DEF ObSeen, ObAt, N
<1> DEFINE j == Len(s) - Len(t) + i
<1>3. j \in 0 .. (Len(s) - N)
  BY <1>1
<1>4. \A k \in 1 .. N : s[j + k] = ObNeedle[k]
  <2> SUFFICES ASSUME NEW k \in 1 .. N PROVE s[j + k] = ObNeedle[k]
    OBVIOUS
  <2>1. i + k \in 1 .. Len(t) /\ Len(s) - Len(t) + (i + k) = j + k
    BY <1>1
  <2>2. t[i + k] = s[Len(s) - Len(t) + (i + k)]
    BY <2>1 DEF ObEnds
  <2> QED
    BY <1>2, <2>1, <2>2
<1> HIDE DEF j
<1> QED
  BY <1>3, <1>4 DEF ObSeen, ObAt, N

(***************************************************************************)
(* The matcher misses nothing: if the literal does not stand in what was   *)
(* printed, and t is as much of its end as ObKept allows, then the literal *)
(* stands in t and the next chunk when it stands in all of the output.     *)
(***************************************************************************)
LEMMA ObWindow ==
  ASSUME NEW s \in Seq(ObByte), NEW t \in Seq(ObByte), NEW c \in Seq(ObByte),
         ObEnds(t, s), Len(t) = IF Len(s) =< ObKept THEN Len(s) ELSE ObKept, ~ObSeen(s)
  PROVE  ObSeen(t \o c) <=> ObSeen(s \o c)
<1> DEFINE N == Len(ObNeedle)
           T == t \o c
           R == s \o c
<1>1. /\ T \in Seq(ObByte) /\ Len(T) = Len(t) + Len(c)
      /\ Len(t) \in Nat /\ Len(c) \in Nat
  BY JoinIs
<1>2. /\ R \in Seq(ObByte) /\ Len(R) = Len(s) + Len(c) /\ Len(s) \in Nat
      /\ \A i \in 1 .. Len(s) : R[i] = s[i]
  BY JoinIs
<1>3. ObEnds(T, R)
  BY ObEndsMore
<1>4. N \in Nat /\ N >= 1 /\ ObKept = N - 1
  BY ObNeedleIs DEF ObKept
<1> HIDE DEF T, R, N
<1>5. ObSeen(T) => ObSeen(R)
  BY <1>1, <1>2, <1>3, ObSeenAtEnd
<1>6. ASSUME ObSeen(R) PROVE ObSeen(T)
  <2>1. PICK i \in 0 .. (Len(R) - N) : \A k \in 1 .. N : R[i + k] = ObNeedle[k]
    BY <1>6 DEF ObSeen, ObAt, N
  <2>2. ~(i + N =< Len(s))
    <3> SUFFICES ASSUME i + N =< Len(s) PROVE FALSE
      OBVIOUS
    <3>1. i \in 0 .. (Len(s) - N) /\ \A k \in 1 .. N : i + k \in 1 .. Len(s)
      BY <1>2, <1>4
    <3>2. \A k \in 1 .. N : s[i + k] = ObNeedle[k]
      BY <1>2, <2>1, <3>1
    <3> QED
      BY <3>1, <3>2 DEF ObSeen, ObAt, N
  <2> DEFINE j == i - (Len(s) - Len(t))
  <2>3. i \in Int /\ i >= 0 /\ i =< Len(R) - N
    BY <1>1, <1>2, <1>4
  <2>4. j \in 0 .. (Len(T) - N)
    <3>1. CASE Len(s) =< ObKept
      <4>1. Len(t) = Len(s)
        BY <3>1
      <4> QED
        BY <1>1, <1>2, <1>4, <2>3, <4>1
    <3>2. CASE ~(Len(s) =< ObKept)
      <4>1. Len(t) = N - 1
        BY <1>4, <3>2
      <4> QED
        BY <1>1, <1>2, <1>4, <2>2, <2>3, <4>1
    <3> QED
      BY <3>1, <3>2
  <2>5. \A k \in 1 .. N : T[j + k] = ObNeedle[k]
    <3> SUFFICES ASSUME NEW k \in 1 .. N PROVE T[j + k] = ObNeedle[k]
      OBVIOUS
    <3>1. j + k \in 1 .. Len(T) /\ Len(R) - Len(T) + (j + k) = i + k
      <4>1. j \in Int /\ j >= 0 /\ j =< Len(T) - N /\ Len(T) \in Nat
        BY <1>1, <1>4, <2>4
      <4>2. k \in Int /\ k >= 1 /\ k =< N
        BY <1>4
      <4>3. Len(R) - Len(T) = Len(s) - Len(t)
        BY <1>1, <1>2
      <4>4. j + k \in 1 .. Len(T)
        BY <1>4, <4>1, <4>2
      <4>5. Len(R) - Len(T) + (j + k) = i + k
        BY <1>1, <1>2, <2>3, <4>2, <4>3
      <4> QED
        BY <4>4, <4>5
    <3>2. T[j + k] = R[Len(R) - Len(T) + (j + k)]
      BY <1>3, <3>1 DEF ObEnds
    <3> QED
      BY <2>1, <3>1, <3>2
  <2> HIDE DEF j
  <2> QED
    BY <2>4, <2>5 DEF ObSeen, ObAt, N
<1> QED
  BY <1>5, <1>6 DEF T, R

(* A chunk is a sequence of bytes.                                         *)
LEMMA ObChunkIs ==
  ASSUME NEW n \in 1 .. ObChunk, NEW chunk \in [1 .. n -> ObByte]
  PROVE  chunk \in Seq(ObByte)
<1>1. n \in Nat
  BY ObAssumption
<1> QED
  BY <1>1

LEMMA ObPushKeeps ==
  ASSUME ObInv, NEW chunk \in Seq(ObByte), ObPush(chunk)
  PROVE  ObInv'
<1> USE DEF ObInv
<1> DEFINE data == obData \o chunk
           feed == obFeed \o chunk
           armed == obArmed \o chunk
           window == obTail \o chunk
           match == ObObserves(chunk)
<1>0. ObCap \in Nat /\ ObKept \in Nat
  BY ObAssumption, ObNeedleIs DEF ObKept
<1>1. /\ obFeed' = feed /\ obArmed' = (IF obOn THEN armed ELSE obArmed)
      /\ obData' = ObLast(data, ObCap) /\ obDropped' = obDropped + ObExcess(data, ObCap)
      /\ obTail' = ObKeeps(chunk) /\ obNotified' = (obNotified \/ match)
      /\ obWakes' = (IF match THEN obWakes + 1 ELSE obWakes)
      /\ UNCHANGED <<obOn, obRead, obReported>>
  BY DEF ObPush, ObFit
<1>2. /\ obFeed \in Seq(ObByte) /\ obArmed \in Seq(ObByte)
      /\ obData \in Seq(ObByte) /\ obTail \in Seq(ObByte)
      /\ obRead \in Nat /\ obReported \in Nat /\ obDropped \in Nat
  BY DEF ObTypes
<1>3. /\ data \in Seq(ObByte) /\ Len(data) = Len(obData) + Len(chunk)
      /\ feed \in Seq(ObByte) /\ Len(feed) = Len(obFeed) + Len(chunk)
      /\ armed \in Seq(ObByte) /\ window \in Seq(ObByte)
      /\ Len(obData) \in Nat /\ Len(chunk) \in Nat /\ Len(obFeed) \in Nat
  BY <1>2, JoinIs
<1>4. ObEnds(data, feed)
  BY <1>2, ObEndsMore DEF ObBooks
<1>5. match <=> obOn /\ ~obNotified /\ ObSeen(window)
  BY <1>3, ObSeenIs DEF ObObserves
<1>6. ObKeeps(chunk) = IF obOn /\ ~obNotified /\ ~match THEN ObLast(window, ObKept) ELSE obTail
  BY DEF ObKeeps
<1>11. /\ obOn /\ ~obNotified => (ObSeen(window) <=> ObSeen(armed))
       /\ ObSeen(obArmed) => ObSeen(armed)
  <2>1. ASSUME obOn, ~obNotified PROVE ObSeen(window) <=> ObSeen(armed)
    <3>1. /\ ObEnds(obTail, obArmed) /\ ~ObSeen(obArmed)
          /\ Len(obTail) = IF Len(obArmed) =< ObKept THEN Len(obArmed) ELSE ObKept
      BY <2>1 DEF ObMatched
    <3> QED
      BY <1>2, <3>1, ObWindow
  <2>2. ObSeen(obArmed) => ObSeen(armed)
    BY <1>2, ObSeenMore
  <2> QED
    BY <2>1, <2>2
<1>12. obOn /\ ~obNotified => ObEnds(window, armed) /\ Len(window) = Len(obTail) + Len(chunk)
                              /\ Len(armed) = Len(obArmed) + Len(chunk)
                              /\ Len(obTail) \in Nat /\ Len(obArmed) \in Nat
  <2>1. ASSUME obOn, ~obNotified PROVE ObEnds(window, armed)
    <3>1. ObEnds(obTail, obArmed)
      BY <2>1 DEF ObMatched
    <3> QED
      BY <1>2, <3>1, ObEndsMore
  <2>2. /\ Len(window) = Len(obTail) + Len(chunk) /\ Len(armed) = Len(obArmed) + Len(chunk)
        /\ Len(obTail) \in Nat /\ Len(obArmed) \in Nat
    BY <1>2, JoinIs
  <2> QED
    BY <2>1, <2>2
<1> HIDE DEF data, feed, armed, window, match
<1>7. /\ ObLast(data, ObCap) \in Seq(ObByte) /\ ObEnds(ObLast(data, ObCap), data)
      /\ ObExcess(data, ObCap) \in Nat
      /\ ObExcess(data, ObCap) + Len(ObLast(data, ObCap)) = Len(data)
      /\ Len(ObLast(data, ObCap)) \in Nat
  <2>1. /\ ObLast(data, ObCap) \in Seq(ObByte) /\ ObEnds(ObLast(data, ObCap), data)
        /\ ObExcess(data, ObCap) \in Nat
        /\ ObExcess(data, ObCap) + Len(ObLast(data, ObCap)) = Len(data)
    BY <1>0, <1>3, ObLastIs
  <2> QED
    BY <2>1, LenProperties
<1>8. /\ ObLast(window, ObKept) \in Seq(ObByte) /\ ObEnds(ObLast(window, ObKept), window)
      /\ Len(ObLast(window, ObKept)) = IF Len(window) =< ObKept THEN Len(window) ELSE ObKept
  BY <1>0, <1>3, ObLastIs
<1>9. ObTypes'
  <2>1. obTail' \in Seq(ObByte)
    BY <1>1, <1>2, <1>6, <1>8
  <2>2. obArmed' \in Seq(ObByte)
    BY <1>1, <1>2, <1>3
  <2>3. obDropped' \in Nat
    BY <1>1, <1>2, <1>7
  <2>4. obOn' \in BOOLEAN /\ obNotified' \in BOOLEAN
    BY <1>1 DEF ObTypes
  <2>5. obRead' \in Nat /\ obReported' \in Nat /\ obFeed' \in Seq(ObByte) /\ obData' \in Seq(ObByte)
    BY <1>1, <1>2, <1>3, <1>7
  <2> QED
    BY <2>1, <2>2, <2>3, <2>4, <2>5 DEF ObTypes
<1>10. ObBooks'
  <2>1. ObEnds(obData', obFeed')
    BY <1>1, <1>3, <1>4, <1>7, ObEndsOfEnds
  <2>2. Len(obFeed) = obRead + obReported + obDropped + Len(obData)
    BY DEF ObBooks
  <2>3. Len(feed) = obRead + obReported + (obDropped + ObExcess(data, ObCap)) + Len(ObLast(data, ObCap))
    <3>1. /\ ObExcess(data, ObCap) + Len(ObLast(data, ObCap)) = Len(obData) + Len(chunk)
          /\ Len(feed) = Len(obFeed) + Len(chunk)
      BY <1>3, <1>7
    <3>2. ObExcess(data, ObCap) \in Nat /\ Len(ObLast(data, ObCap)) \in Nat
      BY <1>7
    <3> HIDE DEF ObInv
    <3>3. PICK e \in Nat, l \in Nat : e = ObExcess(data, ObCap) /\ l = Len(ObLast(data, ObCap))
      BY ONLY <3>2
    <3>4. e + l = Len(obData) + Len(chunk)
      BY ONLY <3>1, <3>3
    <3>5. Len(obFeed) + Len(chunk) = obRead + obReported + (obDropped + e) + l
      <4>1. PICK f \in Nat, c \in Nat, d \in Nat :
              f = Len(obFeed) /\ c = Len(chunk) /\ d = Len(obData)
        BY ONLY <1>3
      <4>2. f = obRead + obReported + obDropped + d /\ e + l = d + c
        BY ONLY <2>2, <3>4, <4>1
      <4>3. f + c = obRead + obReported + (obDropped + e) + l
        BY ONLY <1>2, <4>2
      <4> QED
        BY ONLY <4>1, <4>3
    <3> QED
      BY ONLY <3>1, <3>3, <3>5
  <2> QED
    BY <1>1, <2>1, <2>3 DEF ObBooks
<1>13. ObMatched'
  <2>0. /\ obNotified <=> ObSeen(obArmed)
        /\ obWakes = IF obNotified THEN 1 ELSE 0
        /\ ~obOn => obArmed = <<>>
        /\ obOn /\ ~obNotified =>
             Len(obTail) = IF Len(obArmed) =< ObKept THEN Len(obArmed) ELSE ObKept
    BY DEF ObMatched
  <2>1. obNotified' <=> ObSeen(obArmed')
    BY <1>1, <1>5, <1>11, <2>0
  <2>2. obWakes' = IF obNotified' THEN 1 ELSE 0
    <3>1. CASE match
      <4>1. obNotified'
        BY <1>1, <3>1
      <4>2. obWakes = 0
        BY <1>5, <2>0, <3>1
      <4>3. obWakes' = 0 + 1
        BY <1>1, <3>1, <4>2
      <4> QED
        BY <4>1, <4>3
    <3>2. CASE ~match
      BY <1>1, <2>0, <3>2
    <3> QED
      BY <3>1, <3>2
  <2>3. ~obOn' => obArmed' = <<>>
    BY <1>1, <2>0
  <2>4. ASSUME obOn', ~obNotified'
        PROVE  /\ ObEnds(obTail', obArmed')
               /\ Len(obTail') = IF Len(obArmed') =< ObKept THEN Len(obArmed') ELSE ObKept
    <3>1. obOn /\ ~obNotified /\ ~match
      BY <1>1, <2>4
    <3>2. obTail' = ObLast(window, ObKept) /\ obArmed' = armed
      BY <1>1, <1>6, <3>1
    <3>3. ObEnds(obTail', obArmed')
      BY <1>3, <1>8, <1>12, <3>1, <3>2, ObEndsOfEnds
    <3>4. (IF Len(window) =< ObKept THEN Len(window) ELSE ObKept)
            = (IF Len(armed) =< ObKept THEN Len(armed) ELSE ObKept)
      BY <1>0, <1>3, <1>12, <2>0, <3>1
    <3> QED
      BY <1>8, <3>2, <3>3, <3>4
  <2> QED
    BY <2>1, <2>2, <2>3, <2>4 DEF ObMatched
<1> QED
  BY <1>9, <1>10, <1>13

(* Reading unread output.                                                  *)
LEMMA ObReads ==
  ASSUME ObInv, NEW take, take = IF Len(obData) < ObTake THEN Len(obData) ELSE ObTake,
         obData' = SubSeq(obData, take + 1, Len(obData)), obDropped' = 0,
         obRead' = obRead + take, obReported' = obReported + obDropped, obFeed' = obFeed
  PROVE  /\ obData' \in Seq(ObByte) /\ obRead' \in Nat /\ obReported' \in Nat /\ obDropped' \in Nat
         /\ ObBooks'
<1> USE DEF ObInv
<1>1. /\ obData \in Seq(ObByte) /\ obFeed \in Seq(ObByte)
      /\ obRead \in Nat /\ obReported \in Nat /\ obDropped \in Nat
  BY DEF ObTypes
<1>2. Len(obData) \in Nat /\ ObTake \in Nat
  BY <1>1, LenProperties, ObAssumption
<1>3. take \in Nat /\ take =< Len(obData)
  BY <1>2
<1>4. obData' \in Seq(ObByte) /\ ObEnds(obData', obData) /\ Len(obData') = Len(obData) - take
  BY <1>1, <1>3, ObRest
<1>5. ObEnds(obData, obFeed) /\ Len(obFeed) = obRead + obReported + obDropped + Len(obData)
  BY DEF ObBooks
<1>6. ObEnds(obData', obFeed)
  BY <1>1, <1>4, <1>5, ObEndsOfEnds
<1>10. Len(obFeed) \in Nat
  BY <1>1, LenProperties
<1>7. Len(obFeed) = (obRead + take) + (obReported + obDropped) + 0 + (Len(obData) - take)
  BY ONLY <1>1, <1>2, <1>3, <1>5, <1>10, ObCounts
<1>8. ObBooks'
  BY <1>4, <1>6, <1>7 DEF ObBooks
<1>9. obRead + take \in Nat /\ obReported + obDropped \in Nat
  BY <1>1, <1>3
<1> QED
  BY <1>4, <1>8, <1>9

LEMMA ObDrainKeeps ==
  ASSUME ObInv, ObDrain
  PROVE  ObInv'
<1> USE DEF ObInv
<1> DEFINE take == IF Len(obData) < ObTake THEN Len(obData) ELSE ObTake
<1>1. /\ obData' = SubSeq(obData, take + 1, Len(obData)) /\ obDropped' = 0
      /\ obRead' = obRead + take /\ obReported' = obReported + obDropped
      /\ UNCHANGED <<obFeed, obArmed, obTail, obOn, obNotified, obWakes>>
  BY DEF ObDrain
<1>2. /\ obData' \in Seq(ObByte) /\ obRead' \in Nat /\ obReported' \in Nat /\ obDropped' \in Nat
      /\ ObBooks'
  BY <1>1, ObReads
<1>3. ObTypes' /\ ObMatched'
  BY <1>1, <1>2 DEF ObTypes, ObMatched
<1> QED
  BY <1>2, <1>3

LEMMA ObArmKeeps ==
  ASSUME ObInv, ObArm
  PROVE  ObInv'
<1> USE DEF ObInv
<1> DEFINE take == IF Len(obData) < ObTake THEN Len(obData) ELSE ObTake
<1>1. /\ obData' = SubSeq(obData, take + 1, Len(obData)) /\ obDropped' = 0
      /\ obRead' = obRead + take /\ obReported' = obReported + obDropped
      /\ ~obOn /\ obTail' = <<>> /\ obOn' = TRUE
      /\ UNCHANGED <<obFeed, obArmed, obNotified, obWakes>>
  BY DEF ObArm
<1>2. /\ obData' \in Seq(ObByte) /\ obRead' \in Nat /\ obReported' \in Nat /\ obDropped' \in Nat
      /\ ObBooks'
  BY <1>1, ObReads
<1>3. <<>> \in Seq(ObByte) /\ Len(<<>>) = 0
  BY EmptySeq
<1>4. ObTypes'
  BY <1>1, <1>2, <1>3 DEF ObTypes
<1>5. obArmed = <<>>
  BY <1>1 DEF ObMatched
<1>6. ObEnds(<<>>, <<>>) /\ 0 =< ObKept
  BY <1>3, ObNeedleIs DEF ObEnds, ObKept
<1>7. ObMatched'
  BY <1>1, <1>3, <1>5, <1>6 DEF ObMatched
<1> QED
  BY <1>2, <1>4, <1>7

(***************************************************************************)
(* Nothing a process prints is lost unreported, and the awaited text wakes *)
(* the host exactly once: of any literal, in any chunks, with any bounds   *)
(* on the buffers (OutBuf, MatchState of process/output.rs).               *)
(***************************************************************************)
THEOREM OutBufSafety == ObSpec => []ObExact
<1>1. ObInit => ObInv
  <2> SUFFICES ASSUME ObInit PROVE ObInv
    OBVIOUS
  <2>1. <<>> \in Seq(ObByte) /\ Len(<<>>) = 0
    BY EmptySeq
  <2>2. ObTypes
    BY <2>1 DEF ObInit, ObTypes
  <2>3. ObBooks
    BY <2>1 DEF ObInit, ObBooks, ObEnds
  <2>4. ~ObSeen(<<>>)
    BY <2>1, ObNeedleIs DEF ObSeen
  <2>5. ObMatched
    BY <2>4 DEF ObInit, ObMatched
  <2> QED
    BY <2>2, <2>3, <2>5 DEF ObInv
<1>2. ObInv /\ [ObNext]_obVars => ObInv'
  <2> SUFFICES ASSUME ObInv, [ObNext]_obVars PROVE ObInv'
    OBVIOUS
  <2>1. ASSUME NEW n \in 1 .. ObChunk, NEW chunk \in [1 .. n -> ObByte], ObPush(chunk) PROVE ObInv'
    BY <2>1, ObChunkIs, ObPushKeeps
  <2>2. CASE UNCHANGED obVars
    BY <2>2 DEF ObInv, ObTypes, ObBooks, ObMatched, obVars
  <2> QED
    BY <2>1, <2>2, ObDrainKeeps, ObArmKeeps DEF ObNext
<1>3. ObInv => ObExact
  <2> SUFFICES ASSUME ObInv PROVE ObExact
    OBVIOUS
  <2>1. ObAccounted
    BY ObEndsIs DEF ObInv, ObTypes, ObBooks, ObAccounted
  <2>2. ObMatchExact
    BY ObSeenIs DEF ObInv, ObTypes, ObMatched, ObMatchExact
  <2> QED
    BY <2>1, <2>2 DEF ObExact
<1> QED
  BY <1>1, <1>2, <1>3, PTL DEF ObSpec

-----------------------------------------------------------------------------
(* ToolResults: the store of originals and the pages served from it        *)
TrEntry == [v : Nat, text : Seq(Nat)]
TrMaps == UNION {[D -> TrEntry] : D \in SUBSET TrId}
TrSize(m) == SumFunction([i \in DOMAIN m |-> Len(m[i].text)])
TrStores == [order : Seq(TrId), entries : TrMaps, bytes : Nat]

(* The store accounts for what it holds, whether within its budget or not. *)
TrBooks(s) ==
  /\ Unique(s.order) /\ Range(s.order) = DOMAIN s.entries /\ IsFiniteSet(DOMAIN s.entries)
  /\ s.bytes = TrSize(s.entries)

(* A map of entries: with one less, and with one more.                     *)
LEMMA TrMapIs ==
  ASSUME NEW m
  PROVE  m \in TrMaps <=> m \in [DOMAIN m -> TrEntry] /\ DOMAIN m \in SUBSET TrId
<1>1. ASSUME m \in TrMaps PROVE m \in [DOMAIN m -> TrEntry] /\ DOMAIN m \in SUBSET TrId
  <2>1. PICK D \in SUBSET TrId : m \in [D -> TrEntry]
    BY <1>1 DEF TrMaps
  <2>2. DOMAIN m = D
    BY <2>1
  <2> QED
    BY <2>1, <2>2
<1>2. ASSUME m \in [DOMAIN m -> TrEntry], DOMAIN m \in SUBSET TrId PROVE m \in TrMaps
  BY <1>2 DEF TrMaps
<1> QED
  BY <1>1, <1>2

LEMMA TrTextLen ==
  ASSUME NEW e \in TrEntry
  PROVE  e.text \in Seq(Nat) /\ Len(e.text) \in Nat
<1>1. e.text \in Seq(Nat)
  BY DEF TrEntry
<1> QED
  BY <1>1, LenProperties

LEMMA TrSizeIs ==
  ASSUME NEW m \in TrMaps, IsFiniteSet(DOMAIN m)
  PROVE  /\ [i \in DOMAIN m |-> Len(m[i].text)] \in [DOMAIN m -> Nat]
         /\ TrSize(m) \in Nat
<1> DEFINE f == [i \in DOMAIN m |-> Len(m[i].text)]
<1>1. \A i \in DOMAIN m : m[i] \in TrEntry
  BY TrMapIs
<1>2. \A i \in DOMAIN m : Len(m[i].text) \in Nat
  BY <1>1, TrTextLen
<1>3. f \in [DOMAIN m -> Nat]
  BY <1>2
<1> HIDE DEF f
<1>4. SumFunction(f) \in Nat
  BY <1>3, SumType
<1> QED
  BY <1>3, <1>4 DEF f, TrSize

LEMMA TrOneLess ==
  ASSUME NEW m \in TrMaps, IsFiniteSet(DOMAIN m), NEW id \in DOMAIN m
  PROVE  LET r == TrMapWithout(m, id)
         IN  /\ r \in TrMaps /\ DOMAIN r = DOMAIN m \ {id} /\ IsFiniteSet(DOMAIN r)
             /\ \A i \in DOMAIN r : r[i] = m[i]
             /\ m[id] \in TrEntry /\ TrSize(r) \in Nat
             /\ TrSize(m) = Len(m[id].text) + TrSize(r)
<1> DEFINE r == TrMapWithout(m, id)
<1>1. m \in [DOMAIN m -> TrEntry] /\ DOMAIN m \in SUBSET TrId
  BY TrMapIs
<1>2. /\ DOMAIN r = DOMAIN m \ {id} /\ \A i \in DOMAIN r : r[i] = m[i]
      /\ r \in [DOMAIN m \ {id} -> TrEntry]
  BY <1>1 DEF TrMapWithout
<1>3. IsFiniteSet(DOMAIN r)
  BY <1>2, FS_RemoveElement
<1> HIDE DEF r
<1>4. r \in TrMaps
  BY <1>1, <1>2, TrMapIs
<1> DEFINE f == [i \in DOMAIN m |-> Len(m[i].text)]
<1>5. f \in [DOMAIN m -> Nat] /\ f[id] = Len(m[id].text)
  BY TrSizeIs
<1>6. [x \in DOMAIN m \ {id} |-> f[x]] = [i \in DOMAIN r |-> Len(r[i].text)]
  BY <1>2
<1> HIDE DEF f
<1>7. SumFunction(f) = f[id] + SumFunction([x \in DOMAIN m \ {id} |-> f[x]])
  BY <1>5, SumRemove
<1>8. TrSize(m) = Len(m[id].text) + TrSize(r)
  BY <1>5, <1>6, <1>7 DEF TrSize, f
<1>9. TrSize(r) \in Nat
  BY <1>3, <1>4, TrSizeIs
<1> QED
  BY <1>1, <1>2, <1>3, <1>4, <1>8, <1>9 DEF r

LEMMA TrOneMore ==
  ASSUME NEW m \in TrMaps, IsFiniteSet(DOMAIN m), NEW id \in TrId, id \notin DOMAIN m,
         NEW e \in TrEntry
  PROVE  LET r == TrMapWith(m, id, e)
         IN  /\ r \in TrMaps /\ DOMAIN r = DOMAIN m \cup {id} /\ IsFiniteSet(DOMAIN r)
             /\ r[id] = e /\ \A i \in DOMAIN m : r[i] = m[i]
             /\ TrSize(r) = TrSize(m) + Len(e.text)
<1> DEFINE r == TrMapWith(m, id, e)
<1>1. m \in [DOMAIN m -> TrEntry] /\ DOMAIN m \in SUBSET TrId
  BY TrMapIs
<1>2. /\ DOMAIN r = DOMAIN m \cup {id} /\ r[id] = e /\ \A i \in DOMAIN m : r[i] = m[i]
      /\ r \in [DOMAIN m \cup {id} -> TrEntry]
  BY <1>1 DEF TrMapWith
<1>3. IsFiniteSet(DOMAIN r)
  BY <1>2, FS_AddElement
<1>4. m = [i \in DOMAIN m |-> m[i]]
  BY <1>1
<1> HIDE DEF r
<1>5. r \in TrMaps
  BY <1>1, <1>2, TrMapIs
<1>6. TrMapWithout(r, id) = m
  <2>1. DOMAIN r \ {id} = DOMAIN m
    BY <1>2
  <2>2. [i \in DOMAIN m |-> r[i]] = [i \in DOMAIN m |-> m[i]]
    BY <1>2
  <2> QED
    BY <2>1, <2>2, <1>4 DEF TrMapWithout
<1>7. TrSize(r) = Len(r[id].text) + TrSize(TrMapWithout(r, id))
  <2>1. id \in DOMAIN r
    BY <1>2
  <2> QED
    BY <2>1, <1>3, <1>5, TrOneLess
<1>8. TrSize(r) = TrSize(m) + Len(e.text)
  <2>1. TrSize(m) \in Nat /\ Len(e.text) \in Nat
    BY TrSizeIs, TrTextLen
  <2> QED
    BY <2>1, <1>2, <1>6, <1>7
<1> QED
  BY <1>2, <1>3, <1>5, <1>8 DEF r

LEMMA TrWithoutOther ==
  ASSUME NEW T, NEW q \in Seq(T), NEW x, x \notin Range(q)
  PROVE  Without(q, {x}) = q
<1>1. PICK n \in Nat : n = Len(q)
  BY LenProperties
<1>2. PICK f : IsKept(q, {x}, n, f) /\ Without(q, {x}) = f[n]
  BY <1>1, WithoutIs
<1>3. \A i \in 0 .. n :
        f[i] = IF i = 0 THEN <<>> ELSE IF q[i] \in {x} THEN f[i - 1] ELSE Append(f[i - 1], q[i])
  BY <1>2, Zenon DEF IsKept
<1>4. \A i \in 1 .. n : q[i] # x /\ q[i] \in T
  <2>1. DOMAIN q = 1 .. n
    BY <1>1, LenProperties
  <2> QED
    BY <2>1, <1>1, ElementOfSeq DEF Range
<1> DEFINE G == {i \in 0 .. n : f[i] \in Seq(T) /\ Len(f[i]) = i /\ \A j \in 1 .. i : f[i][j] = q[j]}
<1>5. 0 \in G
  <2>1. f[0] = <<>> /\ 0 \in 0 .. n
    BY <1>3
  <2>2. f[0] \in Seq(T) /\ Len(f[0]) = 0
    BY <2>1, QueueNone
  <2>3. \A j \in 1 .. 0 : f[0][j] = q[j]
    OBVIOUS
  <2> QED
    BY <2>1, <2>2, <2>3
<1>6. \A i \in 1 .. n : i - 1 \in G => i \in G
  <2> SUFFICES ASSUME NEW i \in 1 .. n, i - 1 \in G PROVE i \in G
    OBVIOUS
  <2>1. f[i] = Append(f[i - 1], q[i])
    <3>1. i \in 0 .. n /\ i # 0 /\ q[i] \notin {x}
      BY <1>4
    <3>2. f[i] = IF i = 0 THEN <<>> ELSE IF q[i] \in {x} THEN f[i - 1] ELSE Append(f[i - 1], q[i])
      BY <3>1, <1>3
    <3> QED
      BY ONLY <3>1, <3>2
  <2>2. f[i - 1] \in Seq(T) /\ Len(f[i - 1]) = i - 1 /\ \A j \in 1 .. i - 1 : f[i - 1][j] = q[j]
    OBVIOUS
  <2>3. /\ f[i] \in Seq(T) /\ Len(f[i]) = i - 1 + 1
        /\ \A j \in 1 .. i - 1 : f[i][j] = f[i - 1][j]
        /\ f[i][i - 1 + 1] = q[i]
    BY <2>1, <2>2, <1>4, QueueAppend
  <2>4. ASSUME NEW j \in 1 .. i PROVE f[i][j] = q[j]
    <3>1. CASE j = i
      <4>1. i - 1 + 1 = i
        OBVIOUS
      <4> QED
        BY ONLY <4>1, <2>3, <3>1
    <3>2. CASE j # i
      <4>1. j \in 1 .. i - 1
        BY <3>2
      <4> QED
        BY ONLY <4>1, <2>2, <2>3
    <3> QED
      BY <3>1, <3>2
  <2>5. i - 1 + 1 = i
    OBVIOUS
  <2>6. f[i] \in Seq(T) /\ Len(f[i]) = i /\ \A j \in 1 .. i : f[i][j] = q[j]
    BY ONLY <2>3, <2>4, <2>5
  <2> QED
    BY <2>6
<1>7. n \in G
  <2> HIDE DEF G
  <2>1. \A i \in 0 .. n : i \in G
    BY <1>5, <1>6, UpTo
  <2> QED
    BY <2>1
<1>8. f[n] \in Seq(T) /\ Len(f[n]) = n /\ \A j \in 1 .. n : f[n][j] = q[j]
  BY <1>7
<1> QED
  BY <1>1, <1>2, <1>8, SeqEqual

(* What is the end of a sequence stays it, when both get one entry more,   *)
(* and when an entry is taken out of both.                                 *)
LEMMA TrEndsAppend ==
  ASSUME NEW S, NEW s \in Seq(S), NEW t \in Seq(S), NEW x \in S, ObEnds(t, s)
  PROVE  ObEnds(Append(t, x), Append(s, x))
<1> DEFINE T == Append(t, x)
           R == Append(s, x)
<1>1. PICK m \in Nat, n \in Nat : m = Len(t) /\ n = Len(s)
  BY LenProperties
<1>2. Len(T) = m + 1 /\ T[m + 1] = x /\ \A i \in 1 .. m : T[i] = t[i]
  BY <1>1, QueueAppend
<1>3. Len(R) = n + 1 /\ R[n + 1] = x /\ \A i \in 1 .. n : R[i] = s[i]
  BY <1>1, QueueAppend
<1>4. m =< n /\ \A i \in 1 .. m : t[i] = s[n - m + i]
  BY <1>1 DEF ObEnds
<1> HIDE DEF T, R
<1>5. ASSUME NEW i \in 1 .. m + 1 PROVE T[i] = R[(n + 1) - (m + 1) + i]
  <2>1. (n + 1) - (m + 1) + i = n - m + i
    OBVIOUS
  <2>2. CASE i = m + 1
    <3>1. n - m + i = n + 1
      BY <2>2
    <3> QED
      BY <2>1, <2>2, <3>1, <1>2, <1>3
  <2>3. CASE i # m + 1
    <3>1. i \in 1 .. m /\ n - m + i \in 1 .. n
      BY <2>3, <1>4
    <3> QED
      BY <2>1, <3>1, <1>2, <1>3, <1>4
  <2> QED
    BY <2>2, <2>3
<1>6. Len(T) =< Len(R) /\ \A i \in 1 .. Len(T) : T[i] = R[Len(R) - Len(T) + i]
  BY <1>2, <1>3, <1>4, <1>5
<1> QED
  BY <1>6 DEF ObEnds, T, R

LEMMA TrEndsWithout ==
  ASSUME NEW T, NEW l \in Seq(T), NEW o \in Seq(T), NEW S, ObEnds(o, l)
  PROVE  ObEnds(Without(o, S), Without(l, S))
<1>1. PICK m \in Nat, n \in Nat : m = Len(o) /\ n = Len(l)
  BY LenProperties
<1>2. PICK f : IsKept(o, S, m, f) /\ Without(o, S) = f[m]
  BY <1>1, WithoutIs
<1>3. PICK g : IsKept(l, S, n, g) /\ Without(l, S) = g[n]
  BY <1>1, WithoutIs
<1>4. \A i \in 0 .. m :
        f[i] = IF i = 0 THEN <<>> ELSE IF o[i] \in S THEN f[i - 1] ELSE Append(f[i - 1], o[i])
  BY <1>2, Zenon DEF IsKept
<1>5. \A i \in 0 .. n :
        g[i] = IF i = 0 THEN <<>> ELSE IF l[i] \in S THEN g[i - 1] ELSE Append(g[i - 1], l[i])
  BY <1>3, Zenon DEF IsKept
<1>6. /\ \A i \in 1 .. m : o[i] \in T
      /\ \A i \in 1 .. n : l[i] \in T
  BY <1>1, ElementOfSeq
<1>7. m =< n /\ \A i \in 1 .. m : o[i] = l[n - m + i]
  BY <1>1 DEF ObEnds
<1>8. \A i \in 0 .. n : g[i] \in Seq(T)
  <2> DEFINE G == {i \in 0 .. n : g[i] \in Seq(T)}
  <2>1. 0 \in G
    <3>1. g[0] = <<>> /\ 0 \in 0 .. n
      BY <1>5
    <3> QED
      BY <3>1, QueueNone
  <2>2. \A i \in 1 .. n : i - 1 \in G => i \in G
    <3> SUFFICES ASSUME NEW i \in 1 .. n, i - 1 \in G PROVE i \in G
      OBVIOUS
    <3>1. g[i - 1] \in Seq(T) /\ l[i] \in T
      BY <1>6
    <3>2. Append(g[i - 1], l[i]) \in Seq(T)
      BY <3>1
    <3>3. g[i] = IF l[i] \in S THEN g[i - 1] ELSE Append(g[i - 1], l[i])
      BY <1>5
    <3>4. g[i] \in Seq(T)
      BY <3>1, <3>2, <3>3
    <3> QED
      BY <3>4
  <2>3. \A i \in 0 .. n : i \in G
    <3> HIDE DEF G
    <3> QED
      BY <2>1, <2>2, UpTo
  <2> QED
    BY <2>3
<1> DEFINE H == {i \in 0 .. m : f[i] \in Seq(T) /\ ObEnds(f[i], g[n - m + i])}
<1>9. 0 \in H
  <2>1. f[0] = <<>> /\ g[n - m] \in Seq(T) /\ n - m + 0 = n - m
    BY <1>4, <1>7, <1>8
  <2>2. Len(g[n - m]) \in Nat /\ Len(<<>>) = 0 /\ <<>> \in Seq(T)
    BY <2>1, LenProperties, QueueNone
  <2>3. ObEnds(<<>>, g[n - m])
    BY <2>2 DEF ObEnds
  <2>4. 0 \in 0 .. m
    OBVIOUS
  <2> QED
    BY <2>1, <2>2, <2>3, <2>4
<1>10. \A i \in 1 .. m : i - 1 \in H => i \in H
  <2> SUFFICES ASSUME NEW i \in 1 .. m, i - 1 \in H PROVE i \in H
    OBVIOUS
  <2> DEFINE k == n - m + i
  <2>1. /\ k \in 1 .. n /\ n - m + (i - 1) = k - 1 /\ k - 1 \in 0 .. n /\ o[i] = l[k] /\ o[i] \in T
    BY <1>6, <1>7
  <2>2. f[i - 1] \in Seq(T) /\ g[k - 1] \in Seq(T) /\ ObEnds(f[i - 1], g[k - 1])
    BY <2>1, <1>8
  <2>3. /\ f[i] = IF o[i] \in S THEN f[i - 1] ELSE Append(f[i - 1], o[i])
        /\ g[k] = IF o[i] \in S THEN g[k - 1] ELSE Append(g[k - 1], o[i])
    BY <2>1, <1>4, <1>5
  <2> HIDE DEF k
  <2>4. Append(f[i - 1], o[i]) \in Seq(T) /\ ObEnds(Append(f[i - 1], o[i]), Append(g[k - 1], o[i]))
    BY <2>1, <2>2, TrEndsAppend, QueueAppend
  <2>5. f[i] \in Seq(T) /\ ObEnds(f[i], g[k])
    BY <2>2, <2>3, <2>4
  <2> QED
    BY <2>5 DEF k
<1>11. m \in H
  <2> HIDE DEF H
  <2>1. \A i \in 0 .. m : i \in H
    BY <1>9, <1>10, UpTo
  <2> QED
    BY <2>1
<1>12. n - m + m = n
  OBVIOUS
<1> QED
  BY <1>2, <1>3, <1>11, <1>12

(* An old entry of the same id is taken out.                               *)
LEMMA TrWithoutIs ==
  ASSUME NEW s \in TrStores, TrBooks(s), NEW id \in TrId, NEW log \in Seq(TrId), ObEnds(s.order, log)
  PROVE  LET w == TrWithout(s, id)
         IN  /\ w \in TrStores /\ TrBooks(w) /\ id \notin DOMAIN w.entries
             /\ ObEnds(w.order, Without(log, {id}))
<1> DEFINE w == TrWithout(s, id)
           q == Without(s.order, {id})
           r == TrMapWithout(s.entries, id)
<1>1. s.order \in Seq(TrId) /\ s.entries \in TrMaps /\ s.bytes \in Nat
  BY DEF TrStores
<1>2. /\ Unique(s.order) /\ Range(s.order) = DOMAIN s.entries /\ IsFiniteSet(DOMAIN s.entries)
      /\ s.bytes = TrSize(s.entries)
  BY DEF TrBooks
<1>3. /\ q \in Seq(TrId) /\ Unique(q)
      /\ \A x : x \in Range(q) <=> x \in Range(s.order) /\ x \notin {id}
  BY <1>1, <1>2, WithoutKeeps
<1>4. ObEnds(q, Without(log, {id}))
  BY <1>1, TrEndsWithout
<1>5. CASE id \in DOMAIN s.entries
  <2>1. w = [order |-> q, entries |-> r, bytes |-> s.bytes - Len(s.entries[id].text)]
    BY <1>5 DEF TrWithout
  <2>2. /\ r \in TrMaps /\ DOMAIN r = DOMAIN s.entries \ {id} /\ IsFiniteSet(DOMAIN r)
        /\ s.entries[id] \in TrEntry /\ TrSize(r) \in Nat
        /\ TrSize(s.entries) = Len(s.entries[id].text) + TrSize(r)
    BY <1>1, <1>2, <1>5, TrOneLess
  <2>3. Len(s.entries[id].text) \in Nat
    BY <2>2, TrTextLen
  <2>4. s.bytes - Len(s.entries[id].text) = TrSize(r)
    BY <1>1, <1>2, <2>2, <2>3
  <2>5. Range(q) = DOMAIN r
    BY <1>2, <1>3, <2>2
  <2> HIDE DEF w, q, r
  <2>6. w \in TrStores
    BY <2>1, <2>2, <2>4, <1>3 DEF TrStores
  <2>7. TrBooks(w) /\ id \notin DOMAIN w.entries /\ w.order = q
    BY <2>1, <2>2, <2>4, <2>5, <1>3 DEF TrBooks
  <2> QED
    BY <2>6, <2>7, <1>4 DEF w
<1>6. CASE id \notin DOMAIN s.entries
  <2>1. w = s
    BY <1>6 DEF TrWithout
  <2>2. q = s.order
    BY <1>1, <1>2, <1>6, TrWithoutOther
  <2> HIDE DEF w, q
  <2> QED
    BY <2>1, <2>2, <1>4, <1>6 DEF w
<1> QED
  BY <1>5, <1>6

(* The oldest entry goes.                                                  *)
LEMMA TrPopIs ==
  ASSUME NEW s \in TrStores, TrBooks(s), s.bytes > TrBudget, s.order # <<>>
  PROVE  LET t == TrPop(s)
         IN  /\ t \in TrStores /\ TrBooks(t) /\ ObEnds(t.order, s.order)
             /\ Len(t.order) = Len(s.order) - 1
             /\ \A i \in DOMAIN t.entries : i \in DOMAIN s.entries /\ t.entries[i] = s.entries[i]
<1> DEFINE t == TrPop(s)
           id == Head(s.order)
           q == Tail(s.order)
           r == TrMapWithout(s.entries, id)
<1>1. s.order \in Seq(TrId) /\ s.entries \in TrMaps /\ s.bytes \in Nat /\ TrBudget \in Nat
  BY TrAssumption DEF TrStores
<1>2. /\ Unique(s.order) /\ Range(s.order) = DOMAIN s.entries /\ IsFiniteSet(DOMAIN s.entries)
      /\ s.bytes = TrSize(s.entries)
  BY DEF TrBooks
<1>3. t = [order |-> q, entries |-> r, bytes |-> s.bytes - Len(s.entries[id].text)]
  BY <1>1 DEF TrPop
<1>4. Unique(q) /\ Range(q) = DOMAIN s.entries \ {id} /\ id \in DOMAIN s.entries
  BY <1>1, <1>2, TailUnique
<1>5. /\ q \in Seq(TrId) /\ Len(q) = Len(s.order) - 1
      /\ \A i \in 1 .. Len(s.order) - 1 : q[i] = s.order[i + 1]
      /\ Len(s.order) \in Nat
  BY <1>1, QueueTail
<1>6. /\ r \in TrMaps /\ DOMAIN r = DOMAIN s.entries \ {id} /\ IsFiniteSet(DOMAIN r)
      /\ \A i \in DOMAIN r : r[i] = s.entries[i]
      /\ s.entries[id] \in TrEntry /\ TrSize(r) \in Nat
      /\ TrSize(s.entries) = Len(s.entries[id].text) + TrSize(r)
  BY <1>1, <1>2, <1>4, TrOneLess
<1>7. Len(s.entries[id].text) \in Nat
  BY <1>6, TrTextLen
<1>8. s.bytes - Len(s.entries[id].text) = TrSize(r)
  BY <1>1, <1>2, <1>6, <1>7
<1> HIDE DEF t, id, q, r
<1>9. ObEnds(q, s.order)
  <2>1. \A i \in 1 .. Len(q) : q[i] = s.order[i + 1] /\ Len(s.order) - Len(q) + i = i + 1
    BY <1>5
  <2>2. Len(q) =< Len(s.order)
    BY <1>5
  <2> QED
    BY <2>1, <2>2 DEF ObEnds
<1>10. t \in TrStores
  BY <1>3, <1>5, <1>6, <1>8 DEF TrStores
<1>11. t.order = q /\ t.entries = r /\ TrBooks(t)
  BY <1>3, <1>4, <1>6, <1>8 DEF TrBooks
<1> QED
  BY <1>5, <1>6, <1>9, <1>10, <1>11 DEF t

(* A single entry is all there is.                                         *)
LEMMA TrOnlyEntry ==
  ASSUME NEW s \in TrStores, TrBooks(s), Len(s.order) = 1
  PROVE  s.bytes = Len(s.entries[s.order[1]].text)
<1> DEFINE id == s.order[1]
           r == TrMapWithout(s.entries, id)
<1>1. s.order \in Seq(TrId) /\ s.entries \in TrMaps /\ s.bytes \in Nat
  BY DEF TrStores
<1>2. /\ Range(s.order) = DOMAIN s.entries /\ IsFiniteSet(DOMAIN s.entries)
      /\ s.bytes = TrSize(s.entries)
  BY DEF TrBooks
<1>3. DOMAIN s.order = 1 .. 1
  BY <1>1, LenProperties
<1>4. Range(s.order) = {id}
  BY <1>3 DEF Range
<1>5. id \in DOMAIN s.entries
  BY <1>2, <1>4
<1>6. /\ r \in TrMaps /\ DOMAIN r = DOMAIN s.entries \ {id} /\ IsFiniteSet(DOMAIN r)
      /\ s.entries[id] \in TrEntry
      /\ TrSize(s.entries) = Len(s.entries[id].text) + TrSize(r)
  BY <1>1, <1>2, <1>5, TrOneLess
<1>7. TrSize(r) = 0
  <2>1. DOMAIN r = {}
    BY <1>2, <1>4, <1>6
  <2> HIDE DEF r
  <2>2. [i \in DOMAIN r |-> Len(r[i].text)] = [x \in {} |-> 0]
    BY <2>1
  <2>3. SumFunction([x \in {} |-> 0]) = 0
    BY SumNothing, FS_EmptySet
  <2> QED
    BY <2>2, <2>3 DEF TrSize
<1>8. Len(s.entries[id].text) \in Nat
  BY <1>6, TrTextLen
<1> QED
  BY <1>2, <1>6, <1>7, <1>8

(* The loop of evictions: it ends, and where.                              *)
TrEvicting(s, f) ==
  f = [n \in 0 .. Len(s.order) |-> IF n = 0 THEN s ELSE TrPop(f[n - 1])]
LEMMA TrEvictLoops ==
  ASSUME NEW s, Len(s.order) \in Nat, NEW X, s \in X, \A t \in X : TrPop(t) \in X
  PROVE  \E f \in [0 .. Len(s.order) -> X] :
           /\ TrEvict(s) = f[Len(s.order)] /\ f[0] = s
           /\ \A i \in 1 .. Len(s.order) : f[i] = TrPop(f[i - 1])
<1>1. PICK m \in Nat : m = Len(s.order)
  OBVIOUS
<1> DEFINE F == [z \in X \X (1 .. m) |-> TrPop(z[1])]
<1>2. \A t \in X, i \in 1 .. m : F[<<t, i>>] = TrPop(t)
  OBVIOUS
<1> HIDE DEF F
<1>3. \A t \in X, i \in 1 .. m : F[<<t, i>>] \in X
  BY <1>2
<1>4. PICK g : Loops(X, s, m, F, g)
  BY ONLY <1>3, m \in Nat, s \in X, LoopExists
<1>5. g \in [0 .. m -> X]
  BY <1>4 DEF Loops
<1>6. \A i \in 0 .. m : g[i] = IF i = 0 THEN s ELSE TrPop(g[i - 1])
  <2> TAKE i \in 0 .. m
  <2>1. CASE i = 0
    BY <1>4, <2>1 DEF Loops
  <2>2. CASE i # 0
    <3>1. i \in 1 .. m /\ g[i - 1] \in X
      BY <1>5, <2>2
    <3>2. g[i] = F[<<g[i - 1], i>>]
      BY <1>4, <3>1 DEF Loops
    <3> QED
      BY <1>2, <2>2, <3>1, <3>2
  <2> QED
    BY <2>1, <2>2
<1>7. g = [i \in 0 .. m |-> IF i = 0 THEN s ELSE TrPop(g[i - 1])]
  BY <1>5, <1>6
<1>8. TrEvicting(s, g)
  BY <1>1, <1>7 DEF TrEvicting
<1> DEFINE f == CHOOSE h : TrEvicting(s, h)
<1>9. TrEvict(s) = f[Len(s.order)]
  BY DEF TrEvict, TrEvicting
<1>10. TrEvicting(s, f)
  BY <1>8
<1> HIDE DEF f
<1>11. \A i \in 0 .. m : f[i] = IF i = 0 THEN s ELSE TrPop(f[i - 1])
  BY <1>1, <1>10, Zenon DEF TrEvicting
<1>12. f[0] = s /\ \A i \in 1 .. m : f[i] = TrPop(f[i - 1])
  <2>1. 0 \in 0 .. m /\ \A i \in 1 .. m : i \in 0 .. m /\ i # 0
    OBVIOUS
  <2> QED
    BY <1>11, <2>1
<1>13. \A i \in 0 .. m : f[i] \in X
  <2> DEFINE G == {i \in 0 .. m : f[i] \in X}
  <2>1. 0 \in G
    BY <1>12
  <2>2. \A i \in 1 .. m : i - 1 \in G => i \in G
    BY <1>12
  <2>3. \A i \in 0 .. m : i \in G
    <3> HIDE DEF G
    <3> QED
      BY <2>1, <2>2, UpTo
  <2> QED
    BY <2>3
<1>14. f \in [0 .. m -> X]
  <2>1. f = [i \in 0 .. m |-> IF i = 0 THEN s ELSE TrPop(f[i - 1])]
    BY <1>1, <1>10, Zenon DEF TrEvicting
  <2> DEFINE e == [i \in 0 .. m |-> f[i]]
  <2>2. [i \in 0 .. m |-> IF i = 0 THEN s ELSE TrPop(f[i - 1])] = e
    BY <1>11
  <2>3. e \in [0 .. m -> X]
    BY <1>13
  <2> QED
    BY <2>1, <2>2, <2>3
<1> QED
  BY <1>1, <1>9, <1>14, <1>12

LEMMA TrEvictNothing ==
  ASSUME NEW s \in TrStores, s.bytes <= TrBudget
  PROVE  TrEvict(s) = s
<1>1. Len(s.order) \in Nat
  <2>1. s.order \in Seq(TrId)
    BY DEF TrStores
  <2> QED
    BY <2>1, LenProperties
<1>2. s \in {s} /\ \A t \in {s} : TrPop(t) \in {s}
  BY DEF TrPop
<1>3. PICK f \in [0 .. Len(s.order) -> {s}] : TrEvict(s) = f[Len(s.order)]
  BY <1>1, <1>2, TrEvictLoops
<1> QED
  BY <1>1, <1>3

(* The newest entry fits, so the loop stops before it.                     *)
TrNewestFits(s) ==
  /\ s.order # <<>>
  /\ Len(s.entries[s.order[Len(s.order)]].text) <= TrBudget

LEMMA TrPopFits ==
  ASSUME NEW s \in TrStores, TrBooks(s), TrNewestFits(s), s.bytes > TrBudget
  PROVE  TrNewestFits(TrPop(s)) /\ Len(TrPop(s).order) = Len(s.order) - 1
<1> DEFINE t == TrPop(s)
<1>1. /\ t \in TrStores /\ TrBooks(t) /\ ObEnds(t.order, s.order)
      /\ Len(t.order) = Len(s.order) - 1
      /\ \A i \in DOMAIN t.entries : t.entries[i] = s.entries[i]
  BY TrPopIs DEF TrNewestFits
<1> HIDE DEF t
<1>2. t.order \in Seq(TrId) /\ s.order \in Seq(TrId) /\ s.bytes \in Nat /\ TrBudget \in Nat
  BY <1>1, TrAssumption DEF TrStores
<1>3. PICK n \in Nat : n = Len(s.order)
  BY <1>2, LenProperties
<1>4. n # 0
  BY <1>2, <1>3, EmptySeq DEF TrNewestFits
<1>5. n # 1
  <2>1. CASE n = 1
    <3>1. s.bytes = Len(s.entries[s.order[1]].text)
      BY <2>1, <1>3, TrOnlyEntry
    <3>2. s.bytes <= TrBudget
      BY <3>1, <2>1, <1>3 DEF TrNewestFits
    <3> QED
      BY <3>2, <1>2
  <2> QED
    BY <2>1
<1>6. t.order # <<>> /\ DOMAIN t.order = 1 .. (n - 1) /\ n - 1 \in 1 .. (n - 1)
  <2>1. Len(t.order) = n - 1 /\ n - 1 # 0
    BY <1>1, <1>3, <1>5
  <2>2. t.order # <<>>
    BY <1>2, <2>1, EmptySeq
  <2>3. DOMAIN t.order = 1 .. (n - 1)
    BY <1>2, <2>1, LenProperties
  <2> QED
    BY <2>2, <2>3, <1>3, <1>4, <1>5
<1>7. t.order[n - 1] = s.order[n]
  <2>1. Len(s.order) - Len(t.order) + (n - 1) = n
    BY <1>1, <1>3
  <2> QED
    BY <2>1, <1>1, <1>3, <1>6 DEF ObEnds
<1>8. t.order[n - 1] \in DOMAIN t.entries
  BY <1>1, <1>6 DEF TrBooks, Range
<1>9. Len(t.entries[t.order[Len(t.order)]].text) <= TrBudget
  BY <1>1, <1>3, <1>7, <1>8 DEF TrNewestFits
<1> QED
  BY <1>1, <1>6, <1>9 DEF TrNewestFits, t

LEMMA TrEvictIs ==
  ASSUME NEW s \in TrStores, TrBooks(s), TrNewestFits(s)
  PROVE  LET r == TrEvict(s)
         IN  /\ r \in TrStores /\ TrBooks(r) /\ r.bytes <= TrBudget
             /\ ObEnds(r.order, s.order) /\ r.order # <<>>
<1> DEFINE X == {t \in TrStores : TrBooks(t) /\ TrNewestFits(t) /\ ObEnds(t.order, s.order)}
<1>1. s.order \in Seq(TrId) /\ TrBudget \in Nat
  BY TrAssumption DEF TrStores
<1>2. PICK n \in Nat : n = Len(s.order)
  BY <1>1, LenProperties
<1>3. s \in X
  BY <1>1, <1>2 DEF ObEnds
<1>4. ASSUME NEW t \in X PROVE /\ TrPop(t) \in X
                               /\ \/ t.bytes <= TrBudget /\ TrPop(t) = t
                                  \/ Len(TrPop(t).order) = Len(t.order) - 1
  <2>1. t \in TrStores /\ TrBooks(t) /\ TrNewestFits(t) /\ ObEnds(t.order, s.order)
    BY <1>4
  <2>2. t.order \in Seq(TrId) /\ t.bytes \in Nat
    BY <2>1 DEF TrStores
  <2>3. CASE t.bytes <= TrBudget
    BY <2>3 DEF TrPop
  <2>4. CASE ~(t.bytes <= TrBudget)
    <3>1. t.bytes > TrBudget /\ t.order # <<>>
      BY <2>1, <2>2, <2>4, <1>1 DEF TrNewestFits
    <3>2. TrPop(t) \in TrStores /\ TrBooks(TrPop(t)) /\ ObEnds(TrPop(t).order, t.order)
      BY <2>1, <3>1, TrPopIs
    <3>3. TrNewestFits(TrPop(t)) /\ Len(TrPop(t).order) = Len(t.order) - 1
      BY <2>1, <3>1, TrPopFits
    <3>4. TrPop(t).order \in Seq(TrId)
      BY <3>2 DEF TrStores
    <3>5. ObEnds(TrPop(t).order, s.order)
      BY <2>1, <2>2, <3>2, <3>4, <1>1, ObEndsOfEnds
    <3> QED
      BY <3>2, <3>3, <3>5
  <2> QED
    BY <2>3, <2>4
<1> HIDE DEF X
<1>5. PICK f \in [0 .. n -> X] :
        TrEvict(s) = f[n] /\ f[0] = s /\ \A i \in 1 .. n : f[i] = TrPop(f[i - 1])
  BY <1>2, <1>3, <1>4, TrEvictLoops
<1>6. \A i \in 0 .. n : f[i] \in X
  BY <1>5
<1>7. \A t \in X : /\ t \in TrStores /\ TrBooks(t) /\ TrNewestFits(t) /\ ObEnds(t.order, s.order)
                   /\ t.order \in Seq(TrId) /\ Len(t.order) \in Nat \ {0}
  <2> TAKE t \in X
  <2>1. t \in TrStores /\ TrBooks(t) /\ TrNewestFits(t) /\ ObEnds(t.order, s.order)
    BY DEF X
  <2>2. t.order \in Seq(TrId)
    BY <2>1 DEF TrStores
  <2>3. t.order # <<>>
    BY <2>1 DEF TrNewestFits
  <2>4. Len(t.order) \in Nat \ {0}
    BY <2>2, <2>3, LenProperties, EmptySeq
  <2> QED
    BY <2>1, <2>2, <2>4
<1> DEFINE G == {i \in 0 .. n : f[i].bytes <= TrBudget \/ Len(f[i].order) <= n - i}
<1>8. 0 \in G
  BY <1>2, <1>5
<1>9. ASSUME NEW i \in 1 .. n, i - 1 \in G PROVE i \in G
  <2>1. f[i - 1] \in X /\ f[i] = TrPop(f[i - 1])
    BY <1>5, <1>6
  <2>2. f[i - 1].bytes <= TrBudget \/ Len(f[i - 1].order) <= n - (i - 1)
    BY <1>9
  <2>3. \/ f[i - 1].bytes <= TrBudget /\ f[i] = f[i - 1]
        \/ Len(f[i].order) = Len(f[i - 1].order) - 1
    BY <2>1, <1>4
  <2>4. CASE f[i - 1].bytes <= TrBudget
    <3>1. f[i] = f[i - 1]
      BY <2>1, <2>4 DEF TrPop
    <3> QED
      BY <3>1, <2>4
  <2>5. CASE ~(f[i - 1].bytes <= TrBudget)
    <3>1. Len(f[i - 1].order) \in Nat
      BY <2>1, <1>7
    <3>2. Len(f[i].order) <= n - i
      BY <2>2, <2>3, <2>5, <3>1
    <3> QED
      BY <3>2
  <2> QED
    BY <2>4, <2>5
<1>10. n \in G
  <2> HIDE DEF G
  <2>1. \A i \in 0 .. n : i \in G
    BY <1>8, <1>9, UpTo
  <2> QED
    BY <2>1
<1>11. f[n] \in X /\ f[n].bytes <= TrBudget
  <2>1. f[n] \in X /\ Len(f[n].order) \in Nat \ {0}
    BY <1>6, <1>7
  <2> QED
    BY <2>1, <1>10
<1> QED
  BY <1>5, <1>7, <1>11 DEF TrNewestFits

(* The store as it stands after any number of operations, with the log of  *)
(* what was stored.                                                        *)
TrRight(s, log) ==
  /\ s \in TrStores /\ TrBooks(s) /\ s.bytes <= TrBudget
  /\ log \in Seq(TrId) /\ ObEnds(s.order, log) /\ (log # <<>> => s.order # <<>>)

LEMMA TrInsertIs ==
  ASSUME NEW s, NEW log, TrRight(s, log), NEW id \in TrId, NEW e \in TrEntry
  PROVE  TrRight(TrInsert(s, id, e), TrLogged(log, id, e))
<1>1. CASE ~TrStorable(e.text)
  BY <1>1 DEF TrInsert, TrLogged
<1>2. CASE TrStorable(e.text)
  <2> DEFINE w == TrWithout(s, id)
             l == Without(log, {id})
             m == TrMapWith(w.entries, id, e)
             b == w.bytes + Len(e.text)
             a == [order |-> Append(w.order, id), entries |-> m, bytes |-> b]
             r == TrEvict(a)
  <2>1. s \in TrStores /\ TrBooks(s) /\ log \in Seq(TrId) /\ ObEnds(s.order, log)
    BY DEF TrRight
  <2>2. TrInsert(s, id, e) = r /\ TrLogged(log, id, e) = Append(l, id)
    BY <1>2 DEF TrInsert, TrLogged
  <2>3. w \in TrStores /\ TrBooks(w) /\ id \notin DOMAIN w.entries /\ ObEnds(w.order, l)
    BY <2>1, TrWithoutIs
  <2>4. l \in Seq(TrId)
    BY <2>1, WithoutKeeps
  <2> HIDE DEF w, l
  <2>5. w.order \in Seq(TrId) /\ w.entries \in TrMaps /\ w.bytes \in Nat
    BY <2>3 DEF TrStores
  <2>6. /\ Unique(w.order) /\ Range(w.order) = DOMAIN w.entries /\ IsFiniteSet(DOMAIN w.entries)
        /\ w.bytes = TrSize(w.entries)
    BY <2>3 DEF TrBooks
  <2>7. Len(e.text) \in Nat
    BY TrTextLen
  <2>8. /\ m \in TrMaps /\ DOMAIN m = DOMAIN w.entries \cup {id} /\ IsFiniteSet(DOMAIN m)
        /\ m[id] = e /\ TrSize(m) = TrSize(w.entries) + Len(e.text)
    <3>1. w.entries \in TrMaps /\ IsFiniteSet(DOMAIN w.entries) /\ id \notin DOMAIN w.entries
      BY <2>3, <2>5, <2>6
    <3> QED
      BY <3>1, TrOneMore
  <2>9. b \in Nat /\ b = TrSize(m)
    BY <2>5, <2>6, <2>7, <2>8
  <2>10. Unique(Append(w.order, id)) /\ Range(Append(w.order, id)) = DOMAIN m
    BY <2>3, <2>5, <2>6, <2>8, AppendUnique
  <2>11. /\ Append(w.order, id) \in Seq(TrId) /\ Append(w.order, id) # <<>>
         /\ Append(w.order, id)[Len(Append(w.order, id))] = id
         /\ Append(l, id) \in Seq(TrId)
    BY <2>4, <2>5, QueueAppend
  <2>12. ObEnds(Append(w.order, id), Append(l, id))
    BY <2>3, <2>4, <2>5, TrEndsAppend
  <2> HIDE DEF m, b
  <2>13. a \in TrStores
    BY <2>8, <2>9, <2>11 DEF TrStores
  <2>14. a.order = Append(w.order, id) /\ a.entries = m /\ TrBooks(a)
    BY <2>8, <2>9, <2>10 DEF TrBooks
  <2>15. TrNewestFits(a)
    BY <1>2, <2>8, <2>11, <2>14 DEF TrNewestFits, TrStorable
  <2> HIDE DEF a
  <2>16. /\ r \in TrStores /\ TrBooks(r) /\ r.bytes <= TrBudget
         /\ ObEnds(r.order, a.order) /\ r.order # <<>>
    BY <2>13, <2>14, <2>15, TrEvictIs
  <2> HIDE DEF r
  <2>17. r.order \in Seq(TrId)
    BY <2>16 DEF TrStores
  <2>18. ObEnds(r.order, Append(l, id))
    BY <2>11, <2>12, <2>14, <2>16, <2>17, ObEndsOfEnds
  <2> QED
    BY <2>2, <2>11, <2>16, <2>18 DEF TrRight
<1> QED
  BY <1>1, <1>2

TrResults == [id : TrId, e : TrEntry]

(* Compaction: a store that was right is right after each result put in.   *)
TrEliding(x, results, f) ==
  f = [n \in 0 .. Len(results) |-> IF n = 0 THEN x ELSE TrElide(f[n - 1], results[n])]
LEMMA TrElidedIs ==
  ASSUME NEW s, NEW log, TrRight(s, log), NEW results \in Seq(TrResults)
  PROVE  LET x == TrElided([store |-> s, log |-> log], results) IN TrRight(x.store, x.log)
<1> DEFINE X == {y \in [store : TrStores, log : Seq(TrId)] : TrRight(y.store, y.log)}
           x == [store |-> s, log |-> log]
<1>1. PICK m \in Nat : m = Len(results)
  BY LenProperties
<1>2. x \in X
  BY DEF TrRight
<1>3. ASSUME NEW y \in X, NEW i \in 1 .. m PROVE TrElide(y, results[i]) \in X
  <2> DEFINE r == results[i]
             t == TrInsert(y.store, r.id, r.e)
             l == TrLogged(y.log, r.id, r.e)
  <2>1. r \in TrResults
    BY <1>1, ElementOfSeq
  <2>2. r.id \in TrId /\ r.e \in TrEntry
    BY <2>1 DEF TrResults
  <2>3. TrRight(t, l)
    BY <2>2, TrInsertIs
  <2> HIDE DEF t, l, r
  <2>4. [store |-> t, log |-> l] \in X
    BY <2>3 DEF TrRight
  <2>5. TrElide(y, r) = IF Len(r.e.text) < TrElideMin THEN y ELSE [store |-> t, log |-> l]
    BY DEF TrElide, t, l
  <2> QED
    BY <2>4, <2>5 DEF r
<1> DEFINE F == [z \in X \X (1 .. m) |-> TrElide(z[1], results[z[2]])]
<1> HIDE DEF X, x
<1>4. \A y \in X, i \in 1 .. m : F[<<y, i>>] = TrElide(y, results[i])
  OBVIOUS
<1> HIDE DEF F
<1>5. \A y \in X, i \in 1 .. m : F[<<y, i>>] \in X
  BY <1>3, <1>4
<1>6. PICK g : Loops(X, x, m, F, g)
  BY ONLY <1>5, m \in Nat, <1>2, LoopExists
<1>7. g \in [0 .. m -> X]
  BY <1>6 DEF Loops
<1>8. \A i \in 0 .. m : g[i] = IF i = 0 THEN x ELSE TrElide(g[i - 1], results[i])
  <2> TAKE i \in 0 .. m
  <2>1. CASE i = 0
    BY <1>6, <2>1 DEF Loops
  <2>2. CASE i # 0
    <3>1. i \in 1 .. m /\ g[i - 1] \in X
      BY <1>7, <2>2
    <3>2. g[i] = F[<<g[i - 1], i>>]
      BY <1>6, <3>1 DEF Loops
    <3> QED
      BY <1>4, <2>2, <3>1, <3>2
  <2> QED
    BY <2>1, <2>2
<1>9. g = [i \in 0 .. m |-> IF i = 0 THEN x ELSE TrElide(g[i - 1], results[i])]
  BY <1>7, <1>8
<1>10. TrEliding(x, results, g)
  BY <1>1, <1>9 DEF TrEliding
<1> DEFINE f == CHOOSE h : TrEliding(x, results, h)
<1>11. TrElided(x, results) = f[Len(results)]
  BY DEF TrElided, TrEliding
<1>12. TrEliding(x, results, f)
  BY <1>10
<1> HIDE DEF f
<1>13. \A i \in 0 .. m : f[i] = IF i = 0 THEN x ELSE TrElide(f[i - 1], results[i])
  BY <1>1, <1>12, Zenon DEF TrEliding
<1> DEFINE G == {i \in 0 .. m : f[i] \in X}
<1>14. 0 \in G
  BY <1>2, <1>13
<1>15. ASSUME NEW i \in 1 .. m, i - 1 \in G PROVE i \in G
  <2>1. f[i - 1] \in X /\ i \in 0 .. m /\ i # 0
    BY <1>15
  <2>2. f[i] = TrElide(f[i - 1], results[i])
    BY <2>1, <1>13
  <2>3. f[i] \in X
    BY <2>1, <2>2, <1>3
  <2> QED
    BY <2>1, <2>3
<1>16. m \in G
  <2> HIDE DEF G
  <2>1. \A i \in 0 .. m : i \in G
    BY <1>14, <1>15, UpTo
  <2> QED
    BY <2>1
<1>17. f[m] \in X
  BY <1>16
<1> QED
  BY <1>1, <1>11, <1>17 DEF X, x

(* The store as it was when it held the first k of its entries.            *)
TrPartMap(s, k) == [i \in {s.order[j] : j \in 1 .. k} |-> s.entries[i]]
TrPart(s, k) ==
  [order |-> SubSeq(s.order, 1, k), entries |-> TrPartMap(s, k), bytes |-> TrSize(TrPartMap(s, k))]

LEMMA TrEntryOf ==
  ASSUME NEW s \in TrStores, TrBooks(s), NEW k \in 1 .. Len(s.order)
  PROVE  /\ s.order[k] \in TrId /\ s.order[k] \in DOMAIN s.entries
         /\ s.entries[s.order[k]] \in TrEntry
<1>1. s.order \in Seq(TrId) /\ s.entries \in TrMaps /\ Range(s.order) = DOMAIN s.entries
  BY DEF TrStores, TrBooks
<1>2. k \in DOMAIN s.order /\ s.order[k] \in TrId
  BY <1>1, LenProperties, ElementOfSeq
<1>3. s.order[k] \in DOMAIN s.entries
  BY <1>1, <1>2 DEF Range
<1>4. s.entries \in [DOMAIN s.entries -> TrEntry]
  BY <1>1, TrMapIs
<1> QED
  BY <1>2, <1>3, <1>4

LEMMA TrPartStep ==
  ASSUME NEW s \in TrStores, TrBooks(s), NEW k \in 1 .. Len(s.order), TrPart(s, k - 1) \in TrStores,
         TrBooks(TrPart(s, k - 1))
  PROVE  LET p == TrPart(s, k - 1)
             id == s.order[k]
         IN  /\ id \notin DOMAIN p.entries
             /\ TrPart(s, k) = [order   |-> Append(p.order, id),
                                entries |-> TrMapWith(p.entries, id, s.entries[id]),
                                bytes   |-> p.bytes + Len(s.entries[id].text)]
             /\ TrPart(s, k) \in TrStores /\ TrBooks(TrPart(s, k))
<1> DEFINE p == TrPart(s, k - 1)
           id == s.order[k]
           e == s.entries[id]
           m == TrPartMap(s, k - 1)
           r == TrMapWith(m, id, e)
<1>1. s.order \in Seq(TrId) /\ Unique(s.order)
  BY DEF TrStores, TrBooks
<1>2. PICK n \in Nat : n = Len(s.order) /\ DOMAIN s.order = 1 .. n
  BY <1>1, LenProperties
<1>3. k \in 1 .. n /\ k - 1 \in 0 .. n /\ k \in Nat /\ k - 1 \in Nat
  BY <1>2
<1>4. id \in TrId /\ e \in TrEntry
  BY TrEntryOf
<1>5. id \notin {s.order[j] : j \in 1 .. (k - 1)}
  <2> SUFFICES ASSUME NEW j \in 1 .. (k - 1), s.order[j] = id PROVE FALSE
    OBVIOUS
  <2>1. j \in DOMAIN s.order /\ k \in DOMAIN s.order /\ j # k
    BY <1>2, <1>3
  <2> QED
    BY <2>1, <1>1 DEF Unique
<1>6. DOMAIN m = {s.order[j] : j \in 1 .. (k - 1)}
  BY DEF TrPartMap
<1>7. r = TrPartMap(s, k)
  <2>1. {s.order[j] : j \in 1 .. k} = {s.order[j] : j \in 1 .. (k - 1)} \cup {id}
    <3>1. \A j \in 1 .. k : j \in 1 .. (k - 1) \/ j = k
      BY <1>3
    <3>2. k \in 1 .. k /\ \A j \in 1 .. (k - 1) : j \in 1 .. k
      BY <1>3
    <3> QED
      BY <3>1, <3>2
  <2>2. \A i \in DOMAIN m \cup {id} : (IF i = id THEN e ELSE m[i]) = s.entries[i]
    BY DEF TrPartMap
  <2> HIDE DEF e, id, m
  <2>3. r = [i \in DOMAIN m \cup {id} |-> s.entries[i]]
    BY <2>2 DEF TrMapWith
  <2> QED
    BY <2>1, <2>3, <1>6 DEF TrPartMap
<1>8. p.entries = m /\ p.order = SubSeq(s.order, 1, k - 1) /\ p.bytes = TrSize(m)
  BY DEF TrPart
<1>9. m \in TrMaps /\ IsFiniteSet(DOMAIN m) /\ p.order \in Seq(TrId) /\ p.bytes \in Nat
  BY <1>8 DEF TrStores, TrBooks
<1>10. Unique(p.order) /\ Range(p.order) = DOMAIN m
  BY <1>8 DEF TrBooks
<1> HIDE DEF p, m, r, id, e
<1>11. id \notin DOMAIN m
  BY <1>5, <1>6
<1>12. r \in TrMaps /\ DOMAIN r = DOMAIN m \cup {id} /\ IsFiniteSet(DOMAIN r) /\ TrSize(r) = TrSize(m) + Len(e.text)
  BY <1>4, <1>9, <1>11, TrOneMore DEF r
<1>13. Append(p.order, id) = SubSeq(s.order, 1, k)
  <2> DEFINE a == Append(p.order, id)
             b == SubSeq(s.order, 1, k)
  <2>1. /\ Len(p.order) = k - 1
        /\ \A i \in 1 .. (k - 1) : p.order[i] = s.order[i]
    <3>1. 1 \in Nat /\ 1 >= 1 /\ k - 1 <= Len(s.order)
      BY <1>2, <1>3
    <3>2. /\ Len(SubSeq(s.order, 1, k - 1)) = IF 1 =< k - 1 THEN k - 1 - 1 + 1 ELSE 0
          /\ \A i \in 1 .. k - 1 - 1 + 1 : SubSeq(s.order, 1, k - 1)[i] = s.order[1 + i - 1]
      BY <1>1, <1>3, <3>1, PartIs
    <3>3. /\ k - 1 = 0 \/ 1 =< k - 1
          /\ k - 1 - 1 + 1 = k - 1 /\ \A i \in 1 .. (k - 1) : 1 + i - 1 = i
      BY <1>3
    <3>4. p.order = SubSeq(s.order, 1, k - 1) /\ k - 1 \in Nat
      BY <1>3, <1>8
    <3> QED
      BY ONLY <3>2, <3>3, <3>4
  <2>2. /\ b \in Seq(TrId) /\ Len(b) = k
        /\ \A i \in 1 .. k : b[i] = s.order[i]
    <3>1. 1 \in Nat /\ 1 >= 1 /\ k <= Len(s.order)
      BY <1>2, <1>3
    <3>2. /\ b \in Seq(TrId) /\ Len(b) = IF 1 =< k THEN k - 1 + 1 ELSE 0
          /\ \A i \in 1 .. k - 1 + 1 : b[i] = s.order[1 + i - 1]
      BY <1>1, <1>3, <3>1, PartIs
    <3>3. 1 =< k /\ k - 1 + 1 = k /\ \A i \in 1 .. k : i \in 1 .. k - 1 + 1 /\ 1 + i - 1 = i
      BY <1>3
    <3> QED
      BY ONLY <3>2, <3>3
  <2>3. /\ a \in Seq(TrId) /\ Len(a) = Len(p.order) + 1 /\ a[Len(p.order) + 1] = id
        /\ \A i \in 1 .. Len(p.order) : a[i] = p.order[i]
    BY <1>4, <1>9, QueueAppend
  <2> HIDE DEF a, b
  <2>4. Len(a) = k /\ a[k] = id
    <3>1. k - 1 + 1 = k
      BY <1>3
    <3> QED
      BY ONLY <2>1, <2>3, <3>1
  <2>5. ASSUME NEW i \in 1 .. k PROVE a[i] = b[i]
    <3>1. CASE i = k
      BY <2>2, <2>4, <3>1 DEF id
    <3>2. CASE i # k
      <4>1. i \in 1 .. (k - 1)
        BY <3>2, <1>3
      <4> QED
        BY ONLY <4>1, <2>1, <2>2, <2>3
    <3> QED
      BY <3>1, <3>2
  <2>6. a = b
    BY <2>2, <2>3, <2>4, <2>5, SeqEqual
  <2> QED
    BY <2>6 DEF a, b
<1>14. TrPart(s, k) = [order |-> Append(p.order, id), entries |-> r, bytes |-> p.bytes + Len(e.text)]
  BY <1>7, <1>8, <1>12, <1>13 DEF TrPart
<1>15. Unique(Append(p.order, id)) /\ Range(Append(p.order, id)) = DOMAIN r
  BY <1>4, <1>9, <1>10, <1>11, <1>12, AppendUnique
<1>16. Append(p.order, id) \in Seq(TrId) /\ Len(e.text) \in Nat
  BY <1>4, <1>9, QueueAppend, TrTextLen
<1>17. TrPart(s, k) \in TrStores
  <2>1. p.bytes + Len(e.text) \in Nat
    BY <1>9, <1>16
  <2> QED
    BY <2>1, <1>12, <1>14, <1>16 DEF TrStores
<1>18. TrBooks(TrPart(s, k))
  BY <1>8, <1>12, <1>14, <1>15 DEF TrBooks
<1> QED
  BY <1>8, <1>11, <1>14, <1>17, <1>18 DEF p, id, e, r

LEMMA TrEmptyIs ==
  TrEmpty \in TrStores /\ TrBooks(TrEmpty) /\ TrSize(<<>>) = 0
<1>1. TrSize(<<>>) = 0
  <2>1. [i \in DOMAIN <<>> |-> Len(<<>>[i].text)] = [x \in {} |-> 0]
    OBVIOUS
  <2>2. SumFunction([x \in {} |-> 0]) = 0
    BY SumNothing, FS_EmptySet
  <2> QED
    BY <2>1, <2>2 DEF TrSize
<1>2. <<>> \in TrMaps
  <2>1. DOMAIN <<>> = {} /\ <<>> \in [{} -> TrEntry]
    OBVIOUS
  <2> QED
    BY <2>1, TrMapIs
<1>3. TrEmpty \in TrStores
  BY <1>2, QueueNone DEF TrEmpty, TrStores
<1>4. TrBooks(TrEmpty)
  <2>1. DOMAIN <<>> = {} /\ IsFiniteSet({}) /\ Unique(<<>>) /\ Range(<<>>) = {}
    BY FS_EmptySet DEF Unique, Range
  <2> QED
    BY <2>1, <1>1 DEF TrBooks, TrEmpty
<1> QED
  BY <1>1, <1>3, <1>4

LEMMA TrPartNone ==
  ASSUME NEW s \in TrStores
  PROVE  TrPart(s, 0) = TrEmpty
<1>1. TrPartMap(s, 0) = <<>>
  <2>1. {s.order[j] : j \in 1 .. 0} = {}
    OBVIOUS
  <2>2. TrPartMap(s, 0) = [i \in {} |-> s.entries[i]]
    BY <2>1 DEF TrPartMap
  <2>3. [i \in {} |-> s.entries[i]] = <<>>
    OBVIOUS
  <2> QED
    BY <2>2, <2>3
<1>2. SubSeq(s.order, 1, 0) = <<>>
  <2>1. s.order \in Seq(TrId)
    BY DEF TrStores
  <2>2. 1 \in Nat /\ 1 >= 1 /\ 0 \in Nat /\ 0 <= Len(s.order)
    BY <2>1, LenProperties
  <2>3. SubSeq(s.order, 1, 0) \in Seq(TrId) /\ Len(SubSeq(s.order, 1, 0)) = IF 1 =< 0 THEN 0 - 1 + 1 ELSE 0
    BY <2>1, <2>2, PartIs
  <2> QED
    BY <2>3, EmptySeq
<1> QED
  BY <1>1, <1>2, TrEmptyIs DEF TrPart, TrEmpty

LEMMA TrPartAll ==
  ASSUME NEW s \in TrStores, TrBooks(s)
  PROVE  TrPart(s, Len(s.order)) = s
<1>1. /\ s.order \in Seq(TrId) /\ s.entries \in TrMaps /\ Range(s.order) = DOMAIN s.entries
      /\ s.bytes = TrSize(s.entries)
      /\ s = [order |-> s.order, entries |-> s.entries, bytes |-> s.bytes]
  BY DEF TrStores, TrBooks
<1>2. PICK n \in Nat : n = Len(s.order) /\ DOMAIN s.order = 1 .. n
  BY <1>1, LenProperties
<1>3. SubSeq(s.order, 1, n) = s.order
  BY <1>1, <1>2, PartWhole
<1>4. TrPartMap(s, n) = s.entries
  <2>1. {s.order[j] : j \in 1 .. n} = DOMAIN s.entries
    BY <1>1, <1>2 DEF Range
  <2>2. s.entries = [i \in DOMAIN s.entries |-> s.entries[i]]
    BY <1>1, TrMapIs
  <2> QED
    BY <2>1, <2>2 DEF TrPartMap
<1> QED
  BY <1>1, <1>2, <1>3, <1>4 DEF TrPart

(* Each part is a store within the budget, and the next follows from it by *)
(* one insertion.                                                          *)
LEMMA TrPartsAre ==
  ASSUME NEW s \in TrStores, TrBooks(s), s.bytes <= TrBudget, NEW n \in Nat, n = Len(s.order)
  PROVE  \A k \in 0 .. n :
           TrPart(s, k) \in TrStores /\ TrBooks(TrPart(s, k)) /\ TrPart(s, k).bytes <= TrBudget
<1> DEFINE G == {k \in 0 .. n : TrPart(s, k) \in TrStores /\ TrBooks(TrPart(s, k))}
           H == {k \in 0 .. n : TrPart(s, n - k).bytes <= TrBudget}
<1>1. 0 \in G
  <2>1. TrPart(s, 0) = TrEmpty
    BY TrPartNone
  <2> QED
    BY <2>1, TrEmptyIs
<1>2. ASSUME NEW k \in 1 .. n, k - 1 \in G PROVE k \in G
  <2>1. TrPart(s, k - 1) \in TrStores /\ TrBooks(TrPart(s, k - 1)) /\ k \in 1 .. Len(s.order)
    BY <1>2
  <2>2. TrPart(s, k) \in TrStores /\ TrBooks(TrPart(s, k))
    BY <2>1, TrPartStep
  <2> QED
    BY <2>2
<1>3. \A k \in 0 .. n : k \in G
  <2> HIDE DEF G
  <2> QED
    BY <1>1, <1>2, UpTo
<1>4. 0 \in H
  BY TrPartAll
<1>5. ASSUME NEW k \in 1 .. n, k - 1 \in H PROVE k \in H
  <2> DEFINE j == n - (k - 1)
  <2>1. j \in 1 .. Len(s.order) /\ j - 1 = n - k /\ n - k \in 0 .. n /\ j \in 0 .. n
    OBVIOUS
  <2>2. TrPart(s, j).bytes <= TrBudget
    BY <1>5
  <2> HIDE DEF j
  <2>3. TrPart(s, j - 1) \in TrStores /\ TrBooks(TrPart(s, j - 1)) /\ TrPart(s, j) \in TrStores
    BY <2>1, <1>3
  <2>4. TrPart(s, j) = [order   |-> Append(TrPart(s, j - 1).order, s.order[j]),
                        entries |-> TrMapWith(TrPart(s, j - 1).entries, s.order[j], s.entries[s.order[j]]),
                        bytes   |-> TrPart(s, j - 1).bytes + Len(s.entries[s.order[j]].text)]
    BY <2>1, <2>3, TrPartStep
  <2>5. TrPart(s, j).bytes = TrPart(s, j - 1).bytes + Len(s.entries[s.order[j]].text)
    BY <2>4
  <2>6. Len(s.entries[s.order[j]].text) \in Nat
    BY <2>1, TrEntryOf, TrTextLen
  <2>7. TrPart(s, j - 1).bytes \in Nat /\ TrBudget \in Nat
    BY <2>3, TrAssumption DEF TrStores
  <2>8. TrPart(s, j - 1).bytes <= TrBudget
    BY ONLY <2>2, <2>5, <2>6, <2>7
  <2> QED
    BY <2>1, <2>8
<1>6. \A k \in 0 .. n : k \in H
  <2> HIDE DEF H
  <2> QED
    BY <1>4, <1>5, UpTo
<1>7. ASSUME NEW k \in 0 .. n PROVE TrPart(s, k).bytes <= TrBudget
  <2>1. n - k \in H /\ n - (n - k) = k
    BY <1>6
  <2> QED
    BY <2>1
<1> QED
  BY <1>3, <1>7

LEMMA TrPartInserts ==
  ASSUME NEW s \in TrStores, TrBooks(s), s.bytes <= TrBudget, NEW k \in 1 .. Len(s.order)
  PROVE  TrInsert(TrPart(s, k - 1), s.order[k], s.entries[s.order[k]]) = TrPart(s, k)
<1> DEFINE p == TrPart(s, k - 1)
           id == s.order[k]
           e == s.entries[id]
<1>1. s.order \in Seq(TrId)
  BY DEF TrStores
<1>2. PICK n \in Nat : n = Len(s.order)
  BY <1>1, LenProperties
<1>3. k \in 0 .. n /\ k - 1 \in 0 .. n
  BY <1>2
<1>4. /\ p \in TrStores /\ TrBooks(p)
      /\ TrPart(s, k) \in TrStores /\ TrPart(s, k).bytes <= TrBudget
  BY <1>2, <1>3, TrPartsAre
<1>5. /\ id \notin DOMAIN p.entries
      /\ TrPart(s, k) = [order   |-> Append(p.order, id),
                         entries |-> TrMapWith(p.entries, id, e),
                         bytes   |-> p.bytes + Len(e.text)]
  BY <1>4, TrPartStep
<1>6. e \in TrEntry
  BY TrEntryOf
<1> HIDE DEF p, id, e
<1>7. Len(e.text) \in Nat /\ p.bytes \in Nat /\ TrBudget \in Nat
  BY <1>4, <1>6, TrTextLen, TrAssumption DEF TrStores
<1>8. TrPart(s, k).bytes = p.bytes + Len(e.text)
  BY <1>5
<1>9. TrStorable(e.text)
  BY <1>4, <1>7, <1>8 DEF TrStorable
<1>10. TrWithout(p, id) = p
  BY <1>5 DEF TrWithout
<1>11. TrInsert(p, id, e) = TrEvict(TrPart(s, k))
  BY <1>5, <1>9, <1>10 DEF TrInsert
<1>12. TrEvict(TrPart(s, k)) = TrPart(s, k)
  BY <1>4, TrEvictNothing
<1> QED
  BY <1>11, <1>12 DEF p, id, e

(* Loading what was saved.                                                 *)
TrLoading(saved, f) ==
  f = [n \in 0 .. Len(saved) |->
         IF n = 0 THEN TrEmpty ELSE TrInsert(f[n - 1], saved[n].id, saved[n].e)]
LEMMA TrLoadedIs ==
  ASSUME NEW s \in TrStores, TrBooks(s), s.bytes <= TrBudget
  PROVE  TrLoaded(TrSaved(s)) = s
<1> DEFINE saved == TrSaved(s)
<1>1. s.order \in Seq(TrId)
  BY DEF TrStores
<1>2. PICK n \in Nat : n = Len(s.order)
  BY <1>1, LenProperties
<1>3. /\ Len(saved) = n
      /\ \A k \in 1 .. n : saved[k].id = s.order[k] /\ saved[k].e = s.entries[s.order[k]]
  <2>1. saved = [k \in 1 .. n |-> [id |-> s.order[k], e |-> s.entries[s.order[k]]]]
    BY <1>2 DEF TrSaved
  <2> DEFINE R == {[id |-> s.order[k], e |-> s.entries[s.order[k]]] : k \in 1 .. n}
  <2>2. saved \in [1 .. n -> R]
    BY <2>1
  <2> HIDE DEF R
  <2>3. saved \in Seq(R)
    BY <2>2, SeqDef
  <2>4. DOMAIN saved = 1 .. n /\ DOMAIN saved = 1 .. Len(saved) /\ Len(saved) \in Nat
    BY <2>2, <2>3, LenProperties
  <2>5. Len(saved) = n
    BY <2>4
  <2> QED
    BY <2>1, <2>5
<1> HIDE DEF saved
<1>4. \A k \in 1 .. n : TrInsert(TrPart(s, k - 1), saved[k].id, saved[k].e) = TrPart(s, k)
  BY <1>2, <1>3, TrPartInserts
<1>5. TrPart(s, 0) = TrEmpty /\ TrPart(s, n) = s
  BY <1>2, TrPartNone, TrPartAll
<1> DEFINE g == [k \in 0 .. n |-> TrPart(s, k)]
<1>6. TrLoading(saved, g)
  <2>1. \A k \in 0 .. n :
          TrPart(s, k) = IF k = 0 THEN TrEmpty ELSE TrInsert(g[k - 1], saved[k].id, saved[k].e)
    <3>1. \A k \in 1 .. n : g[k - 1] = TrPart(s, k - 1)
      OBVIOUS
    <3>2. \A k \in 0 .. n : k = 0 \/ k \in 1 .. n
      OBVIOUS
    <3> HIDE DEF g
    <3> QED
      BY <3>1, <3>2, <1>4, <1>5
  <2> DEFINE h == [k \in 0 .. n |-> IF k = 0 THEN TrEmpty ELSE TrInsert(g[k - 1], saved[k].id, saved[k].e)]
  <2>2. g = h
    BY <2>1
  <2> QED
    BY <2>2, <1>3 DEF TrLoading
<1> DEFINE f == CHOOSE h : TrLoading(saved, h)
<1>7. TrLoaded(saved) = f[n]
  BY <1>3 DEF TrLoaded, TrLoading
<1>8. TrLoading(saved, f)
  <2> HIDE DEF g
  <2> QED
    BY <1>6
<1> HIDE DEF f, g
<1>9. \A k \in 0 .. n : f[k] = IF k = 0 THEN TrEmpty ELSE TrInsert(f[k - 1], saved[k].id, saved[k].e)
  BY <1>3, <1>8, Zenon DEF TrLoading
<1> DEFINE G == {k \in 0 .. n : f[k] = TrPart(s, k)}
<1>10. 0 \in G
  BY <1>5, <1>9
<1>11. ASSUME NEW k \in 1 .. n, k - 1 \in G PROVE k \in G
  <2>1. k \in 0 .. n /\ k # 0 /\ f[k - 1] = TrPart(s, k - 1)
    BY <1>11
  <2>2. f[k] = TrInsert(f[k - 1], saved[k].id, saved[k].e)
    BY <2>1, <1>9
  <2>3. f[k] = TrPart(s, k)
    BY <2>1, <2>2, <1>4
  <2> QED
    BY <2>1, <2>3
<1>12. n \in G
  <2> HIDE DEF G
  <2>1. \A k \in 0 .. n : k \in G
    BY <1>10, <1>11, UpTo
  <2> QED
    BY <2>1
<1> QED
  BY <1>5, <1>7, <1>12 DEF saved

(* What ends a sequence is its suffix.                                     *)
LEMMA TrEndIsSuffix ==
  ASSUME NEW S, NEW s \in Seq(S), NEW t \in Seq(S), ObEnds(s, t)
  PROVE  IsSuffix(s, t)
<1>1. PICK m \in Nat, n \in Nat : m = Len(s) /\ n = Len(t)
  BY LenProperties
<1> DEFINE u == Reverse(s)
           v == Reverse(t)
<1>2. u \in Seq(S) /\ Len(u) = m /\ \A i \in 1 .. m : u[i] = s[m - i + 1]
  BY <1>1, ReverseIs
<1>3. v \in Seq(S) /\ Len(v) = n /\ \A i \in 1 .. n : v[i] = t[n - i + 1]
  BY <1>1, ReverseIs
<1> HIDE DEF u, v
<1>4. m =< n /\ \A i \in 1 .. m : s[i] = t[n - m + i]
  BY <1>1 DEF ObEnds
<1>5. \A i \in 1 .. m : u[i] = v[i]
  <2> TAKE i \in 1 .. m
  <2> DEFINE k == m - i + 1
  <2>1. k \in 1 .. m /\ i \in 1 .. n /\ n - m + k = n - i + 1
    BY <1>4
  <2>2. s[k] = t[n - m + k]
    BY <1>4, <2>1
  <2> QED
    BY <1>2, <1>3, <2>1, <2>2
<1>6. IsPrefix(u, v)
  BY <1>2, <1>3, <1>4, <1>5, PrefixIs
<1> QED
  BY <1>6 DEF IsSuffix, u, v

(* What follows of a store that is right.                                  *)
LEMMA TrRightSo ==
  ASSUME NEW s, NEW log, TrRight(s, log)
  PROVE  /\ s.bytes = SumFunction([i \in DOMAIN s.entries |-> Len(s.entries[i].text)])
         /\ s.bytes <= TrBudget
         /\ IsInjective(s.order) /\ ToSet(s.order) = DOMAIN s.entries
         /\ IsSuffix(s.order, log) /\ (log # <<>> => s.order # <<>>)
         /\ TrLoaded(TrSaved(s)) = s
<1>1. s \in TrStores /\ TrBooks(s) /\ s.bytes <= TrBudget
  BY DEF TrRight
<1>2. s.order \in Seq(TrId) /\ log \in Seq(TrId)
  BY <1>1 DEF TrStores, TrRight
<1>3. s.bytes = SumFunction([i \in DOMAIN s.entries |-> Len(s.entries[i].text)])
  BY <1>1 DEF TrBooks, TrSize
<1>4. IsInjective(s.order) /\ ToSet(s.order) = DOMAIN s.entries
  BY <1>1 DEF TrBooks, IsInjective, Unique, ToSet, Range
<1>5. IsSuffix(s.order, log)
  BY <1>2, TrEndIsSuffix DEF TrRight
<1>6. TrLoaded(TrSaved(s)) = s
  BY <1>1, TrLoadedIs
<1> QED
  BY <1>1, <1>3, <1>4, <1>5, <1>6 DEF TrRight

(* The caller that pages: with one entry only, it has that up to `next`.   *)
TrPaging(r) ==
  /\ r.next \in Nat /\ r.got \in Seq(Nat) /\ r.from \subseteq TrEntry
  /\ ~r.on => r.from = {} /\ r.got = <<>>
  /\ r.on => r.from # {}
  /\ \A e \in TrEntry :
       r.on /\ r.from = {e} =>
         /\ r.next <= Len(e.text) /\ r.got = SubSeq(e.text, 1, r.next)
         /\ r.more <=> r.next < Len(e.text)

(* All of it.  The sidecar holds a store that was right when it was saved. *)
TrInv ==
  /\ trCount \in Nat /\ trContext \in Seq(TrResults)
  /\ TrRight(trStore, trLog)
  /\ \E s : TrRight(s, trFile.log) /\ trFile.saved = TrSaved(s)
  /\ TrPaging(trReader)

LEMMA TrNobodyPages == TrPaging(TrNobody)
<1>1. <<>> \in Seq(Nat) /\ {} \subseteq TrEntry
  BY QueueNone
<1> QED
  BY <1>1 DEF TrPaging, TrNobody

LEMMA TrNothingRight == TrRight(TrEmpty, <<>>)
<1>1. <<>> \in Seq(TrId) /\ Len(<<>>) = 0
  BY QueueNone
<1>2. ObEnds(<<>>, <<>>)
  BY <1>1 DEF ObEnds
<1> QED
  BY <1>1, <1>2, TrEmptyIs, TrAssumption DEF TrRight, TrEmpty

(* A page: the least of two numbers ends it.                               *)
LEMMA TrLeastIs ==
  ASSUME NEW a \in Nat, NEW b \in Nat
  PROVE  /\ Min({a, b}) \in Nat /\ Min({a, b}) <= a /\ Min({a, b}) <= b
         /\ Min({a, b}) = a \/ Min({a, b}) = b
<1>1. \E x \in {a, b} : \A y \in {a, b} : x =< y
  OBVIOUS
<1> QED
  BY <1>1 DEF Min

LEMMA TrPageKeeps ==
  ASSUME TrInv, NEW id \in TrId, NEW max \in TrPages, TrPage(id, max)
  PROVE  TrPaging(trReader')
<1> DEFINE r == trReader
           offset == IF r.on THEN r.next ELSE 0
           e == trStore.entries[id]
           k == Min({offset + max, Len(e.text)})
           page == SubSeq(e.text, offset + 1, k)
           end == TrNextOffset(offset, page)
<1>1. r.next \in Nat /\ r.got \in Seq(Nat) /\ max \in Nat
  BY TrAssumption DEF TrInv, TrPaging
<1>2. offset \in Nat
  BY <1>1
<1>3. e \in TrEntry
  <2>1. trStore.entries \in TrMaps /\ id \in DOMAIN trStore.entries
    BY DEF TrInv, TrRight, TrStores, TrPage
  <2>2. trStore.entries \in [DOMAIN trStore.entries -> TrEntry]
    BY <2>1, TrMapIs
  <2> QED
    BY <2>1, <2>2
<1>4. e.text \in Seq(Nat) /\ Len(e.text) \in Nat
  BY <1>3, TrTextLen
<1>5. trReader' = [on |-> TRUE, id |-> id, from |-> r.from \cup {e}, got |-> r.got \o page,
                   next |-> end, more |-> end < Len(e.text)]
  BY DEF TrPage
<1>6. r.on => r.from # {} /\ r.more
  BY DEF TrPage, TrInv, TrPaging
<1>7. ~r.on => r.from = {} /\ r.got = <<>>
  BY DEF TrInv, TrPaging
<1>8. r.from \cup {e} \subseteq TrEntry
  BY <1>3 DEF TrInv, TrPaging
<1>9. \A d \in TrEntry : r.on /\ r.from = {d} =>
        /\ r.next <= Len(d.text) /\ r.got = SubSeq(d.text, 1, r.next)
        /\ r.more <=> r.next < Len(d.text)
  BY DEF TrInv, TrPaging
<1> HIDE DEF r, e
<1>10. k \in Nat /\ k <= offset + max /\ k <= Len(e.text) /\ (k = offset + max \/ k = Len(e.text))
  <2>1. offset + max \in Nat
    BY <1>1, <1>2
  <2> HIDE DEF offset
  <2> QED
    BY <2>1, <1>4, TrLeastIs
<1>11. /\ page \in Seq(Nat)
       /\ Len(page) = IF offset + 1 =< k THEN k - (offset + 1) + 1 ELSE 0
  <2> HIDE DEF offset, k
  <2>1. offset + 1 \in Nat /\ offset + 1 >= 1
    BY <1>2
  <2> QED
    BY <2>1, <1>4, <1>10, PartIs
<1>12. end = offset + Len(page) /\ end \in Nat
  <2> HIDE DEF offset, k, page
  <2> QED
    BY <1>2, <1>10, <1>11 DEF TrNextOffset
<1>13. r.got \o page \in Seq(Nat)
  <2> HIDE DEF page
  <2> QED
    BY <1>1, <1>11, JoinIs
<1>14. ASSUME NEW d \in TrEntry, r.from \cup {e} = {d}
       PROVE  /\ end <= Len(d.text) /\ r.got \o page = SubSeq(d.text, 1, end)
              /\ end < Len(e.text) <=> end < Len(d.text)
  <2>1. d = e /\ (r.from = {} \/ r.from = {e})
    BY <1>14
  <2>2. offset <= Len(e.text) /\ r.got = SubSeq(e.text, 1, offset)
    <3>1. CASE r.on
      <4>1. r.from = {e}
        BY <2>1, <3>1, <1>6
      <4> QED
        BY <3>1, <4>1, <1>3, <1>9
    <3>2. CASE ~r.on
      <4>1. offset = 0 /\ r.got = <<>>
        BY <3>2, <1>7
      <4>2. 1 \in Nat /\ 1 >= 1 /\ 0 \in Nat /\ 0 <= Len(e.text)
        BY <1>4
      <4>3. SubSeq(e.text, 1, 0) \in Seq(Nat) /\ Len(SubSeq(e.text, 1, 0)) = IF 1 =< 0 THEN 0 - 1 + 1 ELSE 0
        BY <1>4, <4>2, PartIs
      <4>4. SubSeq(e.text, 1, 0) = <<>>
        BY <4>3, EmptySeq
      <4> QED
        BY <4>1, <4>2, <4>4
    <3> QED
      BY <3>1, <3>2
  <2> HIDE DEF offset, k
  <2>3. offset <= k
    BY <2>2, <1>1, <1>2, <1>4, <1>10
  <2>4. /\ SubSeq(e.text, 1, offset) \o SubSeq(e.text, offset + 1, k) = SubSeq(e.text, 1, k)
        /\ Len(SubSeq(e.text, offset + 1, k)) = k - offset
    BY <2>3, <1>2, <1>4, <1>10, PartsJoin
  <2> HIDE DEF end
  <2>5. end = k
    BY <2>4, <1>2, <1>10, <1>12
  <2> QED
    BY <2>1, <2>2, <2>4, <2>5, <1>10
<1> HIDE DEF offset, k, page, end
<1>15. /\ trReader'.on = TRUE /\ trReader'.from = r.from \cup {e} /\ trReader'.got = r.got \o page
       /\ trReader'.next = end /\ trReader'.more = (end < Len(e.text))
  BY <1>5
<1>16. \A d \in TrEntry :
         trReader'.on /\ trReader'.from = {d} =>
           /\ trReader'.next <= Len(d.text) /\ trReader'.got = SubSeq(d.text, 1, trReader'.next)
           /\ trReader'.more <=> trReader'.next < Len(d.text)
  <2> TAKE d \in TrEntry
  <2> HAVE trReader'.on /\ trReader'.from = {d}
  <2>1. r.from \cup {e} = {d}
    BY <1>15
  <2>2. /\ end <= Len(d.text) /\ r.got \o page = SubSeq(d.text, 1, end)
        /\ end < Len(e.text) <=> end < Len(d.text)
    BY <2>1, <1>14
  <2> QED
    BY <2>2, <1>15
<1> QED
  BY <1>8, <1>12, <1>13, <1>15, <1>16 DEF TrPaging

(* A result, in the conversation as it is or cut.                          *)
LEMMA TrAfterToolKeeps ==
  ASSUME TrInv, NEW id \in TrId, NEW n \in TrSizes, TrAfterTool(id, n)
  PROVE  TrInv'
<1> DEFINE e == [v |-> trCount + 1, text |-> TrWhole(n)]
           t == IF n > TrLimit THEN TrCut(TrWhole(n)) ELSE TrWhole(n)
           c == [id |-> id, e |-> [e EXCEPT !.text = IF n > TrLimit THEN TrCut(@) ELSE @]]
<1>1. n \in Nat /\ TrLimit \in Nat /\ trCount \in Nat /\ trContext \in Seq(TrResults)
  BY TrAssumption DEF TrInv
<1>2. TrWhole(n) \in Seq(Nat) /\ Len(TrWhole(n)) = n
  <2> DEFINE w == TrWhole(n)
  <2>1. w \in [1 .. n -> Nat]
    BY <1>1 DEF TrWhole
  <2>2. w \in Seq(Nat)
    BY <1>1, <2>1, SeqDef
  <2>3. DOMAIN w = 1 .. n /\ DOMAIN w = 1 .. Len(w) /\ Len(w) \in Nat
    BY <2>1, <2>2, LenProperties
  <2> HIDE DEF w
  <2>4. Len(w) = n
    BY <1>1, <2>3
  <2> QED
    BY <2>2, <2>4 DEF w
<1>3. t \in Seq(Nat)
  <2>1. CASE n > TrLimit
    <3> DEFINE keep == TrLimit \div 2
               w == TrWhole(n)
    <3>1. keep \in Nat /\ keep <= n
      BY <1>1, <2>1
    <3> HIDE DEF keep, w
    <3>2. w \in Seq(Nat) /\ Len(w) = n
      BY <1>2 DEF w
    <3>3. SubSeq(w, 1, keep) \in Seq(Nat)
      <4>1. 1 \in Nat /\ 1 >= 1 /\ keep <= Len(w)
        BY <3>1, <3>2
      <4> QED
        BY <4>1, <3>1, <3>2, PartIs
    <3>4. SubSeq(w, Len(w) - keep + 1, Len(w)) \in Seq(Nat)
      <4>1. Len(w) - keep + 1 \in Nat /\ Len(w) - keep + 1 >= 1 /\ Len(w) \in Nat /\ Len(w) <= Len(w)
        BY <1>1, <3>1, <3>2
      <4> QED
        BY <4>1, <3>2, PartIs
    <3>5. <<0>> \in Seq(Nat)
      BY QueueOne
    <3>6. SubSeq(w, 1, keep) \o <<0>> \in Seq(Nat)
      BY <3>3, <3>5, JoinIs
    <3>7. SubSeq(w, 1, keep) \o <<0>> \o SubSeq(w, Len(w) - keep + 1, Len(w)) \in Seq(Nat)
      BY <3>4, <3>6, JoinIs
    <3>8. t = SubSeq(w, 1, keep) \o <<0>> \o SubSeq(w, Len(w) - keep + 1, Len(w))
      BY <2>1 DEF TrCut, keep, w
    <3> QED
      BY <3>7, <3>8
  <2>2. CASE ~(n > TrLimit)
    BY <2>2, <1>2
  <2> QED
    BY <2>1, <2>2
<1>4. e \in TrEntry
  BY <1>1, <1>2 DEF TrEntry
<1>5. c \in TrResults
  <2>1. c = [id |-> id, e |-> [v |-> trCount + 1, text |-> t]]
    OBVIOUS
  <2> HIDE DEF t, c
  <2>2. [v |-> trCount + 1, text |-> t] \in TrEntry
    BY <1>1, <1>3 DEF TrEntry
  <2> QED
    BY <2>1, <2>2 DEF TrResults
<1>6. /\ trCount' = trCount + 1
      /\ trStore' = (IF n > TrLimit THEN TrInsert(trStore, id, e) ELSE trStore)
      /\ trLog' = (IF n > TrLimit THEN TrLogged(trLog, id, e) ELSE trLog)
      /\ trContext' = Append(trContext, c)
      /\ UNCHANGED <<trFile, trReader>>
  BY DEF TrAfterTool
<1> HIDE DEF e, c, t
<1>7. TrRight(trStore, trLog)
  BY DEF TrInv
<1>8. TrRight(trStore', trLog')
  <2>1. TrRight(TrInsert(trStore, id, e), TrLogged(trLog, id, e))
    BY <1>4, <1>7, TrInsertIs
  <2> QED
    BY <2>1, <1>6, <1>7
<1>9. trContext' \in Seq(TrResults)
  BY <1>1, <1>5, <1>6, QueueAppend
<1>10. trCount' \in Nat
  BY <1>1, <1>6
<1> QED
  BY <1>6, <1>8, <1>9, <1>10 DEF TrInv

LEMMA TrCompactKeeps ==
  ASSUME TrInv, NEW cut \in 1 .. Len(trContext), TrCompact(cut)
  PROVE  TrInv'
<1> DEFINE head == SubSeq(trContext, 1, cut)
           tail == SubSeq(trContext, cut + 1, Len(trContext))
           x == TrElided([store |-> trStore, log |-> trLog], head)
<1>1. trContext \in Seq(TrResults)
  BY DEF TrInv
<1>2. PICK n \in Nat : n = Len(trContext)
  BY <1>1, LenProperties
<1>3. /\ 1 \in Nat /\ 1 >= 1 /\ cut \in Nat /\ cut <= Len(trContext)
      /\ cut + 1 \in Nat /\ cut + 1 >= 1 /\ Len(trContext) \in Nat /\ Len(trContext) <= Len(trContext)
  BY <1>2
<1>4. head \in Seq(TrResults)
  BY <1>1, <1>3, PartIs
<1>5. tail \in Seq(TrResults)
  BY <1>1, <1>3, PartIs
<1>6. /\ trStore' = x.store /\ trLog' = x.log /\ trContext' = tail
      /\ UNCHANGED <<trFile, trReader, trCount>>
  BY DEF TrCompact
<1> HIDE DEF head, tail
<1>7. TrRight(trStore, trLog)
  BY DEF TrInv
<1>8. TrRight(x.store, x.log)
  BY <1>4, <1>7, TrElidedIs
<1> HIDE DEF x
<1> QED
  BY <1>5, <1>6, <1>8 DEF TrInv

(* The store of originals accounts for exactly what it holds, within its   *)
(* budget; it has the results stored last, each once, and always the       *)
(* newest; what is saved and loaded again is the store itself; and pages   *)
(* followed to the end are the whole text, for any ids, results, budget    *)
(* and page sizes (truncation.rs, read_tool_result.rs, compact.rs).        *)
THEOREM ToolResultsSafety == TrSpec => []TrSafe
<1>1. TrInit => TrInv
  <2> SUFFICES ASSUME TrInit PROVE TrInv
    OBVIOUS
  <2>1. trContext \in Seq(TrResults) /\ trCount \in Nat
    BY QueueNone DEF TrInit
  <2>2. TrSaved(TrEmpty) = <<>>
    <3>1. Len(TrEmpty.order) = 0
      BY QueueNone DEF TrEmpty
    <3>2. TrSaved(TrEmpty) = [k \in {} |-> [id |-> TrEmpty.order[k], e |-> TrEmpty.entries[TrEmpty.order[k]]]]
      BY <3>1 DEF TrSaved
    <3> QED
      BY <3>2
  <2>3. TrRight(TrEmpty, trFile.log) /\ trFile.saved = TrSaved(TrEmpty)
    BY <2>2, TrNothingRight DEF TrInit
  <2> QED
    BY <2>1, <2>3, TrNothingRight, TrNobodyPages DEF TrInit, TrInv
<1>2. TrInv /\ [TrNext]_trVars => TrInv'
  <2> SUFFICES ASSUME TrInv, [TrNext]_trVars PROVE TrInv'
    OBVIOUS
  <2>1. ASSUME NEW id \in TrId, NEW max \in TrPages, TrPage(id, max) PROVE TrInv'
    <3>1. TrPaging(trReader')
      BY <2>1, TrPageKeeps
    <3>2. UNCHANGED <<trStore, trLog, trFile, trContext, trCount>>
      BY <2>1 DEF TrPage
    <3> QED
      BY <3>1, <3>2 DEF TrInv
  <2>2. CASE TrGone \/ TrReadEnds
    <3>1. trReader' = TrNobody /\ UNCHANGED <<trStore, trLog, trFile, trContext, trCount>>
      BY <2>2 DEF TrGone, TrReadEnds
    <3> QED
      BY <3>1, TrNobodyPages DEF TrInv
  <2>3. CASE TrSave
    <3>1. /\ trFile'.saved = TrSaved(trStore) /\ trFile'.log = trLog
          /\ UNCHANGED <<trStore, trLog, trContext, trReader, trCount>>
      BY <2>3 DEF TrSave
    <3>2. TrRight(trStore, trFile'.log)
      BY <3>1 DEF TrInv
    <3>3. \E s : TrRight(s, trFile'.log) /\ trFile'.saved = TrSaved(s)
      BY <3>1, <3>2
    <3> QED
      BY <3>1, <3>3 DEF TrInv
  <2>4. CASE TrResume
    <3>1. PICK s : TrRight(s, trFile.log) /\ trFile.saved = TrSaved(s)
      BY DEF TrInv
    <3>2. TrLoaded(trFile.saved) = s
      BY <3>1, TrRightSo
    <3>3. /\ trStore' = s /\ trLog' = trFile.log /\ trReader' = TrNobody
          /\ UNCHANGED <<trFile, trContext, trCount>>
      BY <2>4, <3>2 DEF TrResume
    <3>4. TrRight(trStore', trLog')
      BY <3>1, <3>3
    <3> QED
      BY <3>3, <3>4, TrNobodyPages DEF TrInv
  <2>5. CASE TrClear
    <3>1. /\ trStore' = TrEmpty /\ trLog' = <<>> /\ trContext' = <<>>
          /\ UNCHANGED <<trFile, trReader, trCount>>
      BY <2>5 DEF TrClear
    <3>2. <<>> \in Seq(TrResults)
      BY QueueNone
    <3> QED
      BY <3>1, <3>2, TrNothingRight DEF TrInv
  <2>6. CASE UNCHANGED trVars
    BY <2>6 DEF TrInv, trVars
  <2> QED
    BY <2>1, <2>2, <2>3, <2>4, <2>5, <2>6, TrAfterToolKeeps, TrCompactKeeps DEF TrNext
<1>3. TrInv => TrSafe
  <2> SUFFICES ASSUME TrInv PROVE TrSafe
    OBVIOUS
  <2>1. TrAccounts /\ TrOldestFirst /\ TrReloads
    BY TrRightSo DEF TrInv, TrAccounts, TrOldestFirst, TrReloads
  <2>2. TrPagesWhole
    <3> SUFFICES ASSUME trReader.on, ~trReader.more, NEW e \in trReader.from, trReader.from = {e}
                 PROVE  trReader.got = e.text
      BY DEF TrPagesWhole
    <3> DEFINE r == trReader
    <3>1. /\ r.next \in Nat /\ r.next <= Len(e.text) /\ r.got = SubSeq(e.text, 1, r.next)
          /\ r.more <=> r.next < Len(e.text)
          /\ e \in TrEntry
      BY DEF TrInv, TrPaging
    <3> HIDE DEF r
    <3>2. e.text \in Seq(Nat) /\ Len(e.text) \in Nat
      BY <3>1, TrTextLen
    <3>3. ~r.more
      BY DEF r
    <3>4. r.next = Len(e.text)
      BY <3>1, <3>2, <3>3
    <3>5. r.got = e.text
      BY <3>1, <3>2, <3>4, PartWhole
    <3> QED
      BY <3>5 DEF r
  <2> QED
    BY <2>1, <2>2 DEF TrSafe
<1> QED
  BY <1>1, <1>2, <1>3, PTL DEF TrSpec
=============================================================================
