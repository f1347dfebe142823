----------------------------- MODULE HostProofs -----------------------------
(***************************************************************************)
(* Proofs about what the host runs sessions with: the operations of an SDK *)
(* session, the reload of MCP servers, plugin hooks, approvals, the        *)
(* prompts of the terminal UI, and the event channel of a run.  They share *)
(* no state; each has a section of its own.                                *)
(***************************************************************************)
EXTENDS SdkSession, EventFanout, McpReload, PluginHooks, Approvals, TuiRuns, CommonLemmas

-----------------------------------------------------------------------------
(* SdkSession: one operation at a time, and files that stay whole          *)
(* Where a call has a candidate file beside the session's own.             *)
SdCandidacy == {"adopting", "discarding"}
SdPlaces == {"outside", "refused", "checked"} \cup SdHolding

SdTypes ==
  /\ sdAt \in [SdCall -> SdPlaces]
  /\ sdBusy \in BOOLEAN /\ sdClosed \in BOOLEAN /\ sdSkipped \in BOOLEAN
  /\ sdConv \in Nat \ {0} /\ sdWork \in Nat
  /\ sdPath \in 1 .. SdMaxFile /\ sdNew \in 0 .. SdMaxFile
  /\ sdFiles \in [1 .. SdMaxFile -> [conv : Nat, store : Nat, bound : BOOLEAN]]

(* The flag says that some call is inside, and no two are.                 *)
SdHeld ==
  /\ sdBusy <=> \E c \in SdCall : sdAt[c] \in SdHolding
  /\ \A c, d \in SdCall : sdAt[c] \in SdHolding /\ sdAt[d] \in SdHolding => c = d

(* At every moment, not only between operations.                           *)
SdRecorded ==
  /\ sdFiles[sdPath].conv = sdConv /\ sdFiles[sdPath].bound
  /\ sdSkipped \/ sdFiles[sdPath].store \in {0, sdConv}
  /\ sdSkipped \/ sdWork = sdConv

(* A candidate is another file, and the one adopted is complete.           *)
SdCandidate ==
  /\ sdNew # 0 <=> \E c \in SdCall : sdAt[c] \in SdCandidacy
  /\ sdNew # sdPath
  /\ \A c \in SdCall : sdAt[c] = "adopting" =>
        sdFiles[sdNew] = SdFile(SdFresh, SdFresh, TRUE)

SdNotAhead == \A f \in 1 .. SdMaxFile : f # sdNew => sdFiles[f].conv =< sdConv

SdInv == SdTypes /\ SdHeld /\ SdRecorded /\ SdCandidate /\ SdNotAhead

sdData == <<sdConv, sdPath, sdFiles, sdNew, sdWork, sdSkipped>>

(* One call moves, and takes or gives back the guard as it does.           *)
LEMMA SdMoves ==
  ASSUME SdInv, NEW c \in SdCall, NEW v \in SdPlaces,
         sdAt' = [sdAt EXCEPT ![c] = v],
         \/ (sdAt[c] \in SdHolding <=> v \in SdHolding) /\ sdBusy' = sdBusy
         \/ ~sdBusy /\ sdBusy' = TRUE /\ v \in SdHolding
         \/ sdAt[c] \in SdHolding /\ sdBusy' = FALSE /\ v \notin SdHolding
  PROVE  /\ sdAt' \in [SdCall -> SdPlaces] /\ sdBusy' \in BOOLEAN /\ SdHeld'
         /\ sdAt'[c] = v /\ \A d \in SdCall : d # c => sdAt'[d] = sdAt[d]
<1>1. sdAt \in [SdCall -> SdPlaces] /\ SdHeld /\ sdBusy \in BOOLEAN
  BY DEF SdInv, SdTypes
<1>2. /\ sdAt' \in [SdCall -> SdPlaces] /\ sdBusy' \in BOOLEAN
      /\ sdAt'[c] = v /\ \A d \in SdCall : d # c => sdAt'[d] = sdAt[d]
  BY <1>1
<1>3. SdHeld'
  <2> HIDE DEF SdHolding, SdPlaces
  <2>1. CASE (sdAt[c] \in SdHolding <=> v \in SdHolding) /\ sdBusy' = sdBusy
    BY <2>1, <1>1, <1>2 DEF SdHeld
  <2>2. CASE ~sdBusy /\ sdBusy' = TRUE /\ v \in SdHolding
    BY <2>2, <1>1, <1>2 DEF SdHeld
  <2>3. CASE sdAt[c] \in SdHolding /\ sdBusy' = FALSE /\ v \notin SdHolding
    BY <2>3, <1>1, <1>2 DEF SdHeld
  <2> QED  BY <2>1, <2>2, <2>3
<1> QED  BY <1>2, <1>3

(* The one inside has no candidate: there is none.                         *)
LEMMA SdNoCandidate ==
  ASSUME SdInv, NEW c \in SdCall, sdAt[c] \in SdHolding \ SdCandidacy
  PROVE  sdNew = 0 /\ \A d \in SdCall : sdAt[d] \notin SdCandidacy
<1>1. SdCandidacy \subseteq SdHolding
  BY DEF SdCandidacy, SdHolding
<1> QED
  BY <1>1, Zenon DEF SdInv, SdHeld, SdCandidate

(* A move with neither end in a candidacy that leaves the data alone.      *)
LEMMA SdDataKept ==
  ASSUME SdInv, NEW c \in SdCall, NEW v \in SdPlaces \ SdCandidacy,
         sdAt' = [sdAt EXCEPT ![c] = v], sdAt[c] \notin SdCandidacy,
         \/ (sdAt[c] \in SdHolding <=> v \in SdHolding) /\ sdBusy' = sdBusy
         \/ ~sdBusy /\ sdBusy' = TRUE /\ v \in SdHolding
         \/ sdAt[c] \in SdHolding /\ sdBusy' = FALSE /\ v \notin SdHolding,
         sdClosed' \in BOOLEAN, UNCHANGED sdData
  PROVE  SdInv'
<1>1. /\ sdAt' \in [SdCall -> SdPlaces] /\ sdBusy' \in BOOLEAN /\ SdHeld'
      /\ sdAt'[c] = v /\ \A d \in SdCall : d # c => sdAt'[d] = sdAt[d]
  BY SdMoves
<1>2. /\ sdConv' = sdConv /\ sdPath' = sdPath /\ sdFiles' = sdFiles
      /\ sdNew' = sdNew /\ sdWork' = sdWork /\ sdSkipped' = sdSkipped
  BY DEF sdData
<1>3. SdTypes'
  BY <1>1, <1>2 DEF SdInv, SdTypes
<1>4. SdRecorded' /\ SdNotAhead'
  BY <1>2 DEF SdInv, SdRecorded, SdNotAhead
<1>5. \A d \in SdCall : sdAt'[d] \in SdCandidacy <=> sdAt[d] \in SdCandidacy
  BY <1>1
<1>6. \A d \in SdCall : sdAt'[d] = "adopting" => sdAt[d] = "adopting"
  BY <1>1 DEF SdCandidacy
<1>7. SdCandidate'
  BY <1>2, <1>5, <1>6 DEF SdInv, SdCandidate, SdFresh, SdFile
<1> QED  BY <1>1, <1>3, <1>4, <1>7 DEF SdInv

(* The least unused file is one, and not the session's own.                *)
LEMMA SdNextIs ==
  ASSUME SdInv, SdUnused # {}
  PROVE  SdNextFile \in 1 .. SdMaxFile /\ SdNextFile # sdPath
<1>1. SdUnused \in SUBSET Nat
  BY DEF SdUnused
<1>2. \E f \in SdUnused : \A g \in SdUnused : f =< g
  BY <1>1, LeastExists
<1>3. SdNextFile \in SdUnused
  BY <1>2 DEF SdNextFile
<1>4. sdFiles[sdPath].conv # 0
  BY DEF SdInv, SdTypes, SdRecorded
<1> QED  BY <1>3, <1>4 DEF SdUnused, SdNoFile, SdFile

(* An operation ends, having at most saved the store of its own file.      *)
LEMMA SdSaveKept ==
  ASSUME SdInv, NEW c \in SdCall, sdAt[c] \in SdHolding \ SdCandidacy, SdRelease(c),
         NEW saved \in BOOLEAN,
         sdFiles' = IF saved THEN [sdFiles EXCEPT ![sdPath].store = sdConv] ELSE sdFiles,
         UNCHANGED <<sdClosed, sdConv, sdPath, sdNew, sdWork, sdSkipped>>
  PROVE  SdInv'
<1>1. /\ sdAt' \in [SdCall -> SdPlaces] /\ sdBusy' \in BOOLEAN /\ SdHeld'
      /\ sdAt'[c] = "outside" /\ \A d \in SdCall : d # c => sdAt'[d] = sdAt[d]
  <2>1. "outside" \in SdPlaces /\ "outside" \notin SdHolding
    BY DEF SdPlaces, SdHolding
  <2> QED  BY <2>1, SdMoves DEF SdRelease
<1>2. sdNew = 0 /\ \A d \in SdCall : sdAt'[d] \notin SdCandidacy
  BY <1>1, SdNoCandidate DEF SdCandidacy
<1>3. /\ sdFiles' \in [1 .. SdMaxFile -> [conv : Nat, store : Nat, bound : BOOLEAN]]
      /\ \A f \in 1 .. SdMaxFile : /\ sdFiles'[f].conv = sdFiles[f].conv
                                   /\ sdFiles'[f].bound = sdFiles[f].bound
      /\ sdFiles'[sdPath].store \in {sdConv, sdFiles[sdPath].store}
  BY DEF SdInv, SdTypes
<1>4. SdTypes'
  BY <1>1, <1>3 DEF SdInv, SdTypes
<1>5. SdRecorded' /\ SdNotAhead'
  BY <1>3 DEF SdInv, SdTypes, SdRecorded, SdNotAhead
<1>6. sdNew' = 0 /\ sdPath' # 0 /\ \A d \in SdCall : sdAt'[d] # "adopting"
  BY <1>2 DEF SdInv, SdTypes, SdCandidacy
<1>7. SdCandidate'
  BY <1>2, <1>6 DEF SdCandidate
<1> QED  BY <1>1, <1>4, <1>5, <1>7 DEF SdInv

(* A file is written, of the session's conversation or of the next one.    *)
LEMMA SdWritten ==
  ASSUME SdInv, NEW f \in 1 .. SdMaxFile, NEW conv \in Nat, NEW store \in Nat,
         NEW bound \in BOOLEAN, sdFiles' = [sdFiles EXCEPT ![f] = SdFile(conv, store, bound)]
  PROVE  /\ sdFiles' \in [1 .. SdMaxFile -> [conv : Nat, store : Nat, bound : BOOLEAN]]
         /\ sdFiles'[f] = SdFile(conv, store, bound)
         /\ sdFiles'[f].conv = conv /\ sdFiles'[f].store = store /\ sdFiles'[f].bound = bound
         /\ \A g \in 1 .. SdMaxFile : g # f => sdFiles'[g] = sdFiles[g]
<1>1. sdFiles \in [1 .. SdMaxFile -> [conv : Nat, store : Nat, bound : BOOLEAN]]
  BY DEF SdInv, SdTypes
<1>2. /\ SdFile(conv, store, bound) \in [conv : Nat, store : Nat, bound : BOOLEAN]
      /\ SdFile(conv, store, bound).conv = conv /\ SdFile(conv, store, bound).store = store
      /\ SdFile(conv, store, bound).bound = bound
  BY DEF SdFile
<1> HIDE DEF SdFile
<1> QED  BY <1>1, <1>2

(* clear writes its candidate.                                             *)
LEMMA SdPrepareKept ==
  ASSUME SdInv, NEW c \in SdCall, SdPrepare(c)
  PROVE  SdInv'
<1>1. PICK bound \in BOOLEAN, written \in BOOLEAN :
        /\ sdNew' = SdNextFile
        /\ sdFiles' = [sdFiles EXCEPT ![SdNextFile] =
                         SdFile(SdFresh, IF written THEN SdFresh ELSE 0, bound)]
        /\ sdAt' = [sdAt EXCEPT ![c] =
                      IF SdPrepared(bound, written) THEN "adopting" ELSE "discarding"]
  BY DEF SdPrepare
<1> DEFINE v == IF SdPrepared(bound, written) THEN "adopting" ELSE "discarding"
           store == IF written THEN SdFresh ELSE 0
           f == SdNextFile
<1>2. /\ sdAt[c] = "preparing" /\ sdConv' = sdConv /\ sdPath' = sdPath /\ sdWork' = sdWork
      /\ sdSkipped' = sdSkipped /\ sdBusy' = sdBusy /\ sdClosed' = sdClosed
      /\ sdAt' = [sdAt EXCEPT ![c] = v]
  BY <1>1 DEF SdPrepare
<1>3. /\ v \in SdPlaces /\ v \in SdCandidacy /\ v \in SdHolding /\ sdAt[c] \in SdHolding
      /\ sdAt[c] \notin SdCandidacy
  BY <1>2 DEF SdPlaces, SdHolding, SdCandidacy
<1>4. /\ sdAt' \in [SdCall -> SdPlaces] /\ sdBusy' \in BOOLEAN /\ SdHeld'
      /\ sdAt'[c] = v /\ \A d \in SdCall : d # c => sdAt'[d] = sdAt[d]
  <2> HIDE DEF v
  <2> QED  BY <1>2, <1>3, SdMoves
<1>5. sdNew = 0 /\ \A d \in SdCall : sdAt[d] \notin SdCandidacy
  BY <1>3, SdNoCandidate
<1>6. f \in 1 .. SdMaxFile /\ f # sdPath
  BY SdNextIs DEF SdPrepare
<1>7. SdFresh \in Nat /\ store \in Nat
  BY DEF SdInv, SdTypes, SdFresh
<1>8. /\ sdFiles' \in [1 .. SdMaxFile -> [conv : Nat, store : Nat, bound : BOOLEAN]]
      /\ sdFiles'[f] = SdFile(SdFresh, store, bound)
      /\ \A g \in 1 .. SdMaxFile : g # f => sdFiles'[g] = sdFiles[g]
  <2> HIDE DEF f, store
  <2> QED  BY <1>1, <1>6, <1>7, SdWritten DEF f, store
<1>9. sdNew' = f
  BY <1>1
<1> HIDE DEF f
<1>10. SdTypes'
  BY <1>2, <1>4, <1>6, <1>8, <1>9 DEF SdInv, SdTypes
<1>11. SdRecorded'
  BY <1>2, <1>6, <1>8 DEF SdInv, SdTypes, SdRecorded
<1>12. SdNotAhead'
  BY <1>2, <1>5, <1>8, <1>9 DEF SdInv, SdNotAhead
<1>13. v = "adopting" => SdFile(SdFresh, store, bound) = SdFile(SdFresh, SdFresh, TRUE)
  BY DEF SdPrepared
<1>14. /\ SdFresh' = SdFresh
       /\ \A d \in SdCall : sdAt'[d] = "adopting" => d = c /\ v = "adopting"
  BY <1>2, <1>4, <1>5 DEF SdCandidacy, SdFresh
<1> HIDE DEF v, store
<1>15. SdCandidate'
  <2>1. sdNew' # 0 /\ sdNew' # sdPath' /\ sdAt'[c] \in SdCandidacy
    BY <1>2, <1>3, <1>4, <1>6, <1>9
  <2>2. \A d \in SdCall : sdAt'[d] = "adopting" =>
          sdFiles'[sdNew'] = SdFile(SdFresh', SdFresh', TRUE)
    BY <1>8, <1>9, <1>13, <1>14, Zenon
  <2> QED  BY <2>1, <2>2, Zenon DEF SdCandidate, SdFile
<1> QED  BY <1>4, <1>10, <1>11, <1>12, <1>15 DEF SdInv

LEMMA SdZero == 0 \in 0 .. SdMaxFile
  BY SdAssumption

(* The one with a candidate is alone with it.                              *)
LEMMA SdOneCandidate ==
  ASSUME SdInv, NEW c \in SdCall, sdAt[c] \in SdCandidacy
  PROVE  /\ sdNew \in 1 .. SdMaxFile /\ sdNew # sdPath
         /\ \A d \in SdCall : sdAt[d] \in SdCandidacy => d = c
<1>1. SdCandidacy \subseteq SdHolding
  BY DEF SdCandidacy, SdHolding
<1>2. sdNew # 0 /\ sdNew # sdPath
  BY DEF SdInv, SdCandidate
<1>3. \A d \in SdCall : sdAt[d] \in SdCandidacy => d = c
  BY <1>1, Zenon DEF SdInv, SdHeld
<1> QED  BY <1>2, <1>3 DEF SdInv, SdTypes

(* The candidate is given up, and its files are removed.                   *)
LEMMA SdDiscardKept ==
  ASSUME SdInv, NEW c \in SdCall, SdDiscard(c)
  PROVE  SdInv'
<1>1. /\ sdNew \in 1 .. SdMaxFile /\ sdNew # sdPath
      /\ \A d \in SdCall : sdAt[d] \in SdCandidacy => d = c
  BY SdOneCandidate DEF SdDiscard, SdCandidacy
<1>2. "outside" \in SdPlaces /\ "outside" \notin SdHolding /\ sdAt[c] \in SdHolding
  BY DEF SdPlaces, SdHolding, SdDiscard
<1>3. /\ sdAt' \in [SdCall -> SdPlaces] /\ sdBusy' \in BOOLEAN /\ SdHeld'
      /\ sdAt'[c] = "outside" /\ \A d \in SdCall : d # c => sdAt'[d] = sdAt[d]
  BY <1>2, SdMoves DEF SdDiscard, SdRelease
<1>4. /\ sdConv' = sdConv /\ sdPath' = sdPath /\ sdWork' = sdWork
      /\ sdSkipped' = sdSkipped /\ sdClosed' = sdClosed /\ sdNew' = 0
      /\ sdFiles' = [sdFiles EXCEPT ![sdNew] = SdFile(0, 0, FALSE)]
  BY DEF SdDiscard, SdRemoved, SdNoFile
<1>5. /\ sdFiles' \in [1 .. SdMaxFile -> [conv : Nat, store : Nat, bound : BOOLEAN]]
      /\ sdFiles'[sdNew].conv = 0
      /\ \A g \in 1 .. SdMaxFile : g # sdNew => sdFiles'[g] = sdFiles[g]
  BY <1>1, <1>4, SdWritten
<1>6. SdTypes'
  BY <1>3, <1>4, <1>5, SdZero DEF SdInv, SdTypes
<1>7. SdRecorded'
  BY <1>1, <1>4, <1>5 DEF SdInv, SdTypes, SdRecorded
<1>8. SdNotAhead'
  <2>1. sdConv \in Nat /\ 0 =< sdConv /\ SdNotAhead
    BY DEF SdInv, SdTypes
  <2>2. \A f \in 1 .. SdMaxFile : sdFiles'[f].conv =< sdConv
    BY <2>1, <1>5 DEF SdNotAhead
  <2> QED  BY <2>2, <1>4 DEF SdNotAhead
<1>9. /\ sdNew' = 0 /\ sdPath' # 0
      /\ \A d \in SdCall : sdAt'[d] \notin SdCandidacy /\ sdAt'[d] # "adopting"
  BY <1>1, <1>3, <1>4 DEF SdInv, SdTypes, SdCandidacy
<1>10. SdCandidate'
  BY <1>9, Zenon DEF SdCandidate
<1> QED  BY <1>3, <1>6, <1>7, <1>8, <1>10 DEF SdInv

(* The session moves to its candidate.                                     *)
LEMMA SdAdoptKept ==
  ASSUME SdInv, NEW c \in SdCall, SdAdopt(c)
  PROVE  SdInv'
<1>1. /\ sdNew \in 1 .. SdMaxFile /\ sdNew # sdPath
      /\ \A d \in SdCall : sdAt[d] \in SdCandidacy => d = c
  BY SdOneCandidate DEF SdAdopt, SdCandidacy
<1>2. "killing" \in SdPlaces /\ "killing" \in SdHolding /\ sdAt[c] \in SdHolding
  BY DEF SdPlaces, SdHolding, SdAdopt
<1>3. /\ sdAt' \in [SdCall -> SdPlaces] /\ sdBusy' \in BOOLEAN /\ SdHeld'
      /\ sdAt'[c] = "killing" /\ \A d \in SdCall : d # c => sdAt'[d] = sdAt[d]
  BY <1>2, SdMoves DEF SdAdopt
<1>4. /\ sdConv' = SdFresh /\ sdPath' = sdNew /\ sdWork' = SdFresh
      /\ sdSkipped' = FALSE /\ sdClosed' = sdClosed /\ sdNew' = 0
      /\ sdFiles' = sdFiles
  BY DEF SdAdopt, SdToolsCleared
<1>5. /\ sdFiles[sdNew].conv = SdFresh /\ sdFiles[sdNew].store = SdFresh
      /\ sdFiles[sdNew].bound = TRUE
  BY DEF SdInv, SdCandidate, SdAdopt, SdFile
<1>6. SdFresh \in Nat \ {0} /\ sdConv =< SdFresh /\ sdConv \in Nat
  BY DEF SdInv, SdTypes, SdFresh
<1>7. SdTypes'
  BY <1>1, <1>3, <1>4, <1>6, SdZero DEF SdInv, SdTypes
<1>8. SdRecorded'
  BY <1>4, <1>5 DEF SdRecorded
<1>9. SdNotAhead'
  <2>1. \A f \in 1 .. SdMaxFile : sdFiles[f].conv \in Nat
    BY DEF SdInv, SdTypes
  <2>2. \A f \in 1 .. SdMaxFile : sdFiles[f].conv =< SdFresh
    BY <2>1, <1>5, <1>6 DEF SdInv, SdNotAhead
  <2> QED  BY <2>2, <1>4 DEF SdNotAhead
<1>10. /\ sdNew' = 0 /\ sdPath' # 0
       /\ \A d \in SdCall : sdAt'[d] \notin SdCandidacy /\ sdAt'[d] # "adopting"
  BY <1>1, <1>3, <1>4 DEF SdCandidacy
<1>11. SdCandidate'
  BY <1>10, Zenon DEF SdCandidate
<1> QED  BY <1>3, <1>7, <1>8, <1>9, <1>11 DEF SdInv

(* The same file for a fresh conversation.                                 *)
LEMMA SdResetKept ==
  ASSUME SdInv, NEW c \in SdCall, NEW saved \in BOOLEAN, SdReset(c, saved)
  PROVE  SdInv'
<1> DEFINE v == IF saved THEN "killing" ELSE "outside"
           store == IF saved THEN SdFresh ELSE sdFiles[sdPath].store
<1>1. sdNew = 0 /\ \A d \in SdCall : sdAt[d] \notin SdCandidacy
  BY SdNoCandidate DEF SdReset, SdHolding, SdCandidacy
<1>2. /\ v \in SdPlaces /\ (v \in SdHolding <=> saved) /\ sdAt[c] \in SdHolding
      /\ v \notin SdCandidacy /\ v # "adopting"
  BY DEF SdPlaces, SdHolding, SdReset, SdCandidacy
<1>3. /\ sdAt' = [sdAt EXCEPT ![c] = v]
      /\ sdBusy' = IF saved THEN sdBusy ELSE FALSE
      /\ sdConv' = SdFresh /\ sdPath' = sdPath /\ sdNew' = sdNew /\ sdClosed' = sdClosed
      /\ IF saved THEN sdWork' = SdFresh /\ sdSkipped' = FALSE
                  ELSE sdWork' = sdWork /\ sdSkipped' = TRUE
  BY DEF SdReset, SdRelease, SdToolsCleared
<1>4. /\ sdAt' \in [SdCall -> SdPlaces] /\ sdBusy' \in BOOLEAN /\ SdHeld'
      /\ sdAt'[c] = v /\ \A d \in SdCall : d # c => sdAt'[d] = sdAt[d]
  <2> HIDE DEF v
  <2> QED  BY <1>2, <1>3, SdMoves
<1>5. /\ sdPath \in 1 .. SdMaxFile /\ sdFiles[sdPath].bound = TRUE
      /\ SdFresh \in Nat \ {0} /\ store \in Nat /\ sdConv \in Nat /\ sdConv =< SdFresh
  BY DEF SdInv, SdTypes, SdRecorded, SdFresh
<1>6. sdFiles' = [sdFiles EXCEPT ![sdPath] = SdFile(SdFresh, store, TRUE)]
  <2>1. sdFiles' = [sdFiles EXCEPT ![sdPath] =
                     SdFile(SdFresh, store, sdFiles[sdPath].bound)]
    BY DEF SdReset
  <2> QED  BY <2>1, <1>5
<1>7. /\ sdFiles' \in [1 .. SdMaxFile -> [conv : Nat, store : Nat, bound : BOOLEAN]]
      /\ sdFiles'[sdPath].conv = SdFresh /\ sdFiles'[sdPath].store = store
      /\ sdFiles'[sdPath].bound = TRUE
      /\ \A g \in 1 .. SdMaxFile : g # sdPath => sdFiles'[g] = sdFiles[g]
  <2> HIDE DEF store
  <2> QED  BY <1>5, <1>6, SdWritten
<1>8. SdTypes'
  BY <1>3, <1>4, <1>5, <1>7 DEF SdInv, SdTypes
<1>9. SdRecorded'
  BY <1>3, <1>7 DEF SdRecorded
<1>10. SdNotAhead'
  <2>1. \A f \in 1 .. SdMaxFile : sdFiles[f].conv \in Nat /\ sdFiles[f].conv =< sdConv
    BY <1>1 DEF SdInv, SdTypes, SdNotAhead
  <2>2. \A f \in 1 .. SdMaxFile : sdFiles'[f].conv =< SdFresh
    BY <2>1, <1>5, <1>7
  <2> QED  BY <2>2, <1>3 DEF SdNotAhead
<1>11. /\ sdNew' = 0 /\ sdPath' # 0
       /\ \A d \in SdCall : sdAt'[d] \notin SdCandidacy /\ sdAt'[d] # "adopting"
  BY <1>1, <1>2, <1>3, <1>4, <1>5 DEF SdCandidacy
<1>12. SdCandidate'
  BY <1>11, Zenon DEF SdCandidate
<1> QED  BY <1>4, <1>8, <1>9, <1>10, <1>12 DEF SdInv

(* A copy beside the session, complete or not.                             *)
LEMMA SdForkKept ==
  ASSUME SdInv, NEW c \in SdCall, SdFork(c)
  PROVE  SdInv'
<1>1. sdNew = 0 /\ \A d \in SdCall : sdAt[d] \notin SdCandidacy
  BY SdNoCandidate DEF SdFork, SdHolding, SdCandidacy
<1>2. "outside" \in SdPlaces \ SdCandidacy /\ "outside" \notin SdHolding
      /\ sdAt[c] \in SdHolding \ SdCandidacy
  BY DEF SdPlaces, SdHolding, SdFork, SdCandidacy
<1>3. CASE UNCHANGED sdFiles
  BY <1>2, <1>3, SdDataKept DEF SdFork, SdRelease, sdData, SdInv, SdTypes
<1>4. ASSUME SdUnused # {}, NEW bound \in BOOLEAN, NEW saved \in BOOLEAN,
             sdFiles' = [sdFiles EXCEPT ![SdNextFile] =
                          SdFile(sdConv, IF saved THEN sdConv ELSE 0, bound)]
      PROVE  SdInv'
  <2> DEFINE store == IF saved THEN sdConv ELSE 0
             f == SdNextFile
  <2>1. /\ sdAt' \in [SdCall -> SdPlaces] /\ sdBusy' \in BOOLEAN /\ SdHeld'
        /\ sdAt'[c] = "outside" /\ \A d \in SdCall : d # c => sdAt'[d] = sdAt[d]
    BY <1>2, SdMoves DEF SdFork, SdRelease
  <2>2. /\ sdConv' = sdConv /\ sdPath' = sdPath /\ sdWork' = sdWork
        /\ sdSkipped' = sdSkipped /\ sdClosed' = sdClosed /\ sdNew' = 0
    BY <1>1 DEF SdFork
  <2>3. f \in 1 .. SdMaxFile /\ f # sdPath
    BY <1>4, SdNextIs
  <2>4. sdConv \in Nat /\ store \in Nat
    BY DEF SdInv, SdTypes
  <2>5. sdFiles' = [sdFiles EXCEPT ![f] = SdFile(sdConv, store, bound)]
    BY <1>4
  <2> HIDE DEF f, store
  <2>6. /\ sdFiles' \in [1 .. SdMaxFile -> [conv : Nat, store : Nat, bound : BOOLEAN]]
        /\ sdFiles'[f].conv = sdConv
        /\ \A g \in 1 .. SdMaxFile : g # f => sdFiles'[g] = sdFiles[g]
    BY <2>3, <2>4, <2>5, SdWritten
  <2>7. SdTypes'
    BY <2>1, <2>2, <2>6, SdZero DEF SdInv, SdTypes
  <2>8. SdRecorded'
    BY <2>2, <2>3, <2>6 DEF SdInv, SdTypes, SdRecorded
  <2>9. SdNotAhead'
    BY <1>1, <2>2, <2>4, <2>6 DEF SdInv, SdNotAhead
  <2>10. /\ sdNew' = 0 /\ sdPath' # 0
         /\ \A d \in SdCall : sdAt'[d] \notin SdCandidacy /\ sdAt'[d] # "adopting"
    BY <1>1, <2>1, <2>2 DEF SdInv, SdTypes, SdCandidacy
  <2>11. SdCandidate'
    BY <2>10, Zenon DEF SdCandidate
  <2> QED  BY <2>1, <2>7, <2>8, <2>9, <2>11 DEF SdInv
<1> QED  BY <1>3, <1>4 DEF SdFork

LEMMA SdStarts == SdInit => SdInv
<1> SUFFICES ASSUME SdInit PROVE SdInv
  OBVIOUS
<1> DEFINE file(f) == IF f = 1 THEN SdFile(1, 0, TRUE) ELSE SdNoFile
<1>1. \A f : /\ file(f) \in [conv : Nat, store : Nat, bound : BOOLEAN]
             /\ file(f).conv =< 1
             /\ f = 1 => file(f).conv = 1 /\ file(f).store = 0 /\ file(f).bound = TRUE
  BY DEF SdFile, SdNoFile
<1>2. sdFiles = [f \in 1 .. SdMaxFile |-> file(f)]
  BY DEF SdInit
<1>3. 1 \in 1 .. SdMaxFile
  BY SdAssumption
<1> HIDE DEF file
<1>4. SdTypes
  <2>1. sdAt \in [SdCall -> SdPlaces]
    BY DEF SdInit, SdPlaces
  <2>2. sdFiles \in [1 .. SdMaxFile -> [conv : Nat, store : Nat, bound : BOOLEAN]]
    BY <1>1, <1>2
  <2>3. /\ sdBusy \in BOOLEAN /\ sdClosed \in BOOLEAN /\ sdSkipped \in BOOLEAN
        /\ sdConv \in Nat \ {0} /\ sdWork \in Nat
        /\ sdPath \in 1 .. SdMaxFile /\ sdNew \in 0 .. SdMaxFile
    <3>1. /\ sdBusy = FALSE /\ sdClosed = FALSE /\ sdSkipped = FALSE /\ sdConv = 1
          /\ sdWork = 1 /\ sdPath = 1 /\ sdNew = 0
      BY DEF SdInit
    <3>2. sdConv \in Nat \ {0} /\ sdWork \in Nat
      BY <3>1
    <3>3. /\ sdBusy \in BOOLEAN /\ sdClosed \in BOOLEAN /\ sdSkipped \in BOOLEAN
          /\ sdPath \in 1 .. SdMaxFile /\ sdNew \in 0 .. SdMaxFile
      BY <3>1, <1>3, SdZero, Zenon
    <3> QED  BY <3>2, <3>3
  <2> QED  BY <2>1, <2>2, <2>3 DEF SdTypes
<1>5. SdRecorded /\ SdNotAhead
  BY <1>1, <1>2, <1>3 DEF SdInit, SdRecorded, SdNotAhead
<1>6. SdHeld /\ SdCandidate
  BY DEF SdInit, SdHeld, SdCandidate, SdHolding, SdCandidacy
<1> QED  BY <1>4, <1>5, <1>6 DEF SdInv

LEMMA SdKept == SdInv /\ [SdNext]_sdVars => SdInv'
<1> SUFFICES ASSUME SdInv, [SdNext]_sdVars PROVE SdInv'
  OBVIOUS
<1>0. sdClosed \in BOOLEAN
  BY DEF SdInv, SdTypes
<1>1. CASE UNCHANGED sdVars
  BY <1>1 DEF sdVars, SdInv, SdTypes, SdHeld, SdRecorded, SdCandidate, SdNotAhead,
              SdFresh, SdFile
<1>2. ASSUME NEW c \in SdCall, SdCheckOpen(c) PROVE SdInv'
  <2> DEFINE v == IF sdClosed THEN "refused" ELSE "checked"
  <2>1. v \in SdPlaces \ SdCandidacy /\ v \notin SdHolding /\ sdAt[c] \notin SdCandidacy
        /\ sdAt[c] \notin SdHolding
    BY <1>2 DEF SdCheckOpen, SdPlaces, SdCandidacy, SdHolding
  <2>2. sdAt' = [sdAt EXCEPT ![c] = v] /\ sdBusy' = sdBusy /\ UNCHANGED sdData
        /\ sdClosed' \in BOOLEAN
    BY <1>0, <1>2 DEF SdCheckOpen, sdData
  <2> HIDE DEF v
  <2> QED  BY <2>1, <2>2, SdDataKept
<1>3. ASSUME NEW c \in SdCall, SdRejected(c) PROVE SdInv'
  <2>1. /\ "refused" \in SdPlaces \ SdCandidacy /\ "refused" \notin SdHolding
        /\ sdAt[c] \notin SdCandidacy /\ sdAt[c] \notin SdHolding
    BY <1>3 DEF SdRejected, SdPlaces, SdCandidacy, SdHolding
  <2>2. sdAt' = [sdAt EXCEPT ![c] = "refused"] /\ sdBusy' = sdBusy /\ UNCHANGED sdData
        /\ sdClosed' \in BOOLEAN
    BY <1>0, <1>3 DEF SdRejected, sdData
  <2> QED  BY <2>1, <2>2, SdDataKept
<1>4. ASSUME NEW c \in SdCall, SdAgain(c) PROVE SdInv'
  <2>1. /\ "outside" \in SdPlaces \ SdCandidacy /\ "outside" \notin SdHolding
        /\ sdAt[c] \notin SdCandidacy /\ sdAt[c] \notin SdHolding
    BY <1>4 DEF SdAgain, SdPlaces, SdCandidacy, SdHolding
  <2>2. sdAt' = [sdAt EXCEPT ![c] = "outside"] /\ sdBusy' = sdBusy /\ UNCHANGED sdData
        /\ sdClosed' \in BOOLEAN
    BY <1>0, <1>4 DEF SdAgain, sdData
  <2> QED  BY <2>1, <2>2, SdDataKept
<1>5. ASSUME NEW c \in SdCall, NEW op \in SdOps, SdAcquire(c, op) PROVE SdInv'
  <2>1. /\ SdFirst(op) \in SdPlaces \ SdCandidacy /\ SdFirst(op) \in SdHolding
        /\ sdAt[c] \notin SdCandidacy
    BY <1>5 DEF SdAcquire, SdFirst, SdOps, SdPlaces, SdCandidacy, SdHolding
  <2>2. /\ sdAt' = [sdAt EXCEPT ![c] = SdFirst(op)] /\ ~sdBusy /\ sdBusy' = TRUE
        /\ UNCHANGED sdData /\ sdClosed' \in BOOLEAN
    BY <1>0, <1>5 DEF SdAcquire, SdMayTake, sdData
  <2> QED  BY <2>1, <2>2, SdDataKept
<1>6. ASSUME NEW c \in SdCall, NEW saved \in BOOLEAN,
             SdRunEnds(c, saved) \/ SdCompactEnds(c, saved)
      PROVE  SdInv'
  <2>1. sdAt[c] \in SdHolding \ SdCandidacy
    BY <1>6 DEF SdRunEnds, SdCompactEnds, SdHolding, SdCandidacy
  <2> QED  BY <2>1, <1>6, SdSaveKept DEF SdRunEnds, SdCompactEnds
<1>7. ASSUME NEW c \in SdCall,
             SdCreateFails(c) \/ SdKillsLand(c) \/ SdResetFails(c) \/ SdShutdownEnds(c)
      PROVE  SdInv'
  <2>1. /\ sdAt[c] \in SdHolding \ SdCandidacy /\ SdRelease(c)
        /\ UNCHANGED <<sdClosed, sdConv, sdPath, sdFiles, sdNew, sdWork, sdSkipped>>
    BY <1>7 DEF SdCreateFails, SdKillsLand, SdResetFails, SdShutdownEnds,
                SdHolding, SdCandidacy
  <2>2. sdFiles' = IF FALSE THEN [sdFiles EXCEPT ![sdPath].store = sdConv] ELSE sdFiles
    BY <2>1
  <2> QED  BY <2>1, <2>2, SdSaveKept
<1> QED
  BY <1>1, <1>2, <1>3, <1>4, <1>5, <1>6, <1>7,
     SdPrepareKept, SdDiscardKept, SdAdoptKept, SdResetKept, SdForkKept DEF SdNext

(* Between operations a session is one conversation: one call inside, its  *)
(* file whole and its own, its tools its own, no trace of a conversation   *)
(* that failed to start (session/mod.rs, acquire, clear, fork and the      *)
(* resets), for any number of concurrent calls and of files.               *)
THEOREM SdSafety == SdSpec => []SdSafe
<1>1. SdInv => SdSafe
  <2> SUFFICES ASSUME SdInv PROVE SdSafe
    OBVIOUS
  <2>1. SdOneAtATime
    <3>1. CASE sdBusy
      <4>1. PICK c \in SdCall : sdAt[c] \in SdHolding
        BY <3>1 DEF SdInv, SdHeld
      <4>2. SdHolders = {c}
        BY <4>1, Zenon DEF SdInv, SdHeld, SdHolders
      <4> QED  BY <3>1, <4>2, FS_Singleton DEF SdOneAtATime
    <3>2. CASE ~sdBusy
      <4>1. SdHolders = {}
        BY <3>2, Zenon DEF SdInv, SdHeld, SdHolders
      <4> QED  BY <3>2, <4>1, FS_EmptySet DEF SdOneAtATime
    <3> QED  BY <3>1, <3>2 DEF SdInv, SdTypes
  <2>2. SdOnItsFile /\ SdWorkIsCurrent
    BY DEF SdInv, SdTypes, SdRecorded, SdOnItsFile, SdWorkIsCurrent, SdWhole
  <2>3. ~sdBusy => sdNew = 0
    <3>1. SdCandidacy \subseteq SdHolding
      BY DEF SdCandidacy, SdHolding
    <3> QED  BY <3>1, Zenon DEF SdInv, SdHeld, SdCandidate
  <2>4. SdNoTrace
    BY <2>3 DEF SdInv, SdNotAhead, SdNoTrace
  <2> QED  BY <2>1, <2>2, <2>4 DEF SdSafe
<1> QED  BY <1>1, SdStarts, SdKept, PTL DEF SdSpec

-----------------------------------------------------------------------------
(* McpReload: edits arrive, and the catalog is consistent all along        *)
MrConnections == [launch : Nat, error : {"none", "duplicate", "failed"}]

MrTypes ==
  /\ mrSaved \in [MrName -> Nat] /\ mrUnsent \in BOOLEAN
  /\ mrQueue \in Seq({"reload", "reloaded"})
  /\ mrTask \in {"none", "begun", "connecting", "done"} /\ mrPending \in BOOLEAN
  /\ mrWanted \in [MrName -> Nat] /\ mrDesired \in [MrName -> Nat]
  /\ mrTodo \in Seq(MrName) /\ Unique(mrTodo)
  /\ mrConn \in [MrName -> MrConnections]
  /\ mrCatalog \in [MrName -> Nat] /\ mrHealthy \in [MrName -> BOOLEAN]
  /\ mrAgent \in [MrName -> Nat]

(* The worker is told of the end of a pass once, and none begins before;   *)
(* a request is pending only while there is a pass to follow.              *)
MrToldOnce ==
  /\ mrPending => mrTask # "none"
  /\ \A i \in DOMAIN mrQueue : mrQueue[i] = "reloaded" => mrTask = "done"
  /\ \A i, j \in DOMAIN mrQueue :
       mrQueue[i] = "reloaded" /\ mrQueue[j] = "reloaded" => i = j

(* What the connections are in line with: in the middle of a pass, its own *)
(* set; otherwise the set of the last one.                                 *)
MrAim == IF mrTask = "connecting" THEN mrWanted ELSE mrDesired
MrYet == IF mrTask = "connecting" THEN Range(mrTodo) ELSE {}

MrInLine ==
  \A n \in MrName :
    /\ mrConn[n].launch = 0 => mrConn[n] = MrAbsent
    /\ n \in MrYet => mrConn[n] = MrAbsent /\ MrAim[n] # 0
    /\ n \notin MrYet => mrConn[n].launch = MrAim[n]
    /\ mrConn[n].error = "duplicate" =>
         \E m \in MrName \ {n} : {<<n, MrAim[n]>>, <<m, MrAim[m]>>} \in MrClashes

(* An edit that no pass has seen is still to be sent, asked for or pending.*)
MrNoneLost ==
  \/ mrUnsent \/ mrPending \/ mrTask = "begun"
  \/ \E i \in DOMAIN mrQueue : mrQueue[i] = "reload"
  \/ MrAim = MrDesiredServers

MrAgentBuilt == mrTask \in {"none", "begun"} => mrAgent = mrCatalog

MrInv ==
  MrTypes /\ MrToldOnce /\ MrInLine /\ MrCatalogAgrees /\ MrNoneLost /\ MrAgentBuilt

LEMMA MrClashing ==
  ASSUME NEW m, NEW n, NEW k, NEW l, {<<m, k>>, <<n, l>>} \in MrClashes
  PROVE  k # 0 /\ l # 0
BY MrAssumption

LEMMA MrDesiredTypes == MrTypes => MrDesiredServers \in [MrName -> Nat]
<1> SUFFICES ASSUME MrTypes PROVE MrDesiredServers \in [MrName -> Nat]
  OBVIOUS
<1> DEFINE want(n) == IF mrSaved[n] # 0 THEN mrSaved[n] ELSE MrPlugin[n]
<1>1. \A n \in MrName : want(n) \in Nat
  BY MrAssumption DEF MrTypes
<1>2. MrDesiredServers = [n \in MrName |-> want(n)]
  BY Zenon DEF MrDesiredServers
<1> HIDE DEF want
<1> QED  BY <1>1, <1>2

(* The parts that only speak of connections, when none of them changes.    *)
LEMMA MrLineKeeps ==
  ASSUME MrInv, UNCHANGED <<mrConn, mrCatalog>>, MrAim' = MrAim, MrYet' = MrYet
  PROVE  MrInLine' /\ MrCatalogAgrees'
<1>1. MrInLine'
  <2>1. mrConn' = mrConn /\ MrAim' = MrAim /\ MrYet' = MrYet
    OBVIOUS
  <2> HIDE DEF MrAim, MrYet
  <2> QED  BY <2>1 DEF MrInv, MrInLine, MrAbsent
<1>2. MrCatalogAgrees'
  BY DEF MrInv, MrCatalogAgrees
<1> QED  BY <1>1, <1>2

(* A message leaves the head of the queue.                                 *)
LEMMA MrTaken ==
  ASSUME MrInv, mrQueue # <<>>, mrQueue' = Tail(mrQueue)
  PROVE  /\ mrQueue' \in Seq({"reload", "reloaded"})
         /\ \A i \in DOMAIN mrQueue' : i + 1 \in DOMAIN mrQueue /\ mrQueue'[i] = mrQueue[i + 1]
         /\ \A i \in DOMAIN mrQueue : i # 1 =>
              i - 1 \in DOMAIN mrQueue' /\ mrQueue'[i - 1] = mrQueue[i]
         /\ 1 \in DOMAIN mrQueue /\ Head(mrQueue) = mrQueue[1]
<1>1. mrQueue \in Seq({"reload", "reloaded"})
  BY DEF MrInv, MrTypes
<1> QED  BY <1>1

(* A message is added to it.                                               *)
LEMMA MrAdded ==
  ASSUME MrInv, NEW x \in {"reload", "reloaded"}, mrQueue' = Append(mrQueue, x)
  PROVE  /\ mrQueue' \in Seq({"reload", "reloaded"})
         /\ \A i \in DOMAIN mrQueue : i \in DOMAIN mrQueue' /\ mrQueue'[i] = mrQueue[i]
         /\ \A i \in DOMAIN mrQueue' : i \notin DOMAIN mrQueue => mrQueue'[i] = x
         /\ \E i \in DOMAIN mrQueue' : mrQueue'[i] = x
         /\ \A i, j \in DOMAIN mrQueue' :
              i \notin DOMAIN mrQueue /\ j \notin DOMAIN mrQueue => i = j
<1>1. mrQueue \in Seq({"reload", "reloaded"})
  BY DEF MrInv, MrTypes
<1>2. /\ Len(mrQueue) \in Nat /\ DOMAIN mrQueue = 1 .. Len(mrQueue)
      /\ DOMAIN mrQueue' = 1 .. Len(mrQueue) + 1 /\ mrQueue'[Len(mrQueue) + 1] = x
  BY <1>1
<1> QED  BY <1>1, <1>2

LEMMA MrStarts == MrInit => MrInv
<1> SUFFICES ASSUME MrInit PROVE MrInv
  OBVIOUS
<1> USE DEF MrInit
<1>0. \A n \in MrName : MrNone[n] = 0
  BY DEF MrNone
<1>1. MrNone \in [MrName -> Nat] /\ MrAbsent \in MrConnections
  BY DEF MrNone, MrAbsent, MrConnections
<1>2. mrSaved \in [MrName -> Nat]
  <2>1. mrSaved \in [MrName -> {0} \cup MrLaunch]
    OBVIOUS
  <2>2. \A l \in {0} \cup MrLaunch : l \in Nat
    BY MrAssumption
  <2> HIDE DEF MrInit
  <2> QED  BY <2>1, <2>2
<1>3. mrTodo \in Seq(MrName) /\ Unique(mrTodo) /\ mrQueue \in Seq({"reload", "reloaded"})
      /\ mrQueue[1] = "reload" /\ DOMAIN mrQueue = {1}
  BY DEF Unique
<1>4. MrTypes
  BY <1>1, <1>2, <1>3 DEF MrTypes
<1>5. MrToldOnce /\ MrNoneLost /\ MrAgentBuilt
  BY <1>3 DEF MrToldOnce, MrNoneLost, MrAgentBuilt
<1>6. /\ \A n \in MrName : mrConn[n] = MrAbsent /\ mrCatalog[n] = 0
      /\ MrAim = MrNone /\ MrYet = {}
  BY <1>0 DEF MrAim, MrYet
<1>7. MrAbsent.launch = 0 /\ MrAbsent.error = "none"
  BY DEF MrAbsent
<1>8. MrInLine
  BY <1>0, <1>6, <1>7 DEF MrInLine
<1>9. MrCatalogAgrees
  BY <1>6, <1>7, MrClashing DEF MrCatalogAgrees
<1> QED  BY <1>4, <1>5, <1>8, <1>9 DEF MrInv

LEMMA MrSaveKept ==
  ASSUME MrInv, NEW n \in MrName, NEW launch \in {0} \cup MrLaunch, MrSave(n, launch)
  PROVE  MrInv'
<1> USE DEF MrSave
<1>1. mrSaved' \in [MrName -> Nat]
  BY MrAssumption DEF MrInv, MrTypes
<1>2. MrTypes'
  BY <1>1 DEF MrInv, MrTypes
<1>3. MrInLine' /\ MrCatalogAgrees'
  BY MrLineKeeps DEF MrAim, MrYet
<1>4. MrToldOnce' /\ MrNoneLost' /\ MrAgentBuilt'
  BY DEF MrInv, MrToldOnce, MrNoneLost, MrAgentBuilt
<1> QED  BY <1>2, <1>3, <1>4 DEF MrInv

LEMMA MrSendKept ==
  ASSUME MrInv, MrSend
  PROVE  MrInv'
<1> USE DEF MrSend
<1>1. /\ mrQueue' \in Seq({"reload", "reloaded"})
      /\ \A i \in DOMAIN mrQueue : i \in DOMAIN mrQueue' /\ mrQueue'[i] = mrQueue[i]
      /\ \A i \in DOMAIN mrQueue' : i \notin DOMAIN mrQueue => mrQueue'[i] = "reload"
      /\ \E i \in DOMAIN mrQueue' : mrQueue'[i] = "reload"
  BY MrAdded
<1>2. MrTypes'
  BY <1>1 DEF MrInv, MrTypes
<1>3. MrInLine' /\ MrCatalogAgrees'
  BY MrLineKeeps DEF MrAim, MrYet
<1>4. MrToldOnce' /\ MrNoneLost' /\ MrAgentBuilt'
  BY <1>1 DEF MrInv, MrToldOnce, MrNoneLost, MrAgentBuilt
<1> QED  BY <1>2, <1>3, <1>4 DEF MrInv

LEMMA MrRequestKept ==
  ASSUME MrInv, MrRequest
  PROVE  MrInv'
<1> USE DEF MrRequest
<1>1. /\ mrQueue' \in Seq({"reload", "reloaded"})
      /\ \A i \in DOMAIN mrQueue' : i + 1 \in DOMAIN mrQueue /\ mrQueue'[i] = mrQueue[i + 1]
  BY MrTaken
<1>2. MrTypes'
  BY <1>1 DEF MrInv, MrTypes
<1>3. MrInLine' /\ MrCatalogAgrees'
  BY MrLineKeeps DEF MrAim, MrYet
<1>4. MrToldOnce'
  <2>1. mrTask = "done" => mrTask' = "done"
    OBVIOUS
  <2>2. ASSUME NEW i \in DOMAIN mrQueue', NEW j \in DOMAIN mrQueue',
               mrQueue'[i] = "reloaded", mrQueue'[j] = "reloaded"
        PROVE  i = j
    <3>1. i + 1 = j + 1
      BY <1>1, <2>2 DEF MrInv, MrToldOnce
    <3> QED  BY <1>1, <3>1
  <2> QED  BY <1>1, <2>1, <2>2 DEF MrInv, MrToldOnce
<1>5. MrNoneLost' /\ MrAgentBuilt'
  <2>1. CASE mrTask = "none"
    BY <2>1 DEF MrInv, MrNoneLost, MrAgentBuilt
  <2>2. CASE mrTask # "none"
    BY <2>2, Zenon DEF MrInv, MrNoneLost, MrAgentBuilt
  <2> QED  BY <2>1, <2>2
<1> QED  BY <1>2, <1>3, <1>4, <1>5 DEF MrInv

LEMMA MrPassBeginsKept ==
  ASSUME MrInv, MrPassBegins
  PROVE  MrInv'
<1> DEFINE wanted == MrDesiredServers
           stale == MrStale(wanted)
           left(n) == IF n \in stale THEN MrAbsent ELSE mrConn[n]
           kept(n) == IF n \in stale THEN 0 ELSE mrCatalog[n]
           skip == {n \in MrName : wanted[n] = 0 \/ left(n).launch # 0}
<1>1. /\ mrTask = "begun" /\ mrTask' = "connecting" /\ mrWanted' = wanted
      /\ mrConn' = [n \in MrName |-> left(n)] /\ mrCatalog' = [n \in MrName |-> kept(n)]
      /\ mrSaved' = mrSaved /\ mrUnsent' = mrUnsent /\ mrQueue' = mrQueue
      /\ mrPending' = mrPending /\ mrDesired' = mrDesired /\ mrHealthy' = mrHealthy
      /\ mrAgent' = mrAgent
  BY Zenon DEF MrPassBegins
<1>2. mrTodo' = Without(MrOrder, skip)
  <2>1. \A n \in MrName : [o \in MrName |-> IF o \in stale THEN MrAbsent ELSE mrConn[o]][n] = left(n)
    OBVIOUS
  <2>2. {n \in MrName : wanted[n] = 0
            \/ [o \in MrName |-> IF o \in stale THEN MrAbsent ELSE mrConn[o]][n].launch # 0} = skip
    BY <2>1
  <2> HIDE DEF stale, wanted, skip, left
  <2> QED  BY <2>2, Zenon DEF MrPassBegins, stale, wanted
<1>3. wanted \in [MrName -> Nat] /\ MrTypes
  BY MrDesiredTypes DEF MrInv
<1>4. MrAbsent \in MrConnections /\ MrAbsent.launch = 0 /\ MrAbsent.error = "none"
  BY DEF MrAbsent, MrConnections
<1>5. \A n \in MrName : left(n) \in MrConnections /\ kept(n) \in Nat
  BY <1>3, <1>4 DEF MrTypes
<1>6. \A n \in MrName : mrConn'[n] = left(n) /\ mrCatalog'[n] = kept(n)
  BY <1>1
<1>7. /\ mrTodo' \in Seq(MrName) /\ Unique(mrTodo')
      /\ \A n \in MrName : n \in Range(mrTodo') <=> n \notin skip
  <2>1. Unique(MrOrder) /\ MrOrder \in Seq(MrName)
    BY MrAssumption DEF Unique, IsInjective
  <2>2. \A n \in MrName : n \in Range(MrOrder)
    BY DEF MrName
  <2> HIDE DEF skip
  <2> QED  BY <1>2, <2>1, <2>2, WithoutKeeps
<1> HIDE DEF wanted
<1>8. MrTypes'
  <2>1. mrConn' \in [MrName -> MrConnections] /\ mrCatalog' \in [MrName -> Nat]
    <3> HIDE DEF left, kept
    <3> QED  BY <1>1, <1>5
  <2> HIDE DEF left, kept, stale, skip
  <2> QED  BY <1>1, <1>3, <1>7, <2>1 DEF MrTypes
<1>9. MrAim' = wanted /\ MrYet' = Range(mrTodo') /\ MrAim = mrDesired /\ MrYet = {}
  BY <1>1 DEF MrAim, MrYet
<1>10. ASSUME NEW n \in MrName, n \notin stale, mrConn[n].launch # 0
       PROVE  mrConn[n].launch = wanted[n]
  BY <1>10 DEF MrStale
<1>11. ASSUME NEW n \in MrName, n \notin stale, mrConn[n].error = "duplicate",
              mrConn[n].launch # 0
       PROVE  wanted = mrDesired
  BY <1>11 DEF MrStale, MrRetries
<1>12. \A n \in MrName :
         /\ mrConn[n].launch = 0 => mrConn[n] = MrAbsent
         /\ mrConn[n].error = "duplicate" =>
              \E m \in MrName \ {n} : {<<n, mrDesired[n]>>, <<m, mrDesired[m]>>} \in MrClashes
  BY <1>9 DEF MrInv, MrInLine
<1>13. MrInLine'
  <2> SUFFICES ASSUME NEW n \in MrName
               PROVE  /\ left(n).launch = 0 => left(n) = MrAbsent
                      /\ n \notin skip => left(n) = MrAbsent /\ wanted[n] # 0
                      /\ n \in skip => left(n).launch = wanted[n]
                      /\ left(n).error = "duplicate" =>
                           \E m \in MrName \ {n} :
                             {<<n, wanted[n]>>, <<m, wanted[m]>>} \in MrClashes
    <3> HIDE DEF left, kept, stale, skip
    <3>1. MrAbsent' = MrAbsent
      BY DEF MrAbsent
    <3> QED  BY <1>6, <1>7, <1>9, <3>1 DEF MrInLine
  <2>1. left(n).launch = 0 => left(n) = MrAbsent
    BY <1>12
  <2>2. left(n).launch # 0 => left(n).launch = wanted[n]
    BY <1>4, <1>10
  <2>3. left(n).error = "duplicate" =>
          \E m \in MrName \ {n} : {<<n, wanted[n]>>, <<m, wanted[m]>>} \in MrClashes
    <3> SUFFICES ASSUME left(n).error = "duplicate"
                 PROVE  \E m \in MrName \ {n} :
                          {<<n, wanted[n]>>, <<m, wanted[m]>>} \in MrClashes
      OBVIOUS
    <3>1. n \notin stale /\ mrConn[n].error = "duplicate"
      <4> HIDE DEF stale
      <4> QED  BY <1>4
    <3>2. mrConn[n].launch # 0
      BY <1>4, <1>12, <3>1
    <3> HIDE DEF stale
    <3> QED  BY <1>11, <1>12, <3>1, <3>2
  <2> HIDE DEF left, stale
  <2> QED  BY <2>1, <2>2, <2>3
<1>14. MrCatalogAgrees'
  <2>1. \A n \in MrName : kept(n) = IF left(n).error = "none" THEN left(n).launch ELSE 0
    BY <1>4 DEF MrInv, MrCatalogAgrees
  <2>2. ASSUME NEW m \in MrName, NEW n \in MrName, m # n,
               {<<m, kept(m)>>, <<n, kept(n)>>} \in MrClashes
        PROVE  FALSE
    <3>1. kept(m) # 0 /\ kept(n) # 0
      <4> HIDE DEF kept
      <4> QED  BY <2>2, MrClashing
    <3>2. kept(m) = mrCatalog[m] /\ kept(n) = mrCatalog[n]
      BY <3>1
    <3> HIDE DEF kept
    <3> QED  BY <2>2, <3>2 DEF MrInv, MrCatalogAgrees
  <2> HIDE DEF left, kept
  <2> QED  BY <1>6, <2>1, <2>2 DEF MrCatalogAgrees
<1>15. MrToldOnce'
  BY <1>1 DEF MrInv, MrToldOnce
<1>16. MrNoneLost' /\ MrAgentBuilt'
  <2>1. MrDesiredServers' = wanted
    BY <1>1 DEF MrDesiredServers, wanted
  <2> HIDE DEF left, kept, stale, skip
  <2> QED  BY <1>1, <1>9, <2>1 DEF MrNoneLost, MrAgentBuilt
<1> QED  BY <1>8, <1>13, <1>14, <1>15, <1>16 DEF MrInv

LEMMA MrPublishKept ==
  ASSUME MrInv, NEW connected \in BOOLEAN, MrPublish(connected)
  PROVE  MrInv'
<1> DEFINE n == Head(mrTodo)
           joins == connected /\ ~MrDuplicate(n)
           error == IF joins THEN "none" ELSE IF connected THEN "duplicate" ELSE "failed"
           entry == [launch |-> mrWanted[n], error |-> error]
<1>1. /\ mrTask = "connecting" /\ mrTask' = mrTask /\ mrTodo # <<>> /\ mrTodo' = Tail(mrTodo)
      /\ mrConn' = [mrConn EXCEPT ![n] = entry]
      /\ mrCatalog' = IF joins THEN [mrCatalog EXCEPT ![n] = mrWanted[n]] ELSE mrCatalog
      /\ mrHealthy' = IF joins THEN [mrHealthy EXCEPT ![n] = TRUE] ELSE mrHealthy
      /\ mrSaved' = mrSaved /\ mrUnsent' = mrUnsent /\ mrQueue' = mrQueue
      /\ mrPending' = mrPending /\ mrDesired' = mrDesired /\ mrWanted' = mrWanted
      /\ mrAgent' = mrAgent
  BY Zenon DEF MrPublish
<1>2. MrTypes
  BY DEF MrInv
<1>3. mrTodo \in Seq(MrName) /\ Unique(mrTodo)
  BY <1>2 DEF MrTypes
<1>4. /\ n \in MrName /\ mrTodo' \in Seq(MrName) /\ Unique(mrTodo')
      /\ n \in Range(mrTodo) /\ Range(mrTodo') = Range(mrTodo) \ {n}
  BY <1>1, <1>3, TailUnique
<1> HIDE DEF n
<1>5. /\ entry \in MrConnections /\ entry.launch = mrWanted[n] /\ entry.error = error
      /\ mrWanted[n] \in Nat
  BY <1>2, <1>4 DEF MrTypes, MrConnections
<1> HIDE DEF entry
<1>6. /\ mrConn'[n] = entry /\ \A o \in MrName : o # n => mrConn'[o] = mrConn[o]
      /\ mrConn' \in [MrName -> MrConnections]
  BY <1>1, <1>2, <1>4, <1>5 DEF MrTypes
<1>7. /\ mrCatalog'[n] = IF joins THEN mrWanted[n] ELSE mrCatalog[n]
      /\ \A o \in MrName : o # n => mrCatalog'[o] = mrCatalog[o]
      /\ mrCatalog' \in [MrName -> Nat] /\ mrHealthy' \in [MrName -> BOOLEAN]
  <2> HIDE DEF joins
  <2>1. CASE joins
    BY <2>1, <1>1, <1>2, <1>4, <1>5 DEF MrTypes
  <2>2. CASE ~joins
    BY <2>2, <1>1, <1>2, <1>4 DEF MrTypes
  <2> QED  BY <2>1, <2>2
<1>8. MrTypes'
  <2> HIDE DEF joins
  <2> QED  BY <1>1, <1>2, <1>4, <1>6, <1>7 DEF MrTypes
<1>9. MrAim' = mrWanted /\ MrYet' = Range(mrTodo) \ {n} /\ MrAim = mrWanted /\ MrYet = Range(mrTodo)
  BY <1>1, <1>4 DEF MrAim, MrYet
<1>10. /\ mrConn[n] = MrAbsent /\ mrWanted[n] # 0
       /\ \A m \in MrName : m \in Range(mrTodo) => mrConn[m] = MrAbsent /\ mrWanted[m] # 0
       /\ \A m \in MrName : m \notin Range(mrTodo) => mrConn[m].launch = mrWanted[m]
  BY <1>4, <1>9 DEF MrInv, MrInLine
<1>11. MrAbsent.launch = 0 /\ MrAbsent.error = "none"
  BY DEF MrAbsent
<1>12. mrCatalog[n] = 0 /\ \A m \in MrName : mrCatalog[m] # 0 => mrCatalog[m] = mrWanted[m]
  BY <1>4, <1>10, <1>11 DEF MrInv, MrCatalogAgrees
<1>13. error = "duplicate" =>
         \E m \in MrName \ {n} : {<<n, mrWanted[n]>>, <<m, mrWanted[m]>>} \in MrClashes
  <2> SUFFICES ASSUME error = "duplicate"
               PROVE  \E m \in MrName \ {n} :
                        {<<n, mrWanted[n]>>, <<m, mrWanted[m]>>} \in MrClashes
    OBVIOUS
  <2>1. MrDuplicate(n)
    OBVIOUS
  <2>2. PICK m \in MrName \ {n} : {<<n, mrWanted[n]>>, <<m, mrCatalog[m]>>} \in MrClashes
    BY <2>1 DEF MrDuplicate
  <2>3. mrCatalog[m] # 0
    BY <2>2, MrClashing
  <2> QED  BY <1>12, <2>2, <2>3
<1>14. joins => error = "none"
  OBVIOUS
<1>15. ~joins => error # "none"
  OBVIOUS
<1>16. joins => \A m \in MrName : m # n =>
                  {<<n, mrWanted[n]>>, <<m, mrCatalog[m]>>} \notin MrClashes
  BY DEF MrDuplicate
<1> HIDE DEF joins, error
<1>17. MrInLine'
  <2> SUFFICES ASSUME NEW o \in MrName
               PROVE  /\ mrConn'[o].launch = 0 => mrConn'[o] = MrAbsent
                      /\ o \in MrYet' => mrConn'[o] = MrAbsent /\ mrWanted[o] # 0
                      /\ o \notin MrYet' => mrConn'[o].launch = mrWanted[o]
                      /\ mrConn'[o].error = "duplicate" =>
                           \E m \in MrName \ {o} :
                             {<<o, mrWanted[o]>>, <<m, mrWanted[m]>>} \in MrClashes
    <3>1. MrAbsent' = MrAbsent
      BY DEF MrAbsent
    <3> QED  BY <1>9, <3>1 DEF MrInLine
  <2>1. CASE o = n
    BY <2>1, <1>5, <1>6, <1>9, <1>10, <1>13
  <2>2. CASE o # n
    BY <2>2, <1>6, <1>9 DEF MrInv, MrInLine
  <2> QED  BY <2>1, <2>2
<1>18. MrCatalogAgrees'
  <2>1. ASSUME NEW o \in MrName
        PROVE  mrCatalog'[o] = IF mrConn'[o].error = "none" THEN mrConn'[o].launch ELSE 0
    <3>1. CASE o = n
      BY <3>1, <1>5, <1>6, <1>7, <1>12, <1>14, <1>15
    <3>2. CASE o # n
      BY <3>2, <1>6, <1>7 DEF MrInv, MrCatalogAgrees
    <3> QED  BY <3>1, <3>2
  <2>2. ASSUME NEW k \in MrName, NEW o \in MrName, k # o
        PROVE  {<<k, mrCatalog'[k]>>, <<o, mrCatalog'[o]>>} \notin MrClashes
    <3>1. CASE ~joins
      <4>1. \A m \in MrName : mrCatalog'[m] = mrCatalog[m]
        BY <3>1, <1>7
      <4> QED  BY <2>2, <4>1 DEF MrInv, MrCatalogAgrees
    <3>2. CASE joins /\ k # n /\ o # n
      BY <2>2, <3>2, <1>7 DEF MrInv, MrCatalogAgrees
    <3>3. CASE joins /\ k = n
      BY <2>2, <3>3, <1>7, <1>16
    <3>4. CASE joins /\ o = n
      <4>1. {<<k, mrCatalog'[k]>>, <<o, mrCatalog'[o]>>}
              = {<<o, mrCatalog'[o]>>, <<k, mrCatalog'[k]>>}
        OBVIOUS
      <4> QED  BY <2>2, <3>4, <4>1, <1>7, <1>16
    <3> QED  BY <3>1, <3>2, <3>3, <3>4
  <2> QED  BY <2>1, <2>2 DEF MrCatalogAgrees
<1>19. MrToldOnce' /\ MrAgentBuilt'
  BY <1>1 DEF MrInv, MrToldOnce, MrAgentBuilt
<1>20. MrNoneLost'
  <2>1. MrDesiredServers' = MrDesiredServers /\ MrAim' = MrAim
    BY <1>1, <1>9 DEF MrDesiredServers
  <2> QED  BY <1>1, <2>1 DEF MrInv, MrNoneLost
<1> QED  BY <1>8, <1>17, <1>18, <1>19, <1>20 DEF MrInv

LEMMA MrPassEndsKept ==
  ASSUME MrInv, MrPassEnds
  PROVE  MrInv'
<1> USE DEF MrPassEnds
<1>1. /\ mrQueue' \in Seq({"reload", "reloaded"})
      /\ \A i \in DOMAIN mrQueue : i \in DOMAIN mrQueue' /\ mrQueue'[i] = mrQueue[i]
      /\ \A i \in DOMAIN mrQueue' : i \notin DOMAIN mrQueue => mrQueue'[i] = "reloaded"
      /\ \A i, j \in DOMAIN mrQueue' :
           i \notin DOMAIN mrQueue /\ j \notin DOMAIN mrQueue => i = j
  BY MrAdded
<1>2. MrTypes'
  BY <1>1 DEF MrInv, MrTypes
<1>3. MrAim' = MrAim /\ MrYet' = {} /\ MrYet = {}
  BY DEF MrAim, MrYet, Range
<1>4. MrInLine' /\ MrCatalogAgrees'
  BY <1>3, MrLineKeeps
<1>5. MrToldOnce'
  <2>1. \A i \in DOMAIN mrQueue : mrQueue[i] # "reloaded"
    BY DEF MrInv, MrToldOnce
  <2>2. \A i \in DOMAIN mrQueue' : mrQueue'[i] = "reloaded" => i \notin DOMAIN mrQueue
    BY <1>1, <2>1
  <2> QED  BY <1>1, <2>2 DEF MrToldOnce
<1>6. MrNoneLost' /\ MrAgentBuilt'
  <2>1. MrDesiredServers' = MrDesiredServers
    BY DEF MrDesiredServers
  <2> QED  BY <1>1, <1>3, <2>1 DEF MrInv, MrNoneLost, MrAgentBuilt
<1> QED  BY <1>2, <1>4, <1>5, <1>6 DEF MrInv

LEMMA MrFinishKept ==
  ASSUME MrInv, MrFinish
  PROVE  MrInv'
<1> USE DEF MrFinish
<1>1. /\ mrQueue' \in Seq({"reload", "reloaded"})
      /\ \A i \in DOMAIN mrQueue' : i + 1 \in DOMAIN mrQueue /\ mrQueue'[i] = mrQueue[i + 1]
      /\ \A i \in DOMAIN mrQueue : i # 1 =>
           i - 1 \in DOMAIN mrQueue' /\ mrQueue'[i - 1] = mrQueue[i]
      /\ 1 \in DOMAIN mrQueue /\ mrQueue[1] = "reloaded"
  BY MrTaken
<1>2. mrTask = "done" /\ \A i \in DOMAIN mrQueue' : mrQueue'[i] # "reloaded"
  <2>1. ASSUME NEW i \in DOMAIN mrQueue', mrQueue'[i] = "reloaded" PROVE FALSE
    <3>1. i + 1 = 1 /\ i \in Nat \ {0}
      BY <1>1, <2>1 DEF MrInv, MrToldOnce
    <3> QED  BY <3>1
  <2> QED  BY <1>1, <2>1 DEF MrInv, MrToldOnce
<1>3. MrTypes'
  <2>1. mrTask' \in {"none", "begun"}
    OBVIOUS
  <2> QED  BY <1>1, <2>1 DEF MrInv, MrTypes
<1>4. MrAim' = MrAim /\ MrYet' = {} /\ MrYet = {}
  BY <1>2 DEF MrAim, MrYet
<1>5. MrInLine' /\ MrCatalogAgrees'
  BY <1>4, MrLineKeeps
<1>6. MrToldOnce'
  BY <1>2 DEF MrToldOnce
<1>7. MrNoneLost' /\ MrAgentBuilt'
  <2>1. MrDesiredServers' = MrDesiredServers
    BY DEF MrDesiredServers
  <2>2. CASE mrPending
    BY <2>2 DEF MrAgain, MrNoneLost, MrAgentBuilt
  <2>3. CASE ~mrPending
    <3>1. \/ mrUnsent \/ MrAim = MrDesiredServers
          \/ \E i \in DOMAIN mrQueue : i # 1 /\ mrQueue[i] = "reload"
      BY <1>1, <1>2, <2>3 DEF MrInv, MrNoneLost
    <3> QED  BY <1>1, <1>4, <2>1, <3>1 DEF MrNoneLost, MrAgentBuilt
  <2> QED  BY <2>2, <2>3
<1> QED  BY <1>3, <1>5, <1>6, <1>7 DEF MrInv

LEMMA MrKept == MrInv /\ [MrNext]_mrVars => MrInv'
<1> SUFFICES ASSUME MrInv, [MrNext]_mrVars PROVE MrInv'
  OBVIOUS
<1>1. ASSUME \/ UNCHANGED mrVars
             \/ \E n \in MrName : MrBreaks(n)
      PROVE  MrInv'
  <2>1. /\ mrHealthy' \in [MrName -> BOOLEAN]
        /\ mrSaved' = mrSaved /\ mrUnsent' = mrUnsent /\ mrQueue' = mrQueue
        /\ mrTask' = mrTask /\ mrPending' = mrPending /\ mrWanted' = mrWanted
        /\ mrTodo' = mrTodo /\ mrDesired' = mrDesired /\ mrConn' = mrConn
        /\ mrCatalog' = mrCatalog /\ mrAgent' = mrAgent
    BY <1>1 DEF mrVars, MrBreaks, MrInv, MrTypes
  <2>2. MrTypes'
    BY <2>1 DEF MrInv, MrTypes
  <2>3. MrAim' = MrAim /\ MrYet' = MrYet /\ MrDesiredServers' = MrDesiredServers
    BY <2>1 DEF MrAim, MrYet, MrDesiredServers
  <2>4. MrInLine' /\ MrCatalogAgrees'
    BY <2>1, <2>3, MrLineKeeps
  <2>5. MrToldOnce' /\ MrNoneLost' /\ MrAgentBuilt'
    BY <2>1, <2>3 DEF MrInv, MrToldOnce, MrNoneLost, MrAgentBuilt
  <2> QED  BY <2>2, <2>4, <2>5 DEF MrInv
<1> QED
  BY <1>1, MrSaveKept, MrSendKept, MrRequestKept, MrPassBeginsKept, MrPublishKept,
     MrPassEndsKept, MrFinishKept DEF MrNext

(* Edits made at any moment of a pass arrive, the catalog agrees with the  *)
(* connections all along, and a server is held back only for one that is   *)
(* still wanted (mcp.rs, reload_with_timeout; mcp_reload.rs, request and   *)
(* finish), for any servers, launches and number of edits.                 *)
THEOREM MrSafety == MrSpec => []MrSafe
<1>1. MrInv => MrSafe
  <2> SUFFICES ASSUME MrInv PROVE MrSafe
    OBVIOUS
  <2>1. MrQuiet => /\ mrTask = "none" /\ MrAim = mrDesired /\ MrYet = {}
                   /\ mrAgent = mrCatalog
    BY DEF MrInv, MrQuiet, MrAim, MrYet, MrAgentBuilt
  <2>2. MrQuiet => mrDesired = MrDesiredServers
    <3>1. CASE mrPending
      BY <2>1, <3>1 DEF MrInv, MrToldOnce
    <3>2. CASE ~mrPending
      BY <2>1, <3>2 DEF MrInv, MrNoneLost, MrQuiet
    <3> QED  BY <3>1, <3>2
  <2>3. MrSettled
    BY <2>1, <2>2 DEF MrInv, MrInLine, MrSettled
  <2>4. MrHeldBackForCause
    BY <2>1, <2>2 DEF MrInv, MrInLine, MrHeldBackForCause
  <2> QED  BY <2>3, <2>4 DEF MrInv, MrSafe
<1> QED  BY <1>1, MrStarts, MrKept, PTL DEF MrSpec

-----------------------------------------------------------------------------
(* PluginHooks: hooks fail closed                                          *)
PhTypes ==
  /\ phEvent \in PhEvents /\ phAt \in Nat /\ phAt > 0 /\ phAt =< PhHooks + 1
  /\ phHost \in {"spawn", "write", "collect", "done"}
  /\ phToWrite \in Nat /\ phIn \in Nat /\ phOut \in Nat /\ phGot \in Nat /\ phWrote \in Nat
  /\ phChild \in {"none", "alive", "ok", "failed"}
  /\ phPlan \in PhAnswers /\ phArgs \in Nat
  /\ phLog \in Seq([wrote : Nat, plan : PhAnswers, status : {"ok"}])
  /\ phOutcome \in {"none", "go", "deny", "error", "dropped"}

(* What a process wrote is read or in the pipe, and one is there only      *)
(* while a hook has its turn.                                              *)
PhFlow ==
  /\ phWrote = phGot + phOut
  /\ phHost \in {"spawn", "done"} => phChild # "alive"
  /\ phHost \in {"write", "collect"} => phAt =< PhHooks
  /\ phHost = "done" <=> phOutcome # "none"
  /\ phOutcome = "go" => phAt = PhHooks + 1

(* The event may still go on, or does.                                     *)
PhOpen == phEvent # "notify" /\ phOutcome \in {"none", "go"}
PhConsents == IF phEvent = "observe" THEN {"accept"} ELSE {"accept", "change"}
PhChanged(entry) == entry.wrote > 0 /\ entry.plan.kind = "change"

(* Every hook so far said yes, and the last change of theirs stands.       *)
PhSoFar ==
  PhOpen =>
    /\ Len(phLog) = phAt - 1
    /\ \A i \in DOMAIN phLog : PhSaid(phLog[i], PhConsents)
    /\ \A i \in DOMAIN phLog : PhChanged(phLog[i]) => i =< phArgs
    /\ phArgs # 0 => phArgs \in DOMAIN phLog /\ PhChanged(phLog[phArgs])

PhInv == PhTypes /\ PhFlow /\ PhSoFar

LEMMA PhPlans ==
  ASSUME NEW plan \in PhAnswers
  PROVE  /\ plan.kind \in {"accept", "change", "deny", "bad"}
         /\ plan.len \in Nat /\ plan.len > 0
BY PhAssumption DEF PhAnswers

LEMMA PhStarts == PhInit => PhInv
<1> SUFFICES ASSUME PhInit PROVE PhInv
  OBVIOUS
<1>1. phPlan \in PhAnswers
  BY PhAssumption DEF PhInit, PhAnswers
<1>2. phLog = <<>> /\ phAt = 1 /\ phArgs = 0
  BY DEF PhInit
<1>3. PhSoFar
  BY <1>2 DEF PhSoFar
<1>4. PhTypes /\ PhFlow
  BY <1>1, <1>2, PhAssumption DEF PhInit, PhTypes, PhFlow
<1> QED  BY <1>3, <1>4 DEF PhInv

(* The log and the change that stands are left alone.                      *)
LEMMA PhSoFarKeeps ==
  ASSUME PhInv, phEvent' = phEvent, phLog' = phLog, phArgs' = phArgs,
         PhOpen' => PhOpen /\ phAt' = phAt
  PROVE  PhSoFar'
<1>1. PhConsents' = PhConsents
  BY DEF PhConsents
<1>3. CASE PhOpen'
  <2>1. Len(phLog') = phAt' - 1
    BY <1>3 DEF PhInv, PhSoFar
  <2>2. \A i \in DOMAIN phLog' : PhSaid(phLog'[i], PhConsents')
    BY <1>1, <1>3 DEF PhInv, PhSoFar
  <2>3. phArgs' # 0 => phArgs' \in DOMAIN phLog' /\ PhChanged(phLog'[phArgs'])
    BY <1>3 DEF PhInv, PhSoFar
  <2>4. \A i \in DOMAIN phLog' : PhChanged(phLog'[i]) => i =< phArgs'
    BY <1>3 DEF PhInv, PhSoFar
  <2> QED  BY <2>1, <2>2, <2>3, <2>4 DEF PhSoFar, PhSaid, PhChanged
<1> QED  BY <1>3 DEF PhSoFar

(* An invocation fails: the event too, unless the run is over anyway.      *)
LEMMA PhFailsKept ==
  ASSUME PhInv, PhFails, phHost \in {"write", "collect"},
         UNCHANGED <<phEvent, phProc>>
  PROVE  PhInv'
<1>1. PhTypes' /\ PhFlow'
  <2>1. phChild' \in {"none", "ok", "failed"}
    BY DEF PhFails, PhKilled, PhInv, PhTypes
  <2>2. phPlan' \in PhAnswers
    BY DEF PhInv, PhTypes, phProc
  <2> QED
    BY <2>1, <2>2, PhAssumption DEF PhFails, PhInv, PhTypes, PhFlow, phProc
<1>2. PhSoFar'
  BY PhSoFarKeeps DEF PhFails, PhOpen, PhInv
<1> QED  BY <1>1, <1>2 DEF PhInv

(* An answer is accepted: it is all that the process wrote.                *)
LEMMA PhAcceptKept ==
  ASSUME PhInv, PhAccept
  PROVE  PhInv'
<1> DEFINE entry == [wrote |-> phWrote, plan |-> phPlan, status |-> phChild]
           denies == PhParsed = "deny" /\ phEvent = "before_tool"
<1>1. /\ phWrote \in Nat /\ phGot \in Nat /\ phOut \in Nat /\ phAt \in Nat /\ phArgs \in Nat
      /\ phPlan \in PhAnswers /\ phEvent \in PhEvents /\ phWrote = phGot + phOut
      /\ phLog \in Seq([wrote : Nat, plan : PhAnswers, status : {"ok"}])
      /\ phHost = "collect" /\ phAt =< PhHooks /\ phOutcome = "none" /\ phAt > 0
      /\ phChild = "ok" /\ phGot =< PhLimit /\ PhParsed \in PhAllowed
  BY DEF PhInv, PhTypes, PhFlow, PhAccept, PhSound
<1>2. phWrote = phGot
  BY <1>1, PhAssumption DEF PhAccept, PhJoined, PhReadsOn
<1>3. /\ phPlan.kind \in {"accept", "change", "deny", "bad"}
      /\ phPlan.len \in Nat /\ phPlan.len > 0
  BY <1>1, PhPlans
<1>4. /\ PhParsed # "none" <=> phWrote > 0
      /\ phWrote > 0 => phWrote = phPlan.len /\ PhParsed = phPlan.kind
  <2>1. "bad" \notin PhAllowed
    BY <1>1 DEF PhAllowed, PhEvents
  <2> QED  BY <1>1, <1>2, <1>3, <2>1 DEF PhParsed
<1>5. entry \in [wrote : Nat, plan : PhAnswers, status : {"ok"}]
  BY <1>1
<1>6. entry.wrote = phWrote /\ entry.plan = phPlan
  OBVIOUS
<1> HIDE DEF entry
<1>7. phLog' = Append(phLog, entry)
  BY DEF PhAccept, entry
<1>8. /\ phLog' \in Seq([wrote : Nat, plan : PhAnswers, status : {"ok"}])
      /\ Len(phLog') = Len(phLog) + 1 /\ Len(phLog) \in Nat
      /\ DOMAIN phLog = 1 .. Len(phLog) /\ DOMAIN phLog' = 1 .. Len(phLog) + 1
      /\ phLog'[Len(phLog) + 1] = entry
      /\ \A i \in 1 .. Len(phLog) : phLog'[i] = phLog[i]
  BY <1>1, <1>5, <1>7
<1>9. /\ phEvent' = phEvent /\ phPlan' = phPlan /\ phChild' = phChild
      /\ phToWrite' = phToWrite /\ phIn' = phIn /\ phOut' = phOut /\ phGot' = phGot
      /\ phWrote' = phWrote
      /\ phArgs' = IF PhParsed = "change" /\ phEvent # "notify" THEN phAt ELSE phArgs
      /\ IF denies THEN phHost' = "done" /\ phOutcome' = "deny" /\ phAt' = phAt
                   ELSE phHost' = "spawn" /\ phAt' = phAt + 1 /\ phOutcome' = phOutcome
  BY DEF PhAccept, phProc
<1>10. PhTypes'
  <2>1. phArgs' \in Nat /\ phAt' \in Nat /\ phAt' > 0 /\ phAt' =< PhHooks + 1
    BY <1>1, <1>9, PhAssumption
  <2> QED  BY <1>1, <1>8, <1>9, <2>1 DEF PhInv, PhTypes
<1>11. PhFlow'
  BY <1>1, <1>9 DEF PhFlow
<1>12. ASSUME PhOpen' PROVE PhSoFar'
  <2>1. PhOpen /\ ~denies /\ phAt' = phAt + 1 /\ phEvent # "notify"
    BY <1>1, <1>9, <1>12 DEF PhOpen
  <2>2. Len(phLog) = phAt - 1 /\ Len(phLog') = phAt' - 1 /\ phLog'[phAt] = entry
    BY <1>1, <1>8, <2>1 DEF PhInv, PhSoFar
  <2>3. phWrote > 0 => phPlan.kind \in PhConsents
    <3>1. PhAllowed \subseteq PhConsents \cup {"none"} \/ PhParsed = "deny"
          \/ PhParsed \in PhConsents \cup {"none"}
      BY <1>1, <2>1 DEF PhAllowed, PhConsents, PhEvents
    <3>2. PhParsed \in PhConsents \cup {"none"}
      BY <1>1, <2>1, <3>1 DEF PhAllowed, PhConsents, PhEvents
    <3> QED  BY <1>4, <3>2
  <2>4. PhSaid(entry, PhConsents)
    BY <1>1, <1>4, <1>6, <2>3 DEF PhSaid
  <2>5. PhConsents' = PhConsents
    BY <1>9 DEF PhConsents
  <2>6. \A i \in 1 .. Len(phLog) : PhChanged(phLog'[i]) <=> PhChanged(phLog[i])
    BY <1>8 DEF PhChanged
  <2>7. PhChanged(phLog'[phAt]) <=> PhParsed = "change"
    BY <1>4, <1>6, <2>2 DEF PhChanged
  <2>8. \A i \in DOMAIN phLog' : PhSaid(phLog'[i], PhConsents')
    BY <1>1, <1>8, <2>1, <2>2, <2>4, <2>5 DEF PhInv, PhSoFar
  <2>9. \A i \in DOMAIN phLog' : i = phAt \/ i \in 1 .. Len(phLog)
    BY <1>1, <1>8, <2>2
  <2>10. /\ \A i \in 1 .. Len(phLog) : PhChanged(phLog[i]) => i =< phArgs
         /\ phArgs # 0 => phArgs \in 1 .. Len(phLog) /\ PhChanged(phLog[phArgs])
    BY <1>8, <2>1 DEF PhInv, PhSoFar
  <2>11. \A i \in DOMAIN phLog' : PhChanged(phLog'[i]) => i =< phArgs'
    <3>1. CASE PhParsed = "change"
      <4>1. phArgs' = phAt
        BY <1>9, <2>1, <3>1
      <4> QED  BY <1>1, <1>8, <2>2, <4>1
    <3>2. CASE PhParsed # "change"
      <4>1. phArgs' = phArgs
        BY <1>9, <3>2
      <4> QED  BY <2>6, <2>7, <2>9, <2>10, <3>2, <4>1
    <3> QED  BY <3>1, <3>2
  <2>12. phArgs' # 0 => phArgs' \in DOMAIN phLog' /\ PhChanged(phLog'[phArgs'])
    <3>1. CASE PhParsed = "change"
      <4>1. phArgs' = phAt
        BY <1>9, <2>1, <3>1
      <4> QED  BY <1>1, <1>4, <1>6, <1>8, <2>2, <3>1, <4>1 DEF PhChanged
    <3>2. CASE PhParsed # "change"
      <4>1. phArgs' = phArgs
        BY <1>9, <3>2
      <4> QED  BY <1>8, <2>10, <4>1 DEF PhChanged
    <3> QED  BY <3>1, <3>2
  <2> QED  BY <2>2, <2>8, <2>11, <2>12, Zenon DEF PhSoFar, PhChanged, PhSaid
<1>13. PhSoFar'
  BY <1>12, Zenon DEF PhSoFar
<1> QED  BY <1>10, <1>11, <1>13 DEF PhInv

LEMMA PhKept == PhInv /\ [PhNext]_phVars => PhInv'
<1> SUFFICES ASSUME PhInv, [PhNext]_phVars PROVE PhInv'
  OBVIOUS
<1>1. CASE UNCHANGED phVars
  <2>1. PhSoFar'
    BY <1>1, PhSoFarKeeps DEF phVars, PhOpen
  <2> QED  BY <1>1, <2>1 DEF phVars, phProc, PhInv, PhTypes, PhFlow
<1>2. CASE PhLoopEnds
  <2>1. PhSoFar'
    BY <1>2, PhSoFarKeeps DEF PhLoopEnds, PhOpen, PhInv, PhTypes, PhFlow
  <2>2. PhTypes' /\ PhFlow'
    BY <1>2, PhAssumption DEF PhLoopEnds, phProc, PhInv, PhTypes, PhFlow
  <2> QED  BY <2>1, <2>2 DEF PhInv
<1>3. CASE PhSpawn
  <2>1. PhSoFar'
    BY <1>3, PhSoFarKeeps DEF PhSpawn, PhOpen
  <2>2. PhTypes' /\ PhFlow'
    BY <1>3, PhAssumption DEF PhSpawn, PhInv, PhTypes, PhFlow
  <2> QED  BY <2>1, <2>2 DEF PhInv
<1>4. CASE PhChildReads
  <2>1. PhSoFar'
    BY <1>4, PhSoFarKeeps DEF PhChildReads, PhOpen
  <2>2. PhTypes' /\ PhFlow'
    BY <1>4 DEF PhChildReads, PhInv, PhTypes, PhFlow
  <2> QED  BY <2>1, <2>2 DEF PhInv
<1>5. CASE PhChildWrites
  <2>1. PhSoFar'
    BY <1>5, PhSoFarKeeps DEF PhChildWrites, PhOpen
  <2>2. PhTypes' /\ PhFlow'
    BY <1>5 DEF PhChildWrites, PhInv, PhTypes, PhFlow
  <2> QED  BY <2>1, <2>2 DEF PhInv
<1>6. CASE PhChildEnds
  <2>1. PhSoFar'
    BY <1>6, PhSoFarKeeps DEF PhChildEnds, PhOpen
  <2>2. PhTypes' /\ PhFlow'
    BY <1>6 DEF PhChildEnds, phProc, PhInv, PhTypes, PhFlow
  <2> QED  BY <2>1, <2>2 DEF PhInv
<1>7. CASE PhWrite
  <2>1. PhSoFar'
    BY <1>7, PhSoFarKeeps DEF PhWrite, PhOpen
  <2>2. PhTypes' /\ PhFlow'
    BY <1>7 DEF PhWrite, PhInv, PhTypes, PhFlow
  <2> QED  BY <2>1, <2>2 DEF PhInv
<1>8. CASE PhRead
  <2>1. PhSoFar'
    BY <1>8, PhSoFarKeeps DEF PhRead, PhOpen
  <2>2. PhTypes' /\ PhFlow'
    BY <1>8 DEF PhRead, PhInv, PhTypes, PhFlow
  <2> QED  BY <2>1, <2>2 DEF PhInv
<1>9. CASE PhBrokenPipe \/ PhTimeout \/ PhRefuse
  BY <1>9, PhFailsKept DEF PhBrokenPipe, PhTimeout, PhRefuse
<1>10. CASE PhDrop
  <2>1. PhSoFar'
    BY <1>10, PhSoFarKeeps DEF PhDrop, PhOpen
  <2>2. phChild' \in {"none", "ok", "failed"}
    BY <1>10 DEF PhDrop, PhKilled, PhInv, PhTypes
  <2>3. PhTypes' /\ PhFlow'
    BY <1>10, <2>2 DEF PhDrop, phProc, PhInv, PhTypes, PhFlow
  <2> QED  BY <2>1, <2>3 DEF PhInv
<1> QED
  BY <1>1, <1>2, <1>3, <1>4, <1>5, <1>6, <1>7, <1>8, <1>9, <1>10, PhAcceptKept DEF PhNext

(* Hooks fail closed: an event goes ahead only on a whole, sound answer of *)
(* every hook, the last change made in form stands, and no process         *)
(* outlives the event (plugin_hooks.rs, invoke and the event loops), for   *)
(* any number of hooks and any sizes of input, pipe and answer.            *)
THEOREM PhSafety == PhSpec => []PhSafe
<1>1. PhInv => PhSafe
  <2> SUFFICES ASSUME PhInv PROVE PhSafe
    OBVIOUS
  <2>1. PhOpen /\ phOutcome = "go" =>
          /\ Len(phLog) = PhHooks /\ DOMAIN phLog = 1 .. PhHooks
          /\ \A i \in 1 .. PhHooks : phLog[i].status = "ok" /\ phLog[i].wrote \in Nat
    <3>1. PhOpen /\ phOutcome = "go" => Len(phLog) = PhHooks
      <4>1. PhOpen => Len(phLog) = phAt - 1
        BY DEF PhInv, PhSoFar
      <4>2. phOutcome = "go" => phAt = PhHooks + 1
        BY DEF PhInv, PhFlow
      <4> QED  BY <4>1, <4>2, PhAssumption
    <3>2. phLog \in Seq([wrote : Nat, plan : PhAnswers, status : {"ok"}])
      BY DEF PhInv, PhTypes
    <3>3. DOMAIN phLog = 1 .. Len(phLog)
      BY <3>2
    <3>4. \A i \in 1 .. Len(phLog) : phLog[i].status = "ok" /\ phLog[i].wrote \in Nat
      <4> DEFINE entries == [wrote : Nat, plan : PhAnswers, status : {"ok"}]
      <4>1. \A i \in 1 .. Len(phLog) : phLog[i] \in entries
        <5>1. phLog \in Seq(entries)
          BY <3>2
        <5> HIDE DEF entries
        <5> QED  BY <5>1
      <4> QED  BY <4>1
    <3> QED  BY <3>1, <3>3, <3>4
  <2>2. PhFailsClosed
    BY <2>1 DEF PhInv, PhSoFar, PhOpen, PhConsents, PhFailsClosed
  <2>3. PhLastChangeStands
    <3> SUFFICES ASSUME phOutcome = "go", phEvent \in {"before_tool", "after_tool"}
                 PROVE  LET made == {i \in 1 .. PhHooks : PhChanged(phLog[i])}
                        IN IF made = {} THEN phArgs = 0
                           ELSE phArgs \in made /\ \A i \in made : i =< phArgs
      BY DEF PhLastChangeStands, PhChanged
    <3>1. /\ DOMAIN phLog = 1 .. PhHooks
          /\ \A i \in 1 .. PhHooks : PhChanged(phLog[i]) => i =< phArgs
          /\ phArgs # 0 => phArgs \in 1 .. PhHooks /\ PhChanged(phLog[phArgs])
      BY <2>1 DEF PhInv, PhSoFar, PhOpen
    <3>2. \A i \in 1 .. PhHooks : i > 0
      BY PhAssumption
    <3>3. phArgs \in Nat
      BY DEF PhInv, PhTypes
    <3> HIDE DEF PhChanged
    <3> QED  BY <3>1, <3>2, <3>3, PhAssumption
  <2>4. PhNothingLeft
    BY DEF PhInv, PhFlow, PhNothingLeft
  <2> QED  BY <2>2, <2>3, <2>4 DEF PhSafe
<1> QED  BY <1>1, PhStarts, PhKept, PTL DEF PhSpec

-----------------------------------------------------------------------------
(* Approvals: a call is admitted as a mode it met says                     *)
ApSteps == {"new", "gated", "asking", "confirming", "cleared", "reviewing"} \cup ApEnded

ApTypes ==
  /\ apMode \in ApModes /\ apWhat \in [ApCall -> ApCalls]
  /\ apStep \in [ApCall -> ApSteps] /\ apBy \in [ApCall -> {"nobody", "human", "grant"}]
  /\ apRead \in [ApCall -> Nat] /\ apRequest \in Nat
  /\ apModes \in [ApCall -> SUBSET ApModes]

(* The plan gate lets such a call pass in such a mode.                     *)
ApPasses(c, what, mode) ==
  \/ mode \in {"normal", "auto", "yolo"}
  \/ c = "root" /\ what # "write" /\ mode = "plan"
  \/ (c = "subagent" \/ what = "write") /\ mode = "orchestrate"

(* What the modes a call has met say of where it got.                      *)
ApMet(c, what, step, by, met) ==
  /\ \E mode \in met : ApPasses(c, what, mode)
  /\ step = "reviewing" => "auto" \in met
  /\ c = "root" /\ step = "cleared" /\ by = "nobody" => "auto" \in met \/ "yolo" \in met
  /\ by = "grant" =>
       \/ "normal" \in met \/ "orchestrate" \in met
       \/ "plan" \in met /\ what = "write"

(* What is known of a call on its way, however the mode changes: the plan  *)
(* gate let it pass in a mode it has met, and so did whoever a mode it has *)
(* met asks.                                                               *)
ApStanding(c) ==
  /\ c = "subagent" => apStep[c] \notin {"gated", "asking", "confirming"} /\ apBy[c] = "nobody"
  /\ apStep[c] \notin {"cleared", "reviewing"} => apBy[c] = "nobody"
  /\ apStep[c] \notin ApEnded \cup {"new"} =>
       apMode \in apModes[c] /\ ApMet(c, apWhat[c], apStep[c], apBy[c], apModes[c])

(* A review in progress is of the request being served.                    *)
ApReadCurrent == apStep["root"] = "reviewing" => apRead["root"] = apRequest

ApInv ==
  /\ ApTypes /\ ApReadCurrent /\ ApCautionsCurrent
  /\ \A c \in ApCall : ApStanding(c)

(* More modes take nothing away.                                           *)
LEMMA ApMetMore ==
  ASSUME NEW c, NEW what, NEW step, NEW by, NEW met, NEW more, met \subseteq more,
         ApMet(c, what, step, by, met)
  PROVE  ApMet(c, what, step, by, more)
BY DEF ApMet

(* Nothing that counts for a call changed.                                 *)
LEMMA ApStandingKeeps ==
  ASSUME NEW c \in ApCall, ApStanding(c), apMode' = apMode, apStep'[c] = apStep[c],
         apWhat'[c] = apWhat[c], apBy'[c] = apBy[c], apModes'[c] = apModes[c]
  PROVE  ApStanding(c)'
BY DEF ApStanding

(* One call moves, and only it.                                            *)
LEMMA ApMoves ==
  ASSUME ApInv, NEW c \in ApCall, NEW v \in ApSteps, ApGoes(c, v), apMode' = apMode,
         apWhat' \in [ApCall -> ApCalls], apBy' \in [ApCall -> {"nobody", "human", "grant"}],
         apModes' \in [ApCall -> SUBSET ApModes], apRead' \in [ApCall -> Nat], apRequest' \in Nat,
         \A d \in ApCall : d # c => /\ apWhat'[d] = apWhat[d] /\ apBy'[d] = apBy[d]
                                    /\ apModes'[d] = apModes[d]
  PROVE  /\ ApTypes' /\ apStep'[c] = v
         /\ \A d \in ApCall : d # c => apStep'[d] = apStep[d] /\ ApStanding(d)'
<1>1. apStep' \in [ApCall -> ApSteps] /\ apStep'[c] = v
      /\ \A d \in ApCall : d # c => apStep'[d] = apStep[d]
  BY DEF ApInv, ApTypes, ApGoes
<1>2. ApTypes'
  BY <1>1 DEF ApInv, ApTypes
<1>3. \A d \in ApCall : d # c => ApStanding(d)'
  BY <1>1, ApStandingKeeps DEF ApInv
<1> QED  BY <1>1, <1>2, <1>3

(* How ApEnds and ApAdmits change the rest of a call.                      *)
LEMMA ApChanges ==
  ASSUME ApInv, NEW c \in ApCall
  PROVE  /\ \A v : ApEnds(c, v) =>
              /\ apBy' \in [ApCall -> {"nobody", "human", "grant"}] /\ apBy'[c] = "nobody"
              /\ apModes' \in [ApCall -> SUBSET ApModes]
              /\ \A d \in ApCall : d # c => apBy'[d] = apBy[d] /\ (apModes'[d] = apModes[d])
         /\ \A b \in {"nobody", "human", "grant"} : ApAdmits(c, b) =>
              /\ apBy' \in [ApCall -> {"nobody", "human", "grant"}] /\ apBy'[c] = b
              /\ apModes' = apModes
              /\ \A d \in ApCall : d # c => apBy'[d] = apBy[d]
<1>1. apBy \in [ApCall -> {"nobody", "human", "grant"}] /\ apModes \in [ApCall -> SUBSET ApModes]
  BY DEF ApInv, ApTypes
<1>2. \A v : ApEnds(c, v) =>
        /\ apBy' \in [ApCall -> {"nobody", "human", "grant"}] /\ apBy'[c] = "nobody"
        /\ \A d \in ApCall : d # c => apBy'[d] = apBy[d]
  BY <1>1 DEF ApEnds
<1>3. \A v : ApEnds(c, v) => /\ apModes' \in [ApCall -> SUBSET ApModes]
                             /\ \A d \in ApCall : d # c => apModes'[d] = apModes[d]
  BY <1>1 DEF ApEnds
<1>4. \A b \in {"nobody", "human", "grant"} : ApAdmits(c, b) =>
        /\ apBy' \in [ApCall -> {"nobody", "human", "grant"}] /\ apBy'[c] = b
        /\ apModes' = apModes
        /\ \A d \in ApCall : d # c => apBy'[d] = apBy[d]
  BY <1>1 DEF ApAdmits
<1> QED  BY <1>2, <1>3, <1>4

(* A call ends, or waits at its next step.                                 *)
LEMMA ApEndsKeeps ==
  ASSUME ApInv, NEW c \in ApCall, NEW v \in ApEnded, ApEnds(c, v),
         apMode' = apMode, apWhat' = apWhat, apRequest' = apRequest,
         \/ apRead' = apRead
         \/ apRead' = [apRead EXCEPT ![c] = 0]
  PROVE  ApTypes' /\ ApReadCurrent' /\ \A d \in ApCall : ApStanding(d)'
<1>1. v \in ApSteps /\ apRead' \in [ApCall -> Nat] /\ apWhat \in [ApCall -> ApCalls]
      /\ apRequest \in Nat /\ \A d \in ApCall : d # c => apRead'[d] = apRead[d]
  BY DEF ApInv, ApTypes, ApSteps
<1>2. /\ ApTypes' /\ apStep'[c] = v
      /\ \A d \in ApCall : d # c => apStep'[d] = apStep[d] /\ ApStanding(d)'
  BY <1>1, ApMoves, ApChanges DEF ApEnds
<1>3. ApStanding(c)'
  <2>1. apBy'[c] = "nobody"
    BY ApChanges
  <2> QED  BY <1>2, <2>1 DEF ApStanding, ApEnded
<1>4. ApReadCurrent'
  <2>1. "root" \in ApCall
    BY DEF ApCall
  <2>2. CASE c = "root"
    BY <1>2, <2>2 DEF ApReadCurrent, ApEnded
  <2>3. CASE c # "root"
    BY <1>1, <1>2, <2>1, <2>3 DEF ApInv, ApReadCurrent
  <2> QED  BY <2>2, <2>3
<1> QED  BY <1>2, <1>3, <1>4

LEMMA ApWaitsKeeps ==
  ASSUME ApInv, NEW c \in ApCall, NEW v \in ApSteps, ApWaits(c, v),
         apMode' = apMode, apWhat' = apWhat, apRequest' = apRequest,
         \/ v = "reviewing" /\ apRead' = [apRead EXCEPT ![c] = apRequest]
         \/ v # "reviewing" /\ apRead' = apRead
  PROVE  /\ ApTypes' /\ ApReadCurrent' /\ apStep'[c] = v
         /\ \A d \in ApCall : d # c => ApStanding(d)'
<1>1. /\ apRead' \in [ApCall -> Nat] /\ apWhat \in [ApCall -> ApCalls] /\ apRequest \in Nat
      /\ apBy \in [ApCall -> {"nobody", "human", "grant"}] /\ apModes \in [ApCall -> SUBSET ApModes]
      /\ \A d \in ApCall : d # c => apRead'[d] = apRead[d]
      /\ v = "reviewing" => apRead'[c] = apRequest
  BY DEF ApInv, ApTypes
<1>2. /\ ApTypes' /\ apStep'[c] = v
      /\ \A d \in ApCall : d # c => apStep'[d] = apStep[d] /\ ApStanding(d)'
  BY <1>1, ApMoves DEF ApWaits
<1>3. ApReadCurrent'
  <2>1. "root" \in ApCall
    BY DEF ApCall
  <2>2. CASE c = "root"
    BY <1>1, <1>2, <2>2 DEF ApReadCurrent
  <2>3. CASE c # "root"
    BY <1>1, <1>2, <2>1, <2>3 DEF ApInv, ApReadCurrent
  <2> QED  BY <2>2, <2>3
<1> QED  BY <1>2, <1>3

LEMMA ApAdmitsKeeps ==
  ASSUME ApInv, NEW c \in ApCall, NEW b \in {"nobody", "human", "grant"}, ApAdmits(c, b),
         apMode' = apMode, apWhat' = apWhat, apRequest' = apRequest, apRead' = apRead
  PROVE  /\ ApTypes' /\ ApReadCurrent' /\ apStep'[c] = "cleared" /\ apBy'[c] = b
         /\ apModes' = apModes /\ \A d \in ApCall : d # c => ApStanding(d)'
<1>1. /\ apRead \in [ApCall -> Nat] /\ apWhat \in [ApCall -> ApCalls] /\ apRequest \in Nat
      /\ apModes \in [ApCall -> SUBSET ApModes] /\ "cleared" \in ApSteps
  BY DEF ApInv, ApTypes, ApSteps
<1>2. /\ apBy' \in [ApCall -> {"nobody", "human", "grant"}] /\ apBy'[c] = b
      /\ apModes' = apModes /\ \A d \in ApCall : d # c => apBy'[d] = apBy[d]
  BY ApChanges
<1>3. /\ ApTypes' /\ apStep'[c] = "cleared"
      /\ \A d \in ApCall : d # c => apStep'[d] = apStep[d] /\ ApStanding(d)'
  BY <1>1, <1>2, ApMoves DEF ApAdmits
<1>4. ApReadCurrent'
  <2>1. "root" \in ApCall
    BY DEF ApCall
  <2>2. CASE c = "root"
    BY <1>3, <2>2 DEF ApReadCurrent
  <2>3. CASE c # "root"
    BY <1>3, <2>1, <2>3 DEF ApInv, ApReadCurrent
  <2> QED  BY <2>2, <2>3
<1> QED  BY <1>2, <1>3, <1>4

LEMMA ApPlanGateKept ==
  ASSUME ApInv, NEW c \in ApCall, ApPlanGate(c)
  PROVE  ApInv'
<1>1. ApCautionsCurrent'
  BY DEF ApPlanGate, ApInv, ApCautionsCurrent
<1>2. CASE ApPlanDenies(c)
  <2>1. ApEnds(c, "refused") /\ "refused" \in ApEnded
    BY <1>2 DEF ApPlanGate, ApEnded
  <2> QED  BY <1>1, <2>1, ApEndsKeeps DEF ApPlanGate, ApInv
<1>3. CASE ~ApPlanDenies(c)
  <2> DEFINE v == IF c = "root" THEN "gated" ELSE "cleared"
  <2>1. ApGoes(c, v) /\ v \in ApSteps /\ v # "reviewing" /\ v \notin ApEnded \cup {"new"}
        /\ apModes' = [apModes EXCEPT ![c] = {apMode}]
        /\ UNCHANGED <<apMode, apWhat, apBy, apRead, apRequest>> /\ apStep[c] = "new"
        /\ c \in {"root", "subagent"}
    BY <1>3 DEF ApPlanGate, ApSteps, ApEnded, ApCall
  <2>2. apModes' \in [ApCall -> SUBSET ApModes] /\ apModes'[c] = {apMode}
        /\ \A d \in ApCall : d # c => apModes'[d] = apModes[d]
    BY <2>1 DEF ApInv, ApTypes
  <2>3. /\ ApTypes' /\ apStep'[c] = v
        /\ \A d \in ApCall : d # c => apStep'[d] = apStep[d] /\ ApStanding(d)'
    <3> HIDE DEF v
    <3>1. apWhat \in [ApCall -> ApCalls] /\ apBy \in [ApCall -> {"nobody", "human", "grant"}]
          /\ apRead \in [ApCall -> Nat] /\ apRequest \in Nat
      BY DEF ApInv, ApTypes
    <3> QED  BY <2>1, <2>2, <3>1, ApMoves
  <2>4. apBy'[c] = "nobody" /\ ApPasses(c, apWhat[c], apMode)
    <3>1. apBy[c] = "nobody"
      BY <2>1 DEF ApInv, ApStanding
    <3>2. apMode \in ApModes /\ apWhat[c] \in ApCalls
      BY DEF ApInv, ApTypes
    <3>3. ApPasses(c, apWhat[c], apMode)
      BY <1>3, <2>1, <3>2 DEF ApPasses, ApPlanDenies, ApStance, ApModes
    <3> QED  BY <2>1, <3>1, <3>3
  <2>5. ApMet(c, apWhat[c], v, "nobody", {apMode})
    BY <2>4 DEF ApMet
  <2>6. ApStanding(c)'
    BY <2>1, <2>2, <2>3, <2>4, <2>5 DEF ApStanding
  <2>7. ApReadCurrent'
    BY <2>1, <2>3 DEF ApInv, ApReadCurrent, ApCall
  <2> QED  BY <1>1, <2>3, <2>6, <2>7 DEF ApInv
<1> QED  BY <1>2, <1>3

LEMMA ApApprovalKept ==
  ASSUME ApInv, NEW c \in ApCall, ApApproval(c)
  PROVE  ApInv'
<1>1. ApCautionsCurrent'
  BY DEF ApApproval, ApInv, ApCautionsCurrent
<1>2. /\ apStep[c] = "gated" /\ c = "root" /\ apMode' = apMode /\ apWhat' = apWhat
      /\ apRequest' = apRequest /\ apRead' = apRead /\ apMode \in ApModes
  BY DEF ApApproval, ApInv, ApStanding, ApCall, ApTypes
<1>3. /\ apMode \in apModes[c] /\ apBy[c] = "nobody"
      /\ \E mode \in apModes[c] : ApPasses(c, apWhat[c], mode)
  BY <1>2 DEF ApInv, ApStanding, ApEnded, ApMet
<1>4. ASSUME NEW b \in {"nobody", "human", "grant"}, ApAdmits(c, b),
             b = "nobody" => apMode \in {"auto", "yolo"},
             b = "grant" => \/ apMode \in {"normal", "orchestrate"}
                            \/ apMode = "plan" /\ apWhat[c] = "write"
      PROVE  ApInv'
  <2>1. /\ ApTypes' /\ ApReadCurrent' /\ apStep'[c] = "cleared" /\ apBy'[c] = b
        /\ apModes' = apModes /\ \A d \in ApCall : d # c => ApStanding(d)'
    BY <1>2, <1>4, ApAdmitsKeeps
  <2>2. ApMet(c, apWhat[c], "cleared", b, apModes[c])
    BY <1>3, <1>4 DEF ApMet
  <2>3. ApStanding(c)'
    BY <1>2, <1>3, <2>1, <2>2 DEF ApStanding
  <2> QED  BY <1>1, <2>1, <2>3 DEF ApInv
<1>5. CASE apMode \in {"auto", "yolo"}
  BY <1>4, <1>5 DEF ApApproval
<1>6. CASE apMode \notin {"auto", "yolo"} /\ ~ApEveryTime(c) /\ ApAllowed(c)
  <2>1. ApAdmits(c, "grant")
    BY <1>6 DEF ApApproval
  <2>2. apWhat[c] \in {"shell", "safe", "write"}
    BY DEF ApInv, ApTypes, ApCalls
  <2>3. apMode \in {"normal", "orchestrate"} \/ (apMode = "plan" /\ apWhat[c] = "write")
    BY <1>2, <1>6, <2>2 DEF ApEveryTime, ApTool, ApModes
  <2> QED  BY <1>4, <2>1, <2>3
<1>7. CASE apMode \notin {"auto", "yolo"} /\ ~(~ApEveryTime(c) /\ ApAllowed(c))
  <2> DEFINE v == IF ApEveryTime(c) THEN "confirming" ELSE "asking"
  <2>1. /\ ApWaits(c, v) /\ v \in ApSteps /\ v # "reviewing" /\ v # "cleared"
        /\ apModes' = apModes /\ apBy' = apBy
    BY <1>7 DEF ApApproval, ApSteps, ApWaits
  <2>2. /\ ApTypes' /\ ApReadCurrent' /\ apStep'[c] = v
        /\ \A d \in ApCall : d # c => ApStanding(d)'
    <3> HIDE DEF v
    <3> QED  BY <1>2, <2>1, ApWaitsKeeps
  <2>3. ApMet(c, apWhat[c], v, "nobody", apModes[c])
    <3> HIDE DEF v
    <3> QED  BY <1>3, <2>1 DEF ApMet
  <2>4. ApStanding(c)'
    <3> HIDE DEF v
    <3> QED  BY <1>2, <1>3, <2>1, <2>2, <2>3 DEF ApStanding
  <2> QED  BY <1>1, <2>2, <2>4 DEF ApInv
<1> QED  BY <1>5, <1>6, <1>7

LEMMA ApAnswersKept ==
  ASSUME ApInv, NEW c \in ApCall, NEW answer, ApAnswers(c, answer)
  PROVE  ApInv'
<1>1. ApCautionsCurrent'
  BY DEF ApAnswers, ApInv, ApCautionsCurrent
<1>2. /\ apStep[c] \in {"asking", "confirming"} /\ apMode' = apMode /\ apWhat' = apWhat
      /\ apRequest' = apRequest /\ apRead' = apRead
  BY DEF ApAnswers
<1>3. CASE answer = "deny"
  <2>1. ApEnds(c, "refused") /\ "refused" \in ApEnded
    BY <1>3 DEF ApAnswers, ApEnded
  <2> QED  BY <1>1, <1>2, <2>1, ApEndsKeeps DEF ApInv
<1>4. CASE answer # "deny"
  <2>1. ApAdmits(c, "human")
    BY <1>4 DEF ApAnswers
  <2>2. /\ ApTypes' /\ ApReadCurrent' /\ apStep'[c] = "cleared" /\ apBy'[c] = "human"
        /\ apModes' = apModes /\ \A d \in ApCall : d # c => ApStanding(d)'
    BY <1>2, <2>1, ApAdmitsKeeps
  <2>3. /\ apMode \in apModes[c] /\ c # "subagent"
        /\ \E mode \in apModes[c] : ApPasses(c, apWhat[c], mode)
    BY <1>2 DEF ApInv, ApEnded, ApStanding, ApMet
  <2>4. ApMet(c, apWhat[c], "cleared", "human", apModes[c])
    BY <2>3 DEF ApMet
  <2>5. ApStanding(c)'
    BY <1>2, <2>2, <2>3, <2>4 DEF ApStanding
  <2> QED  BY <1>1, <2>2, <2>5 DEF ApInv
<1> QED  BY <1>3, <1>4

LEMMA ApAroundKept ==
  ASSUME ApInv, NEW c \in ApCall, ApAround(c)
  PROVE  ApInv'
<1>1. ApCautionsCurrent'
  BY DEF ApAround, ApInv, ApCautionsCurrent
<1>2. /\ apStep[c] = "cleared" /\ apMode' = apMode /\ apWhat' = apWhat
      /\ apRequest' = apRequest
  BY DEF ApAround
<1>3. ASSUME NEW v \in ApEnded, ApEnds(c, v), apRead' = apRead PROVE ApInv'
  BY <1>1, <1>2, <1>3, ApEndsKeeps DEF ApInv
<1>4. CASE apMode # "auto" \/ ApKnownSafe(c)
  BY <1>3, <1>4 DEF ApAround, ApEnded
<1>5. CASE ~(apMode # "auto" \/ ApKnownSafe(c)) /\ ApHeld(c)
  BY <1>3, <1>5 DEF ApAround, ApEnded
<1>6. CASE ~(apMode # "auto" \/ ApKnownSafe(c)) /\ ~ApHeld(c)
  <2>1. ApWaits(c, "reviewing") /\ apRead' = [apRead EXCEPT ![c] = apRequest]
    BY <1>6 DEF ApAround
  <2>2. /\ ApTypes' /\ ApReadCurrent' /\ apStep'[c] = "reviewing"
        /\ \A d \in ApCall : d # c => ApStanding(d)'
    <3> DEFINE v == "reviewing"
    <3>1. v \in ApSteps /\ v = "reviewing"
      BY DEF ApSteps
    <3>2. ApWaits(c, v)
      BY <2>1
    <3> HIDE DEF v
    <3>3. ApTypes' /\ ApReadCurrent' /\ apStep'[c] = v
          /\ \A d \in ApCall : d # c => ApStanding(d)'
      BY <1>2, <2>1, <3>1, <3>2, ApWaitsKeeps
    <3> QED  BY <3>1, <3>3
  <2>3. apModes' = apModes /\ apBy' = apBy
    BY <2>1 DEF ApWaits
  <2>4. /\ apMode \in apModes[c] /\ ApMet(c, apWhat[c], "cleared", apBy[c], apModes[c])
        /\ c = "subagent" => apBy[c] = "nobody"
    BY <1>2 DEF ApInv, ApEnded, ApStanding
  <2>5. ApMet(c, apWhat[c], "reviewing", apBy[c], apModes[c])
    BY <1>6, <2>4 DEF ApMet
  <2>6. ApStanding(c)'
    BY <1>2, <2>2, <2>3, <2>4, <2>5 DEF ApStanding
  <2> QED  BY <1>1, <2>2, <2>6 DEF ApInv
<1> QED  BY <1>4, <1>5, <1>6

LEMMA ApReviewsKept ==
  ASSUME ApInv, NEW c \in ApCall, NEW decision, ApReviews(c, decision)
  PROVE  ApInv'
<1> DEFINE v == IF decision = "clear" THEN "ran" ELSE "refused"
           caution == [origin |-> c, what |-> apWhat[c], request |-> apRead[c]]
<1>1. ApTypes' /\ ApReadCurrent' /\ \A d \in ApCall : ApStanding(d)'
  <2>1. v \in ApEnded /\ ApEnds(c, v)
    BY DEF ApEnded, ApReviews
  <2> HIDE DEF v
  <2> QED  BY <2>1, ApEndsKeeps DEF ApReviews
<1>2. apRequest' = apRequest /\ apStep[c] = "reviewing"
      /\ \A k \in apCautions' : k \in apCautions \/ k = caution
  BY DEF ApReviews
<1>3. caution.origin = "root" => caution.request = apRequest
  BY <1>2 DEF ApInv, ApReadCurrent
<1> HIDE DEF caution
<1>4. ApCautionsCurrent'
  BY <1>2, <1>3 DEF ApInv, ApCautionsCurrent
<1> QED  BY <1>1, <1>4 DEF ApInv

(* The next call of a tool, for the same request or a new one.             *)
LEMMA ApFreshKept ==
  ASSUME ApInv, NEW c \in ApCall, ApFresh(c), UNCHANGED <<apMode, apRead>>,
         \/ apRequest' = apRequest /\ apCautions' = apCautions
         \/ c = "root" /\ apRequest' = apRequest + 1 /\ apCautions' = {}
  PROVE  ApInv'
<1>1. PICK what \in ApMayCall(c) : apWhat' = [apWhat EXCEPT ![c] = what]
  BY DEF ApFresh
<1>2. /\ apWhat' \in [ApCall -> ApCalls] /\ apRead' \in [ApCall -> Nat] /\ apRequest' \in Nat
      /\ \A d \in ApCall : d # c => apWhat'[d] = apWhat[d]
      /\ apBy \in [ApCall -> {"nobody", "human", "grant"}] /\ apModes \in [ApCall -> SUBSET ApModes]
      /\ "new" \in ApSteps
  <2>1. what \in ApCalls
    BY <1>1, ApAssumption DEF ApMayCall
  <2> QED  BY <1>1, <2>1 DEF ApInv, ApTypes, ApSteps
<1>3. /\ ApTypes' /\ apStep'[c] = "new"
      /\ \A d \in ApCall : d # c => apStep'[d] = apStep[d] /\ ApStanding(d)'
  BY <1>2, ApMoves DEF ApFresh, ApWaits
<1>4. ApStanding(c)'
  <2>1. apBy'[c] = "nobody"
    BY DEF ApFresh, ApWaits, ApInv, ApStanding, ApEnded
  <2> QED  BY <1>3, <2>1 DEF ApStanding
<1>5. ApReadCurrent'
  BY <1>3 DEF ApInv, ApReadCurrent, ApCall
<1>6. ApCautionsCurrent'
  BY DEF ApInv, ApCautionsCurrent
<1> QED  BY <1>3, <1>4, <1>5, <1>6 DEF ApInv

(* The mode changes under whatever is on its way.                          *)
LEMMA ApSetModeKept ==
  ASSUME ApInv, NEW mode \in ApModes, ApSetMode(mode)
  PROVE  ApInv'
<1>1. /\ apMode' = mode /\ apWhat' = apWhat /\ apStep' = apStep /\ apBy' = apBy
      /\ apRead' = apRead /\ apRequest' = apRequest /\ apCautions' = apCautions
  BY DEF ApSetMode
<1>2. /\ apModes' \in [ApCall -> SUBSET ApModes]
      /\ \A c \in ApCall : apStep[c] \notin ApEnded \cup {"new"} =>
           apModes'[c] = apModes[c] \cup {mode}
  BY DEF ApSetMode, ApInv, ApTypes
<1>3. ApTypes'
  BY <1>1, <1>2 DEF ApInv, ApTypes
<1>4. \A c \in ApCall : ApStanding(c)'
  <2> SUFFICES ASSUME NEW c \in ApCall PROVE ApStanding(c)'
    OBVIOUS
  <2>1. CASE apStep[c] \in ApEnded \cup {"new"}
    BY <1>1, <2>1 DEF ApInv, ApStanding, ApEnded
  <2>2. CASE apStep[c] \notin ApEnded \cup {"new"}
    <3>1. ApMet(c, apWhat[c], apStep[c], apBy[c], apModes[c])
      BY <2>2 DEF ApInv, ApStanding
    <3>2. ApMet(c, apWhat[c], apStep[c], apBy[c], apModes'[c]) /\ mode \in apModes'[c]
      BY <1>2, <2>2, <3>1, ApMetMore
    <3> QED  BY <1>1, <2>2, <3>2 DEF ApInv, ApStanding
  <2> QED  BY <2>1, <2>2
<1>5. ApReadCurrent' /\ ApCautionsCurrent'
  BY <1>1 DEF ApInv, ApReadCurrent, ApCautionsCurrent
<1> QED  BY <1>3, <1>4, <1>5 DEF ApInv

LEMMA ApKept == ApInv /\ [ApNext]_apVars => ApInv'
<1> SUFFICES ASSUME ApInv, [ApNext]_apVars PROVE ApInv'
  OBVIOUS
<1>1. ASSUME \/ UNCHANGED apVars
             \/ \E tool \in ApTools : ApRevoke(tool)
      PROVE  ApInv'
  <2>1. /\ apMode' = apMode /\ apWhat' = apWhat /\ apStep' = apStep /\ apBy' = apBy
        /\ apRead' = apRead /\ apRequest' = apRequest /\ apCautions' = apCautions
        /\ apModes' = apModes
    BY <1>1 DEF apVars, ApRevoke
  <2>2. \A c \in ApCall : ApStanding(c)'
    BY <2>1, ApStandingKeeps DEF ApInv
  <2> QED  BY <2>1, <2>2 DEF ApInv, ApTypes, ApReadCurrent, ApCautionsCurrent
<1>2. ASSUME \/ \E new \in BOOLEAN : ApModelStep(new)
             \/ ApRunEnds \/ ApWorkerStep
      PROVE  ApInv'
  <2>1. "root" \in ApCall /\ "subagent" \in ApCall
    BY DEF ApCall
  <2>2. ASSUME NEW new \in BOOLEAN, ApModelStep(new) PROVE ApInv'
    <3>1. /\ ApFresh("root") /\ UNCHANGED <<apMode, apRead>>
          /\ \/ apRequest' = apRequest /\ apCautions' = apCautions
             \/ apRequest' = apRequest + 1 /\ apCautions' = {}
      BY <2>2 DEF ApModelStep, ApCautionsOfNew
    <3>2. CASE apRequest' = apRequest /\ apCautions' = apCautions
      BY <2>1, <3>1, <3>2, ApFreshKept, Zenon
    <3>3. CASE apRequest' = apRequest + 1 /\ apCautions' = {}
      BY <2>1, <3>1, <3>3, ApFreshKept, Zenon
    <3> QED  BY <3>1, <3>2, <3>3
  <2>3. CASE ApRunEnds
    <3>1. /\ ApFresh("root") /\ UNCHANGED <<apMode, apRead>>
          /\ apRequest' = apRequest + 1 /\ apCautions' = {}
      BY <2>3 DEF ApRunEnds
    <3> QED  BY <2>1, <3>1, ApFreshKept, Zenon
  <2>4. CASE ApWorkerStep
    <3>1. /\ ApFresh("subagent") /\ UNCHANGED <<apMode, apRead>>
          /\ apRequest' = apRequest /\ apCautions' = apCautions
      BY <2>4 DEF ApWorkerStep
    <3> QED  BY <2>1, <3>1, ApFreshKept, Zenon
  <2> QED  BY <1>2, <2>2, <2>3, <2>4
<1> QED
  BY <1>1, <1>2, ApPlanGateKept, ApApprovalKept, ApAnswersKept, ApAroundKept,
     ApReviewsKept, ApSetModeKept DEF ApNext

LEMMA ApStarts == ApInit => ApInv
<1> SUFFICES ASSUME ApInit PROVE ApInv
  OBVIOUS
<1>1. ApTypes
  BY DEF ApInit, ApTypes, ApSteps
<1>2. \A c \in ApCall : apStep[c] = "new" /\ apBy[c] = "nobody"
  BY DEF ApInit
<1>3. \A c \in ApCall : ApStanding(c)
  BY <1>2 DEF ApStanding
<1>4. ApReadCurrent /\ ApCautionsCurrent
  BY <1>2 DEF ApInit, ApReadCurrent, ApCautionsCurrent, ApCall
<1> QED  BY <1>1, <1>3, <1>4 DEF ApInv

(* A call that comes to run does so out of the reviewer's hands or past    *)
(* it, as a mode it met demands or through one of the two windows.         *)
LEMMA ApRunsAdmitted ==
  ASSUME ApInv, ApNext, NEW c \in ApCall, ApBegins(c)
  PROVE  \/ \E mode \in apModes[c] : ApAdmitted(c, mode)
         \/ ApLeftAuto(c) \/ ApLateOrchestrate(c)
<1>1. /\ apStep \in [ApCall -> ApSteps] /\ apWhat[c] \in {"shell", "safe", "write"}
      /\ c \in {"root", "subagent"} /\ ApStanding(c) /\ apMode \in ApModes
      /\ apBy[c] \in {"nobody", "human", "grant"}
      /\ apStep[c] # "ran" /\ apStep'[c] = "ran"
  BY DEF ApInv, ApTypes, ApCalls, ApCall, ApBegins
<1>2. \/ apStep[c] = "cleared" /\ (apMode # "auto" \/ ApKnownSafe(c))
      \/ apStep[c] = "reviewing"
  <2>1. ASSUME NEW d \in ApCall, NEW v, ApGoes(d, v), v # "ran" PROVE FALSE
    BY <1>1, <2>1 DEF ApGoes
  <2>2. ASSUME NEW d \in ApCall, NEW v, ApGoes(d, v) PROVE c = d
    BY <1>1, <2>2 DEF ApGoes
  <2>3. apStep' # apStep
    BY <1>1
  <2>4. ~\E d \in ApCall : ApPlanGate(d) \/ ApApproval(d)
    BY <2>1 DEF ApPlanGate, ApApproval, ApEnds, ApWaits, ApAdmits
  <2>5. ~\E d \in ApCall, answer \in {"once", "always", "save", "deny"} : ApAnswers(d, answer)
    BY <2>1 DEF ApAnswers, ApEnds, ApAdmits
  <2>6. ~\E new \in BOOLEAN : ApModelStep(new)
    BY <2>1 DEF ApModelStep, ApFresh, ApWaits, ApCall
  <2>7. ~ApRunEnds /\ ~ApWorkerStep
    BY <2>1 DEF ApRunEnds, ApWorkerStep, ApFresh, ApWaits, ApCall
  <2>8. /\ ~\E tool \in ApTools : ApRevoke(tool)
        /\ ~\E mode \in ApModes : ApSetMode(mode)
    BY <2>3 DEF ApRevoke, ApSetMode
  <2>9. ASSUME NEW d \in ApCall, ApAround(d)
        PROVE  apStep[c] = "cleared" /\ (apMode # "auto" \/ ApKnownSafe(c))
    <3>1. c = d
      BY <2>2, <2>9 DEF ApAround, ApEnds, ApWaits
    <3> QED  BY <2>1, <2>9, <3>1 DEF ApAround, ApEnds, ApWaits
  <2>10. ASSUME NEW d \in ApCall, NEW decision \in {"clear", "caution", "error"},
                ApReviews(d, decision)
         PROVE  apStep[c] = "reviewing"
    BY <2>2, <2>10 DEF ApReviews, ApEnds
  <2> QED  BY <2>4, <2>5, <2>6, <2>7, <2>8, <2>9, <2>10 DEF ApNext
<1>3. apMode \in apModes[c] /\ ApMet(c, apWhat[c], apStep[c], apBy[c], apModes[c])
  BY <1>1, <1>2 DEF ApStanding, ApEnded
<1>4. CASE apStep[c] = "reviewing"
  BY <1>3, <1>4 DEF ApMet, ApAdmitted
<1>5. ASSUME apStep[c] = "cleared", apMode # "auto" \/ ApKnownSafe(c)
      PROVE  \/ \E mode \in apModes[c] : ApAdmitted(c, mode)
             \/ ApLeftAuto(c) \/ ApLateOrchestrate(c)
  <2>1. CASE apMode = "yolo" \/ apMode = "auto"
    BY <1>3, <1>5, <2>1 DEF ApAdmitted
  <2>2. CASE apMode \notin {"yolo", "auto"} /\ c = "subagent"
    <3>1. PICK mode \in apModes[c] : ApPasses(c, apWhat[c], mode)
      BY <1>3 DEF ApMet
    <3>2. apBy[c] = "nobody"
      BY <1>1, <2>2 DEF ApStanding
    <3>3. mode \in {"normal", "orchestrate", "yolo", "auto"}
      BY <2>2, <3>1 DEF ApPasses
    <3> QED  BY <2>2, <3>1, <3>2, <3>3 DEF ApAdmitted, ApLeftAuto
  <2>3. CASE apMode \notin {"yolo", "auto"} /\ c = "root" /\ apBy[c] = "nobody"
    BY <1>3, <1>5, <2>3 DEF ApMet, ApAdmitted, ApLeftAuto
  <2>4. CASE apMode \notin {"yolo", "auto"} /\ c = "root" /\ apBy[c] \in {"human", "grant"}
    <3>1. PICK mode \in apModes[c] : ApPasses(c, apWhat[c], mode)
      BY <1>3 DEF ApMet
    <3>2. \/ mode \in {"normal", "auto", "yolo"}
          \/ mode = "plan" /\ apWhat[c] # "write"
          \/ mode = "orchestrate" /\ apWhat[c] = "write"
      BY <2>4, <3>1 DEF ApPasses
    <3>3. CASE mode \in {"normal", "yolo"} \/ (mode = "orchestrate" /\ apWhat[c] = "write")
      BY <2>4, <3>1, <3>3 DEF ApAdmitted
    <3>4. ASSUME mode \in {"auto", "plan"}, "orchestrate" \in apModes[c]
          PROVE  ApLateOrchestrate(c)
      BY <2>4, <3>1, <3>4 DEF ApLateOrchestrate
    <3>5. CASE mode = "auto"
      <4>1. CASE apWhat[c] = "write"
        BY <3>1, <3>5, <4>1 DEF ApAdmitted, ApKnownSafe
      <4>2. CASE apWhat[c] # "write"
        <5>1. CASE apBy[c] = "human"
          BY <1>1, <1>3, <2>4, <3>4, <3>5, <4>2, <5>1 DEF ApAdmitted, ApModes
        <5>2. CASE apBy[c] = "grant"
          BY <1>3, <2>4, <3>4, <3>5, <4>2, <5>2 DEF ApAdmitted, ApMet
        <5> QED  BY <2>4, <5>1, <5>2
      <4> QED  BY <4>1, <4>2
    <3>6. CASE mode = "plan" /\ apWhat[c] # "write"
      <4>1. CASE apBy[c] = "human"
        BY <3>1, <3>6, <4>1 DEF ApAdmitted
      <4>2. CASE apBy[c] = "grant"
        BY <1>3, <2>4, <3>4, <3>6, <4>2 DEF ApAdmitted, ApMet
      <4> QED  BY <2>4, <4>1, <4>2
    <3> QED  BY <3>2, <3>3, <3>5, <3>6
  <2> QED  BY <1>1, <2>1, <2>2, <2>3, <2>4
<1> QED  BY <1>2, <1>4, <1>5

(* A gated call is admitted as a mode it met demands or through one of the *)
(* two windows between the gates, however often the mode changes, and a    *)
(* remembered caution belongs to the request it was raised on (mode.rs,    *)
(* approval.rs, auto_approval.rs), for any number of requests, grants and  *)
(* changes of mode.                                                        *)
THEOREM ApSafety == ApSpec => ApSafe
<1>1. ApInv /\ [ApNext]_apVars =>
        [\A c \in ApCall : ApBegins(c) =>
           \/ \E mode \in apModes[c] : ApAdmitted(c, mode)
           \/ ApLeftAuto(c) \/ ApLateOrchestrate(c)]_apVars
  BY ApRunsAdmitted
<1>2. ApInv => ApCautionsCurrent
  BY DEF ApInv
<1>3. ApSpec => []ApInv
  BY ApStarts, ApKept, PTL DEF ApSpec
<1>4. ApSpec => []ApCautionsCurrent
  BY <1>2, <1>3, PTL
<1>5. ApSpec => ApAdmittedAsMode
  BY <1>1, <1>3, PTL DEF ApSpec, ApAdmittedAsMode
<1> QED  BY <1>4, <1>5 DEF ApSafe

-----------------------------------------------------------------------------
(* TuiRuns: prompts run in order, and the run on the screen                *)
TuEnds == {"done", "failed", "shelldone"}
TuSays == TuEnds \cup {"started", "cleared", "notice"}

TuTypes ==
  /\ tuCmds \in Seq({"run", "clear"} \X Int) /\ tuMsgs \in Seq(TuSays \X Int)
  /\ tuShown \in Int /\ tuRunning \in Int /\ tuModal \in BOOLEAN /\ tuWakeups \in Nat

(* The runs sent and not begun: prompts in the order they were typed, and  *)
(* the worker's own in theirs.                                             *)
TuFifo ==
  /\ \A i \in 1 .. Len(tuCmds) : tuCmds[i][1] = "run" =>
       tuCmds[i][2] # TuIdle /\ tuCmds[i][2] >= -tuWakeups
  /\ \A i, j \in 1 .. Len(tuCmds) :
       i < j /\ tuCmds[i][1] = "run" /\ tuCmds[j][1] = "run" =>
         /\ tuCmds[i][2] > 0 /\ tuCmds[j][2] > 0 => tuCmds[i][2] < tuCmds[j][2]
         /\ tuCmds[i][2] < 0 /\ tuCmds[j][2] < 0 => tuCmds[i][2] > tuCmds[j][2]

(* Prompts leave for the worker in the order they were typed, and each is  *)
(* in one place.  A lone "!" at the head of the queue holds back what is   *)
(* behind it for good, so a plan's implementation may pass it.             *)
TuLine(kind, q, sent, ran, drop) ==
  /\ kind \in Seq(TuKinds) /\ q \in Seq(Nat) /\ ran \in Seq(Nat)
  /\ \A i, j \in 1 .. Len(ran) : i < j => ran[i] < ran[j]
  /\ \A i \in 1 .. Len(ran), n \in sent : ran[i] < n
  /\ \A i, j \in 1 .. Len(q) : i < j => q[i] < q[j]
  /\ TuNextStarts(q, kind) => \A k \in 1 .. Len(q) :
       /\ \A i \in 1 .. Len(ran) : ran[i] < q[k]
       /\ \A n \in sent : n < q[k]
  /\ ToSet(q) \cap sent = {} /\ ToSet(q) \cap ToSet(ran) = {} /\ ToSet(q) \cap drop = {}
  /\ sent \cap ToSet(ran) = {} /\ sent \cap drop = {} /\ ToSet(ran) \cap drop = {}
  /\ ToSet(q) \cup sent \cup ToSet(ran) \cup drop = 1 .. Len(kind)
TuOrdered == TuLine(tuKind, tuQueue, TuSent, tuRan, tuDropped)
TuHeldBack == tuModal => ~TuNextStarts(tuQueue, tuKind)

(* The runs the worker has begun: it will not begin them again.            *)
TuBegun == {n \in Int :
  /\ n > 0 => n \in ToSet(tuRan)
  /\ n < 0 => /\ n >= -tuWakeups
              /\ \A i \in 1 .. Len(tuCmds) :
                   tuCmds[i][1] = "run" /\ tuCmds[i][2] < 0 => tuCmds[i][2] < n}
TuAbout(m) == m[1] \in TuEnds \cup {"started"}
TuNews ==
  /\ \A i \in 1 .. Len(tuMsgs) : TuAbout(tuMsgs[i]) => tuMsgs[i][2] # TuIdle /\ tuMsgs[i][2] \in TuBegun
  /\ tuRunning # TuIdle => tuRunning \in TuBegun

(* A run that is announced is the worker's last, or its end follows.       *)
TuAnnounced == \A i \in 1 .. Len(tuMsgs) : tuMsgs[i][1] = "started" =>
  \/ /\ tuMsgs[i][2] = tuRunning
     /\ \A j \in 1 .. Len(tuMsgs) : i < j => ~TuAbout(tuMsgs[j])
  \/ \E j \in 1 .. Len(tuMsgs) : i < j /\ tuMsgs[j][1] \in TuEnds /\ tuMsgs[j][2] = tuMsgs[i][2]
TuNotEnded == \A i \in 1 .. Len(tuMsgs) :
  tuMsgs[i][1] \in TuEnds => tuMsgs[i][2] # tuRunning

(* What is shown has yet to end, or its end to be seen.                    *)
TuLives == tuShown # TuIdle =>
  \/ tuShown \in TuSent
  \/ tuShown = tuRunning
  \/ \E i \in 1 .. Len(tuMsgs) : tuMsgs[i][1] \in TuEnds /\ tuMsgs[i][2] = tuShown

(* The worker's run is shown, or will be once the screen has caught up.    *)
TuCurrent == tuRunning # TuIdle =>
  \/ \E i \in 1 .. Len(tuMsgs) : tuMsgs[i][1] = "started" /\ tuMsgs[i][2] = tuRunning
  \/ /\ \A i \in 1 .. Len(tuMsgs) : ~TuAbout(tuMsgs[i])
     /\ tuShown = tuRunning \/ tuShown \in TuSent

TuScreen == TuNews /\ TuAnnounced /\ TuNotEnded /\ TuLives /\ TuCurrent
TuInv == TuTypes /\ TuFifo /\ TuOrdered /\ TuHeldBack /\ TuScreen

(* The elements of a sequence with one entry more, or its first gone.      *)
LEMMA ToSetAppend ==
  ASSUME NEW S, NEW s \in Seq(S), NEW x \in S
  PROVE  ToSet(Append(s, x)) = ToSet(s) \cup {x}
<1> DEFINE t == Append(s, x)
<1>1. /\ DOMAIN t = 1 .. (Len(s) + 1) /\ DOMAIN s = 1 .. Len(s) /\ Len(s) \in Nat
      /\ \A i \in 1 .. Len(s) : t[i] = s[i]
      /\ t[Len(s) + 1] = x
  BY QueueAppend
<1> HIDE DEF t
<1>2. \A i \in 1 .. (Len(s) + 1) : i \in 1 .. Len(s) \/ i = Len(s) + 1
  BY <1>1
<1>3. ToSet(t) \subseteq ToSet(s) \cup {x}
  BY <1>1, <1>2 DEF ToSet
<1>4. 1 .. Len(s) \subseteq 1 .. (Len(s) + 1) /\ Len(s) + 1 \in 1 .. (Len(s) + 1)
  BY <1>1
<1>5. ToSet(s) \cup {x} \subseteq ToSet(t)
  BY <1>1, <1>4 DEF ToSet
<1>6. ToSet(t) = ToSet(s) \cup {x}
  BY <1>3, <1>5
<1> QED
  BY <1>6 DEF t

LEMMA ToSetTail ==
  ASSUME NEW S, NEW s \in Seq(S), s # <<>>
  PROVE  /\ ToSet(Tail(s)) \subseteq ToSet(s) /\ Head(s) \in ToSet(s)
         /\ ToSet(s) = ToSet(Tail(s)) \cup {Head(s)}
<1> DEFINE t == Tail(s)
<1>1. /\ DOMAIN t = 1 .. (Len(s) - 1) /\ DOMAIN s = 1 .. Len(s) /\ Len(s) \in Nat
      /\ \A i \in 1 .. Len(s) - 1 : t[i] = s[i + 1]
      /\ Head(s) = s[1] /\ Len(s) >= 1
  BY QueueTail
<1> HIDE DEF t
<1>2. 1 \in 1 .. Len(s) /\ \A i \in 1 .. Len(s) - 1 : i + 1 \in 1 .. Len(s)
  BY <1>1
<1>3. ToSet(t) \subseteq ToSet(s) /\ s[1] \in ToSet(s)
  BY <1>1, <1>2 DEF ToSet
<1>4. \A i \in 1 .. Len(s) : i = 1 \/ (i - 1 \in 1 .. Len(s) - 1 /\ t[i - 1] = s[i])
  BY <1>1
<1>5. ToSet(s) \subseteq ToSet(t) \cup {s[1]}
  BY <1>1, <1>4 DEF ToSet
<1>6. QED
  BY <1>1, <1>3, <1>5 DEF t

LEMMA ToSetIs ==
  ASSUME NEW S, NEW s \in Seq(S)
  PROVE  /\ \A x : x \in ToSet(s) <=> \E i \in 1 .. Len(s) : s[i] = x
         /\ ToSet(s) \subseteq S
<1>1. DOMAIN s = 1 .. Len(s) /\ \A i \in 1 .. Len(s) : s[i] \in S
  BY LenProperties, ElementOfSeq
<1> QED
  BY <1>1 DEF ToSet

(* What has been sent, command by command.                                 *)
LEMMA TuSentIs ==
  ASSUME TuTypes
  PROVE  /\ \A n : n \in TuSent <=> \E i \in 1 .. Len(tuCmds) :
              tuCmds[i][1] = "run" /\ tuCmds[i][2] > 0 /\ tuCmds[i][2] = n
         /\ TuSent \subseteq Nat
<1>1. DOMAIN tuCmds = 1 .. Len(tuCmds) /\ \A i \in 1 .. Len(tuCmds) : tuCmds[i][2] \in Int
  BY LenProperties, ElementOfSeq DEF TuTypes
<1> QED
  BY <1>1 DEF TuSent, ToSet

LEMMA TuFewer ==
  \A n \in Int, v, w \in Nat : n >= -v /\ w >= v => n >= -w
  OBVIOUS

LEMMA TuCmdSent ==
  ASSUME TuTypes, TuFifo, NEW c \in {"run", "clear"} \X Int,
         tuCmds' = Append(tuCmds, c), tuWakeups' \in Nat, tuWakeups' >= tuWakeups, TuTypes',
         tuRan' = tuRan,
         c[1] = "run" => /\ c[2] # TuIdle /\ c[2] >= -tuWakeups'
                         /\ c[2] > 0 => \A n \in TuSent : n < c[2]
                         /\ c[2] < 0 => c[2] < -tuWakeups
  PROVE  /\ TuFifo'
         /\ TuSent' = IF c[1] = "run" /\ c[2] > 0 THEN TuSent \cup {c[2]} ELSE TuSent
         /\ TuBegun \subseteq TuBegun'
<1> DEFINE L == Len(tuCmds)
<1>1. /\ L \in Nat /\ Len(tuCmds') = L + 1
      /\ \A i \in 1 .. L : tuCmds'[i] = tuCmds[i]
      /\ tuCmds'[L + 1] = c
  BY QueueAppend DEF TuTypes
<1>2. /\ \A i \in 1 .. L : tuCmds[i][2] \in Int
      /\ c[2] \in Int /\ tuWakeups \in Nat
  BY ElementOfSeq DEF TuTypes
<1>3. \A i \in 1 .. (L + 1) : i \in 1 .. L \/ i = L + 1
  BY <1>1
<1>4. \A i \in 1 .. L : i \in 1 .. (L + 1) /\ i # L + 1
  BY <1>1
<1>5. L + 1 \in 1 .. (L + 1)
  BY <1>1
<1> HIDE DEF L
<1>6. \A i \in 1 .. L : tuCmds[i][1] = "run" /\ tuCmds[i][2] > 0 => tuCmds[i][2] \in TuSent
  BY TuSentIs, <1>2 DEF L
<1>7. TuFifo'
  <2>1. \A i \in 1 .. (L + 1) : tuCmds'[i][1] = "run" =>
          tuCmds'[i][2] # TuIdle /\ tuCmds'[i][2] >= -tuWakeups'
    BY <1>1, <1>2, <1>3, Zenon, SMT DEF TuFifo, L
  <2>2. ASSUME NEW i \in 1 .. (L + 1), NEW j \in 1 .. (L + 1), i < j,
               tuCmds'[i][1] = "run", tuCmds'[j][1] = "run"
        PROVE  /\ tuCmds'[i][2] > 0 /\ tuCmds'[j][2] > 0 => tuCmds'[i][2] < tuCmds'[j][2]
               /\ tuCmds'[i][2] < 0 /\ tuCmds'[j][2] < 0 => tuCmds'[i][2] > tuCmds'[j][2]
    <3>1. i \in 1 .. L /\ tuCmds'[i] = tuCmds[i] /\ tuCmds[i][1] = "run"
      BY <1>1, <2>2
    <3>2. CASE j \in 1 .. L
      <4>1. tuCmds'[j] = tuCmds[j]
        BY <3>2, <1>1
      <4> QED
        BY <2>2, <3>1, <3>2, <4>1 DEF TuFifo, L
    <3>3. CASE j = L + 1
      <4>1. tuCmds'[j] = c
        BY <3>3, <1>1
      <4>2. tuCmds[i][2] >= -tuWakeups /\ tuCmds[i][2] \in Int
        BY <3>1, <1>2 DEF TuFifo, L
      <4> QED
        BY <2>2, <3>1, <4>1, <4>2, <1>2, <1>6
    <3> QED
      BY <3>2, <3>3, <1>3
  <2> QED
    BY <2>1, <2>2, <1>1 DEF TuFifo
<1>8. TuSent' = IF c[1] = "run" /\ c[2] > 0 THEN TuSent \cup {c[2]} ELSE TuSent
  <2>1. \A n : n \in TuSent <=> \E i \in 1 .. L :
              tuCmds[i][1] = "run" /\ tuCmds[i][2] > 0 /\ tuCmds[i][2] = n
    BY TuSentIs DEF L
  <2>2. \A n : n \in TuSent' <=> \E i \in 1 .. (L + 1) :
              tuCmds'[i][1] = "run" /\ tuCmds'[i][2] > 0 /\ tuCmds'[i][2] = n
    <3>1. /\ DOMAIN tuCmds' = 1 .. (L + 1)
          /\ \A i \in 1 .. (L + 1) : tuCmds'[i][2] \in Int
      BY LenProperties, ElementOfSeq, <1>1 DEF TuTypes
    <3> QED
      BY <3>1 DEF TuSent, ToSet
  <2>3. \A n : n \in TuSent' <=> n \in TuSent \/ (c[1] = "run" /\ c[2] > 0 /\ c[2] = n)
    BY <1>1, <1>3, <1>4, <1>5, <2>1, <2>2
  <2> QED
    BY <2>3
<1>9. ASSUME NEW n \in TuBegun PROVE n \in TuBegun'
  <2>1. n < 0 => n >= -tuWakeups'
    <3>1. n \in Int /\ (n < 0 => n >= -tuWakeups)
      BY <1>9 DEF TuBegun
    <3>2. tuWakeups \in Nat /\ tuWakeups' \in Nat /\ tuWakeups' >= tuWakeups
      BY <1>2
    <3> QED
      BY <3>1, <3>2, TuFewer
  <2>2. ASSUME n < 0, NEW i \in 1 .. (L + 1), tuCmds'[i][1] = "run", tuCmds'[i][2] < 0
        PROVE  tuCmds'[i][2] < n
    <3>1. CASE i \in 1 .. L
      BY <1>1, <1>9, <2>2, <3>1 DEF TuBegun, L
    <3>2. CASE i = L + 1
      BY <1>1, <1>2, <1>9, <2>2, <3>2 DEF TuBegun
    <3> QED
      BY <3>1, <3>2, <1>3
  <2> QED
    BY <2>1, <2>2, <1>1, <1>9 DEF TuBegun
<1> QED
  BY <1>7, <1>8, <1>9

LEMMA TuCmdTaken ==
  ASSUME TuTypes, TuFifo, tuCmds # <<>>, tuCmds' = Tail(tuCmds), TuTypes',
         tuWakeups' = tuWakeups, NEW c, c = Head(tuCmds)
  PROVE  /\ TuFifo'
         /\ TuSent' = IF c[1] = "run" /\ c[2] > 0 THEN TuSent \ {c[2]} ELSE TuSent
         /\ c[1] = "run" /\ c[2] > 0 => c[2] \in TuSent /\ \A n \in TuSent' : c[2] < n
         /\ c[1] = "run" => c[2] # TuIdle /\ c[2] >= -tuWakeups
         /\ c[1] = "run" /\ c[2] < 0 => \A i \in 1 .. Len(tuCmds') :
              tuCmds'[i][1] = "run" /\ tuCmds'[i][2] < 0 => tuCmds'[i][2] < c[2]
         /\ ToSet(tuRan) \subseteq ToSet(tuRan') => TuBegun \subseteq TuBegun'
<1> DEFINE L == Len(tuCmds)
           prompt == c[1] = "run" /\ c[2] > 0
<1>1. /\ L \in Nat /\ L >= 1 /\ Len(tuCmds') = L - 1 /\ c = tuCmds[1]
      /\ \A i \in 1 .. L - 1 : tuCmds'[i] = tuCmds[i + 1]
  BY QueueTail DEF TuTypes
<1>2. \A i \in 1 .. L : tuCmds[i] \in {"run", "clear"} \X Int
  BY ElementOfSeq DEF TuTypes
<1>3. \A i \in 1 .. L : tuCmds[i][1] \in {"run", "clear"} /\ tuCmds[i][2] \in Int
  BY <1>2
<1>4. 1 \in 1 .. L /\ \A i \in 1 .. L - 1 : i + 1 \in 1 .. L /\ 1 < i + 1
  BY <1>1
<1>5. \A i \in 1 .. L : i = 1 \/ (i - 1 \in 1 .. L - 1 /\ tuCmds'[i - 1] = tuCmds[i])
  BY <1>1
<1> HIDE DEF L
<1>6. TuFifo'
  <2>1. \A i \in 1 .. L - 1 : tuCmds'[i][1] = "run" =>
          tuCmds'[i][2] # TuIdle /\ tuCmds'[i][2] >= -tuWakeups'
    BY <1>1, <1>4 DEF TuFifo, L
  <2>2. ASSUME NEW i \in 1 .. L - 1, NEW j \in 1 .. L - 1, i < j,
               tuCmds'[i][1] = "run", tuCmds'[j][1] = "run"
        PROVE  /\ tuCmds'[i][2] > 0 /\ tuCmds'[j][2] > 0 => tuCmds'[i][2] < tuCmds'[j][2]
               /\ tuCmds'[i][2] < 0 /\ tuCmds'[j][2] < 0 => tuCmds'[i][2] > tuCmds'[j][2]
    <3>1. tuCmds'[i] = tuCmds[i + 1] /\ tuCmds'[j] = tuCmds[j + 1] /\ i + 1 < j + 1
      BY <1>1, <2>2
    <3>2. i + 1 \in 1 .. L /\ j + 1 \in 1 .. L
      BY <1>4
    <3> QED
      BY <2>2, <3>1, <3>2 DEF TuFifo, L
  <2> QED
    BY <2>1, <2>2, <1>1 DEF TuFifo
<1>7. \A n : n \in TuSent <=> \E i \in 1 .. L :
              tuCmds[i][1] = "run" /\ tuCmds[i][2] > 0 /\ tuCmds[i][2] = n
  BY TuSentIs DEF L
<1>8. \A n : n \in TuSent' <=> \E i \in 1 .. L - 1 :
              tuCmds'[i][1] = "run" /\ tuCmds'[i][2] > 0 /\ tuCmds'[i][2] = n
  <2>1. /\ DOMAIN tuCmds' = 1 .. L - 1
        /\ \A i \in 1 .. L - 1 : tuCmds'[i][2] \in Int
    BY LenProperties, ElementOfSeq, <1>1 DEF TuTypes
  <2> QED
    BY <2>1 DEF TuSent, ToSet
<1>9. prompt => c[2] \in TuSent /\ \A n \in TuSent' : c[2] < n
  <2> SUFFICES ASSUME prompt PROVE c[2] \in TuSent /\ \A n \in TuSent' : c[2] < n
    OBVIOUS
  <2>1. c[2] \in TuSent
    BY <1>1, <1>4, <1>7
  <2>2. ASSUME NEW i \in 1 .. L - 1, tuCmds'[i][1] = "run", tuCmds'[i][2] > 0
        PROVE  c[2] < tuCmds'[i][2]
    <3>1. tuCmds'[i] = tuCmds[i + 1] /\ i + 1 \in 1 .. L /\ 1 \in 1 .. L /\ 1 < i + 1
      BY <1>1, <1>4
    <3> QED
      BY <2>2, <3>1, <1>1 DEF TuFifo, L
  <2> QED
    BY <2>1, <2>2, <1>8
<1>10. TuSent' = IF prompt THEN TuSent \ {c[2]} ELSE TuSent
  <2>1. \A n : n \in TuSent <=> n \in TuSent' \/ (prompt /\ n = c[2])
    <3>1. ASSUME NEW n, n \in TuSent PROVE n \in TuSent' \/ (prompt /\ n = c[2])
      <4>1. PICK i \in 1 .. L : tuCmds[i][1] = "run" /\ tuCmds[i][2] > 0 /\ tuCmds[i][2] = n
        BY <3>1, <1>7
      <4>2. CASE i = 1
        BY <4>1, <4>2, <1>1
      <4>3. CASE i - 1 \in 1 .. L - 1 /\ tuCmds'[i - 1] = tuCmds[i]
        BY <4>1, <4>3, <1>8
      <4> QED
        BY <4>2, <4>3, <1>5
    <3>2. ASSUME NEW n, n \in TuSent' PROVE n \in TuSent
      BY <3>2, <1>1, <1>4, <1>7, <1>8
    <3>3. prompt => c[2] \in TuSent
      BY <1>9
    <3> QED
      BY <3>1, <3>2, <3>3
  <2>2. prompt => c[2] \notin TuSent'
    <3>1. c[2] \in Int
      BY <1>1, <1>3, <1>4
    <3> QED
      BY <1>9, <3>1
  <2> QED
    BY <2>1, <2>2
<1>11. c[1] = "run" => c[2] # TuIdle /\ c[2] >= -tuWakeups
  BY <1>1, <1>4 DEF TuFifo, L
<1>12. c[1] = "run" /\ c[2] < 0 => \A i \in 1 .. Len(tuCmds') :
                 tuCmds'[i][1] = "run" /\ tuCmds'[i][2] < 0 => tuCmds'[i][2] < c[2]
  <2> SUFFICES ASSUME c[1] = "run", c[2] < 0, NEW i \in 1 .. L - 1,
                      tuCmds'[i][1] = "run", tuCmds'[i][2] < 0
               PROVE  tuCmds'[i][2] < c[2]
    BY <1>1
  <2>1. tuCmds'[i] = tuCmds[i + 1] /\ i + 1 \in 1 .. L /\ 1 \in 1 .. L /\ 1 < i + 1
    BY <1>1, <1>4
  <2> QED
    BY <2>1, <1>1, <1>3 DEF TuFifo, L
<1>14. ASSUME ToSet(tuRan) \subseteq ToSet(tuRan'),
              NEW n \in TuBegun
       PROVE  n \in TuBegun'
  <2>1. ASSUME n < 0, NEW i \in 1 .. L - 1, tuCmds'[i][1] = "run", tuCmds'[i][2] < 0
        PROVE  tuCmds'[i][2] < n
    <3>1. tuCmds'[i] = tuCmds[i + 1] /\ i + 1 \in 1 .. L
      BY <1>1, <1>4
    <3> QED
      BY <2>1, <3>1, <1>14 DEF TuBegun, L
  <2> QED
    BY <2>1, <1>1, <1>14 DEF TuBegun
<1> QED
  BY <1>6, <1>9, <1>10, <1>11, <1>12, <1>14

(* The line of prompts: one is typed and queued, ...                       *)
LEMMA TuLineQueued ==
  ASSUME NEW kind, NEW q, NEW sent, NEW ran, NEW drop, TuLine(kind, q, sent, ran, drop),
         NEW k \in TuKinds
  PROVE  /\ TuLine(Append(kind, k), Append(q, Len(kind) + 1), sent, ran, drop)
         /\ q # <<>> => TuNextStarts(Append(q, Len(kind) + 1), Append(kind, k)) = TuNextStarts(q, kind)
<1> DEFINE n == Len(kind) + 1
           kk == Append(kind, k)
           p == Append(q, n)
           L == Len(q)
<1>0. kind \in Seq(TuKinds) /\ q \in Seq(Nat) /\ ran \in Seq(Nat)
  BY DEF TuLine
<1>1. /\ kk \in Seq(TuKinds) /\ Len(kk) = n /\ n \in Nat /\ n >= 1 /\ Len(kind) \in Nat
      /\ \A i \in 1 .. Len(kind) : kk[i] = kind[i]
  BY <1>0, QueueAppend
<1>2. /\ p \in Seq(Nat) /\ Len(p) = L + 1 /\ p # <<>> /\ L \in Nat /\ p[L + 1] = n
      /\ \A i \in 1 .. L : p[i] = q[i]
  <2>1. n \in Nat
    BY <1>1
  <2>2. q \in Seq(Nat)
    BY <1>0
  <2>3. /\ Append(q, n) \in Seq(Nat) /\ Len(Append(q, n)) = Len(q) + 1
        /\ \A i \in 1 .. Len(q) : Append(q, n)[i] = q[i]
        /\ Append(q, n)[Len(q) + 1] = n /\ Len(q) \in Nat /\ Append(q, n) # <<>>
    <3> HIDE DEF n, kk, p, L
    <3> QED
      BY ONLY <2>1, <2>2, QueueAppend
  <2> QED
    BY <2>3
<1>3. ToSet(p) = ToSet(q) \cup {n}
  <2>1. n \in Nat
    BY <1>1
  <2> HIDE DEF n
  <2> QED
    BY <1>0, <2>1, ToSetAppend
<1>4. Head(p) = p[1] /\ (q # <<>> => Head(q) = q[1] /\ L >= 1)
  <2>1. q # <<>> => Head(q) = q[1] /\ Len(q) >= 1
    BY <1>0, QueueTail
  <2>2. Head(p) = p[1]
    <3> HIDE DEF p
    <3> QED
      BY <1>2, QueueTail
  <2> QED
    BY <2>1, <2>2
<1>5. /\ \A x : x \in ToSet(q) <=> \E i \in 1 .. L : q[i] = x
      /\ \A x : x \in ToSet(ran) <=> \E i \in 1 .. Len(ran) : ran[i] = x
  BY <1>0, ToSetIs
<1>6. ToSet(q) \cup sent \cup ToSet(ran) \cup drop = 1 .. Len(kind)
  BY DEF TuLine
<1>7. 1 .. n = (1 .. Len(kind)) \cup {n} /\ n \notin 1 .. Len(kind)
  BY <1>1
<1>8. \A x \in ToSet(q) \cup sent \cup ToSet(ran) \cup drop : x < n /\ x \in Nat /\ x >= 1
  BY <1>1, <1>6
<1>9. \A i \in 1 .. L + 1 : i \in 1 .. L \/ i = L + 1
  BY <1>2
<1> HIDE DEF p, kk, n, L
<1>10. \A i \in 1 .. L : q[i] \in Nat /\ q[i] >= 1 /\ q[i] < n
  BY <1>5, <1>8
<1>11. q # <<>> => TuNextStarts(p, kk) = TuNextStarts(q, kind)
  <2> SUFFICES ASSUME q # <<>> PROVE TuNextStarts(p, kk) = TuNextStarts(q, kind)
    OBVIOUS
  <2>1. 1 \in 1 .. L /\ L >= 1
    BY <1>2, <1>4
  <2>2. p[1] = q[1] /\ q[1] \in 1 .. Len(kind)
    <3>1. q[1] \in ToSet(q)
      BY <2>1, <1>5
    <3> QED
      BY <2>1, <3>1, <1>2, <1>6
  <2>3. kk[q[1]] = kind[q[1]]
    BY <2>2, <1>1
  <2> QED
    BY <2>2, <2>3, <1>2, <1>4 DEF TuNextStarts, TuStarts
<1>12. \A i, j \in 1 .. Len(p) : i < j => p[i] < p[j]
  <2> SUFFICES ASSUME NEW i \in 1 .. L + 1, NEW j \in 1 .. L + 1, i < j PROVE p[i] < p[j]
    BY <1>2
  <2>1. i \in 1 .. L
    BY <1>2
  <2>2. CASE j \in 1 .. L
    <3>1. q[i] < q[j]
      BY <2>1, <2>2 DEF TuLine, L
    <3> QED
      BY <2>1, <2>2, <3>1, <1>2
  <2>3. CASE j = L + 1
    BY <2>1, <2>3, <1>2, <1>10
  <2> QED
    BY <2>2, <2>3, <1>9
<1>13. ASSUME TuNextStarts(p, kk), NEW m \in 1 .. Len(p)
       PROVE  /\ \A i \in 1 .. Len(ran) : ran[i] < p[m]
              /\ \A x \in sent : x < p[m]
  <2>1. CASE m = L + 1
    <3>1. p[m] = n
      BY <2>1, <1>2
    <3>2. \A i \in 1 .. Len(ran) : ran[i] \in ToSet(ran)
      BY <1>5
    <3> QED
      BY <3>1, <3>2, <1>8
  <2>2. CASE m \in 1 .. L
    <3>1. p[m] = q[m] /\ q # <<>>
      <4>1. L # 0
        BY <2>2, <1>2
      <4> QED
        BY <2>2, <1>2, <4>1, EmptySeq DEF L
    <3>2. TuNextStarts(q, kind)
      BY <1>11, <1>13, <3>1
    <3> QED
      BY <2>2, <3>1, <3>2 DEF TuLine, L
  <2> QED
    BY <2>1, <2>2, <1>2, <1>9
<1>14. /\ ToSet(p) \cap sent = {} /\ ToSet(p) \cap ToSet(ran) = {} /\ ToSet(p) \cap drop = {}
       /\ ToSet(p) \cup sent \cup ToSet(ran) \cup drop = 1 .. Len(kk)
  <2>1. n \notin ToSet(q) \cup sent \cup ToSet(ran) \cup drop
    BY <1>6, <1>7
  <2>2. ToSet(q) \cap sent = {} /\ ToSet(q) \cap ToSet(ran) = {} /\ ToSet(q) \cap drop = {}
    BY DEF TuLine
  <2> QED
    BY <2>1, <2>2, <1>1, <1>3, <1>6, <1>7
<1>15. TuLine(kk, p, sent, ran, drop)
  BY <1>0, <1>1, <1>2, <1>12, <1>13, <1>14 DEF TuLine
<1> QED
  BY <1>11, <1>15 DEF p, kk, n

(* ... the first of the queue is sent, ...                                 *)
LEMMA TuLineStarts ==
  ASSUME NEW kind, NEW q, NEW sent, NEW ran, NEW drop, TuLine(kind, q, sent, ran, drop),
         TuNextStarts(q, kind)
  PROVE  /\ TuLine(kind, Tail(q), sent \cup {Head(q)}, ran, drop)
         /\ Head(q) \in Nat /\ Head(q) > 0 /\ \A n \in sent : n < Head(q)
<1> DEFINE t == Tail(q)
           h == Head(q)
           L == Len(q)
<1>0. kind \in Seq(TuKinds) /\ q \in Seq(Nat) /\ ran \in Seq(Nat) /\ q # <<>>
  BY DEF TuLine, TuNextStarts
<1>1. /\ t \in Seq(Nat) /\ Len(t) = L - 1 /\ L \in Nat /\ L >= 1 /\ h = q[1] /\ h \in Nat
      /\ \A i \in 1 .. L - 1 : t[i] = q[i + 1]
      /\ t = <<>> <=> L = 1
  BY <1>0, QueueTail
<1>2. ToSet(q) = ToSet(t) \cup {h}
  BY <1>0, ToSetTail
<1>4. /\ 1 \in 1 .. L
      /\ \A i \in 1 .. L - 1 : i \in 1 .. L /\ i + 1 \in 1 .. L /\ 1 < i + 1
  BY <1>1
<1>5. \A x : x \in ToSet(t) <=> \E i \in 1 .. L - 1 : t[i] = x
  <2> HIDE DEF t, L
  <2> QED
    BY <1>1, ToSetIs
<1>6. /\ ToSet(q) \cup sent \cup ToSet(ran) \cup drop = 1 .. Len(kind)
      /\ \A i, j \in 1 .. L : i < j => q[i] < q[j]
      /\ \A k \in 1 .. L :
       /\ \A i \in 1 .. Len(ran) : ran[i] < q[k]
       /\ \A n \in sent : n < q[k]
  BY DEF TuLine
<1> HIDE DEF t, h, L
<1>7. \A i \in 1 .. L - 1 : h < t[i]
  BY <1>1, <1>4, <1>6
<1>8. h \notin ToSet(t)
  <2>1. \A i \in 1 .. L - 1 : t[i] # h
    BY <1>1, <1>7
  <2> QED
    BY <1>5, <2>1, Zenon
<1>9. \A i, j \in 1 .. L - 1 : i < j => t[i] < t[j]
  <2> SUFFICES ASSUME NEW i \in 1 .. L - 1, NEW j \in 1 .. L - 1, i < j PROVE t[i] < t[j]
    OBVIOUS
  <2>1. i + 1 < j + 1
    BY <1>1
  <2> QED
    BY <2>1, <1>1, <1>4, <1>6
<1>10. \A k \in 1 .. L - 1 :
       /\ \A i \in 1 .. Len(ran) : ran[i] < t[k]
       /\ \A n \in sent \cup {h} : n < t[k]
  BY <1>1, <1>4, <1>6, <1>7
<1>11. \A i \in 1 .. Len(ran), n \in sent \cup {h} : ran[i] < n
  <2>1. \A i \in 1 .. Len(ran) : ran[i] < h
    BY <1>1, <1>4, <1>6
  <2>2. \A i \in 1 .. Len(ran), n \in sent : ran[i] < n
    BY DEF TuLine
  <2> QED
    BY <2>1, <2>2
<1>12. \A n \in sent : n < h
  BY <1>1, <1>4, <1>6
<1>13. h > 0
  <2>1. h \in ToSet(q)
    BY <1>2
  <2> QED
    BY <2>1, <1>6
<1>14. LET s == sent \cup {h} IN
       /\ ToSet(t) \cap s = {} /\ ToSet(t) \cap ToSet(ran) = {} /\ ToSet(t) \cap drop = {}
       /\ s \cap ToSet(ran) = {} /\ s \cap drop = {} /\ ToSet(ran) \cap drop = {}
       /\ ToSet(t) \cup s \cup ToSet(ran) \cup drop = 1 .. Len(kind)
  <2>1. /\ ToSet(q) \cap sent = {} /\ ToSet(q) \cap ToSet(ran) = {} /\ ToSet(q) \cap drop = {}
        /\ sent \cap ToSet(ran) = {} /\ sent \cap drop = {} /\ ToSet(ran) \cap drop = {}
    BY DEF TuLine
  <2> QED
    BY <2>1, <1>2, <1>6, <1>8
<1>15. \A i, j \in 1 .. Len(ran) : i < j => ran[i] < ran[j]
  BY DEF TuLine
<1>16. TuLine(kind, t, sent \cup {h}, ran, drop)
  BY <1>0, <1>1, <1>9, <1>10, <1>11, <1>14, <1>15 DEF TuLine
<1> QED
  BY <1>1, <1>12, <1>13, <1>16 DEF t, h

(* ... a new one is sent at once, or refused, ...                          *)
LEMMA TuLineNew ==
  ASSUME NEW kind, NEW q, NEW sent, NEW ran, NEW drop, TuLine(kind, q, sent, ran, drop),
         NEW k \in TuKinds, ~TuNextStarts(q, kind)
  PROVE  /\ TuLine(Append(kind, k), q, sent \cup {Len(kind) + 1}, ran, drop)
         /\ TuLine(Append(kind, k), q, sent, ran, drop \cup {Len(kind) + 1})
         /\ \A n \in sent : n < Len(kind) + 1
         /\ Len(kind) + 1 \in Nat /\ Len(kind) + 1 > 0
         /\ ~TuNextStarts(q, Append(kind, k))
<1> DEFINE n == Len(kind) + 1
           kk == Append(kind, k)
           L == Len(q)
<1>0. kind \in Seq(TuKinds) /\ q \in Seq(Nat) /\ ran \in Seq(Nat)
  BY DEF TuLine
<1>1. /\ kk \in Seq(TuKinds) /\ Len(kk) = n /\ n \in Nat /\ n >= 1 /\ Len(kind) \in Nat
      /\ \A i \in 1 .. Len(kind) : kk[i] = kind[i]
  BY <1>0, QueueAppend
<1>2. L \in Nat /\ (q # <<>> => Head(q) = q[1] /\ L >= 1)
  <2>1. q # <<>> => Head(q) = q[1] /\ Len(q) >= 1
    BY <1>0, QueueTail
  <2> QED
    BY <2>1, <1>0, LenProperties
<1>3. /\ \A x : x \in ToSet(q) <=> \E i \in 1 .. L : q[i] = x
      /\ \A x : x \in ToSet(ran) <=> \E i \in 1 .. Len(ran) : ran[i] = x
  BY <1>0, ToSetIs
<1>4. ToSet(q) \cup sent \cup ToSet(ran) \cup drop = 1 .. Len(kind)
  BY DEF TuLine
<1>5. 1 .. n = (1 .. Len(kind)) \cup {n} /\ n \notin 1 .. Len(kind)
  BY <1>1
<1>6. \A x \in ToSet(q) \cup sent \cup ToSet(ran) \cup drop : x < n /\ x \in Nat /\ x >= 1
  BY <1>1, <1>4
<1> HIDE DEF kk, n, L
<1>7. ~TuNextStarts(q, kk)
  <2> SUFFICES ASSUME q # <<>> PROVE ~TuNextStarts(q, kk)
    BY DEF TuNextStarts
  <2>1. 1 \in 1 .. L
    BY <1>2
  <2>2. q[1] \in 1 .. Len(kind)
    BY <2>1, <1>3, <1>4
  <2>3. kk[q[1]] = kind[q[1]]
    BY <2>2, <1>1
  <2> QED
    BY <2>3, <1>2 DEF TuNextStarts, TuStarts
<1>8. /\ \A i, j \in 1 .. Len(ran) : i < j => ran[i] < ran[j]
      /\ \A i \in 1 .. Len(ran), x \in sent : ran[i] < x
      /\ \A i, j \in 1 .. Len(q) : i < j => q[i] < q[j]
  BY DEF TuLine
<1>9. \A i \in 1 .. Len(ran), x \in sent \cup {n} : ran[i] < x
  <2>1. \A i \in 1 .. Len(ran) : ran[i] < n
    BY <1>3, <1>6
  <2> QED
    BY <2>1, <1>8
<1>10. /\ ToSet(q) \cap sent = {} /\ ToSet(q) \cap ToSet(ran) = {} /\ ToSet(q) \cap drop = {}
       /\ sent \cap ToSet(ran) = {} /\ sent \cap drop = {} /\ ToSet(ran) \cap drop = {}
  BY DEF TuLine
<1>11. n \notin ToSet(q) \cup sent \cup ToSet(ran) \cup drop
  BY <1>4, <1>5
<1>12. LET s == sent \cup {n} IN
       /\ ToSet(q) \cap s = {} /\ s \cap ToSet(ran) = {} /\ s \cap drop = {}
       /\ ToSet(q) \cup s \cup ToSet(ran) \cup drop = 1 .. Len(kk)
  BY <1>1, <1>4, <1>5, <1>10, <1>11
<1>13. LET d == drop \cup {n} IN
       /\ ToSet(q) \cap d = {} /\ sent \cap d = {} /\ ToSet(ran) \cap d = {}
       /\ ToSet(q) \cup sent \cup ToSet(ran) \cup d = 1 .. Len(kk)
  BY <1>1, <1>4, <1>5, <1>10, <1>11
<1>14. TuLine(kk, q, sent \cup {n}, ran, drop)
  BY <1>0, <1>1, <1>7, <1>8, <1>9, <1>10, <1>12 DEF TuLine
<1>15. TuLine(kk, q, sent, ran, drop \cup {n})
  BY <1>0, <1>1, <1>7, <1>8, <1>10, <1>13 DEF TuLine
<1>16. \A x \in sent : x < n
  BY <1>6
<1> QED
  BY <1>1, <1>7, <1>14, <1>15, <1>16 DEF n, kk

(* ... the queue is cleared, and the first one sent is begun.              *)
LEMMA TuLineCleared ==
  ASSUME NEW kind, NEW q, NEW sent, NEW ran, NEW drop, TuLine(kind, q, sent, ran, drop)
  PROVE  TuLine(kind, <<>>, sent, ran, drop \cup ToSet(q)) /\ ~TuNextStarts(<<>>, kind)
<1>1. ~TuNextStarts(<<>>, kind)
  BY DEF TuNextStarts
<1>2. <<>> \in Seq(Nat) /\ Len(<<>>) = 0 /\ ToSet(<<>>) = {}
  BY DEF ToSet
<1>3. /\ kind \in Seq(TuKinds) /\ ran \in Seq(Nat)
      /\ \A i, j \in 1 .. Len(ran) : i < j => ran[i] < ran[j]
      /\ \A i \in 1 .. Len(ran), n \in sent : ran[i] < n
  BY DEF TuLine
<1>4. /\ ToSet(q) \cap sent = {} /\ ToSet(q) \cap ToSet(ran) = {} /\ ToSet(q) \cap drop = {}
      /\ sent \cap ToSet(ran) = {} /\ sent \cap drop = {} /\ ToSet(ran) \cap drop = {}
      /\ ToSet(q) \cup sent \cup ToSet(ran) \cup drop = 1 .. Len(kind)
  BY DEF TuLine
<1>5. LET d == drop \cup ToSet(q) IN
      /\ sent \cap d = {} /\ ToSet(ran) \cap d = {}
      /\ {} \cup sent \cup ToSet(ran) \cup d = 1 .. Len(kind)
  BY <1>4
<1>6. \A i, j \in 1 .. Len(<<>>) : i < j => <<>>[i] < <<>>[j]
  BY <1>2
<1>7. TuLine(kind, <<>>, sent, ran, drop \cup ToSet(q))
  BY <1>1, <1>2, <1>3, <1>4, <1>5, <1>6 DEF TuLine
<1> QED
  BY <1>1, <1>7

TuFirst(n, sent) == n \in sent /\ n \in Nat /\ \A m \in sent : m = n \/ n < m

LEMMA TuLineBegun ==
  ASSUME NEW kind, NEW q, NEW sent, NEW ran, NEW drop, TuLine(kind, q, sent, ran, drop),
         NEW n, TuFirst(n, sent)
  PROVE  TuLine(kind, q, sent \ {n}, Append(ran, n), drop)
<1> DEFINE r == Append(ran, n)
           L == Len(ran)
<1>0. /\ kind \in Seq(TuKinds) /\ q \in Seq(Nat) /\ ran \in Seq(Nat)
      /\ n \in sent /\ n \in Nat /\ \A m \in sent : m = n \/ n < m
  BY DEF TuLine, TuFirst
<1>1. /\ r \in Seq(Nat) /\ Len(r) = L + 1 /\ L \in Nat /\ r[L + 1] = n
      /\ \A i \in 1 .. L : r[i] = ran[i]
  BY <1>0, QueueAppend
<1>2. ToSet(r) = ToSet(ran) \cup {n}
  <2>1. ran \in Seq(Nat) /\ n \in Nat
    BY <1>0
  <2> HIDE DEF L
  <2> QED
    BY ONLY <2>1, ToSetAppend
<1>3. \A i \in 1 .. L + 1 : i \in 1 .. L \/ i = L + 1
  BY <1>1
<1> HIDE DEF r, L
<1>4. /\ \A i, j \in 1 .. L : i < j => ran[i] < ran[j]
      /\ \A i \in 1 .. L, m \in sent : ran[i] < m
      /\ \A i, j \in 1 .. Len(q) : i < j => q[i] < q[j]
      /\ TuNextStarts(q, kind) => \A k \in 1 .. Len(q) :
       /\ \A i \in 1 .. L : ran[i] < q[k]
       /\ \A m \in sent : m < q[k]
  BY DEF TuLine, L
<1>5. \A i, j \in 1 .. L + 1 : i < j => r[i] < r[j]
  <2> SUFFICES ASSUME NEW i \in 1 .. L + 1, NEW j \in 1 .. L + 1, i < j PROVE r[i] < r[j]
    OBVIOUS
  <2>1. i \in 1 .. L
    BY <1>1
  <2> QED
    BY <2>1, <1>0, <1>1, <1>3, <1>4
<1>6. \A i \in 1 .. L + 1, m \in sent \ {n} : r[i] < m
  BY <1>0, <1>1, <1>3, <1>4
<1>7. TuNextStarts(q, kind) => \A k \in 1 .. Len(q) :
       /\ \A i \in 1 .. L + 1 : r[i] < q[k]
       /\ \A m \in sent \ {n} : m < q[k]
  BY <1>0, <1>1, <1>3, <1>4
<1>8. /\ ToSet(q) \cap sent = {} /\ ToSet(q) \cap ToSet(ran) = {} /\ ToSet(q) \cap drop = {}
      /\ sent \cap ToSet(ran) = {} /\ sent \cap drop = {} /\ ToSet(ran) \cap drop = {}
      /\ ToSet(q) \cup sent \cup ToSet(ran) \cup drop = 1 .. Len(kind)
  BY DEF TuLine
<1>9. LET s == sent \ {n} IN
      /\ ToSet(q) \cap s = {} /\ ToSet(q) \cap ToSet(r) = {} /\ ToSet(q) \cap drop = {}
      /\ s \cap ToSet(r) = {} /\ s \cap drop = {} /\ ToSet(r) \cap drop = {}
      /\ ToSet(q) \cup s \cup ToSet(r) \cup drop = 1 .. Len(kind)
  BY <1>0, <1>2, <1>8
<1>10. TuLine(kind, q, sent \ {n}, r, drop)
  BY <1>0, <1>1, <1>4, <1>5, <1>6, <1>7, <1>9 DEF TuLine
<1> QED
  BY <1>10 DEF r

(* The screen: a run may be shown once it is sent.                         *)
LEMMA TuScreenSent ==
  ASSUME TuTypes, TuScreen, UNCHANGED <<tuMsgs, tuRunning>>,
         TuSent \subseteq TuSent', tuShown' = tuShown \/ tuShown' \in TuSent',
         TuBegun \subseteq TuBegun'
  PROVE  TuScreen'
<1>1. /\ \A i \in 1 .. Len(tuMsgs) : tuMsgs[i][2] \in Int
      /\ tuRunning \in Int
  <2>1. \A i \in 1 .. Len(tuMsgs) : tuMsgs[i] \in TuSays \X Int
    BY ElementOfSeq DEF TuTypes
  <2> QED
    BY <2>1 DEF TuTypes
<1>2. TuNews'
  <2>1. \A i \in 1 .. Len(tuMsgs) : TuAbout(tuMsgs[i]) => tuMsgs[i][2] # TuIdle /\ tuMsgs[i][2] \in TuBegun'
    BY <1>1 DEF TuScreen, TuNews
  <2>2. tuRunning # TuIdle => tuRunning \in TuBegun'
    BY <1>1 DEF TuScreen, TuNews
  <2> QED
    BY <2>1, <2>2 DEF TuNews, TuAbout
<1>3. TuAnnounced' /\ TuNotEnded'
  BY DEF TuScreen, TuAnnounced, TuNotEnded, TuAbout
<1>4. TuLives'
  BY DEF TuScreen, TuLives
<1>5. TuCurrent'
  BY DEF TuScreen, TuCurrent, TuAbout
<1> QED
  BY <1>2, <1>3, <1>4, <1>5 DEF TuScreen

(* A message is handled.                                                   *)
LEMMA TuScreenHeard ==
  ASSUME TuTypes, TuScreen, tuMsgs # <<>>, tuMsgs' = Tail(tuMsgs), tuRunning' = tuRunning,
         TuSent \subseteq TuSent', TuBegun \subseteq TuBegun',
         LET m == Head(tuMsgs) IN
           \/ m[1] = "started" /\ tuShown' = m[2]
           \/ m[1] \in TuEnds /\ tuShown = m[2] /\ tuShown' \in TuSent' \cup {TuIdle}
           \/ m[1] \in TuEnds /\ tuShown # m[2] /\ tuShown' = tuShown
           \/ ~TuAbout(m) /\ tuShown' = tuShown
  PROVE  TuScreen'
<1> DEFINE L == Len(tuMsgs)
           m == Head(tuMsgs)
<1>1. /\ L \in Nat /\ L >= 1 /\ Len(tuMsgs') = L - 1 /\ m = tuMsgs[1]
      /\ \A i \in 1 .. L - 1 : tuMsgs'[i] = tuMsgs[i + 1]
  BY QueueTail DEF TuTypes
<1>2. /\ \A i \in 1 .. L : tuMsgs[i][2] \in Int
      /\ tuRunning \in Int
  <2>1. \A i \in 1 .. L : tuMsgs[i] \in TuSays \X Int
    BY ElementOfSeq DEF TuTypes
  <2> QED
    BY <2>1 DEF TuTypes
<1>3. 1 \in 1 .. L /\ \A i \in 1 .. L - 1 : i + 1 \in 1 .. L /\ 1 < i + 1
  BY <1>1
<1>4. \A i \in 1 .. L : i = 1 \/ (i - 1 \in 1 .. L - 1 /\ tuMsgs'[i - 1] = tuMsgs[i])
  BY <1>1
<1>0. \/ m[1] = "started" /\ tuShown' = m[2]
      \/ m[1] \in TuEnds /\ tuShown = m[2] /\ tuShown' \in TuSent' \cup {TuIdle}
      \/ m[1] \in TuEnds /\ tuShown # m[2] /\ tuShown' = tuShown
      \/ ~TuAbout(m) /\ tuShown' = tuShown
  OBVIOUS
<1> HIDE DEF L, m
<1>5. TuNews'
  <2>1. \A i \in 1 .. L - 1 : TuAbout(tuMsgs'[i]) => tuMsgs'[i][2] # TuIdle /\ tuMsgs'[i][2] \in TuBegun'
    <3> SUFFICES ASSUME NEW i \in 1 .. L - 1, TuAbout(tuMsgs'[i])
                 PROVE  tuMsgs'[i][2] # TuIdle /\ tuMsgs'[i][2] \in TuBegun'
      OBVIOUS
    <3>1. tuMsgs'[i] = tuMsgs[i + 1] /\ i + 1 \in 1 .. L
      BY <1>1, <1>3
    <3>2. TuAbout(tuMsgs[i + 1])
      BY <3>1
    <3>3. tuMsgs[i + 1][2] # TuIdle /\ tuMsgs[i + 1][2] \in TuBegun /\ tuMsgs[i + 1][2] \in Int
      BY <3>1, <3>2, <1>2 DEF TuScreen, TuNews, L
    <3>4. tuMsgs[i + 1][2] \in TuBegun'
      BY <3>3
    <3>5. tuMsgs'[i][2] = tuMsgs[i + 1][2]
      BY <3>1
    <3> QED
      BY <3>3, <3>4, <3>5
  <2>2. tuRunning # TuIdle => tuRunning \in TuBegun'
    BY <1>2 DEF TuScreen, TuNews
  <2> QED
    BY <2>1, <2>2, <1>1 DEF TuNews, TuAbout
<1>6. TuAnnounced'
  <2> SUFFICES ASSUME NEW i \in 1 .. L - 1, tuMsgs'[i][1] = "started"
               PROVE  \/ /\ tuMsgs'[i][2] = tuRunning
                         /\ \A j \in 1 .. L - 1 : i < j => ~TuAbout(tuMsgs'[j])
                      \/ \E j \in 1 .. L - 1 :
                           i < j /\ tuMsgs'[j][1] \in TuEnds /\ tuMsgs'[j][2] = tuMsgs'[i][2]
    BY <1>1 DEF TuAnnounced, TuAbout
  <2>1. tuMsgs'[i] = tuMsgs[i + 1] /\ i + 1 \in 1 .. L
    BY <1>1, <1>3
  <2>2. CASE tuMsgs[i + 1][2] = tuRunning /\ \A j \in 1 .. L : i + 1 < j => ~TuAbout(tuMsgs[j])
    <3>1. ASSUME NEW j \in 1 .. L - 1, i < j PROVE ~TuAbout(tuMsgs'[j])
      <4>1. tuMsgs'[j] = tuMsgs[j + 1] /\ j + 1 \in 1 .. L /\ i + 1 < j + 1
        BY <1>1, <1>3, <3>1
      <4> QED
        BY <2>2, <4>1
    <3> QED
      BY <2>1, <2>2, <3>1
  <2>3. CASE \E j \in 1 .. L : i + 1 < j /\ tuMsgs[j][1] \in TuEnds /\ tuMsgs[j][2] = tuMsgs[i + 1][2]
    <3>1. PICK j \in 1 .. L : i + 1 < j /\ tuMsgs[j][1] \in TuEnds /\ tuMsgs[j][2] = tuMsgs[i + 1][2]
      BY <2>3
    <3>2. j # 1 /\ i < j - 1
      BY <3>1, <1>1
    <3>3. j - 1 \in 1 .. L - 1 /\ tuMsgs'[j - 1] = tuMsgs[j]
      BY <1>4, <3>2
    <3> QED
      BY <2>1, <3>1, <3>2, <3>3
  <2> QED
    BY <2>1, <2>2, <2>3 DEF TuScreen, TuAnnounced, L
<1>7. TuNotEnded'
  <2> SUFFICES ASSUME NEW i \in 1 .. L - 1, tuMsgs'[i][1] \in TuEnds
               PROVE  tuMsgs'[i][2] # tuRunning
    BY <1>1 DEF TuNotEnded
  <2>1. tuMsgs'[i] = tuMsgs[i + 1] /\ i + 1 \in 1 .. L
    BY <1>1, <1>3
  <2> QED
    BY <2>1 DEF TuScreen, TuNotEnded, L
<1>8. TuLives'
  <2> SUFFICES ASSUME tuShown' # TuIdle
               PROVE  \/ tuShown' \in TuSent'
                      \/ tuShown' = tuRunning
                      \/ \E i \in 1 .. L - 1 : tuMsgs'[i][1] \in TuEnds /\ tuMsgs'[i][2] = tuShown'
    BY <1>1 DEF TuLives
  <2>1. CASE m[1] = "started" /\ tuShown' = m[2]
    <3>1. CASE tuMsgs[1][2] = tuRunning
      BY <2>1, <3>1, <1>1
    <3>2. CASE \E j \in 1 .. L : 1 < j /\ tuMsgs[j][1] \in TuEnds /\ tuMsgs[j][2] = tuMsgs[1][2]
      <4>1. PICK j \in 1 .. L : 1 < j /\ tuMsgs[j][1] \in TuEnds /\ tuMsgs[j][2] = tuMsgs[1][2]
        BY <3>2
      <4>2. j # 1
        BY <4>1
      <4>3. j - 1 \in 1 .. L - 1 /\ tuMsgs'[j - 1] = tuMsgs[j]
        BY <1>4, <4>2
      <4> QED
        BY <2>1, <4>1, <4>3, <1>1
    <3> QED
      BY <2>1, <3>1, <3>2, <1>1, <1>3 DEF TuScreen, TuAnnounced, L
  <2>2. CASE tuShown' \in TuSent' \cup {TuIdle}
    BY <2>2
  <2>3. CASE tuShown' = tuShown /\ (m[1] \in TuEnds => tuShown # m[2])
    <3>1. CASE tuShown \in TuSent \/ tuShown = tuRunning
      BY <2>3, <3>1
    <3>2. CASE \E i \in 1 .. L : tuMsgs[i][1] \in TuEnds /\ tuMsgs[i][2] = tuShown
      <4>1. PICK i \in 1 .. L : tuMsgs[i][1] \in TuEnds /\ tuMsgs[i][2] = tuShown
        BY <3>2
      <4>2. i # 1
        BY <2>3, <4>1, <1>1
      <4>3. i - 1 \in 1 .. L - 1 /\ tuMsgs'[i - 1] = tuMsgs[i]
        BY <1>4, <4>2
      <4> QED
        BY <2>3, <4>1, <4>3
    <3> QED
      BY <2>3, <3>1, <3>2 DEF TuScreen, TuLives, L
  <2> QED
    BY <1>0, <2>1, <2>2, <2>3 DEF TuAbout
<1>9. TuCurrent'
  <2> SUFFICES ASSUME tuRunning # TuIdle
               PROVE  \/ \E i \in 1 .. L - 1 : tuMsgs'[i][1] = "started" /\ tuMsgs'[i][2] = tuRunning
                      \/ /\ \A i \in 1 .. L - 1 : ~TuAbout(tuMsgs'[i])
                         /\ tuShown' = tuRunning \/ tuShown' \in TuSent'
    BY <1>1 DEF TuCurrent, TuAbout
  <2>1. CASE \E i \in 1 .. L : tuMsgs[i][1] = "started" /\ tuMsgs[i][2] = tuRunning
    <3>1. PICK i \in 1 .. L : tuMsgs[i][1] = "started" /\ tuMsgs[i][2] = tuRunning
      BY <2>1
    <3>2. CASE i # 1
      <4>1. i - 1 \in 1 .. L - 1 /\ tuMsgs'[i - 1] = tuMsgs[i]
        BY <1>4, <3>2
      <4> QED
        BY <3>1, <4>1
    <3>3. CASE i = 1
      <4>1. m[1] = "started" /\ m[2] = tuRunning
        BY <3>1, <3>3, <1>1
      <4>2. tuShown' = tuRunning
        BY <4>1, <1>0 DEF TuAbout, TuEnds
      <4>3. ~\E j \in 1 .. L : 1 < j /\ tuMsgs[j][1] \in TuEnds /\ tuMsgs[j][2] = tuMsgs[1][2]
        BY <3>1, <3>3 DEF TuScreen, TuNotEnded, L
      <4>4. \A j \in 1 .. L : 1 < j => ~TuAbout(tuMsgs[j])
        BY <3>1, <3>3, <4>3 DEF TuScreen, TuAnnounced, L
      <4>5. \A j \in 1 .. L - 1 : ~TuAbout(tuMsgs'[j])
        <5> SUFFICES ASSUME NEW j \in 1 .. L - 1 PROVE ~TuAbout(tuMsgs'[j])
          OBVIOUS
        <5>1. tuMsgs'[j] = tuMsgs[j + 1] /\ j + 1 \in 1 .. L /\ 1 < j + 1
          BY <1>1, <1>3
        <5> QED
          BY <4>4, <5>1
      <4> QED
        BY <4>2, <4>5
    <3> QED
      BY <3>2, <3>3
  <2>2. CASE /\ \A i \in 1 .. L : ~TuAbout(tuMsgs[i])
             /\ tuShown = tuRunning \/ tuShown \in TuSent
    <3>1. ~TuAbout(m)
      BY <2>2, <1>1, <1>3
    <3>2. tuShown' = tuShown
      BY <3>1, <1>0 DEF TuAbout
    <3>3. \A i \in 1 .. L - 1 : ~TuAbout(tuMsgs'[i])
      <4> SUFFICES ASSUME NEW i \in 1 .. L - 1 PROVE ~TuAbout(tuMsgs'[i])
        OBVIOUS
      <4>1. tuMsgs'[i] = tuMsgs[i + 1] /\ i + 1 \in 1 .. L
        BY <1>1, <1>3
      <4> QED
        BY <2>2, <4>1
    <3> QED
      BY <2>2, <3>2, <3>3
  <2> QED
    BY <2>1, <2>2 DEF TuScreen, TuCurrent, L
<1> QED
  BY <1>5, <1>6, <1>7, <1>8, <1>9 DEF TuScreen

(* The worker begins a run, ...                                            *)
LEMMA TuScreenBegun ==
  ASSUME TuTypes, TuScreen, TuTypes', tuRunning = TuIdle, NEW n \in Int, n # TuIdle,
         tuRunning' = n, tuShown' = tuShown,
         NEW m, m \in TuSays \X Int, m[1] = "started", m[2] = n, tuMsgs' = Append(tuMsgs, m),
         TuSent' = TuSent \ {n}, TuBegun \subseteq TuBegun', n \in TuBegun', n \notin TuBegun
  PROVE  TuScreen'
<1> DEFINE L == Len(tuMsgs)
<1>1. /\ L \in Nat /\ Len(tuMsgs') = L + 1 /\ tuMsgs'[L + 1] = m
      /\ \A i \in 1 .. L : tuMsgs'[i] = tuMsgs[i]
  BY QueueAppend DEF TuTypes
<1>2. \A i \in 1 .. L : tuMsgs[i][2] \in Int
  <2>1. \A i \in 1 .. L : tuMsgs[i] \in TuSays \X Int
    BY ElementOfSeq DEF TuTypes
  <2> QED
    BY <2>1
<1>3. /\ \A i \in 1 .. L + 1 : i \in 1 .. L \/ i = L + 1
      /\ \A i \in 1 .. L : i \in 1 .. L + 1 /\ i < L + 1
      /\ L + 1 \in 1 .. L + 1
      /\ \A j \in 1 .. L + 1 : ~(L + 1 < j)
  BY <1>1
<1> HIDE DEF L
<1>4. \A i \in 1 .. L : TuAbout(tuMsgs[i]) =>
        tuMsgs[i][2] # TuIdle /\ tuMsgs[i][2] \in TuBegun /\ tuMsgs[i][2] # n
  BY DEF TuScreen, TuNews, L
<1>5. m[1] \notin TuEnds
  BY DEF TuEnds
<1>6. TuNews'
  <2>1. \A i \in 1 .. L + 1 : TuAbout(tuMsgs'[i]) => tuMsgs'[i][2] # TuIdle /\ tuMsgs'[i][2] \in TuBegun'
    <3> SUFFICES ASSUME NEW i \in 1 .. L + 1, TuAbout(tuMsgs'[i])
                 PROVE  tuMsgs'[i][2] # TuIdle /\ tuMsgs'[i][2] \in TuBegun'
      OBVIOUS
    <3>1. CASE i = L + 1
      <4>1. tuMsgs'[i][2] = n
        BY <3>1, <1>1
      <4> QED
        BY <4>1
    <3>2. CASE i \in 1 .. L
      <4>1. tuMsgs'[i] = tuMsgs[i]
        BY <3>2, <1>1
      <4>2. tuMsgs[i][2] # TuIdle /\ tuMsgs[i][2] \in TuBegun /\ tuMsgs[i][2] \in Int
        BY <3>2, <4>1, <1>2, <1>4
      <4>3. tuMsgs[i][2] \in TuBegun'
        BY <4>2
      <4>4. tuMsgs'[i][2] = tuMsgs[i][2]
        BY <4>1
      <4> QED
        BY <4>2, <4>3, <4>4
    <3> QED
      BY <3>1, <3>2, <1>3
  <2> QED
    BY <2>1, <1>1 DEF TuNews, TuAbout
<1>7. TuAnnounced'
  <2> SUFFICES ASSUME NEW i \in 1 .. L + 1, tuMsgs'[i][1] = "started"
               PROVE  \/ /\ tuMsgs'[i][2] = n
                         /\ \A j \in 1 .. L + 1 : i < j => ~TuAbout(tuMsgs'[j])
                      \/ \E j \in 1 .. L + 1 :
                           i < j /\ tuMsgs'[j][1] \in TuEnds /\ tuMsgs'[j][2] = tuMsgs'[i][2]
    BY <1>1 DEF TuAnnounced, TuAbout
  <2>1. CASE i = L + 1
    BY <2>1, <1>1, <1>3
  <2>2. CASE i \in 1 .. L
    <3>1. tuMsgs'[i] = tuMsgs[i] /\ TuAbout(tuMsgs[i])
      BY <2>2, <1>1 DEF TuAbout
    <3>2. tuMsgs[i][2] # TuIdle
      BY <2>2, <3>1, <1>4
    <3>3. \E j \in 1 .. L : i < j /\ tuMsgs[j][1] \in TuEnds /\ tuMsgs[j][2] = tuMsgs[i][2]
      BY <2>2, <3>1, <3>2 DEF TuScreen, TuAnnounced, L
    <3> QED
      BY <3>1, <3>3, <1>1, <1>3
  <2> QED
    BY <2>1, <2>2, <1>3
<1>8. TuNotEnded'
  <2> SUFFICES ASSUME NEW i \in 1 .. L + 1, tuMsgs'[i][1] \in TuEnds
               PROVE  tuMsgs'[i][2] # n
    BY <1>1 DEF TuNotEnded
  <2>1. i \in 1 .. L
    BY <1>1, <1>3, <1>5
  <2>2. tuMsgs'[i] = tuMsgs[i] /\ TuAbout(tuMsgs[i])
    BY <2>1, <1>1 DEF TuAbout
  <2> QED
    BY <2>1, <2>2, <1>4
<1>9. TuLives'
  BY <1>1, <1>3 DEF TuScreen, TuLives, L
<1>10. TuCurrent'
  BY <1>1, <1>3 DEF TuCurrent
<1> QED
  BY <1>6, <1>7, <1>8, <1>9, <1>10 DEF TuScreen

(* ... ends one, ...                                                       *)
LEMMA TuScreenEnded ==
  ASSUME TuTypes, TuScreen, TuTypes', tuRunning # TuIdle,
         tuRunning' = TuIdle, tuShown' = tuShown,
         NEW m, m \in TuSays \X Int, m[1] \in TuEnds, m[2] = tuRunning, tuMsgs' = Append(tuMsgs, m),
         TuSent' = TuSent, TuBegun \subseteq TuBegun'
  PROVE  TuScreen'
<1> DEFINE L == Len(tuMsgs)
<1>1. /\ L \in Nat /\ Len(tuMsgs') = L + 1 /\ tuMsgs'[L + 1] = m
      /\ \A i \in 1 .. L : tuMsgs'[i] = tuMsgs[i]
  BY QueueAppend DEF TuTypes
<1>2. \A i \in 1 .. L : tuMsgs[i][2] \in Int
  <2>1. \A i \in 1 .. L : tuMsgs[i] \in TuSays \X Int
    BY ElementOfSeq DEF TuTypes
  <2> QED
    BY <2>1
<1>3. /\ \A i \in 1 .. L + 1 : i \in 1 .. L \/ i = L + 1
      /\ \A i \in 1 .. L : i \in 1 .. L + 1 /\ i < L + 1
      /\ L + 1 \in 1 .. L + 1
  BY <1>1
<1> HIDE DEF L
<1>4. \A i \in 1 .. L : TuAbout(tuMsgs[i]) => tuMsgs[i][2] # TuIdle /\ tuMsgs[i][2] \in TuBegun
  BY DEF TuScreen, TuNews, L
<1>5. m[1] # "started" /\ tuRunning \in Int
  BY DEF TuEnds, TuTypes
<1>6. TuNews'
  <2>1. \A i \in 1 .. L + 1 : TuAbout(tuMsgs'[i]) => tuMsgs'[i][2] # TuIdle /\ tuMsgs'[i][2] \in TuBegun'
    <3> SUFFICES ASSUME NEW i \in 1 .. L + 1, TuAbout(tuMsgs'[i])
                 PROVE  tuMsgs'[i][2] # TuIdle /\ tuMsgs'[i][2] \in TuBegun'
      OBVIOUS
    <3>1. CASE i = L + 1
      <4>1. tuMsgs'[i][2] = tuRunning
        BY <3>1, <1>1
      <4>2. tuRunning \in TuBegun'
        BY DEF TuScreen, TuNews
      <4> QED
        BY <4>1, <4>2
    <3>2. CASE i \in 1 .. L
      <4>1. tuMsgs'[i] = tuMsgs[i]
        BY <3>2, <1>1
      <4>2. tuMsgs[i][2] # TuIdle /\ tuMsgs[i][2] \in TuBegun /\ tuMsgs[i][2] \in Int
        BY <3>2, <4>1, <1>2, <1>4
      <4>3. tuMsgs[i][2] \in TuBegun'
        BY <4>2
      <4>4. tuMsgs'[i][2] = tuMsgs[i][2]
        BY <4>1
      <4> QED
        BY <4>2, <4>3, <4>4
    <3> QED
      BY <3>1, <3>2, <1>3
  <2> QED
    BY <2>1, <1>1 DEF TuNews, TuAbout
<1>7. TuAnnounced'
  <2> SUFFICES ASSUME NEW i \in 1 .. L + 1, tuMsgs'[i][1] = "started"
               PROVE  \E j \in 1 .. L + 1 :
                           i < j /\ tuMsgs'[j][1] \in TuEnds /\ tuMsgs'[j][2] = tuMsgs'[i][2]
    BY <1>1 DEF TuAnnounced, TuAbout
  <2>1. i \in 1 .. L
    BY <1>1, <1>3, <1>5
  <2>2. tuMsgs'[i] = tuMsgs[i] /\ tuMsgs[i][1] = "started"
    BY <2>1, <1>1
  <2>3. CASE tuMsgs[i][2] = tuRunning
    BY <2>1, <2>2, <2>3, <1>1, <1>3
  <2>4. CASE \E j \in 1 .. L : i < j /\ tuMsgs[j][1] \in TuEnds /\ tuMsgs[j][2] = tuMsgs[i][2]
    BY <2>2, <2>4, <1>1, <1>3
  <2> QED
    BY <2>1, <2>2, <2>3, <2>4 DEF TuScreen, TuAnnounced, L
<1>8. TuNotEnded'
  <2> SUFFICES ASSUME NEW i \in 1 .. L + 1, tuMsgs'[i][1] \in TuEnds
               PROVE  tuMsgs'[i][2] # TuIdle
    BY <1>1 DEF TuNotEnded
  <2>1. CASE i \in 1 .. L
    BY <2>1, <1>1, <1>4 DEF TuAbout
  <2>2. CASE i = L + 1
    BY <2>2, <1>1
  <2> QED
    BY <2>1, <2>2, <1>3
<1>9. TuLives'
  <2> SUFFICES ASSUME tuShown # TuIdle
               PROVE  \/ tuShown \in TuSent
                      \/ \E i \in 1 .. L + 1 : tuMsgs'[i][1] \in TuEnds /\ tuMsgs'[i][2] = tuShown
    BY <1>1 DEF TuLives
  <2> QED
    BY <1>1, <1>3 DEF TuScreen, TuLives, L
<1>10. TuCurrent'
  BY DEF TuCurrent
<1> QED
  BY <1>6, <1>7, <1>8, <1>9, <1>10 DEF TuScreen

(* ... or says something else, if anything.                                *)
LEMMA TuScreenNotice ==
  ASSUME TuTypes, TuScreen, TuTypes', tuRunning' = tuRunning, tuShown' = tuShown,
         NEW m, m \in TuSays \X Int, ~TuAbout(m), tuMsgs' = Append(tuMsgs, m),
         TuSent' = TuSent, TuBegun \subseteq TuBegun'
  PROVE  TuScreen'
<1> DEFINE L == Len(tuMsgs)
<1>1. /\ L \in Nat /\ Len(tuMsgs') = L + 1 /\ tuMsgs'[L + 1] = m
      /\ \A i \in 1 .. L : tuMsgs'[i] = tuMsgs[i]
  BY QueueAppend DEF TuTypes
<1>2. \A i \in 1 .. L : tuMsgs[i][2] \in Int
  <2>1. \A i \in 1 .. L : tuMsgs[i] \in TuSays \X Int
    BY ElementOfSeq DEF TuTypes
  <2> QED
    BY <2>1
<1>3. /\ \A i \in 1 .. L + 1 : i \in 1 .. L \/ i = L + 1
      /\ \A i \in 1 .. L : i \in 1 .. L + 1 /\ i < L + 1
  BY <1>1
<1> HIDE DEF L
<1>4. \A i \in 1 .. L : TuAbout(tuMsgs[i]) => tuMsgs[i][2] # TuIdle /\ tuMsgs[i][2] \in TuBegun
  BY DEF TuScreen, TuNews, L
<1>5. m[1] # "started" /\ m[1] \notin TuEnds /\ tuRunning \in Int
  BY DEF TuAbout, TuTypes
<1>6. TuNews'
  <2>1. \A i \in 1 .. L + 1 : TuAbout(tuMsgs'[i]) => tuMsgs'[i][2] # TuIdle /\ tuMsgs'[i][2] \in TuBegun'
    <3> SUFFICES ASSUME NEW i \in 1 .. L + 1, TuAbout(tuMsgs'[i])
                 PROVE  tuMsgs'[i][2] # TuIdle /\ tuMsgs'[i][2] \in TuBegun'
      OBVIOUS
    <3>2. i \in 1 .. L
      BY <1>1, <1>3
    <3>3. tuMsgs'[i] = tuMsgs[i]
      BY <3>2, <1>1
    <3>4. tuMsgs[i][2] # TuIdle /\ tuMsgs[i][2] \in TuBegun /\ tuMsgs[i][2] \in Int
      BY <3>2, <3>3, <1>2, <1>4
    <3>5. tuMsgs[i][2] \in TuBegun'
      BY <3>4
    <3>6. tuMsgs'[i][2] = tuMsgs[i][2]
      BY <3>3
    <3> QED
      BY <3>4, <3>5, <3>6
  <2>2. tuRunning # TuIdle => tuRunning \in TuBegun'
    BY <1>5 DEF TuScreen, TuNews
  <2> QED
    BY <2>1, <2>2, <1>1 DEF TuNews, TuAbout
<1>7. TuAnnounced'
  <2> SUFFICES ASSUME NEW i \in 1 .. L + 1, tuMsgs'[i][1] = "started"
               PROVE  \/ /\ tuMsgs'[i][2] = tuRunning
                         /\ \A j \in 1 .. L + 1 : i < j => ~TuAbout(tuMsgs'[j])
                      \/ \E j \in 1 .. L + 1 :
                           i < j /\ tuMsgs'[j][1] \in TuEnds /\ tuMsgs'[j][2] = tuMsgs'[i][2]
    BY <1>1 DEF TuAnnounced, TuAbout
  <2>1. i \in 1 .. L
    BY <1>1, <1>3, <1>5
  <2>2. tuMsgs'[i] = tuMsgs[i] /\ tuMsgs[i][1] = "started"
    BY <2>1, <1>1
  <2>3. CASE tuMsgs[i][2] = tuRunning /\ \A j \in 1 .. L : i < j => ~TuAbout(tuMsgs[j])
    BY <2>2, <2>3, <1>1, <1>3
  <2>4. CASE \E j \in 1 .. L : i < j /\ tuMsgs[j][1] \in TuEnds /\ tuMsgs[j][2] = tuMsgs[i][2]
    BY <2>2, <2>4, <1>1, <1>3
  <2> QED
    BY <2>1, <2>2, <2>3, <2>4 DEF TuScreen, TuAnnounced, L
<1>8. TuNotEnded'
  BY <1>1, <1>3, <1>5 DEF TuScreen, TuNotEnded, L
<1>9. TuLives'
  BY <1>1, <1>3 DEF TuScreen, TuLives, L
<1>10. TuCurrent'
  <2> SUFFICES ASSUME tuRunning # TuIdle
               PROVE  \/ \E i \in 1 .. L + 1 : tuMsgs'[i][1] = "started" /\ tuMsgs'[i][2] = tuRunning
                      \/ /\ \A i \in 1 .. L + 1 : ~TuAbout(tuMsgs'[i])
                         /\ tuShown = tuRunning \/ tuShown \in TuSent
    BY <1>1 DEF TuCurrent, TuAbout
  <2> QED
    BY <1>1, <1>3 DEF TuScreen, TuCurrent, L
<1> QED
  BY <1>6, <1>7, <1>8, <1>9, <1>10 DEF TuScreen

(* What the next prompt of a queue does once it is typed.                  *)
LEMMA TuSends ==
  ASSUME TuTypes, TuFifo, NEW n \in Nat, n > 0, \A m \in TuSent : m < n, TuStart(n),
         UNCHANGED <<tuWakeups, tuRan, tuRunning>>, tuMsgs' \in Seq(TuSays \X Int),
         tuModal' \in BOOLEAN
  PROVE  /\ TuTypes' /\ TuFifo' /\ TuSent' = TuSent \cup {n} /\ tuShown' = n
         /\ TuBegun \subseteq TuBegun'
<1> DEFINE c == TuRun(n)
<1>1. c \in {"run", "clear"} \X Int /\ c[1] = "run" /\ c[2] = n
  BY DEF TuRun
<1>2. tuCmds' = Append(tuCmds, c) /\ tuShown' = n
  BY DEF TuStart
<1> HIDE DEF c
<1>3. tuCmds' \in Seq({"run", "clear"} \X Int)
  BY <1>1, <1>2, QueueAppend DEF TuTypes
<1>4. TuTypes'
  BY <1>2, <1>3 DEF TuTypes
<1>5. tuWakeups' \in Nat /\ tuWakeups' >= tuWakeups
  BY DEF TuTypes
<1>6. c[1] = "run" => /\ c[2] # TuIdle /\ c[2] >= -tuWakeups'
                      /\ c[2] > 0 => \A m \in TuSent : m < c[2]
                      /\ c[2] < 0 => c[2] < -tuWakeups
  <2>1. n # TuIdle /\ n >= -tuWakeups' /\ ~(n < 0)
    BY <1>5 DEF TuIdle
  <2> QED
    BY <2>1, <1>1
<1>7. /\ TuFifo' /\ TuBegun \subseteq TuBegun'
      /\ TuSent' = IF c[1] = "run" /\ c[2] > 0 THEN TuSent \cup {c[2]} ELSE TuSent
  <2>1. tuRan' = tuRan
    OBVIOUS
  <2> QED
    BY ONLY <1>1, <1>2, <1>4, <1>5, <1>6, <2>1, TuTypes, TuFifo, TuCmdSent
<1> QED
  BY <1>1, <1>2, <1>4, <1>7

(* The commands, and so what is sent and begun, stay as they are.          *)
LEMMA TuCmdsSame ==
  ASSUME UNCHANGED <<tuCmds, tuWakeups, tuRan>>
  PROVE  /\ TuFifo => TuFifo'
         /\ TuSent' = TuSent /\ TuBegun' = TuBegun
BY DEF TuFifo, TuSent, TuBegun

(* The oldest prompt of queue q starts, if it can.                         *)
LEMMA TuStartNextKeeps ==
  ASSUME TuTypes, TuFifo, NEW q, NEW kind, NEW drop,
         TuLine(kind, q, TuSent, tuRan, drop), TuStartNext(q, kind),
         UNCHANGED <<tuWakeups, tuRan, tuRunning>>, tuMsgs' \in Seq(TuSays \X Int),
         tuModal' \in BOOLEAN
  PROVE  /\ TuTypes' /\ TuFifo' /\ TuLine(kind, tuQueue', TuSent', tuRan', drop)
         /\ TuSent \subseteq TuSent' /\ tuShown' \in TuSent' \cup {TuIdle}
         /\ TuBegun \subseteq TuBegun'
         /\ TuNextStarts(q, kind) \/ ~TuNextStarts(tuQueue', kind)
<1>1. CASE TuNextStarts(q, kind)
  <2>1. /\ TuLine(kind, Tail(q), TuSent \cup {Head(q)}, tuRan, drop)
        /\ Head(q) \in Nat /\ Head(q) > 0 /\ \A n \in TuSent : n < Head(q)
    BY <1>1, TuLineStarts
  <2>2. tuQueue' = Tail(q) /\ TuStart(Head(q))
    BY <1>1 DEF TuStartNext, TuLeft
  <2>3. /\ TuTypes' /\ TuFifo' /\ TuSent' = TuSent \cup {Head(q)} /\ tuShown' = Head(q)
        /\ TuBegun \subseteq TuBegun'
    <3> DEFINE h == Head(q)
    <3>1. h \in Nat /\ h > 0 /\ (\A n \in TuSent : n < h) /\ TuStart(h)
      BY <2>1, <2>2
    <3> HIDE DEF h
    <3>2. /\ TuTypes' /\ TuFifo' /\ TuSent' = TuSent \cup {h} /\ tuShown' = h
          /\ TuBegun \subseteq TuBegun'
      BY <3>1, TuSends
    <3> QED
      BY <3>2 DEF h
  <2> QED
    BY <1>1, <2>1, <2>2, <2>3
<1>2. CASE ~TuNextStarts(q, kind)
  <2>1. tuQueue' = q /\ tuShown' = TuIdle /\ tuCmds' = tuCmds
    BY <1>2 DEF TuStartNext, TuLeft
  <2>2. TuFifo' /\ TuSent' = TuSent /\ TuBegun' = TuBegun
    BY <2>1, TuCmdsSame
  <2>3. TuTypes'
    BY <2>1 DEF TuTypes, TuIdle
  <2> QED
    BY <1>2, <2>1, <2>2, <2>3
<1> QED
  BY <1>1, <1>2

LEMMA TuSubmitKeeps ==
  ASSUME TuInv, TuSubmit
  PROVE  TuInv'
<1> USE DEF TuInv
<1>0. /\ ~tuModal
      /\ UNCHANGED <<tuModal, tuMsgs, tuRunning, tuRan, tuWakeups>>
  BY DEF TuSubmit
<1>1. PICK k \in TuKinds :
       LET n == Len(tuKind) + 1
           kind == Append(tuKind, k)
       IN /\ tuKind' = kind
          /\ \/ /\ TuWaits /\ tuShown # TuIdle
                /\ tuQueue' = Append(tuQueue, n)
                /\ UNCHANGED <<tuCmds, tuShown, tuDropped>>
             \/ /\ TuWaits /\ tuShown = TuIdle
                /\ TuStartNext(Append(tuQueue, n), kind)
                /\ UNCHANGED tuDropped
             \/ /\ ~TuWaits /\ TuStarts(n, kind)
                /\ TuStart(n)
                /\ UNCHANGED <<tuQueue, tuDropped>>
             \/ /\ ~TuWaits /\ ~TuStarts(n, kind)
                /\ tuDropped' = tuDropped \union {n}
                /\ UNCHANGED <<tuQueue, tuCmds, tuShown>>
  BY DEF TuSubmit
<1> DEFINE n == Len(tuKind) + 1
           kind == Append(tuKind, k)
           q == Append(tuQueue, n)
<1>2. tuKind' = kind
  BY <1>1
<1>3. TuLine(kind, q, TuSent, tuRan, tuDropped)
  BY TuLineQueued DEF TuOrdered
<1>4. TuHeldBack' /\ tuModal' \in BOOLEAN /\ tuMsgs' \in Seq(TuSays \X Int)
  BY <1>0 DEF TuHeldBack, TuTypes
<1>5. CASE TuWaits /\ tuShown # TuIdle
  <2>1. tuQueue' = q /\ UNCHANGED <<tuCmds, tuShown, tuDropped>>
    BY <1>1, <1>5
  <2>2. TuFifo' /\ TuSent' = TuSent /\ TuBegun' = TuBegun
    BY <1>0, <2>1, TuCmdsSame
  <2>3. TuTypes' /\ TuOrdered'
    BY <1>0, <1>2, <1>3, <2>1, <2>2 DEF TuTypes, TuOrdered
  <2>4. TuScreen'
    BY <1>0, <2>1, <2>2, TuScreenSent
  <2> QED
    BY <1>4, <2>2, <2>3, <2>4
<1>6. CASE TuWaits /\ tuShown = TuIdle
  <2>1. TuStartNext(q, kind) /\ UNCHANGED tuDropped
    BY <1>1, <1>6
  <2>2. tuQueue # <<>>
    BY <1>6 DEF TuWaits
  <2> HIDE DEF q, kind, n
  <2>3. /\ TuTypes' /\ TuFifo' /\ TuLine(kind, tuQueue', TuSent', tuRan', tuDropped)
        /\ TuSent \subseteq TuSent' /\ tuShown' \in TuSent' \cup {TuIdle}
        /\ TuBegun \subseteq TuBegun'
    BY <1>0, <1>3, <1>4, <2>1, TuStartNextKeeps
  <2>4. TuOrdered'
    BY <1>2, <2>1, <2>3 DEF TuOrdered
  <2>5. tuShown' = tuShown \/ tuShown' \in TuSent'
    BY <1>6, <2>3
  <2>6. TuScreen'
    BY <1>0, <2>3, <2>5, TuScreenSent
  <2> QED
    BY <1>4, <2>3, <2>4, <2>6
<1>7. CASE ~TuWaits
  <2>1. ~TuNextStarts(tuQueue, tuKind)
    BY <1>7 DEF TuWaits, TuNextStarts
  <2>2. /\ TuLine(kind, tuQueue, TuSent \cup {n}, tuRan, tuDropped)
        /\ TuLine(kind, tuQueue, TuSent, tuRan, tuDropped \cup {n})
        /\ \A m \in TuSent : m < n
        /\ n \in Nat /\ n > 0
    BY <2>1, TuLineNew DEF TuOrdered
  <2>3. CASE TuStarts(n, kind)
    <3>1. TuStart(n) /\ UNCHANGED <<tuQueue, tuDropped>>
      BY <1>1, <1>7, <2>3
    <3> HIDE DEF q, kind, n
    <3>2. /\ TuTypes' /\ TuFifo' /\ TuSent' = TuSent \cup {n} /\ tuShown' = n
          /\ TuBegun \subseteq TuBegun'
      BY <1>0, <1>4, <2>2, <3>1, TuSends
    <3>3. TuOrdered'
      BY <1>0, <1>2, <2>2, <3>1, <3>2 DEF TuOrdered
    <3>4. TuScreen'
      BY <1>0, <3>2, TuScreenSent
    <3> QED
      BY <1>4, <3>2, <3>3, <3>4
  <2>4. CASE ~TuStarts(n, kind)
    <3>1. tuDropped' = tuDropped \cup {n} /\ UNCHANGED <<tuQueue, tuCmds, tuShown>>
      BY <1>1, <1>7, <2>4
    <3>2. TuFifo' /\ TuSent' = TuSent /\ TuBegun' = TuBegun
      BY <1>0, <3>1, TuCmdsSame
    <3>3. TuTypes' /\ TuOrdered'
      BY <1>0, <1>2, <2>2, <3>1, <3>2 DEF TuTypes, TuOrdered
    <3>4. TuScreen'
      BY <1>0, <3>1, <3>2, TuScreenSent
    <3> QED
      BY <1>4, <3>2, <3>3, <3>4
  <2> QED
    BY <2>3, <2>4
<1> QED
  BY <1>5, <1>6, <1>7

LEMMA TuEnterKeeps ==
  ASSUME TuInv, TuEnter
  PROVE  TuInv'
<1> USE DEF TuInv
<1>0. /\ ~tuModal /\ TuNextStarts(tuQueue, tuKind)
      /\ TuStart(Head(tuQueue)) /\ tuQueue' = TuLeft(tuQueue, tuKind)
      /\ UNCHANGED <<tuKind, tuModal, tuMsgs, tuRunning, tuRan, tuDropped, tuWakeups>>
  BY DEF TuEnter
<1>1. TuStartNext(tuQueue, tuKind)
  BY <1>0 DEF TuStartNext
<1>2. TuHeldBack' /\ tuModal' \in BOOLEAN /\ tuMsgs' \in Seq(TuSays \X Int)
  BY <1>0 DEF TuHeldBack, TuTypes
<1>3. /\ TuTypes' /\ TuFifo' /\ TuLine(tuKind, tuQueue', TuSent', tuRan', tuDropped)
      /\ TuSent \subseteq TuSent' /\ tuShown' \in TuSent' \cup {TuIdle}
      /\ TuBegun \subseteq TuBegun'
  BY <1>0, <1>1, <1>2, TuStartNextKeeps DEF TuOrdered
<1>4. TuOrdered'
  BY <1>0, <1>3 DEF TuOrdered
<1>5. tuShown' # TuIdle
  <2>1. tuShown' = Head(tuQueue)
    BY <1>0 DEF TuStart
  <2>2. Head(tuQueue) > 0
    BY <1>0, TuLineStarts DEF TuOrdered
  <2> QED
    BY <2>1, <2>2 DEF TuIdle
<1>6. TuScreen'
  BY <1>0, <1>3, <1>5, TuScreenSent
<1> QED
  BY <1>2, <1>3, <1>4, <1>6

(* /queue clear, /clear and Esc.                                           *)
LEMMA TuUiKeeps ==
  ASSUME TuInv, TuQueueClear \/ TuClear \/ TuEsc
  PROVE  TuInv'
<1> USE DEF TuInv
<1>1. CASE TuQueueClear
  <2>1. /\ tuQueue' = <<>> /\ tuDropped' = tuDropped \cup ToSet(tuQueue)
        /\ UNCHANGED <<tuKind, tuShown, tuModal, tuCmds, tuMsgs, tuRunning, tuRan, tuWakeups>>
    BY <1>1 DEF TuQueueClear
  <2>2. TuFifo' /\ TuSent' = TuSent /\ TuBegun' = TuBegun
    BY <2>1, TuCmdsSame
  <2>3. /\ TuLine(tuKind, <<>>, TuSent, tuRan, tuDropped \cup ToSet(tuQueue))
        /\ ~TuNextStarts(<<>>, tuKind)
    BY TuLineCleared DEF TuOrdered
  <2>4. TuTypes' /\ TuOrdered' /\ TuHeldBack'
    BY <2>1, <2>2, <2>3 DEF TuTypes, TuOrdered, TuHeldBack
  <2>5. TuScreen'
    BY <2>1, <2>2, TuScreenSent
  <2> QED
    BY <2>2, <2>4, <2>5
<1>2. CASE TuClear
  <2> DEFINE c == TuClearCmd
  <2>0. c \in {"run", "clear"} \X Int /\ c[1] # "run"
    BY DEF TuClearCmd
  <2>1. /\ tuCmds' = Append(tuCmds, c)
        /\ UNCHANGED <<tuKind, tuQueue, tuShown, tuModal, tuMsgs, tuRunning, tuRan, tuDropped, tuWakeups>>
    BY <1>2 DEF TuClear
  <2> HIDE DEF c
  <2>2. tuCmds' \in Seq({"run", "clear"} \X Int)
    BY <2>0, <2>1, QueueAppend DEF TuTypes
  <2>3. TuTypes' /\ tuWakeups' \in Nat /\ tuWakeups' >= tuWakeups
    BY <2>1, <2>2 DEF TuTypes
  <2>4. TuFifo' /\ TuSent' = TuSent /\ TuBegun \subseteq TuBegun'
    <3>1. tuRan' = tuRan /\ tuCmds' = Append(tuCmds, c)
      BY <2>1
    <3>2. c[1] = "run" => /\ c[2] # TuIdle /\ c[2] >= -tuWakeups'
                          /\ c[2] > 0 => \A m \in TuSent : m < c[2]
                          /\ c[2] < 0 => c[2] < -tuWakeups
      BY <2>0
    <3>3. /\ TuFifo' /\ TuBegun \subseteq TuBegun'
          /\ TuSent' = IF c[1] = "run" /\ c[2] > 0 THEN TuSent \cup {c[2]} ELSE TuSent
      BY ONLY <2>0, <2>3, <3>1, <3>2, TuInv, TuCmdSent DEF TuInv
    <3> QED
      BY <2>0, <3>3
  <2>5. TuOrdered' /\ TuHeldBack'
    BY <2>1, <2>4 DEF TuOrdered, TuHeldBack
  <2>6. TuScreen'
    BY <2>1, <2>4, TuScreenSent
  <2> QED
    BY <2>3, <2>4, <2>5, <2>6
<1>3. CASE TuEsc
  <2>1. UNCHANGED <<tuKind, tuQueue, tuShown, tuModal, tuCmds, tuMsgs, tuRunning, tuRan, tuDropped,
                    tuWakeups>>
    BY <1>3 DEF TuEsc
  <2>2. TuFifo' /\ TuSent' = TuSent /\ TuBegun' = TuBegun
    BY <2>1, TuCmdsSame
  <2>3. TuTypes' /\ TuOrdered' /\ TuHeldBack'
    BY <2>1, <2>2 DEF TuTypes, TuOrdered, TuHeldBack
  <2>4. TuScreen'
    BY <2>1, <2>2, TuScreenSent
  <2> QED
    BY <2>2, <2>3, <2>4
<1> QED
  BY <1>1, <1>2, <1>3

LEMMA TuDecidePlanKeeps ==
  ASSUME TuInv, TuDecidePlan
  PROVE  TuInv'
<1> USE DEF TuInv
<1>0. /\ tuModal /\ tuModal' = FALSE
      /\ UNCHANGED <<tuQueue, tuMsgs, tuRunning, tuRan, tuDropped, tuWakeups>>
      /\ \/ tuKind' = Append(tuKind, "prompt") /\ TuStart(Len(tuKind) + 1)
         \/ UNCHANGED <<tuKind, tuCmds, tuShown>>
  BY DEF TuDecidePlan
<1>1. TuHeldBack' /\ tuModal' \in BOOLEAN /\ tuMsgs' \in Seq(TuSays \X Int)
  BY <1>0 DEF TuHeldBack, TuTypes
<1>2. CASE tuKind' = Append(tuKind, "prompt") /\ TuStart(Len(tuKind) + 1)
  <2> DEFINE n == Len(tuKind) + 1
             kind == Append(tuKind, "prompt")
  <2>1. ~TuNextStarts(tuQueue, tuKind)
    BY <1>0 DEF TuHeldBack
  <2>2. "prompt" \in TuKinds
    BY DEF TuKinds
  <2>3. /\ TuLine(kind, tuQueue, TuSent \cup {n}, tuRan, tuDropped)
        /\ \A m \in TuSent : m < n
        /\ n \in Nat /\ n > 0
    BY <2>1, <2>2, TuLineNew DEF TuOrdered
  <2>4. tuKind' = kind /\ TuStart(n)
    BY <1>2
  <2> HIDE DEF n, kind
  <2>5. /\ TuTypes' /\ TuFifo' /\ TuSent' = TuSent \cup {n} /\ tuShown' = n
        /\ TuBegun \subseteq TuBegun'
    BY <1>0, <1>1, <2>3, <2>4, TuSends
  <2>6. TuOrdered'
    BY <1>0, <2>3, <2>4, <2>5 DEF TuOrdered
  <2>7. TuScreen'
    BY <1>0, <2>5, TuScreenSent
  <2> QED
    BY <1>1, <2>5, <2>6, <2>7
<1>3. CASE UNCHANGED <<tuKind, tuCmds, tuShown>>
  <2>1. TuFifo' /\ TuSent' = TuSent /\ TuBegun' = TuBegun
    BY <1>0, <1>3, TuCmdsSame
  <2>2. TuTypes' /\ TuOrdered'
    BY <1>0, <1>3, <2>1 DEF TuTypes, TuOrdered
  <2>3. TuScreen'
    BY <1>0, <1>3, <2>1, TuScreenSent
  <2> QED
    BY <1>1, <2>1, <2>2, <2>3
<1> QED
  BY <1>0, <1>2, <1>3

LEMMA TuHandleKeeps ==
  ASSUME TuInv, TuHandle
  PROVE  TuInv'
<1> USE DEF TuInv
<1> DEFINE m == Head(tuMsgs)
<1>0. /\ tuMsgs # <<>> /\ tuMsgs' = Tail(tuMsgs)
      /\ UNCHANGED <<tuKind, tuRunning, tuRan, tuWakeups>>
      /\ \/ /\ m[1] = "started" /\ tuShown' = m[2]
            /\ UNCHANGED <<tuQueue, tuModal, tuCmds, tuDropped>>
         \/ /\ m[1] = "cleared" /\ tuQueue' = <<>>
            /\ tuDropped' = tuDropped \union ToSet(tuQueue)
            /\ UNCHANGED <<tuShown, tuModal, tuCmds>>
         \/ /\ m[1] \in TuEnds /\ tuShown = m[2]
            /\ TuFinishShown(m[1])
            /\ UNCHANGED tuDropped
         \/ /\ \/ m[1] \in TuEnds /\ tuShown # m[2]
               \/ m[1] = "notice"
            /\ UNCHANGED <<tuShown, tuQueue, tuModal, tuCmds, tuDropped>>
  BY DEF TuHandle, TuEnds
<1>1. /\ Tail(tuMsgs) \in Seq(TuSays \X Int) /\ m \in TuSays \X Int
  BY <1>0, QueueTail DEF TuTypes
<1>2. m[1] \in TuSays /\ m[2] \in Int
  BY <1>1
<1> HIDE DEF m
<1>3. tuMsgs' \in Seq(TuSays \X Int)
  BY <1>0, <1>1
<1>4. CASE UNCHANGED <<tuCmds, tuModal>> /\ ~(m[1] \in TuEnds /\ tuShown = m[2])
  <2>1. TuFifo' /\ TuSent' = TuSent /\ TuBegun' = TuBegun
    BY <1>0, <1>4, TuCmdsSame
  <2>2. tuShown' \in Int
    BY <1>0, <1>2, <1>4 DEF TuTypes
  <2>3. TuTypes'
    BY <1>0, <1>3, <1>4, <2>2 DEF TuTypes
  <2>4. TuScreen'
    <3>1. \/ m[1] = "started" /\ tuShown' = m[2]
          \/ m[1] \in TuEnds /\ tuShown = m[2] /\ tuShown' \in TuSent' \cup {TuIdle}
          \/ m[1] \in TuEnds /\ tuShown # m[2] /\ tuShown' = tuShown
          \/ ~TuAbout(m) /\ tuShown' = tuShown
      BY <1>0, <1>4 DEF TuAbout, TuEnds
    <3> QED
      BY <1>0, <2>1, <3>1, TuScreenHeard DEF m
  <2>5. TuOrdered' /\ TuHeldBack'
    <3>1. CASE UNCHANGED <<tuQueue, tuDropped>>
      BY <1>0, <1>4, <2>1, <3>1 DEF TuOrdered, TuHeldBack
    <3>2. CASE tuQueue' = <<>> /\ tuDropped' = tuDropped \union ToSet(tuQueue)
      <4>1. /\ TuLine(tuKind, <<>>, TuSent, tuRan, tuDropped \cup ToSet(tuQueue))
            /\ ~TuNextStarts(<<>>, tuKind)
        BY TuLineCleared DEF TuOrdered
      <4> QED
        BY <1>0, <1>4, <2>1, <3>2, <4>1 DEF TuOrdered, TuHeldBack
    <3> QED
      BY <1>0, <1>4, <3>1, <3>2
  <2> QED
    BY <2>1, <2>3, <2>4, <2>5
<1>5. CASE /\ m[1] \in TuEnds /\ tuShown = m[2]
           /\ TuFinishShown(m[1])
           /\ UNCHANGED tuDropped
  <2>1. tuModal' \in BOOLEAN
    BY <1>5 DEF TuFinishShown, TuAsksPlan
  <2>2. CASE m[1] = "failed"
    <3>1. tuShown' = TuIdle /\ UNCHANGED <<tuQueue, tuCmds>> /\ tuModal' = FALSE
      BY <1>5, <2>2 DEF TuFinishShown
    <3>2. TuFifo' /\ TuSent' = TuSent /\ TuBegun' = TuBegun
      BY <1>0, <3>1, TuCmdsSame
    <3>3. TuTypes'
      <4>1. UNCHANGED <<tuRunning, tuWakeups, tuCmds>>
        BY <1>0, <3>1
      <4>2. TuIdle \in Int /\ FALSE \in BOOLEAN
        BY DEF TuIdle
      <4> QED
        BY <1>3, <3>1, <4>1, <4>2 DEF TuTypes
    <3>5. TuOrdered' /\ TuHeldBack'
      BY <1>0, <1>5, <3>1, <3>2 DEF TuOrdered, TuHeldBack
    <3>4. TuScreen'
      BY <1>0, <1>5, <3>1, <3>2, TuScreenHeard DEF m
    <3> QED
      BY <3>2, <3>3, <3>4, <3>5
  <2>3. CASE m[1] # "failed"
    <3>1. TuStartNext(tuQueue, tuKind)
      BY <1>5, <2>3 DEF TuFinishShown
    <3>2. tuModal' => ~TuNextStarts(tuQueue, tuKind)
      BY <1>5 DEF TuFinishShown
    <3>3. /\ TuTypes' /\ TuFifo' /\ TuLine(tuKind, tuQueue', TuSent', tuRan', tuDropped)
          /\ TuSent \subseteq TuSent' /\ tuShown' \in TuSent' \cup {TuIdle}
          /\ TuBegun \subseteq TuBegun'
          /\ TuNextStarts(tuQueue, tuKind) \/ ~TuNextStarts(tuQueue', tuKind)
      BY <1>0, <1>3, <2>1, <3>1, TuStartNextKeeps DEF TuOrdered
    <3>4. TuOrdered' /\ TuHeldBack'
      BY <1>0, <1>5, <3>2, <3>3 DEF TuOrdered, TuHeldBack
    <3>5. TuScreen'
      BY <1>0, <1>5, <3>3, TuScreenHeard DEF m
    <3> QED
      BY <3>3, <3>4, <3>5
  <2> QED
    BY <2>2, <2>3
<1> QED
  BY <1>0, <1>4, <1>5 DEF TuEnds

LEMMA TuWakeupKeeps ==
  ASSUME TuInv, TuWakeup
  PROVE  TuInv'
<1> USE DEF TuInv
<1>1. tuWakeups \in Nat /\ -(tuWakeups + 1) \in Int
  BY DEF TuTypes
<1>2. PICK c \in {"run", "clear"} \X Int : c = TuRun(-(tuWakeups + 1))
  BY <1>1 DEF TuRun
<1>10. c[1] = "run" /\ c[2] = -(tuWakeups + 1) /\ c \in {"run", "clear"} \X Int
  BY <1>2 DEF TuRun
<1>0. /\ tuWakeups' = tuWakeups + 1 /\ tuCmds' = Append(tuCmds, c)
      /\ UNCHANGED <<tuKind, tuQueue, tuShown, tuModal, tuMsgs, tuRunning, tuRan, tuDropped>>
  BY <1>2 DEF TuWakeup
<1>3. tuCmds' \in Seq({"run", "clear"} \X Int)
  BY <1>0, <1>10, QueueAppend DEF TuTypes
<1>4. tuWakeups' \in Nat /\ tuWakeups' >= tuWakeups
  BY <1>0, <1>1
<1>5. TuTypes'
  BY <1>0, <1>3, <1>4 DEF TuTypes
<1>6. c[2] # TuIdle /\ c[2] >= -tuWakeups' /\ ~(c[2] > 0) /\ c[2] < -tuWakeups
  BY <1>0, <1>1, <1>10 DEF TuIdle
<1>7. TuFifo' /\ TuSent' = TuSent /\ TuBegun \subseteq TuBegun'
  <2>1. tuRan' = tuRan /\ tuCmds' = Append(tuCmds, c)
    BY <1>0
  <2>2. c[1] = "run" => /\ c[2] # TuIdle /\ c[2] >= -tuWakeups'
                        /\ c[2] > 0 => \A m \in TuSent : m < c[2]
                        /\ c[2] < 0 => c[2] < -tuWakeups
    BY <1>6
  <2>3. /\ TuFifo' /\ TuBegun \subseteq TuBegun'
        /\ TuSent' = IF c[1] = "run" /\ c[2] > 0 THEN TuSent \cup {c[2]} ELSE TuSent
    <3>1. TuTypes /\ TuFifo /\ c \in {"run", "clear"} \X Int
      BY <1>10
    <3> QED
      BY ONLY <3>1, <1>4, <1>5, <2>1, <2>2, TuCmdSent
  <2> QED
    BY <1>6, <2>3
<1>8. TuOrdered' /\ TuHeldBack'
  BY <1>0, <1>7 DEF TuOrdered, TuHeldBack
<1>9. TuScreen'
  BY <1>0, <1>7, TuScreenSent
<1> QED
  BY <1>5, <1>7, <1>8, <1>9

LEMMA TuTakeKeeps ==
  ASSUME TuInv, TuTake
  PROVE  TuInv'
<1> USE DEF TuInv
<1>7. PICK c : c = Head(tuCmds)
  OBVIOUS
<1>0. /\ tuRunning = TuIdle /\ tuCmds # <<>> /\ tuCmds' = Tail(tuCmds)
      /\ UNCHANGED <<tuKind, tuQueue, tuShown, tuModal, tuDropped, tuWakeups>>
      /\ \/ /\ c[1] = "run" /\ tuRunning' = c[2]
            /\ tuRan' = IF c[2] > 0 THEN Append(tuRan, c[2]) ELSE tuRan
            /\ tuMsgs' = Append(tuMsgs, TuStarted(c[2]))
         \/ /\ c[1] = "run" /\ c[2] < 0
            /\ UNCHANGED <<tuRunning, tuRan, tuMsgs>>
         \/ /\ c = TuClearCmd
            /\ \E m \in {TuCleared, TuNotice} : tuMsgs' = Append(tuMsgs, m)
            /\ UNCHANGED <<tuRunning, tuRan>>
  BY <1>7 DEF TuTake, TuAnnounces
<1>1. Tail(tuCmds) \in Seq({"run", "clear"} \X Int) /\ c \in {"run", "clear"} \X Int
  BY <1>0, <1>7, QueueTail DEF TuTypes
<1>2. c[1] \in {"run", "clear"} /\ c[2] \in Int /\ (c = TuClearCmd => c[1] = "clear")
  BY <1>1 DEF TuClearCmd
<1>3. ASSUME TuTypes'
      PROVE  /\ TuFifo'
             /\ TuSent' = IF c[1] = "run" /\ c[2] > 0 THEN TuSent \ {c[2]} ELSE TuSent
             /\ c[1] = "run" /\ c[2] > 0 => c[2] \in TuSent /\ \A n \in TuSent' : c[2] < n
             /\ c[1] = "run" => c[2] # TuIdle /\ c[2] >= -tuWakeups
             /\ c[1] = "run" /\ c[2] < 0 => \A i \in 1 .. Len(tuCmds') :
                  tuCmds'[i][1] = "run" /\ tuCmds'[i][2] < 0 => tuCmds'[i][2] < c[2]
             /\ ToSet(tuRan) \subseteq ToSet(tuRan') => TuBegun \subseteq TuBegun'
  BY <1>0, <1>3, <1>7, TuCmdTaken
<1>4. CASE /\ c[1] = "run" /\ tuRunning' = c[2]
           /\ tuRan' = IF c[2] > 0 THEN Append(tuRan, c[2]) ELSE tuRan
           /\ tuMsgs' = Append(tuMsgs, TuStarted(c[2]))
  <2>0. PICK n : n = c[2]
    OBVIOUS
  <2> DEFINE m == TuStarted(n)
  <2>1. m \in TuSays \X Int /\ m[1] = "started" /\ m[2] = n
    BY <1>2, <2>0 DEF TuStarted, TuSays
  <2>2. tuMsgs' = Append(tuMsgs, m)
    BY <1>4, <2>0
  <2> HIDE DEF m
  <2>3. tuMsgs' \in Seq(TuSays \X Int)
    BY <2>1, <2>2, QueueAppend DEF TuTypes
  <2>4. TuTypes'
    BY <1>0, <1>1, <1>2, <1>4, <2>3 DEF TuTypes
  <2>5. /\ TuFifo' /\ n # TuIdle /\ n >= -tuWakeups
        /\ TuSent' = IF n > 0 THEN TuSent \ {n} ELSE TuSent
        /\ n > 0 => n \in TuSent /\ \A k \in TuSent' : n < k
        /\ n < 0 => \A i \in 1 .. Len(tuCmds') :
                 tuCmds'[i][1] = "run" /\ tuCmds'[i][2] < 0 => tuCmds'[i][2] < n
        /\ ToSet(tuRan) \subseteq ToSet(tuRan') => TuBegun \subseteq TuBegun'
    BY <1>3, <1>4, <2>0, <2>4
  <2>6. n \in Int /\ TuSent \subseteq Nat
    BY <1>2, <2>0, TuSentIs
  <2>7. TuSent' = TuSent \ {n}
    <3>1. ~(n > 0) => n \notin TuSent
      <4>1. ASSUME n \in TuSent PROVE n > 0
        BY <4>1, TuSentIs
      <4> QED
        BY <4>1
    <3> QED
      BY <2>5, <3>1
  <2>8. TuOrdered' /\ (n > 0 => ToSet(tuRan') = ToSet(tuRan) \cup {n})
    <3>1. CASE n > 0
      <4>1. n \in TuSent /\ n \in Nat /\ \A k \in TuSent \ {n} : n < k
        BY <2>5, <2>6, <2>7, <3>1
      <4>2. /\ TuLine(tuKind, tuQueue, TuSent \ {n}, Append(tuRan, n), tuDropped)
            /\ ToSet(Append(tuRan, n)) = ToSet(tuRan) \cup {n}
        <5>1. TuLine(tuKind, tuQueue, TuSent, tuRan, tuDropped)
          BY DEF TuOrdered
        <5>2. TuFirst(n, TuSent)
          BY <4>1 DEF TuFirst
        <5>3. TuLine(tuKind, tuQueue, TuSent \ {n}, Append(tuRan, n), tuDropped)
          BY ONLY <5>1, <5>2, TuLineBegun
        <5>4. ToSet(Append(tuRan, n)) = ToSet(tuRan) \cup {n}
          <6>1. tuRan \in Seq(Nat) /\ n \in Nat
            BY <4>1 DEF TuOrdered, TuLine
          <6> QED
            BY ONLY <6>1, ToSetAppend
        <5> QED
          BY <5>3, <5>4
      <4> QED
        BY <1>0, <1>4, <2>0, <2>7, <3>1, <4>2 DEF TuOrdered
    <3>2. CASE ~(n > 0)
      <4>1. TuSent' = TuSent /\ tuRan' = tuRan
        BY <1>4, <2>0, <2>5, <3>2
      <4> QED
        BY <1>0, <3>2, <4>1 DEF TuOrdered
    <3> QED
      BY <3>1, <3>2
  <2>9. TuHeldBack'
    BY <1>0 DEF TuHeldBack
  <2>10. TuBegun \subseteq TuBegun'
    <3>1. ToSet(tuRan) \subseteq ToSet(tuRan')
      <4>1. CASE n > 0
        BY <2>8, <4>1
      <4>2. CASE ~(n > 0)
        BY <1>4, <2>0, <4>2
      <4> QED
        BY <4>1, <4>2
    <3> QED
      BY <2>5, <3>1
  <2>11. n \in TuBegun'
    <3>1. n < 0 => n >= -tuWakeups'
      BY <1>0, <2>5
    <3>2. n > 0 => n \in ToSet(tuRan')
      BY <2>8
    <3> QED
      BY <2>5, <2>6, <3>1, <3>2 DEF TuBegun
  <2>12. n \notin TuBegun
    <3>1. CASE n > 0
      <4>1. n \in TuSent
        BY <2>5, <3>1
      <4>2. TuSent \cap ToSet(tuRan) = {}
        BY DEF TuOrdered, TuLine
      <4> QED
        BY <3>1, <4>1, <4>2 DEF TuBegun
    <3>2. CASE n < 0
      <4>1. c = tuCmds[1] /\ 1 \in 1 .. Len(tuCmds)
        <5>1. c = tuCmds[1] /\ Len(tuCmds) \in Nat /\ Len(tuCmds) >= 1
          BY <1>0, <1>7, QueueTail DEF TuTypes
        <5> QED
          BY <5>1
      <4>2. ~(n < n)
        BY <2>6
      <4> QED
        BY <1>4, <2>0, <3>2, <4>1, <4>2 DEF TuBegun
    <3> QED
      BY <3>1, <3>2, <2>5, <2>6 DEF TuIdle
  <2>13. TuScreen'
    <3>1. /\ tuRunning = TuIdle /\ n \in Int /\ n # TuIdle
          /\ tuRunning' = n /\ tuShown' = tuShown
      BY <1>0, <1>4, <2>0, <2>5, <2>6
    <3> QED
      BY ONLY TuInv, <2>1, <2>2, <2>4, <2>7, <2>10, <2>11, <2>12, <3>1, TuScreenBegun DEF TuInv
  <2> QED
    BY <2>4, <2>5, <2>8, <2>9, <2>13
<1>5. CASE /\ c[1] = "run" /\ c[2] < 0
           /\ UNCHANGED <<tuRunning, tuRan, tuMsgs>>
  <2>1. TuTypes'
    BY <1>0, <1>1, <1>5 DEF TuTypes
  <2>2. TuFifo' /\ TuSent' = TuSent /\ TuBegun \subseteq TuBegun'
    <3>1. ~(c[2] > 0)
      BY <1>2, <1>5
    <3> QED
      BY <1>3, <1>5, <2>1, <3>1
  <2>3. TuOrdered' /\ TuHeldBack'
    BY <1>0, <1>5, <2>2 DEF TuOrdered, TuHeldBack
  <2>4. TuScreen'
    BY <1>0, <1>5, <2>2, TuScreenSent
  <2> QED
    BY <2>1, <2>2, <2>3, <2>4
<1>6. CASE /\ c = TuClearCmd
           /\ \E m \in {TuCleared, TuNotice} : tuMsgs' = Append(tuMsgs, m)
           /\ UNCHANGED <<tuRunning, tuRan>>
  <2>0. PICK m \in {TuCleared, TuNotice} : tuMsgs' = Append(tuMsgs, m)
    BY <1>6
  <2>1. m \in TuSays \X Int /\ ~TuAbout(m)
    BY DEF TuCleared, TuNotice, TuSays, TuAbout, TuEnds
  <2>2. tuMsgs' \in Seq(TuSays \X Int)
    BY <2>0, <2>1, QueueAppend DEF TuTypes
  <2>3. TuTypes'
    BY <1>0, <1>1, <1>6, <2>2 DEF TuTypes
  <2>4. TuFifo' /\ TuSent' = TuSent /\ TuBegun \subseteq TuBegun'
    BY <1>2, <1>3, <1>6, <2>3
  <2>5. TuOrdered' /\ TuHeldBack'
    BY <1>0, <1>6, <2>4 DEF TuOrdered, TuHeldBack
  <2>6. TuScreen'
    <3>1. tuRunning' = tuRunning /\ tuShown' = tuShown
      BY <1>0, <1>6
    <3> QED
      BY ONLY TuInv, <2>0, <2>1, <2>3, <2>4, <3>1, TuScreenNotice DEF TuInv
  <2> QED
    BY <2>3, <2>4, <2>5, <2>6
<1> QED
  BY <1>0, <1>4, <1>5, <1>6

LEMMA TuFinishKeeps ==
  ASSUME TuInv, TuFinish
  PROVE  TuInv'
<1> USE DEF TuInv
<1>0. /\ tuRunning # TuIdle /\ tuRunning' = TuIdle
      /\ UNCHANGED <<tuKind, tuQueue, tuShown, tuModal, tuCmds, tuRan, tuDropped, tuWakeups>>
      /\ \E ok \in BOOLEAN : \/ tuMsgs' = Append(tuMsgs, TuShellDone(tuRunning))
                             \/ tuMsgs' = Append(tuMsgs, TuDone(tuRunning, ok))
  BY DEF TuFinish
<1>1. PICK m : tuMsgs' = Append(tuMsgs, m) /\ \E ok \in BOOLEAN : m = TuShellDone(tuRunning) \/ m = TuDone(tuRunning, ok)
  BY <1>0
<1>2. tuRunning \in Int
  BY DEF TuTypes
<1>3. m \in TuSays \X Int /\ m[1] \in TuEnds /\ m[2] = tuRunning
  BY <1>1, <1>2 DEF TuShellDone, TuDone, TuSays, TuEnds
<1>4. tuMsgs' \in Seq(TuSays \X Int)
  BY <1>1, <1>3, QueueAppend DEF TuTypes
<1>5. TuTypes'
  BY <1>0, <1>4 DEF TuTypes, TuIdle
<1>6. TuFifo' /\ TuSent' = TuSent /\ TuBegun' = TuBegun
  BY <1>0, TuCmdsSame
<1>7. TuOrdered' /\ TuHeldBack'
  BY <1>0, <1>6 DEF TuOrdered, TuHeldBack
<1>8. TuScreen'
  <2>1. /\ tuRunning # TuIdle /\ tuRunning' = TuIdle /\ tuShown' = tuShown
        /\ tuMsgs' = Append(tuMsgs, m) /\ TuBegun \subseteq TuBegun'
    BY <1>0, <1>1, <1>6
  <2> QED
    BY ONLY TuInv, <2>1, <1>3, <1>5, <1>6, TuScreenEnded DEF TuInv
<1> QED
  BY <1>5, <1>6, <1>7, <1>8

LEMMA TuInitInv == TuInit => TuInv
<1> SUFFICES ASSUME TuInit PROVE TuInv
  OBVIOUS
<1>0. /\ Len(tuCmds) = 0 /\ Len(tuMsgs) = 0 /\ 1 .. 0 = {}
      /\ tuShown = TuIdle /\ tuRunning = TuIdle /\ tuModal = FALSE /\ tuWakeups = 0
  BY DEF TuInit
<1>1. TuTypes /\ TuHeldBack
  <2>1. tuCmds \in Seq({"run", "clear"} \X Int) /\ tuMsgs \in Seq(TuSays \X Int)
    <3>1. tuCmds = <<>> /\ tuMsgs = <<>>
      BY DEF TuInit
    <3> QED
      BY <3>1, QueueNone
  <2>2. tuShown \in Int /\ tuRunning \in Int /\ tuModal \in BOOLEAN /\ tuWakeups \in Nat
    <3>1. tuModal \in BOOLEAN
      BY DEF TuInit
    <3>2. tuShown \in Int /\ tuRunning \in Int /\ tuWakeups \in Nat
      BY DEF TuInit, TuIdle
    <3> QED
      BY <3>1, <3>2
  <2> QED
    BY <1>0, <2>1, <2>2 DEF TuTypes, TuHeldBack
<1>5. TuFifo
  BY <1>0 DEF TuFifo
<1>6. TuScreen
  BY <1>0 DEF TuScreen, TuNews, TuAnnounced, TuNotEnded, TuLives, TuCurrent
<1>2. ToSet(<<>>) = {} /\ Len(<<>>) = 0 /\ <<>> \in Seq(TuKinds) /\ <<>> \in Seq(Nat)
  BY DEF ToSet
<1>3. TuSent = {}
  BY <1>2 DEF TuInit, TuSent
<1>4. TuOrdered
  BY <1>2, <1>3 DEF TuInit, TuOrdered, TuLine, TuNextStarts
<1> QED
  BY <1>1, <1>4, <1>5, <1>6 DEF TuInv

LEMMA TuInvSafe == TuInv => TuSafe
<1> SUFFICES ASSUME TuInv PROVE TuSafe
  OBVIOUS
<1> USE DEF TuInv
<1>1. /\ TuTypes /\ TuLine(tuKind, tuQueue, TuSent, tuRan, tuDropped)
      /\ tuQueue \in Seq(Nat) /\ tuKind \in Seq(TuKinds)
  BY DEF TuOrdered, TuLine
<1>2. TuInOrder
  BY <1>1 DEF TuLine, TuInOrder
<1>3. IsInjective(tuQueue)
  <2>1. /\ DOMAIN tuQueue = 1 .. Len(tuQueue) /\ Len(tuQueue) \in Nat
        /\ \A i \in 1 .. Len(tuQueue) : tuQueue[i] \in Nat
    BY <1>1, LenProperties, ElementOfSeq
  <2>2. \A i, j \in 1 .. Len(tuQueue) : i < j => tuQueue[i] < tuQueue[j]
    BY <1>1 DEF TuLine
  <2>3. ASSUME NEW i \in 1 .. Len(tuQueue), NEW j \in 1 .. Len(tuQueue), tuQueue[i] = tuQueue[j]
        PROVE  i = j
    <3>1. ~(i < j) /\ ~(j < i)
      BY <2>1, <2>2, <2>3
    <3> QED
      BY <3>1, <2>1
  <2> QED
    BY <2>1, <2>3 DEF IsInjective
<1>4. TuNoneLost
  <2>1. /\ ToSet(tuQueue) \cap TuSent = {} /\ ToSet(tuQueue) \cap ToSet(tuRan) = {}
        /\ ToSet(tuQueue) \cap tuDropped = {}
        /\ TuSent \cap ToSet(tuRan) = {} /\ TuSent \cap tuDropped = {} /\ ToSet(tuRan) \cap tuDropped = {}
        /\ ToSet(tuQueue) \cup TuSent \cup ToSet(tuRan) \cup tuDropped = 1 .. Len(tuKind)
    BY <1>1 DEF TuLine
  <2>2. ASSUME NEW n \in TuTyped
        PROVE  (IF n \in ToSet(tuQueue) THEN 1 ELSE 0) + (IF n \in TuSent THEN 1 ELSE 0)
               + (IF n \in ToSet(tuRan) THEN 1 ELSE 0) + (IF n \in tuDropped THEN 1 ELSE 0) = 1
    <3>1. CASE n \in ToSet(tuQueue)
      <4>1. n \notin TuSent /\ n \notin ToSet(tuRan) /\ n \notin tuDropped
        BY <2>1, <3>1
      <4> QED
        BY <3>1, <4>1
    <3>2. CASE n \in TuSent
      <4>1. n \notin ToSet(tuQueue) /\ n \notin ToSet(tuRan) /\ n \notin tuDropped
        BY <2>1, <3>2
      <4> QED
        BY <3>2, <4>1
    <3>3. CASE n \in ToSet(tuRan)
      <4>1. n \notin ToSet(tuQueue) /\ n \notin TuSent /\ n \notin tuDropped
        BY <2>1, <3>3
      <4> QED
        BY <3>3, <4>1
    <3>4. CASE n \in tuDropped
      <4>1. n \notin ToSet(tuQueue) /\ n \notin TuSent /\ n \notin ToSet(tuRan)
        BY <2>1, <3>4
      <4> QED
        BY <3>4, <4>1
    <3> QED
      BY <2>1, <3>1, <3>2, <3>3, <3>4 DEF TuTyped
  <2> QED
    BY <1>3, <2>2 DEF TuNoneLost
<1>5. TuShowsTheRun
  <2> SUFFICES ASSUME tuMsgs = <<>>, TuSent = {} PROVE tuShown = tuRunning
    BY DEF TuShowsTheRun
  <2>1. Len(tuMsgs) = 0
    OBVIOUS
  <2>2. 1 .. Len(tuMsgs) = {}
    BY <2>1
  <2>3. tuShown # TuIdle => tuShown = tuRunning
    BY <2>2 DEF TuScreen, TuLives
  <2>4. tuRunning # TuIdle => tuShown = tuRunning
    BY <2>2 DEF TuScreen, TuCurrent
  <2> QED
    BY <2>3, <2>4
<1> QED
  BY <1>2, <1>4, <1>5 DEF TuSafe

(***************************************************************************)
(* Prompts run in the order they were typed, each of them is in exactly    *)
(* one place, and a screen that has caught up shows the worker's run: of   *)
(* any number of prompts, wake-ups and clears (tui/runtime/submission.rs,  *)
(* tui/events/ui_message.rs, runtime/worker.rs).                           *)
(***************************************************************************)
THEOREM TuiSafety == TuSpec => []TuSafe
<1>1. TuInv /\ [TuNext]_tuVars => TuInv'
  <2> SUFFICES ASSUME TuInv, [TuNext]_tuVars PROVE TuInv'
    OBVIOUS
  <2>1. CASE UNCHANGED tuVars
    <3>1. UNCHANGED <<tuKind, tuQueue, tuShown, tuModal, tuCmds, tuMsgs, tuRunning, tuRan, tuDropped,
                      tuWakeups>>
      BY <2>1 DEF tuVars
    <3>2. TuFifo' /\ TuSent' = TuSent /\ TuBegun' = TuBegun
      BY <3>1, TuCmdsSame DEF TuInv
    <3>3. TuTypes' /\ TuOrdered' /\ TuHeldBack'
      BY <3>1, <3>2 DEF TuInv, TuTypes, TuOrdered, TuHeldBack
    <3>4. TuScreen'
      BY <3>1, <3>2, TuScreenSent DEF TuInv
    <3> QED
      BY <3>2, <3>3, <3>4 DEF TuInv
  <2> QED
    BY <2>1, TuSubmitKeeps, TuEnterKeeps, TuUiKeeps, TuDecidePlanKeeps, TuHandleKeeps,
       TuWakeupKeeps, TuTakeKeeps, TuFinishKeeps DEF TuNext
<1> QED
  BY TuInitInv, TuInvSafe, <1>1, PTL DEF TuSpec

-----------------------------------------------------------------------------
(* EventFanout: every event is delivered or counted, once                  *)
EfTypes ==
  /\ efStep \in [EfEmitter -> {"idle", "marker", "event"}]
  /\ efTaken \in [EfEmitter -> Nat]
  /\ efChannel \in Seq(Nat) /\ efGap \in Nat /\ efDropped \in Nat
  /\ efReader \in {"reading", "closed"} /\ efFlushed \in BOOLEAN
  /\ efEmitted \in Nat /\ efRead \in Nat /\ efMarked \in Nat

(* A gap is in the hands of a task that is about to mark it, and of no     *)
(* other; after the flush there is none.                                   *)
EfHands == \A t \in EfEmitter : efStep[t] = "marker" <=> efTaken[t] > 0
EfOver == efFlushed => efGap = 0 /\ \A t \in EfEmitter : efStep[t] = "idle"

EfBusy == {t \in EfEmitter : efStep[t] # "idle"}
EfHeld == SumFunction(efTaken)

(* EfExact, as an equation of each event and one of each drop.             *)
EfEvents == efEmitted = efRead + EfEventsQueued + efDropped + Cardinality(EfBusy)
EfDrops == efDropped = efMarked + EfMarksQueued + efGap + EfHeld

EfInv ==
  /\ EfTypes /\ EfHands /\ EfOver
  /\ efReader = "reading" => EfEvents /\ EfDrops

(* The sums of a state are numbers.                                        *)
LEMMA EfNumbers ==
  ASSUME EfTypes
  PROVE  /\ EfEventsQueued \in Nat /\ EfMarksQueued \in Nat /\ EfHeld \in Nat
         /\ IsFiniteSet(EfBusy) /\ Cardinality(EfBusy) \in Nat
<1>1. IsFiniteSet(EfEmitter)
  BY EfAssumption
<1>2. EfHeld \in Nat
  BY <1>1, SumType DEF EfTypes, EfHeld
<1>3. EfMarksQueued \in Nat
  BY SumAppend DEF EfTypes, EfMarksQueued
<1>4. EfEventsQueued \in Nat
  <2>1. efChannel \in Seq(Nat) /\ EfEventsQueued = CountOf(efChannel, 0)
    BY DEF EfTypes, EfEventsQueued, CountOf
  <2> QED
    BY <2>1, CountType
<1>5. IsFiniteSet(EfBusy)
  BY <1>1, FS_Subset DEF EfBusy
<1> QED
  BY <1>2, <1>3, <1>4, <1>5, FS_CardinalityType

(* What a task's step changes of them.                                     *)
LEMMA EfStepped ==
  ASSUME EfTypes, NEW t \in EfEmitter, NEW v \in {"idle", "marker", "event"},
         efStep' = [efStep EXCEPT ![t] = v]
  PROVE  Cardinality(EfBusy') =
           IF efStep[t] = "idle" /\ v # "idle" THEN Cardinality(EfBusy) + 1
           ELSE IF efStep[t] # "idle" /\ v = "idle" THEN Cardinality(EfBusy) - 1
           ELSE Cardinality(EfBusy)
<1>1. /\ efStep'[t] = v /\ \A u \in EfEmitter : u # t => efStep'[u] = efStep[u]
  BY DEF EfTypes
<1>2. /\ efStep[t] = "idle" /\ v # "idle" => t \notin EfBusy /\ EfBusy' = EfBusy \cup {t}
      /\ efStep[t] # "idle" /\ v = "idle" => t \in EfBusy /\ EfBusy' = EfBusy \ {t}
      /\ (efStep[t] = "idle" <=> v = "idle") => EfBusy' = EfBusy
  BY <1>1 DEF EfBusy
<1>3. IsFiniteSet(EfBusy)
  BY EfNumbers
<1> HIDE DEF EfBusy
<1> QED
  BY <1>2, <1>3, OneMoreOrFewer

LEMMA EfTook ==
  ASSUME EfTypes, NEW t \in EfEmitter, NEW v \in Nat, efTaken' = [efTaken EXCEPT ![t] = v]
  PROVE  EfHeld' + efTaken[t] = EfHeld + v /\ EfHeld' \in Nat /\ efTaken[t] \in Nat
<1>1. IsFiniteSet(EfEmitter) /\ efTaken \in [EfEmitter -> Nat]
  BY EfAssumption DEF EfTypes
<1>2. EfHeld' + efTaken[t] = EfHeld + v
  <2>1. PICK h \in [EfEmitter -> Nat] : h = [efTaken EXCEPT ![t] = v]
    BY <1>1
  <2>2. h[t] = v /\ \A u \in EfEmitter : u # t => efTaken[u] = h[u]
    BY <1>1, <2>1
  <2>3. SumFunction(h) + efTaken[t] = SumFunction(efTaken) + h[t]
    BY <1>1, <2>2, SumUpdate
  <2>4. EfHeld = SumFunction(efTaken) /\ EfHeld' = SumFunction(h)
    BY <2>1 DEF EfHeld
  <2> QED
    BY <2>2, <2>3, <2>4
<1>3. efTaken' \in [EfEmitter -> Nat]
  BY <1>1
<1>4. EfHeld' \in Nat
  BY <1>1, <1>3, SumType DEF EfHeld
<1> QED
  BY <1>1, <1>2, <1>4

LEMMA EfSent ==
  ASSUME EfTypes, NEW n \in Nat, efChannel' = Append(efChannel, n)
  PROVE  /\ efChannel' \in Seq(Nat) /\ EfMarksQueued' = EfMarksQueued + n
         /\ EfEventsQueued' = EfEventsQueued + (IF n = 0 THEN 1 ELSE 0)
<1>1. efChannel \in Seq(Nat)
  BY DEF EfTypes
<1>2. efChannel' \in Seq(Nat)
  BY <1>1, QueueAppend
<1>3. EfMarksQueued' = EfMarksQueued + n
  BY <1>1, SumAppend DEF EfMarksQueued
<1>4. EfEventsQueued' = EfEventsQueued + (IF n = 0 THEN 1 ELSE 0)
  <2>1. /\ EfEventsQueued = CountOf(efChannel, 0)
        /\ EfEventsQueued' = CountOf(Append(efChannel, n), 0)
    BY DEF EfEventsQueued, CountOf
  <2> QED
    BY <1>1, <2>1, CountAppend
<1> QED
  BY <1>2, <1>3, <1>4

LEMMA EfSwapKeeps ==
  ASSUME EfInv, NEW t \in EfEmitter, EfSwap(t)
  PROVE  EfInv'
<1> DEFINE v == IF efGap > 0 THEN "marker" ELSE "event"
<1>0. EfTypes /\ EfHands /\ EfOver
  BY DEF EfInv
<1>1. /\ efStep[t] = "idle" /\ ~efFlushed /\ efEmitted' = efEmitted + 1 /\ efGap' = 0
      /\ efTaken' = [efTaken EXCEPT ![t] = efGap] /\ efStep' = [efStep EXCEPT ![t] = v]
      /\ UNCHANGED <<efChannel, efDropped, efReader, efFlushed, efRead, efMarked>>
  BY DEF EfSwap
<1>2. v \in {"idle", "marker", "event"} /\ v # "idle" /\ efGap \in Nat
  BY <1>0 DEF EfTypes
<1>3. EfTypes'
  BY <1>0, <1>1, <1>2 DEF EfTypes
<1>4. EfHands'
  BY <1>0, <1>1, <1>2 DEF EfTypes, EfHands
<1>5. EfOver'
  BY <1>1 DEF EfOver
<1> HIDE DEF v
<1>6. Cardinality(EfBusy') = Cardinality(EfBusy) + 1
  BY <1>0, <1>1, <1>2, EfStepped
<1>7. EfHeld' + efTaken[t] = EfHeld + efGap /\ EfHeld' \in Nat
  BY <1>0, <1>1, <1>2, EfTook
<1>8. efTaken[t] = 0
  BY <1>0, <1>1 DEF EfHands, EfTypes
<1>9. EfEventsQueued' = EfEventsQueued /\ EfMarksQueued' = EfMarksQueued
  BY <1>1 DEF EfEventsQueued, EfMarksQueued
<1>10. ASSUME efReader' = "reading" PROVE EfEvents' /\ EfDrops'
  <2>1. EfEvents /\ EfDrops
    BY <1>1, <1>10 DEF EfInv
  <2>2. /\ EfEventsQueued \in Nat /\ EfMarksQueued \in Nat /\ EfHeld \in Nat
        /\ Cardinality(EfBusy) \in Nat
    BY <1>0, EfNumbers
  <2>3. efRead \in Nat /\ efDropped \in Nat /\ efMarked \in Nat /\ efEmitted \in Nat
    BY <1>0 DEF EfTypes
  <2>4. EfHeld' = EfHeld + efGap
    <3>1. EfHeld' + 0 = EfHeld + efGap
      BY ONLY <1>7, <1>8
    <3> QED
      BY ONLY <1>7, <3>1
  <2>5. EfEvents'
    BY <1>1, <1>6, <1>9, <2>1, <2>2, <2>3 DEF EfEvents
  <2>6. EfDrops'
    BY <1>1, <1>2, <1>9, <2>1, <2>2, <2>3, <2>4 DEF EfDrops
  <2> QED
    BY <2>5, <2>6
<1> QED
  BY <1>3, <1>4, <1>5, <1>10 DEF EfInv

LEMMA EfNothingQueued ==
  ASSUME efChannel = <<>>
  PROVE  EfMarksQueued = 0
<1>1. <<>> \in Seq(Nat) /\ DOMAIN <<>> = {} /\ IsFiniteSet({})
  BY QueueNone, FS_EmptySet
<1>2. <<>> = [x \in {} |-> 0]
  BY <1>1
<1> QED
  BY <1>1, <1>2, SumNothing DEF EfMarksQueued

LEMMA EfMarkerKeeps ==
  ASSUME EfInv, NEW t \in EfEmitter, EfMarker(t)
  PROVE  EfInv'
<1>0. EfTypes /\ EfHands /\ EfOver
  BY DEF EfInv
<1>1. /\ efStep[t] = "marker" /\ efReader = "reading"
      /\ efTaken' = [efTaken EXCEPT ![t] = 0]
      /\ UNCHANGED <<efReader, efFlushed, efEmitted, efRead, efMarked>>
  BY DEF EfMarker
<1>2. /\ EfEventsQueued \in Nat /\ EfMarksQueued \in Nat /\ EfHeld \in Nat
      /\ Cardinality(EfBusy) \in Nat /\ efTaken[t] \in Nat /\ efTaken[t] > 0
      /\ efRead \in Nat /\ efDropped \in Nat /\ efMarked \in Nat /\ efEmitted \in Nat
      /\ efGap \in Nat
  BY <1>0, <1>1, EfNumbers DEF EfTypes, EfHands
<1>3. EfEvents /\ EfDrops
  BY <1>1 DEF EfInv
<1>4. EfHeld' + efTaken[t] = EfHeld + 0 /\ EfHeld' \in Nat
  BY <1>0, <1>1, EfTook
<1>5. EfOver'
  BY <1>0, <1>1 DEF EfOver
<1>6. CASE EfRoom
  <2>1. /\ efChannel' = Append(efChannel, efTaken[t])
        /\ efStep' = [efStep EXCEPT ![t] = "event"]
        /\ UNCHANGED <<efGap, efDropped>>
    BY <1>6 DEF EfMarker
  <2>2. /\ efChannel' \in Seq(Nat) /\ EfMarksQueued' = EfMarksQueued + efTaken[t]
        /\ EfEventsQueued' = EfEventsQueued + (IF efTaken[t] = 0 THEN 1 ELSE 0)
    BY <1>0, <1>2, <2>1, EfSent
  <2>3. Cardinality(EfBusy') = Cardinality(EfBusy)
    BY <1>0, <1>1, <2>1, EfStepped
  <2>4. EfTypes' /\ EfHands'
    BY <1>0, <1>1, <2>1, <2>2 DEF EfTypes, EfHands
  <2>5. EfEvents'
    <3>1. EfEventsQueued' = EfEventsQueued
      BY <1>2, <2>2
    <3> QED
      BY <1>1, <1>3, <2>1, <2>3, <3>1 DEF EfEvents
  <2>6. EfDrops'
    <3>1. efDropped = efMarked + EfMarksQueued + efGap + EfHeld
      BY <1>3 DEF EfDrops
    <3>2. efDropped = efMarked + (EfMarksQueued + efTaken[t]) + efGap + EfHeld'
      BY ONLY <1>2, <1>4, <3>1
    <3> QED
      BY <1>1, <2>1, <2>2, <3>2 DEF EfDrops
  <2> QED
    BY <1>5, <2>4, <2>5, <2>6 DEF EfInv
<1>7. CASE ~EfRoom
  <2>1. /\ efGap' = efGap + (efTaken[t] + 1) /\ efDropped' = efDropped + 1
        /\ efStep' = [efStep EXCEPT ![t] = "idle"] /\ efChannel' = efChannel
    BY <1>7 DEF EfMarker, EfPutBack
  <2>2. EfEventsQueued' = EfEventsQueued /\ EfMarksQueued' = EfMarksQueued
    BY <2>1 DEF EfEventsQueued, EfMarksQueued
  <2>3. Cardinality(EfBusy') = Cardinality(EfBusy) - 1
    BY <1>0, <1>1, <2>1, EfStepped
  <2>4. efGap' \in Nat /\ efDropped' \in Nat
    BY <1>2, <2>1
  <2>5. EfTypes' /\ EfHands'
    BY <1>0, <1>1, <2>1, <2>4 DEF EfTypes, EfHands
  <2>6. EfEvents'
    <3>1. efEmitted = efRead + EfEventsQueued + efDropped + Cardinality(EfBusy)
      BY <1>3 DEF EfEvents
    <3>2. efEmitted = efRead + EfEventsQueued + (efDropped + 1) + (Cardinality(EfBusy) - 1)
      BY ONLY <1>2, <3>1
    <3> QED
      BY <1>1, <2>1, <2>2, <2>3, <3>2 DEF EfEvents
  <2>7. EfDrops'
    <3>1. efDropped = efMarked + EfMarksQueued + efGap + EfHeld
      BY <1>3 DEF EfDrops
    <3>2. efDropped + 1 = efMarked + EfMarksQueued + (efGap + (efTaken[t] + 1)) + EfHeld'
      BY ONLY <1>2, <1>4, <3>1
    <3> QED
      BY <1>1, <2>1, <2>2, <3>2 DEF EfDrops
  <2> QED
    BY <1>5, <2>5, <2>6, <2>7 DEF EfInv
<1> QED
  BY <1>6, <1>7

LEMMA EfEventKeeps ==
  ASSUME EfInv, NEW t \in EfEmitter, EfEvent(t)
  PROVE  EfInv'
<1>0. EfTypes /\ EfHands /\ EfOver
  BY DEF EfInv
<1>1. /\ efStep[t] = "event" /\ efReader = "reading"
      /\ efStep' = [efStep EXCEPT ![t] = "idle"]
      /\ UNCHANGED <<efTaken, efReader, efFlushed, efEmitted, efRead, efMarked>>
  BY DEF EfEvent
<1>2. /\ EfEventsQueued \in Nat /\ EfMarksQueued \in Nat /\ EfHeld \in Nat
      /\ Cardinality(EfBusy) \in Nat
      /\ efRead \in Nat /\ efDropped \in Nat /\ efMarked \in Nat /\ efEmitted \in Nat
      /\ efGap \in Nat
  BY <1>0, <1>1, EfNumbers DEF EfTypes
<1>3. EfEvents /\ EfDrops
  BY <1>1 DEF EfInv
<1>4. EfHeld' = EfHeld
  BY <1>1 DEF EfHeld
<1>5. EfOver'
  BY <1>0, <1>1 DEF EfOver
<1>6. Cardinality(EfBusy') = Cardinality(EfBusy) - 1
  BY <1>0, <1>1, EfStepped
<1>7. /\ efEmitted = efRead + EfEventsQueued + efDropped + Cardinality(EfBusy)
      /\ efDropped = efMarked + EfMarksQueued + efGap + EfHeld
  BY <1>3 DEF EfEvents, EfDrops
<1>8. CASE EfRoom
  <2>1. efChannel' = Append(efChannel, 0) /\ UNCHANGED <<efGap, efDropped>>
    BY <1>8 DEF EfEvent
  <2>2. /\ efChannel' \in Seq(Nat) /\ EfMarksQueued' = EfMarksQueued + 0
        /\ EfEventsQueued' = EfEventsQueued + (IF 0 = 0 THEN 1 ELSE 0)
    BY <1>0, <2>1, EfSent
  <2>3. EfTypes' /\ EfHands'
    BY <1>0, <1>1, <2>1, <2>2 DEF EfTypes, EfHands
  <2>4. /\ efEmitted = efRead + (EfEventsQueued + 1) + efDropped + (Cardinality(EfBusy) - 1)
        /\ efDropped = efMarked + (EfMarksQueued + 0) + efGap + EfHeld
    BY ONLY <1>2, <1>7
  <2>5. EfEvents' /\ EfDrops'
    BY <1>1, <1>4, <1>6, <2>1, <2>2, <2>4 DEF EfEvents, EfDrops
  <2> QED
    BY <1>5, <2>3, <2>5 DEF EfInv
<1>9. CASE ~EfRoom
  <2>1. /\ efGap' = efGap + (0 + 1) /\ efDropped' = efDropped + 1 /\ efChannel' = efChannel
    BY <1>9 DEF EfEvent, EfPutBack
  <2>2. EfEventsQueued' = EfEventsQueued /\ EfMarksQueued' = EfMarksQueued
    BY <2>1 DEF EfEventsQueued, EfMarksQueued
  <2>3. efGap' \in Nat /\ efDropped' \in Nat
    BY <1>2, <2>1
  <2>4. EfTypes' /\ EfHands'
    BY <1>0, <1>1, <2>1, <2>3 DEF EfTypes, EfHands
  <2>5. /\ efEmitted = efRead + EfEventsQueued + (efDropped + 1) + (Cardinality(EfBusy) - 1)
        /\ efDropped + 1 = efMarked + EfMarksQueued + (efGap + (0 + 1)) + EfHeld
    BY ONLY <1>2, <1>7
  <2>6. EfEvents' /\ EfDrops'
    BY <1>1, <1>4, <1>6, <2>1, <2>2, <2>5 DEF EfEvents, EfDrops
  <2> QED
    BY <1>5, <2>4, <2>6 DEF EfInv
<1> QED
  BY <1>8, <1>9

LEMMA EfFlushKeeps ==
  ASSUME EfInv, EfFlush
  PROVE  EfInv'
<1>0. EfTypes /\ EfHands /\ EfOver
  BY DEF EfInv
<1>1. /\ \A t \in EfEmitter : efStep[t] = "idle"
      /\ efFlushed' = TRUE /\ efGap' = 0
      /\ UNCHANGED <<efStep, efTaken, efDropped, efReader, efEmitted, efRead, efMarked>>
  BY DEF EfFlush
<1>2. /\ EfEventsQueued \in Nat /\ EfMarksQueued \in Nat /\ EfHeld \in Nat
      /\ efRead \in Nat /\ efDropped \in Nat /\ efMarked \in Nat /\ efEmitted \in Nat
      /\ efGap \in Nat /\ efChannel \in Seq(Nat)
  BY <1>0, <1>1, EfNumbers DEF EfTypes
<1>3. EfOver'
  BY <1>1 DEF EfOver
<1>4. EfHeld' = EfHeld /\ Cardinality(EfBusy') = Cardinality(EfBusy)
  BY <1>1 DEF EfHeld, EfBusy
<1>5. CASE efGap > 0 /\ efReader = "reading"
  <2>1. efChannel' = Append(efChannel, efGap)
    BY <1>5 DEF EfFlush, EfFinalFits
  <2>2. /\ efChannel' \in Seq(Nat) /\ EfMarksQueued' = EfMarksQueued + efGap
        /\ EfEventsQueued' = EfEventsQueued + (IF efGap = 0 THEN 1 ELSE 0)
    BY <1>0, <1>2, <2>1, EfSent
  <2>3. EfTypes' /\ EfHands'
    BY <1>0, <1>1, <2>2 DEF EfTypes, EfHands
  <2>4. EfEvents /\ efDropped = efMarked + EfMarksQueued + efGap + EfHeld
    BY <1>5 DEF EfInv, EfDrops
  <2>5. efDropped = efMarked + (EfMarksQueued + efGap) + 0 + EfHeld
    BY ONLY <1>2, <2>4
  <2>6. EfEventsQueued' = EfEventsQueued
    BY <1>2, <1>5, <2>2
  <2>7. EfEvents' /\ EfDrops'
    BY <1>1, <1>4, <2>2, <2>4, <2>5, <2>6 DEF EfEvents, EfDrops
  <2> QED
    BY <1>3, <2>3, <2>7 DEF EfInv
<1>6. CASE ~(efGap > 0 /\ efReader = "reading")
  <2>1. efChannel' = efChannel
    BY <1>6 DEF EfFlush
  <2>2. EfEventsQueued' = EfEventsQueued /\ EfMarksQueued' = EfMarksQueued
    BY <2>1 DEF EfEventsQueued, EfMarksQueued
  <2>3. EfTypes' /\ EfHands'
    BY <1>0, <1>1, <2>1 DEF EfTypes, EfHands
  <2>4. ASSUME efReader' = "reading" PROVE EfEvents' /\ EfDrops'
    <3>1. efGap = 0
      BY <1>1, <1>2, <1>6, <2>4
    <3>2. EfEvents /\ EfDrops
      BY <1>1, <2>4 DEF EfInv
    <3> QED
      BY <1>1, <1>4, <2>2, <3>1, <3>2 DEF EfEvents, EfDrops
  <2> QED
    BY <1>3, <2>3, <2>4 DEF EfInv
<1> QED
  BY <1>5, <1>6

LEMMA EfReadsKeeps ==
  ASSUME EfInv, EfReads
  PROVE  EfInv'
<1>0. EfTypes /\ EfHands /\ EfOver
  BY DEF EfInv
<1> DEFINE head == Head(efChannel)
<1>1. /\ efReader = "reading" /\ efChannel # <<>> /\ efChannel' = Tail(efChannel)
      /\ efRead' = (IF head = 0 THEN efRead + 1 ELSE efRead)
      /\ efMarked' = efMarked + head
      /\ UNCHANGED <<efStep, efTaken, efGap, efDropped, efReader, efFlushed, efEmitted>>
  BY DEF EfReads
<1>2. /\ EfEventsQueued \in Nat /\ EfMarksQueued \in Nat /\ EfHeld \in Nat
      /\ Cardinality(EfBusy) \in Nat
      /\ efRead \in Nat /\ efDropped \in Nat /\ efMarked \in Nat /\ efEmitted \in Nat
      /\ efGap \in Nat /\ efChannel \in Seq(Nat)
  BY <1>0, <1>1, EfNumbers DEF EfTypes
<1>3. EfOver'
  BY <1>0, <1>1 DEF EfOver
<1>4. EfHeld' = EfHeld /\ Cardinality(EfBusy') = Cardinality(EfBusy)
  BY <1>1 DEF EfHeld, EfBusy
<1>5. efChannel' \in Seq(Nat) /\ head \in Nat
  BY <1>1, <1>2, QueueTail
<1> HIDE DEF head
<1>6. EfMarksQueued = head + EfMarksQueued' /\ EfMarksQueued' \in Nat
  <2>1. /\ EfMarksQueued = SumFunction(efChannel) /\ EfMarksQueued' = SumFunction(Tail(efChannel))
    BY <1>1 DEF EfMarksQueued
  <2> QED
    BY <1>1, <1>2, <2>1, SumTail DEF head
<1>7. EfEventsQueued = EfEventsQueued' + (IF head = 0 THEN 1 ELSE 0) /\ EfEventsQueued' \in Nat
  <2>1. /\ EfEventsQueued = CountOf(efChannel, 0)
        /\ EfEventsQueued' = CountOf(Tail(efChannel), 0)
    BY <1>1 DEF EfEventsQueued, CountOf
  <2>2. Tail(efChannel) \in Seq(Nat)
    BY <1>1, <1>5
  <2> QED
    BY <1>1, <1>2, <2>1, <2>2, CountTail, CountType DEF head
<1>8. EfTypes' /\ EfHands'
  BY <1>0, <1>1, <1>2, <1>5 DEF EfTypes, EfHands
<1>9. /\ efEmitted = efRead + EfEventsQueued + efDropped + Cardinality(EfBusy)
      /\ efDropped = efMarked + EfMarksQueued + efGap + EfHeld
  BY <1>1 DEF EfInv, EfEvents, EfDrops
<1>10. /\ efRead + EfEventsQueued = efRead' + EfEventsQueued'
       /\ efRead' \in Nat
  <2>1. CASE head = 0
    <3>1. efRead' = efRead + 1 /\ EfEventsQueued = EfEventsQueued' + 1
      BY <1>1, <1>7, <2>1
    <3> QED
      BY ONLY <1>2, <1>7, <3>1
  <2>2. CASE head # 0
    <3>1. efRead' = efRead /\ EfEventsQueued = EfEventsQueued' + 0
      BY <1>1, <1>7, <2>2
    <3> QED
      BY ONLY <1>2, <1>7, <3>1
  <2> QED
    BY <2>1, <2>2
<1>11. /\ efEmitted = efRead' + EfEventsQueued' + efDropped + Cardinality(EfBusy)
       /\ efDropped = (efMarked + head) + EfMarksQueued' + efGap + EfHeld
  <2>1. efEmitted = efRead' + EfEventsQueued' + efDropped + Cardinality(EfBusy)
    BY ONLY <1>9, <1>10
  <2>2. efDropped = (efMarked + head) + EfMarksQueued' + efGap + EfHeld
    BY ONLY <1>2, <1>5, <1>6, <1>9
  <2> QED
    BY <2>1, <2>2
<1>12. EfEvents' /\ EfDrops'
  BY <1>1, <1>4, <1>11 DEF EfEvents, EfDrops
<1> QED
  BY <1>3, <1>8, <1>12 DEF EfInv

(***************************************************************************)
(* Every event of a background run is delivered or counted as dropped,     *)
(* once, and the marks add up: with any number of tasks emitting and any   *)
(* capacity (EventFanout of sdk/src/session/events.rs).                    *)
(***************************************************************************)
THEOREM EventFanoutSafety == EfSpec => []EfSafe
<1>1. EfInit => EfInv
  <2> SUFFICES ASSUME EfInit PROVE EfInv
    OBVIOUS
  <2>1. EfTypes /\ EfHands /\ EfOver
    <3>1. efChannel \in Seq(Nat)
      BY QueueNone DEF EfInit
    <3>2. EfTypes
      BY <3>1 DEF EfInit, EfTypes
    <3> QED
      BY <3>2 DEF EfInit, EfHands, EfOver
  <2>2. EfHeld = 0
    BY EfAssumption, SumNothing DEF EfInit, EfHeld
  <2>3. EfMarksQueued = 0
    BY EfNothingQueued DEF EfInit
  <2>4. EfEventsQueued = 0 /\ Cardinality(EfBusy) = 0
    <3>1. {i \in DOMAIN efChannel : efChannel[i] = 0} = {} /\ EfBusy = {}
      BY QueueNone DEF EfInit, EfBusy
    <3> QED
      BY <3>1, FS_EmptySet DEF EfEventsQueued
  <2>5. EfEvents /\ EfDrops
    BY <2>2, <2>3, <2>4 DEF EfInit, EfEvents, EfDrops
  <2> QED
    BY <2>1, <2>5 DEF EfInv
<1>2. EfInv /\ [EfNext]_efVars => EfInv'
  <2> SUFFICES ASSUME EfInv, [EfNext]_efVars PROVE EfInv'
    OBVIOUS
  <2>1. ASSUME NEW t \in EfEmitter, EfClosedSend(t) PROVE EfInv'
    BY <2>1 DEF EfInv, EfClosedSend, EfTypes, EfHands, EfOver
  <2>2. ASSUME EfCloses PROVE EfInv'
    BY <2>2, QueueNone DEF EfInv, EfCloses, EfTypes, EfHands, EfOver
  <2>3. CASE UNCHANGED efVars
    BY <2>3 DEF EfInv, EfTypes, EfHands, EfOver, EfEvents, EfDrops, EfBusy, EfHeld,
                EfMarksQueued, EfEventsQueued, efVars
  <2> QED
    BY <2>1, <2>2, <2>3, EfSwapKeeps, EfMarkerKeeps, EfEventKeeps, EfFlushKeeps, EfReadsKeeps
       DEF EfNext
<1>3. EfInv => EfSafe
  <2> SUFFICES ASSUME EfInv PROVE EfSafe
    OBVIOUS
  <2>1. EfExact
    BY DEF EfInv, EfExact, EfEvents, EfDrops, EfBusy, EfHeld
  <2>2. EfAllReported
    <3> SUFFICES ASSUME efFlushed, efReader = "reading", efChannel = <<>> PROVE efMarked = efDropped
      BY DEF EfAllReported
    <3>1. EfTypes /\ EfDrops /\ efGap = 0 /\ efMarked \in Nat
      BY DEF EfInv, EfOver, EfTypes
    <3>2. EfMarksQueued = 0
      BY EfNothingQueued
    <3>3. EfHeld = 0
      <4>1. \A t \in EfEmitter : efTaken[t] = 0
        BY DEF EfInv, EfOver, EfHands, EfTypes
      <4>2. efTaken = [t \in EfEmitter |-> 0]
        BY <3>1, <4>1 DEF EfTypes
      <4> QED
        BY <4>2, EfAssumption, SumNothing DEF EfHeld
    <3> QED
      BY <3>1, <3>2, <3>3 DEF EfDrops
  <2> QED
    BY <2>1, <2>2 DEF EfSafe
<1> QED
  BY <1>1, <1>2, <1>3, PTL DEF EfSpec
=============================================================================
