-------------------------- MODULE ConnectionProofs --------------------------
(***************************************************************************)
(* Proofs about the components that talk to somebody outside: the stdio    *)
(* MCP client, the model gate, the approvals of a headless run, the Codex  *)
(* login and a process in a sandbox.  They share no state; each has a      *)
(* section of its own.                                                     *)
(***************************************************************************)
EXTENDS McpClient, ModelGate, StdioApprovals, CodexAuth, SandboxProcess, CommonLemmas

-----------------------------------------------------------------------------
(* McpClient: the lane                                                     *)

McSteps == {"idle", "waiting", "sending", "reading", "dropped", "gone", "ok", "err"}

(* The lane has one holder at most, and it is the call in the exchange.    *)
McInv ==
  /\ mcStep \in [McCall -> McSteps] /\ mcId \in [McCall -> Nat] /\ mcNextId \in Nat
  /\ DOMAIN mcGot = McCall /\ mcGot = [c \in McCall |-> mcGot[c]]
  /\ mcLock \in SUBSET McCall
  /\ \A c, d \in mcLock : c = d
  /\ McLaneReturned
  /\ McOwnAnswer

LEMMA McInvStep == McInv /\ [McNext]_mcVars => McInv'
<1> SUFFICES ASSUME McInv, [McNext]_mcVars PROVE McInv'
  OBVIOUS
<1> USE DEF McInv, McGoes, McSteps, McNobody, McLaneReturned, McOwnAnswer
<1>1. ASSUME NEW c \in McCall, McBegin(c) PROVE McInv'
  <2>1. UNCHANGED <<mcLock, mcGot>> /\ \A o \in McCall : o # c => mcId'[o] = mcId[o]
    BY <1>1 DEF McBegin
  <2>2. mcStep'[c] \in {"waiting", "err"} /\ \A o \in McCall : o # c => mcStep'[o] = mcStep[o]
    BY <1>1 DEF McBegin
  <2>3. mcStep' \in [McCall -> McSteps] /\ mcId' \in [McCall -> Nat] /\ mcNextId' \in Nat
    BY <1>1 DEF McBegin
  <2>4. mcStep[c] = "idle"
    BY <1>1 DEF McBegin
  <2>5. QED
    BY <2>1, <2>2, <2>3, <2>4
<1>2. ASSUME NEW c \in McCall, McAcquire(c) PROVE McInv'
  BY <1>2 DEF McAcquire
<1>3. ASSUME NEW c \in McCall, McSend(c) PROVE McInv'
  <2>1. /\ UNCHANGED <<mcGot, mcId, mcNextId>> /\ \A o \in McCall : o # c => mcStep'[o] = mcStep[o]
        /\ mcStep[c] = "sending" /\ mcStep'[c] \in {"reading", "err"}
        /\ mcLock = {c} /\ mcLock' = IF mcStep'[c] = "reading" THEN mcLock ELSE {}
    BY <1>3 DEF McSend
  <2>2. mcStep' \in [McCall -> McSteps]
    BY <1>3 DEF McSend
  <2>3. QED
    BY <2>1, <2>2
<1>4. ASSUME NEW c \in McCall, McReads(c) PROVE McInv'
  <2>1. mcStep[c] = "reading" /\ c \in mcLock /\ mcLock = {c}
    BY <1>4 DEF McReads
  <2>2. CASE UNCHANGED <<mcStep, mcLock, mcGot>>
    BY <1>4, <2>2 DEF McReads
  <2>3. CASE mcStep' = [mcStep EXCEPT ![c] = "err"] /\ mcLock' = {} /\ UNCHANGED mcGot
    BY <1>4, <2>1, <2>3 DEF McReads
  <2>4. CASE mcStep' = [mcStep EXCEPT ![c] = "ok"] /\ mcLock' = {}
             /\ mcGot' = [mcGot EXCEPT ![c] = Head(mcOut).id] /\ Head(mcOut).id = mcId[c]
    BY <1>4, <2>1, <2>4 DEF McReads
  <2>5. QED
    BY <1>4, <2>2, <2>3, <2>4 DEF McReads, McIsReplyTo
<1>5. ASSUME NEW c \in McCall, McEndOfFile(c) PROVE McInv'
  BY <1>5 DEF McEndOfFile
<1>6. ASSUME NEW c \in McCall, McInvalidate(c) PROVE McInv'
  BY <1>6 DEF McInvalidate
<1>7. ASSUME NEW c \in McCall, NEW torn \in BOOLEAN, McInterrupt(c, torn) PROVE McInv'
  BY <1>7 DEF McInterrupt, McDropsExchange, McReleased
<1>8. ASSUME NEW c \in McCall, NEW torn \in BOOLEAN, McGone(c, torn) PROVE McInv'
  BY <1>8 DEF McGone, McDropsExchange, McReleased
<1>9. CASE McServes \/ McServerDies \/ \E kind \in {"note", "ping", "bad"} : McSpeaks(kind)
  BY <1>9 DEF McServes, McServerDies, McSpeaks
<1>10. CASE UNCHANGED mcVars
  BY <1>10 DEF mcVars
<1>11. QED
  BY <1>1, <1>2, <1>3, <1>4, <1>5, <1>6, <1>7, <1>8, <1>9, <1>10 DEF McNext, McCallStep

(***************************************************************************)
(* request_with_context: whatever the server sends and however a call      *)
(* ends, the lane is given back and a call that succeeds has the reply to  *)
(* its own request.                                                        *)
(***************************************************************************)
THEOREM McSafety == McSpec => []McSafe
<1>1. McInit => McInv
  BY DEF McInit, McInv, McSteps, McNobody, McLaneReturned, McOwnAnswer
<1>2. McInv => McSafe
  BY DEF McInv, McSafe
<1>3. QED
  BY <1>1, <1>2, McInvStep, PTL DEF McSpec

-----------------------------------------------------------------------------
(* StdioApprovals: the caller's word                                       *)

SpSteps == {"new", "register", "print", "wait", "dropped", "denied", "ran"}

(* A request is open only while its call can still be answered, a call     *)
(* that waits is open or answered, and a grant for a tool was given on     *)
(* a call of that tool which ran.                                          *)
SpInv ==
  /\ spAdmit \in BOOLEAN /\ spReadOnly \in BOOLEAN /\ spClosed \in BOOLEAN
  /\ spStep \in [SpCall -> SpSteps]
  /\ spAnswer \in [SpCall -> SpDecisions \cup {"none"}]
  /\ spOpen \in SUBSET SpCall
  /\ spClosed => spOpen = {}
  /\ \A c \in spOpen : spStep[c] \in {"print", "wait", "dropped"} /\ spAnswer[c] = "none"
  /\ \A c \in SpCall : spStep[c] \in {"new", "register"} => spAnswer[c] = "none"
  /\ \A c \in SpCall : spStep[c] \in {"print", "wait"} => c \in spOpen \/ spAnswer[c] # "none"
  /\ \A t \in spAlways : \E o \in SpCall :
       SpTool[o] = t /\ spStep[o] = "ran" /\ spAnswer[o] = "always"
  /\ SpRanOnTheCallersWord

LEMMA SpInvStep == SpInv /\ [SpNext]_spVars => SpInv'
<1> SUFFICES ASSUME SpInv, [SpNext]_spVars PROVE SpInv'
  OBVIOUS
<1> USE DEF SpInv, SpSteps, SpDecisions
<1>1. CASE SpEof
  BY <1>1 DEF SpEof, SpRanOnTheCallersWord
<1>2. ASSUME NEW c \in SpCall, SpCheck(c) PROVE SpInv'
  <2>1. \A o \in SpCall : o # c => spStep'[o] = spStep[o]
    BY <1>2 DEF SpCheck
  <2>2. \A o \in SpCall : spStep[o] = "ran" => spStep'[o] = "ran" /\ o # c
    BY <1>2, <2>1 DEF SpCheck
  <2>3. CASE SpNeedsAnswer(c)
    BY <1>2, <2>1, <2>2, <2>3 DEF SpCheck, SpRanOnTheCallersWord
  <2>4. CASE ~SpNeedsAnswer(c)
    <3>1. /\ ~(spReadOnly /\ SpTool[c] = "shell")
          /\ spAdmit \/ \E o \in SpCall \ {c} :
               SpTool[o] = SpTool[c] /\ spStep[o] = "ran" /\ spAnswer[o] = "always"
      BY <2>2, <2>4 DEF SpNeedsAnswer
    <3>2. SpRanOnTheCallersWord'
      BY <1>2, <2>1, <2>2, <3>1 DEF SpCheck, SpRanOnTheCallersWord
    <3>3. QED
      BY <1>2, <2>1, <2>2, <2>4, <3>2 DEF SpCheck
  <2>5. QED
    BY <2>3, <2>4
<1>3. ASSUME NEW c \in SpCall, SpRegister(c) PROVE SpInv'
  <2>1. \A o \in SpCall : o # c => spStep'[o] = spStep[o]
    BY <1>3 DEF SpRegister
  <2>2. spStep[c] = "register" /\ spStep'[c] \in {"denied", "print"} /\ c \notin spOpen
    BY <1>3 DEF SpRegister
  <2>3. SpRanOnTheCallersWord'
    BY <1>3, <2>1, <2>2 DEF SpRegister, SpRanOnTheCallersWord
  <2>4. QED
    <3>1. spStep' \in [SpCall -> SpSteps]
      BY <1>3 DEF SpRegister
    <3>2. UNCHANGED <<spAdmit, spReadOnly, spClosed, spAlways, spAnswer>>
      BY <1>3 DEF SpRegister
    <3>3. \A t \in spAlways' : \E o \in SpCall :
            SpTool[o] = t /\ spStep'[o] = "ran" /\ spAnswer'[o] = "always"
      BY <2>1, <2>2, <3>2
    <3>4. CASE spStep'[c] = "denied" /\ spOpen' = spOpen
      BY <2>1, <2>2, <2>3, <3>1, <3>2, <3>3, <3>4
    <3>5. CASE spStep'[c] = "print" /\ spOpen' = spOpen \cup {c} /\ ~spClosed
      <4>1. spAnswer[c] = "none"
        BY <2>2, <3>5
      <4>2. QED
        BY <2>1, <2>2, <2>3, <3>1, <3>2, <3>3, <3>5, <4>1
    <3>6. QED
      BY <1>3, <3>4, <3>5 DEF SpRegister, SpNobodyThere
<1>4. ASSUME NEW c \in SpCall, SpPrint(c) PROVE SpInv'
  <2>1. /\ \A o \in SpCall : o # c => spStep'[o] = spStep[o]
        /\ spStep[c] = "print" /\ spStep'[c] = "wait"
        /\ UNCHANGED <<spAdmit, spReadOnly, spOpen, spClosed, spAlways, spAnswer>>
    BY <1>4 DEF SpPrint
  <2>2. spStep' \in [SpCall -> SpSteps]
    BY <1>4 DEF SpPrint
  <2>3. SpRanOnTheCallersWord'
    BY <2>1 DEF SpRanOnTheCallersWord
  <2>4. QED
    BY <2>1, <2>2, <2>3
<1>5. ASSUME NEW c \in SpCall, NEW d \in SpDecisions, SpLine(c, d) PROVE SpInv'
  BY <1>5 DEF SpLine, SpRanOnTheCallersWord
<1>6. ASSUME NEW c \in SpCall, SpResume(c) PROVE SpInv'
  <2>1. /\ \A o \in SpCall : o # c => spStep'[o] = spStep[o]
        /\ \A o \in SpCall : spStep[o] = "ran" => spStep'[o] = "ran"
        /\ UNCHANGED <<spAdmit, spReadOnly, spOpen, spClosed, spAnswer>>
        /\ c \notin spOpen
    BY <1>6 DEF SpResume
  <2>2. spStep'[c] = IF spAnswer[c] = "deny" THEN "denied" ELSE "ran"
    BY <1>6 DEF SpResume
  <2>3. spAnswer[c] # "deny" => spAnswer[c] \in {"allow", "always"}
    BY <1>6 DEF SpResume
  <2>4. SpRanOnTheCallersWord'
    BY <2>1, <2>2, <2>3 DEF SpRanOnTheCallersWord
  <2>5. \A t \in spAlways' : \E o \in SpCall :
          SpTool[o] = t /\ spStep'[o] = "ran" /\ spAnswer'[o] = "always"
    <3> SUFFICES ASSUME NEW t \in spAlways'
                 PROVE  \E o \in SpCall :
                          SpTool[o] = t /\ spStep'[o] = "ran" /\ spAnswer'[o] = "always"
      OBVIOUS
    <3>1. CASE t \in spAlways
      BY <2>1, <3>1
    <3>2. CASE t \notin spAlways
      <4>1. t = SpTool[c] /\ spAnswer[c] = "always"
        BY <1>6, <3>2 DEF SpResume
      <4>2. QED
        BY <2>1, <2>2, <4>1
    <3>3. QED
      BY <3>1, <3>2
  <2>6. spStep' \in [SpCall -> SpSteps]
    BY <1>6 DEF SpResume
  <2>7. QED
    BY <2>1, <2>2, <2>4, <2>5, <2>6
<1>7. ASSUME NEW c \in SpCall, SpDrop(c) PROVE SpInv'
  BY <1>7 DEF SpDrop, SpRanOnTheCallersWord
<1>8. CASE UNCHANGED spVars
  BY <1>8 DEF spVars, SpRanOnTheCallersWord
<1>9. QED
  BY <1>1, <1>2, <1>3, <1>4, <1>5, <1>6, <1>7, <1>8 DEF SpNext

(***************************************************************************)
(* before_tool and read_decisions: nobody waits for a caller that is gone, *)
(* and a gated call runs on the caller's word only.                        *)
(***************************************************************************)
THEOREM SpSafety == SpSpec => []SpSafe
<1>1. SpInit => SpInv
  BY DEF SpInit, SpInv, SpSteps, SpDecisions, SpRanOnTheCallersWord
<1>2. SpInv => SpSafe
  BY DEF SpInv, SpSafe, SpNobodyStranded
<1>3. QED
  BY <1>1, <1>2, SpInvStep, PTL DEF SpSpec

-----------------------------------------------------------------------------
(* CodexAuth: the login                                                    *)

CaSteps == {"idle", "ask", "send", "recover", "exchange", "persist"}
CaLocked(q) == caReq[q].st \in {"exchange", "persist"}
CaGone == caServer.a <= caStale \/ caServer.a <= caRefused

CaTypes ==
  /\ caServer \in [a : Nat \ {0}, r : Nat, by : CaProcess \cup {CaFree}, rotates : BOOLEAN]
  /\ caStale \in Nat /\ caRefused \in Nat
  /\ caFile \in [a : Nat, r : Nat]
  /\ caMem \in [CaProcess -> Nat]
  /\ caLock \in [CaProcess -> CaRequest \cup {CaFree}]
  /\ caReq \in [CaRequest -> [st : CaSteps, tok : Nat, r : Nat, again : BOOLEAN]]

(* The mutex of a process is held by its request that renews, if any.      *)
CaMutex == \A q \in CaRequest : CaLocked(q) <=> caLock[CaOwner[q]] = q

(* A server that keeps refresh tokens has one only.  One that rotates them *)
(* has at most one renewal on its way to the file, which brings the file   *)
(* up to date; until then nobody can present the newest token.             *)
CaTokens ==
  /\ caFile.r <= caServer.r /\ (~caServer.rotates => caFile.r = caServer.r)
  /\ \A q \in CaRequest : caReq[q].st = "exchange" => caReq[q].r <= caFile.r
  /\ ~caServer.rotates => \A q \in CaRequest : CaLocked(q) => caReq[q].r = caServer.r
  /\ \A q \in CaRequest : caReq[q].st = "persist" =>
       /\ caReq[q].r = caServer.r
       /\ caServer.rotates => caServer.by = CaOwner[q] /\ caFile.r < caServer.r
  /\ CaLoginKept
  /\ CaSingleFlight

(* A process that was given the newest token knows it, unless it is about  *)
(* to write it down or the token has gone bad since.                       *)
CaCause ==
  /\ caRefused <= caServer.a
  /\ \A q \in CaRequest : caReq[q].st = "recover" => caReq[q].tok <= caRefused
  /\ \A q \in CaRequest : caServer.by = CaOwner[q] =>
       /\ caReq[q].st = "persist" => caReq[q].tok = caServer.a
       /\ caReq[q].st = "exchange" => CaGone
  /\ \A p \in CaProcess : caServer.by = p =>
       \/ caMem[p] = caServer.a
       \/ CaGone
       \/ \E q \in CaRequest : CaOwner[q] = p /\ caReq[q].st = "persist"

CaInv == CaTypes /\ CaMutex /\ CaTokens /\ CaCause

(* What a step leaves behind that touches the request q alone, and neither *)
(* begins nor ends a renewal.  What p has in memory may be looked up again *)
(* unless it is the newest token, still good.                              *)
CaQuietStep(q) ==
  /\ UNCHANGED <<caServer, caStale, caRefused, caFile, caLock>>
  /\ \A o \in CaRequest : o # q => caReq'[o] = caReq[o]
  /\ ~CaLocked(q) /\ caReq'[q].st \notin {"exchange", "persist"}
  /\ caReq'[q].st = "recover" => caReq'[q].tok <= caRefused
  /\ \A p \in CaProcess : caMem[p] = caServer.a => caMem'[p] = caServer.a \/ CaGone

LEMMA CaQuietKeeps ==
  ASSUME CaInv, NEW q \in CaRequest, CaQuietStep(q), CaTypes'
  PROVE  CaInv'
<1> USE DEF CaInv, CaQuietStep, CaLocked
<1>1. CaMutex'
  BY DEF CaMutex
<1>2. CaTokens'
  <2>1. \A o \in CaRequest : caReq'[o].st \in {"exchange", "persist"} => o # q
    OBVIOUS
  <2>2. CaLoginKept'
    BY DEF CaTokens, CaLoginKept
  <2>3. CaSingleFlight'
    BY DEF CaTokens, CaSingleFlight
  <2>4. QED
    BY <2>1, <2>2, <2>3 DEF CaTokens
<1>3. CaGone' = CaGone
  BY DEF CaGone
<1>4. CaCause'
  BY <1>3 DEF CaCause
<1>5. QED
  BY <1>1, <1>2, <1>4

(* What it leaves behind when it begins one.                               *)
CaBeginsStep(q) ==
  /\ UNCHANGED <<caServer, caStale, caRefused, caFile, caMem>>
  /\ \A o \in CaRequest : o # q => caReq'[o] = caReq[o]
  /\ ~CaLocked(q) /\ caReq'[q].st = "exchange" /\ caReq'[q].r = caFile.r
  /\ caLock[CaOwner[q]] = CaFree
  /\ caLock' = [caLock EXCEPT ![CaOwner[q]] = q]
  /\ caServer.by = CaOwner[q] => CaGone

LEMMA CaBeginsKeeps ==
  ASSUME CaInv, NEW q \in CaRequest, CaBeginsStep(q), CaTypes'
  PROVE  CaInv'
<1> USE CaAssumption DEF CaInv, CaBeginsStep, CaLocked
<1>1. \A o \in CaRequest : CaOwner[o] = CaOwner[q] => ~CaLocked(o)
  BY DEF CaMutex, CaFree
<1>2. CaMutex'
  <2>1. \A o \in CaRequest : o # q => CaLocked(o)' = CaLocked(o)
    OBVIOUS
  <2>2. /\ caLock'[CaOwner[q]] = q
        /\ \A p \in CaProcess : p # CaOwner[q] => caLock'[p] = caLock[p]
    BY DEF CaTypes
  <2>3. \A o \in CaRequest : CaOwner[o] \in CaProcess
    OBVIOUS
  <2>4. QED
    BY <1>1, <2>1, <2>2, <2>3 DEF CaMutex
<1>3. CaTokens'
  <2>1. CaLoginKept'
    BY DEF CaTokens, CaLoginKept
  <2>2. CaSingleFlight'
    <3>1. caFile.r # caServer.r => caServer.by # CaOwner[q]
      <4> SUFFICES ASSUME caFile.r # caServer.r PROVE caServer.by # CaOwner[q]
        OBVIOUS
      <4>1. PICK o \in CaRequest : caReq[o].st = "persist"
        BY DEF CaTokens, CaLoginKept
      <4>2. caServer.by = CaOwner[o]
        BY <4>1 DEF CaTokens, CaTypes
      <4>3. QED
        BY <1>1, <4>1, <4>2
    <3>2. QED
      BY <3>1 DEF CaTokens, CaSingleFlight
  <2>3. \A o \in CaRequest : caReq'[o].st = "exchange" => caReq'[o].r <= caFile.r
    BY DEF CaTokens, CaTypes
  <2>4. \A o \in CaRequest : caReq'[o].st = "persist" => o # q
    OBVIOUS
  <2>5. QED
    BY <2>1, <2>2, <2>3, <2>4 DEF CaTokens
<1>4. CaCause'
  <2>1. CaGone' = CaGone
    BY DEF CaGone
  <2>2. \A o \in CaRequest : caReq[o].st = "persist" => o # q
    OBVIOUS
  <2>3. QED
    BY <2>1, <2>2 DEF CaCause
<1>5. QED
  BY <1>2, <1>3, <1>4

(* The server has taken q's refresh token.                                 *)
LEMMA CaExchangeKeeps ==
  ASSUME CaInv, NEW q \in CaRequest, CaExchange(q), UNCHANGED caLock, CaTypes',
         caReq[q].r = caServer.r,
         \A o \in CaRequest : o # q => caReq'[o] = caReq[o],
         caReq'[q].st = "persist", caReq'[q].tok = caServer'.a, caReq'[q].r = caServer'.r,
         caServer'.a = caServer.a + 1, caServer'.by = CaOwner[q],
         caServer'.rotates = caServer.rotates,
         caServer'.r = IF caServer.rotates THEN caServer.r + 1 ELSE caServer.r
  PROVE  CaInv'
<1> USE CaAssumption DEF CaInv, CaLocked
<1>1. caReq[q].st = "exchange" /\ UNCHANGED <<caFile, caMem, caStale, caRefused>>
  BY DEF CaExchange
<1>2. \A o \in CaRequest : o # q /\ CaLocked(o) => CaOwner[o] # CaOwner[q]
  BY <1>1 DEF CaMutex
<1>3. CaMutex'
  BY <1>1 DEF CaMutex
<1>4. caServer.rotates => \A o \in CaRequest : caReq[o].st # "persist"
  <2> SUFFICES ASSUME caServer.rotates, NEW o \in CaRequest, caReq[o].st = "persist"
               PROVE  FALSE
    OBVIOUS
  <2>1. caReq[q].r <= caFile.r /\ caFile.r < caServer.r
    BY <1>1 DEF CaTokens
  <2>2. QED
    BY <2>1 DEF CaTypes
<1>5. CaTokens'
  <2>1. CaLoginKept'
    BY DEF CaLoginKept
  <2>2. CaSingleFlight'
    <3> SUFFICES ASSUME NEW o \in CaRequest, caReq'[o].st = "exchange"
                 PROVE  CaOwner[q] # CaOwner[o]
      BY DEF CaSingleFlight
    <3>1. QED
      BY <1>2
  <2>3. caFile.r <= caServer'.r /\ (caServer.rotates => caFile.r < caServer'.r)
    BY DEF CaTokens, CaTypes
  <2>4. ~caServer.rotates => caServer'.r = caServer.r
    OBVIOUS
  <2>5. \A o \in CaRequest : caReq'[o].st = "exchange" => caReq'[o].r <= caFile'.r
    BY <1>1 DEF CaTokens
  <2>6. \A o \in CaRequest : caReq'[o].st = "persist" =>
          caReq'[o].r = caServer'.r /\ (caServer'.rotates => o = q)
    BY <1>4, <2>4 DEF CaTokens
  <2>7. ~caServer'.rotates => \A o \in CaRequest : CaLocked(o)' => caReq'[o].r = caServer'.r
    BY <1>1, <2>4 DEF CaTokens
  <2>8. QED
    BY <1>1, <2>1, <2>2, <2>3, <2>4, <2>5, <2>6, <2>7 DEF CaTokens
<1>6. CaCause'
  <2>1. \A o \in CaRequest : CaOwner[o] = CaOwner[q] /\ CaLocked(o)' => o = q
    BY <1>2
  <2>2. /\ caRefused' <= caServer'.a
        /\ \A o \in CaRequest : caReq'[o].st = "recover" => caReq'[o].tok <= caRefused'
    BY <1>1 DEF CaCause, CaTypes
  <2>3. QED
    BY <2>1, <2>2 DEF CaCause
<1>7. QED
  BY <1>3, <1>5, <1>6

(* What q was given is written down.                                       *)
LEMMA CaPersistKeeps ==
  ASSUME CaInv, NEW q \in CaRequest, CaPersist(q), CaTypes',
         \A o \in CaRequest : o # q => caReq'[o] = caReq[o],
         caReq'[q].st = "send"
  PROVE  CaInv'
<1> USE CaAssumption DEF CaInv, CaLocked
<1>1. /\ caReq[q].st = "persist" /\ UNCHANGED <<caServer, caStale, caRefused>>
      /\ caFile'.r = caReq[q].r /\ caReq[q].r = caServer.r
      /\ caLock' = [caLock EXCEPT ![CaOwner[q]] = CaFree]
      /\ caMem' = [caMem EXCEPT ![CaOwner[q]] = caReq[q].tok]
  BY DEF CaPersist, CaSaved, CaTokens
<1>2. \A o \in CaRequest : o # q /\ CaLocked(o) => CaOwner[o] # CaOwner[q]
  BY <1>1 DEF CaMutex
<1>3. CaMutex'
  <2>1. /\ caLock'[CaOwner[q]] = CaFree
        /\ \A p \in CaProcess : p # CaOwner[q] => caLock'[p] = caLock[p]
    BY <1>1 DEF CaTypes
  <2>2. \A o \in CaRequest : CaOwner[o] \in CaProcess /\ o # CaFree
    BY DEF CaFree
  <2>3. QED
    BY <1>2, <2>1, <2>2 DEF CaMutex
<1>4. CaTokens'
  <2>1. caFile'.r = caServer'.r
    BY <1>1
  <2>2. CaLoginKept' /\ CaSingleFlight'
    BY <1>1, <2>1 DEF CaTokens, CaLoginKept, CaSingleFlight
  <2>3. caFile.r <= caFile'.r /\ caFile'.r \in Nat /\ caFile.r \in Nat
    BY <1>1 DEF CaTokens, CaTypes
  <2>4. \A o \in CaRequest : caReq'[o].st = "exchange" => caReq'[o].r <= caFile'.r
    BY <2>3 DEF CaTokens, CaTypes
  <2>5. caServer.rotates => \A o \in CaRequest : caReq'[o].st # "persist"
    <3> SUFFICES ASSUME caServer.rotates, NEW o \in CaRequest, caReq'[o].st = "persist"
                 PROVE  FALSE
      OBVIOUS
    <3>1. o # q /\ caReq[o].st = "persist"
      OBVIOUS
    <3>2. CaOwner[o] = CaOwner[q]
      BY <1>1, <3>1 DEF CaTokens
    <3>3. QED
      BY <1>2, <3>1, <3>2
  <2>6. \A o \in CaRequest : caReq'[o].st \in {"exchange", "persist"} => o # q
    OBVIOUS
  <2>7. ~caServer.rotates => \A o \in CaRequest : CaLocked(o)' => caReq'[o].r = caServer.r
    BY <2>6 DEF CaTokens
  <2>8. \A o \in CaRequest : caReq'[o].st = "persist" => caReq'[o].r = caServer.r
    BY <2>6 DEF CaTokens
  <2>9. caFile'.r <= caServer'.r
    BY <2>1, <2>3
  <2>10. QED
    BY <1>1, <2>1, <2>2, <2>4, <2>5, <2>7, <2>8, <2>9 DEF CaTokens
<1>5. CaCause'
  <2>1. CaGone' = CaGone
    BY <1>1 DEF CaGone
  <2>2. caServer.by = CaOwner[q] => caMem'[CaOwner[q]] = caServer.a
    BY <1>1 DEF CaCause, CaTypes
  <2>3. \A p \in CaProcess : p # CaOwner[q] => caMem'[p] = caMem[p]
    BY <1>1 DEF CaTypes
  <2>4. \A p \in CaProcess : caServer'.by = p =>
          \/ caMem'[p] = caServer'.a
          \/ CaGone'
          \/ \E o \in CaRequest : CaOwner[o] = p /\ caReq'[o].st = "persist"
    BY <1>1, <2>1, <2>2, <2>3 DEF CaCause
  <2>5. QED
    BY <1>1, <2>1, <2>4 DEF CaCause
<1>6. QED
  BY <1>3, <1>4, <1>5
CaRecord == [st : CaSteps, tok : Nat, r : Nat, again : BOOLEAN]

LEMMA CaQuietActions ==
  ASSUME CaInv, NEW q \in CaRequest, CaAsk(q) \/ CaSend(q)
  PROVE  CaInv'
<1> USE DEF CaInv, CaTypes
<1> caReq \in [CaRequest -> CaRecord]
  BY DEF CaRecord
<1>1. CASE CaAsk(q)
  <2> DEFINE rec == [CaIdle EXCEPT !.st = "ask"]
  <2>1. rec \in CaRecord /\ rec.st = "ask"
    BY DEF CaRecord, CaIdle, CaSteps
  <2>2. caReq' = [caReq EXCEPT ![q] = rec] /\ caReq[q].st = "idle"
    BY <1>1 DEF CaAsk
  <2> HIDE DEF rec
  <2>3. caReq' \in [CaRequest -> CaRecord]
    BY <2>1, <2>2
  <2>4. CaTypes'
    BY <1>1, <2>3 DEF CaAsk, CaRecord
  <2>5. CaQuietStep(q)
    BY <1>1, <2>1, <2>2 DEF CaAsk, CaQuietStep, CaLocked
  <2>6. QED
    BY <2>4, <2>5, CaQuietKeeps
<1>2. CASE CaSend(q)
  <2> DEFINE rec == [caReq[q] EXCEPT !.st = "recover", !.again = TRUE]
  <2>1. rec \in CaRecord /\ rec.st = "recover" /\ rec.tok = caReq[q].tok
    BY DEF CaRecord, CaSteps
  <2>2. CaIdle \in CaRecord /\ CaIdle.st = "idle"
    BY DEF CaRecord, CaIdle, CaSteps
  <2>3. /\ caReq[q].st = "send"
        /\ \/ caReq' = [caReq EXCEPT ![q] = CaIdle]
           \/ caReq' = [caReq EXCEPT ![q] = rec] /\ caReq[q].tok <= caRefused
    BY <1>2 DEF CaSend
  <2> HIDE DEF rec
  <2>4. caReq' \in [CaRequest -> CaRecord]
    BY <2>1, <2>2, <2>3
  <2>5. CaTypes'
    BY <1>2, <2>4 DEF CaSend, CaRecord
  <2>6. CaQuietStep(q)
    BY <1>2, <2>1, <2>2, <2>3 DEF CaSend, CaQuietStep, CaLocked
  <2>7. QED
    BY <2>5, <2>6, CaQuietKeeps
<1>3. QED
  BY <1>1, <1>2

LEMMA CaCurrentKeeps ==
  ASSUME CaInv, NEW q \in CaRequest, CaCurrent(q) PROVE CaInv'
<1> USE CaAssumption DEF CaInv, CaTypes
<1> DEFINE p == CaOwner[q]
           tok == IF caMem[p] # CaNone THEN caMem[p] ELSE caFile.a
           sends == [caReq[q] EXCEPT !.st = "send", !.tok = tok]
           renews == [caReq[q] EXCEPT !.st = "exchange", !.r = caFile.r]
<1>1. p \in CaProcess /\ tok \in Nat /\ caReq \in [CaRequest -> CaRecord]
  BY DEF CaRecord
<1>2. /\ sends \in CaRecord /\ sends.st = "send"
      /\ renews \in CaRecord /\ renews.st = "exchange" /\ renews.r = caFile.r
  <2>1. \A t \in Nat : LET s == [caReq[q] EXCEPT !.st = "send", !.tok = t]
                       IN  s \in CaRecord /\ s.st = "send"
    BY <1>1 DEF CaRecord, CaSteps
  <2>2. \A r \in Nat : LET s == [caReq[q] EXCEPT !.st = "exchange", !.r = r]
                       IN  s \in CaRecord /\ s.st = "exchange" /\ s.r = r
    BY <1>1 DEF CaRecord, CaSteps
  <2> HIDE DEF tok
  <2>3. QED
    BY <1>1, <2>1, <2>2
<1>3. /\ caReq[q].st = "ask" /\ caLock[p] = CaFree
      /\ UNCHANGED <<caServer, caStale, caRefused, caFile>>
      /\ \/ /\ caMem' = [caMem EXCEPT ![p] = tok] /\ caReq' = [caReq EXCEPT ![q] = sends]
            /\ UNCHANGED caLock
         \/ /\ tok <= caStale /\ caLock' = [caLock EXCEPT ![p] = q]
            /\ caReq' = [caReq EXCEPT ![q] = renews]
            /\ UNCHANGED caMem
  BY DEF CaCurrent, CaSends, CaNeedsRefresh, CaLockFree
<1>4. caMem[p] = caServer.a => tok = caServer.a
  BY DEF CaNone
<1> HIDE DEF sends, renews, tok
<1>5. CaTypes'
  <2>1. caReq' \in [CaRequest -> CaRecord]
    BY <1>1, <1>2, <1>3
  <2>2. caMem' \in [CaProcess -> Nat] /\ caLock' \in [CaProcess -> CaRequest \cup {CaFree}]
    BY <1>1, <1>3
  <2>3. QED
    BY <1>3, <2>1, <2>2 DEF CaRecord
<1>6. CASE caReq' = [caReq EXCEPT ![q] = sends] /\ UNCHANGED caLock
           /\ caMem' = [caMem EXCEPT ![p] = tok]
  <2>1. CaQuietStep(q)
    BY <1>1, <1>2, <1>3, <1>4, <1>6 DEF CaQuietStep, CaLocked
  <2>2. QED
    BY <1>5, <2>1, CaQuietKeeps
<1>7. CASE /\ tok <= caStale /\ caLock' = [caLock EXCEPT ![p] = q]
           /\ caReq' = [caReq EXCEPT ![q] = renews]
           /\ UNCHANGED caMem
  <2>1. caServer.by = p => CaGone
    <3> SUFFICES ASSUME caServer.by = p, caMem[p] # caServer.a, ~CaGone PROVE FALSE
      BY <1>4, <1>7 DEF CaGone
    <3>1. PICK o \in CaRequest : CaOwner[o] = p /\ caReq[o].st = "persist"
      BY <1>1 DEF CaCause
    <3>2. caLock[p] = o
      BY <3>1 DEF CaMutex, CaLocked
    <3>3. QED
      BY <1>3, <3>2 DEF CaFree
  <2>2. CaBeginsStep(q)
    BY <1>1, <1>2, <1>3, <1>7, <2>1 DEF CaBeginsStep, CaLocked
  <2>3. QED
    BY <1>5, <2>2, CaBeginsKeeps
<1>8. QED
  BY <1>3, <1>6, <1>7

LEMMA CaRecoverKeeps ==
  ASSUME CaInv, NEW q \in CaRequest, CaRecover(q) PROVE CaInv'
<1> USE CaAssumption DEF CaInv, CaTypes
<1> DEFINE p == CaOwner[q]
           sends(tok) == [caReq[q] EXCEPT !.st = "send", !.tok = tok]
           renews == [caReq[q] EXCEPT !.st = "exchange", !.r = caFile.r]
<1>1. p \in CaProcess /\ caReq \in [CaRequest -> CaRecord]
  BY DEF CaRecord
<1>2. /\ sends(caMem[p]) \in CaRecord /\ sends(caMem[p]).st = "send"
      /\ sends(caFile.a) \in CaRecord /\ sends(caFile.a).st = "send"
      /\ renews \in CaRecord /\ renews.st = "exchange" /\ renews.r = caFile.r
  BY <1>1 DEF CaRecord, CaSteps
<1>3. /\ caReq[q].st = "recover" /\ caLock[p] = CaFree
      /\ UNCHANGED <<caServer, caStale, caRefused, caFile>>
      /\ \/ /\ caReq' = [caReq EXCEPT ![q] = sends(caMem[p])]
            /\ UNCHANGED <<caMem, caLock>>
         \/ /\ ~CaRenewedHere(q) /\ caMem' = [caMem EXCEPT ![p] = caFile.a]
            /\ caReq' = [caReq EXCEPT ![q] = sends(caFile.a)]
            /\ UNCHANGED caLock
         \/ /\ ~CaRenewedHere(q) /\ caLock' = [caLock EXCEPT ![p] = q]
            /\ caReq' = [caReq EXCEPT ![q] = renews]
            /\ UNCHANGED caMem
  BY DEF CaRecover, CaSends, CaLockFree
<1>4. ~CaRenewedHere(q) /\ caMem[p] = caServer.a => CaGone
  <2>1. caReq[q].tok <= caRefused
    BY <1>3 DEF CaCause
  <2>2. QED
    BY <2>1 DEF CaRenewedHere, CaNone, CaGone
<1> HIDE DEF sends, renews
<1>5. CaTypes'
  <2>1. caReq' \in [CaRequest -> CaRecord]
    BY <1>1, <1>2, <1>3
  <2>2. caMem' \in [CaProcess -> Nat] /\ caLock' \in [CaProcess -> CaRequest \cup {CaFree}]
    BY <1>1, <1>3
  <2>3. QED
    BY <1>3, <2>1, <2>2 DEF CaRecord
<1>6. CASE caReq' = [caReq EXCEPT ![q] = sends(caMem[p])] /\ UNCHANGED <<caMem, caLock>>
  <2>1. CaQuietStep(q)
    BY <1>1, <1>2, <1>3, <1>6 DEF CaQuietStep, CaLocked
  <2>2. QED
    BY <1>5, <2>1, CaQuietKeeps
<1>7. CASE /\ ~CaRenewedHere(q) /\ caMem' = [caMem EXCEPT ![p] = caFile.a]
           /\ caReq' = [caReq EXCEPT ![q] = sends(caFile.a)]
           /\ UNCHANGED caLock
  <2>1. CaQuietStep(q)
    BY <1>1, <1>2, <1>3, <1>4, <1>7 DEF CaQuietStep, CaLocked
  <2>2. QED
    BY <1>5, <2>1, CaQuietKeeps
<1>8. CASE /\ ~CaRenewedHere(q) /\ caLock' = [caLock EXCEPT ![p] = q]
           /\ caReq' = [caReq EXCEPT ![q] = renews]
           /\ UNCHANGED caMem
  <2>1. caServer.by = p => CaGone
    <3> SUFFICES ASSUME caServer.by = p, caMem[p] # caServer.a, ~CaGone PROVE FALSE
      BY <1>4, <1>8
    <3>1. PICK o \in CaRequest : CaOwner[o] = p /\ caReq[o].st = "persist"
      BY <1>1 DEF CaCause
    <3>2. caLock[p] = o
      BY <3>1 DEF CaMutex, CaLocked
    <3>3. QED
      BY <1>3, <3>2 DEF CaFree
  <2>2. CaBeginsStep(q)
    BY <1>1, <1>2, <1>3, <1>8, <2>1 DEF CaBeginsStep, CaLocked
  <2>3. QED
    BY <1>5, <2>2, CaBeginsKeeps
<1>9. QED
  BY <1>3, <1>6, <1>7, <1>8

LEMMA CaAnyExchangeKeeps ==
  ASSUME CaInv, NEW q \in CaRequest, CaExchange(q) PROVE CaInv'
<1> USE CaAssumption DEF CaInv, CaTypes
<1> DEFINE a == caServer.a + 1
           r == IF caServer.rotates THEN caServer.r + 1 ELSE caServer.r
           server == [caServer EXCEPT !.a = a, !.r = r, !.by = CaOwner[q]]
           rec == [caReq[q] EXCEPT !.st = "persist", !.tok = a, !.r = r]
<1>1. caReq \in [CaRequest -> CaRecord] /\ a \in Nat \ {0} /\ r \in Nat
  BY DEF CaRecord
<1>2. /\ server \in [a : Nat \ {0}, r : Nat, by : CaProcess \cup {CaFree}, rotates : BOOLEAN]
      /\ server.a = a /\ server.r = r /\ server.by = CaOwner[q]
      /\ server.rotates = caServer.rotates
  <2> HIDE DEF a, r
  <2>1. QED
    BY <1>1
<1>3. /\ rec \in CaRecord /\ rec.st = "persist" /\ rec.tok = a /\ rec.r = r
      /\ CaIdle \in CaRecord /\ CaIdle.st = "idle"
  <2> HIDE DEF a, r
  <2>1. QED
    BY <1>1 DEF CaRecord, CaIdle, CaSteps
<1>4. /\ caReq[q].st = "exchange" /\ UNCHANGED <<caStale, caRefused, caFile, caMem>>
      /\ \/ /\ caReq[q].r = caServer.r /\ caServer' = server
            /\ caReq' = [caReq EXCEPT ![q] = rec] /\ UNCHANGED caLock
         \/ /\ caLock' = [caLock EXCEPT ![CaOwner[q]] = CaFree]
            /\ caReq' = [caReq EXCEPT ![q] = CaIdle] /\ UNCHANGED caServer
  <2>1. caReq[q].st = "exchange" /\ UNCHANGED <<caStale, caRefused, caFile, caMem>>
    BY DEF CaExchange
  <2>2. CASE /\ caReq[q].r = caServer.r /\ caServer' = server /\ UNCHANGED caLock
             /\ caReq' = [caReq EXCEPT ![q].st = "persist", ![q].tok = caServer'.a,
                                      ![q].r = caServer'.r]
    <3>1. caServer'.a = a /\ caServer'.r = r
      BY <1>2, <2>2
    <3> HIDE DEF a, r, server
    <3>2. QED
      BY <2>1, <2>2, <3>1
  <2> HIDE DEF rec
  <2>3. QED
    BY <2>1, <2>2 DEF CaExchange
<1>5. CASE /\ caReq[q].r = caServer.r /\ caServer' = server
           /\ caReq' = [caReq EXCEPT ![q] = rec] /\ UNCHANGED caLock
  <2> HIDE DEF server, rec
  <2>1. caReq' \in [CaRequest -> CaRecord]
    BY <1>1, <1>3, <1>5
  <2>2. CaTypes'
    BY <1>2, <1>4, <1>5, <2>1 DEF CaRecord
  <2>3. caReq'[q] = rec /\ \A o \in CaRequest : o # q => caReq'[o] = caReq[o]
    BY <1>1, <1>5
  <2>4. QED
    BY <1>2, <1>3, <1>4, <1>5, <2>2, <2>3, CaExchangeKeeps
<1>6. CASE /\ caLock' = [caLock EXCEPT ![CaOwner[q]] = CaFree]
           /\ caReq' = [caReq EXCEPT ![q] = CaIdle] /\ UNCHANGED caServer
  <2> HIDE DEF server, rec
  <2>1. caReq' \in [CaRequest -> CaRecord] /\ caLock' \in [CaProcess -> CaRequest \cup {CaFree}]
    BY <1>1, <1>3, <1>6
  <2>2. CaTypes'
    BY <1>4, <1>6, <2>1 DEF CaRecord
  <2>3. caReq'[q].st = "idle" /\ \A o \in CaRequest : o # q => caReq'[o] = caReq[o]
    BY <1>1, <1>3, <1>6
  <2>4. CaMutex'
    <3>1. \A o \in CaRequest : o # q /\ CaLocked(o) => CaOwner[o] # CaOwner[q]
      BY <1>4 DEF CaMutex, CaLocked
    <3>2. /\ caLock'[CaOwner[q]] = CaFree
          /\ \A p \in CaProcess : p # CaOwner[q] => caLock'[p] = caLock[p]
      BY <1>6
    <3>3. \A o \in CaRequest : CaOwner[o] \in CaProcess /\ o # CaFree
      BY DEF CaFree
    <3>4. QED
      BY <2>3, <3>1, <3>2, <3>3 DEF CaMutex, CaLocked
  <2>5. \A o \in CaRequest : CaLocked(o)' => o # q
    BY <2>3 DEF CaLocked
  <2>6. CaLoginKept' /\ CaSingleFlight'
    BY <1>4, <1>6, <2>3 DEF CaTokens, CaLoginKept, CaSingleFlight
  <2>7. CaTokens'
    BY <1>4, <1>6, <2>3, <2>5, <2>6 DEF CaTokens, CaLocked
  <2>8. CaCause'
    <3>1. CaGone' = CaGone
      BY <1>4, <1>6 DEF CaGone
    <3>2. QED
      BY <1>4, <1>6, <2>3, <3>1 DEF CaCause
  <2>9. QED
    BY <2>2, <2>4, <2>7, <2>8
<1>7. QED
  BY <1>4, <1>5, <1>6

LEMMA CaAnyPersistKeeps ==
  ASSUME CaInv, NEW q \in CaRequest, CaPersist(q) PROVE CaInv'
<1> USE CaAssumption DEF CaInv, CaTypes
<1> DEFINE rec == [caReq[q] EXCEPT !.st = "send"]
<1>1. caReq \in [CaRequest -> CaRecord]
  BY DEF CaRecord
<1>2. rec \in CaRecord /\ rec.st = "send"
  BY <1>1 DEF CaRecord, CaSteps
<1>3. caReq' = [caReq EXCEPT ![q] = rec]
  <2>1. caReq' = [caReq EXCEPT ![q].st = "send"]
    BY DEF CaPersist
  <2>2. QED
    BY <2>1, Zenon
<1> HIDE DEF rec
<1>4. caReq' \in [CaRequest -> CaRecord]
  BY <1>1, <1>2, <1>3
<1>5. CaTypes'
  BY <1>4 DEF CaPersist, CaSaved, CaRecord
<1>6. QED
  BY <1>1, <1>2, <1>3, <1>5, CaPersistKeeps

LEMMA CaInvStep == CaInv /\ [CaNext]_caVars => CaInv'
<1> SUFFICES ASSUME CaInv, [CaNext]_caVars PROVE CaInv'
  OBVIOUS
<1> USE CaAssumption
<1>1. CASE CaTokenGoesBad
  <2>1. CaTypes'
    BY <1>1 DEF CaTokenGoesBad, CaInv, CaTypes
  <2>2. /\ UNCHANGED <<caServer, caFile, caMem, caLock, caReq>>
        /\ caServer.a \in Nat /\ caStale \in Nat /\ caRefused \in Nat
        /\ \/ caStale' = caServer.a /\ UNCHANGED caRefused
           \/ caRefused' = caServer.a /\ UNCHANGED caStale
    BY <1>1 DEF CaTokenGoesBad, CaInv, CaTypes
  <2>3. CaMutex' /\ CaTokens'
    BY <2>2 DEF CaInv, CaMutex, CaTokens, CaLocked, CaLoginKept, CaSingleFlight
  <2>4. CaGone'
    BY <2>2 DEF CaGone
  <2>5. \A q \in CaRequest : caReq[q].st = "recover" => caReq[q].tok <= caRefused'
    <3> SUFFICES ASSUME NEW q \in CaRequest, caReq[q].st = "recover"
                 PROVE  caReq[q].tok <= caRefused'
      OBVIOUS
    <3>1. caReq[q].tok <= caRefused /\ caReq[q].tok \in Nat /\ caRefused <= caServer.a
      BY DEF CaInv, CaTypes, CaCause
    <3>2. QED
      BY <2>2, <3>1
  <2>6. CaCause'
    <3>1. caRefused' <= caServer'.a
      BY <2>2 DEF CaInv, CaCause
    <3>2. QED
      BY <2>2, <2>4, <2>5, <3>1 DEF CaInv, CaCause
  <2>7. QED
    BY <2>1, <2>3, <2>6 DEF CaInv
<1>2. ASSUME NEW q \in CaRequest, CaAsk(q) \/ CaSend(q) PROVE CaInv'
  BY <1>2, CaQuietActions
<1>3. ASSUME NEW q \in CaRequest, CaCurrent(q) PROVE CaInv'
  BY <1>3, CaCurrentKeeps
<1>4. ASSUME NEW q \in CaRequest, CaRecover(q) PROVE CaInv'
  BY <1>4, CaRecoverKeeps
<1>5. ASSUME NEW q \in CaRequest, CaExchange(q) PROVE CaInv'
  BY <1>5, CaAnyExchangeKeeps
<1>6. ASSUME NEW q \in CaRequest, CaPersist(q) PROVE CaInv'
  BY <1>6, CaAnyPersistKeeps
<1>7. CASE UNCHANGED caVars
  BY <1>7 DEF caVars, CaInv, CaTypes, CaMutex, CaTokens, CaCause, CaGone, CaLocked,
              CaLoginKept, CaSingleFlight
<1>8. QED
  BY <1>1, <1>2, <1>3, <1>4, <1>5, <1>6, <1>7 DEF CaNext

LEMMA CaInvInit == CaInit => CaInv
<1> SUFFICES ASSUME CaInit PROVE CaInv
  OBVIOUS
<1>1. PICK rotates \in BOOLEAN :
        caServer = [a |-> 1, r |-> 1, by |-> CaFree, rotates |-> rotates]
  BY DEF CaInit
<1>2. CaIdle \in [st : CaSteps, tok : Nat, r : Nat, again : BOOLEAN] /\ CaIdle.st = "idle"
  BY DEF CaIdle, CaSteps
<1>3. CaTypes
  BY <1>1, <1>2 DEF CaInit, CaTypes, CaNone
<1>4. \A q \in CaRequest : caReq[q].st = "idle" /\ CaOwner[q] \in CaProcess /\ q # CaFree
  BY <1>2, CaAssumption DEF CaInit, CaFree
<1>5. CaMutex
  BY <1>4 DEF CaInit, CaMutex, CaLocked
<1>6. CaTokens
  BY <1>1, <1>4 DEF CaInit, CaTokens, CaLocked, CaLoginKept, CaSingleFlight
<1>7. \A p \in CaProcess : caServer.by # p
  BY <1>1, CaAssumption DEF CaFree
<1>8. caRefused <= caServer.a
  BY <1>1 DEF CaInit
<1>9. QED
  BY <1>3, <1>4, <1>5, <1>6, <1>7, <1>8 DEF CaInv, CaCause

(***************************************************************************)
(* read_auth, exchange and persist_tokens, under the mutex of current and  *)
(* recover_unauthorized: however many requests and processes refresh, the  *)
(* login on disk stays usable and no process spends a token twice.         *)
(***************************************************************************)
THEOREM CaSafety == CaSpec => []CaSafe
<1>1. CaInv => CaSafe
  BY DEF CaInv, CaSafe, CaTokens
<1>2. QED
  BY <1>1, CaInvInit, CaInvStep, PTL DEF CaSpec

(***************************************************************************)
(* recover_unauthorized: a process renews a token it was given last only   *)
(* for cause.                                                              *)
(***************************************************************************)
THEOREM CaCauseSafety == CaSpec => CaRenewedForCause
<1> DEFINE Renews == \A p \in CaProcess :
      caServer'.a # caServer.a /\ caServer'.by = p /\ caServer.by = p
        => caServer.a <= caStale \/ caServer.a <= caRefused
<1>1. CaInv /\ [CaNext]_caVars => [Renews]_caVars
  <2> SUFFICES ASSUME CaInv, [CaNext]_caVars, NEW p \in CaProcess,
                      caServer'.a # caServer.a, caServer'.by = p, caServer.by = p
               PROVE  CaGone
    BY DEF CaGone
  <2>1. PICK q \in CaRequest : CaExchange(q)
    BY DEF CaNext, caVars, CaTokenGoesBad, CaAsk, CaCurrent, CaPersist, CaSend, CaRecover
  <2>2. caReq[q].st = "exchange" /\ caServer'.by = CaOwner[q]
    BY <2>1 DEF CaExchange, CaInv, CaTypes
  <2>3. QED
    BY <2>2 DEF CaInv, CaCause
<1>2. QED
  BY <1>1, CaInvInit, CaInvStep, PTL DEF CaSpec, CaRenewedForCause

-----------------------------------------------------------------------------
(* ModelGate: admission and the cooldown                                   *)

MgHolds == {"looking", "blocked", "cooling", "entering"}
MgWaits == {"queued"} \cup MgHolds
MgSteps == {"idle", "active", "failed", "backoff", "done"} \cup MgWaits

MgTypes ==
  /\ mgStep \in [MgRequest -> MgSteps]
  /\ mgEmitted \in [MgRequest -> BOOLEAN] /\ mgHeard \in [MgRequest -> Nat]
  /\ mgActive \in Nat /\ mgLimit \in Nat /\ mgEdits \in Nat
  /\ mgCool \in Nat /\ mgAsked = mgCool

(* The queue holds the requests that wait, once each, and the one that has *)
(* the mutex is its head.                                                  *)
MgLine ==
  /\ mgFifo \in Seq(MgRequest) /\ Unique(mgFifo)
  /\ \A r \in MgRequest : r \in Range(mgFifo) <=> mgStep[r] \in MgWaits
  /\ \A r \in MgRequest : mgStep[r] \in MgHolds => r = Head(mgFifo)

(* The decision to enter stays right until the permit is counted: the head *)
(* of the queue is alone in taking one.                                    *)
MgDecided ==
  \A r \in MgRequest : mgStep[r] = "entering" /\ mgEdits = 0 =>
    /\ MgFits
    /\ mgLimit = 1 => mgCool = 0

MgHeardOnce ==
  \A r \in MgRequest :
    \/ mgHeard[r] = 0
    \/ mgHeard[r] = 1 /\ mgEmitted[r] /\ mgStep[r] \in {"active", "failed", "done"}

MgInv == MgTypes /\ MgLine /\ MgDecided /\ MgHeardOnce /\ MgWithinLimit /\ MgCooldownHeard

(* One more runs, one fewer.                                               *)
MgRunning == {r \in MgRequest : mgStep[r] \in {"active", "failed"}}

LEMMA MgCount ==
  ASSUME MgInv
  PROVE  /\ IsFiniteSet(MgRunning) /\ mgActive = Cardinality(MgRunning)
         /\ \A r \in MgRunning : mgActive > 0 /\ Cardinality(MgRunning \ {r}) = mgActive - 1
         /\ \A r \in MgRequest \ MgRunning : Cardinality(MgRunning \cup {r}) = mgActive + 1
<1>1. IsFiniteSet(MgRunning)
  BY MgAssumption, FS_Subset DEF MgRunning
<1>2. mgActive = Cardinality(MgRunning) /\ mgActive \in Nat
  BY DEF MgInv, MgWithinLimit, MgRunning, MgTypes
<1>3. ASSUME NEW r \in MgRunning
      PROVE  mgActive > 0 /\ Cardinality(MgRunning \ {r}) = mgActive - 1
  <2>1. Cardinality(MgRunning \ {r}) = Cardinality(MgRunning) - 1
    BY <1>1, FS_RemoveElement
  <2>2. Cardinality(MgRunning) # 0
    BY <1>1, FS_EmptySet
  <2>3. QED
    BY <1>2, <2>1, <2>2
<1>4. ASSUME NEW r \in MgRequest \ MgRunning
      PROVE  Cardinality(MgRunning \cup {r}) = mgActive + 1
  BY <1>1, <1>2, FS_AddElement
<1>5. QED
  BY <1>1, <1>2, <1>3, <1>4

(* A step of the request r: how the queue changes with it.                 *)
MgMoves(r) ==
  /\ \A o \in MgRequest : o # r => mgStep'[o] = mgStep[o]
  /\ mgStep' \in [MgRequest -> MgSteps]

LEMMA MgLineKeeps ==
  ASSUME MgInv, NEW r \in MgRequest, MgMoves(r),
         \/ /\ mgFifo' = mgFifo
            /\ mgStep[r] \in MgWaits <=> mgStep'[r] \in MgWaits
            /\ mgStep'[r] \in MgHolds => Head(mgFifo) = r
         \/ /\ mgFifo' = Append(mgFifo, r)
            /\ mgStep[r] \notin MgWaits /\ mgStep'[r] = "queued"
         \/ mgFifo' = Without(mgFifo, {r}) /\ mgStep'[r] \notin MgWaits
  PROVE  MgLine'
<1> USE DEF MgInv, MgLine, MgMoves
<1>1. CASE /\ mgFifo' = mgFifo
           /\ mgStep[r] \in MgWaits <=> mgStep'[r] \in MgWaits
           /\ mgStep'[r] \in MgHolds => Head(mgFifo) = r
  BY <1>1
<1>2. CASE /\ mgFifo' = Append(mgFifo, r)
           /\ mgStep[r] \notin MgWaits /\ mgStep'[r] = "queued"
  <2>1. Unique(mgFifo') /\ Range(mgFifo') = Range(mgFifo) \cup {r}
    BY <1>2, AppendUnique
  <2>2. mgFifo' \in Seq(MgRequest)
    BY <1>2
  <2>3. mgStep'[r] \in MgWaits /\ mgStep'[r] \notin MgHolds
    BY <1>2 DEF MgWaits, MgHolds
  <2>4. \A o \in MgRequest : o \in Range(mgFifo) => Head(mgFifo') = Head(mgFifo)
    BY <1>2 DEF Range
  <2>5. \A o \in MgRequest : mgStep[o] \in MgHolds => mgStep[o] \in MgWaits
    BY DEF MgWaits
  <2>6. QED
    BY <2>1, <2>2, <2>3, <2>4, <2>5
<1>3. CASE mgFifo' = Without(mgFifo, {r}) /\ mgStep'[r] \notin MgWaits
  <2>1. /\ mgFifo' \in Seq(MgRequest)
        /\ \A x : x \in Range(mgFifo') <=> x \in Range(mgFifo) /\ x # r
        /\ Unique(mgFifo')
        /\ mgFifo # <<>> /\ Head(mgFifo) # r => Head(mgFifo') = Head(mgFifo)
    BY <1>3, WithoutKeeps
  <2>2. \A o \in MgRequest : o \in Range(mgFifo) => mgFifo # <<>>
    BY DEF Range
  <2>3. \A o \in MgRequest : mgStep'[o] \in MgHolds =>
          o # r /\ o \in Range(mgFifo) /\ o = Head(mgFifo)
    BY <1>3 DEF MgWaits
  <2>4. \A o \in MgRequest : o \in Range(mgFifo') <=> mgStep'[o] \in MgWaits
    BY <1>3, <2>1
  <2>5. \A o \in MgRequest : mgStep'[o] \in MgHolds => o = Head(mgFifo')
    BY <2>1, <2>2, <2>3
  <2>6. QED
    BY <2>1, <2>4, <2>5
<1>4. QED
  BY <1>1, <1>2, <1>3

(* The rest of the invariant when r starts or stops running, or does not.  *)
LEMMA MgRunningKeeps ==
  ASSUME MgInv, NEW r \in MgRequest, MgMoves(r),
         UNCHANGED <<mgLimit, mgEdits>>,
         \/ /\ UNCHANGED mgActive
            /\ mgStep[r] \in {"active", "failed"} <=> mgStep'[r] \in {"active", "failed"}
         \/ /\ mgStep[r] \in {"active", "failed"} /\ mgStep'[r] \notin {"active", "failed"}
            /\ mgActive' = mgActive - 1
         \/ /\ mgStep[r] \notin {"active", "failed"} /\ mgStep'[r] \in {"active", "failed"}
            /\ mgActive' = mgActive + 1
            /\ mgEdits = 0 => MgFits
  PROVE  /\ mgActive' \in Nat
         /\ mgActive' = Cardinality(MgRunning')
         /\ mgEdits' = 0 /\ mgLimit' # 0 => mgActive' <= mgLimit'
<1> USE DEF MgMoves
<1>1. mgActive \in Nat /\ mgLimit \in Nat /\ (mgEdits = 0 /\ mgLimit # 0 => mgActive <= mgLimit)
  BY DEF MgInv, MgTypes, MgWithinLimit
<1>2. CASE /\ UNCHANGED mgActive
           /\ mgStep[r] \in {"active", "failed"} <=> mgStep'[r] \in {"active", "failed"}
  <2>1. MgRunning' = MgRunning
    BY <1>2 DEF MgRunning
  <2>2. QED
    BY <1>1, <1>2, <2>1, MgCount
<1>3. CASE /\ mgStep[r] \in {"active", "failed"} /\ mgStep'[r] \notin {"active", "failed"}
           /\ mgActive' = mgActive - 1
  <2>1. MgRunning' = MgRunning \ {r} /\ r \in MgRunning
    BY <1>3 DEF MgRunning
  <2>2. Cardinality(MgRunning') = mgActive - 1 /\ mgActive > 0
    BY <2>1, MgCount
  <2>3. QED
    BY <1>1, <1>3, <2>2
<1>4. CASE /\ mgStep[r] \notin {"active", "failed"} /\ mgStep'[r] \in {"active", "failed"}
           /\ mgActive' = mgActive + 1
           /\ mgEdits = 0 => MgFits
  <2>1. MgRunning' = MgRunning \cup {r} /\ r \in MgRequest \ MgRunning
    BY <1>4 DEF MgRunning
  <2>2. Cardinality(MgRunning') = mgActive + 1
    BY <2>1, MgCount
  <2>3. QED
    BY <1>1, <1>4, <2>2 DEF MgFits
<1>5. QED
  BY <1>2, <1>3, <1>4

(* The gate decides for one request at a time.                             *)
MgDecidesFor(r) ==
  mgStep'[r] = "entering" /\ mgEdits = 0 => MgFits /\ (mgLimit = 1 => mgCool = 0)

LEMMA MgDecidedKeeps ==
  ASSUME MgInv, NEW r \in MgRequest, MgMoves(r),
         UNCHANGED <<mgLimit, mgEdits, mgCool>>, mgActive' \in Nat,
         \/ mgActive' = mgActive /\ (mgStep[r] # "entering" => MgDecidesFor(r))
         \/ mgActive' = mgActive - 1 /\ mgStep'[r] # "entering"
         \/ mgStep[r] = "entering" /\ mgStep'[r] = "active"
  PROVE  MgDecided'
<1> USE DEF MgMoves
<1>1. mgActive \in Nat /\ mgLimit \in Nat
  BY DEF MgInv, MgTypes
<1> SUFFICES ASSUME NEW o \in MgRequest, mgStep'[o] = "entering", mgEdits = 0
             PROVE  MgFits' /\ (mgLimit = 1 => mgCool = 0)
  BY DEF MgDecided
<1>2. CASE o # r
  <2>1. mgStep[o] = "entering" /\ MgFits /\ (mgLimit = 1 => mgCool = 0)
    BY <1>2 DEF MgInv, MgDecided
  <2>2. mgStep[r] # "entering"
    BY <1>2, <2>1 DEF MgInv, MgLine, MgHolds
  <2>3. QED
    BY <1>1, <2>1, <2>2 DEF MgFits
<1>3. CASE o = r
  BY <1>1, <1>3 DEF MgInv, MgDecided, MgDecidesFor, MgFits
<1>4. QED
  BY <1>2, <1>3

(* A step that leaves the limit and the cooldown alone.                    *)
LEMMA MgStepKeeps ==
  ASSUME MgInv, NEW r \in MgRequest, MgMoves(r),
         UNCHANGED <<mgLimit, mgEdits, mgCool, mgAsked>>,
         mgEmitted' \in [MgRequest -> BOOLEAN], mgHeard' \in [MgRequest -> Nat],
         MgLine', MgDecided', MgHeardOnce',
         /\ mgActive' \in Nat
         /\ mgActive' = Cardinality(MgRunning')
         /\ mgEdits' = 0 /\ mgLimit' # 0 => mgActive' <= mgLimit',
         mgLimit = 1 /\ mgEdits = 0 /\ ~mgEarly => ~mgEarly'
  PROVE  MgInv'
<1>1. MgTypes'
  BY DEF MgInv, MgTypes, MgMoves
<1>2. MgWithinLimit'
  BY DEF MgWithinLimit, MgRunning
<1>3. MgCooldownHeard'
  BY DEF MgInv, MgCooldownHeard
<1>4. QED
  BY <1>1, <1>2, <1>3 DEF MgInv

LEMMA MgWaitingSteps ==
  ASSUME MgInv, NEW r \in MgRequest,
         MgQueue(r) \/ MgAdmitted(r) \/ MgLook(r) \/ MgLooksAgain(r) \/ MgRetry(r)
  PROVE  MgInv'
<1> USE DEF MgSteps, MgWaits, MgHolds
<1>0. mgStep \in [MgRequest -> MgSteps] /\ mgActive \in Nat
  BY DEF MgInv, MgTypes
<1>1. /\ UNCHANGED <<mgActive, mgLimit, mgEdits, mgCool, mgAsked, mgEmitted, mgHeard, mgEarly>>
      /\ mgStep[r] \notin {"active", "failed", "done", "entering"}
      /\ mgStep'[r] \notin {"active", "failed", "done"}
      /\ mgStep'[r] \in MgSteps /\ mgStep' = [mgStep EXCEPT ![r] = mgStep'[r]]
      /\ mgStep'[r] = "entering" => MgFits /\ mgCool = 0
  BY <1>0 DEF MgQueue, MgAdmitted, MgLook, MgLooksAgain, MgRetry, MgGoes
<1>2. MgMoves(r)
  BY <1>0, <1>1 DEF MgMoves
<1>3. MgLine'
  <2>1. CASE MgQueue(r) \/ MgRetry(r)
    BY <1>0, <1>2, <2>1, MgLineKeeps DEF MgQueue, MgRetry, MgGoes
  <2>2. CASE MgAdmitted(r)
    BY <1>0, <1>2, <2>2, MgLineKeeps DEF MgAdmitted, MgGoes
  <2>3. CASE MgLook(r) \/ MgLooksAgain(r)
    <3>1. /\ mgFifo' = mgFifo /\ mgStep[r] \in MgHolds
          /\ mgStep[r] \in MgWaits /\ mgStep'[r] \in MgWaits
      BY <1>0, <2>3 DEF MgLook, MgLooksAgain, MgGoes
    <3>2. Head(mgFifo) = r
      BY <3>1 DEF MgInv, MgLine
    <3>3. QED
      BY <1>2, <3>1, <3>2, MgLineKeeps
  <2>4. QED
    BY <2>1, <2>2, <2>3
<1>4. MgDecided'
  BY <1>0, <1>1, <1>2, MgDecidedKeeps DEF MgDecidesFor
<1>5. MgHeardOnce'
  BY <1>1, <1>2 DEF MgInv, MgHeardOnce, MgMoves
<1>6. /\ mgActive' \in Nat
      /\ mgActive' = Cardinality(MgRunning')
      /\ mgEdits' = 0 /\ mgLimit' # 0 => mgActive' <= mgLimit'
  BY <1>1, <1>2, MgRunningKeeps
<1>7. mgEmitted' \in [MgRequest -> BOOLEAN] /\ mgHeard' \in [MgRequest -> Nat]
  BY <1>1 DEF MgInv, MgTypes
<1>8. QED
  BY <1>1, <1>2, <1>3, <1>4, <1>5, <1>6, <1>7, MgStepKeeps

LEMMA MgEnterKeeps ==
  ASSUME MgInv, NEW r \in MgRequest, MgEnter(r) PROVE MgInv'
<1> USE DEF MgSteps, MgWaits, MgHolds
<1>0. mgStep \in [MgRequest -> MgSteps] /\ mgActive \in Nat /\ mgAsked = mgCool /\ mgCool \in Nat
      /\ mgEmitted \in [MgRequest -> BOOLEAN] /\ mgHeard \in [MgRequest -> Nat]
  BY DEF MgInv, MgTypes
<1>1. /\ UNCHANGED <<mgLimit, mgEdits, mgCool, mgAsked, mgHeard>>
      /\ mgStep[r] = "entering" /\ mgStep' = [mgStep EXCEPT ![r] = "active"]
      /\ mgActive' = mgActive + 1 /\ mgFifo' = Without(mgFifo, {r})
      /\ mgEmitted' = [mgEmitted EXCEPT ![r] = FALSE]
      /\ mgEarly' = (mgEarly \/ mgAsked > 0)
  BY DEF MgEnter, MgGoes, MgLeaves
<1>2. MgMoves(r) /\ mgStep'[r] = "active"
  BY <1>0, <1>1 DEF MgMoves
<1>3. mgEdits = 0 => MgFits /\ (mgLimit = 1 => mgCool = 0)
  BY <1>1 DEF MgInv, MgDecided
<1>4. MgLine'
  BY <1>1, <1>2, MgLineKeeps
<1>5. MgDecided'
  BY <1>0, <1>1, <1>2, MgDecidedKeeps
<1>6. MgHeardOnce'
  <2>1. mgHeard[r] = 0
    BY <1>1 DEF MgInv, MgHeardOnce
  <2>2. \A o \in MgRequest : o # r => mgStep'[o] = mgStep[o] /\ mgEmitted'[o] = mgEmitted[o]
    BY <1>0, <1>1
  <2>3. QED
    BY <1>1, <2>1, <2>2 DEF MgInv, MgHeardOnce
<1>7. /\ mgActive' \in Nat
      /\ mgActive' = Cardinality(MgRunning')
      /\ mgEdits' = 0 /\ mgLimit' # 0 => mgActive' <= mgLimit'
  BY <1>1, <1>2, <1>3, MgRunningKeeps
<1>8. mgLimit = 1 /\ mgEdits = 0 /\ ~mgEarly => ~mgEarly'
  <2>1. mgLimit = 1 /\ mgEdits = 0 => ~(mgAsked > 0)
    BY <1>0, <1>3
  <2>2. QED
    BY <1>1, <2>1, Zenon
<1>9. mgEmitted' \in [MgRequest -> BOOLEAN] /\ mgHeard' \in [MgRequest -> Nat]
  BY <1>0, <1>1
<1>10. QED
  BY <1>1, <1>2, <1>4, <1>5, <1>6, <1>7, <1>8, <1>9, MgStepKeeps

LEMMA MgStopKeeps ==
  ASSUME MgInv, NEW r \in MgRequest, MgEnds(r) \/ MgBacksOff(r) \/ MgCancel(r)
  PROVE  MgInv'
<1> USE DEF MgSteps, MgWaits, MgHolds
<1>0. mgStep \in [MgRequest -> MgSteps] /\ mgActive \in Nat
      /\ mgEmitted \in [MgRequest -> BOOLEAN] /\ mgHeard \in [MgRequest -> Nat]
  BY DEF MgInv, MgTypes
<1>1. /\ UNCHANGED <<mgLimit, mgEdits, mgCool, mgAsked, mgHeard, mgEmitted, mgEarly>>
      /\ mgStep' = [mgStep EXCEPT ![r] = mgStep'[r]] /\ mgStep'[r] \in {"done", "backoff"}
      /\ mgStep'[r] = "backoff" => mgStep[r] = "failed" /\ ~mgEmitted[r]
      /\ \/ mgStep[r] \in {"active", "failed"} /\ mgActive' = mgActive - 1
         \/ mgStep[r] \notin {"active", "failed"} /\ mgActive' = mgActive
      /\ \/ mgFifo' = mgFifo /\ mgStep[r] \in {"active", "failed"}
         \/ mgFifo' = Without(mgFifo, {r})
  BY <1>0 DEF MgEnds, MgBacksOff, MgCancel, MgGoes, MgLeaves, MgRelease, MgGivesUp
<1>2. MgMoves(r)
  BY <1>0, <1>1 DEF MgMoves
<1>3. MgLine'
  BY <1>1, <1>2, MgLineKeeps
<1>4. /\ mgActive' \in Nat
      /\ mgActive' = Cardinality(MgRunning')
      /\ mgEdits' = 0 /\ mgLimit' # 0 => mgActive' <= mgLimit'
  BY <1>1, <1>2, MgRunningKeeps
<1>5. MgDecided'
  BY <1>1, <1>2, <1>4, MgDecidedKeeps DEF MgDecidesFor
<1>6. MgHeardOnce'
  BY <1>1, <1>2 DEF MgInv, MgHeardOnce, MgMoves
<1>7. QED
  BY <1>0, <1>1, <1>2, <1>3, <1>4, <1>5, <1>6, MgStepKeeps

LEMMA MgEmitsKeeps ==
  ASSUME MgInv, NEW r \in MgRequest, MgEmits(r) PROVE MgInv'
<1>0. mgEmitted \in [MgRequest -> BOOLEAN] /\ mgHeard \in [MgRequest -> Nat]
      /\ mgStep \in [MgRequest -> MgSteps]
  BY DEF MgInv, MgTypes
<1>1. /\ UNCHANGED <<mgStep, mgFifo, mgActive, mgLimit, mgEdits, mgCool, mgAsked, mgEarly>>
      /\ mgStep[r] = "active" /\ mgEmitted' = [mgEmitted EXCEPT ![r] = TRUE]
      /\ mgHeard' = [mgHeard EXCEPT ![r] = mgHeard[r] + 1] /\ ~mgEmitted[r]
  BY DEF MgEmits
<1>2. mgHeard[r] = 0
  BY <1>1 DEF MgInv, MgHeardOnce
<1>3. MgHeardOnce'
  <2>1. mgHeard'[r] = 1 /\ mgEmitted'[r]
    BY <1>0, <1>1, <1>2
  <2>2. \A o \in MgRequest : o # r => mgHeard'[o] = mgHeard[o] /\ mgEmitted'[o] = mgEmitted[o]
    BY <1>0, <1>1
  <2>3. QED
    BY <1>1, <2>1, <2>2 DEF MgInv, MgHeardOnce
<1>4. mgEmitted' \in [MgRequest -> BOOLEAN] /\ mgHeard' \in [MgRequest -> Nat]
  BY <1>0, <1>1
<1>5. MgLine' /\ MgDecided' /\ MgWithinLimit' /\ MgCooldownHeard'
  BY <1>1 DEF MgInv, MgLine, MgDecided, MgFits, MgWithinLimit, MgCooldownHeard
<1>6. QED
  BY <1>1, <1>3, <1>4, <1>5 DEF MgInv, MgTypes

(* The greater of two numbers is one of them.                              *)
LEMMA MaxOfTwo ==
  ASSUME NEW a \in Nat, NEW b \in Nat
  PROVE  Max({a, b}) \in Nat
<1>1. \E x \in {a, b} : \A y \in {a, b} : x >= y
  OBVIOUS
<1>2. Max({a, b}) \in {a, b}
  BY <1>1 DEF Max
<1>3. QED
  BY <1>2

LEMMA MgFailsKeeps ==
  ASSUME MgInv, NEW r \in MgRequest, NEW delay \in MgDelays, MgFails(r, delay)
  PROVE  MgInv'
<1> USE DEF MgSteps, MgWaits, MgHolds
<1>0. mgStep \in [MgRequest -> MgSteps] /\ mgActive \in Nat /\ mgLimit \in Nat
      /\ mgEmitted \in [MgRequest -> BOOLEAN] /\ mgHeard \in [MgRequest -> Nat]
      /\ mgCool \in Nat /\ mgAsked = mgCool
  BY DEF MgInv, MgTypes
<1>1. /\ UNCHANGED <<mgFifo, mgActive, mgLimit, mgEdits, mgHeard, mgEmitted, mgEarly>>
      /\ mgStep[r] = "active" /\ mgStep' = [mgStep EXCEPT ![r] = "failed"]
      /\ mgCool' = Max({mgCool, delay}) /\ mgAsked' = Max({mgAsked, delay})
  BY DEF MgFails, MgGoes, MgPublishes
<1>2. MgMoves(r) /\ mgStep'[r] = "failed"
  BY <1>0, <1>1 DEF MgMoves
<1>3. mgCool' \in Nat /\ mgAsked' = mgCool'
  <2>1. delay \in Nat
    BY MgAssumption
  <2>2. QED
    BY <1>0, <1>1, <2>1, MaxOfTwo
<1>4. MgLine'
  BY <1>1, <1>2, MgLineKeeps
<1>5. /\ mgActive' = Cardinality(MgRunning')
      /\ mgEdits' = 0 /\ mgLimit' # 0 => mgActive' <= mgLimit'
  BY <1>1, <1>2, MgRunningKeeps
<1>6. MgDecided'
  <2> SUFFICES ASSUME NEW o \in MgRequest, mgStep'[o] = "entering", mgEdits = 0
               PROVE  MgFits /\ mgLimit # 1
    BY <1>1 DEF MgDecided, MgFits
  <2>1. mgStep[o] = "entering"
    BY <1>2 DEF MgMoves
  <2>2. MgFits
    BY <2>1 DEF MgInv, MgDecided
  <2>3. mgActive > 0
    BY <1>1, MgCount DEF MgRunning
  <2>4. QED
    BY <1>0, <2>2, <2>3 DEF MgFits
<1>7. MgHeardOnce'
  BY <1>1, <1>2 DEF MgInv, MgHeardOnce, MgMoves
<1>8. MgTypes'
  BY <1>0, <1>1, <1>2, <1>3 DEF MgInv, MgTypes, MgMoves
<1>9. MgWithinLimit' /\ MgCooldownHeard'
  BY <1>1, <1>5 DEF MgInv, MgWithinLimit, MgRunning, MgCooldownHeard
<1>10. QED
  BY <1>4, <1>6, <1>7, <1>8, <1>9 DEF MgInv

LEMMA MgInvStep == MgInv /\ [MgNext]_mgVars => MgInv'
<1> SUFFICES ASSUME MgInv, [MgNext]_mgVars PROVE MgInv'
  OBVIOUS
<1>1. ASSUME NEW r \in MgRequest,
             MgQueue(r) \/ MgAdmitted(r) \/ MgLook(r) \/ MgLooksAgain(r) \/ MgRetry(r)
      PROVE  MgInv'
  BY <1>1, MgWaitingSteps
<1>2. ASSUME NEW r \in MgRequest, MgEnter(r) PROVE MgInv'
  BY <1>2, MgEnterKeeps
<1>3. ASSUME NEW r \in MgRequest, MgEnds(r) \/ MgBacksOff(r) \/ MgCancel(r) PROVE MgInv'
  BY <1>3, MgStopKeeps
<1>4. ASSUME NEW r \in MgRequest, MgEmits(r) PROVE MgInv'
  BY <1>4, MgEmitsKeeps
<1>5. ASSUME NEW r \in MgRequest, NEW delay \in MgDelays, MgFails(r, delay) PROVE MgInv'
  BY <1>5, MgFailsKeeps
<1>6. ASSUME NEW limit \in MgLimits, MgEdit(limit) PROVE MgInv'
  <2>1. limit \in Nat /\ mgEdits \in Nat
    BY MgAssumption DEF MgInv, MgTypes
  <2>2. /\ mgLimit' = limit /\ mgEdits' = mgEdits + 1
        /\ UNCHANGED <<mgStep, mgEmitted, mgFifo, mgActive, mgCool, mgHeard, mgAsked, mgEarly>>
    BY <1>6 DEF MgEdit
  <2>3. mgEdits' \in Nat /\ mgEdits' # 0
    BY <2>1, <2>2
  <2>4. MgLine' /\ MgHeardOnce'
    BY <2>2 DEF MgInv, MgLine, MgHeardOnce
  <2>5. MgDecided' /\ MgWithinLimit' /\ MgCooldownHeard'
    BY <2>2, <2>3 DEF MgInv, MgDecided, MgWithinLimit, MgCooldownHeard
  <2>6. QED
    BY <2>1, <2>2, <2>3, <2>4, <2>5 DEF MgInv, MgTypes
<1>7. CASE MgTick
  <2>1. UNCHANGED <<mgStep, mgEmitted, mgFifo, mgActive, mgLimit, mgEdits, mgHeard, mgEarly>>
    BY <1>7 DEF MgTick
  <2>2. mgCool' \in Nat /\ mgAsked' = mgCool' /\ (mgCool = 0 => mgCool' = 0)
    <3>1. mgCool \in Nat /\ mgAsked = mgCool
      BY DEF MgInv, MgTypes
    <3>2. /\ mgCool' = IF mgCool > 0 THEN mgCool - 1 ELSE 0
          /\ mgAsked' = IF mgAsked > 0 THEN mgAsked - 1 ELSE 0
      BY <1>7 DEF MgTick
    <3>3. QED
      BY <3>1, <3>2
  <2>3. MgLine' /\ MgHeardOnce' /\ MgWithinLimit' /\ MgCooldownHeard'
    BY <2>1 DEF MgInv, MgLine, MgHeardOnce, MgWithinLimit, MgCooldownHeard
  <2>4. MgDecided'
    BY <2>1, <2>2 DEF MgInv, MgDecided, MgFits
  <2>5. QED
    BY <2>1, <2>2, <2>3, <2>4 DEF MgInv, MgTypes
<1>8. CASE UNCHANGED mgVars
  BY <1>8 DEF mgVars, MgInv, MgTypes, MgLine, MgDecided, MgFits, MgHeardOnce,
              MgWithinLimit, MgCooldownHeard
<1>9. QED
  BY <1>1, <1>2, <1>3, <1>4, <1>5, <1>6, <1>7, <1>8 DEF MgNext, MgGateStep

LEMMA MgInvInit == MgInit => MgInv
<1> SUFFICES ASSUME MgInit PROVE MgInv
  OBVIOUS
<1> USE DEF MgInit, MgSteps, MgWaits, MgHolds
<1>1. MgTypes
  BY MgAssumption DEF MgTypes
<1>2. MgLine
  BY DEF MgLine, Unique, Range
<1>3. MgDecided /\ MgHeardOnce /\ MgCooldownHeard
  BY DEF MgDecided, MgHeardOnce, MgCooldownHeard
<1>4. MgWithinLimit
  <2>1. MgRunning = {}
    BY DEF MgRunning
  <2>2. Cardinality({}) = 0
    BY FS_EmptySet
  <2>3. mgActive = 0 /\ mgLimit \in Nat
    BY <1>1 DEF MgTypes
  <2> HIDE DEF MgInit
  <2>4. mgActive = Cardinality(MgRunning) /\ mgActive <= mgLimit
    BY <2>1, <2>2, <2>3
  <2>5. QED
    BY <2>4 DEF MgWithinLimit, MgRunning
<1>5. QED
  BY <1>1, <1>2, <1>3, <1>4 DEF MgInv

(***************************************************************************)
(* ModelGate::acquire, ModelPermit::drop, ModelGate::defer and the retry   *)
(* loop of RetryModel::run: for any number of requests, the count is       *)
(* exact, a published cooldown is heard and no streamed attempt repeated.  *)
(***************************************************************************)
THEOREM MgSafety == MgSpec => []MgSafe
<1>1. MgInv => MgSafe
  BY DEF MgInv, MgSafe, MgNoReplay, MgHeardOnce
<1>2. QED
  BY <1>1, MgInvInit, MgInvStep, PTL DEF MgSpec

-----------------------------------------------------------------------------
(* SandboxProcess: what a sandboxed process leaves and delivers            *)

SxByte == {"a", "n", "t", "c"}
SxSuper == {"handshake", "ack", "running", "drain", "ended"}
SxPumping == {"none", "reading", "ended"}

SxTypes ==
  /\ sxGroup \subseteq {"leader", "command", "grandchild"}
  /\ sxLeader \in {"starts", "waits", "runs", "sleeps"}
  /\ sxErr \in Seq({"a", "n"}) /\ sxOut \in Nat
  /\ sxErrWire \in Seq(SxByte) /\ sxOutWire \in Nat
  /\ sxCli \in {"alive", "gone", "broken"} /\ sxSup \in SxSuper
  /\ sxPump \in [{"out", "err"} -> SxPumping]
  /\ sxPending \in Seq(SxByte) /\ sxTotal \in Nat
  /\ sxGotErr \in Seq(SxByte) /\ sxGotOut \in Nat
  /\ sxDone \in Seq({"error", "code"})
  /\ sxResult \in {"none", "code", "killed", "error"}
  /\ sxExit \in {"none", "code", "killed", "error"}

(* The bytes standard error consists of: what the command wrote, and the   *)
(* completion frame behind it once the leader sleeps.                      *)
SxFrame == <<"n", "t", "c", "n">>
SxSaid == IF sxLeader = "sleeps" THEN sxErr \o SxFrame ELSE sxErr

(* s is made of g, p and w, in this order.                                 *)
SxParts(s, g, p, w) ==
  /\ Len(s) = Len(g) + Len(p) + Len(w)
  /\ \A i \in 1 .. Len(g) : s[i] = g[i]
  /\ \A i \in 1 .. Len(p) : s[Len(g) + i] = p[i]
  /\ \A i \in 1 .. Len(w) : s[Len(g) + Len(p) + i] = w[i]

(* A pump that did not fail and whose pipe was not torn.                   *)
SxError == "error" \in ToSet(sxDone)
SxTrue == sxSup # "ended" /\ sxCli # "broken" /\ ~SxError

(* How far the run is, and what may still be alive then.                   *)
SxCourse ==
  /\ sxSup \in {"handshake", "ack"} =>
       /\ "command" \notin sxGroup /\ sxLeader \in {"starts", "waits"}
       /\ sxPump = [out |-> "none", err |-> "none"] /\ sxDone = <<>>
  /\ sxLeader = "sleeps" => "command" \notin sxGroup
  /\ sxSup # "ended" /\ sxCli = "gone" => "leader" \notin sxGroup
  /\ sxSup \in {"running", "drain"} => sxPump.err # "none" /\ sxPump.out # "none"
  /\ sxSup = "drain" => sxGroup = {} /\ sxResult = "code"
  /\ sxSup = "ended" <=> sxExit # "none"
  /\ sxSup = "ended" => sxCli # "alive" /\ sxPump.err # "reading" /\ sxPump.out # "reading"
  /\ sxExit \in {"code", "killed"} => sxGroup = {}
  /\ sxCaller \in {"answered", "stopped"} => sxExit \in {"code", "killed"}

(* Standard error, while its pump reads and after it saw the frame.        *)
SxErrSound ==
  SxTrue =>
    /\ sxPump.err # "ended" => SxParts(SxSaid, sxGotErr, sxPending, sxErrWire)
    /\ "code" \in ToSet(sxDone) \/ sxSup = "drain" =>
         sxPump.err = "ended" /\ sxLeader = "sleeps" /\ sxGotErr = sxErr

SxOutSound ==
  SxTrue =>
    /\ sxOut = sxGotOut + sxOutWire
    /\ sxPump.out = "ended" => sxOutWire = 0 /\ sxCli # "alive"

(* What is held back could begin the frame, and the limit is kept.         *)
SxBounds ==
  /\ Len(sxGotErr) + sxGotOut <= sxTotal /\ Len(sxGotErr) + sxGotOut <= SxLimit
  /\ SxFound(sxPending) = {} => IsPrefix(sxPending, SxMarker)

SxInv == SxTypes /\ SxCourse /\ SxErrSound /\ SxOutSound /\ SxBounds /\ SxWholeOutput
LEMMA SxRead ==
  ASSUME NEW B, NEW s \in Seq(B), NEW g \in Seq(B), NEW p \in Seq(B), NEW w \in Seq(B),
         NEW n \in 1 .. Len(w), SxParts(s, g, p, w)
  PROVE  LET q == p \o SubSeq(w, 1, n)
             r == SubSeq(w, n + 1, Len(w))
         IN  /\ q \in Seq(B) /\ r \in Seq(B) /\ Len(q) = Len(p) + n
             /\ SxParts(s, g, q, r)
<1> DEFINE v == SubSeq(w, 1, n)
           q == p \o v
           r == SubSeq(w, n + 1, Len(w))
<1>1. PICK l \in Nat, lg \in Nat, lp \in Nat, lw \in Nat :
         l = Len(s) /\ lg = Len(g) /\ lp = Len(p) /\ lw = Len(w)
  BY LenProperties
<1>2. /\ l = lg + lp + lw
      /\ \A i \in 1 .. lg : s[i] = g[i]
      /\ \A i \in 1 .. lp : s[lg + i] = p[i]
      /\ \A i \in 1 .. lw : s[lg + lp + i] = w[i]
  BY <1>1 DEF SxParts
<1>3. n \in Nat /\ n >= 1 /\ n =< lw /\ n + 1 \in Nat /\ n + 1 >= 1 /\ 1 \in Nat
  BY <1>1
<1>4. v \in Seq(B) /\ Len(v) = n /\ \A i \in 1 .. n : v[i] = w[i]
  <2>1. /\ v \in Seq(B) /\ Len(v) = (IF 1 =< n THEN n - 1 + 1 ELSE 0)
        /\ \A i \in 1 .. n - 1 + 1 : v[i] = w[1 + i - 1]
    BY <1>1, <1>3, PartIs
  <2>2. n - 1 + 1 = n /\ \A i \in 1 .. n : 1 + i - 1 = i
    BY <1>3
  <2> QED
    BY <1>3, <2>1, <2>2
<1>5. r \in Seq(B) /\ Len(r) = lw - n /\ \A i \in 1 .. (lw - n) : r[i] = w[n + i]
  <2>1. /\ r \in Seq(B) /\ Len(r) = (IF n + 1 =< lw THEN lw - (n + 1) + 1 ELSE 0)
        /\ \A i \in 1 .. lw - (n + 1) + 1 : r[i] = w[n + 1 + i - 1]
    BY <1>1, <1>3, PartIs
  <2>2. lw - (n + 1) + 1 = lw - n /\ (~(n + 1 =< lw) => lw - n = 0)
    BY <1>3
  <2>3. \A i \in 1 .. lw - n : n + 1 + i - 1 = n + i
    BY <1>3
  <2> QED
    BY <2>1, <2>2, <2>3
<1> HIDE DEF v
<1>6. /\ q \in Seq(B) /\ Len(q) = lp + n
      /\ \A i \in 1 .. lp : q[i] = p[i]
      /\ \A i \in 1 .. n : q[lp + i] = v[i]
  <2>1. v \in Seq(B)
    BY <1>4
  <2>2. /\ q \in Seq(B) /\ Len(q) = Len(p) + Len(v)
        /\ \A i \in 1 .. Len(p) : q[i] = p[i]
        /\ \A i \in 1 .. Len(v) : q[Len(p) + i] = v[i]
    BY <2>1, JoinIs
  <2> QED
    BY ONLY <1>1, <1>4, <2>2
<1> HIDE DEF q, r
<1>7. l = lg + (lp + n) + (lw - n)
  BY <1>2, <1>3
<1>8. \A i \in 1 .. (lp + n) : s[lg + i] = q[i]
  <2> TAKE i \in 1 .. (lp + n)
  <2>1. CASE i =< lp
    BY <1>2, <1>6, <2>1
  <2>2. CASE ~(i =< lp)
    <3>1. PICK j \in 1 .. n : i = lp + j
      <4>1. i - lp \in 1 .. n /\ i = lp + (i - lp)
        BY <2>2, <1>3
      <4> QED
        BY <4>1
    <3>2. q[i] = w[j] /\ j \in 1 .. lw /\ lg + i = lg + lp + j
      BY <1>3, <1>4, <1>6, <3>1
    <3> QED
      BY <1>2, <3>2
  <2> QED
    BY <2>1, <2>2
<1>9. \A i \in 1 .. (lw - n) : s[lg + (lp + n) + i] = r[i]
  <2> TAKE i \in 1 .. (lw - n)
  <2>1. n + i \in 1 .. lw /\ lg + (lp + n) + i = lg + lp + (n + i)
    BY <1>3
  <2> QED
    BY <1>2, <1>5, <2>1
<1>10. SxParts(s, g, q, r)
  BY <1>1, <1>2, <1>5, <1>6, <1>7, <1>8, <1>9 DEF SxParts
<1> QED
  BY <1>1, <1>5, <1>6, <1>10 DEF q, r, v

LEMMA SxEmit ==
  ASSUME NEW B, NEW s \in Seq(B), NEW g \in Seq(B), NEW q \in Seq(B), NEW w \in Seq(B),
         NEW k \in 0 .. Len(q), SxParts(s, g, q, w)
  PROVE  LET h == g \o SubSeq(q, 1, k)
             r == SubSeq(q, k + 1, Len(q))
         IN  /\ h \in Seq(B) /\ r \in Seq(B) /\ Len(h) = Len(g) + k /\ Len(r) = Len(q) - k
             /\ \A i \in 1 .. Len(q) - k : r[i] = q[k + i]
             /\ SxParts(s, h, r, w)
<1> DEFINE v == SubSeq(q, 1, k)
           h == g \o v
           r == SubSeq(q, k + 1, Len(q))
<1>1. PICK l \in Nat, lg \in Nat, lq \in Nat, lw \in Nat :
         l = Len(s) /\ lg = Len(g) /\ lq = Len(q) /\ lw = Len(w)
  BY LenProperties
<1>2. /\ l = lg + lq + lw
      /\ \A i \in 1 .. lg : s[i] = g[i]
      /\ \A i \in 1 .. lq : s[lg + i] = q[i]
      /\ \A i \in 1 .. lw : s[lg + lq + i] = w[i]
  BY <1>1 DEF SxParts
<1>3. k \in Nat /\ k =< lq /\ k + 1 \in Nat /\ k + 1 >= 1 /\ 1 \in Nat
  BY <1>1
<1>4. v \in Seq(B) /\ Len(v) = k /\ \A i \in 1 .. k : v[i] = q[i]
  <2>1. /\ v \in Seq(B) /\ Len(v) = (IF 1 =< k THEN k - 1 + 1 ELSE 0)
        /\ \A i \in 1 .. k - 1 + 1 : v[i] = q[1 + i - 1]
    BY <1>1, <1>3, PartIs
  <2>2. k - 1 + 1 = k /\ (~(1 =< k) => k = 0) /\ \A i \in 1 .. k : 1 + i - 1 = i
    BY <1>3
  <2> QED
    BY <2>1, <2>2
<1>5. r \in Seq(B) /\ Len(r) = lq - k /\ \A i \in 1 .. (lq - k) : r[i] = q[k + i]
  <2>1. /\ r \in Seq(B) /\ Len(r) = (IF k + 1 =< lq THEN lq - (k + 1) + 1 ELSE 0)
        /\ \A i \in 1 .. lq - (k + 1) + 1 : r[i] = q[k + 1 + i - 1]
    BY <1>1, <1>3, PartIs
  <2>2. lq - (k + 1) + 1 = lq - k /\ (~(k + 1 =< lq) => lq - k = 0)
    BY <1>3
  <2>3. \A i \in 1 .. lq - k : k + 1 + i - 1 = k + i
    BY <1>3
  <2> QED
    BY <2>1, <2>2, <2>3
<1> HIDE DEF v
<1>6. /\ h \in Seq(B) /\ Len(h) = lg + k
      /\ \A i \in 1 .. lg : h[i] = g[i]
      /\ \A i \in 1 .. k : h[lg + i] = v[i]
  <2>1. v \in Seq(B)
    BY <1>4
  <2>2. /\ h \in Seq(B) /\ Len(h) = Len(g) + Len(v)
        /\ \A i \in 1 .. Len(g) : h[i] = g[i]
        /\ \A i \in 1 .. Len(v) : h[Len(g) + i] = v[i]
    BY <2>1, JoinIs
  <2> QED
    BY ONLY <1>1, <1>4, <2>2
<1> HIDE DEF h, r
<1>7. l = (lg + k) + (lq - k) + lw
  BY <1>2, <1>3
<1>8. \A i \in 1 .. (lg + k) : s[i] = h[i]
  <2> TAKE i \in 1 .. (lg + k)
  <2>1. CASE i =< lg
    BY <1>2, <1>6, <2>1
  <2>2. CASE ~(i =< lg)
    <3>1. PICK j \in 1 .. k : i = lg + j
      <4>1. i - lg \in 1 .. k /\ i = lg + (i - lg)
        BY <2>2, <1>3
      <4> QED
        BY <4>1
    <3>2. h[i] = q[j] /\ j \in 1 .. lq
      BY <1>3, <1>4, <1>6, <3>1
    <3> QED
      BY <1>2, <3>1, <3>2
  <2> QED
    BY <2>1, <2>2
<1>9. \A i \in 1 .. (lq - k) : s[(lg + k) + i] = r[i]
  <2> TAKE i \in 1 .. (lq - k)
  <2>1. k + i \in 1 .. lq /\ (lg + k) + i = lg + (k + i)
    BY <1>3
  <2> QED
    BY <1>2, <1>5, <2>1
<1>10. \A i \in 1 .. lw : s[(lg + k) + (lq - k) + i] = w[i]
  <2> TAKE i \in 1 .. lw
  <2>1. (lg + k) + (lq - k) + i = lg + lq + i
    BY <1>3
  <2> QED
    BY <1>2, <2>1
<1>11. SxParts(s, h, r, w)
  BY <1>1, <1>2, <1>5, <1>6, <1>7, <1>8, <1>9, <1>10 DEF SxParts
<1> QED
  BY <1>1, <1>5, <1>6, <1>11 DEF h, r, v

(* More is written.                                                        *)
LEMMA SxMore ==
  ASSUME NEW B, NEW s \in Seq(B), NEW g \in Seq(B), NEW p \in Seq(B), NEW w \in Seq(B),
         NEW f \in Seq(B), SxParts(s, g, p, w)
  PROVE  SxParts(s \o f, g, p, w \o f)
<1> DEFINE t == s \o f
           v == w \o f
<1>1. PICK l \in Nat, lg \in Nat, lp \in Nat, lw \in Nat, lf \in Nat :
         l = Len(s) /\ lg = Len(g) /\ lp = Len(p) /\ lw = Len(w) /\ lf = Len(f)
  BY LenProperties
<1>2. /\ l = lg + lp + lw
      /\ \A i \in 1 .. lg : s[i] = g[i]
      /\ \A i \in 1 .. lp : s[lg + i] = p[i]
      /\ \A i \in 1 .. lw : s[lg + lp + i] = w[i]
  BY <1>1 DEF SxParts
<1>3. Len(t) = l + lf /\ (\A i \in 1 .. l : t[i] = s[i]) /\ \A i \in 1 .. lf : t[l + i] = f[i]
  BY <1>1, JoinIs
<1>4. Len(v) = lw + lf /\ (\A i \in 1 .. lw : v[i] = w[i]) /\ \A i \in 1 .. lf : v[lw + i] = f[i]
  BY <1>1, JoinIs
<1> HIDE DEF t, v
<1>5. \A i \in 1 .. lg : t[i] = g[i]
  <2> TAKE i \in 1 .. lg
  <2>1. i \in 1 .. l
    BY <1>2
  <2> QED
    BY <1>2, <1>3, <2>1
<1>6. \A i \in 1 .. lp : t[lg + i] = p[i]
  <2> TAKE i \in 1 .. lp
  <2>1. lg + i \in 1 .. l
    BY <1>2
  <2> QED
    BY <1>2, <1>3, <2>1
<1>7. \A i \in 1 .. (lw + lf) : t[lg + lp + i] = v[i]
  <2> TAKE i \in 1 .. (lw + lf)
  <2>1. CASE i =< lw
    <3>1. lg + lp + i \in 1 .. l /\ i \in 1 .. lw
      BY <1>2, <2>1
    <3> QED
      BY <1>2, <1>3, <1>4, <3>1
  <2>2. CASE ~(i =< lw)
    <3>1. PICK j \in 1 .. lf : i = lw + j
      <4>1. i - lw \in 1 .. lf /\ i = lw + (i - lw)
        BY <2>2
      <4> QED
        BY <4>1
    <3>2. lg + lp + i = l + j
      BY <1>2, <3>1
    <3> QED
      BY <1>3, <1>4, <3>1, <3>2
  <2> QED
    BY <2>1, <2>2
<1>8. l + lf = lg + lp + (lw + lf)
  BY <1>2
<1>9. SxParts(t, g, p, v)
  BY <1>1, <1>3, <1>4, <1>5, <1>6, <1>7, <1>8 DEF SxParts
<1> QED
  BY <1>9 DEF t, v

LEMMA SuffixIs ==
  ASSUME NEW S, NEW s \in Seq(S), NEW t \in Seq(S), IsSuffix(s, t)
  PROVE  Len(s) =< Len(t) /\ \A i \in 1 .. Len(s) : s[i] = t[Len(t) - Len(s) + i]
<1> DEFINE u == Reverse(s)
           v == Reverse(t)
<1>1. PICK m \in Nat, n \in Nat : m = Len(s) /\ n = Len(t)
  BY LenProperties
<1>2. u \in Seq(S) /\ Len(u) = m /\ \A i \in 1 .. m : u[i] = s[m - i + 1]
  BY <1>1, ReverseIs
<1>3. v \in Seq(S) /\ Len(v) = n /\ \A i \in 1 .. n : v[i] = t[n - i + 1]
  BY <1>1, ReverseIs
<1>4. Len(u) =< Len(v) /\ SubSeq(u, 1, Len(u)) = SubSeq(v, 1, Len(u))
  BY DEF IsSuffix, IsPrefix
<1> HIDE DEF u, v
<1>5. m =< n
  BY <1>2, <1>3, <1>4
<1>6. \A i \in 1 .. m : u[i] = v[i]
  <2>1. 1 \in Nat /\ 1 >= 1 /\ m - 1 + 1 = m /\ \A i \in 1 .. m : 1 + i - 1 = i
    OBVIOUS
  <2>2. \A i \in 1 .. m - 1 + 1 : SubSeq(u, 1, m)[i] = u[1 + i - 1]
    BY <1>2, <2>1, PartIs
  <2>3. \A i \in 1 .. m - 1 + 1 : SubSeq(v, 1, m)[i] = v[1 + i - 1]
    BY <1>3, <1>5, <2>1, PartIs
  <2> QED
    BY <1>2, <1>4, <2>1, <2>2, <2>3
<1>7. \A i \in 1 .. m : s[i] = t[n - m + i]
  <2> TAKE i \in 1 .. m
  <2> DEFINE k == m - i + 1
  <2>1. k \in 1 .. m /\ k \in 1 .. n /\ m - k + 1 = i /\ n - k + 1 = n - m + i
    BY <1>5
  <2>2. u[k] = s[m - k + 1] /\ v[k] = t[n - k + 1] /\ u[k] = v[k]
    BY <1>2, <1>3, <1>6, <2>1
  <2> QED
    BY <2>1, <2>2
<1> QED
  BY <1>1, <1>5, <1>7

LEMMA SxMarkerIs ==
  /\ SxMarker \in Seq(SxByte) /\ Len(SxMarker) = 2
  /\ SxMarker[1] = "n" /\ SxMarker[2] = "t"
  BY DEF SxMarker, SxByte

LEMMA SxFoundIs ==
  ASSUME NEW p \in Seq(SxByte), NEW i
  PROVE  i \in SxFound(p) <=>
           /\ i \in 0 .. Len(p) - 2 /\ p[i + 1] = "n" /\ p[i + 2] = "t"
<1>1. PICK n \in Nat : n = Len(p)
  BY LenProperties
<1> SUFFICES ASSUME i \in 0 .. n - 2
             PROVE  SubSeq(p, i + 1, i + 2) = SxMarker <=> p[i + 1] = "n" /\ p[i + 2] = "t"
  BY <1>1, SxMarkerIs DEF SxFound
<1> DEFINE v == SubSeq(p, i + 1, i + 2)
<1>2. /\ i \in Nat /\ i + 1 \in Nat /\ i + 1 >= 1 /\ i + 2 \in Nat /\ i + 2 =< n
      /\ i + 1 =< i + 2 /\ i + 2 - (i + 1) + 1 = 2
      /\ i + 1 + 1 - 1 = i + 1 /\ i + 1 + 2 - 1 = i + 2
  OBVIOUS
<1>3. /\ v \in Seq(SxByte) /\ Len(v) = IF i + 1 =< i + 2 THEN i + 2 - (i + 1) + 1 ELSE 0
      /\ \A k \in 1 .. i + 2 - (i + 1) + 1 : v[k] = p[i + 1 + k - 1]
  BY <1>1, <1>2, PartIs
<1> HIDE DEF v
<1>4. Len(v) = 2
  BY <1>2, <1>3
<1>5. v[1] = p[i + 1] /\ v[2] = p[i + 2]
  <2>1. \A k \in 1 .. 2 : v[k] = p[i + 1 + k - 1]
    BY <1>2, <1>3
  <2>2. v[1] = p[i + 1 + 1 - 1] /\ v[2] = p[i + 1 + 2 - 1]
    BY <2>1
  <2> QED
    BY <1>2, <2>2
<1>6. ASSUME v[1] = "n", v[2] = "t" PROVE v = SxMarker
  <2>1. \A k \in 1 .. Len(v) : v[k] = SxMarker[k]
    BY <1>4, <1>6, SxMarkerIs
  <2> QED
    BY <1>3, <1>4, <2>1, SxMarkerIs, SeqEqual
<1> QED
  BY <1>5, <1>6, SxMarkerIs DEF v

LEMMA SxRetainIs ==
  ASSUME NEW p \in Seq(SxByte)
  PROVE  /\ SxRetain(p) \in 0 .. Len(p)
         /\ IsPrefix(SubSeq(p, Len(p) - SxRetain(p) + 1, Len(p)), SxMarker)
<1> DEFINE K == {k \in 1 .. Min({Len(SxMarker), Len(p)}) : IsSuffix(SubSeq(SxMarker, 1, k), p)}
           T == {0} \cup K
           r == SxRetain(p)
<1>1. PICK n \in Nat : n = Len(p)
  BY LenProperties
<1>2. Min({Len(SxMarker), Len(p)}) = IF n < 2 THEN n ELSE 2
  <2>1. Min({2, n}) = IF n < 2 THEN n ELSE 2
    <3>1. \A x \in {2, n} : (\A y \in {2, n} : x =< y) <=> x = IF n < 2 THEN n ELSE 2
      OBVIOUS
    <3>2. (IF n < 2 THEN n ELSE 2) \in {2, n}
      OBVIOUS
    <3> QED
      BY <3>1, <3>2 DEF Min
  <2> QED
    BY <1>1, <2>1, SxMarkerIs
<1>3. \A k \in T : k \in 0 .. 2 /\ k =< n
  BY <1>2
<1>4. r \in T
  <2>1. r = Max(T)
    BY DEF SxRetain
  <2> HIDE DEF T, r
  <2>2. 0 \in T
    BY DEF T
  <2>3. \E x \in T : \A y \in T : x >= y
    <3>1. CASE 2 \in T
      BY <1>3, <3>1
    <3>2. CASE 2 \notin T /\ 1 \in T
      <4>1. \A y \in T : 1 >= y
        BY <1>3, <3>2
      <4> QED
        BY <3>2, <4>1
    <3>3. CASE 2 \notin T /\ 1 \notin T
      <4>1. \A y \in T : 0 >= y
        BY <1>3, <3>3
      <4> QED
        BY <2>2, <4>1
    <3> QED
      BY <3>1, <3>2, <3>3
  <2> QED
    BY <2>1, <2>3 DEF Max
<1>5. r \in 0 .. 2 /\ r =< n
  BY <1>3, <1>4
<1> DEFINE v == SubSeq(p, n - r + 1, n)
<1> HIDE DEF r
<1>6. v \in Seq(SxByte) /\ Len(v) = r /\ \A i \in 1 .. r : v[i] = p[n - r + i]
  <2>1. /\ n - r + 1 \in Nat /\ n - r + 1 >= 1 /\ n - (n - r + 1) + 1 = r
        /\ (~(n - r + 1 =< n) => r = 0)
        /\ \A i \in 1 .. r : n - r + 1 + i - 1 = n - r + i
    BY <1>5
  <2>2. /\ v \in Seq(SxByte) /\ Len(v) = IF n - r + 1 =< n THEN n - (n - r + 1) + 1 ELSE 0
        /\ \A i \in 1 .. n - (n - r + 1) + 1 : v[i] = p[n - r + 1 + i - 1]
    BY <1>1, <2>1, PartIs
  <2> HIDE DEF v
  <2> QED
    BY <2>1, <2>2
<1> HIDE DEF v
<1>7. \A i \in 1 .. r : v[i] = SxMarker[i]
  <2>1. CASE r = 0
    BY <2>1
  <2>2. CASE r # 0
    <3> DEFINE u == SubSeq(SxMarker, 1, r)
    <3>1. IsSuffix(u, p)
      BY <1>4, <2>2
    <3>2. /\ 1 \in Nat /\ 1 >= 1 /\ r - 1 + 1 = r /\ r \in Nat /\ 1 =< r
          /\ r =< Len(SxMarker) /\ \A i \in 1 .. r : 1 + i - 1 = i
      BY <1>5, <2>2, SxMarkerIs
    <3>3. /\ u \in Seq(SxByte) /\ Len(u) = IF 1 =< r THEN r - 1 + 1 ELSE 0
          /\ \A i \in 1 .. r - 1 + 1 : u[i] = SxMarker[1 + i - 1]
      <4>1. SxMarker \in Seq(SxByte)
        BY SxMarkerIs
      <4> QED
        BY <3>2, <4>1, PartIs
    <3> HIDE DEF u
    <3>4. Len(u) = r /\ \A i \in 1 .. r : u[i] = SxMarker[i]
      BY <3>2, <3>3
    <3>5. \A i \in 1 .. Len(u) : u[i] = p[Len(p) - Len(u) + i]
      BY <3>1, <3>3, SuffixIs
    <3> QED
      BY <1>1, <1>6, <3>4, <3>5
  <2> QED
    BY <2>1, <2>2
<1>8. IsPrefix(v, SxMarker)
  BY <1>5, <1>6, <1>7, SxMarkerIs, PrefixIs
<1> QED
  BY <1>1, <1>5, <1>8 DEF v, r

(* Nothing held back could begin the frame.                                *)
LEMMA SxNothingHeld ==
  /\ IsPrefix(<<>>, SxMarker) /\ Len(<<>>) = 0
<1>1. <<>> \in Seq(SxByte) /\ Len(<<>>) = 0 /\ Len(<<>>) =< Len(SxMarker)
  BY SxMarkerIs
<1>2. \A i \in 1 .. Len(<<>>) : <<>>[i] = SxMarker[i]
  BY <1>1
<1> QED
  BY <1>1, <1>2, SxMarkerIs, PrefixIs

(* How many of the bytes p a read delivers, and what it then holds back.   *)
SxCount(p) == IF SxFound(p) # {} THEN Min(SxFound(p)) ELSE Len(p) - SxRetain(p)
SxHeld(p) == SubSeq(p, SxCount(p) + 1, Len(p))

LEMMA SxCountIs ==
  ASSUME NEW p \in Seq(SxByte)
  PROVE  /\ SxCount(p) \in 0 .. Len(p)
         /\ SxFound(p) # {} => SxCount(p) \in SxFound(p)
         /\ SxFound(SxHeld(p)) = {} => IsPrefix(SxHeld(p), SxMarker)
<1>1. PICK n \in Nat : n = Len(p)
  BY LenProperties
<1>2. CASE SxFound(p) = {}
  BY <1>1, <1>2, SxRetainIs, SxRetainIs DEF SxCount, SxHeld
<1>3. CASE SxFound(p) # {}
  <2> DEFINE c == SxCount(p)
  <2>1. SxFound(p) \in SUBSET Nat
    BY <1>1, SxFoundIs
  <2>2. c \in SxFound(p)
    BY <1>3, <2>1, LeastExists DEF SxCount, Min
  <2> HIDE DEF c
  <2>3. c \in 0 .. n - 2 /\ p[c + 1] = "n" /\ p[c + 2] = "t"
    BY <1>1, <2>2, SxFoundIs
  <2> DEFINE v == SubSeq(p, c + 1, n)
  <2>4. /\ c + 1 \in Nat /\ c + 1 >= 1 /\ c + 1 =< n /\ n - (c + 1) + 1 = n - c /\ n - c >= 2
        /\ n - c \in Nat /\ c + 1 + 1 - 1 = c + 1 /\ c + 1 + 2 - 1 = c + 2
    BY <2>3
  <2>5. /\ v \in Seq(SxByte) /\ Len(v) = IF c + 1 =< n THEN n - (c + 1) + 1 ELSE 0
        /\ \A i \in 1 .. n - (c + 1) + 1 : v[i] = p[c + 1 + i - 1]
    BY <1>1, <2>4, PartIs
  <2> HIDE DEF v
  <2>6. Len(v) = n - c /\ v[1] = "n" /\ v[2] = "t"
    <3>1. 1 \in 1 .. n - (c + 1) + 1 /\ 2 \in 1 .. n - (c + 1) + 1
      BY <2>4
    <3>2. v[1] = p[c + 1 + 1 - 1] /\ v[2] = p[c + 1 + 2 - 1]
      BY <2>5, <3>1
    <3> QED
      BY <2>3, <2>4, <2>5, <3>2
  <2>7. 0 \in SxFound(v)
    <3>1. 0 \in 0 .. Len(v) - 2 /\ v[0 + 1] = "n" /\ v[0 + 2] = "t"
      BY <2>4, <2>6
    <3> QED
      BY <2>5, <3>1, SxFoundIs
  <2>8. SxHeld(p) = v
    BY <1>1 DEF SxHeld, v, c
  <2> QED
    BY <1>1, <2>2, <2>3, <2>7, <2>8 DEF c
<1> QED
  BY <1>2, <1>3

LEMMA SxAllowedIs ==
  ASSUME NEW n \in Nat, NEW total \in Nat
  PROVE  /\ SxAllowed(n, total) \in 0 .. n
         /\ \A g \in Nat : g =< total /\ g =< SxLimit =>
              /\ g + SxAllowed(n, total) =< total + n
              /\ g + SxAllowed(n, total) =< SxLimit
<1> DEFINE m == IF total < SxLimit THEN SxLimit - total ELSE 0
           a == IF n =< m THEN n ELSE m
<1>1. SxLimit \in Nat /\ m \in Nat
  BY SxAssumption
<1>2. \A g \in Nat : g =< total /\ g =< SxLimit => g + m =< SxLimit
  BY <1>1
<1> HIDE DEF m
<1>3. Min({n, m}) = a
  <2>1. \A x \in {n, m} : (\A y \in {n, m} : x =< y) <=> x = a
    BY <1>1
  <2>2. a \in {n, m}
    BY <1>1
  <2> HIDE DEF a
  <2> QED
    BY <2>1, <2>2 DEF Min
<1>4. SxAllowed(n, total) = a
  BY <1>3 DEF SxAllowed, m
<1>5. a \in 0 .. n /\ a =< m /\ a \in Nat
  BY <1>1
<1> HIDE DEF a
<1> QED
  BY <1>1, <1>2, <1>4, <1>5

(* What one delivery does to the output, with and without a refusal.       *)
LEMMA SxEmits ==
  ASSUME SxTypes, SxBounds, NEW p \in Seq(SxByte), NEW n \in 0 .. Len(p),
         SxEmitErr(p, n), sxGotOut' = sxGotOut
  PROVE  /\ sxTotal' \in Nat /\ sxGotErr' \in Seq(SxByte)
         /\ Len(sxGotErr') + sxGotOut' <= sxTotal' /\ Len(sxGotErr') + sxGotOut' <= SxLimit
         /\ ~SxRefuses(n) => sxGotErr' = sxGotErr \o SubSeq(p, 1, n)
<1> DEFINE a == SxAllowed(n, sxTotal)
           v == SubSeq(p, 1, a)
           h == sxGotErr \o v
<1>1. /\ sxTotal \in Nat /\ sxGotErr \in Seq(SxByte) /\ sxGotOut \in Nat
      /\ Len(sxGotErr) + sxGotOut <= sxTotal /\ Len(sxGotErr) + sxGotOut <= SxLimit
      /\ Len(sxGotErr) \in Nat /\ n \in Nat /\ SxLimit \in Nat /\ Len(p) \in Nat /\ n =< Len(p)
  BY SxAssumption, LenProperties DEF SxTypes, SxBounds
<1>2. /\ a \in 0 .. n
      /\ \A g \in Nat : g =< sxTotal /\ g =< SxLimit =>
              g + a =< sxTotal + n /\ g + a =< SxLimit
  BY <1>1, SxAllowedIs
<1>3. /\ sxTotal' = sxTotal + n
      /\ sxGotErr' = IF sxCaller = "left" THEN sxGotErr ELSE h
  BY DEF SxEmitErr
<1>4. SxRefuses(n) <=> a < n \/ (sxCaller = "left" /\ a > 0)
  BY DEF SxRefuses
<1> HIDE DEF a
<1>5. v \in Seq(SxByte) /\ Len(v) = a
  <2>1. 1 \in Nat /\ 1 >= 1 /\ a \in Nat /\ a =< Len(p) /\ (IF 1 =< a THEN a - 1 + 1 ELSE 0) = a
    BY <1>1, <1>2
  <2>2. v \in Seq(SxByte) /\ Len(v) = IF 1 =< a THEN a - 1 + 1 ELSE 0
    BY <2>1, PartIs
  <2> HIDE DEF v
  <2> QED
    BY <2>1, <2>2
<1>6. h \in Seq(SxByte) /\ Len(h) = Len(sxGotErr) + a
  <2>1. v \in Seq(SxByte)
    BY <1>5
  <2> HIDE DEF v
  <2>2. h \in Seq(SxByte) /\ Len(h) = Len(sxGotErr) + Len(v)
    BY <1>1, <2>1, JoinIs
  <2> HIDE DEF h
  <2> QED
    BY <1>5, <2>2 DEF v
<1>7. ASSUME ~SxRefuses(n) PROVE sxGotErr' = sxGotErr \o SubSeq(p, 1, n)
  <2>1. a = n
    BY <1>1, <1>2, <1>4, <1>7
  <2>2. CASE sxCaller = "left"
    <3>1. a = 0
      BY <1>2, <1>4, <1>7, <2>2
    <3>2. v = <<>>
      BY <1>5, <3>1, EmptySeq
    <3>3. h = sxGotErr
      BY <1>1, <3>2, ConcatEmptySeq
    <3> QED
      BY <1>3, <2>1, <2>2, <3>3
  <2>3. CASE sxCaller # "left"
    BY <1>3, <2>1, <2>3
  <2> QED
    BY <2>2, <2>3
<1>8. /\ Len(h) + sxGotOut =< sxTotal + n /\ Len(h) + sxGotOut =< SxLimit
  <2>1. PICK e \in Nat : e = Len(sxGotErr)
    BY <1>1
  <2>2. e + sxGotOut \in Nat /\ e + sxGotOut =< sxTotal /\ e + sxGotOut =< SxLimit
    BY <1>1, <2>1
  <2>3. e + sxGotOut + a =< sxTotal + n /\ e + sxGotOut + a =< SxLimit
    BY <1>2, <2>2
  <2>4. Len(h) + sxGotOut = e + sxGotOut + a
    BY <1>1, <1>2, <1>6, <2>1
  <2> HIDE DEF h
  <2> QED
    BY <2>3, <2>4
<1> HIDE DEF h
<1>9. sxTotal + n \in Nat /\ sxTotal =< sxTotal + n
  BY <1>1
<1>10. CASE sxCaller = "left"
  <2>1. sxGotErr' = sxGotErr /\ sxGotOut' = sxGotOut /\ sxTotal' = sxTotal + n
    BY <1>3, <1>10
  <2>2. Len(sxGotErr) + sxGotOut =< sxTotal + n
    BY <1>1
  <2> QED
    BY <1>1, <1>7, <1>9, <2>1, <2>2
<1>11. CASE sxCaller # "left"
  <2>1. sxGotErr' = h /\ sxGotOut' = sxGotOut /\ sxTotal' = sxTotal + n
    BY <1>3, <1>11
  <2> QED
    BY <1>6, <1>7, <1>8, <1>9, <2>1
<1> QED
  BY <1>10, <1>11
(* What is in the completion channel.                                      *)
LEMMA SxDoneIs ==
  ASSUME NEW D, NEW d \in Seq(D)
  PROVE  /\ \A x \in D : Append(d, x) \in Seq(D) /\ ToSet(Append(d, x)) = ToSet(d) \cup {x}
         /\ d # <<>> => /\ Tail(d) \in Seq(D) /\ Head(d) \in ToSet(d)
                        /\ ToSet(d) = ToSet(Tail(d)) \cup {Head(d)}
         /\ d = <<>> => ToSet(d) = {}
<1>1. ASSUME NEW x \in D
      PROVE  Append(d, x) \in Seq(D) /\ ToSet(Append(d, x)) = ToSet(d) \cup {x}
  <2> DEFINE e == Append(d, x)
  <2>1. /\ e \in Seq(D) /\ Len(e) = Len(d) + 1 /\ Len(d) \in Nat
        /\ \A i \in 1 .. Len(d) : e[i] = d[i]
        /\ e[Len(d) + 1] = x /\ DOMAIN d = 1 .. Len(d) /\ DOMAIN e = 1 .. (Len(d) + 1)
    BY QueueAppend
  <2> HIDE DEF e
  <2>2. \A i \in 1 .. (Len(d) + 1) : i \in 1 .. Len(d) \/ i = Len(d) + 1
    BY <2>1
  <2>3. \A i \in 1 .. Len(d) : i \in 1 .. (Len(d) + 1)
    BY <2>1
  <2>4. Len(d) + 1 \in 1 .. (Len(d) + 1)
    BY <2>1
  <2>5. ToSet(e) = ToSet(d) \cup {x}
    BY <2>1, <2>2, <2>3, <2>4 DEF ToSet
  <2> QED
    BY <2>1, <2>5 DEF e
<1>2. ASSUME d # <<>>
      PROVE  /\ Tail(d) \in Seq(D) /\ Head(d) \in ToSet(d)
             /\ ToSet(d) = ToSet(Tail(d)) \cup {Head(d)}
  <2> DEFINE e == Tail(d)
             n == Len(d)
  <2>1. /\ e \in Seq(D) /\ \A i \in 1 .. n - 1 : e[i] = d[i + 1]
        /\ Head(d) = d[1] /\ n \in Nat /\ n >= 1
        /\ DOMAIN e = 1 .. (n - 1) /\ DOMAIN d = 1 .. n
    BY <1>2, QueueTail
  <2> HIDE DEF e, n
  <2>2. 1 \in 1 .. n /\ \A i \in 1 .. n - 1 : i + 1 \in 1 .. n
    BY <2>1
  <2>3. \A i \in 1 .. n : i = 1 \/ (i - 1 \in 1 .. n - 1 /\ i - 1 + 1 = i)
    BY <2>1
  <2>4. ToSet(d) \subseteq ToSet(e) \cup {Head(d)}
    <3>1. SUFFICES ASSUME NEW i \in 1 .. n PROVE d[i] \in ToSet(e) \cup {Head(d)}
      BY <2>1 DEF ToSet
    <3>2. CASE i = 1
      BY <2>1, <3>2
    <3>3. CASE i # 1
      <4>1. PICK j \in 1 .. (n - 1) : j + 1 = i
        BY <2>3, <3>3
      <4>2. e[j] = d[i] /\ j \in DOMAIN e
        BY <2>1, <4>1
      <4> QED
        BY <4>2 DEF ToSet
    <3> QED
      BY <3>2, <3>3
  <2>5. ToSet(e) \cup {Head(d)} \subseteq ToSet(d)
    BY <2>1, <2>2 DEF ToSet
  <2>6. Head(d) \in ToSet(d)
    BY <2>5
  <2> QED
    BY <2>1, <2>4, <2>5, <2>6 DEF e
<1>3. d = <<>> => ToSet(d) = {}
  BY DEF ToSet
<1> QED
  BY <1>1, <1>2, <1>3

(* The only "t" in what is sent stands behind what the command wrote.      *)
LEMMA SxToken ==
  ASSUME SxTypes
  PROVE  /\ SxSaid \in Seq(SxByte) /\ sxErr \in Seq(SxByte) /\ Len(sxErr) \in Nat
         /\ Len(SxSaid) \in Nat
         /\ sxLeader = "sleeps" => Len(SxSaid) = Len(sxErr) + 4
         /\ \A i \in 1 .. Len(SxSaid) :
              /\ i =< Len(sxErr) => SxSaid[i] = sxErr[i]
              /\ SxSaid[i] = "t" => sxLeader = "sleeps" /\ i = Len(sxErr) + 2
<1>1. /\ sxErr \in Seq({"a", "n"}) /\ sxErr \in Seq(SxByte) /\ Len(sxErr) \in Nat
      /\ \A i \in 1 .. Len(sxErr) : sxErr[i] # "t"
  <2>1. sxErr \in Seq({"a", "n"}) /\ {"a", "n"} \subseteq SxByte
    BY DEF SxTypes, SxByte
  <2>2. \A i \in 1 .. Len(sxErr) : sxErr[i] \in {"a", "n"}
    BY <2>1, ElementOfSeq
  <2> QED
    BY <2>1, <2>2, SeqMonotonic, LenProperties
<1>2. CASE sxLeader = "sleeps"
  <2> DEFINE s == sxErr \o SxFrame
             n == Len(sxErr)
  <2>1. /\ SxFrame \in Seq(SxByte) /\ Len(SxFrame) = 4
        /\ SxFrame[1] = "n" /\ SxFrame[2] = "t" /\ SxFrame[3] = "c" /\ SxFrame[4] = "n"
    BY DEF SxFrame, SxByte
  <2>2. /\ s \in Seq(SxByte) /\ Len(s) = n + Len(SxFrame)
        /\ \A i \in 1 .. n : s[i] = sxErr[i]
        /\ \A i \in 1 .. Len(SxFrame) : s[n + i] = SxFrame[i]
    <3>1. SxFrame \in Seq(SxByte) /\ sxErr \in Seq(SxByte)
      BY <1>1, <2>1
    <3> HIDE DEF n
    <3>2. /\ s \in Seq(SxByte) /\ Len(s) = Len(sxErr) + Len(SxFrame)
          /\ \A i \in 1 .. Len(sxErr) : s[i] = sxErr[i]
          /\ \A i \in 1 .. Len(SxFrame) : s[Len(sxErr) + i] = SxFrame[i]
      BY <3>1, JoinIs
    <3> QED
      BY <3>2 DEF n
  <2>3. SxSaid = s
    BY <1>2 DEF SxSaid
  <2> HIDE DEF s
  <2>4. \A i \in 1 .. n + 4 : ~(i =< n) => i - n \in 1 .. 4 /\ n + (i - n) = i
    BY <1>1
  <2>5. \A j \in 1 .. 4 : SxFrame[j] = "t" => j = 2
    BY <2>1
  <2>6. \A i \in 1 .. n + 4 : i =< n => i \in 1 .. n
    BY <1>1
  <2>7. n + 4 \in Nat
    BY <1>1
  <2> HIDE DEF n
  <2>8. ASSUME NEW i \in 1 .. n + 4, s[i] = "t" PROVE i = n + 2
    <3>1. ~(i =< n)
      BY <1>1, <2>2, <2>6, <2>8 DEF n
    <3>2. PICK j \in 1 .. 4 : i = n + j
      BY <2>4, <3>1
    <3>3. s[n + j] = SxFrame[j]
      BY <2>1, <2>2
    <3> QED
      BY <2>5, <2>8, <3>2, <3>3
  <2>9. \A i \in 1 .. n + 4 : i =< n => s[i] = sxErr[i]
    BY <2>2, <2>6
  <2> QED
    BY <1>1, <1>2, <2>1, <2>2, <2>3, <2>7, <2>8, <2>9 DEF n
<1>3. CASE sxLeader # "sleeps"
  <2>1. SxSaid = sxErr
    BY <1>3 DEF SxSaid
  <2> QED
    BY <1>1, <1>3, <2>1
<1> QED
  BY <1>2, <1>3

(* One read of standard error, and its end.                                *)
LEMMA SxPumped ==
  ASSUME SxTypes, SxPumpErr
  PROVE  \E size \in 1 .. Len(sxErrWire), ends \in BOOLEAN :
           LET p == sxPending \o SubSeq(sxErrWire, 1, size)
           IN  /\ sxErrWire' = SubSeq(sxErrWire, size + 1, Len(sxErrWire))
               /\ SxEmitErr(p, SxCount(p))
               /\ ends /\ ~SxRefuses(SxCount(p)) => SxFound(p) # {}
               /\ SxRefuses(SxCount(p)) => ends
               /\ sxPending' = IF ends THEN <<>> ELSE SxHeld(p)
               /\ sxPump' = IF ends THEN [sxPump EXCEPT !.err = "ended"] ELSE sxPump
               /\ sxDone' = IF SxRefuses(SxCount(p)) THEN Append(sxDone, "error")
                            ELSE IF ends THEN Append(sxDone, "code") ELSE sxDone
<1>1. PICK size \in 1 .. SxChunk :
       LET p == sxPending \o SubSeq(sxErrWire, 1, size)
           found == SxFound(p)
           index == Min(found)
           status == SubSeq(p, index + Len(SxMarker) + 1, Len(p))
           count == IF found # {} THEN index ELSE Len(p) - SxRetain(p)
           ends == SxRefuses(count) \/ (found # {} /\ "n" \in Range(status))
       IN /\ size <= Len(sxErrWire)
          /\ sxErrWire' = SubSeq(sxErrWire, size + 1, Len(sxErrWire))
          /\ SxEmitErr(p, count)
          /\ sxPending' = IF ends THEN <<>> ELSE SubSeq(p, count + 1, Len(p))
          /\ sxPump' = IF ends THEN [sxPump EXCEPT !.err = "ended"] ELSE sxPump
          /\ sxDone' = IF SxRefuses(count) THEN Append(sxDone, "error")
                       ELSE IF ends THEN Append(sxDone, "code") ELSE sxDone
  BY DEF SxPumpErr
<1> DEFINE p == sxPending \o SubSeq(sxErrWire, 1, size)
           status == SubSeq(p, SxCount(p) + Len(SxMarker) + 1, Len(p))
           ends == SxRefuses(SxCount(p)) \/ (SxFound(p) # {} /\ "n" \in Range(status))
<1>2. size \in 1 .. Len(sxErrWire)
  BY <1>1, SxAssumption, LenProperties DEF SxTypes
<1> HIDE DEF p
<1>3. /\ sxErrWire' = SubSeq(sxErrWire, size + 1, Len(sxErrWire))
      /\ SxEmitErr(p, SxCount(p))
      /\ sxPending' = IF ends THEN <<>> ELSE SxHeld(p)
      /\ sxPump' = IF ends THEN [sxPump EXCEPT !.err = "ended"] ELSE sxPump
      /\ sxDone' = IF SxRefuses(SxCount(p)) THEN Append(sxDone, "error")
                   ELSE IF ends THEN Append(sxDone, "code") ELSE sxDone
  <2>1. CASE SxFound(p) # {}
    <3>1. SxCount(p) = Min(SxFound(p))
      BY <2>1 DEF SxCount
    <3> QED
      BY <1>1, <2>1, <3>1 DEF SxHeld, p
  <2>2. CASE SxFound(p) = {}
    <3>1. SxCount(p) = Len(p) - SxRetain(p)
      BY <2>2 DEF SxCount
    <3> QED
      BY <1>1, <2>2, <3>1 DEF SxHeld, p
  <2> QED
    BY <2>1, <2>2
<1>4. ends \in BOOLEAN /\ (SxRefuses(SxCount(p)) => ends)
      /\ (ends /\ ~SxRefuses(SxCount(p)) => SxFound(p) # {})
  OBVIOUS
<1> HIDE DEF ends
<1> QED
  BY <1>2, <1>3, <1>4 DEF p
(* The steps that read standard error.                                     *)
LEMMA SxPumpErrKeeps ==
  ASSUME SxInv, SxPumpErr
  PROVE  SxInv'
<1>1. PICK size \in 1 .. Len(sxErrWire), ends \in BOOLEAN :
        LET p == sxPending \o SubSeq(sxErrWire, 1, size)
        IN  /\ sxErrWire' = SubSeq(sxErrWire, size + 1, Len(sxErrWire))
            /\ SxEmitErr(p, SxCount(p))
            /\ ends /\ ~SxRefuses(SxCount(p)) => SxFound(p) # {}
            /\ SxRefuses(SxCount(p)) => ends
            /\ sxPending' = IF ends THEN <<>> ELSE SxHeld(p)
            /\ sxPump' = IF ends THEN [sxPump EXCEPT !.err = "ended"] ELSE sxPump
            /\ sxDone' = IF SxRefuses(SxCount(p)) THEN Append(sxDone, "error")
                         ELSE IF ends THEN Append(sxDone, "code") ELSE sxDone
  BY SxPumped DEF SxInv
<1> DEFINE p == sxPending \o SubSeq(sxErrWire, 1, size)
           c == SxCount(p)
<1>2. /\ sxPump.err = "reading"
      /\ UNCHANGED <<sxGroup, sxLeader, sxErr, sxOut, sxOutWire, sxCli, sxGotOut, sxSup, sxResult,
                     sxExit, sxCancel, sxCaller>>
  BY DEF SxPumpErr, sxRemote, sxCalls
<1>3. /\ sxErrWire' = SubSeq(sxErrWire, size + 1, Len(sxErrWire))
      /\ SxEmitErr(p, c)
      /\ ends /\ ~SxRefuses(c) => SxFound(p) # {}
      /\ SxRefuses(c) => ends
      /\ sxPending' = IF ends THEN <<>> ELSE SxHeld(p)
      /\ sxPump' = IF ends THEN [sxPump EXCEPT !.err = "ended"] ELSE sxPump
      /\ sxDone' = IF SxRefuses(c) THEN Append(sxDone, "error")
                   ELSE IF ends THEN Append(sxDone, "code") ELSE sxDone
  BY <1>1
<1> HIDE DEF c
<1>4. /\ SxTypes /\ SxCourse /\ SxErrSound /\ SxOutSound /\ SxBounds /\ SxWholeOutput
      /\ sxGotErr \in Seq(SxByte) /\ sxPending \in Seq(SxByte) /\ sxErrWire \in Seq(SxByte)
      /\ sxDone \in Seq({"error", "code"})
  BY DEF SxInv, SxTypes
<1>5. /\ p \in Seq(SxByte) /\ sxErrWire' \in Seq(SxByte)
      /\ SxParts(SxSaid, sxGotErr, sxPending, sxErrWire) =>
           SxParts(SxSaid, sxGotErr, p, sxErrWire')
  <2> DEFINE v == SubSeq(sxErrWire, 1, size)
             r == SubSeq(sxErrWire, size + 1, Len(sxErrWire))
  <2>1. /\ size \in Nat /\ size >= 1 /\ size =< Len(sxErrWire) /\ 1 \in Nat /\ 1 >= 1
        /\ size + 1 \in Nat /\ size + 1 >= 1 /\ Len(sxErrWire) \in Nat
    BY <1>4, LenProperties
  <2>2. v \in Seq(SxByte)
    BY <1>4, <2>1, PartIs
  <2>3. r \in Seq(SxByte)
    BY <1>4, <2>1, PartIs
  <2>4. p \in Seq(SxByte)
    BY <1>4, <2>2, JoinIs
  <2>5. SxSaid \in Seq(SxByte)
    BY <1>4, SxToken
  <2>6. ASSUME SxParts(SxSaid, sxGotErr, sxPending, sxErrWire)
        PROVE  SxParts(SxSaid, sxGotErr, p, r)
    BY <1>4, <2>5, <2>6, SxRead
  <2> QED
    BY <1>3, <2>3, <2>4, <2>6
<1> HIDE DEF p
<1>6. /\ c \in 0 .. Len(p) /\ (SxFound(p) # {} => c \in SxFound(p))
      /\ SxFound(SxHeld(p)) = {} => IsPrefix(SxHeld(p), SxMarker)
      /\ Len(p) \in Nat
  BY <1>5, SxCountIs, LenProperties DEF c
<1>7. /\ sxTotal' \in Nat /\ sxGotErr' \in Seq(SxByte)
      /\ Len(sxGotErr') + sxGotOut' <= sxTotal' /\ Len(sxGotErr') + sxGotOut' <= SxLimit
      /\ ~SxRefuses(c) => sxGotErr' = sxGotErr \o SubSeq(p, 1, c)
  BY <1>2, <1>3, <1>4, <1>5, <1>6, SxEmits
<1>8. SxHeld(p) \in Seq(SxByte)
  <2>1. c + 1 \in Nat /\ c + 1 >= 1
    BY <1>6
  <2>2. SubSeq(p, c + 1, Len(p)) \in Seq(SxByte)
    BY <1>5, <1>6, <2>1, PartIs
  <2> QED
    BY <2>2 DEF SxHeld, c
<1>9. /\ sxDone' \in Seq({"error", "code"})
      /\ ToSet(sxDone') = IF SxRefuses(c) THEN ToSet(sxDone) \cup {"error"}
                          ELSE IF ends THEN ToSet(sxDone) \cup {"code"} ELSE ToSet(sxDone)
  <2>1. \A x \in {"error", "code"} :
          /\ Append(sxDone, x) \in Seq({"error", "code"})
          /\ ToSet(Append(sxDone, x)) = ToSet(sxDone) \cup {x}
    BY <1>4, SxDoneIs
  <2> QED
    BY <1>3, <1>4, <2>1
<1>10. sxPump' \in [{"out", "err"} -> SxPumping] /\ sxPump'.out = sxPump.out
       /\ sxPump'.err = IF ends THEN "ended" ELSE "reading"
  BY <1>2, <1>3, <1>4 DEF SxTypes, SxPumping
<1>11. SxTypes'
  BY <1>2, <1>4, <1>5, <1>7, <1>8, <1>9, <1>10, <1>3, EmptySeq DEF SxTypes
<1>12. SxCourse'
  <2>1. sxSup \notin {"handshake", "ack"} /\ sxSup # "ended"
    BY <1>2, <1>4 DEF SxCourse
  <2> QED
    BY <1>2, <1>4, <1>10, <2>1 DEF SxCourse
<1>13. SxErrSound'
  <2>1. SUFFICES ASSUME SxTrue'
                 PROVE  /\ sxPump'.err # "ended" => SxParts(SxSaid', sxGotErr', sxPending', sxErrWire')
                        /\ "code" \in ToSet(sxDone') \/ sxSup' = "drain" =>
                             sxPump'.err = "ended" /\ sxLeader' = "sleeps" /\ sxGotErr' = sxErr'
    BY DEF SxErrSound
  <2>2. ~SxRefuses(c) /\ "error" \notin ToSet(sxDone') /\ sxSup # "ended" /\ sxCli # "broken"
    BY <1>2, <1>9, <2>1 DEF SxTrue, SxError
  <2>3. SxTrue
    BY <1>9, <2>2 DEF SxTrue, SxError
  <2>4. /\ SxParts(SxSaid, sxGotErr, sxPending, sxErrWire)
        /\ "code" \notin ToSet(sxDone) /\ sxSup # "drain"
    BY <1>2, <1>4, <2>3 DEF SxErrSound
  <2>5. SxSaid' = SxSaid
    BY <1>2 DEF SxSaid
  <2>6. sxGotErr' = sxGotErr \o SubSeq(p, 1, c)
    BY <1>7, <2>2
  <2>7. /\ SxParts(SxSaid, sxGotErr', SxHeld(p), sxErrWire')
        /\ Len(sxGotErr') = Len(sxGotErr) + c
    <3>1. SxSaid \in Seq(SxByte) /\ SxParts(SxSaid, sxGotErr, p, sxErrWire')
      BY <1>4, <1>5, <2>4, SxToken
    <3>2. /\ SxParts(SxSaid, sxGotErr \o SubSeq(p, 1, c), SubSeq(p, c + 1, Len(p)), sxErrWire')
          /\ Len(sxGotErr \o SubSeq(p, 1, c)) = Len(sxGotErr) + c
      <4>1. /\ SxSaid \in Seq(SxByte) /\ sxGotErr \in Seq(SxByte) /\ p \in Seq(SxByte)
            /\ sxErrWire' \in Seq(SxByte) /\ c \in 0 .. Len(p)
            /\ SxParts(SxSaid, sxGotErr, p, sxErrWire')
        BY <1>4, <1>5, <1>6, <3>1
      <4> QED
        BY ONLY <4>1, SxEmit
    <3> QED
      BY <2>6, <3>2 DEF SxHeld, c
  <2>8. CASE ~ends
    BY <1>2, <1>3, <1>9, <1>10, <2>2, <2>4, <2>5, <2>7, <2>8
  <2>9. CASE ends
    <3>1. c \in SxFound(p)
      BY <1>3, <1>6, <2>2, <2>9
    <3>2. c \in 0 .. Len(p) - 2 /\ p[c + 2] = "t"
      BY <1>5, <3>1, SxFoundIs
    <3>3. PICK n \in Nat, m \in Nat, l \in Nat, w \in Nat, e \in Nat :
            /\ n = Len(sxGotErr) /\ m = Len(p) /\ l = Len(SxSaid) /\ w = Len(sxErrWire')
            /\ e = Len(sxErr)
      BY <1>4, <1>5, SxToken, LenProperties
    <3>4. /\ l = n + m + w /\ \A i \in 1 .. m : SxSaid[n + i] = p[i]
      BY <1>5, <2>4, <3>3 DEF SxParts
    <3>5. c + 2 \in 1 .. m /\ n + (c + 2) \in 1 .. l /\ c \in Nat
      BY <3>2, <3>3, <3>4
    <3>6. SxSaid[n + (c + 2)] = "t"
      BY <3>2, <3>4, <3>5
    <3>7. sxLeader = "sleeps" /\ n + (c + 2) = e + 2
      BY <1>4, <3>3, <3>5, <3>6, SxToken
    <3>8. Len(sxGotErr') = Len(sxErr)
      BY <2>7, <3>3, <3>5, <3>7
    <3>9. \A i \in 1 .. Len(sxGotErr') : sxGotErr'[i] = sxErr[i]
      <4>1. \A i \in 1 .. Len(sxGotErr') : SxSaid[i] = sxGotErr'[i]
        BY <2>7 DEF SxParts
      <4>2. \A i \in 1 .. e : i \in 1 .. l /\ i =< e
        BY <3>4, <3>5, <3>7
      <4>3. \A i \in 1 .. e : SxSaid[i] = sxErr[i]
        BY <1>4, <3>3, <4>2, SxToken
      <4> QED
        BY <3>3, <3>8, <4>1, <4>3
    <3>10. sxGotErr' = sxErr
      BY <1>4, <1>7, <3>8, <3>9, SxToken, SeqEqual
    <3> QED
      BY <1>2, <1>10, <2>9, <3>7, <3>10
  <2> QED
    BY <2>8, <2>9
<1>14. SxOutSound'
  BY <1>2, <1>4, <1>9, <1>10 DEF SxOutSound, SxTrue, SxError
<1>15. SxBounds'
  <2>1. SxFound(sxPending') = {} => IsPrefix(sxPending', SxMarker)
    BY <1>3, <1>6, SxNothingHeld
  <2> QED
    BY <1>7, <2>1 DEF SxBounds
<1>16. SxWholeOutput'
  <2>1. sxSup # "ended" /\ sxExit = "none"
    BY <1>2, <1>4 DEF SxCourse
  <2> QED
    BY <1>2, <2>1 DEF SxWholeOutput
<1> QED
  BY <1>11, <1>12, <1>13, <1>14, <1>15, <1>16 DEF SxInv

LEMMA SxPumpErrEndsKeeps ==
  ASSUME SxInv, SxPumpErrEnds
  PROVE  SxInv'
<1> DEFINE n == Len(sxPending)
<1>1. /\ sxPump.err = "reading" /\ sxErrWire = <<>> /\ sxCli # "alive"
      /\ SxEmitErr(sxPending, n) /\ sxPending' = <<>>
      /\ sxPump' = [sxPump EXCEPT !.err = "ended"]
      /\ sxDone' = IF SxRefuses(n) THEN Append(sxDone, "error") ELSE sxDone
      /\ UNCHANGED <<sxGroup, sxLeader, sxErr, sxOut, sxErrWire, sxOutWire, sxCli, sxGotOut, sxSup,
                     sxResult, sxExit, sxCancel, sxCaller>>
  BY DEF SxPumpErrEnds, sxRemote, sxCalls
<1>2. /\ SxTypes /\ SxCourse /\ SxErrSound /\ SxOutSound /\ SxBounds /\ SxWholeOutput
      /\ sxPending \in Seq(SxByte) /\ sxDone \in Seq({"error", "code"}) /\ n \in 0 .. Len(sxPending)
  BY LenProperties DEF SxInv, SxTypes
<1>3. /\ sxTotal' \in Nat /\ sxGotErr' \in Seq(SxByte)
      /\ Len(sxGotErr') + sxGotOut' <= sxTotal' /\ Len(sxGotErr') + sxGotOut' <= SxLimit
  <2> HIDE DEF n
  <2> QED
    BY <1>1, <1>2, SxEmits
<1>4. /\ sxDone' \in Seq({"error", "code"})
      /\ ToSet(sxDone') = IF SxRefuses(n) THEN ToSet(sxDone) \cup {"error"} ELSE ToSet(sxDone)
  <2>1. \A x \in {"error", "code"} :
          /\ Append(sxDone, x) \in Seq({"error", "code"})
          /\ ToSet(Append(sxDone, x)) = ToSet(sxDone) \cup {x}
    BY <1>2, SxDoneIs
  <2> QED
    BY <1>1, <1>2, <2>1
<1> HIDE DEF n
<1>5. sxPump' \in [{"out", "err"} -> SxPumping] /\ sxPump'.out = sxPump.out
      /\ sxPump'.err = "ended"
  BY <1>1, <1>2 DEF SxTypes, SxPumping
<1>6. SxTypes'
  BY <1>1, <1>2, <1>3, <1>4, <1>5, EmptySeq DEF SxTypes
<1>7. sxSup \notin {"handshake", "ack"} /\ sxSup # "ended" /\ sxExit = "none"
  BY <1>1, <1>2 DEF SxCourse
<1>8. SxCourse'
  BY <1>1, <1>2, <1>5, <1>7 DEF SxCourse
<1>9. SxErrSound'
  BY <1>1, <1>2, <1>4, <1>5 DEF SxErrSound, SxTrue, SxError
<1>10. SxOutSound'
  BY <1>1, <1>2, <1>4, <1>5 DEF SxOutSound, SxTrue, SxError
<1>11. SxBounds'
  BY <1>1, <1>3, SxNothingHeld DEF SxBounds
<1>12. SxWholeOutput'
  BY <1>1, <1>7 DEF SxWholeOutput
<1> QED
  BY <1>6, <1>8, <1>9, <1>10, <1>11, <1>12 DEF SxInv
(* The output is whole already, and nothing of what it is compared with    *)
(* moves any more; or there is no exit yet.                                *)
LEMMA SxOutputKept ==
  ASSUME SxInv,
         \/ sxExit' # "code"
         \/ /\ sxExit' = sxExit
            /\ sxExit = "code" =>
                 /\ UNCHANGED <<sxErr, sxOut, sxGotErr, sxGotOut>>
                 /\ sxCli' = sxCli
  PROVE  SxWholeOutput'
  BY DEF SxInv, SxWholeOutput

LEMMA SxPumpOutKeeps ==
  ASSUME SxInv, SxPumpOut
  PROVE  SxInv'
<1>1. PICK size \in 1 .. sxOutWire :
         /\ sxOutWire' = sxOutWire - size
         /\ sxTotal' = sxTotal + size
         /\ sxGotOut' = IF sxCaller = "left" THEN sxGotOut
                        ELSE sxGotOut + SxAllowed(size, sxTotal)
         /\ IF SxRefuses(size)
            THEN sxPump' = [sxPump EXCEPT !.out = "ended"] /\ sxDone' = Append(sxDone, "error")
            ELSE UNCHANGED <<sxPump, sxDone>>
  BY DEF SxPumpOut
<1>2. /\ sxPump.out = "reading"
      /\ UNCHANGED <<sxGroup, sxLeader, sxErr, sxOut, sxErrWire, sxCli, sxPending, sxGotErr, sxSup,
                     sxResult, sxExit, sxCancel, sxCaller>>
  BY DEF SxPumpOut, sxRemote, sxCalls
<1>3. /\ SxTypes /\ SxCourse /\ SxErrSound /\ SxOutSound /\ SxBounds /\ SxWholeOutput
      /\ sxDone \in Seq({"error", "code"}) /\ sxTotal \in Nat /\ sxGotOut \in Nat
      /\ sxOutWire \in Nat /\ Len(sxGotErr) \in Nat /\ size \in Nat /\ size =< sxOutWire
  BY LenProperties DEF SxInv, SxTypes
<1> DEFINE a == SxAllowed(size, sxTotal)
<1>4. /\ a \in 0 .. size
      /\ \A g \in Nat : g =< sxTotal /\ g =< SxLimit =>
              g + a =< sxTotal + size /\ g + a =< SxLimit
  BY <1>3, SxAllowedIs
<1>5. SxRefuses(size) <=> a < size \/ (sxCaller = "left" /\ a > 0)
  BY DEF SxRefuses
<1>6. sxGotOut' = IF sxCaller = "left" THEN sxGotOut ELSE sxGotOut + a
  BY <1>1
<1> HIDE DEF a
<1>7. /\ sxDone' \in Seq({"error", "code"})
      /\ ToSet(sxDone') = IF SxRefuses(size) THEN ToSet(sxDone) \cup {"error"} ELSE ToSet(sxDone)
  <2>1. /\ Append(sxDone, "error") \in Seq({"error", "code"})
        /\ ToSet(Append(sxDone, "error")) = ToSet(sxDone) \cup {"error"}
    BY <1>3, SxDoneIs
  <2> QED
    BY <1>1, <1>3, <2>1
<1>8. /\ sxPump' \in [{"out", "err"} -> SxPumping] /\ sxPump'.err = sxPump.err
      /\ sxPump'.out = IF SxRefuses(size) THEN "ended" ELSE "reading"
  BY <1>1, <1>2, <1>3 DEF SxTypes, SxPumping
<1>9. sxOutWire' \in Nat /\ sxTotal' \in Nat /\ sxGotOut' \in Nat
  BY <1>1, <1>3, <1>4, <1>6
<1>10. SxTypes'
  BY <1>2, <1>3, <1>7, <1>8, <1>9 DEF SxTypes
<1>11. sxSup \notin {"handshake", "ack"} /\ sxSup # "ended" /\ sxExit = "none"
  BY <1>2, <1>3 DEF SxCourse
<1>12. SxCourse'
  BY <1>2, <1>3, <1>8, <1>11 DEF SxCourse
<1>13. SxErrSound'
  BY <1>2, <1>3, <1>7, <1>8 DEF SxErrSound, SxTrue, SxError, SxSaid
<1>14. SxOutSound'
  <2>1. SUFFICES ASSUME SxTrue'
                 PROVE  /\ sxOut' = sxGotOut' + sxOutWire'
                        /\ sxPump'.out = "ended" => sxOutWire' = 0 /\ sxCli' # "alive"
    BY DEF SxOutSound
  <2>2. ~SxRefuses(size) /\ SxTrue
    BY <1>2, <1>7, <2>1 DEF SxTrue, SxError
  <2>3. sxOut = sxGotOut + sxOutWire
    BY <1>3, <2>2 DEF SxOutSound
  <2>4. a = size /\ sxCaller # "left"
    BY <1>1, <1>3, <1>4, <1>5, <2>2
  <2>5. sxGotOut + sxOutWire = sxGotOut + size + (sxOutWire - size)
    BY <1>3
  <2> QED
    BY <1>1, <1>2, <1>6, <1>8, <2>2, <2>3, <2>4, <2>5
<1>15. SxBounds'
  <2>1. PICK e \in Nat : e = Len(sxGotErr)
    BY <1>3
  <2>2. e + sxGotOut \in Nat /\ e + sxGotOut =< sxTotal /\ e + sxGotOut =< SxLimit
    BY <1>3, <2>1 DEF SxBounds
  <2>3. e + sxGotOut + a =< sxTotal + size /\ e + sxGotOut + a =< SxLimit
    BY <1>4, <2>2
  <2>4. e + sxGotOut =< sxTotal + size /\ e + (sxGotOut + a) = e + sxGotOut + a
    BY <1>3, <1>4, <2>2
  <2>5. e + sxGotOut' =< sxTotal' /\ e + sxGotOut' =< SxLimit
    BY <1>1, <1>6, <2>2, <2>3, <2>4
  <2> QED
    BY <1>2, <1>3, <2>1, <2>5 DEF SxBounds
<1>16. SxWholeOutput'
  BY <1>2, <1>11, SxOutputKept
<1> QED
  BY <1>10, <1>12, <1>13, <1>14, <1>15, <1>16 DEF SxInv

(* Bytes on their way: a write, the frame, and a client that breaks.       *)
LEMMA SxWritesKeeps ==
  ASSUME SxInv, SxWrites
  PROVE  SxInv'
<1>1. /\ sxCli = "alive"
      /\ UNCHANGED <<sxGroup, sxLeader, sxCli, sxPump, sxPending, sxTotal, sxGotErr, sxGotOut,
                     sxSup, sxDone, sxResult, sxExit, sxCancel, sxCaller>>
  BY DEF SxWrites, sxHost, sxEnd, sxCalls
<1>2. /\ SxTypes /\ SxCourse /\ SxErrSound /\ SxOutSound /\ SxBounds
      /\ sxErr \in Seq({"a", "n"}) /\ sxErr \in Seq(SxByte) /\ sxErrWire \in Seq(SxByte)
      /\ sxGotErr \in Seq(SxByte) /\ sxPending \in Seq(SxByte)
      /\ sxOut \in Nat /\ sxOutWire \in Nat /\ sxGotOut \in Nat
  BY SxToken DEF SxInv, SxTypes
<1>3. sxSup # "ended" /\ sxExit = "none"
  BY <1>1, <1>2 DEF SxCourse
<1>4. SxCourse' /\ SxBounds'
  BY <1>1, <1>2 DEF SxCourse, SxBounds
<1>5. SxWholeOutput'
  BY <1>1, <1>3, SxOutputKept
<1>6. CASE /\ "command" \in sxGroup
           /\ \E b \in {"a", "n"} :
                sxErr' = Append(sxErr, b) /\ sxErrWire' = Append(sxErrWire, b)
           /\ UNCHANGED <<sxOut, sxOutWire>>
  <2>1. PICK b \in {"a", "n"} : sxErr' = Append(sxErr, b) /\ sxErrWire' = Append(sxErrWire, b)
    BY <1>6
  <2>2. b \in SxByte /\ <<b>> \in Seq(SxByte)
    BY DEF SxByte
  <2>3. /\ sxErr' \in Seq({"a", "n"}) /\ sxErrWire' \in Seq(SxByte)
        /\ sxErr' = sxErr \o <<b>> /\ sxErrWire' = sxErrWire \o <<b>>
    BY <1>2, <2>1, <2>2, AppendProperties, AppendIsConcat
  <2>4. SxTypes'
    BY <1>1, <1>2, <1>6, <2>3 DEF SxTypes
  <2>5. sxLeader # "sleeps"
    BY <1>2, <1>6 DEF SxCourse
  <2>6. SxErrSound'
    <3>1. SxParts(sxErr, sxGotErr, sxPending, sxErrWire) =>
            SxParts(sxErr', sxGotErr', sxPending', sxErrWire')
      <4>1. ASSUME SxParts(sxErr, sxGotErr, sxPending, sxErrWire)
            PROVE  SxParts(sxErr \o <<b>>, sxGotErr, sxPending, sxErrWire \o <<b>>)
        BY <1>2, <2>2, <4>1, SxMore
      <4> QED
        BY <1>1, <2>3, <4>1
    <3> QED
      BY <1>1, <1>2, <2>5, <3>1 DEF SxErrSound, SxTrue, SxError, SxSaid
  <2>7. SxOutSound'
    BY <1>1, <1>2, <1>6 DEF SxOutSound, SxTrue, SxError
  <2> QED
    BY <1>4, <1>5, <2>4, <2>6, <2>7 DEF SxInv
<1>7. CASE /\ sxOut' = sxOut + 1 /\ sxOutWire' = sxOutWire + 1
           /\ UNCHANGED <<sxErr, sxErrWire>>
  <2>1. SxTypes'
    BY <1>1, <1>2, <1>7 DEF SxTypes
  <2>2. SxErrSound'
    BY <1>1, <1>2, <1>7 DEF SxErrSound, SxTrue, SxError, SxSaid
  <2>3. SxOutSound'
    BY <1>1, <1>2, <1>7 DEF SxOutSound, SxTrue, SxError
  <2> QED
    BY <1>4, <1>5, <2>1, <2>2, <2>3 DEF SxInv
<1> QED
  BY <1>6, <1>7 DEF SxWrites

LEMMA SxCommandEndsKeeps ==
  ASSUME SxInv, SxCommandEnds
  PROVE  SxInv'
<1>1. /\ "command" \in sxGroup
      /\ sxGroup' \subseteq (sxGroup \ {"command"}) \cup {"grandchild"}
      /\ IF "leader" \in sxGroup
         THEN /\ sxLeader' = "sleeps"
              /\ sxErrWire' = IF sxCli = "alive" THEN sxErrWire \o SxMarker \o SxStatus
                              ELSE sxErrWire
         ELSE UNCHANGED <<sxLeader, sxErrWire>>
      /\ UNCHANGED <<sxErr, sxOut, sxOutWire, sxCli, sxPump, sxPending, sxTotal, sxGotErr, sxGotOut,
                     sxSup, sxDone, sxResult, sxExit, sxCancel, sxCaller>>
  BY DEF SxCommandEnds, sxHost, sxEnd, sxCalls
<1>2. /\ SxTypes /\ SxCourse /\ SxErrSound /\ SxOutSound /\ SxBounds
      /\ sxErr \in Seq(SxByte) /\ sxErrWire \in Seq(SxByte)
      /\ sxGotErr \in Seq(SxByte) /\ sxPending \in Seq(SxByte)
  BY SxToken DEF SxInv, SxTypes
<1>3. /\ sxSup \notin {"handshake", "ack", "drain"} /\ sxLeader # "sleeps"
      /\ sxExit \notin {"code", "killed"} /\ sxCaller \notin {"answered", "stopped"}
  BY <1>1, <1>2 DEF SxCourse
<1>4. /\ SxFrame \in Seq(SxByte) /\ sxErrWire \o SxMarker \o SxStatus = sxErrWire \o SxFrame
      /\ sxErrWire \o SxFrame \in Seq(SxByte)
  <2>1. SxMarker \in Seq(SxByte) /\ SxStatus \in Seq(SxByte) /\ SxFrame = SxMarker \o SxStatus
    BY DEF SxMarker, SxStatus, SxFrame, SxByte
  <2>2. SxMarker \o SxStatus \in Seq(SxByte)
    BY <2>1, ConcatProperties
  <2>3. (sxErrWire \o SxMarker) \o SxStatus = sxErrWire \o (SxMarker \o SxStatus)
    <3>1. sxErrWire \in Seq(SxByte) /\ SxMarker \in Seq(SxByte) /\ SxStatus \in Seq(SxByte)
      BY <1>2, <2>1
    <3> QED
      BY ONLY <3>1, ConcatAssociative
  <2>4. SxFrame \in Seq(SxByte)
    BY <2>1, <2>2
  <2>5. sxErrWire \o SxFrame \in Seq(SxByte)
    BY <1>2, <2>4, ConcatProperties
  <2> QED
    BY <2>1, <2>3, <2>4, <2>5
<1>5. SxTypes'
  <2>1. sxErrWire' \in Seq(SxByte)
    BY <1>1, <1>2, <1>4
  <2>2. sxLeader' \in {"starts", "waits", "runs", "sleeps"} /\ sxGroup' \subseteq {"leader", "command", "grandchild"}
    BY <1>1, <1>2 DEF SxTypes
  <2> QED
    BY <1>1, <1>2, <2>1, <2>2 DEF SxTypes
<1>6. SxCourse'
  BY <1>1, <1>2, <1>3 DEF SxCourse
<1>7. SxErrSound'
  <2>1. SUFFICES ASSUME SxTrue'
                 PROVE  /\ sxPump'.err # "ended" => SxParts(SxSaid', sxGotErr', sxPending', sxErrWire')
                        /\ "code" \in ToSet(sxDone') \/ sxSup' = "drain" =>
                             sxPump'.err = "ended" /\ sxLeader' = "sleeps" /\ sxGotErr' = sxErr'
    BY DEF SxErrSound
  <2>2. SxTrue /\ "code" \notin ToSet(sxDone)
    BY <1>1, <1>2, <1>3, <2>1 DEF SxTrue, SxError, SxErrSound
  <2>3. ASSUME sxPump.err # "ended" PROVE SxParts(SxSaid', sxGotErr', sxPending', sxErrWire')
    <3>1. SxParts(sxErr, sxGotErr, sxPending, sxErrWire)
      BY <1>2, <1>3, <2>2, <2>3 DEF SxErrSound, SxSaid
    <3>2. CASE "leader" \in sxGroup
      <4>1. sxCli = "alive"
        BY <1>2, <2>2, <3>2 DEF SxCourse, SxTypes, SxTrue
      <4>2. SxParts(sxErr \o SxFrame, sxGotErr, sxPending, sxErrWire \o SxFrame)
        BY <1>2, <1>4, <3>1, SxMore
      <4>3. SxSaid' = sxErr \o SxFrame /\ sxErrWire' = sxErrWire \o SxFrame
        BY <1>1, <1>4, <3>2, <4>1 DEF SxSaid
      <4> QED
        BY <1>1, <4>2, <4>3
    <3>3. CASE "leader" \notin sxGroup
      BY <1>1, <1>3, <3>1, <3>3 DEF SxSaid
    <3> QED
      BY <3>2, <3>3
  <2> QED
    BY <1>1, <1>3, <2>2, <2>3
<1>8. SxOutSound' /\ SxBounds'
  BY <1>1, <1>2 DEF SxOutSound, SxBounds, SxTrue, SxError
<1>9. SxWholeOutput'
  BY <1>1, <1>3, SxOutputKept
<1> QED
  BY <1>5, <1>6, <1>7, <1>8, <1>9 DEF SxInv
LEMMA SxCliLeavesKeeps ==
  ASSUME SxInv, SxCliLeaves
  PROVE  SxInv'
<1>1. /\ sxCli = "alive" /\ sxCli' \in {"gone", "broken"}
      /\ sxCli' = "gone" =>
           "leader" \notin sxGroup /\ UNCHANGED <<sxErrWire, sxOutWire>>
      /\ UNCHANGED <<sxGroup, sxLeader, sxErr, sxOut, sxPump, sxPending, sxTotal, sxGotErr, sxGotOut,
                     sxSup, sxDone, sxResult, sxExit, sxCancel, sxCaller>>
  BY DEF SxCliLeaves, sxRemote, sxHost, sxEnd, sxCalls
<1>2. /\ SxTypes /\ SxCourse /\ SxErrSound /\ SxOutSound /\ SxBounds
      /\ sxErrWire \in Seq(SxByte) /\ sxOutWire \in Nat
  BY DEF SxInv, SxTypes
<1>3. sxSup # "ended" /\ sxExit = "none"
  BY <1>1, <1>2 DEF SxCourse
<1>4. sxErrWire' \in Seq(SxByte) /\ sxOutWire' \in Nat
  <2>1. CASE UNCHANGED <<sxErrWire, sxOutWire>>
    BY <1>2, <2>1
  <2>2. CASE /\ \E n \in 0 .. Len(sxErrWire) : sxErrWire' = SubSeq(sxErrWire, 1, n)
             /\ sxOutWire' \in 0 .. sxOutWire
    <3>1. PICK n \in 0 .. Len(sxErrWire) : sxErrWire' = SubSeq(sxErrWire, 1, n)
      BY <2>2
    <3>2. n \in Nat /\ n =< Len(sxErrWire) /\ 1 \in Nat /\ 1 >= 1
      BY <1>2, LenProperties
    <3>3. SubSeq(sxErrWire, 1, n) \in Seq(SxByte)
      BY <1>2, <3>2, PartIs
    <3> QED
      BY <1>2, <2>2, <3>1, <3>3
  <2> QED
    BY <2>1, <2>2 DEF SxCliLeaves
<1>5. SxTypes' /\ SxCourse' /\ SxBounds'
  BY <1>1, <1>2, <1>3, <1>4 DEF SxTypes, SxCourse, SxBounds
<1>6. SxErrSound'
  BY <1>1, <1>2 DEF SxErrSound, SxTrue, SxError, SxSaid
<1>7. SxOutSound'
  BY <1>1, <1>2 DEF SxOutSound, SxTrue, SxError
<1>8. SxWholeOutput'
  BY <1>1, <1>3, SxOutputKept
<1> QED
  BY <1>5, <1>6, <1>7, <1>8 DEF SxInv

(* The run ends, or its drain begins.                                      *)
LEMMA SxRunEndsKeeps ==
  ASSUME SxInv, SxRunEnds
  PROVE  SxInv'
<1>1. PICK result \in SxOutcomes, confirmed \in BOOLEAN :
       /\ sxGroup' \in SUBSET sxGroup
       /\ SxTerminate(sxGroup', confirmed)
       /\ sxDone' = IF sxDone # <<>> /\ result = Head(sxDone) THEN Tail(sxDone) ELSE sxDone
       /\ sxResult' = IF confirmed THEN result ELSE "error"
       /\ IF result = "code" /\ confirmed
          THEN /\ sxSup' = "drain"
               /\ UNCHANGED <<sxExit, sxErrWire, sxOutWire, sxCli, sxHost>>
          ELSE /\ sxSup' = "ended" /\ sxExit' = sxResult'
               /\ SxAbort
  BY DEF SxRunEnds
<1>2. /\ sxSup = "running"
      /\ UNCHANGED <<sxLeader, sxErr, sxOut, sxCancel, sxCaller>>
  BY DEF SxRunEnds, sxCalls
<1>3. /\ SxTypes /\ SxCourse /\ SxErrSound /\ SxOutSound /\ SxBounds
      /\ sxDone \in Seq({"error", "code"})
  BY DEF SxInv, SxTypes
<1>4. /\ sxExit = "none" /\ sxCaller \notin {"answered", "stopped"}
      /\ sxPump.err # "none" /\ sxPump.out # "none"
  BY <1>2, <1>3 DEF SxCourse
<1>5. /\ sxDone # <<>> => /\ Tail(sxDone) \in Seq({"error", "code"})
                          /\ ToSet(sxDone) = ToSet(Tail(sxDone)) \cup {Head(sxDone)}
                          /\ Head(sxDone) \in ToSet(sxDone)
      /\ sxDone = <<>> => ToSet(sxDone) = {}
  BY <1>3, SxDoneIs
<1>6. /\ sxDone' \in Seq({"error", "code"})
      /\ result = "code" => /\ "code" \in ToSet(sxDone)
                            /\ "error" \in ToSet(sxDone) => "error" \in ToSet(sxDone')
      /\ result \in {"killed", "error", "code"}
  <2>1. sxDone # <<>> => Head(sxDone) \in {"error", "code"}
    BY <1>3, HeadTailProperties
  <2>2. /\ result \in {"killed", "error", "code"}
        /\ result = "code" => sxDone # <<>> /\ Head(sxDone) = "code"
    BY <2>1 DEF SxOutcomes
  <2>3. result = "code" => sxDone' = Tail(sxDone)
    BY <1>1, <2>2
  <2>4. sxDone' \in Seq({"error", "code"})
    BY <1>1, <1>3, <1>5
  <2> QED
    BY <1>5, <2>2, <2>3, <2>4
<1>7. confirmed => sxGroup' = {}
  BY <1>1 DEF SxTerminate
<1>8. CASE result = "code" /\ confirmed
  <2>1. /\ sxSup' = "drain" /\ sxResult' = "code" /\ sxGroup' = {}
        /\ UNCHANGED <<sxExit, sxErrWire, sxOutWire, sxCli, sxPump, sxPending, sxTotal,
                       sxGotErr, sxGotOut>>
    BY <1>1, <1>7, <1>8 DEF sxHost
  <2>2. SxTypes'
    BY <1>2, <1>3, <1>6, <2>1 DEF SxTypes, SxSuper
  <2>3. SxCourse'
    BY <1>2, <1>3, <1>4, <2>1 DEF SxCourse
  <2>4. SxErrSound' /\ SxOutSound'
    <3>1. SUFFICES ASSUME SxTrue'
                   PROVE  SxErrSound' /\ SxOutSound'
      BY DEF SxErrSound, SxOutSound
    <3>2. SxTrue /\ "code" \in ToSet(sxDone)
      BY <1>2, <1>6, <1>8, <2>1, <3>1 DEF SxTrue, SxError
    <3> QED
      BY <1>2, <1>3, <2>1, <3>2 DEF SxErrSound, SxOutSound
  <2>5. SxBounds'
    BY <1>3, <2>1 DEF SxBounds
  <2>6. SxWholeOutput'
    BY <1>4, <2>1, SxOutputKept
  <2> QED
    BY <2>2, <2>3, <2>4, <2>5, <2>6 DEF SxInv
<1>9. CASE ~(result = "code" /\ confirmed)
  <2>1. /\ sxSup' = "ended" /\ sxExit' = sxResult'
        /\ sxPump' = [out |-> "ended", err |-> "ended"]
        /\ sxPending' = <<>> /\ sxErrWire' = <<>> /\ sxOutWire' = 0
        /\ sxCli' = SxKillCli
        /\ UNCHANGED <<sxTotal, sxGotErr, sxGotOut>>
    BY <1>1, <1>9 DEF SxAbort
  <2>2. sxResult' \in {"killed", "error"} /\ (sxResult' = "killed" => sxGroup' = {})
    BY <1>1, <1>6, <1>7, <1>9
  <2>3. sxCli' \in {"gone", "broken"}
    BY <1>3, <2>1 DEF SxKillCli, SxTypes
  <2>4. sxPump' \in [{"out", "err"} -> SxPumping] /\ sxPump'.out = "ended" /\ sxPump'.err = "ended"
    BY <2>1 DEF SxPumping
  <2>5. SxTypes'
    BY <1>1, <1>2, <1>3, <1>6, <2>1, <2>2, <2>3, <2>4, EmptySeq DEF SxTypes, SxSuper
  <2>6. SxCourse'
    BY <1>1, <1>2, <1>3, <1>4, <2>1, <2>2, <2>3, <2>4 DEF SxCourse
  <2>7. SxErrSound' /\ SxOutSound'
    BY <2>1 DEF SxErrSound, SxOutSound, SxTrue
  <2>8. SxBounds'
    BY <1>3, <2>1, SxNothingHeld DEF SxBounds
  <2>9. SxWholeOutput'
    BY <2>1, <2>2, SxOutputKept
  <2> QED
    BY <2>5, <2>6, <2>7, <2>8, <2>9 DEF SxInv
<1> QED
  BY <1>8, <1>9

(* The other steps of the supervisor.                                      *)
LEMMA SxSupKeeps ==
  ASSUME SxInv, SxHandshakeFails \/ SxHandshake \/ SxAck \/ SxAckFails
                \/ SxDrained \/ SxDrainCancelled
  PROVE  SxInv'
<1>1. /\ SxTypes /\ SxCourse /\ SxErrSound /\ SxOutSound /\ SxBounds
      /\ sxDone \in Seq({"error", "code"})
  BY DEF SxInv, SxTypes
<1>2. CASE SxHandshakeFails
  <2>1. /\ sxSup = "handshake" /\ sxSup' = "ended" /\ sxExit' = "error"
        /\ sxCli' = SxKillCli
        /\ sxErrWire' = <<>> /\ sxOutWire' = 0
        /\ sxCaller' = IF sxCaller = "starting" THEN "failed" ELSE sxCaller
        /\ UNCHANGED <<sxGroup, sxLeader, sxErr, sxOut, sxPump, sxPending, sxTotal, sxGotErr, sxGotOut,
                       sxDone, sxResult, sxCancel>>
    BY <1>2 DEF SxHandshakeFails, sxRemote, sxHost
  <2>2. sxCli' \in {"gone", "broken"}
    BY <1>1, <2>1 DEF SxKillCli, SxTypes
  <2>3. sxPump.err = "none" /\ sxPump.out = "none" /\ sxCaller \notin {"answered", "stopped"}
    BY <1>1, <2>1 DEF SxCourse
  <2>4. SxTypes'
    BY <1>1, <2>1, <2>2, EmptySeq DEF SxTypes, SxSuper
  <2>5. SxCourse'
    BY <1>1, <2>1, <2>2, <2>3 DEF SxCourse
  <2>6. SxErrSound' /\ SxOutSound'
    BY <2>1 DEF SxErrSound, SxOutSound, SxTrue
  <2>7. SxBounds' /\ SxWholeOutput'
    BY <1>1, <2>1, SxOutputKept DEF SxBounds
  <2> QED
    BY <2>4, <2>5, <2>6, <2>7 DEF SxInv
<1>3. CASE SxHandshake
  <2>1. /\ sxSup = "handshake" /\ sxSup' = "ack" /\ sxLeader = "waits"
        /\ UNCHANGED <<sxGroup, sxLeader, sxErr, sxOut, sxErrWire, sxOutWire, sxCli, sxPump, sxPending,
                       sxTotal, sxGotErr, sxGotOut, sxDone, sxResult, sxExit, sxCancel, sxCaller>>
    BY <1>3 DEF SxHandshake, sxRemote, sxHost, sxCalls
  <2>2. SxTypes' /\ SxBounds' /\ SxCourse'
    BY <1>1, <2>1 DEF SxTypes, SxSuper, SxBounds, SxCourse
  <2>3. SxErrSound' /\ SxOutSound'
    BY <1>1, <2>1 DEF SxErrSound, SxOutSound, SxTrue, SxError, SxSaid
  <2>4. SxWholeOutput'
    BY <2>1, SxOutputKept
  <2> QED
    BY <2>2, <2>3, <2>4 DEF SxInv
<1>4. CASE SxAck
  <2>1. /\ sxSup = "ack" /\ sxCli = "alive" /\ sxSup' = "running"
        /\ IF "leader" \in sxGroup
           THEN sxGroup' = sxGroup \cup {"command"} /\ sxLeader' = "runs"
           ELSE UNCHANGED <<sxGroup, sxLeader>>
        /\ sxPump' = [out |-> "reading", err |-> "reading"]
        /\ sxCaller' = IF sxCaller = "starting" THEN "holds" ELSE sxCaller
        /\ UNCHANGED <<sxErr, sxOut, sxErrWire, sxOutWire, sxCli, sxPending, sxTotal, sxGotErr, sxGotOut,
                       sxDone, sxResult, sxExit, sxCancel>>
    BY <1>4 DEF SxAck
  <2>2. /\ sxLeader # "sleeps" /\ sxLeader' # "sleeps" /\ sxPump.err = "none" /\ sxPump.out = "none"
        /\ sxExit = "none" /\ sxDone = <<>> /\ sxCaller \notin {"answered", "stopped"}
    BY <1>1, <2>1 DEF SxCourse
  <2>3. sxPump' \in [{"out", "err"} -> SxPumping] /\ sxPump'.out = "reading" /\ sxPump'.err = "reading"
    BY <2>1 DEF SxPumping
  <2>4. SxTypes'
    BY <1>1, <2>1, <2>3 DEF SxTypes, SxSuper
  <2>5. SxCourse'
    BY <1>1, <2>1, <2>2, <2>3 DEF SxCourse
  <2>6. "code" \notin ToSet(sxDone)
    BY <2>2 DEF ToSet
  <2>7. SxErrSound'
    BY <1>1, <2>1, <2>2, <2>3, <2>6 DEF SxErrSound, SxTrue, SxError, SxSaid
  <2>8. SxOutSound'
    BY <1>1, <2>1, <2>2, <2>3 DEF SxOutSound, SxTrue, SxError
  <2>9. SxBounds' /\ SxWholeOutput'
    BY <1>1, <2>1, <2>2, SxOutputKept DEF SxBounds
  <2> QED
    BY <2>4, <2>5, <2>7, <2>8, <2>9 DEF SxInv
<1>5. CASE SxAckFails
  <2>1. /\ sxSup = "ack" /\ sxCli # "alive" /\ sxSup' = "ended" /\ sxExit' = "error"
        /\ sxGroup' \in SUBSET sxGroup
        /\ sxErrWire' = <<>> /\ sxOutWire' = 0
        /\ sxCaller' = IF sxCaller = "starting" THEN "failed" ELSE sxCaller
        /\ UNCHANGED <<sxLeader, sxErr, sxOut, sxCli, sxPump, sxPending, sxTotal, sxGotErr, sxGotOut,
                       sxDone, sxResult, sxCancel>>
    BY <1>5 DEF SxAckFails, sxHost
  <2>2. sxPump.err = "none" /\ sxPump.out = "none" /\ sxCaller \notin {"answered", "stopped"}
    BY <1>1, <2>1 DEF SxCourse
  <2>3. SxTypes'
    BY <1>1, <2>1, EmptySeq DEF SxTypes, SxSuper
  <2>4. SxCourse'
    BY <1>1, <2>1, <2>2 DEF SxCourse
  <2>5. SxErrSound' /\ SxOutSound'
    BY <2>1 DEF SxErrSound, SxOutSound, SxTrue
  <2>6. SxBounds' /\ SxWholeOutput'
    BY <1>1, <2>1, SxOutputKept DEF SxBounds
  <2> QED
    BY <2>3, <2>4, <2>5, <2>6 DEF SxInv
<1>6. CASE SxDrained
  <2>1. /\ sxSup = "drain" /\ sxCli # "alive"
        /\ sxPump = [out |-> "ended", err |-> "ended"]
        /\ sxSup' = "ended"
        /\ sxExit' = IF SxLateError THEN "error" ELSE sxResult
        /\ sxResult' = sxExit' /\ sxDone' = <<>>
        /\ UNCHANGED <<sxGroup, sxLeader, sxErr, sxOut, sxErrWire, sxOutWire, sxCli, sxPump, sxPending,
                       sxTotal, sxGotErr, sxGotOut, sxCancel, sxCaller>>
    BY <1>6 DEF SxDrained, sxRemote, sxHost, sxCalls
  <2>2. /\ sxResult = "code" /\ sxGroup = {} /\ sxExit = "none"
        /\ sxCaller \notin {"answered", "stopped"}
        /\ sxPump.err = "ended" /\ sxPump.out = "ended"
    BY <1>1, <2>1 DEF SxCourse
  <2>3. SxLateError <=> SxError
    BY DEF SxLateError, SxError, Range, ToSet
  <2>4. sxExit' \in {"error", "code"} /\ (sxExit' = "code" => ~SxError)
    BY <2>1, <2>2, <2>3
  <2>5. SxTypes'
    BY <1>1, <2>1, <2>4, EmptySeq DEF SxTypes, SxSuper
  <2>6. SxCourse'
    BY <1>1, <2>1, <2>2, <2>4 DEF SxCourse
  <2>7. SxErrSound' /\ SxOutSound'
    BY <2>1 DEF SxErrSound, SxOutSound, SxTrue
  <2>8. SxBounds'
    BY <1>1, <2>1 DEF SxBounds
  <2>9. SxWholeOutput'
    <3>1. SUFFICES ASSUME sxExit' = "code", sxCli # "broken"
                   PROVE  sxGotErr = sxErr /\ sxGotOut = sxOut
      BY <2>1 DEF SxWholeOutput
    <3>2. SxTrue
      BY <2>1, <2>4, <3>1 DEF SxTrue
    <3> QED
      BY <1>1, <2>1, <2>2, <3>2 DEF SxErrSound, SxOutSound, SxTypes
  <2> QED
    BY <2>5, <2>6, <2>7, <2>8, <2>9 DEF SxInv
<1>7. CASE SxDrainCancelled
  <2>1. /\ sxSup = "drain" /\ sxSup' = "ended" /\ sxExit' = "killed" /\ sxResult' = "killed"
        /\ sxPump' = [out |-> "ended", err |-> "ended"]
        /\ sxPending' = <<>> /\ sxErrWire' = <<>> /\ sxOutWire' = 0
        /\ sxCli' = SxKillCli
        /\ UNCHANGED <<sxGroup, sxLeader, sxErr, sxOut, sxTotal, sxGotErr, sxGotOut, sxDone,
                       sxCancel, sxCaller>>
    BY <1>7 DEF SxDrainCancelled, SxAbort, sxRemote, sxCalls
  <2>2. sxGroup = {} /\ sxExit = "none" /\ sxCaller \notin {"answered", "stopped"}
    BY <1>1, <2>1 DEF SxCourse
  <2>3. sxCli' \in {"gone", "broken"}
    BY <1>1, <2>1 DEF SxKillCli, SxTypes
  <2>4. sxPump' \in [{"out", "err"} -> SxPumping] /\ sxPump'.out = "ended" /\ sxPump'.err = "ended"
    BY <2>1 DEF SxPumping
  <2>5. SxTypes'
    BY <1>1, <2>1, <2>3, <2>4, EmptySeq DEF SxTypes, SxSuper
  <2>6. SxCourse'
    BY <1>1, <2>1, <2>2, <2>3, <2>4 DEF SxCourse
  <2>7. SxErrSound' /\ SxOutSound'
    BY <2>1 DEF SxErrSound, SxOutSound, SxTrue
  <2>8. SxBounds' /\ SxWholeOutput'
    BY <1>1, <2>1, SxNothingHeld, SxOutputKept DEF SxBounds
  <2> QED
    BY <2>5, <2>6, <2>7, <2>8 DEF SxInv
<1> QED
  BY <1>2, <1>3, <1>4, <1>5, <1>6, <1>7

LEMMA SxPumpOutEndsKeeps ==
  ASSUME SxInv, SxPumpOutEnds
  PROVE  SxInv'
<1>1. /\ sxPump.out = "reading" /\ sxOutWire = 0 /\ sxCli # "alive"
      /\ sxPump' = [sxPump EXCEPT !.out = "ended"]
      /\ UNCHANGED <<sxGroup, sxLeader, sxErr, sxOut, sxErrWire, sxOutWire, sxCli, sxPending, sxTotal,
                     sxGotErr, sxGotOut, sxSup, sxDone, sxResult, sxExit, sxCancel, sxCaller>>
  BY DEF SxPumpOutEnds, sxRemote, sxEnd, sxCalls
<1>2. SxTypes /\ SxCourse /\ SxErrSound /\ SxOutSound /\ SxBounds
  BY DEF SxInv
<1>3. /\ sxPump' \in [{"out", "err"} -> SxPumping] /\ sxPump'.err = sxPump.err
      /\ sxPump'.out = "ended"
  BY <1>1, <1>2 DEF SxTypes, SxPumping
<1>4. SxTypes' /\ SxBounds'
  BY <1>1, <1>2, <1>3 DEF SxTypes, SxBounds
<1>5. SxCourse'
  BY <1>1, <1>2, <1>3 DEF SxCourse
<1>6. SxErrSound' /\ SxOutSound'
  BY <1>1, <1>2, <1>3 DEF SxErrSound, SxOutSound, SxTrue, SxError, SxSaid
<1>7. SxWholeOutput'
  BY <1>1, SxOutputKept
<1> QED
  BY <1>4, <1>5, <1>6, <1>7 DEF SxInv

(* Steps that leave every byte where it is.                                *)
LEMMA SxRestKeeps ==
  ASSUME SxInv, SxIdentity \/ SxLeaderDies \/ SxKill \/ SxDrop \/ SxAnswer
  PROVE  SxInv'
<1>1. /\ SxTypes /\ SxCourse /\ SxErrSound /\ SxOutSound /\ SxBounds
  BY DEF SxInv
<1>2. /\ sxGroup' \subseteq sxGroup
      /\ sxLeader' = sxLeader \/ (sxLeader = "starts" /\ sxLeader' = "waits")
      /\ sxCaller' \in {"answered", "stopped"} =>
           sxCaller \in {"answered", "stopped"} \/ sxExit \notin {"none", "error"}
      /\ UNCHANGED <<sxErr, sxOut, sxErrWire, sxOutWire, sxCli, sxPump, sxPending,
                     sxTotal, sxGotErr, sxGotOut, sxSup, sxDone, sxResult, sxExit>>
  BY DEF SxIdentity, SxLeaderDies, SxKill, SxDrop, SxAnswer, sxRemote, sxHost, sxEnd, sxCalls
<1>3. SxTypes' /\ SxBounds'
  BY <1>1, <1>2 DEF SxTypes, SxBounds
<1>4. SxCourse'
  BY <1>1, <1>2 DEF SxCourse, SxTypes
<1>5. SxErrSound' /\ SxOutSound'
  BY <1>1, <1>2 DEF SxErrSound, SxOutSound, SxTrue, SxError, SxSaid
<1>6. SxWholeOutput'
  BY <1>2, SxOutputKept
<1> QED
  BY <1>3, <1>4, <1>5, <1>6 DEF SxInv

(***************************************************************************)
(* local/process.rs: whatever the command, the docker client, the caller   *)
(* and the limit do, a session that ends without an error left no process  *)
(* of its group, an exit code comes with all of standard error and output  *)
(* unless the client broke, the completion frame is cut out however reads  *)
(* split it, and no more is held back than could begin it.                 *)
(***************************************************************************)
THEOREM SandboxSafety == SxSpec => []SxSafe
<1>1. SxInit => SxInv
  <2> SUFFICES ASSUME SxInit PROVE SxInv
    OBVIOUS
  <2>1. SxTypes /\ SxCourse
    BY EmptySeq DEF SxInit, SxTypes, SxCourse, SxSuper, SxPumping
  <2>2. SxErrSound
    <3>1. SxParts(<<>>, <<>>, <<>>, <<>>)
      BY DEF SxParts
    <3> QED
      BY <3>1 DEF SxInit, SxErrSound, SxSaid, ToSet
  <2>3. SxOutSound /\ SxWholeOutput
    BY DEF SxInit, SxOutSound, SxWholeOutput
  <2>4. SxBounds
    BY SxNothingHeld, SxAssumption DEF SxInit, SxBounds
  <2> QED
    BY <2>1, <2>2, <2>3, <2>4 DEF SxInv
<1>2. SxInv /\ [SxNext]_sxVars => SxInv'
  <2> SUFFICES ASSUME SxInv, [SxNext]_sxVars PROVE SxInv'
    OBVIOUS
  <2>1. CASE UNCHANGED sxVars
    <3>1. UNCHANGED <<sxGroup, sxLeader, sxErr, sxOut, sxErrWire, sxOutWire, sxCli, sxPump, sxPending,
                      sxTotal, sxGotErr, sxGotOut, sxSup, sxDone, sxResult, sxExit, sxCaller>>
      BY <2>1 DEF sxVars, sxRemote, sxHost, sxEnd, sxCalls
    <3> QED
      BY <3>1 DEF SxInv, SxTypes, SxCourse, SxErrSound, SxOutSound, SxBounds, SxWholeOutput,
                  SxTrue, SxError, SxSaid
  <2>2. CASE SxIdentity \/ SxLeaderDies \/ SxKill \/ SxDrop \/ SxAnswer
    BY <2>2, SxRestKeeps
  <2>3. CASE SxHandshakeFails \/ SxHandshake \/ SxAck \/ SxAckFails \/ SxDrained
             \/ SxDrainCancelled
    BY <2>3, SxSupKeeps
  <2>4. CASE SxRunEnds
    BY <2>4, SxRunEndsKeeps
  <2>5. CASE SxWrites
    BY <2>5, SxWritesKeeps
  <2>6. CASE SxCommandEnds
    BY <2>6, SxCommandEndsKeeps
  <2>7. CASE SxCliLeaves
    BY <2>7, SxCliLeavesKeeps
  <2>8. CASE SxPumpErr
    BY <2>8, SxPumpErrKeeps
  <2>9. CASE SxPumpErrEnds
    BY <2>9, SxPumpErrEndsKeeps
  <2>10. CASE SxPumpOut
    BY <2>10, SxPumpOutKeeps
  <2>11. CASE SxPumpOutEnds
    BY <2>11, SxPumpOutEndsKeeps
  <2> QED
    BY <2>1, <2>2, <2>3, <2>4, <2>5, <2>6, <2>7, <2>8, <2>9, <2>10, <2>11 DEF SxNext
<1>3. SxInv => SxSafe
  BY DEF SxInv, SxSafe, SxCourse, SxBounds, SxNothingLeft, SxNothingWithheld
<1> QED
  BY <1>1, <1>2, <1>3, PTL DEF SxSpec
=============================================================================
