----------------------------- MODULE CodexAuth -----------------------------
(***************************************************************************)
(* The Codex subscription login (cli/src/auth/openai_codex/mod.rs): an     *)
(* access token that expires and a refresh token that the server may       *)
(* replace each time it is spent, kept in one file that several processes share,   *)
(* each with a token in memory behind a mutex of its own.  Requests        *)
(* (OpenAiCodexModel::send) ask for a credential, send, and on a 401 ask   *)
(* once for another.                                                       *)
(*                                                                         *)
(* Tokens are numbered in the order the server issues them.  A refresh     *)
(* whose answer is lost, that is cancelled or whose result cannot be       *)
(* written leaves the file with a spent token and is not followed: the     *)
(* user signs in again.                                                    *)
(***************************************************************************)
EXTENDS Integers, FiniteSets

CONSTANTS CaProcess,      \* The processes sharing the file.
          CaRequest,      \* Requests.
          CaOwner,        \* CaOwner[q]: the process request q belongs to.
          CaMaxTime,      \* Bound: how often tokens go bad.
          CaMaxRounds     \* Bound: requests made, over all.

ASSUME CaAssumption == /\ CaOwner \in [CaRequest -> CaProcess]
                       /\ "free" \notin CaRequest \cup CaProcess
                       /\ CaMaxTime \in Nat /\ CaMaxRounds \in Nat

VARIABLES caServer,   \* [a, r, by, rotates]: the newest tokens, who was given them, and
                      \* whether this server replaces refresh tokens.
          caStale,    \* Access tokens up to this one are about to expire.
          caRefused,  \* Access tokens up to this one are answered with 401.
          caFile,     \* [a, r]: the login on disk.
          caMem,      \* caMem[p]: p's token in memory, or CaNone.
          caLock,     \* caLock[p]: the request holding p's mutex, or CaFree.
          caReq,      \* caReq[q]: [st, tok, r, again].
          caTime,
          caRounds

caVars == <<caServer, caStale, caRefused, caFile, caMem, caLock, caReq, caTime, caRounds>>

CaNone == 0
CaFree == "free"
CaIdle == [st |-> "idle", tok |-> 0, r |-> 0, again |-> FALSE]

CaInit ==
  /\ \E rotates \in BOOLEAN : caServer = [a |-> 1, r |-> 1, by |-> CaFree, rotates |-> rotates]
  /\ caStale = 0 /\ caRefused = 0
  /\ caFile = [a |-> 1, r |-> 1]
  /\ caMem = [p \in CaProcess |-> CaNone]
  /\ caLock = [p \in CaProcess |-> CaFree]
  /\ caReq = [q \in CaRequest |-> CaIdle]
  /\ caTime = 0 /\ caRounds = 0

\* A token nears its expiry, which the client sees in the token itself, or the
\* server stops accepting it, which only a 401 tells.
CaTokenGoesBad ==
  /\ caTime < CaMaxTime
  /\ caTime' = caTime + 1
  /\ \/ caStale' = caServer.a /\ UNCHANGED caRefused
     \/ caRefused' = caServer.a /\ UNCHANGED caStale
  /\ UNCHANGED <<caServer, caFile, caMem, caLock, caReq, caRounds>>

CaNeedsRefresh(tok) == tok <= caStale

CaLockIgnored(p) == TRUE                  \* Mutant: the state is not locked.
CaLockFree(p) == caLock[p] = CaFree

CaAsk(q) ==
  /\ caReq[q].st = "idle" /\ caRounds < CaMaxRounds
  /\ caRounds' = caRounds + 1
  /\ caReq' = [caReq EXCEPT ![q] = [CaIdle EXCEPT !.st = "ask"]]
  /\ UNCHANGED <<caServer, caStale, caRefused, caFile, caMem, caLock, caTime>>

CaSends(q, tok) == [caReq EXCEPT ![q].st = "send", ![q].tok = tok]

\* current(false): under the mutex, the token in memory or else on disk, unless
\* it is about to expire.
CaCurrent(q) ==
  LET p == CaOwner[q]
      tok == IF caMem[p] # CaNone THEN caMem[p] ELSE caFile.a
  IN /\ caReq[q].st = "ask" /\ CaLockFree(p)
     /\ \/ /\ ~CaNeedsRefresh(tok)
           /\ caMem' = [caMem EXCEPT ![p] = tok]
           /\ caReq' = CaSends(q, tok)
           /\ UNCHANGED caLock
        \/ /\ CaNeedsRefresh(tok)
           /\ caLock' = [caLock EXCEPT ![p] = q]
           /\ caReq' = [caReq EXCEPT ![q].st = "exchange", ![q].r = caFile.r]
           /\ UNCHANGED caMem
     /\ UNCHANGED <<caServer, caStale, caRefused, caFile, caTime, caRounds>>

\* The server takes its newest refresh token only;
\* the network may also fail before it is asked.
CaExchange(q) ==
  /\ caReq[q].st = "exchange"
  /\ \/ /\ caReq[q].r = caServer.r
        /\ caServer' = [caServer EXCEPT !.a = @ + 1, !.r = IF caServer.rotates THEN @ + 1 ELSE @,
                                        !.by = CaOwner[q]]
        /\ caReq' = [caReq EXCEPT ![q].st = "persist", ![q].tok = caServer'.a, ![q].r = caServer'.r]
        /\ UNCHANGED caLock
     \/ /\ caLock' = [caLock EXCEPT ![CaOwner[q]] = CaFree]
        /\ caReq' = [caReq EXCEPT ![q] = CaIdle]
        /\ UNCHANGED caServer
  /\ UNCHANGED <<caStale, caRefused, caFile, caMem, caTime, caRounds>>

\* The rotated refresh token, or the one spent if the server kept it.
CaKeepsSpent(q) == caFile.r               \* Mutant: the rotated token is not saved.
CaSaved(q) == caReq[q].r

\* persist_tokens replaces the file by a rename, then the memory is updated.
CaPersist(q) ==
  LET p == CaOwner[q]
  IN /\ caReq[q].st = "persist"
     /\ caFile' = [a |-> caReq[q].tok, r |-> CaSaved(q)]
     /\ caMem' = [caMem EXCEPT ![p] = caReq[q].tok]
     /\ caLock' = [caLock EXCEPT ![p] = CaFree]
     /\ caReq' = [caReq EXCEPT ![q].st = "send"]
     /\ UNCHANGED <<caServer, caStale, caRefused, caTime, caRounds>>

\* The answer: accepted, or a 401, which is recovered from once.
CaSend(q) ==
  /\ caReq[q].st = "send"
  /\ \/ /\ caReq[q].tok > caRefused \/ caReq[q].again
        /\ caReq' = [caReq EXCEPT ![q] = CaIdle]
     \/ /\ caReq[q].tok <= caRefused /\ ~caReq[q].again
        /\ caReq' = [caReq EXCEPT ![q].st = "recover", ![q].again = TRUE]
  /\ UNCHANGED <<caServer, caStale, caRefused, caFile, caMem, caLock, caTime, caRounds>>

\* recover_unauthorized: somebody may have renewed the token meanwhile, in this
\* process or in another; only then is the refresh token spent.
CaRenewedHere(q) == caMem[CaOwner[q]] \notin {CaNone, caReq[q].tok}
CaRecover(q) ==
  LET p == CaOwner[q]
      onDisk == caFile.a # caReq[q].tok
  IN /\ caReq[q].st = "recover" /\ CaLockFree(p)
     /\ \/ /\ CaRenewedHere(q)
           /\ caReq' = CaSends(q, caMem[p])
           /\ UNCHANGED <<caMem, caLock>>
        \/ /\ ~CaRenewedHere(q) /\ onDisk
           /\ caMem' = [caMem EXCEPT ![p] = caFile.a]
           /\ caReq' = CaSends(q, caFile.a)
           /\ UNCHANGED caLock
        \/ /\ ~CaRenewedHere(q) /\ ~onDisk
           /\ caLock' = [caLock EXCEPT ![p] = q]
           /\ caReq' = [caReq EXCEPT ![q].st = "exchange", ![q].r = caFile.r]
           /\ UNCHANGED caMem
     /\ UNCHANGED <<caServer, caStale, caRefused, caFile, caTime, caRounds>>

CaNext ==
  \/ CaTokenGoesBad
  \/ \E q \in CaRequest : \/ CaAsk(q) \/ CaCurrent(q) \/ CaExchange(q)
                          \/ CaPersist(q) \/ CaSend(q) \/ CaRecover(q)
CaSpec == CaInit /\ [][CaNext]_caVars

----------------------------------------------------------------------------
\* The login survives every interleaving of the processes: unless a renewal is
\* just being written, the refresh token on disk is the one the server will
\* take next (read_auth, exchange and persist_tokens of two processes).
CaLoginKept ==
  \/ \E q \in CaRequest : caReq[q].st = "persist"
  \/ caFile.r = caServer.r

\* Single flight: a process presents a refresh token the server no longer takes
\* only if another process has spent it since; its own requests, however many
\* got a 401 at once, never spend the same token twice (the mutex around
\* current and recover_unauthorized).
CaSingleFlight ==
  \A q \in CaRequest :
    caReq[q].st = "exchange" /\ caReq[q].r # caServer.r => caServer.by # CaOwner[q]

\* A process renews a token it was itself given last only when that token is
\* about to expire or was refused: the second of two requests with the same 401
\* takes the token the first one obtained (recover_unauthorized).
CaRenewedForCause ==
  [][\A p \in CaProcess :
       caServer'.a # caServer.a /\ caServer'.by = p /\ caServer.by = p
         => caServer.a <= caStale \/ caServer.a <= caRefused]_caVars

(***************************************************************************)
(* Concurrent requests and processes never lose the login and never spend  *)
(* one refresh token twice.                                                *)
(***************************************************************************)
CaSafe == CaLoginKept /\ CaSingleFlight
=============================================================================
