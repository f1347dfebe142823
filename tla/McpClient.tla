----------------------------- MODULE McpClient ------------------------------
(***************************************************************************)
(* One connection to a stdio MCP server after its handshake                *)
(* (crates/tool-extensions/src/mcp/client.rs): a single lane behind a      *)
(* mutex, shared by the tools of every agent that holds the client.  A     *)
(* request ends by a reply, an error, its own select noticing that it is   *)
(* cancelled or out of time, or with the future itself: the dispatcher     *)
(* (harness-core/src/dispatcher.rs, guarded) drops a cancelled call.       *)
(*                                                                         *)
(* A line is a kind and an id.  To the server: "request", "pong", "torn"   *)
(* for the beginning of a line whose writer was dropped.  From it:         *)
(* "reply", "note" for what recv skips, "ping" for a request of the        *)
(* server's, "bad" for what recv rejects.                                  *)
(***************************************************************************)
EXTENDS Integers, Sequences, FiniteSets

CONSTANTS
  McCall,    \* the calls made during the connection's life
  McNoise    \* bound of the model: lines the server sends of its own accord

ASSUME McAssumption == IsFiniteSet(McCall) /\ McNoise \in Nat

VARIABLES
  mcStep,      \* where each call stands
  mcId,        \* the id it drew, 0 before
  mcNextId,    \* McpClient::next_id
  mcLock,      \* the holder of McpClient::wire, if any
  mcHealthy,   \* McpClient::healthy
  mcAlive,     \* the child process runs
  mcIn, mcOut, \* lines under way to and from the server
  mcNoise,     \* lines sent so far of the server's own accord
  mcGot        \* history: the reply each successful call was given

mcVars == <<mcStep, mcId, mcNextId, mcLock, mcHealthy, mcAlive, mcIn, mcOut,
            mcNoise, mcGot>>

McNobody == {}
McLine(kind, id) == [kind |-> kind, id |-> id]
McEnded == {"ok", "err", "gone"}

McInit ==
  /\ mcStep = [c \in McCall |-> "idle"]
  /\ mcId = [c \in McCall |-> 0] /\ mcNextId = 1
  /\ mcLock = McNobody
  /\ mcHealthy = TRUE /\ mcAlive = TRUE
  /\ mcIn = <<>> /\ mcOut = <<>> /\ mcNoise = 0
  /\ mcGot = [c \in McCall |-> 0]

McGoes(c, step) == mcStep' = [mcStep EXCEPT ![c] = step]

(* request: a closed connection is refused, an open one gives an id.       *)
McBegin(c) ==
  /\ mcStep[c] = "idle"
  /\ IF mcHealthy
     THEN /\ McGoes(c, "waiting")
          /\ mcId' = [mcId EXCEPT ![c] = mcNextId]
          /\ mcNextId' = mcNextId + 1
     ELSE McGoes(c, "err") /\ UNCHANGED <<mcId, mcNextId>>
  /\ UNCHANGED <<mcLock, mcHealthy, mcAlive, mcIn, mcOut, mcNoise, mcGot>>

(* The lane is free; the connection may have been closed while waiting.    *)
McAcquire(c) ==
  /\ mcStep[c] = "waiting" /\ mcLock = McNobody
  /\ IF mcHealthy THEN McGoes(c, "sending") /\ mcLock' = {c}
     ELSE McGoes(c, "err") /\ UNCHANGED mcLock
  /\ UNCHANGED <<mcId, mcNextId, mcHealthy, mcAlive, mcIn, mcOut, mcNoise, mcGot>>

(* Wire::send: a dead child's pipe is broken.                              *)
McSend(c) ==
  /\ mcStep[c] = "sending"
  /\ IF mcAlive
     THEN /\ mcIn' = Append(mcIn, McLine("request", mcId[c]))
          /\ McGoes(c, "reading") /\ UNCHANGED mcLock
     ELSE McGoes(c, "err") /\ mcLock' = McNobody /\ UNCHANGED mcIn
  /\ UNCHANGED <<mcId, mcNextId, mcHealthy, mcAlive, mcOut, mcNoise, mcGot>>

(* recv matches the reply by its id.                                       *)
McIsReplyTo(c, line) == line.id = mcId[c]

(* Wire::recv: a line is skipped, answered, rejected, or is the reply.     *)
(* A rejected line ends the exchange and leaves the connection in use.     *)
McReads(c) ==
  LET line == Head(mcOut) IN
  /\ mcStep[c] = "reading" /\ mcOut # <<>>
  /\ mcOut' = Tail(mcOut)
  /\ \/ /\ line.kind = "note"
        /\ UNCHANGED <<mcStep, mcLock, mcIn, mcGot>>
     \/ /\ line.kind = "ping" /\ mcAlive
        /\ mcIn' = Append(mcIn, McLine("pong", 0))
        /\ UNCHANGED <<mcStep, mcLock, mcGot>>
     \/ /\ line.kind = "bad" \/ (line.kind = "ping" /\ ~mcAlive)
        /\ McGoes(c, "err") /\ mcLock' = McNobody
        /\ UNCHANGED <<mcIn, mcGot>>
     \/ /\ line.kind = "reply"
        /\ IF McIsReplyTo(c, line)
           THEN McGoes(c, "ok") /\ mcGot' = [mcGot EXCEPT ![c] = line.id]
           ELSE McGoes(c, "err") /\ UNCHANGED mcGot
        /\ mcLock' = McNobody
        /\ UNCHANGED mcIn
  /\ UNCHANGED <<mcId, mcNextId, mcHealthy, mcAlive, mcNoise>>

(* "server closed the connection"                                          *)
McEndOfFile(c) ==
  /\ mcStep[c] = "reading" /\ mcOut = <<>> /\ ~mcAlive
  /\ McGoes(c, "err") /\ mcLock' = McNobody
  /\ UNCHANGED <<mcId, mcNextId, mcHealthy, mcAlive, mcIn, mcOut, mcNoise, mcGot>>

(* mutation: the lane stays with the call that was dropped. *)
McKeptLane(c) == mcLock
(* The guard is dropped with the exchange.                                 *)
McReleased(c) == mcLock \ {c}

(* The exchange of c is dropped, and the lane with it; what it had written *)
(* of its line stays written.                                              *)
McDropsExchange(c, torn) ==
  /\ mcStep[c] \in {"waiting", "sending", "reading"}
  /\ torn => mcStep[c] = "sending" /\ mcAlive
  /\ mcLock' = McReleased(c)
  /\ mcIn' = IF torn THEN Append(mcIn, McLine("torn", 0)) ELSE mcIn
  /\ UNCHANGED <<mcId, mcNextId, mcHealthy, mcAlive, mcOut, mcNoise, mcGot>>

(* request_with_context: cancellation or the deadline wins its select; the *)
(* branch that follows has no await.                                       *)
McInterrupt(c, torn) == McDropsExchange(c, torn) /\ McGoes(c, "dropped")

(* guarded: the dispatcher notices the cancellation first, or the task is  *)
(* aborted, and no branch of the call's own runs: the connection stays in  *)
(* use.                                                                    *)
McGone(c, torn) == McDropsExchange(c, torn) /\ McGoes(c, "gone")

(* start_kill, by the first to close the connection.                       *)
McKills == mcAlive /\ ~mcHealthy

(* invalidate, in the branch of McInterrupt.                               *)
McInvalidate(c) ==
  /\ mcStep[c] = "dropped"
  /\ McGoes(c, "err")
  /\ mcHealthy' = FALSE
  /\ mcAlive' = McKills
  /\ UNCHANGED <<mcId, mcNextId, mcLock, mcIn, mcOut, mcNoise, mcGot>>

(* The server: takes the next whole line, and answers a request with its   *)
(* result or its error.  A torn line runs into the next one, which is then *)
(* no request any more.                                                    *)
McServes ==
  /\ mcAlive /\ mcIn # <<>>
  /\ \/ /\ Head(mcIn).kind = "request"
        /\ mcIn' = Tail(mcIn)
        /\ mcOut' = Append(mcOut, McLine("reply", Head(mcIn).id))
     \/ /\ Head(mcIn).kind = "pong"
        /\ mcIn' = Tail(mcIn)
        /\ UNCHANGED mcOut
     \/ /\ Head(mcIn).kind = "torn" /\ Len(mcIn) > 1
        /\ mcIn' = IF mcIn[2].kind = "torn" THEN Tail(mcIn) ELSE Tail(Tail(mcIn))
        /\ mcOut' \in {mcOut, Append(mcOut, McLine("bad", 0))}
  /\ UNCHANGED <<mcStep, mcId, mcNextId, mcLock, mcHealthy, mcAlive, mcNoise, mcGot>>

McSpeaks(kind) ==
  /\ mcAlive /\ mcNoise < McNoise
  /\ mcNoise' = mcNoise + 1
  /\ mcOut' = Append(mcOut, McLine(kind, 0))
  /\ UNCHANGED <<mcStep, mcId, mcNextId, mcLock, mcHealthy, mcAlive, mcIn, mcGot>>

McServerDies ==
  /\ mcAlive /\ mcAlive' = FALSE
  /\ UNCHANGED <<mcStep, mcId, mcNextId, mcLock, mcHealthy, mcIn, mcOut, mcNoise, mcGot>>

(* What a call does without anybody's help.                                *)
McCallStep(c) ==
  McAcquire(c) \/ McSend(c) \/ McReads(c) \/ McEndOfFile(c) \/ McInvalidate(c)

McNext ==
  \/ \E c \in McCall :
       \/ McBegin(c) \/ McCallStep(c)
       \/ \E torn \in BOOLEAN : McInterrupt(c, torn) \/ McGone(c, torn)
  \/ McServes \/ McServerDies
  \/ \E kind \in {"note", "ping", "bad"} : McSpeaks(kind)

(* A call that can move is polled again.                                   *)
McFair == \A c \in McCall : WF_mcVars(McCallStep(c))
McSpec == McInit /\ [][McNext]_mcVars /\ McFair

-----------------------------------------------------------------------------
(* A call that succeeds has been given the reply to its own request, even  *)
(* when an exchange before it failed and left its reply on the lane: the   *)
(* tools of two agents never see each other's results.                     *)
McOwnAnswer ==
  \A c \in McCall : mcStep[c] = "ok" => mcGot[c] = mcId[c]

(* The lane is never left taken by a call that is over, whichever of the   *)
(* reply, an error, a dead server, a cancellation or a deadline ended it:  *)
(* the next call would wait for ever.                                      *)
McLaneReturned ==
  \A c \in McCall : (c \in mcLock) = (mcStep[c] \in {"sending", "reading"})

(* "Cancellation or deadline expiry closes the connection rather than      *)
(* risking a partial write or stale exchange" (client.rs 4-5): untrue of   *)
(* a call the dispatcher cancels, whose branch never runs.                 *)
McCancelCloses ==
  \A c \in McCall : mcStep[c] = "gone" => ~mcHealthy

(* Once a call's own branch has closed the connection, every call that was *)
(* using it or waiting for its lane ends, however silent the server is.    *)
McCloseEndsCalls ==
  \A c \in McCall :
    ~mcHealthy /\ mcStep[c] # "idle" ~> mcStep[c] \in McEnded

(***************************************************************************)
(* Calls on one connection never share a reply and never leave the lane    *)
(* taken.                                                                  *)
(***************************************************************************)
McSafe == McOwnAnswer /\ McLaneReturned
=============================================================================
