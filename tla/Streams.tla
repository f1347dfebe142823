------------------------------ MODULE Streams ------------------------------
(***************************************************************************)
(* How the model providers read a streamed answer: the two SSE framers     *)
(* (model-providers/src/sse.rs), and the accumulators that turn events     *)
(* into one response, for Chat Completions (openai/stream.rs), Messages    *)
(* (anthropic/stream.rs) and Codex Responses (openai_codex/stream.rs).     *)
(*                                                                         *)
(* A behaviour follows one reader.  The framers are fed bytes in chunks of *)
(* any size; an accumulator is fed events the server may send in any       *)
(* order, and the connection may end after any of them.  stLog is all that *)
(* was taken in, from which the reference definitions below say what       *)
(* should have been read.  Text and tool arguments are sequences of the    *)
(* pieces they arrive in; arguments parse as JSON when they are an opening *)
(* piece followed by a closing one, or both in one piece.                  *)
(***************************************************************************)
EXTENDS Integers, Sequences, SequencesExt

CONSTANTS StBytes,      \* Bound: bytes a framer is fed.
          StEvents,     \* Bound: events the Chat and Codex accumulators are fed.
          StMsgMax      \* Bound: events the Messages accumulator is fed.

ASSUME StBoundsAssumption == StBytes \in Nat /\ StEvents \in Nat /\ StMsgMax \in Nat

VARIABLES stReader,     \* "lines", "frames", "chat", "messages" or "codex".
          stLog,        \* Everything taken in.
          stChunk,      \* Framers: the bytes of the chunk still arriving.
          stBuf,        \* Framers: [buf, scanned].
          stOut,        \* Framers: the payloads handed over.
          stAcc,        \* Accumulators: what is collected so far.
          stEnd         \* Still reading, the body's end, an error or the response.

stVars == <<stReader, stLog, stChunk, stBuf, stOut, stAcc, stEnd>>

StReaders == {"lines", "frames", "chat", "messages", "codex"}

StStatus(is) == [is |-> is, text |-> <<>>, calls |-> <<>>]
StOpen == StStatus("open")
StError == StStatus("error")
StResponse(text, calls) == [is |-> "response", text |-> text, calls |-> calls]

----------------------------------------------------------------------------
(* Framing.  "d" at the start of a line is the field name data:, and plain  *)
(* content elsewhere; "n" and "r" are the two line-ending bytes.            *)

StByte == {"d", "n", "r"}
StTrim(s) ==
  LET kept == {p \in DOMAIN s : s[p] = "d"}
  IN IF kept = {} THEN <<>>
     ELSE SubSeq(s, CHOOSE p \in kept : \A q \in kept : p <= q,
                    CHOOSE p \in kept : \A q \in kept : p >= q)
StIsData(line) == line # <<>> /\ line[1] = "d"

\* The delimiter d begins at position p of s.
StAt(s, p, d) == p + Len(d) - 1 <= Len(s) /\ SubSeq(s, p, p + Len(d) - 1) = d

\* The content of a data line; other lines give nothing.  The line framer trims
\* the line before it looks for the field name.
StField(line) == IF StIsData(line) THEN <<StTrim(Tail(line))>> ELSE <<>>
StPayload(line) == StField(StTrim(line))

\* SseLineBuffer::push, from position p of b with c bytes consumed.
StScanLines[b \in Seq(StByte), p \in Nat, c \in Nat] ==
  IF p > Len(b) THEN [c |-> c, out |-> <<>>]
  ELSE IF b[p] # "n" THEN StScanLines[b, p + 1, c]
  ELSE LET rest == StScanLines[b, p + 1, p]
       IN [rest EXCEPT !.out = StPayload(SubSeq(b, c + 1, p - 1)) \o @]

\* The data of one frame: its data lines, joined by a newline.
StLines[s \in Seq(StByte)] ==
  LET ends == {p \in DOMAIN s : s[p] = "n"}
  IN IF ends = {} THEN <<s>>
     ELSE LET e == CHOOSE p \in ends : \A q \in ends : p <= q
          IN <<SubSeq(s, 1, e - 1)>> \o StLines[SubSeq(s, e + 1, Len(s))]
StJoin[ls \in Seq(Seq(StByte))] ==
  IF Len(ls) < 2 THEN IF ls = <<>> THEN <<>> ELSE ls[1]
  ELSE ls[1] \o <<"n">> \o StJoin[Tail(ls)]
StFrameData(frame) ==
  LET data == StJoin[FlattenSeq([i \in DOMAIN StLines[frame] |-> StField(StLines[frame][i])])]
  IN IF data = <<>> THEN <<>> ELSE <<data>>

\* SseBuffer::push, from position p of b with c bytes consumed.
StDelimiter(b, p) == IF StAt(b, p, <<"n", "n">>) THEN 2
                     ELSE IF StAt(b, p, <<"r", "n", "r", "n">>) THEN 4 ELSE 0
StScanFrames[b \in Seq(StByte), p \in Nat, c \in Nat] ==
  IF p > Len(b) THEN [c |-> c, out |-> <<>>]
  ELSE LET d == StDelimiter(b, p)
       IN IF d = 0 THEN StScanFrames[b, p + 1, c]
          ELSE LET end == p + d - 1
                   rest == StScanFrames[b, p + d, end]
               IN [rest EXCEPT !.out = StFrameData(SubSeq(b, c + 1, end)) \o @]

\* How far the next push may skip: all of it for single newlines; three bytes
\* less for frames, so that a delimiter split between chunks is still found.
StSkipAll(len) == len                                   \* Mutant: no overlap.
StFrameSkip(len) == IF len > 3 THEN len - 3 ELSE 0

StPush ==
  LET b == stBuf.buf \o stChunk
      scan == IF stReader = "lines" THEN StScanLines[b, stBuf.scanned + 1, 0]
              ELSE StScanFrames[b, stBuf.scanned + 1, 0]
      left == SubSeq(b, scan.c + 1, Len(b))
  IN /\ stBuf' = [buf |-> left,
                  scanned |-> IF stReader = "lines" THEN Len(left) ELSE StFrameSkip(Len(left))]
     /\ stOut' = stOut \o scan.out

StFramer == stReader \in {"lines", "frames"} /\ stEnd = StOpen

StByteArrives ==
  /\ StFramer /\ Len(stLog) < StBytes
  /\ \E b \in StByte : stLog' = Append(stLog, b) /\ stChunk' = Append(stChunk, b)
  /\ UNCHANGED <<stReader, stBuf, stOut, stAcc, stEnd>>

StChunkEnds ==
  /\ StFramer /\ stChunk # <<>>
  /\ StPush
  /\ stChunk' = <<>>
  /\ UNCHANGED <<stReader, stLog, stAcc, stEnd>>

\* The body ends.  Only the line framer reads the unterminated rest.
StBodyEnds ==
  /\ StFramer /\ stChunk = <<>>
  /\ stEnd' = StStatus("eof")
  /\ stOut' = IF stReader = "lines" THEN stOut \o StPayload(stBuf.buf) ELSE stOut
  /\ UNCHANGED <<stReader, stLog, stChunk, stBuf, stAcc>>

----------------------------------------------------------------------------
(* Chat Completions.  Fragments of calls 1 and 2 arrive by index and may    *)
(* alternate; the server numbers calls densely, and an empty fragment only  *)
(* opens one.                                                               *)

StParses(args) == args \in {<<"{", "}">>, <<"{}">>}
StText(t) == [k |-> "text", i |-> 0, v |-> t]
StFrag(i, p) == [k |-> "frag", i |-> i, v |-> p]
StWhy(r) == [k |-> "why", i |-> 0, v |-> r]
StMark(k) == [k |-> k, i |-> 0, v |-> ""]
StPiece(e) == IF e.v = "" THEN <<>> ELSE <<e.v>>

StChatEvents(calls) ==
  {StText("a"), StMark("done"), StMark("failed"), StWhy("stop"), StWhy("length")}
  \union {StFrag(1, p) : p \in {"", "{", "}"}}
  \union {StFrag(2, p) : p \in IF calls = <<>> THEN {} ELSE {"", "{}"}}

StChat0 == [text |-> <<>>, calls |-> <<>>, why |-> "none"]


\* ChunkAccumulator::finish.  No arguments at all are an empty object.
StChatArgs(args) == args = <<>> \/ StParses(args)
StDone(done) == done
StChatFinish(acc, done) ==
  IF \/ acc.why = "length" \/ ~StDone(done)
     \/ acc.text = <<>> /\ acc.calls = <<>>
     \/ \E i \in DOMAIN acc.calls : ~StChatArgs(acc.calls[i])
  THEN StError ELSE StResponse(acc.text, acc.calls)

\* ChunkAccumulator::apply; a fragment with an empty piece opens a call only.
StChatApply(acc, e) ==
  CASE e.k = "text" -> [acc EXCEPT !.text = Append(@, e.v)]
    [] e.k = "why" -> [acc EXCEPT !.why = e.v]
    [] e.k = "frag" /\ e.i <= Len(acc.calls) -> [acc EXCEPT !.calls[e.i] = @ \o StPiece(e)]
    [] e.k = "frag" /\ e.i > Len(acc.calls) -> [acc EXCEPT !.calls = Append(@, StPiece(e))]

----------------------------------------------------------------------------
(* Codex Responses: a call arrives whole, once its item is done.            *)

StCodexEvents == {StText("a"), StText("b"), StMark("completed"), StMark("failed"),
                  StFrag(1, "{}"), StFrag(2, "{}"), StFrag(2, "{")}
StCodex0 == [text |-> <<>>, calls |-> <<>>, completed |-> FALSE]
StCodexApply(acc, e) ==
  CASE e.k = "text" -> [acc EXCEPT !.text = Append(@, e.v)]
    [] e.k = "frag" -> [acc EXCEPT !.calls = Append(@, e.i)]
    [] e.k = "completed" -> [acc EXCEPT !.completed = TRUE]
StCompleted(acc) == acc.completed
StCodexFinish(acc) == IF StCompleted(acc) THEN StResponse(acc.text, acc.calls) ELSE StError

----------------------------------------------------------------------------
(* Anthropic Messages: blocks 1 and 2, each a text or a tool block, opened, *)
(* extended and closed; a stop reason; the stop of the message.  A text     *)
(* block opens with its first piece.                                        *)

StBlockKinds == {"textblock", "toolblock"}
StMsgEvents(why) ==
  {StMark("start"), StMark("stop"), StMark("failed")}
  \union {StWhy(r) : r \in IF why = "none" THEN {"end_turn", "tool_use", "max_tokens"} ELSE {}}
  \union {[k |-> "textblock", i |-> i, v |-> "t"] : i \in 1..2}
  \union {[k |-> k, i |-> i, v |-> ""] : k \in {"toolblock", "close"}, i \in 1..2}
  \union {[k |-> "piece", i |-> i, v |-> v] : i \in 1..2, v \in {"t", "{}", "{"}}

StMsg0 == [started |-> FALSE, stopped |-> FALSE, why |-> "none", blocks |-> <<>>]
StOpenBlocks(acc) == {i \in DOMAIN acc.blocks : ~acc.blocks[i].closed}

StFits(kind, piece) == (kind = "textblock") = (piece = "t")

\* The events apply refuses outright.
StMsgRefuses(acc, e) ==
  \/ e.k = "start" /\ acc.started
  \/ e.k \in StBlockKinds \union {"why"} /\ ~acc.started
  \/ e.k \in StBlockKinds /\ e.i \in DOMAIN acc.blocks
  \/ e.k \in {"piece", "close"} /\ e.i \notin StOpenBlocks(acc)
  \/ e.k = "piece" /\ e.i \in StOpenBlocks(acc) /\ ~StFits(acc.blocks[e.i].kind, e.v)

\* Accumulator::apply on an event it accepts.
StMsgApply(acc, e) ==
  CASE e.k = "start" -> [acc EXCEPT !.started = TRUE]
    [] e.k = "stop" -> [acc EXCEPT !.stopped = TRUE]
    [] e.k = "why" -> [acc EXCEPT !.why = e.v]
    [] e.k = "piece" -> [acc EXCEPT !.blocks[e.i].pieces = Append(@, e.v)]
    [] e.k = "close" -> [acc EXCEPT !.blocks[e.i].closed = TRUE]
    [] e.k \in StBlockKinds ->
         [acc EXCEPT !.blocks = [i \in DOMAIN @ \union {e.i} |->
            IF i = e.i THEN [kind |-> e.k, pieces |-> StPiece(e), closed |-> FALSE] ELSE @[i]]]

StOrdered(blocks) == SelectSeq(<<1, 2>>, LAMBDA i : i \in DOMAIN blocks)
StOfKind(blocks, kind) ==
  LET is == SelectSeq(StOrdered(blocks), LAMBDA i : blocks[i].kind = kind)
  IN [j \in DOMAIN is |-> blocks[is[j]].pieces]

\* Accumulator::finish, in the order it checks.  The start of a tool block
\* carries an empty input, which stands when no piece follows.
StMsgComplete(acc) == acc.started /\ acc.stopped /\ StOpenBlocks(acc) = {}
StMsgFinish(acc) ==
  LET text == FlattenSeq(StOfKind(acc.blocks, "textblock"))
      calls == StOfKind(acc.blocks, "toolblock")
  IN IF \/ acc.why = "max_tokens"
        \/ ~StMsgComplete(acc)
        \/ acc.why \notin {"end_turn", "tool_use"}
        \/ \E i \in DOMAIN calls : ~(calls[i] = <<>> \/ StParses(calls[i]))
        \/ (acc.why = "tool_use") # (calls # <<>>)
        \/ text = <<>> /\ calls = <<>>
     THEN StError ELSE StResponse(text, calls)

----------------------------------------------------------------------------
(* The read loops.                                                          *)

StChatEvent ==
  /\ stReader = "chat" /\ stEnd = StOpen /\ Len(stLog) < StEvents
  /\ \E e \in StChatEvents(stAcc.calls) :
       \/ e.k = "failed" /\ stEnd' = StError /\ UNCHANGED <<stAcc, stLog>>
       \/ /\ e.k = "done" /\ stLog' = Append(stLog, e)
          /\ stEnd' = StChatFinish(stAcc, TRUE) /\ UNCHANGED stAcc
       \/ /\ e.k \notin {"failed", "done"} /\ stLog' = Append(stLog, e)
          /\ stAcc' = StChatApply(stAcc, e) /\ UNCHANGED stEnd
  /\ UNCHANGED <<stReader, stChunk, stBuf, stOut>>

StCodexEvent ==
  /\ stReader = "codex" /\ stEnd = StOpen /\ Len(stLog) < StEvents
  /\ \E e \in StCodexEvents :
       /\ \/ /\ e.k = "failed" \/ e = StFrag(2, "{")    \* Arguments that do not parse.
             /\ stEnd' = StError /\ UNCHANGED <<stAcc, stLog>>
          \/ /\ e.k # "failed" /\ e # StFrag(2, "{")
             /\ stLog' = Append(stLog, e)
             /\ stAcc' = StCodexApply(stAcc, e) /\ UNCHANGED stEnd
  /\ UNCHANGED <<stReader, stChunk, stBuf, stOut>>

StMsgEvent ==
  /\ stReader = "messages" /\ stEnd = StOpen /\ Len(stLog) < StMsgMax
  /\ \E e \in StMsgEvents(stAcc.why) :
       /\ \/ /\ e.k = "failed" \/ StMsgRefuses(stAcc, e)
             /\ stEnd' = StError /\ UNCHANGED <<stAcc, stLog>>
          \/ /\ e.k # "failed" /\ ~StMsgRefuses(stAcc, e)
             /\ stLog' = Append(stLog, e)
             /\ stAcc' = StMsgApply(stAcc, e)
             /\ stEnd' = IF stAcc'.stopped THEN StMsgFinish(stAcc') ELSE stEnd
  /\ UNCHANGED <<stReader, stChunk, stBuf, stOut>>

\* The connection ends cleanly, or breaks: a broken one is an error at once.
StCut ==
  /\ stReader \in {"chat", "messages", "codex"} /\ stEnd = StOpen
  /\ \/ stEnd' = StError
     \/ stEnd' = CASE stReader = "chat" -> StChatFinish(stAcc, FALSE)
                   [] stReader = "messages" -> StMsgFinish(stAcc)
                   [] stReader = "codex" -> StCodexFinish(stAcc)
  /\ UNCHANGED <<stReader, stLog, stChunk, stBuf, stOut, stAcc>>

StInit ==
  /\ stReader \in StReaders
  /\ stLog = <<>> /\ stChunk = <<>> /\ stOut = <<>> /\ stEnd = StOpen
  /\ stBuf = [buf |-> <<>>, scanned |-> 0]
  /\ stAcc = CASE stReader = "messages" -> StMsg0 [] stReader = "codex" -> StCodex0
               [] OTHER -> StChat0

StNext == StByteArrives \/ StChunkEnds \/ StBodyEnds \/ StChatEvent \/ StCodexEvent
          \/ StMsgEvent \/ StCut
StSpec == StInit /\ [][StNext]_stVars

----------------------------------------------------------------------------
(* Reference definitions: what the whole of stLog says.                     *)

\* The frames of a byte sequence, cut at each earliest delimiter.
StCutFrames[s \in Seq(StByte)] ==
  LET at == {p \in DOMAIN s : StDelimiter(s, p) > 0}
  IN IF at = {} THEN <<>>
     ELSE LET p == CHOOSE q \in at : \A r \in at : q <= r
              end == p + StDelimiter(s, p) - 1
          IN StFrameData(SubSeq(s, 1, end)) \o StCutFrames[SubSeq(s, end + 1, Len(s))]
StWhole == SubSeq(stLog, 1, Len(stLog) - Len(stChunk))
StCutLines(s, atEnd) ==
  LET ls == StLines[s]
      n == IF atEnd THEN Len(ls) ELSE Len(ls) - 1
  IN FlattenSeq([i \in 1..n |-> StPayload(ls[i])])

\* However the network cuts the body into chunks, in the middle of a line
\* ending, of a blank line or of a field name, the payloads read are those of
\* the body read at once: none is lost, split or read twice (SseLineBuffer,
\* SseBuffer and the overlap it keeps).
StChunksDoNotMatter ==
  /\ stReader = "lines" => stOut = StCutLines(StWhole, stEnd.is = "eof")
  /\ stReader = "frames" => stOut = StCutFrames[StWhole]

StOf(k, i) == SelectSeq(stLog, LAMBDA e : e.k = k /\ (k = "text" \/ e.i = i))
StValues(s) == [j \in DOMAIN s |-> s[j].v]
StHas(k) == \E j \in DOMAIN stLog : stLog[j].k = k
StLast == stLog[Len(stLog)]
StAccepted == stEnd.is = "response"
StArguments(k, i) == SelectSeq(StValues(StOf(k, i)), LAMBDA v : v # "")

\* A chat answer is accepted only after its [DONE], and holds exactly the text
\* and, for every call, exactly the argument pieces the server sent for it, in
\* order: a connection cut in the middle of a call's arguments never yields a
\* call (ChunkAccumulator, generate_streaming).
StChatWhole ==
  stReader = "chat" /\ StAccepted =>
    /\ StLast.k = "done"
    /\ stEnd.text = StValues(StOf("text", 0))
    /\ DOMAIN stEnd.calls = {i \in 1..2 : StOf("frag", i) # <<>>}
    /\ \A i \in DOMAIN stEnd.calls :
         stEnd.calls[i] = StArguments("frag", i) /\ (stEnd.calls[i] = <<>> \/ StParses(stEnd.calls[i]))

\* A Messages answer is accepted only if every block the server opened was
\* closed before the message stopped, opened once and extended only while
\* open; what is accepted is the content of the blocks in block order
\* (anthropic Accumulator).
StMessagesWhole ==
  stReader = "messages" /\ StAccepted =>
    LET kindOf(i) == StOf("textblock", i) \o StOf("toolblock", i)
        opened == SelectSeq(<<1, 2>>, LAMBDA i : kindOf(i) # <<>>)
        at(k, i) == {j \in DOMAIN stLog : stLog[j].k = k /\ stLog[j].i = i}
        of(kind) == LET is == SelectSeq(opened, LAMBDA i : kindOf(i)[1].k = kind)
                    IN [n \in DOMAIN is |->
                          StArguments(kind, is[n]) \o StValues(StOf("piece", is[n]))]
    IN /\ StLast.k = "stop" /\ Len(StOf("start", 0)) = 1 /\ stLog[1].k = "start"
       /\ \A i \in 1..2 :
            \/ kindOf(i) = <<>> /\ at("piece", i) \union at("close", i) = {}
            \/ /\ Len(kindOf(i)) = 1
               /\ \E c \in at("close", i) :
                    /\ at("close", i) = {c} /\ \A p \in at("piece", i) : p < c
                    /\ \A o \in at(kindOf(i)[1].k, i) : o < c /\ \A p \in at("piece", i) : o < p
       /\ stEnd = StResponse(FlattenSeq(of("textblock")), of("toolblock"))

\* A Codex answer is accepted only after response.completed, with every call
\* that arrived whole and none that did not (openai_codex Accumulator).
StCodexWhole ==
  stReader = "codex" /\ StAccepted =>
    /\ StHas("completed") /\ ~StHas("failed")
    /\ stEnd.text = StValues(StOf("text", 0))
    /\ stEnd.calls = [j \in DOMAIN SelectSeq(stLog, LAMBDA e : e.k = "frag") |->
                        SelectSeq(stLog, LAMBDA e : e.k = "frag")[j].i]

(***************************************************************************)
(* How a stream is cut into chunks never matters, and an answer is         *)
(* accepted only whole, whichever provider it comes from.                  *)
(***************************************************************************)
StFaithful == StChunksDoNotMatter /\ StChatWhole /\ StMessagesWhole /\ StCodexWhole
=============================================================================
