---------------------------- MODULE Conversation ----------------------------
(***************************************************************************)
(* A conversation and its record: the agent loop                           *)
(* (crates/harness-core/src/agent_loop.rs), the commands of the CLI's      *)
(* worker that change the context (crates/cli/src/runtime/worker.rs),      *)
(* compaction (crates/extensions/src/compact.rs, long_session.rs) and the  *)
(* session recorder (session.rs), with crashes and write errors.           *)
(*                                                                         *)
(* The worker is one task: a step is what it does between two points where *)
(* the file, or what a crash would lose, changes.  A message is its kind   *)
(* and a number; the tool results that answer a message of calls carry the *)
(* number of the calls.  A line of the file is a message, the header, or   *)
(* one that cannot be read.                                                *)
(***************************************************************************)
EXTENDS Naturals, Sequences, SequencesExt

CONSTANTS
  Session,      \* session files
  LongSession,  \* the long-session extension is on
  MaxSteps,     \* limits.max_steps
  MinHead,      \* the fewest messages a compaction replaces; the code's check is 2
  Deliveries,   \* the most turns a model boundary adds: results, the inventory
  Tears,        \* how a crash or write error may leave the line being written
  MaxMessages,  \* bound on the messages ever made
  ErrorsBy      \* bound on the messages made before a write error

ASSUME SwitchAssumption == LongSession \in BOOLEAN
ASSUME LimitAssumption == MaxSteps \in Nat /\ Deliveries \in Nat /\ MaxMessages \in Nat /\ ErrorsBy \in Nat
ASSUME HeadAssumption == MinHead \in Nat /\ MinHead >= 2
ASSUME TearAssumption == Tears \subseteq {"half", "bare"}

VARIABLES
  ctx,       \* the Context, while the process lives
  pc,        \* where the worker is
  steps,     \* model invocations of this call of drive
  file,      \* the session files: their lines, and how the last one ends
  cur,       \* the file being recorded
  cursor,    \* messages already persisted
  disabled,  \* recording stopped at a write error
  job,       \* the write under way
  fresh,     \* how many messages were made
  kept       \* history: the context each file was last in step with; none
             \* since a truncation

record == <<file, cur, cursor, disabled, job, kept>>
vars == <<ctx, pc, steps, file, cur, cursor, disabled, job, fresh, kept>>

-----------------------------------------------------------------------------
(* Values                                                                  *)

Message == [k : {"system", "user", "text", "calls", "tools"}, n : Nat]
Header  == [k |-> "header", n |-> 0]
Garbage == [k |-> "garbage", n |-> 0]    \* part of a line, and one more
Joined  == [k |-> "joined", n |-> 0]     \* two whole lines without a newline between them
Unreadable == {Garbage, Joined}
System  == [k |-> "system", n |-> 0]

(* An absent file has no lines.  "half": bytes of an incomplete line       *)
(* follow the last one.  "bare": the last line lacks its newline.          *)
File == [lines : Seq(Message \cup {Header} \cup Unreadable), tail : {"ok", "half", "bare"}]
NoFile == [lines |-> <<>>, tail |-> "ok"]
NewFile == [lines |-> <<Header>>, tail |-> "ok"]

PC == {"down", "idle", "start", "top", "model", "dispatch", "ending", "limit", "ended", "write"}

(* A write of todo, after which the file is adopted and the worker goes on *)
(* at next with msgs as its context; after an error it goes on at fail.    *)
Job == [kind : {"sync", "reopen", "candidate"}, file : Session, msgs : Seq(Message),
        todo : Seq(Message \cup {Header}), next : PC, fail : PC]
NoJob == [todo |-> <<>>]

Made(k, i) == [k |-> k, n |-> fresh + i]
Turns(i, n) == IF n = 0 THEN <<>> ELSE <<Made("user", i)>>
Room(n) == fresh + n =< MaxMessages

Init ==
  /\ ctx = <<>> /\ pc = "down" /\ steps = 0
  /\ file = [f \in Session |-> NoFile]
  /\ cur \in Session /\ cursor = 0 /\ disabled = FALSE /\ job = NoJob
  /\ fresh = 0 /\ kept = [f \in Session |-> <<>>]

-----------------------------------------------------------------------------
(* The file                                                                *)

(* writeln!, with the newline missing on the line before or not: the line  *)
(* is then one with the line before it.                                    *)
Put(fl, m) ==
  [lines |-> CASE fl.tail = "ok" -> Append(fl.lines, m)
               [] fl.tail = "bare" -> Append(Front(fl.lines), Joined)
               [] fl.tail = "half" -> Append(fl.lines, Garbage),
   tail |-> "ok"]

(* The same, interrupted: t is how the file then ends.  A line begun right *)
(* after another is one with it, however much of it was written.           *)
Torn(fl, m, t) ==
  CASE t = "ok" -> fl
    [] t = "bare" \/ (t = "half" /\ fl.tail = "bare") -> [Put(fl, m) EXCEPT !.tail = "bare"]
    [] t = "half" /\ fl.tail # "bare" -> [fl EXCEPT !.tail = "half"]

(* rewrite starts with File::create.                                       *)
Truncate(f) == file' = [file EXCEPT ![f] = NoFile] /\ kept' = [kept EXCEPT ![f] = <<>>]

DropDangling(c) == IF c # <<>> /\ Last(c).k = "calls" THEN Front(c) ELSE c

(* SessionFile::load                                                       *)
Readable(fl) ==
  IF fl.tail = "bare" /\ Last(fl.lines) \in Unreadable THEN Front(fl.lines) ELSE fl.lines
Loads(fl) ==
  LET ls == Readable(fl)
  IN  /\ ls # <<>> /\ ls[1] = Header
      /\ \A i \in DOMAIN ls : ls[i] \notin Unreadable
Loaded(fl) == DropDangling(Tail(Readable(fl)))
Warns(fl) == fl.tail = "half" \/ fl.lines # <<Header>> \o Loaded(fl)

(* sync, with rewrite telling whether the file is written anew.  The       *)
(* worker goes on at next; an append of nothing is over at once.           *)
SyncAs(c, rewrite, next) ==
  /\ ctx' = c
  /\ \/ /\ disabled \/ Len(c) = cursor
        /\ pc' = next
        /\ kept' = IF disabled THEN kept ELSE [kept EXCEPT ![cur] = c]
        /\ UNCHANGED <<file, job>>
     \/ /\ ~disabled /\ Len(c) # cursor
        /\ pc' = "write"
        /\ job' = [kind |-> "sync", file |-> cur, msgs |-> c, next |-> next, fail |-> next,
                   todo |-> IF rewrite THEN <<Header>> \o c
                                       ELSE SubSeq(c, cursor + 1, Len(c))]
        /\ IF rewrite THEN Truncate(cur) ELSE UNCHANGED <<file, kept>>
  /\ UNCHANGED <<cur, cursor, disabled>>

(* A context shorter than what was persisted was rewritten.                *)
Sync(c, next) == SyncAs(c, Len(c) < cursor, next)

WriteLine ==
  /\ pc = "write" /\ job.todo # <<>>
  /\ file' = [file EXCEPT ![job.file] = Put(@, Head(job.todo))]
  /\ job' = [job EXCEPT !.todo = Tail(@)]
  /\ UNCHANGED <<ctx, pc, steps, cur, cursor, disabled, fresh, kept>>

(* Everything is written: the recorder adopts the file and its length.     *)
Adopt(f, c, next) ==
  /\ ctx' = c /\ pc' = next
  /\ cur' = f /\ cursor' = Len(c) /\ disabled' = FALSE
  /\ kept' = [kept EXCEPT ![f] = c]

Written ==
  /\ pc = "write" /\ job.todo = <<>>
  /\ Adopt(job.file, job.msgs, job.next) /\ job' = NoJob
  /\ UNCHANGED <<steps, file, fresh>>

(* Where an interrupted write leaves the file.                             *)
Interrupted ==
  IF job.todo = <<>>
  THEN file' = file
  ELSE \E t \in {"ok"} \cup Tears :
         file' = [file EXCEPT ![job.file] = Torn(@, Head(job.todo), t)]

(* An I/O error: sync disables recording, reopen leaves the recorder as it *)
(* is, start_new_with_context removes its candidate.                       *)
WriteFails ==
  /\ pc = "write" /\ job.todo # <<>> /\ fresh =< ErrorsBy
  /\ pc' = job.fail /\ job' = NoJob
  /\ disabled' = (disabled \/ job.kind = "sync")
  /\ \/ job.kind # "candidate" /\ Interrupted
     \/ job.kind = "candidate" /\ file' = [file EXCEPT ![job.file] = NoFile]
  /\ UNCHANGED <<ctx, steps, cur, cursor, fresh, kept>>

(* The process dies, maybe in the middle of a line.                        *)
Crash ==
  /\ pc # "down"
  /\ Interrupted
  /\ pc' = "down" /\ ctx' = <<>> /\ steps' = 0
  /\ cursor' = 0 /\ disabled' = FALSE /\ job' = NoJob
  /\ UNCHANGED <<cur, fresh, kept>>

(* It may not be started again.                                            *)
Off == pc = "down" /\ UNCHANGED vars

-----------------------------------------------------------------------------
(* Sessions                                                                *)

Unused == {f \in Session : file[f] = NoFile /\ kept[f] = <<>>}

(* The process starts with a new session ...                               *)
Create ==
  /\ pc = "down"
  /\ \E f \in Unused :
       /\ file' = [file EXCEPT ![f] = NewFile] /\ cur' = f
  /\ ctx' = <<System>> /\ pc' = "idle" /\ cursor' = 0 /\ disabled' = FALSE
  /\ UNCHANGED <<steps, job, fresh, kept>>

OpenUnrepaired ==    \* mutation: what the loader dropped stays in the file
  /\ pc \in {"down", "idle"}
  /\ \E f \in Session :
       /\ Loads(file[f])
       /\ Adopt(f, Loaded(file[f]), "idle") /\ UNCHANGED <<file, job>>
  /\ UNCHANGED <<steps, fresh>>

(* ... or resumes one, and /sessions switches to one; a file the loader    *)
(* had to repair is rewritten.                                             *)
Open ==
  /\ pc \in {"down", "idle"}
  /\ \E f \in Session :
       /\ Loads(file[f])
       /\ LET c == Loaded(file[f]) IN
          \/ /\ Warns(file[f])
             /\ pc' = "write" /\ Truncate(f)
             /\ job' = [kind |-> "reopen", file |-> f, msgs |-> c, next |-> "idle",
                        fail |-> pc, todo |-> <<Header>> \o c]
             /\ UNCHANGED <<ctx, cur, cursor, disabled>>
          \/ ~Warns(file[f]) /\ Adopt(f, c, "idle") /\ UNCHANGED <<file, job>>
  /\ UNCHANGED <<steps, fresh>>

(* /fork: a new file, then the whole context.                              *)
Fork ==
  /\ pc = "idle"
  /\ \E f \in Unused :
       /\ file' = [file EXCEPT ![f] = NewFile]
       /\ cur' = f /\ cursor' = 0 /\ disabled' = FALSE
       /\ job' = [kind |-> "sync", file |-> f, msgs |-> ctx, todo |-> ctx,
                  next |-> "idle", fail |-> "idle"]
  /\ pc' = "write"
  /\ UNCHANGED <<ctx, steps, fresh, kept>>

(* /clear: the fresh context is on file before anything is replaced.       *)
Clear ==
  /\ pc = "idle"
  /\ \E f \in Unused :
       /\ file' = [file EXCEPT ![f] = NewFile]
       /\ job' = [kind |-> "candidate", file |-> f, msgs |-> <<System>>,
                  todo |-> <<System>>, next |-> "idle", fail |-> "idle"]
  /\ pc' = "write"
  /\ UNCHANGED <<ctx, steps, cur, cursor, disabled, fresh, kept>>

-----------------------------------------------------------------------------
(* Compaction and rewinding                                                *)

Start(c) == IF c # <<>> /\ c[1].k = "system" THEN 1 ELSE 0

TailCutsAnywhere(c) == Start(c) + 1 .. Len(c) + 1    \* mutation: results may lead the tail

(* find_tail_cut: the budget may be spent at any message; the tail starts  *)
(* after the tool results that would lead it.                              *)
TailCuts(c) == {i \in Start(c) + 1 .. Len(c) + 1 : i = Len(c) + 1 \/ c[i].k # "tools"}

(* compact: the head becomes one summary, a user message.                  *)
Compacted(c, cut, summary) ==
  SubSeq(c, 1, Start(c)) \o <<summary>> \o SubSeq(c, cut, Len(c))
Heads(c, least) == {cut \in TailCuts(c) : cut - 1 - Start(c) >= least}

(* /compact; with nothing to compact it still syncs.                       *)
Compact ==
  /\ pc = "idle"
  /\ \/ /\ Room(1) /\ fresh' = fresh + 1
        /\ \E cut \in Heads(ctx, 2) : Sync(Compacted(ctx, cut, Made("user", 1)), "idle")
     \/ Sync(ctx, "idle") /\ fresh' = fresh
  /\ UNCHANGED steps

(* /rewind cuts at a user message.                                         *)
Rewind ==
  /\ pc = "idle"
  /\ \E i \in DOMAIN ctx : ctx[i].k = "user" /\ Sync(SubSeq(ctx, 1, i - 1), "idle")
  /\ UNCHANGED <<steps, fresh>>

-----------------------------------------------------------------------------
(* Runs                                                                    *)

(* A run starts with a user's prompt, a briefing in front when planning,   *)
(* or with nothing: subagent results wait to be delivered.                 *)
Run ==
  /\ pc = "idle"
  /\ \E turn \in {<<>>, <<Made("user", 1)>>, <<Made("system", 1), Made("user", 2)>>} :
       /\ Room(Len(turn)) /\ fresh' = fresh + Len(turn)
       /\ ctx' = ctx \o turn
  /\ pc' = "start"
  /\ UNCHANGED <<steps, record>>

(* ! runs a shell command as if the model had called it.                   *)
Shell ==
  /\ pc = "idle" /\ Room(2) /\ fresh' = fresh + 2
  /\ Sync(ctx \o <<Made("user", 1), Made("calls", 2), Made("tools", 2)>>, "idle")
  /\ UNCHANGED steps

(* on_agent_start; its failure skips the end hooks.                        *)
StartHooks ==
  /\ pc = "start" /\ pc' \in {"top", "ended"}
  /\ UNCHANGED <<ctx, steps, fresh, record>>

(* Cancelled, past the deadline, or a hook failed.                         *)
Stop ==
  /\ pc = "top" /\ pc' = "ending"
  /\ UNCHANGED <<ctx, steps, fresh, record>>

StepsLeft == steps < MaxSteps

(* before_model: delivered turns enter, the context may be compacted, the  *)
(* inventory of workers is refreshed, and the recorder syncs.              *)
BeforeModel ==
  /\ pc = "top" /\ StepsLeft /\ steps' = steps + 1
  /\ \E turns, inventory \in {0, 1} :
       /\ turns + inventory =< Deliveries
       /\ LET c == ctx \o Turns(1, turns) IN
          \/ /\ Room(turns + inventory) /\ fresh' = fresh + turns + inventory
             /\ Sync(c \o Turns(turns + 1, inventory), "model")
          \/ /\ LongSession /\ Room(turns + 1 + inventory)
             /\ fresh' = fresh + turns + 1 + inventory
             /\ \E cut \in Heads(c, MinHead) :
                  Sync(Compacted(c, cut, Made("user", turns + 1))
                         \o Turns(turns + 2, inventory), "model")

Answer ==
  /\ pc = "model" /\ Room(1) /\ fresh' = fresh + 1
  /\ ctx' = Append(ctx, Made("text", 1)) /\ pc' = "ending"
  /\ UNCHANGED <<steps, record>>

CallTools ==
  /\ pc = "model" /\ Room(1) /\ fresh' = fresh + 1
  /\ ctx' = Append(ctx, Made("calls", 1)) /\ pc' = "dispatch"
  /\ UNCHANGED <<steps, record>>

(* The model or a hook failed, or the run was interrupted.                 *)
ModelFails ==
  /\ pc = "model" /\ pc' = "ending"
  /\ UNCHANGED <<ctx, steps, fresh, record>>

ToolsReturn ==
  /\ pc = "dispatch" /\ pc' = "top"
  /\ ctx' = Append(ctx, [k |-> "tools", n |-> Last(ctx).n])
  /\ UNCHANGED <<steps, fresh, record>>

(* Dispatcher::execute returned an error; the calls stay unanswered.       *)
DispatchFails ==
  /\ pc = "dispatch" /\ pc' = "ending"
  /\ UNCHANGED <<ctx, steps, fresh, record>>

(* on_agent_end: the recorder syncs.                                       *)
AgentEnds ==
  /\ \/ pc = "ending" /\ Sync(ctx, "ended")
     \/ pc = "top" /\ ~StepsLeft /\ Sync(ctx, "limit")
  /\ steps' = 0 /\ UNCHANGED fresh

(* At the step limit a long session goes on.                               *)
Again ==
  /\ pc = "limit" /\ LongSession /\ pc' = "start"
  /\ UNCHANGED <<ctx, steps, fresh, record>>

(* repair_dangling_tool_calls                                              *)
Repaired(c) ==
  IF c # <<>> /\ Last(c).k = "calls" THEN Append(c, [k |-> "tools", n |-> Last(c).n]) ELSE c

RunDone ==
  /\ pc = "ended" \/ (pc = "limit" /\ ~LongSession)
  /\ Sync(Repaired(ctx), "idle")
  /\ UNCHANGED <<steps, fresh>>

-----------------------------------------------------------------------------
Writing  == WriteLine \/ Written \/ WriteFails
Sessions == Create \/ Open \/ Fork \/ Clear
Commands == Compact \/ Rewind \/ Run \/ Shell
Loop == \/ StartHooks \/ Stop \/ BeforeModel
        \/ Answer \/ CallTools \/ ModelFails \/ ToolsReturn \/ DispatchFails
        \/ AgentEnds \/ Again \/ RunDone

Next == Writing \/ Crash \/ Off \/ Sessions \/ Commands \/ Loop

Spec == Init /\ [][Next]_vars

-----------------------------------------------------------------------------
(* Properties                                                              *)

TypeOK ==
  /\ ctx \in Seq(Message) /\ pc \in PC /\ steps \in 0 .. MaxSteps
  /\ file \in [Session -> File]
  /\ cur \in Session /\ cursor \in Nat /\ disabled \in BOOLEAN
  /\ job = NoJob \/ job \in Job
  /\ fresh \in 0 .. MaxMessages
  /\ kept \in [Session -> Seq(Message)]

(***************************************************************************)
(* Every model call sees whole turns: calls are directly followed by their *)
(* own results, and results never come without their calls, whatever       *)
(* failed, was compacted, rewound, repaired or resumed before.  Chat       *)
(* endpoints reject anything else.                                         *)
(***************************************************************************)
WholeTurns(c) ==
  \A i \in DOMAIN c :
    /\ c[i].k = "calls" =>
         i < Len(c) /\ c[i + 1] = [k |-> "tools", n |-> c[i].n]
    /\ c[i].k = "tools" =>
         i > 1 /\ c[i - 1] = [k |-> "calls", n |-> c[i].n]

ModelSeesWholeTurns == pc = "model" => WholeTurns(ctx)

(* A line was appended to one that a crash had left without its newline:   *)
(* the file was resumed without a repair, for that line can be read.       *)
RanTogether(fl) == \E i \in DOMAIN fl.lines : fl.lines[i] = Joined

(***************************************************************************)
(* "file and cursor never disagree": at every model call, and whenever the *)
(* worker waits for a command after a sync, the file holds exactly the     *)
(* context, unless recording is disabled or lines ran together.            *)
(***************************************************************************)
FileMirrorsContext ==
  pc \in {"model", "idle"} /\ ~disabled /\ cursor > 0 /\ ~RanTogether(file[cur]) =>
    file[cur].lines = <<Header>> \o ctx /\ file[cur].tail # "half"

(* The file can be loaded and holds at least c, but for calls at its end.  *)
StillHolds(fl, c) ==
  c # <<>> => Loads(fl) /\ IsPrefix(DropDangling(c), Loaded(fl))

(***************************************************************************)
(* "a run survives its process and can be resumed later.  A crash loses at *)
(* most the line being written": a file that was once in step with its     *)
(* conversation loads at any moment, and still holds what it held then,    *)
(* calls without results excepted, until it is truncated to be rewritten.  *)
(***************************************************************************)
CrashLosesOneLine == \A f \in Session : StillHolds(file[f], kept[f])

(* The same, for the files in which no two lines ran together.             *)
Recoverable == \A f \in Session : ~RanTogether(file[f]) => StillHolds(file[f], kept[f])

(***************************************************************************)
(* The context is well formed, and every model call is shown whole turns:  *)
(* no results without their calls, no calls without their results.         *)
(***************************************************************************)
ContextSound == TypeOK /\ ModelSeesWholeTurns

(***************************************************************************)
(* The session file mirrors the context it records whenever the recorder   *)
(* is at rest, and what was once on file can be loaded again after any     *)
(* crash outside a rewrite, wherever in a line the crash came.  Only an    *)
(* append to a line that a crash left without its newline breaks this, and *)
(* nothing else makes two lines one.                                       *)
(***************************************************************************)
FileFaithful == FileMirrorsContext /\ Recoverable
=============================================================================
