# Orca harness in TLA+

TLA+ specifications of the concurrent and crash-prone core of the Orca agent
harness: how it executes batches of tool calls, runs subagents and workflows in the
background, delivers their results, keeps a conversation and its file in step, and deals
with processes, servers, providers, approvals and files around it. Every module is checked
by TLC on small instances. For the dispatcher, the subagent manager with its completion
inbox, the conversation with its file and sixteen smaller components the safety properties
are proved by TLAPS as well, for every value of the constants.

Paths below are relative to `src/crates/`.

## 1. The system

Orca runs a language model in a loop with tools. `harness-core` is the kernel (loop,
dispatcher, hooks); everything else plugs into it as tools and extensions. Two hosts
drive it: the CLI (`cli`) and embedding programs through the SDK (`sdk`).

```
 host (CLI worker, SDK session)
   | commands, cancel                    ^ CompletionsReady / BackgroundSubagentsReady
   v                                     |
 agent loop --before_model--> long-session compaction, completion delivery,
   |                          inventory, session recorder --> <id>.jsonl
   |--calls--> dispatcher --> tools (parallel, keyed, serial)
                               |
                               '--> subagent tool --> SubagentManager --> detached workers
                                                        ^                     |
                                    CompletionInbox <---+--- notifications ---'
```

| Component | State | Operations | What is hard | What makes it correct |
|---|---|---|---|---|
| Tool dispatcher, `harness-core/src/dispatcher.rs` | jobs, chains, semaphore, RwLock, result slots | `execute`, `run_job`, `guarded`, `Grouping::add` | interleaved tasks; cancellation, deadline, panic or a dropped future anywhere | classes respected, width bounded, one true result per call, no task left behind, always ends |
| Agent loop, `harness-core/src/agent_loop.rs` | transcript, step counter | `run`, `drive`, `guarded_generate` | early returns between pushing calls and pushing results | the model only sees whole turns; at most `max_steps` model calls |
| Session recorder, `extensions/src/session.rs` | file, cursor, disabled flag | `create`, `resume`, `switch_to`, `fork`, `start_new_with_context`, `sync`, `load` | crash inside a line, write errors, contexts rewritten under the cursor | file = context at every model call; what was recorded loads again |
| Compaction, `extensions/src/compact.rs`, `long_session.rs` | context, last token count | `compact`, `find_tail_cut`, `before_model` | where to cut; what the recorder makes of it | no orphaned results; recorder in step |
| CLI worker, `cli/src/runtime/worker*` | context, recorder | `Run`, `Shell`, `Clear`, `Compact`, `Rewind`, `Fork`, `LoadSession` | a command on whatever context the last run left | as above |
| Background subagents, `tools/src/subagent/` | jobs, queue, slots, reservations, generation, sidekick lives | `admit_job`, `try_start`, `acquire`, `dequeue`, `finish`, `cancel`, `cancel_all`, `reset`, `close`, `wait_idle`, sidekick turns | guards outlive the state that granted them; two-section admission; lost wake-ups | exact slot count, limit, live queue, shutdown returns |
| Completion inbox, `tools/src/subagent/background/completions.rs`, `sdk/src/background/` | ready batch, wake-up latch, reservations | `push`, `request_wakeup`, `drain`, `acknowledge`, `reset`, `consume_wakeup`, `rearm` | worker, run and host race for latch and generation | no stale delivery, no lost wake-up, bounded |
| DAG engine, `harness-dag` | open needs, ready and in-flight stages, answers | `start`, `complete`, `cancel` | maps that expand, settle empty and unlock more; retries | a stage begins once, after its inputs; every run settles |
| Workflow runtime, `tools/src/workflow/` | live runs, store of answers and outcomes | `submit`, `deliver`, `complete`, `fail_stage`, `cancel`, `finish` | stages are booked under a mutex and admitted after it | no stranded stage, one honest notification, replays that fit |
| SDK session, `sdk/src/session/` | busy flag, file, environment, recovery store, event channel | `run`, `clear`, `reset`, `fork`, `compact`, `shutdown`; `offer`, `flush` | each step may fail; emitters share a gap counter | one conversation at a time, no trace of a failed one; events counted exactly |
| Model retry, `extensions/src/retry.rs` | active count, limit, cooldown | `acquire`, `defer`, `run` | dropped futures, a limit edited live, wake-ups | limit kept, cooldown heard, no streamed answer repeated, everyone served |
| Tool results, `extensions/src/truncation.rs`, `read_tool_result.rs` | bounded store | `after_tool`, `insert`, `elide_tool_results`, paged reads | eviction and replacement between pages | exact bytes; pages of one text |
| Processes and shell, `tools/src/core_tools/` | process table, output buffers, notifications | `spawn`, `wait`, `kill`, `kill_all`, `close`; `shell` | exit races snapshot, kill and close | every end told once, output accounted for, no process left |
| Interpreters, `tools/src/kernel.rs`, `bun_repl.rs` | session, restart notice, `tools` global | `exec`, programmatic calls, `reset` | late output after a timeout | own output, loss told |
| File tools, `tools/src/core_tools/` | file guard, files | read, write, edit batch, copy, rename, delete; glob | other writers, failing batches | no blind overwrite, no lost write, all or nothing |
| MCP, `tool-extensions/src/mcp/`, `cli/src/mcp.rs` | lane, ids, catalog | `request`, `invalidate`, `reload` | cancelled exchanges, edits during a reload | own answers, catalog as saved |
| Approvals, `cli/src/approval.rs`, `auto_approval.rs`, `mode.rs`, `stdio_approval.rs` | mode, grants, cautions, open questions | `before_tool`, `around_tool`, reader thread | the mode changes while calls wait | admitted as the mode says; nobody waits on a closed stdin |
| Terminal UI, `cli/src/tui/` | prompt queue, shown run, agent rows | `submit`, `start_next_queued_prompt`, event handlers | two tasks and two channels | each prompt once, in order; results on their rows |
| Providers, `model-providers/`; Codex login, `cli/src/auth/` | partial frames and answers; tokens | `push`, accumulators; `current`, refresh | chunks cut anywhere; a refresh token is spent once | what was sent is what is read; no needless renewal |
| Sandbox processes, `sandbox-providers/src/local/process.rs`; plugin hooks | supervisor, pumps, frames; hook chain | `start_process`, kill, drop; `invoke` | completion frame inside a stream; stalled pipes | whole output, nothing left alive; verdict from a sound answer only |
| Memory, skills, web, configuration, extension registry | | | I/O, text, SQL | not modelled, see section 5 |

`PROJECT.json` lists every component with its files, and every hazard at its line.

## 2. The modules

| Module | Models | Extends / uses |
|---|---|---|
| `Grouping`, `GroupingSteps` | `Grouping::add`: calls into chains; a batch built call by call | |
| `Dispatcher` | `Dispatcher::execute`, `SharedExecution` | `Grouping`; refines `ToolBatch` |
| `ToolBatch` | the promise: the concurrency classes of the repository's documentation | |
| `Queues` | `VecDeque::retain`, for the queues of manager, model gate, MCP reloads and stored results | |
| `SubagentManager` | manager, detached tasks, sidekicks | |
| `CompletionInbox` | inbox, SDK runs and host | composed with `SubagentManager` |
| `Conversation` | agent loop, CLI commands, compaction, recorder | |
| `Dag` | the engine, as operators on a run | |
| `Workflow` | runtime, detached workers, store | `Dag`; refines `StageContract` |
| `StageContract` | the promise: the order of the stages of a run | |
| `Processes`, `OutBuf`, `Shell` | process table; output buffer and matcher; one shell call | |
| `SdkSession`, `EventFanout` | operations of a session; event channel of a run | |
| `ModelGate`, `ToolResults`, `Streams`, `CodexAuth` | requests to a provider; stored results; streamed answers; login | |
| `McpClient`, `McpReload` | one connection; the set of servers | |
| `Approvals`, `StdioApprovals` | approval in the TUI; over stdio | |
| `Interpreters`, `FileTools`, `TextTools` | interpreters; file guard; glob, path and replacement algorithms | |
| `TuiRuns`, `AgentRows` | prompts and runs; rows of an agent | |
| `SandboxProcess`, `PluginHooks` | a process in a container; hook processes | |
| `CommonLemmas` | lemmas on numbers, queues, sequences, cardinalities and sums | `Queues` |
| `GroupingProofs`, `DispatcherProofs` | theorems | `GroupingSteps`, `Dispatcher` |
| `ManagerProofs` | theorems | `SubagentManager`, `CompletionInbox` |
| `ConnectionProofs` | theorems | `McpClient`, `ModelGate`, `StdioApprovals`, `CodexAuth`, `SandboxProcess` |
| `ToolsProofs` | theorems | `Processes`, `OutBuf`, `Shell`, `Interpreters`, `FileTools` |
| `HostProofs` | theorems | `SdkSession`, `EventFanout`, `McpReload`, `PluginHooks`, `Approvals`, `TuiRuns` |
| `ConversationProofs` | theorems | `Conversation` |
| `MC*` | instances for TLC | |

Definitions named `...Unchecked`, `...Silent`, `RoomForOneMore` and the like, each with
a comment `mutation`, are plausible bugs. They are used by no specification: replacing
the definition that follows by one of them must make TLC report the property that
`PROJECT.json` names under `mutants`. (The bug for `Shell` is to kill the child where its
group is due, and `ShKillChild` is what the dispatcher's drop really does.)

### Grouping and Dispatcher

A batch is a sequence of call ids; a call is its index. A chain (a `Vec` of jobs in the
code) is the set of calls mapped to one slot, with the order of the `Vec` as a
relation: extending one chain by others is then a union of products, and no recursion is
needed. `Keyed(k)` and `Keys([k])` are grouped alike and share a representation.

`phase` is where the dispatching task is; `pc[i]` is where call `i` is in `run_job`:
waiting for a permit, permitted, waiting for the lock, locked, running, in its
`tool_finished` hooks, done, or lost with its task. `task` holds the spawned units. The
unit the dispatcher runs inline is an ordinary unit whose panic unwinds `execute`
itself. Permit and lock queues are first come, first served (tokio's promise). A tool's
input and output are abstracted to what the result says: produced by the tool, stopped
before or during execution by token or deadline, denied, unknown tool. `Cancel`,
`Expire`, `TaskPanics` and `Unwind` (the host drops the future) are enabled at any step.

`guarded` checks the token, polls the tool, then races it: `StartTool` needs an
uncancelled token, `CancelDuring` may strike a call that was never polled. Such a call is
reported as "cancelled during execution" although its tool did not run, which is the
code's choice too (`dispatcher.rs` 356, 381); only the converse, `BeforeMeansNotRun`,
holds.

### SubagentManager

One step per lock section. A slot guard, a token and the generation a worker captured
belong to the worker (`slots`, `cancelled`, `own`) and outlive what the manager (`st`)
forgets. `admit_job` is two steps (enqueue, first try), `acquire` is a cycle of mark,
check and wait on the watch channel (`woken`), `close` is two steps, `wait_idle` a
process of the host. A sidekick's registration, `begin`, `finish` and the report of a
turn are separate steps, as they are separate lock sections of different locks.
`FirstTurnPanics` is the `expect("new sidekick is idle")` of `host.rs` 597: a reset or
close between admission and `begin` triggers it, and the rest of the manager has to
survive that.

### CompletionInbox

Composes the manager with the inbox and a parent session. A worker's notification is
`Push` and then `RequestWakeup`; a run drains in three steps (take, filter, acknowledge)
and ends with `consume_wakeup`, `has_ready`, announce; `clear` and `close` of the host are
one step per lock section. `delivered` records from which conversation a result came and
into which it went.

### Conversation

One worker task, one process, several session files. A message is its kind and a number;
results carry the number of their calls. A file is a sequence of lines plus how the last
one ends: properly, in half a line, or without its newline ("bare"). Writing is one line
per step (`WriteLine`), so that `Crash` and `WriteFails` may come between any two lines or
within one. A line appended to a bare one makes one line of the two, which nobody can read
(`Joined`). `Sync` is the recorder's rule: rewrite iff the context is shorter than the
cursor. The byte budget of compaction is a free choice of the cut, constrained by
`find_tail_cut`'s boundary rule. A dispatch is one step with two outcomes, since
`Dispatcher` is a module of its own. The creation of a file with its header is one step: a
file whose header is torn holds nothing to lose.

### Dag, Workflow and StageContract

The engine is synchronous, so `Dag` is a library of operators: a run is a record, and
`Start`, `Complete` and `Cancel` map a run to a run and the stages it emits. The waves of
`emit`, in which an empty map settles and unlocks stages that are themselves empty maps,
are a recursive function bounded by the number of stages. A stage's answer is an array of
so many items, something that is no array, or an error: what maps tell apart.

`Workflow` takes one step per hold of the dispatch mutex and one for each thing that
happens outside it: a booked stage waits in `admits` until `Deliver`, a worker ends and
its callback comes later, the host is told later, a reset cancels first and clears the
store afterwards. A run that resumes another replays its answers if the keys agree.
`StageContract` knows only which stages have begun and are done; the refinement maps the
engine's records to it.

### The smaller components

Each has a module of its own with a prefix (`Pm` for processes, and so on), its own
variables and its own specification. They share no state. `MCParts` puts them into one
instance, `MCPartsLive` those that claim liveness: the variable `focus` names the
component a behaviour is about, the others stay at a fixed initial state. What one
component needs of another is a choice: a process prints anything, a model's stream
carries any events in any order, an MCP server answers late, twice, or never.

- `Processes`: who learns that a process ended. The spawn call waits out its settle time,
  snapshots and arms the notification under the lock of the exit slot; waiter task, kill,
  `kill_all`, close and the drop of the tool interleave. `OutBuf` compares the
  buffers with everything that was ever pushed. `Shell` has two pipes of bounded capacity, a
  child and a process it may leave in the background, with those pipes or without; a call
  ends by its answer, its timeout, its own token, or with its future, which the dispatcher
  drops (`guarded`, the same token, polled first) and which kills the child only.
- `SdkSession`: which conversation session, file, binding and recovery store belong to,
  with every write allowed to fail. `EventFanout` has one step per atomic operation.
- `ModelGate`: time is what remains until an instant; the host may edit the limit.
- `ToolResults`: texts are sequences of numbered characters, so a page, a cut and an
  original can be compared; call ids may repeat, as some providers' fallback ids do.
- `Streams`: the framers are fed bytes in chunks of any size, the accumulators events in
  any order; a log of what was taken in gives the reference reading.
- `CodexAuth`: two processes with a token file between them; three requests.
- `McpClient`: lines on a lane, among them the torn beginning of a dropped request. A call
  is interrupted by its own select, which closes the connection (`McInterrupt`,
  `McInvalidate`), or dropped by the dispatcher, which does not (`McGone`).
  `McpReload`: a user who edits the saved servers while a pass connects.
- `Approvals`: one call of the root and one of a worker pass the gates while the mode
  changes; `apModes` remembers the modes a call has met. A call is a write, a shell command
  or a command known to be safe. `StdioApprovals`: calls, the reader thread and the caller's end.
- `Interpreters`: an interpreter's output is the sequence of its end markers, each with
  the number of the code it belongs to. Calls of every kind may be dropped.
- `FileTools`: a file is a text and a version, a call names it in one of two spellings, and
  others write at any moment; `ftUnseen` remembers texts that got a stamp although nobody
  read them, `ftRespelt` what calls under another spelling changed. `TextTools` grows inputs and compares each
  algorithm with what it should compute.
- `TuiRuns`: UI and worker with the two channels between them. `AgentRows`: rows found by
  index, which move when settled ones are dropped, under the agent's events, the parent's
  results about it and the completions of its background tasks.
- `SandboxProcess`: standard error byte by byte, as the completion frame travels in it.
  `PluginHooks`: a hook process that reads, answers and leaves as it likes.

## 3. Runs

Twelve runs; `PROJECT.json` gives cfg, properties and mutants of each. A property is often
a conjunction of named parts, each with its own comment in the module.

| Run | Shows | Distinct states |
|---|---|---|
| `dispatch` | 3 calls, all classes over 2 keys, 2 permits, empty and malformed batches, panic, cancel, drop; refinement of `ToolBatch` | 591 k |
| `dispatch_live` | 3 calls, one permit, a deadline: interruption ends the dispatch; without it nobody waits for ever | 187 k |
| `manager` | alone, a worker and a sidekick of two turns, limit 1 or 2, reset and close: accounting, limit, queue, idle; in a session, two workers under clear and shutdown, or a sidekick of two turns: reservations, conversations, wake-ups | 1.4 M |
| `manager_live` | the manager alone on one slot: no waiter is forgotten, shutdown returns; a sidekick in a session: its reports leave the inbox | 205 k |
| `conversation` | two files, long session, crashes, write errors, every command | 9.8 M |
| `workflow` | two runs of small graphs with maps, retries and replays, one reset, close or change of route: books, refinement of `StageContract`, every run ends | 251 k |
| `parts` | 18 smaller components, grouping included, one per behaviour | 1.1 M |
| `parts_live` | processes, the MCP client and the model gate, likewise and under fairness: their accounts; what is closed ends and model requests are served | @PL@ |
| `session_compact`, `session_bare`, `workflow_orphan`, `results_elided` | disagreements between code and docs, section 6 | |

**Bounds and why they are enough.** Three calls are the fewest with a holder, a waiter
ahead and a waiter behind, or with a chain beside a serial call. Four calls over three
keys (`parts`) are the fewest in which a multi-key call merges two chains, one of which
carries a third key, and a later call uses that key. One worker plus one sidekick
exercises every path of the manager, among them a queue of two; two workers in a
session let one be cancelled while the other's result waits. The variable `cast` of
`MCInbox` and `MCManager` says which of the three a behaviour is about. `MaxGen` and `MaxTurns` bound
replaced conversations and turns: one reset separates "before" from "after", and two turns
are the fewest with two reservations of one spawn.

In `conversation`, `MaxMessages = 4` numbered messages (results come on top) suffice for
a step limit hit, a continuation and an automatic compaction; `MaxSteps = 2` puts a
second model boundary into one drive; `ErrorsBy = 1` confines write errors to a young
conversation, whose consequences are then explored to the end. `Deliveries = 1`: a
boundary adds delivered results or an inventory, not both. `Tears` lets a crash or a
write error leave half a line or a whole one without its newline, the latter while at
most `BareBy = 2` messages were made, which is enough for the next sync, the resume and
everything after them; `FileFaithful` says what is left of a file's promises once two
lines ran together, and `session_bare` that the promise of the recorder is then broken.
`MinHead` confines automatic compactions to those that replace at least five messages,
more than a boundary can add, which the code does not guarantee (`session_compact`).

In `workflow` two submissions are the fewest with a run that resumes another; the graphs
are a source with a map over up to two items, with and without a reader of both; a chain,
and the chain with its first stage edited; and a cycle, which is refused. `MaxUpsets = 1`
allows one reset, close or change of route, at any moment.

In `parts` and `parts_live` each component has two actors where actors race (three
requests over two processes for the login), buffers one or two items short of what is
fed to them, and counters just past their limit. `ApMaxFlips = 2` lets the mode change
between each two of the three gates; the calls of workers are shell commands, as a
worker's write passes like one that is known to be safe. `ArKeep = 0` makes every settled
row a candidate for compaction, so two calls suffice for a row that moves. Two calls of the
file tools at once and one change by somebody else reach every window the module
describes.

**Fairness.** `Dispatcher`: every step of the runtime (granting permits and locks,
starting, finishing, interrupting, aborting, joining) is weakly fair, as tokio polls woken
tasks; tools are not, so `InterruptEnds` holds for tools that never return, and
`DispatchEnds` assumes just that they return. `SubagentManager`: workers are polled and
agents end (their model calls return, fail or are interrupted); hosts, spawns and
cancellations are not fair. In a session (`InboxFairness` of `MCManager`) additionally a
host that is told of results starts a run and runs end; `DrainTake` is strongly fair, since a run may end
before its first model call but not every run does. `Workflow`: workers end, callbacks
return and booked stages are delivered; the weak fairness is written out as "infinitely
often not enabled, or infinitely often taken", with the enabling condition in place of
`ENABLED`. `Processes`: the waiter task is polled. `McpClient`: a call's own steps, not the
server's and not its interruption: `McCloseEndsCalls` speaks of calls whose own branch
closed the connection. `ModelGate`: tasks are polled, requests return and time passes; hosts need not
edit limits. `Conversation` and the other components claim no liveness.

Deadlock is checked in the runs of dispatcher, manager and conversation, whose
final states stutter explicitly (`Quiet`, `Off`). Workflows and the smaller components
really stop: their environments run out of requests.

## 4. Proofs

Every theorem is of the form `Spec => []P` or `Spec => [][A]_vars` and holds for every
value of the constants that satisfies the module's named assumptions; these say what the
constants are, and TLC evaluates them in the runs. Only the two of the conversation have a
hypothesis of their own, without which the property fails (`session_compact`). None of the properties is inductive by itself. Each proof finds the invariant that
is, has TLC look for a counterexample to it on a small instance, shows that every action
keeps it, and derives the property.

| Theorem | States | Rests on |
|---|---|---|
| `DispatcherProofs!OrderSafety` (with `SerialSafety`, `KeyOrderSafety`, `WidthSafety`, `BeforeSafety`) | `DispatchOrder` | `Inv` |
| `DispatcherProofs!DispatchInvariance` | `DispatchInv` | `Inv`, `AccountsInv` |
| `DispatcherProofs!AccountsSafety` | `DispatchAccounts` | `DispatchInv` |
| `DispatcherProofs!CancelSafety` | `NoStartAfterCancel` | guards |
| `DispatcherProofs!Refinement` | `ImplementsToolBatch` | `Inv` before and after the step |
| `GroupingProofs!GroupingSafety` | `GroupingRight` | its own four parts |
| `ManagerProofs!SlotsSafety`, `NothingForgottenSafety`, `StartsSafety` | `SlotsExact`, `NothingForgotten`, `StartsAllowed` | `ManagerInv` |
| `ManagerProofs!InboxSafetyUnbounded`, `InboxSafety` | `InboxSafe` | `InboxInv` |
| `ConversationProofs!ContextSafety` | `ContextSound` | `ConvInv`, `CompactionsShrink` |
| `ConversationProofs!FileSafety` | `FileFaithful` | the same |
| `ConnectionProofs!McSafety`, `SpSafety`, `MgSafety` | `McSafe`, `SpSafe`, `MgSafe` | `McInv`, `SpInv`, `MgInv` |
| `ConnectionProofs!CaSafety`, `CaCauseSafety` | `CaSafe`, `CaRenewedForCause` | `CaInv` |
| `ConnectionProofs!SandboxSafety` | `SxSafe` | `SxInv` |
| `ToolsProofs!PmSafety`, `OutBufSafety`, `ShSafety` | `PmSafe`, `ObExact`, `ShSafe` | `PmInv`, `ObInv`, `ShInv` |
| `ToolsProofs!ToolResultsSafety` | `TrSafe` | `TrInv` |
| `ToolsProofs!InterpreterSafety` | `IpSafe` | `IpInv`, `IpAnswers` |
| `ToolsProofs!FileToolsSafety` | `FtSafe` | `FtInv` |
| `HostProofs!SdSafety`, `MrSafety`, `PhSafety`, `ApSafety` | `SdSafe`, `MrSafe`, `PhSafe`, `ApSafe` | `SdInv`, `MrInv`, `PhInv`, `ApInv` |
| `HostProofs!EventFanoutSafety`, `TuiSafety` | `EfSafe`, `TuSafe` | `EfInv`, `TuInv` |

**Dispatcher**, for batches of any length, any classes and width, deadline or not. `Inv` is
`TypeOK` and five parts. `PlanInv` says the grouping built so far is consistent
(`SlotsAgree`: a key points at the chain that holds every call with it; `CallOrderKept`:
calls that share a key, and serial calls, are in one chain in call order). `QuietInv`:
nothing executes during preflight. `JobInv`: a call that left "idle" is a job whose
predecessors in its chain are done; only calls past their guards have started. `PermitInv`
and `LockInv`: a call past a guard holds what the guard acquired, and holders are bounded
and exclusive. Exclusion of serial calls needs to know who holds the lock, order of keyed
calls the shape of the chains.

`AccountsInv` is what the books need on top. `TaskInv`: a call inside `run_job` belongs to
a live task, a task is joined with all its results or a panic was seen. `ComputedInv`: a
call counts as executed only with the result it computed. `SlotInv`: every call is a job or
was refused. `NotifyInv`: `tool_finished` has fired once for the refused and the finished.
From it `AccountsSafety` follows phase by phase. `Refinement` maps each action to a step of
`ToolBatch` or to a stutter: a start needs the exclusion and order of `Inv`, an end only
the program counter.

The crux of the grouping is in `AddKeepsSlots` and `AddKeepsOrder`: adding a call, with
all merging and re-pointing, keeps `SlotsAgree` and `CallOrderKept`. `NoNeedlessChain`, the
converse, says that a chain is connected by keys: chains only merge at a call that has a
key of each. `Least` picks the least slot (`LeastInSet`), so no induction over data is
needed.

**Manager**, for any workers and sidekicks, any capacity, limits and number of turns. The
four parts of `ManagerInv` besides types: `QueueInv`, an entry of the queue is the only one
of a job that waits, and an ordinary job there is of the present generation, so whoever
gives up takes out its own entry; `SlotInv`, the count is that of the guards, which are
held only where a guard can be; `JobInv`, finitely many jobs are in the map and a running
sidekick is active; `UnbegunInv`, nobody but a reset reaches a sidekick before its first
turn. `retain` on the queue is `CommonLemmas!WithoutKeeps`: it removes just what it
should and keeps order and uniqueness, shown by the least index at which it would not.

**Inbox**, for any finite sets of workers and sidekicks (`FiniteAssumption`: its books
are sums over them), without TLC's bounds on replacements and limits (`CastSpec`):
workers, with conversations replaced at any moment and any number of times, or workers
and sidekicks in one conversation. (A replacement while a sidekick's report is under way
can let it into the new conversation, see section 6.) `InboxInv` relates manager and
inbox. `LedgerInv` is the core: for every spawn whose results still count, the
unacknowledged reservations cover what is on its way, in the inbox and with the parent,
what is about to be reported and the turn that runs (`Books`); a job reports once and a
sidekick once per turn (`NotesInv`); stamps are of a conversation and generation that
were (`StampInv`); what is reserved is within the capacity. `OnePlace`: a result is in
one place at a time, `Phases`: with the parent only during a drain, and `Fresh`: what
passed the filter is of the present conversation. The count of reservations is a sum
over the spawns; what a step adds to it is `CommonLemmas`' lemmas on sums over a finite
set.

**Conversation**, for any number of files, messages, steps, write errors and crashes.
`ConvInv` has, besides types, `Contexts`: how whole the context is at each point of the
loop (`AsWhole`: whole turns, or calls not yet answered while they are dispatched and after
a failure); `Recorder`: the file holds the first `cursor` messages of the context, all of
them after a sync and all but a turn or two before it (`InStep`), unless a torn line has
spoiled it for every reader; `Writes`: what is on file and what is still to be written make
up the new text, and the worker can go on whether the write ends or fails; `Files`: any
file that loads is a conversation cut off anywhere, which is why resuming is safe
(`WholeAgain`); `Lasting`: two lines ran together, or no line is garbage and the text once
in step is a prefix of the file. Two lines that ran together stay (`TogetherStays`) until
the file is rewritten, and a file with a bare last line is as good as a whole one until it
is appended to. `SyncStep` treats every sync at once: the recorder compares lengths, so it must never
be given a context that is as long as what is on file and begins differently.

That is the hypothesis, `CompactionsShrink`: in a long session an automatic compaction
replaces at least `Deliveries + 4` messages, so that what is left is shorter than what is
on file, whatever was said since the last sync. Without a long session it is true of the
code; with one the code asks for two messages only, and the run `session_compact` shows
the file then go wrong.

**Connections.** `McInv`: the lane has one holder at most, and it is the call in the
exchange, whether calls end themselves or are dropped. `SpInv`: an open question has no answer yet and is of a call that still needs one;
once stdin is closed none is open. `CaInv`: `CaMutex` (who renews holds its process's
mutex), `CaTokens` (a server that rotates tokens has at most one renewal on its way to the
file, until when nobody can present the newest token) and `CaCause` (a process that was
given the newest token knows it, is about to write it, or the token has gone bad).
`MgInv`: the queue holds the requests that wait, once each; who has the mutex is its head;
and the decision to enter stays right until the permit is counted. One assumption is
only about the model: no request or process of the login is called "free", which marks a
free mutex.

**Sandbox**, for any chunk, limit and amount of output, and without hypotheses. `SxInv`
has `SxErrSound`: what the wrapper wrote to standard error, frame included (`SxSaid`), is
what was delivered, what is held back and what is on the wire, in this order, as long as
no pump failed and the client did not break. The frame holds the only terminator there is,
so however reads split it, the marker is found in what is held back or is still to come,
and nothing after it is delivered. `SxCourse` says which processes may be alive at each
stage of the supervisor; with it the end of standard output means that all of it was read.

**Tools.** `PmInv` counts claims and listed children together, has the stages of a spawn
call and of its waiter side by side (`PmStages`), and says what each of them may still tell
the host (`PmTellings`). `ShInv`: which call still has a child (`ShChildOfCall`), and what
has been read so far; the end of a pipe means that nobody can write to it any more, child
or background process (`ShReadSoFar`).

**Interpreters.** `IpInv`: a call holds its session from the write of its code to the
read of its answer (`IpHeld`); code of a plain call in a REPL removes `tools` itself or
comes after code that left none, which is what the host's flag promises of the end of
the queue (`IpShielded`, `IpInstalledTrue`); a caller relies on the living interpreter, or
will hear (`IpHears`). `IpAnswers` is about whose output is whose although calls are
dropped between write and read: calls begin in turn (`IpTurns`), what an interpreter
executes and has written is in that order (`IpSorted`), and all of it is of the call that
reads, or there since a call was dropped on the same interpreter, and comes after
everything that was ever given out (`IpWork`).

**File tools.** `FtInv`: a version is one file's, and the version a path is stamped with,
wherever it is now, has a text that was read or written at that path, or is in `ftUnseen`
(`FtDiskInv`, `FtGuardInv`, `FtAllowed`); calls that spell paths alike and run share no
file (`FtExclusive`); each call, at each of its steps, still finds on disk what it saw
there, unless somebody else or a call under another spelling changed it (`FtSees`). The
third window of the stamps came out of the proof: a read takes the stat of `a`, `a` is
moved to `b`, a new `a` is read, `b` is moved back, and the stamp of a text nobody read
agrees with the disk (`core_tools/files.rs` 22-31, 265-301).

**Tool results**, for any ids, repeated or not, any results, budget and page sizes.
`TrRight` says what a store is after any number of operations: its account is the sum of
what it holds (`TrBooks`), which is within the budget, and its order of eviction is the end
of the log of what was ever stored, and not empty unless the log is. `TrInsertIs` shows that
an insertion keeps this: the order stays the end of the log (`TrWithoutIs`, `TrEndsAppend`,
`TrPopIs`), and the loop of evictions stops within the budget and before the newest entry
(`TrEvictIs`), as each turn shortens the order and an entry that alone exceeds the budget
is never stored. `TrInv` adds that the sidecar is what `save` writes of some store that was
right, and `TrPaging`: a caller that saw one text only has it up to `next`, and is
told to go on if and only if that is not the end. What is loaded is what was saved
(`TrLoadedIs`): the k-th insertion makes the store of the first k entries (`TrPart`), and
none of them evicts, since the whole was within the budget. The three loops (evicting,
loading, eliding) are functions of the turn, whose existence is `CommonLemmas!LoopExists`.

**Host.** `SdInv`: the session is on its own file at every moment and not only between
operations, a candidate file is another one and complete when adopted, and no other file is
ahead of the conversation shown. `MrInv`: an edit no pass has seen is still to be sent,
asked for or pending (`MrNoneLost`), and the connections are in line with the set of the
pass that runs, or ran last (`MrInLine`). Two assumptions: `MrOrder` has each server once,
as the saved map does, and a server that is not enabled lists no tools. `PhInv`: what a
process wrote was read or is in the pipe, and every hook so far said yes. `ApInv`: what is
known of a call on its way however the mode changes: the plan gate, the prompt and the
reviewer each let it pass in some mode it has met (`ApStanding`, `ApMet`). `TuInv`: the channels, the queue
and the worker hold the prompts in the order typed (`TuFifo`, `TuOrdered`), what is held
back waits for a reason (`TuHeldBack`), and the screen is the worker's run with what
is still in the channels applied to it (`TuScreen`).

**Event channel.** `EfInv` is two equations: what was emitted is what was read, what is
queued, what was dropped and what emitters have in hand; what was dropped is what marks
read, queued and in hand tell of, and the gap counter. The sums of a queue and of the
emitters come from `CommonLemmas`: the order in which a set is summed does not matter, and
what appending and taking the head do to a sum and a count.

**Only model-checked.** Liveness and everything under fairness: the prover has no `ENABLED`.
What most recursive definitions compute for every input: the library's induction needs an
operator for a parameter, so a loop is only within reach where one turn has an invariant
of its own, as in the store of tool results. Not proved are the algorithms of `TextTools`
and `Streams` (`TxExact`, `StFaithful`) and the engine `Dag`, whose settling of map stages
is a fold and whose waves are a recursive function; `WfSafe` and `ImplementsContract` of
`Workflow` speak of what that engine did. `ArShown` is about rows that are folds over
events.

## 5. Not modelled

The map covers about a ninth of the repository's Rust. What is left is mostly code whose
behaviour is text, layout or I/O: rendering, key handling, pickers and command tables of
the TUI, argument parsing, tool schemas and descriptions, request bodies and HTTP of the
providers, discovery and parsing of skills and plugins, SQL, examples and benchmarks.
Modelling it would restate it without a question to ask.

Components without a module:

- Memory (`extensions/src/memory.rs`): every operation is one SQLite transaction.
- Extension registry and policy: ordered lists of hooks, whose outcome the dispatcher and
  the loop take as a choice.
- Configuration, refine, headless host, update: files and one-shot passes.
- Skills, agent plugins, web tools: discovery, parsing, HTTP.

Within modelled components: foreground sidekick calls, adoption of sidekicks by a
rebuilt tool, the drop of the last manager handle; a host that drops the future of
`Session::run` (rearm is then skipped); `SessionHandler::reset` and `start_new`, which no
host calls; the text of summaries; a workflow's `status`, which changes nothing, and
panics of host callbacks inside `submit`; stdin of processes and sandbox processes; read
errors of the sandbox pipes; stderr of hooks and grandchildren that hold a hook's pipe; the
I/O gate, whose permits are never nested; byte budgets, nested agents and the mirror of
workflow stages in the agent rows; import of SDK sessions.

Rewriting a session file truncates the only copy first, so a crash at that point loses it:
the model shows it, and `Recoverable` exempts it, as the repository promises nothing
there. With resets in play `NoLostWakeup` fails: `CompletionInbox::reset` empties the inbox
before it clears the latch, and a result pushed in between is not announced
(`completions.rs` 165-172); it is checked of the behaviours without resets. A session left
before its first model call holds only its header, since the system prompt is recorded
with the first sync; resumed, it runs without one
(`cli/src/runtime/interactive.rs` 185-194).

## 6. Where code and documentation disagree

| Run | The code | The documentation |
|---|---|---|
| `session_compact` | `sync` compares lengths; a compaction of a short head with new messages behind it is taken for an append | "so file and cursor never disagree" (`extensions/src/session.rs` 265) |
| `session_bare` | `writeln!` writes a line and then its newline; a last line that lacks just that resumes without a warning, and the next append runs into it: the file cannot be loaded any more | "A crash loses at most the line being written" (`extensions/src/session.rs` 7) |
| `workflow_orphan` | a run cancelled between the booking of a stage and its admission leaves a worker that nobody cancels | "its workers are cancelled and the run settles as `Cancelled`" (`tools/src/workflow/host.rs` 175) |
| `results_elided` | compaction stores the cut text of a truncated result over its full original | "storing the full original under the call id" (`extensions/src/compact.rs` 143) |

Five more claims of the documentation are stated in the modules and named by no cfg. TLC
refutes each of them, within seconds, when it replaces the properties of the cfg given:

| Claim, cfg | The code | The documentation |
|---|---|---|
| `ShGroupDies`, `MCParts` | a call the dispatcher drops kills its direct child (`kill_on_drop`), not the group | "the whole process group is SIGKILLed so grandchildren die too" (`core_tools/shell.rs` 425-426) |
| `IpCancelRespawns`, `MCParts` | a kernel call the dispatcher drops leaves the kernel running; a later one may return its output | "so the kernel is killed (whole process group) and the next call respawns fresh" (`kernel.rs` 11-14) |
| `FtWritesSerialize`, `MCParts` | all tools but `edit_file` key on the path as written, so writes of `a` and `./a` run at once and one is lost | "two writes to the same file serialize" (`core_tools/files.rs` 1-4) |
| `McCancelCloses`, `MCPartsLive` | a call the dispatcher drops leaves its connection in use | "Cancellation or deadline expiry closes the connection" (`mcp/client.rs` 4-5) |
| `ApRevocationApplies`, `MCParts` | "always, and save" also enters the grants of the session, which a revocation leaves alone | "a revocation in /settings applies to the very next tool call" (`approval.rs` 60-62) |

The first, second and fourth have one cause: `guarded` watches the token that the tool
watches, is polled first, and drops the tool's future (`dispatcher.rs` 381-405). What the
code does promise in spite of it is what `ShSafe`, `IpSafe`, `FtSafe`, `McSafe` and `ApSafe`
say: the command itself dies with its call, a kernel gives no output twice or out of order,
calls that spell a path alike do not lose each other's work, a reply reaches the request it
answers, and a gated call runs only as a mode it met demands, or through a known window.

Observations made while modelling, which no run of the project asserts. The first group
is reached by the models, where a property names the exception or a bound is opened.

- Manager and inbox: `cancel_all` refuses the result of a job that had already finished but
  keeps its reservation until a reset (`manager.rs` 505, against 210). A sidekick's report
  checks liveness and then reads the generation; `clear` in between lets it into the new
  conversation (`host.rs` 640, against `lifecycle.rs` 77).
- Compaction (`MinHead` below `Deliveries + 4`): a file that was appended to where it had to
  be rewritten can hold results without their calls, and a resumed session shows them to
  the model; the loader repairs only calls without results at the end.
- Approvals: each of the three gates reads the mode anew. A call that skipped the prompt in
  auto runs unreviewed if the mode is normal by the time of `around_tool`
  (`ApLeftAuto`; `approval.rs` 84, `auto_approval.rs` 195), and a shell call that passed the
  plan gate runs on a prompt or a grant though orchestrate refuses it (`ApLateOrchestrate`).
- File tools: a change by another program between a write and its stamp is taken for the
  tool's own, as is a file renamed or copied between stat and read (`ftUnseen`), so that
  "seen" (`core_tools/files.rs` 37-39) may be untrue of a text that is overwritten.
- Shell: a normal answer leaves a background process running that closed its pipes.
- Agent rows: a sidekick is free before its completion is sent (`subagent/host.rs` 609-640),
  so the completion may be shown during the next task, whose row it ends (`arLate`).

The rest is outside what the models follow:

- Configuration: `mutate_root` reads, changes and rewrites the file without a lock, and a
  reader during the write sees an unparsable file and starts from nothing.
- Processes: a snapshot may say "exited" with output in flight; a kill during the settle
  time of a spawn re-arms its notification.
- Shell: standard output is read to its end before standard error, so a command that
  fills the pipe of standard error first stalls until its timeout.
- SDK session: `acquire` looks at `closed` before it takes the busy flag; `reset_in_place`
  returns on a failed save before it clears the tools.
- MCP client: a protocol error leaves the connection in use. Reload: a duplicate that was held back
  is not tried again when the server it lost to fails.
- TUI: a lone `!` queued during a run blocks the queue; a second approval request
  overwrites the first; a sidekick's late acknowledgement sets its row back to running.
- Python kernel: a call dropped in the middle of writing its frame leaves the kernel waiting
  for the rest, which it takes from the next call.
- Streams: an invalid frame discards the earlier frames of its chunk; index gaps yield
  a call without a name.
- Tool results: an original larger than the budget is not stored, and the hint to read it is
  given all the same.
- Codex login: a refresh whose answer is lost or not written loses the login; a device login
  during a refresh is overwritten.
- Plugin hooks: an input is written before any output is read, so a hook that answers first
  on a full pipe stalls until its timeout. Sandbox: a docker client that breaks while it
  drains loses output unnoticed.

## 7. Plan

Done: every component of section 2 is modelled and checked; dispatcher, grouping, manager,
inbox, conversation, connections, sandbox, processes, shell, interpreters, file tools,
tool results and the host's operations are proved.

What a further step would take: `ArShown` with its folds replaced by functions of the
turn, as was done for `ToolResults`; a contract for one run
of the engine as hypothesis, from which `WfSafe` follows without its recursion. `TxExact`
and `StFaithful` stay with TLC: they compare two recursions over the same text.
