----------------------------- MODULE McpReload ------------------------------
(***************************************************************************)
(* The CLI's set of MCP servers (crates/cli/src/mcp.rs, runtime/           *)
(* mcp_reload.rs, the catalog of tool-extensions): the user edits the      *)
(* saved servers while a background pass brings the connections in line,   *)
(* one pass at a time, and the worker rebuilds the agent from what it      *)
(* published.                                                              *)
(*                                                                         *)
(* A server is a name and a launch; launch 0 is "not enabled".             *)
(***************************************************************************)
EXTENDS Naturals, Sequences, FiniteSets, Functions, Queues

CONSTANTS
  MrOrder,     \* the server names, in the order of the configuration
  MrLaunch,    \* the commands a user may save for a server
  MrPlugin,    \* the launch a plugin registers under each name, 0 for none
  MrClashes,   \* sets of <<name, launch>> that list a tool of the same name
  MrMaxEdits   \* bound of the model: edits the user makes

MrName == Range(MrOrder)

(* A name is configured once, and a server that is not enabled lists no    *)
(* tools.                                                                  *)
ASSUME MrAssumption ==
  /\ MrOrder \in Seq(MrName) /\ IsInjective(MrOrder)
  /\ \A pair \in MrClashes : \A server \in pair : server[2] # 0
  /\ IsFiniteSet(MrLaunch) /\ MrLaunch \subseteq Nat \ {0}
  /\ MrPlugin \in [MrName -> Nat] /\ MrMaxEdits \in Nat

VARIABLES
  mrSaved,     \* the configuration file
  mrUnsent,    \* the user's edit is saved, ReloadMcp not yet sent
  mrQueue,     \* the worker's commands
  mrTask,      \* McpReload::task and how far its pass is
  mrPending,   \* McpReload::pending
  mrWanted,    \* `desired` of the pass in progress
  mrTodo,      \* servers it has yet to publish
  mrDesired,   \* McpServers::desired
  mrConn,      \* McpServers::connections: launch and error, launch 0: none
  mrCatalog,   \* McpCatalog: launch of each connected server
  mrHealthy,   \* its client's `healthy`
  mrAgent,     \* the catalog the agent was built from
  mrEdits      \* edits so far

mrVars == <<mrSaved, mrUnsent, mrQueue, mrTask, mrPending, mrWanted, mrTodo,
            mrDesired, mrConn, mrCatalog, mrHealthy, mrAgent, mrEdits>>

MrNone == [n \in MrName |-> 0]
MrAbsent == [launch |-> 0, error |-> "none"]

(* The worker's first command asks for a pass (interactive.rs).            *)
MrInit ==
  /\ mrSaved \in [MrName -> {0} \cup MrLaunch]
  /\ mrUnsent = FALSE /\ mrQueue = <<"reload">>
  /\ mrTask = "none" /\ mrPending = FALSE
  /\ mrWanted = MrNone /\ mrTodo = <<>> /\ mrDesired = MrNone
  /\ mrConn = [n \in MrName |-> MrAbsent]
  /\ mrCatalog = MrNone /\ mrHealthy = [n \in MrName |-> TRUE]
  /\ mrAgent = MrNone /\ mrEdits = 0

(* /mcp add, edit, toggle, remove: the file first, then the command.       *)
MrSave(n, launch) ==
  /\ ~mrUnsent /\ mrEdits < MrMaxEdits /\ mrSaved[n] # launch
  /\ mrSaved' = [mrSaved EXCEPT ![n] = launch]
  /\ mrUnsent' = TRUE /\ mrEdits' = mrEdits + 1
  /\ UNCHANGED <<mrQueue, mrTask, mrPending, mrWanted, mrTodo, mrDesired, mrConn,
                 mrCatalog, mrHealthy, mrAgent>>
MrSend ==
  /\ mrUnsent /\ mrUnsent' = FALSE
  /\ mrQueue' = Append(mrQueue, "reload")
  /\ UNCHANGED <<mrSaved, mrTask, mrPending, mrWanted, mrTodo, mrDesired, mrConn,
                 mrCatalog, mrHealthy, mrAgent, mrEdits>>

(* McpReload::request: a pass in progress is asked to be followed by one.  *)
MrRequest ==
  /\ mrQueue # <<>> /\ Head(mrQueue) = "reload"
  /\ mrQueue' = Tail(mrQueue)
  /\ IF mrTask = "none" THEN mrTask' = "begun" /\ UNCHANGED mrPending
     ELSE mrPending' = TRUE /\ UNCHANGED mrTask
  /\ UNCHANGED <<mrSaved, mrUnsent, mrWanted, mrTodo, mrDesired, mrConn, mrCatalog,
                 mrHealthy, mrAgent, mrEdits>>

(* desired_servers: a plugin's server gives way to a saved one.            *)
MrDesiredServers ==
  [n \in MrName |-> IF mrSaved[n] # 0 THEN mrSaved[n] ELSE MrPlugin[n]]

(* A name held back as duplicate may be free once the set changed.         *)
MrRetries(changed, n) == changed /\ mrConn[n].error = "duplicate"

MrStale(wanted) ==
  {n \in MrName :
     /\ mrConn[n].launch # 0
     /\ \/ mrConn[n].launch # wanted[n]
        \/ mrConn[n].error = "none" /\ ~mrHealthy[n]
        \/ MrRetries(wanted # mrDesired, n)}

(* reload_with_timeout up to its first await: read, and drop the stale.    *)
MrPassBegins ==
  LET wanted == MrDesiredServers
      stale == MrStale(wanted)
      conn == [n \in MrName |-> IF n \in stale THEN MrAbsent ELSE mrConn[n]]
  IN
  /\ mrTask = "begun" /\ mrTask' = "connecting"
  /\ mrWanted' = wanted
  /\ mrConn' = conn
  /\ mrCatalog' = [n \in MrName |-> IF n \in stale THEN 0 ELSE mrCatalog[n]]
  /\ mrTodo' = Without(MrOrder, {n \in MrName : wanted[n] = 0 \/ conn[n].launch # 0})
  /\ UNCHANGED <<mrSaved, mrUnsent, mrQueue, mrPending, mrDesired, mrHealthy,
                 mrAgent, mrEdits>>

(* McpCatalog::insert refuses a tool name another server has.              *)
MrDuplicate(n) ==
  \E m \in MrName \ {n} :
    {<<n, mrWanted[n]>>, <<m, mrCatalog[m]>>} \in MrClashes

(* The next launch in configured order ends: connected, refused as a       *)
(* duplicate, failed or timed out.                                         *)
MrPublish(connected) ==
  LET n == Head(mrTodo)
      joins == connected /\ ~MrDuplicate(n)
      error == IF joins THEN "none" ELSE IF connected THEN "duplicate" ELSE "failed"
  IN
  /\ mrTask = "connecting" /\ mrTodo # <<>>
  /\ mrTodo' = Tail(mrTodo)
  /\ mrConn' = [mrConn EXCEPT ![n] = [launch |-> mrWanted[n], error |-> error]]
  /\ mrCatalog' = IF joins THEN [mrCatalog EXCEPT ![n] = mrWanted[n]] ELSE mrCatalog
  /\ mrHealthy' = IF joins THEN [mrHealthy EXCEPT ![n] = TRUE] ELSE mrHealthy
  /\ UNCHANGED <<mrSaved, mrUnsent, mrQueue, mrTask, mrPending, mrWanted,
                 mrDesired, mrAgent, mrEdits>>

MrPassEnds ==
  /\ mrTask = "connecting" /\ mrTodo = <<>>
  /\ mrTask' = "done"
  /\ mrDesired' = mrWanted
  /\ mrQueue' = Append(mrQueue, "reloaded")
  /\ UNCHANGED <<mrSaved, mrUnsent, mrPending, mrWanted, mrTodo, mrConn, mrCatalog,
                 mrHealthy, mrAgent, mrEdits>>

(* mutation: what was asked for during the pass is forgotten. *)
MrAgainNever == FALSE
(* McpReload::finish                                                       *)
MrAgain == mrPending

(* WorkerCmd::McpReloaded: rebuild the agent, and go again if asked.       *)
MrFinish ==
  /\ mrQueue # <<>> /\ Head(mrQueue) = "reloaded"
  /\ mrQueue' = Tail(mrQueue)
  /\ mrAgent' = mrCatalog
  /\ mrPending' = FALSE
  /\ mrTask' = IF MrAgain THEN "begun" ELSE "none"
  /\ UNCHANGED <<mrSaved, mrUnsent, mrWanted, mrTodo, mrDesired, mrConn, mrCatalog,
                 mrHealthy, mrEdits>>

(* An interrupted request closed the connection (McpClient).               *)
MrBreaks(n) ==
  /\ mrCatalog[n] # 0 /\ mrHealthy[n]
  /\ mrHealthy' = [mrHealthy EXCEPT ![n] = FALSE]
  /\ UNCHANGED <<mrSaved, mrUnsent, mrQueue, mrTask, mrPending, mrWanted, mrTodo,
                 mrDesired, mrConn, mrCatalog, mrAgent, mrEdits>>

MrNext ==
  \/ \E n \in MrName : MrBreaks(n) \/ \E l \in {0} \cup MrLaunch : MrSave(n, l)
  \/ MrSend \/ MrRequest \/ MrPassBegins \/ MrPassEnds \/ MrFinish
  \/ \E connected \in BOOLEAN : MrPublish(connected)

MrSpec == MrInit /\ [][MrNext]_mrVars

-----------------------------------------------------------------------------
(* Nothing is left to do.                                                  *)
MrQuiet == ~mrUnsent /\ mrQueue = <<>> /\ mrTask = "none"

(* Edits made at any moment of a pass arrive: when nothing is left to do,  *)
(* the servers tried are exactly the saved and registered ones, each with  *)
(* its present launch, the catalog holds those that connected, and the     *)
(* agent was built from that catalog.                                      *)
MrSettled ==
  MrQuiet => /\ \A n \in MrName : mrConn[n].launch = MrDesiredServers[n]
             /\ mrAgent = mrCatalog

(* At every moment, also in the middle of a pass, the catalog agrees with  *)
(* the connections, and no two of its servers list the same tool name.     *)
MrCatalogAgrees ==
  /\ \A n \in MrName :
       mrCatalog[n] = IF mrConn[n].error = "none" THEN mrConn[n].launch ELSE 0
  /\ \A m, n \in MrName :
       m # n => {<<m, mrCatalog[m]>>, <<n, mrCatalog[n]>>} \notin MrClashes

(* A server held back because of a tool name is so because of one that is  *)
(* still wanted, never because of one the user has since removed.          *)
MrHeldBackForCause ==
  MrQuiet =>
    \A n \in MrName : mrConn[n].error = "duplicate" =>
      \E m \in MrName \ {n} :
        {<<n, mrConn[n].launch>>, <<m, MrDesiredServers[m]>>} \in MrClashes

(***************************************************************************)
(* Edits at any moment of a reload end in the servers that are wanted, and *)
(* the catalog is consistent all along.                                    *)
(***************************************************************************)
MrSafe == MrSettled /\ MrCatalogAgrees /\ MrHeldBackForCause
=============================================================================
