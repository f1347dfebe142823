------------------------------ MODULE MCParts -------------------------------
(***************************************************************************)
(* The smaller components, checked side by side, but for those of          *)
(* MCPartsLive.  They share no state, so a run interleaving them would     *)
(* show nothing more than one run of each: `focus` picks the component     *)
(* whose steps a behaviour takes.                                          *)
(***************************************************************************)
EXTENDS GroupingSteps, OutBuf, Shell, EventFanout, SdkSession, Approvals,
        Interpreters, FileTools, TextTools, TuiRuns, Streams, CodexAuth,
        StdioApprovals, ToolResults, AgentRows, SandboxProcess,
        PluginHooks, McpReload

CONSTANTS ka, kb, kc, s1, s2, ba, bb, t1, t2, c1, c2, n1, n2, pa, pb

MCKeys == {ka, kb, kc}
MCSpawns == {s1, s2}
MCBytes == {ba, bb}
MCNeedle == <<ba, bb, ba>>
MCScripts == {<<>>, <<"out", "err", "out">>, <<"err", "err">>}
MCEmitters == {t1, t2}
MCCalls == {c1, c2}
MCPaths == <<pa, pb>>
MCAuthRequests == {c1, c2, t1}
MCAuthOwner == (c1 :> s1) @@ (c2 :> s1) @@ (t1 :> s2)
MCToolOf == (c1 :> "shell") @@ (c2 :> "shell") @@ (t1 :> "edit_file")
MCServers == <<n1, n2>>
MCPlugins == (n1 :> 0) @@ (n2 :> 3)
MCSameTool == {{<<n1, 1>>, <<n2, 1>>}, {<<n1, 1>>, <<n2, 3>>}}

VARIABLE focus

Parts ==
  {"grouping", "outbuf", "shell", "events", "session", "approvals",
   "interp", "files", "texts", "tui", "streams", "auth", "stdio",
   "results", "rows", "sandbox", "hooks", "reload"}

partVars ==
  <<focus, grVars, obVars, shVars, efVars, sdVars, apVars, ipVars, ftVars,
    txVars, tuVars, stVars, caVars, spVars, trVars, arVars, sxVars, phVars,
    mrVars>>

Init ==
  /\ focus \in Parts
  /\ GrInit
  /\ ObInit
  /\ ShInit
     /\ (focus # "shell" => shTodo = <<>>)
  /\ EfInit
  /\ SdInit
  /\ ApInit
     /\ (focus # "approvals" => apMode = "normal" /\ apWhat = [c \in ApCall |-> "shell"] /\ apSaved = {})
  /\ IpInit
     /\ (focus # "interp" => ipTool = "bun_repl")
  /\ FtInit
     /\ (focus # "files" => ftCalls = 0)
  /\ TxInit
     /\ (focus # "texts" => txTask = "segment")
  /\ TuInit
     /\ (focus # "tui" => tuPlan.on = FALSE)
  /\ StInit
     /\ (focus # "streams" => stReader = "lines")
  /\ CaInit
     /\ (focus # "auth" => ~caServer.rotates)
  /\ SpInit
     /\ (focus # "stdio" => spAdmit /\ spReadOnly)
  /\ TrInit
  /\ ArInit
     /\ (focus # "rows" => arKind = "oneshot")
  /\ SxInit
  /\ PhInit
     /\ (focus # "hooks" => phEvent = "notify")
  /\ MrInit
     /\ (focus # "reload" => mrSaved = MrNone)

(* The components a behaviour does not follow stay as they began.          *)
Still(part) ==
  /\ part # "grouping" => UNCHANGED grVars
  /\ part # "outbuf" => UNCHANGED obVars
  /\ part # "shell" => UNCHANGED shVars
  /\ part # "events" => UNCHANGED efVars
  /\ part # "session" => UNCHANGED sdVars
  /\ part # "approvals" => UNCHANGED apVars
  /\ part # "interp" => UNCHANGED ipVars
  /\ part # "files" => UNCHANGED ftVars
  /\ part # "texts" => UNCHANGED txVars
  /\ part # "tui" => UNCHANGED tuVars
  /\ part # "streams" => UNCHANGED stVars
  /\ part # "auth" => UNCHANGED caVars
  /\ part # "stdio" => UNCHANGED spVars
  /\ part # "results" => UNCHANGED trVars
  /\ part # "rows" => UNCHANGED arVars
  /\ part # "sandbox" => UNCHANGED sxVars
  /\ part # "hooks" => UNCHANGED phVars
  /\ part # "reload" => UNCHANGED mrVars

Next ==
  \/ focus = "grouping" /\ GrNext /\ Still("grouping") /\ UNCHANGED focus
  \/ focus = "outbuf" /\ ObNext /\ Still("outbuf") /\ UNCHANGED focus
  \/ focus = "shell" /\ ShNext /\ Still("shell") /\ UNCHANGED focus
  \/ focus = "events" /\ EfNext /\ Still("events") /\ UNCHANGED focus
  \/ focus = "session" /\ SdNext /\ Still("session") /\ UNCHANGED focus
  \/ focus = "approvals" /\ ApNext /\ Still("approvals") /\ UNCHANGED focus
  \/ focus = "interp" /\ IpNext /\ Still("interp") /\ UNCHANGED focus
  \/ focus = "files" /\ FtNext /\ Still("files") /\ UNCHANGED focus
  \/ focus = "texts" /\ TxNext /\ Still("texts") /\ UNCHANGED focus
  \/ focus = "tui" /\ TuNext /\ Still("tui") /\ UNCHANGED focus
  \/ focus = "streams" /\ StNext /\ Still("streams") /\ UNCHANGED focus
  \/ focus = "auth" /\ CaNext /\ Still("auth") /\ UNCHANGED focus
  \/ focus = "stdio" /\ SpNext /\ Still("stdio") /\ UNCHANGED focus
  \/ focus = "results" /\ TrNext /\ Still("results") /\ UNCHANGED focus
  \/ focus = "rows" /\ ArNext /\ Still("rows") /\ UNCHANGED focus
  \/ focus = "sandbox" /\ SxNext /\ Still("sandbox") /\ UNCHANGED focus
  \/ focus = "hooks" /\ PhNext /\ Still("hooks") /\ UNCHANGED focus
  \/ focus = "reload" /\ MrNext /\ Still("reload") /\ UNCHANGED focus

Spec == Init /\ [][Next]_partVars
=============================================================================
