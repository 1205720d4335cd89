---------------------------- MODULE AgentPatches ----------------------------
(* The patches that turn the upstream agent image into this project's       *)
(* (src/images/agent/patches/[0-9]*.py).  A source file is the set of the   *)
(* fragments some patch looks for or writes; a patch is a sequence of edits, *)
(* each one read, check and write of one file, and it is named for what its  *)
(* constants and messages call it.                                          *)
EXTENDS Naturals, Sequences, FiniteSets, TLC

(* One edit.  It is taken as applied when `seen` is in the file and `unseen` *)
(* is not; otherwise each fragment of `needs` must occur exactly as often as *)
(* the script expects, and the edit replaces them by `gives`.  `via` is the  *)
(* package through which the script finds the file: the namespace package    *)
(* that shadows `tools` hides every file found through it.                   *)
Edit(file, marker, needs, gives) ==
    [file |-> file, via |-> "path", seen |-> {marker}, unseen |-> {},
     needs |-> needs, gives |-> gives \cup {marker}]

Tool(file, marker, needs, gives) ==
    [Edit(file, marker, needs, gives) EXCEPT !.via = "tools"]

(* A replacement that is its own marker, looked for once the old text is    *)
(* gone.                                                                    *)
Swap(file, old, new) ==
    [Edit(file, new, {old}, {}) EXCEPT !.unseen = {old}]

(* A check of the result, made on every run.                                *)
Verify(file, fragments) ==
    [Edit(file, "never", fragments, fragments) EXCEPT !.gives = fragments]

(* A patch whose files are checked together before the first is written     *)
(* (`whole`), and one whose files are patched one after the other.           *)
Whole(edits)  == [whole |-> TRUE, edits |-> edits]
InTurn(edits) == [whole |-> FALSE, edits |-> edits]

-----------------------------------------------------------------------------
(* Removes a directory, so that what it looks for is its own marker.         *)
P0019 == InTurn(<<[file |-> "site-packages", via |-> "path", seen |-> {},
                   unseen |-> {"stray tools"}, needs |-> {"stray tools"}, gives |-> {}]>>)

P0004 == InTurn(<<Edit("adapters/hermes.py", "HERMES_HOME", {"default_db_path"}, {})>>)

(* The two edits of the adapter are two writes.  The last two entries are    *)
(* the checks of the functions they are in, after the edits; the smoke tests *)
(* of the script's end, which run the patched code, are left out.            *)
P0007 == InTurn(<<
    Swap("slack_sdk/proxy_env_variable_loader.py", "env proxy", "no env proxy"),
    Swap("slack/adapter.py", "aiohttp proxy", "slack aiohttp proxy"),
    Swap("slack/adapter.py", "media proxy", "slack media proxy"),
    [Swap("tools/send_message_tool.py", "target proxy", "slack target proxy")
        EXCEPT !.via = "tools"],
    Verify("slack/adapter.py", {"slack aiohttp proxy", "slack media proxy"}),
    [Verify("tools/send_message_tool.py", {"slack target proxy"}) EXCEPT !.via = "tools"]>>)

(* The marker of the first is a prefix of the marker of the second, and both *)
(* patch the same file, which they search by path where the import system    *)
(* does not find it.                                                         *)
ReadSilence     == "_read_pattern_silence"
ReadCodeSilence == "_read_pattern_silence_execute_code"
P0008 == InTurn(<<Edit("tools/approval.py", ReadSilence, {"dangerous command"}, {"command silence"})>>)
P0012 == InTurn(<<Edit("tools/approval.py", ReadCodeSilence, {"cron execute_code"},
                       {ReadSilence, "code silence"})>>)

ToolHandlerDef == "_make_tool_handler"
P0009 == InTurn(<<Tool("tools/mcp_tool.py", "per-backend breaker",
    {"call success", ToolHandlerDef, "call exception"},
    {"success resets", ToolHandlerDef, "breaker scope"})>>)

P0011 == InTurn(<<Tool("tools/web_tools.py", "0011",
    {"register web_extract", "check_web_api_key"}, {"check_web_extract_capability"})>>)

Pool == "anthropic pool entry"
Auxiliary0014 == Edit("agent/auxiliary_client.py", "0014", {"anthropic host"}, {})
Provider0014 == Edit("hermes_cli/runtime_provider.py", "override helper",
    {"override ok", Pool, "explicit runtime", "main body", "next def"},
    {"override ok", "pool override", "explicit override", "main override", "next def"})
P0014 == InTurn(<<Auxiliary0014, Provider0014>>)

P0016 == InTurn(<<Edit("agent/credential_pool.py", "0016", {"env base url"}, {}),
                  Edit("run_agent.py", "0016", {"runtime base"}, {})>>)

P0020 == InTurn(<<Edit("hermes_cli/runtime_provider.py", "0020",
    {"native fallback", "pool override", "loopback host", "opencode pool", "api key"},
    {"placeholder fallback", "placeholder pool", "loopback host", "opencode pool",
     "0020 OpenAI"})>>)

P0018 == InTurn(<<Tool("tools/registry.py", "0018", {"check_fn raised"}, {})>>)
P0022 == InTurn(<<Tool("tools/mcp_tool.py", "0022", {"parked interval"}, {})>>)
P0023 == InTurn(<<Tool("tools/mcp_tool.py", "threshold 15", {"threshold 3"}, {})>>)

P0025 == InTurn(<<Tool("tools/skill_manager_tool.py", "0025", {"read marks"}, {})>>)

P0027 == InTurn(<<Tool("tools/mcp_tool.py", "0027",
    {"park sites", "check_fn visibility", "call connected", "resource connected",
     "recoveries", "breaker scope", "deregister doc"},
    {"parked result", "breaker scope"})>>)
-----------------------------------------------------------------------------
EffortSignature == "effort signature"
EffortField     == "effort field"
EffortBuild     == "effort build"
EarlyEffort     == "early effort"
FinalEffort     == "final effort"
Footer0028 == Edit("gateway/runtime_footer.py", "0028",
    {"format signature", "cwd field", "build signature", "build call"},
    {EffortSignature, EffortField, EffortBuild})
Run0028 == Edit("gateway/run.py", "0028",
    {"early result", "final result", "footer call"},
    {EarlyEffort, FinalEffort, "effort footer call"})
P0028 == InTurn(<<Footer0028, Run0028>>)

Agent0030 == Edit("run_agent.py", "0030", {"mutation verifier"}, {})
Run0030 == Edit("gateway/run.py", "0030", {"memory notifications", "busy ack"}, {})
P0030 == InTurn(<<Agent0030, Run0030>>)

Model0034   == Edit("agentburn/model.py", "0034", {"ToolStat", "outcomes"}, {})
Adapter0034 == Edit("adapters/hermes.py", "0034", {"model import", "end reason"}, {})
Analyze0034 == Edit("agentburn/analyze.py", "0034", {"session totals"}, {})
P0034 == InTurn(<<Model0034, Adapter0034, Analyze0034>>)

(* Mutant: written against the call as upstream has it.                      *)
P0036Upstream == InTurn(<<Edit("gateway/run.py", "dm-only footer",
    {"footer call", "footer italics"}, {"dm footer call", "plain footer"})>>)

(* Rewrites, one level deeper, the call the effort field was added to.      *)
P0036 == InTurn(<<Edit("gateway/run.py", "dm-only footer",
    {"effort footer call", "footer italics"}, {"dm footer call", "plain footer"})>>)

P0037 == InTurn(<<Edit("agent/conversation_loop.py", "0037", {"local validation error"}, {}),
                  Edit("run_agent.py", "0037 part 2", {"stream parse error"}, {})>>)

Footer0039 == Edit("gateway/runtime_footer.py", "0039",
    {EffortSignature, EffortField, EffortBuild}, {"cost field"})
Run0039 == Edit("gateway/run.py", "0039",
    {"run_conversation", EarlyEffort, FinalEffort, "dm footer call"},
    {"cost snapshot", "early cost", "final cost", "cost footer call"})
P0039 == InTurn(<<Footer0039, Run0039>>)

P0040 == InTurn(<<Edit("custom/__init__.py", "0040", {"think field"}, {})>>)

Commands0041 == Edit("hermes_cli/commands.py", "0041", {"yolo command"}, {"chatter command"})
Run0041 == Edit("gateway/run.py", "0041",
    {"scoped state", "display helper", "yolo dispatch", "interim read"}, {"chatter dispatch"})
(* Mutant: looks for the marker of the other files, which it does not write. *)
Unmarked0041 == [Edit("gateway/slash_commands.py", "0041 slash", {"verbose handler"},
                      {"chatter handler"}) EXCEPT !.seen = {"0041"}]
Slash0041 == Edit("gateway/slash_commands.py", "0041 slash", {"verbose handler"},
    {"chatter handler", "verbose handler"})
Locale0041 == Edit("locales/en.yaml", "0041", {"yolo locale"}, {"chatter locale", "yolo locale"})
P0041 == InTurn(<<Commands0041, Run0041, Slash0041, Locale0041>>)

P0042 == InTurn(<<Edit("slack_sdk/socket_mode.py", "0042", {"sdk ping"}, {}),
                  Edit("slack/adapter.py", "0042", {"close_async"}, {})>>)
-----------------------------------------------------------------------------
(* Both price tables: the first is refused when upstream now has another     *)
(* rate for a model of this one, the second is derived from the first and    *)
(* appended.                                                                 *)
Rates == "no conflicting rate"
Usage0043     == Edit("agent/usage_pricing.py", "0043", {"price route", Rates}, {Rates})
Agentburn0043 == Edit("agentburn/prices.py", "0043", {}, {"derived rows"})
P0043 == InTurn(<<Usage0043, Agentburn0043>>)

P0044 == InTurn(<<Edit("hermes_cli/main.py", "dashboard and serve", {"agent commands"}, {})>>)
P0045 == InTurn(<<Edit("hermes_cli/hooks.py", "_print_entrypoint_coverage", {"problems"}, {})>>)

(* Mutant: the marker names the account.                                     *)
P0046Named == InTurn(<<Edit("stage2-hook.sh", "hermes migration", {"config migration"}, {})>>)

(* The marker leaves the name of the account open: 0052 renames it.          *)
P0046 == InTurn(<<Edit("stage2-hook.sh", "rootless migration", {"config migration"},
                       {"hermes migration"})>>)

P0047 == Whole(<<Edit("agent/agent_runtime_helpers.py", "0047",
                      {"cached prompt", "billing mode"}, {"prompt refresh"}),
                 Edit("hermes_state.py", "0047",
                      {"billing signature", "billing doc", "billing update"}, {})>>)

P0048 == InTurn(<<Edit("cron/lifecycle_guard.py", "0048",
    {"read script", "script text", "script missing"}, {"normalized script"})>>)

P0049 == InTurn(<<Edit("agent/shell_hooks.py", "0049", {"already allowlisted"}, {})>>)

(* Each replacement is its own marker, and an edit that is in is skipped.    *)
P0050 == InTurn(<<
    Edit("agent/prompt_builder.py", "orchestrator guidance", {"kanban guidance"},
         {"kanban guidance"}),
    Edit("agent/agent_init.py", "orchestrator init", {"kanban init"}, {}),
    Edit("agent/system_prompt.py", "orchestrator prompt",
         {"guidance import", "guidance fallback"}, {})>>)

Dispatch0051 == Edit("agent/tool_dispatch_helpers.py", "0051", {"parallel dispatch"}, {})
Gate0051 == Edit("tools/mcp_tool.py", "0051",
    {"MCPServerTask", "rpc lock", ToolHandlerDef, "call lock", "read lock", "prompt lock"},
    {"MCPServerTask", "rpc gate", ToolHandlerDef})
P0051 == Whole(<<Dispatch0051, Gate0051>>)

(* Every reference to the account of the container, in the scripts and in    *)
(* the manager that writes them, is renamed at once or not at all.           *)
Renamed(file) == [Edit(file, "agent account", {"hermes account"}, {})
                     EXCEPT !.unseen = {"hermes account"}]
Stage2 == [Renamed("stage2-hook.sh") EXCEPT !.needs = @ \cup {"hermes migration"}]
P0052 == Whole(<<Renamed("015-supervise-perms"), Renamed("02-reconcile-profiles"),
                 Renamed("hermes-exec-shim.sh"), Renamed("main-wrapper.sh"),
                 Renamed("dashboard/run"), Stage2, Renamed("service_manager.py")>>)

P0053 == InTurn(<<Edit("platforms/webhook.py", "0053",
    {"static routes", "route secret", "event type", "delivery id"}, {"trusted proxy"})>>)
-----------------------------------------------------------------------------
(* order.txt, and the scripts that lie next to it.                           *)
OrderTxt ==
    <<"0019", "0004", "0007", "0008", "0009", "0011", "0012", "0014", "0016", "0020",
      "0018", "0022", "0023", "0025", "0027", "0028", "0030", "0034", "0036", "0037",
      "0039", "0040", "0041", "0042", "0043", "0044", "0045", "0046", "0047", "0048",
      "0049", "0050", "0051", "0052", "0053">>

Scripts ==
    {"0004", "0007", "0008", "0009", "0011", "0012", "0014", "0016", "0018", "0019",
     "0020", "0022", "0023", "0025", "0027", "0028", "0030", "0034", "0036", "0037",
     "0039", "0040", "0041", "0042", "0043", "0044", "0045", "0046", "0047", "0048",
     "0049", "0050", "0051", "0052", "0053"}

Patch == [p \in Scripts |->
    CASE p = "0004" -> P0004 [] p = "0007" -> P0007 [] p = "0008" -> P0008
      [] p = "0009" -> P0009 [] p = "0011" -> P0011 [] p = "0012" -> P0012
      [] p = "0014" -> P0014 [] p = "0016" -> P0016 [] p = "0018" -> P0018
      [] p = "0019" -> P0019 [] p = "0020" -> P0020 [] p = "0022" -> P0022
      [] p = "0023" -> P0023 [] p = "0025" -> P0025 [] p = "0027" -> P0027
      [] p = "0028" -> P0028 [] p = "0030" -> P0030 [] p = "0034" -> P0034
      [] p = "0036" -> P0036 [] p = "0037" -> P0037 [] p = "0039" -> P0039
      [] p = "0040" -> P0040 [] p = "0041" -> P0041 [] p = "0042" -> P0042
      [] p = "0043" -> P0043 [] p = "0044" -> P0044 [] p = "0045" -> P0045
      [] p = "0046" -> P0046 [] p = "0047" -> P0047 [] p = "0048" -> P0048
      [] p = "0049" -> P0049 [] p = "0050" -> P0050 [] p = "0051" -> P0051
      [] p = "0052" -> P0052 [] p = "0053" -> P0053]
=============================================================================
