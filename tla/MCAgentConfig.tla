---- MODULE MCAgentConfig ----
EXTENDS AgentConfig

\* A catalog entry and a route.
Entry(p) == (<<"providers", p, "api">> :> p) @@ (<<"providers", p, "transport">> :> "chat")
Route(at, p, m) ==
    (Append(at, "provider") :> p)
        @@ (Append(at, IF at = <<"model">> THEN "default" ELSE "model") :> m)

Defaults(p, m) == Route(<<"model">>, p, m) @@ Route(<<"delegation">>, p, m)
                      @@ Route(<<"auxiliary", "vision">>, p, m)

MCKinds == {"hermes", "claude-marketplaces", "codex"}

MCCharts == [k \in MCKinds |->
    CASE k = "hermes" ->
            { Entry("a") @@ Entry("b") @@ Defaults("a", "m1") @@ (<<"hooks">> :> Empty)
                  @@ (<<"agent", "max_turns">> :> "150") @@ (<<"approvals", "mode">> :> "auto")
                  @@ (<<"approvals", "timeout">> :> "60"),
              Entry("b") @@ Defaults("b", "m2") @@ (<<"agent", "max_turns">> :> "90") }
      [] k = "claude-marketplaces" ->
            { <<"vicegerent", "path">> :> "v1",
              (<<"vicegerent", "source">> :> "v2") @@ (<<"other", "path">> :> "v2") }
      [] k = "codex" ->
            { (<<"model_provider">> :> "a") @@ (<<"projects", "/workspace", "trust_level">> :> "yes")
                  @@ (<<"features", "respect_system_proxy">> :> "on")
                  @@ (<<"features", "other">> :> "on"),
              (<<"mcp_servers">> :> Empty)
                  @@ (<<"projects", "/workspace", "trust_level">> :> "yes") } ]

MCEdits == [k \in MCKinds |->
    CASE k = "hermes" ->
            { Route(<<"model">>, "b", "m3"), Route(<<"auxiliary", "vision">>, "a", "m4"),
              <<"hooks", "stale">> :> "x", <<"approvals", "destructive">> :> "no",
              <<"approvals">> :> "odd",
              <<"agent", "system_prompt">> :> "mine", <<"providers", "rogue", "api">> :> "r" }
      [] k = "claude-marketplaces" ->
            { <<"vicegerent">> :> "x", <<"user", "path">> :> "u", <<"vicegerent", "extra">> :> "x" }
      [] k = "codex" ->
            { <<"features", "mine">> :> "on", <<"features">> :> "odd",
              <<"projects", "/workspace">> :> "odd", <<"projects", "/workspace", "trust_level">> :> "no",
              <<"projects", "/mine", "trust_level">> :> "no", <<"mcp_servers", "old", "url">> :> "x" } ]
====
