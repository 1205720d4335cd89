----------------------------- MODULE AgentConfig -----------------------------
(***************************************************************************)
(* The configuration of an agent's harnesses on its data volume, and what  *)
(* charts/agent/files/reconcile-config.py makes of it each time the pod    *)
(* starts: the sections the project owns are taken from the chart, the     *)
(* rest stays as the harness or its user left it.                          *)
(*                                                                         *)
(* A configuration is the set of its leaves: a function from key paths to  *)
(* scalars (a list counts as one), where the leaf Empty stands for a       *)
(* mapping without keys and no path extends another.                       *)
(***************************************************************************)
EXTENDS Naturals, Sequences, SequencesExt, FiniteSets, TLC

CONSTANTS
    Kinds,      \* the harness configurations explored
    Charts,     \* [Kinds -> the configurations releases of the chart render]
    Edits,      \* [Kinds -> configurations merged in by the running harness]
    Empty,      \* a mapping without keys
    Null,       \* what dict.get returns for a key that is not there
    Absent,     \* no such file
    Torn        \* a file that does not parse

ASSUME FileAssumption == Absent # Torn

\* A file has finitely many leaves, each at a sequence of keys.
IsPath(p) == p \in Seq(Range(p))
IsConfig(m) == IsFiniteSet(DOMAIN m) /\ \A p \in DOMAIN m : IsPath(p)

ASSUME ConfigsAssumption == \A k \in Kinds : \A c \in Charts[k] \union Edits[k] : IsConfig(c)

-----------------------------------------------------------------------------
(* Key paths.                                                              *)

At(m, p) == {q \in DOMAIN m : IsPrefix(p, q)}
Has(m, p) == At(m, p) # {}
IsMapping(m, p) == \E q \in At(m, p) : q # p \/ m[q] = Empty
Keys(m, p) == {q[Len(p) + 1] : q \in At(m, p) \ {p}}
Get(m, p) == IF p \in DOMAIN m THEN m[p] ELSE Null
NoConfig == [p \in {} |-> Null]

\* Leaves of n at the paths ps take the place of everything at, below or above them in m.
Graft(m, n, ps) ==
    LET new  == UNION {At(n, p) : p \in ps}
        kept == {q \in DOMAIN m : \A p \in ps : ~IsPrefix(p, q) /\ ~IsPrefix(q, p)}
    IN  [q \in kept \union new |-> IF q \in new THEN n[q] ELSE m[q]]

set_path(m, p, v) == Graft(m, [q \in {p} |-> v], {p})

\* A parent that loses its last key stays, as an empty mapping.
delete_path(m, p) ==
    LET left   == DOMAIN m \ At(m, p)
        bare   == {q \in {Front(p)} : /\ q # <<>> /\ Has(m, p)
                                      /\ \A r \in left : ~IsPrefix(q, r)}
    IN  [q \in left \union bare |-> IF q \in bare THEN Empty ELSE m[q]]

(* Mutant: a section the chart has dropped is left in place.               *)
OverlayOnly(m, d, p) == IF Has(d, p) THEN Graft(m, d, {p}) ELSE m

replace_path(m, d, p) == IF Has(d, p) THEN Graft(m, d, {p}) ELSE delete_path(m, p)

\* override wins leaf by leaf; an empty mapping of it does not clear one of base.
deep_merge(base, override) ==
    LET hidden == {q \in DOMAIN base : \E p \in DOMAIN override :
                      \/ IsPrefix(q, p)
                      \/ IsPrefix(p, q) /\ override[p] # Empty}
        taken  == {p \in DOMAIN override :
                      \/ override[p] # Empty
                      \/ \A q \in DOMAIN base : ~IsStrictPrefix(p, q)}
    IN  [q \in (DOMAIN base \ hidden) \union taken |->
            IF q \in taken THEN override[q] ELSE base[q]]

\* The mapping at p becomes the desired one, but for the leaves the harness may set.
preserve_mapping_leaves(m, d, e, p, leaves) ==
    Graft(Graft(m, d, {p}), e, {k \in {Append(p, l) : l \in leaves} : Has(e, k)})

-----------------------------------------------------------------------------
(* Routes: a provider, a model and the connection copied from the catalog. *)

FieldOf == [base_url |-> "api", key_env |-> "key_env", api_mode |-> "transport"]

(* Mutants: a route that falls back keeps its model; it gets its           *)
(* connection only at the next start.                                      *)
FallBackOnProvider(m, d, p, default) ==
    LET provider == IF Get(m, Append(p, "provider")) \in Keys(m, <<"providers">>)
                    THEN m[Append(p, "provider")] ELSE Get(d, Append(p, "provider"))
        fields   == [q \in {Append(p, f) : f \in DOMAIN FieldOf} |->
                        Get(m, <<"providers", provider, FieldOf[Last(q)]>>)]
    IN  Graft(set_path(m, Append(p, "provider"), provider), fields, DOMAIN fields)

FallBackAndReturn(m, d, p, default) ==
    IF Get(m, Append(p, "provider")) \in Keys(m, <<"providers">>)
    THEN FallBackOnProvider(m, d, p, default)
    ELSE Graft(m, d, {k \in {Append(p, l) : l \in {"provider", "default", "model"}} : Has(d, k)})

reconcile_route(m, d, p, default) ==
    LET wanted   == IF Has(m, Append(p, "provider")) THEN m[Append(p, "provider")] ELSE default
        known    == wanted \in Keys(m, <<"providers">>)
        provider == IF known THEN wanted
                    ELSE IF Has(d, Append(p, "provider")) THEN d[Append(p, "provider")]
                    ELSE default
        named    == set_path(IF known THEN m
                             ELSE Graft(m, d, {k \in {Append(p, "default"), Append(p, "model")} :
                                                  Has(d, k)}),
                             Append(p, "provider"), provider)
        fields   == [q \in {Append(p, f) : f \in DOMAIN FieldOf} |->
                        Get(m, <<"providers", provider, FieldOf[Last(q)]>>)]
    IN  IF ~IsMapping(m, <<"providers", provider>>)
        THEN IF known THEN m ELSE named
        ELSE Graft(named, fields, DOMAIN fields)

\* The sections of each harness's configuration that belong to the project.
Owned(kind, d) ==
    CASE kind = "hermes" ->
            << <<"providers">>, <<"model_catalog">>, <<"model_aliases">>, <<"moa">>,
               <<"fallback_providers">>, <<"hooks">>, <<"platform_toolsets">>,
               <<"platforms", "webhook">>, <<"kanban">>, <<"mcp_servers">>, <<"toolsets">>,
               <<"command_allowlist">>, <<"approvals", "mode">>, <<"hooks_auto_accept">>,
               <<"custom_providers">>, <<"plugins">>, <<"slack">> >>
      [] kind = "claude-settings" ->
            << <<"env">>, <<"permissions">>, <<"sandbox">>,
               <<"enableAllProjectMcpServers">>, <<"skipDangerousModePermissionPrompt">> >>
      [] kind = "claude-marketplaces" -> SetToSeq({<<k>> : k \in Keys(d, <<>>)})
      [] kind = "claude-state" -> << <<"mcpServers">> >>
      [] kind = "codex" ->
            << <<"model_provider">>, <<"model_providers">>, <<"mcp_servers">>, <<"web_search">>,
               <<"developer_instructions">>, <<"sandbox_mode">>, <<"approval_policy">>,
               <<"features", "respect_system_proxy">> >>
      [] kind = "opencode" ->
            << <<"$schema">>, <<"provider">>, <<"mcp">>, <<"permission">>, <<"lsp">> >>
      [] OTHER -> <<>>

\* One leaf of every entry of a collection is the project's; the others are not.
force_desired_mapping_leaves(m, d, collection, leaf) ==
    Graft(m, d, {p \in {<<collection, k, leaf>> : k \in Keys(d, <<collection>>)} : Has(d, p)})

Aux(d) == {<<"auxiliary", k>> : k \in Keys(d, <<"auxiliary">>)}

preserve_choices(m, d, e) ==
    LET agent == IF IsMapping(d, <<"agent">>)
                 THEN preserve_mapping_leaves(m, d, e, <<"agent">>,
                          {"reasoning_effort", "service_tier", "system_prompt"})
                 ELSE m
        both(n, p, leaves) == IF IsMapping(d, p) /\ IsMapping(e, p)
                              THEN preserve_mapping_leaves(n, d, e, p, leaves) ELSE n
        model == both(agent, <<"model">>,
                      {"default", "provider", "context_length", "persist_switch_by_default"})
        deleg == both(model, <<"delegation">>, {"model", "provider", "context_length"})
        kept  == {k \in {Append(p, l) : p \in {q \in Aux(d) : IsMapping(d, q)},
                                        l \in {"model", "provider", "context_length"}} : Has(e, k)}
    IN  IF IsMapping(d, <<"auxiliary">>)
        THEN Graft(Graft(deleg, d, {<<"auxiliary">>}), e, kept)
        ELSE deleg

reconcile_hermes(e, d) ==
    LET owned  == FoldLeft(LAMBDA m, p : replace_path(m, d, p), deep_merge(d, e),
                           Owned("hermes", d))
        chosen == preserve_choices(owned, d, e)
        first  == IF Has(d, <<"model", "provider">>) THEN d[<<"model", "provider">>]
                  ELSE "anthropic"
        model  == reconcile_route(chosen, d, <<"model">>, first)
        main   == IF Has(model, <<"model", "provider">>) THEN model[<<"model", "provider">>]
                  ELSE first
        routes == SetToSeq({p \in {<<"delegation">>} \union Aux(model) :
                               IsMapping(model, p) /\ (p = <<"delegation">> => IsMapping(d, p))})
    IN  IF \A p \in {<<"providers">>, <<"model">>} : IsMapping(chosen, p) /\ IsMapping(d, p)
        THEN FoldLeft(LAMBDA m, p : reconcile_route(m, d, p, main), model, routes)
        ELSE chosen

Reconcile(kind, e, d) ==
    LET owned == FoldLeft(LAMBDA m, p : replace_path(m, d, p), deep_merge(d, e), Owned(kind, d))
    IN  CASE kind = "hermes"       -> reconcile_hermes(e, d)
          [] kind = "claude-state" ->
                force_desired_mapping_leaves(owned, d, "projects", "hasTrustDialogAccepted")
          [] kind = "codex"        -> force_desired_mapping_leaves(owned, d, "projects", "trust_level")
          [] OTHER                 -> owned

-----------------------------------------------------------------------------
(* The pod: its init container reconciles, then the harness runs.          *)

VARIABLES
    kind,       \* which harness's configuration this is
    desired,    \* what the installed release of the chart renders
    existing,   \* the configuration on the data volume
    temporary,  \* what write_atomic has written next to it, or Absent
    phase       \* "init", "writing" or "running"

configVars == <<kind, desired, existing, temporary, phase>>

ConfigInit ==
    /\ kind \in Kinds
    /\ desired \in Charts[kind]
    /\ existing = Absent
    /\ temporary = Absent
    /\ phase = "init"

\* The init container removes an empty Hermes configuration first.
Unseeded == existing = Absent \/ (kind = "hermes" /\ existing = NoConfig)

\* load_config gives a mapping, the empty one for an empty file, or raises.
Loads == ~Unseeded /\ existing # Torn

\* No configuration yet: the chart's is copied, in place.
Seed ==
    /\ phase = "init" /\ Unseeded
    /\ existing' = desired
    /\ phase' = "running"
    /\ UNCHANGED <<kind, desired, temporary>>

\* load_config, the reconciler of this kind and the write of the temporary file. A file
\* that does not parse makes it raise: the container fails and nothing changes.
Write ==
    /\ phase = "init" /\ Loads
    /\ temporary' = Reconcile(kind, existing, desired)
    /\ phase' = "writing"
    /\ UNCHANGED <<kind, desired, existing>>

\* os.replace of the complete temporary file.
Install ==
    /\ phase = "writing"
    /\ existing' = temporary
    /\ temporary' = Absent
    /\ phase' = "running"
    /\ UNCHANGED <<kind, desired>>

\* The container dies while it works: the copy of a first start is cut short, or the
\* temporary file is left behind.
Crash ==
    /\ \/ phase = "init" /\ Unseeded /\ existing' \in {NoConfig, Torn} /\ UNCHANGED temporary
       \/ phase = "writing" /\ UNCHANGED <<existing, temporary>>
    /\ phase' = "init"
    /\ UNCHANGED <<kind, desired>>

\* The harness saves a preference, or its user edits the file.
Edit ==
    /\ phase = "running"
    /\ \E e \in Edits[kind] : existing' = deep_merge(existing, e)
    /\ UNCHANGED <<kind, desired, temporary, phase>>

\* The pod is restarted, with the same release of the chart or another one.
Restart ==
    /\ phase = "running"
    /\ desired' \in Charts[kind]
    /\ phase' = "init"
    /\ UNCHANGED <<kind, existing, temporary>>

ConfigNext == Seed \/ Write \/ Install \/ Crash \/ Edit \/ Restart

ConfigSpec == ConfigInit /\ [][ConfigNext]_configVars

-----------------------------------------------------------------------------
Same(m, n, p) == At(m, p) = At(n, p) /\ \A q \in At(m, p) : m[q] = n[q]
Routes(m) == {p \in {<<"model">>, <<"delegation">>} \union Aux(m) : IsMapping(m, p)}
ProviderKey(p) == Append(p, "provider")
ModelKey(p) == Append(p, IF p = <<"model">> THEN "default" ELSE "model")
ModelOf(m, p) == Get(m, ModelKey(p))
ProviderOf(m, p) == Get(m, ProviderKey(p))

\* A route names its provider and its model, or neither; both are scalars.
Whole(m) ==
    \A p \in {<<"model">>, <<"delegation">>} \union Aux(m) :
        LET keys == {ProviderKey(p), ModelKey(p)}
        IN  \/ \A k \in keys : At(m, k) = {}
            \/ \A k \in keys : At(m, k) = {k}

\* A chart names a provider and a model for every route, of a catalog of its own
\* (vicegerent-agent.defaultConfig; renderedConfig refuses a provider that is not enabled).
RendersRoutes(d) ==
    /\ Whole(d)
    /\ \A s \in {"model", "delegation", "auxiliary"} : IsMapping(d, <<s>>)
    /\ \A p \in Routes(d) : ProviderOf(d, p) \in Keys(d, <<"providers">>)
    /\ \A k \in Keys(d, <<"providers">>) : k # Null /\ IsMapping(d, <<"providers", k>>)

\* An edit of the harness chooses the two together, and leaves the mapping of the main model.
ChoosesWhole(e) ==
    /\ Whole(e)
    /\ \A q \in {<<>>, <<"model">>} \intersect DOMAIN e : e[q] = Empty

ASSUME HermesAssumption ==
    "hermes" \in Kinds => /\ \A d \in Charts["hermes"] : RendersRoutes(d)
                         /\ \A e \in Edits["hermes"] : ChoosesWhole(e)

(* What makes OwnedIsExact inductive: what was written next to the file    *)
(* is what the reconciler made of that file, which nobody touches before   *)
(* it is installed.                                                        *)
ConfigInv ==
    /\ kind \in Kinds /\ desired \in Charts[kind]
    /\ existing \in {Absent, Torn} \/ IsConfig(existing)
    /\ phase = "running" => IsConfig(existing)
    /\ phase = "writing" => IsConfig(existing) /\ temporary = Reconcile(kind, existing, desired)

(* What RoutesHold rests on: in every file that is read, a route is whole   *)
(* and the main model is chosen.                                           *)
RouteConfig(m) == Whole(m) /\ <<"model", "provider">> \in DOMAIN m

RouteInv ==
    kind = "hermes" =>
        /\ existing \in {Absent, Torn, NoConfig} \/ RouteConfig(existing)
        /\ phase # "init" => RouteConfig(existing)

(* Whatever the harness or its user did to the file, the reconciler        *)
(* installs every section the project owns exactly as the chart renders it *)
(* and drops one the chart no longer has (reconcile_hermes and its         *)
(* siblings; docs/design.md: "reconciles project-owned subtrees exactly"). *)
OwnedIsExact ==
    [][Install => \A i \in DOMAIN Owned(kind, desired) :
                     Same(existing', desired, Owned(kind, desired)[i])]_configVars

\* A mapping of which the project owns a part only.
PartlyOwned(p) ==
    /\ p # <<>>
    /\ \/ \E i \in DOMAIN Owned(kind, desired) : IsStrictPrefix(p, Owned(kind, desired)[i])
       \/ kind \in {"claude-state", "codex"} /\ p[1] = "projects" /\ Len(p) <= 2

LeavesMappings(m) == \A p \in DOMAIN m : PartlyOwned(p) => m[p] = Empty

(* What a start installed, a second start with nothing changed in between  *)
(* leaves alone: the routes it completed and the choices it preserved are  *)
(* a fixed point of the reconciler. The exception is a file in which a     *)
(* scalar (in YAML, a key without a value) stands for a mapping the        *)
(* project owns a part of: replace_path gives the mapping back with that   *)
(* part only, the chart's other keys of it come back at the second start,  *)
(* and that one's result is the fixed point.                               *)
StableOnceInstalled ==
    [][Install =>
          LET again == Reconcile(kind, existing', desired)
          IN  \/ again = existing'
              \/ /\ ~LeavesMappings(existing)
                 /\ Reconcile(kind, again, desired) = again]_configVars

(* Every route Hermes has after a start names a provider of the catalog    *)
(* and carries that provider's connection, and the route is chosen whole:  *)
(* provider and model are both the ones the file had, as long as the       *)
(* catalog has that provider, and both the chart's otherwise, so a model   *)
(* never ends up with the provider of another (reconcile_route,            *)
(* preserve_mapping_leaves).                                               *)
RoutesHold ==
    [][(Install /\ kind = "hermes") =>
          \A p \in Routes(existing') :
              LET provider == ProviderOf(existing', p)
                  from == IF ProviderOf(existing, p) \in Keys(desired, <<"providers">>)
                          THEN existing ELSE desired
              IN  /\ provider \in Keys(desired, <<"providers">>)
                  /\ \A f \in DOMAIN FieldOf :
                        Get(existing', Append(p, f))
                            = Get(desired, <<"providers", provider, FieldOf[f]>>)
                  /\ provider = ProviderOf(from, p)
                  /\ ModelOf(existing', p) = ModelOf(from, p)]_configVars

=============================================================================
