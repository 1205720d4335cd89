# Vicegerent Agents: formal models

TLA+ models of the parts of Vicegerent Agents that hold state across steps, the TLC runs that check them on small instances, and TLAPS proofs of their most important properties for every instance. Every definition that stands for code names the lines it stands for in `PROJECT.json` (`map`); the hazards each property is for are there too (`hazards`).

## The system

Vicegerent gives AI agents a sandbox. Agents run in a local cluster, reach tools through one gateway and an authorization shim, and hear from the outside through one webhook listener. The tool servers run on the host, as ToolHive workloads behind one vMCP.

| Component | State it keeps | Operations | Speaks to | What is hard |
| --- | --- | --- | --- | --- |
| Shim: lookup cache (`upstream/cache.go`) | entries with expiry and size, a byte counter | `CallTool`, `get`, `put` | every gate, the session client | no single-flight, late replies, two limits, expiry |
| Shim: MCP session (`upstream/client.go`) | one session id, a mutex held over a handshake | `CallTool`, `session`, `invalidateSession` | the vMCP | concurrent rejections, one retry |
| Shim: request gate (`server.go`, `CheckRequest`) | none between calls | one verdict per call | cache, Cerbos, moderation | decisions on facts that change under it, partial batches, order of redaction |
| Shim: response gate (`CheckResponse`) | a judge budget per response | one verdict per result | judge model | judgements |
| Shim: mapping and configuration | compiled once | load | charts | none after start |
| Cerbos policies | none | decide | the shim | rules that fire only on attributes that are set |
| Webhook listener | replay cache, in memory | one forward per delivery | providers, the dedicated proxy, an agent | concurrent copies, ambiguous failures, two clock readings |
| Host MCP control plane (`vicegerent_mcp.py`) | a state file under a lock, fingerprints, the vMCP configuration, supervisord | setup, start, stop, enable, configure, health watch | ToolHive, vMCP, supervisord | concurrent commands, crashes between writes, several owners of one process |
| vMCP stdio bridge | one client session | one answer per request, one entry per call of a batch | an agent, the vMCP | partial failure, late answers, cancellation |
| Host brew reconciler | formulae, manifest, kegs, links, pins, the notifier | generate, apply, check, roll back | Homebrew | one command of several failing |
| Agent configuration reconciler | a configuration file on the agent's volume | seed, merge, install | the chart, the harness | restarts between edits, half-kept choices |
| Agent patches | the source tree of the agent image | 35 scripts in one order | upstream's releases | drift, order, builds that stop half-way |
| Home migration, skills, git guard, stubs, installer, charts, validation scripts, notifier, vendored servers | none, or the cluster's | - | - | see "Not modelled" |

What makes each correct, in a line: a cache answer is never staler than its class and the cache never exceeds its limits; one handshake per dead session and no tool run twice; a write goes out only if its object was in scope and the operator's; one delivery is acted on once; no interleaving or crash of commands loses or tears the state file; a workload recorded as current is current; a stopped stack stays stopped and the vMCP serves what runs; a batch gets one entry per call, its own; an apply without a failure converges and one with a failure takes away nothing without a successor; what the project owns in a configuration is exact and what the user chose stays whole; an image that builds has every patch.

## Modules

| Module | Models |
| --- | --- |
| `FreshLookup` | What a gate may assume of a lookup: the abstract specification of the cache |
| `LookupCache` | `cache.go` and its callers |
| `McpSession` | `client.go` |
| `ShimGate` | `CheckRequest` and the policies' rules about looked-up attributes |
| `WebhookListener` | `ServeHTTP`, the replay cache, the forward |
| `ServerState` | the state file of `vicegerent_mcp.py` and the commands that share it |
| `Workloads` | its ToolHive half: `run_workloads`, `_apply_workload`, the wait, recovery and stop |
| `HostStack` | its supervised half: start, stop, the health watch, supervisord and its listeners |
| `VmcpBridge` | `vmcp-stdio-bridge.py` |
| `FormulaRelease`, `HostPackages` | `host/brew/generate.py` and `host/brew/reconcile.py` |
| `AgentConfig` | `reconcile-config.py` and the init container that runs it |
| `AgentPatches`, `PatchBuild` | the patch scripts as edits; `apply-patches.sh` that runs them |
| `McpClientsProofs` | the proofs about `McpSession` and `VmcpBridge` |
| `StackAndConfigProofs` | the proofs about `HostStack` and `AgentConfig` |
| `PackagesAndPatchesProofs` | the proofs about `FormulaRelease`, `HostPackages` and `PatchBuild` |
| other `...Proofs` | the proofs about the module of that name |
| `MC...` | the constants of the small instances |

**How they compose.** The gate sits on the cache, the cache on the session client, by abstraction: `ShimGate` lets a lookup answer with anything in `recent`, the facts a cache entry may still hold, and `LookupCache` shows its answers are no older than that (`FreshLookup`, refined under the mapping `AbsCalls`); `LookupCache` lets a live read fail or answer at any moment of its deadline, and `McpSession` shows that a read runs its tool at most once and ends. `HostPackages` EXTENDS `FormulaRelease`: releases and applies interleave on one manifest. `Workloads` and `HostStack` take from `ServerState` that a recorded fingerprint stays; `HostStack` takes from `Workloads` only which backends run (`want`). `PatchBuild` EXTENDS `AgentPatches`.

An operator whose comment begins with "Mutant" is no part of a model: it is a plausible bug, put in the place of the definition below it to see that a property notices.

## The runs

Twelve runs, one for each question; all but `ServerStateLost` pass.

| Run | What it shows |
| --- | --- |
| `LookupCache` | `FreshInv`, `WithinBudget`, `BytesAccounted` while two callers race |
| `McpSession` | `HandshakesAreEarned`, `ToolRunsOnce`, `StaleSessionIsSurvived`, `FreshSessionIsKept`, `EveryCallEnds` |
| `ShimGate` | `WritesAreEarned`, `ClaimsStand`, `MappedAreMasked` for a request of every gated kind |
| `WebhookListener` | `SingleUse`, `ClaimsAreGenuine`, `ListenerInv`, `ReleasedUnsent` |
| `ServerState` | `StateInv`, `NeverTorn`, `UpgradeIsKept`, `FingerprintsStay`, `CommandsEnd` |
| `ServerStateLost` | violates `EnabledStays`: of two concurrent enables one is undone |
| `Workloads` | `RecordedIsBaked`, `StartConverges`, `HealthyIsLeft`, `RecoveryHasOneOwner` |
| `HostStack` | `StopIsFinal`, `OptOutHolds`, `VmcpFollows` |
| `VmcpBridge` | `EntriesAreTheirOwn`, `SentOnce`, `EveryRequestEnds` |
| `HostPackages` | `LoadableIsReleased`, `CleanApplyConverges`, `OutageHasASuccessor` |
| `AgentConfig` | `OwnedIsExact`, `StableOnceInstalled`, `RoutesHold` |
| `PatchBuild` | `BuiltIsPatched`, `OrderFits`, `AgainIsNothing`, `ResumesUnlessWhole` |

### LookupCache

`now`, `entries` and `totalBytes` are the fields of `Cache`; `calls` holds where each goroutine is in `CallTool`. `Cache.mu` covers `get` and `put` but not the network, so the actions are `ServeHit`, `Miss` (get, dropping an expired entry), `CallThrough` (a lookup that is never remembered), `UpstreamReads` (the upstream's moment of truth), `Receive` (`put`: purge, replace, evict, store) and `Fail`. Eviction order on equal expiry is Go's map order: any. `put` reads the clock once it has the mutex and does not look at the deadline again; the model takes both in the step in which the reply arrives, so a goroutine does not stall between the two. `truth` and `superseded` are the world: what upstream would answer, and when each value last stopped being it.

*Bounds.* Two callers; an identity lookup, a mutable one and one that is never remembered; results of two sizes; times 0 to 2 with TTLs of two ticks and one. That is enough for a reply to arrive late, be remembered, expire and be asked for again, and for a large result to be refused or to evict. Of the two limits only the byte limit binds in this instance (two remembered lookups cannot exceed two entries). `VIEW` drops the moment at which a value was last superseded while it is the answer again: no step and no property reads it before it is overwritten. Callers are symmetric, and nothing but invariants is checked. The refinement `LooksFresh` is proved and not run.

### McpSession

`mu`, `sessionID` and `handshakes` are the client's; `pc`, `attempt` and `sid` are the locals of each `CallTool`; `issued` and `live` are the server's. A step is a critical section or a POST, which may fail without reaching the server, or after. The server may forget any session at any moment (`Evict`), and may answer 400 for reasons of its own, which the client cannot tell from a dead session (`BadRequest`). The server is taken to assign a session id on every `initialize`, as the transport asks.

*Bounds.* Two goroutines, three sessions, two evictions: two callers share one rejection, one shakes hands while the other waits, and the new session may die too. The theorems cover any number. *Fairness.* A POST ends (the HTTP client runs on a context with a deadline: weak fairness), a goroutine runs on, and a waiter that finds the mutex free again and again gets it (strong fairness: Go's mutex has a starvation mode).

### ShimGate

Each goroutine walks `CheckRequest` in the code's order: screening, moderation, mapping, the lookups in `todo`, Cerbos, `Redact`, `ForceArguments`. What is forced on a call (`ForceOverrides`) is a fixed value, the draft flag of a new GitHub pull request, or made of the call's own text, the title of a new GitLab merge request that does not say it is a draft; `createdBy` of a silence is forced like the first, where a machine sets it. A call that neither step changes is passed as it came (`Sent`), so `MappedAreMasked` fails if the overrides are made of the original arguments, if a redacted call is passed, or if the draft is not forced. A fact about an object is what the policies distinguish: scope `in` or `out`, and owner `us`, `them` or `none`. `attr` is the resource's attributes as Cerbos will see them; `seen` is the history of what was true, or still rememberable, of each object during the call. Allowlists are taken to name somebody; an empty or `"*"` allowlist switches the rule off in the policies.

*Assumptions.* An object can always be given to the operator or moved to an allowed scope (`FactsAssumption`). Only a call names a tool, only pages, incidents and the projects of a merge request are named several at a time, only an update of an issue claims an owner (`RequestsAssumption`, the shapes the mapping expressions can produce). A GitLab call may name its project and the target project by path or by number: those by path are looked up, whatever the other says (`targets`), those by number are judged as they are (`scope`). An incident id that is not a non-empty string is not looked up (`server.go:1515-1519`) and goes out with the others; such ids are `items` of the request, and `WritesAreEarned` says nothing of them. *Bounds.* One call over two objects, with two changes by other people at any moment; calls meet only in the objects, which change under the call anyway, and the theorems are for any number of calls.

### WebhookListener

`keys` is the replay cache, `handlers` the goroutines in `ServeHTTP`; `late` is what the dedicated proxy still holds of forwards the listener gave up on, `received` what the agent acted on. Signature and claim read the clock separately: `Verify` and `Record` are two steps with at most `Stall` ticks between. Whether the signature of a copy is the provider's own is a Boolean.

*Bounds.* Two goroutines; a Svix message signed twice (one id, two timestamps), a generic-v2 delivery, a forged one and an untimestamped one; capacity one, so every second key meets a full cache; tolerance one tick and times 0 to 3, so that both ends of the window and the expiry of a claim are met. With `Stall = 0`, `SingleUse` holds and is proved. With `Stall = 1` it does not: a copy accepted at the very beginning of its window leaves a claim that expires at its very end, and a goroutine that verifies a second copy there and stalls claims it again. That window is as long as the stall and needs a provider clock a full tolerance ahead. Handlers are symmetric; the one temporal property is an action property, which symmetry respects.

### ServerState

`path`, `previous` and `legacy` are the files, `lock` the file lock; `pc`, `job` and `todo` say where each command is, `loaded` and `data` are its locals. A step is one operation on a file: `_locked_state` is `Lock`, a read, `StartCopy` and `EndCopy` of the recovery file (`copy2` truncates it first), and `Replace`, which also leaves the lock. A load takes the same read without the lock, and that read may itself write: `ReadLegacy` and `Unlink` migrate, `ReadPrevious`, `CopyPrevious` and `Reinstate` recover. A temporary file belongs to one command and appears only as what is renamed. `Crash` stands for a kill and for an operation that fails: both leave the files as they are and free the lock. `DamageFile` is an editor, a newer release or a power cut.

*Bounds.* Two commands at once, three in all, recording two workloads and configuring two servers; three installations (new, with an older release's file, whole or torn, with a durable file); one crash or one damaged file. Two writers and a third command to meet what they left reach every pair of steps. *Fairness.* A command runs on (weak), and a waiter that finds the lock free again and again gets it (strong: the kernel queues waiters of `flock`). The system may stop when the operator gives no more commands.

`ServerStateLost` shows a bug: `set_enabled` loads the map before it takes the lock, so of two concurrent enables one is undone. Two more hazards are reachable and limit what is claimed. `FingerprintsStay` is for installations without an older release's file: an unlocked reader that migrates late renames the old state over newer saves. No recovery guarantee is stated: an unlocked reader copies the recovery file again after checking it, and may rename a torn copy into place.

### Workloads

A spec is a number standing for all that `server_spec_fingerprint` hashes, contents of mounted files included. `status` is what ToolHive reports, `baked` the spec a workload was created with, `recorded` the saved fingerprint. Servers of a Kind cluster share one written kubeconfig: `ca` is the cluster's CA, `kubefile` the one in the file, `mounted` the one a workload was created with; `Stale` compares the first two. A start takes two listings (`inGroup`, `allNames`), then one thread per server goes through `Decide`, `Remove`, `Locks`, `Run` or `Restart`, and `Record`; `startLock` is the lock around `thv run`. `Run` writes the kubeconfig, then creates the workload with the inputs of that moment; `Record` hashes the inputs of a later one. A thread may end in `SystemExit` (`Raises`), which the start reports once all have ended (`Exits`). `Applied`, `Poll`, `Recover` and `GiveUp` are the wait; every ToolHive command may fail, workloads break at any time, and `Kill` ends the command anywhere. `Edit`, `Toggle` and `Rotate` happen at any moment, under a start too, and an edit may go back to an earlier spec.

The code does not keep fingerprint and workload together in every such execution, and two history variables say exactly where. `doubt` holds the servers whose spec was recorded amiss, or not at all, since their workload was created:

- an input changed between the comparison and `thv restart`, or between `thv run` or `thv restart` and the save, which hashes what is declared then (1481, 1504);
- the command died, or a thread raised, between either call and the save, so that an edit that is taken back meets the old fingerprint over the newer workload;
- `thv list` over all groups failed, so that a changed workload was restarted as it was;
- a `thv run` that was reported as failed left a workload all the same.

`consumed` holds the Kind servers whose kubeconfig was rewritten for another `thv run`, or for one of their own that failed, since they were created: the file then says the cluster's CA, and nothing shows that the workload mounted another. A `thv run` that creates the workload anew, and succeeds, clears both. `RecordedIsBaked` and `StartConverges` are about servers outside these sets, that is, for failed removals, runs and restarts, kills at every other step, and edits at every other moment, back and forth. All four ways into doubt, and consumption, are reached in the run. Those that contradict a comment are listed under "Disagreements".

*Bounds.* Two servers, both of one Kind cluster (`toolhive-servers.json:13` configures one such server; nothing limits their number); two specs, two changes (edits, opt-ins, rotations), one recovery attempt, two troubles (a command or listing that fails, a kill, a workload that breaks); a workload of another group may hold the name. Two changes are an edit and its reversal, or a rotation and an edit. No liveness is checked, so symmetry is sound. The theorems are for any number of servers, of which any are in the cluster. *Abstractions.* There is one Kind cluster; a failed `thv stop` of a recovery is one that waits; a failed listing within the wait is a poll that changes nothing; a `thv run` over a name that is taken fails. `clean` is a start in which no command failed and no input changed; only it is asked to converge.

### HostStack

`file` is the vMCP's configuration, `served` what the running vMCP has read, `want` the backends that run. `proc` says whose child each listener is: of supervisord at the socket, of one that lost its socket (`stray`), of nobody (`orphan`). `start` is `KillStrays`, `OptOut`, `Generate`, `Validate`, `Launch` or `Update`, `RestartListeners`, `RestartWatch`, `Ready`; `stop` is `Shutdown`, `StopStrays`, `Sweep`; a watch is `Compare`, `WatchGenerates`, `WatchValidates`, `WatchRestarts`, `WatchUndoes`. Listeners, the watches and supervisord crash at any time, commands fail or are killed. A supervisord that is killed leaves its watch behind, in the middle of a reconciliation too (`Orphaned`); an orphaned watch goes on comparing, rewriting the file and restarting the vMCP of whichever supervisord holds the socket. Its output has no reader any more: its first warning ends it, and so may any output (`LosesOutput`), or it goes on for good. Nothing in the code looks for it; a stop leaves it, and `StopIsFinal` says that it cannot bring anything back.

*Bounds.* Two memberships and one change from one to the other, three commands, two troubles: enough for a lost supervisord with an orphaned watch, a failed start and a stop that must clean up after both. At most one orphaned watch at a time (a supervisord is not killed while it and its own watch both run). *Fairness.* supervisord retries, the watch polls, and the calls of a command return or fail (`thv` runs under a timeout; `supervisorctl`, which has none, is taken to answer): weak fairness, no more. `VmcpFollows` is claimed as long as no reconciliation or start was cut short between writing its file and restarting the vMCP, nor overlapped another, of an orphaned watch or an automatic restart (`disturbed`): the next comparison is of the file, so it cannot see that the process missed it. *Abstractions.* ghostunnel and rclone hold no state and are left out.

### VmcpBridge

A call is a request and a position; `sent` is what went to the vMCP, `results` the entries of a batch, `heard` the calls answered while they waited. Answers come in any order, late or never; the agent cancels; the session closes. *Bounds.* Two requests of up to two calls, each sent. *Fairness.* A started task runs, a read timeout passes, a finished request is answered: weak.

### FormulaRelease and HostPackages

The generator walks `todo` and writes one formula per step (`GeneratePackage`), then the manifest; it can stop anywhere. `kegs`, `linked` and `pinned` are Homebrew's state for the binary of each package, including the floating formula a managed one replaces. An apply is `Install`, `Probe`, `Unlink`, `Link`, `Pin`, `Uninstall` per package, then the notifier (`Replace`, `Settle`) and `Check`; `Fail` (at the uninstallation, after an unpin or before), `Rollback`, `Crash` and hand edits in between. `CleanApplyConverges` asks of an apply in which nothing fails not only its exit code, which `Check` makes of the required packages and the notifier, but that every package, optional ones too, is then as the manifest says. A single file is written in one step: the generator's `write_text` of a formula (`generate.py:228`) and of the manifest (242) are not atomic in the code, and a torn one is outside the model. *Bounds.* Two packages, one of them required, two versions with one colliding class name, one replaced artifact, one trouble: each single fault at each step, followed by a clean apply.

### AgentConfig

A configuration is a function from key paths to leaves, so that merging, owned subtrees and empty mappings are those of `deep_merge`, `set_path` and `delete_path`. `Reconcile` is the reconciler of each of the seven files, from `reconcile_hermes` to `reconcile_opencode`. The init container is `Seed`, `Write`, `Install`; the harness edits while it runs; a pod restarts with the same or another release and may die in the middle of a copy. *Bounds.* Three of the seven files, one of each shape (routes and choices, owned top-level keys, forced leaves); two releases of each chart and a handful of edits, among them routes, catalog, empty sections, user keys, and a scalar in the place of a mapping the project owns a part of. The last is the one case in which a second start is not the same as the first (`StableOnceInstalled`): `features = 3` in a Codex file hides every key of the chart's `features` from `deep_merge`, `replace_path` then makes a mapping with only `respect_system_proxy`, and the chart's other keys come back at the start after that. The property says that only such a file (`LeavesMappings`) does this, and that the second start's result stays.

### AgentPatches and PatchBuild

A source file is the set of fragments that some script looks for or writes, a script a sequence of edits (anchor, replacement, marker). `PatchBuild` runs the scripts of `order.txt` in order on upstream's tree. *Bounds.* Upstream drifts at any one anchor (missing or doubled), or one line of `order.txt` is moved anywhere, left out or names no file; one kill between two writes; two runs over one tree. A kill falls between writes, not within one. The theorems hold for any set of drifts, any orders (repeated lines included) and any number of kills and runs; the 35 scripts and their upstream text are what they are. The compile steps after the scripts are not modelled, nor the smoke tests at the end of 0007, which run what it patched; 0043's `prices.py` has no anchor of its own to check. 0008 and 0012 ask the import system for their files first and search by path when it does not find them; the model finds the files by path, whatever stray directory 0019 removes.

What the model makes explicit: 0012 writes text that contains the marker of 0008, so listed before it, it would silently drop 0008, an order that `order.txt` does not record (`Follows` has it). Other unlisted orders (0027 after 0009, 0036 after 0028) fail loudly. 0047, 0051 and 0052 take their files all or none and refuse a tree on which a run stopped half-way; every other script resumes.

## What is proved

For every value of the constants that satisfies the modules' named assumptions:

| Theorems | The inductive invariant, and why it is needed |
| --- | --- |
| `CacheFreshness`, `CacheImplementsFreshLookup` | An answer comes from an entry and an entry from a reply. `FreshInv` bounds all three: a reply is as fresh as its call, an entry true no earlier than its expiry minus TTL minus deadline, an answer no earlier than its call minus their sum plus one. Each step maps to a step of `FreshLookup` or to none. |
| `CacheWithinBudget`, `CacheBytesAccounted` | `BudgetInv`: the counter is the sum of the sizes of the entries, and it and their number are within the limits. `put` drops, evicts in a loop and stores, so the sum over a set must follow the set as it changes. |
| `SessionInvariant`, `HandshakesEarned`, `ToolsRunOnce`, `StaleSessionSurvived`, `SessionsAreKept` | `SessionInv`: the lock holder is the one shaking hands while no session is cached, a session being made is newer than everybody's, each completed handshake is paid for by a rejected session or the cached one, and if nothing was evicted since the call began, what replaces a rejected session is alive. |
| `EntriesAlwaysTheirOwn`, `CallsSentOnce` | `BridgeInv`: what the trace, the entries and the messages say of a call is settled by how far its task is, no two messages are of one call, and one still waited for is of a call that waits. |
| `GateInvariant`, `EarnedWrites`, `ClaimsAlwaysStand`, `MappedAreAlwaysMasked` | `GateInv`: what a lookup may answer is in the call's history (`SeenInv`), and of each gated call every lookup is still to come, on an attribute nobody has set, or accounted for in the attributes (`Answered`); from the decision on all are, and no rule denies their sum. Without the second half a lookup done first could be undone by a later one. After the redaction the text has no secret; a call is passed only when its text is what came and nothing is forced on it, and otherwise carries what is made of its redacted text, which is what `MappedAreMasked` needs of the call as it is sent. |
| `ListenerInvariant`, `ListenerSingleUse` (with `Stall = 0`), `OnlyGenuineClaims` (any `Stall`) | `ListenerInv`: a delivery is in one place at a time, is remembered while it verifies, its forward holds a live claim, and a claim that superseded another's did so when the other could no longer verify, which is why deleting by key is safe. `GenuineInv`: only a genuine copy gets as far as the cache, whose domain stays finite and within its bound. |
| `ForwardsApart`, `ReleasedOnlyUnsent` (any `Stall`) | `ClaimInv`: the claim a forward was started for is there, unchanged and live, until the forward ends, because a forward has at most its deadline and the deadline is shorter than a claim's life. With stalls a delivery can be replayed (see the run), but two forwards under one key still never overlap. |
| `StateInvariant`, `StateIsNeverTorn`, `UpgradeKeeps`, `FingerprintsAreKept` | `StateInv`: a save's edit is of the state that is still in the file when it is renamed, which needs that the lock is held by exactly the command between its read and its rename, that without damage nobody recovers, and which step follows which. |
| `WorkloadsInvariant`, `FingerprintsAreTrue`, `HealthyAreLeft`, `RecoveryFromRest`, `CleanStartConverges` | `WorkloadsInv`: of a server that is not in doubt, a thread that will restart its workload has found what is recorded to be what is declared, still, and one that will record has created what is declared, still (`ThreadsKnow`); threads work only while a start applies; and a Kind workload that was not overtaken has mounted what the file says (`MountIsFile`). An edit under a thread breaks these, and puts the server in doubt in the same step. `HealthyAreDone` and `StoppedStay` add what the thread of a healthy workload, and a poll, know; `DoneIsRecorded`, that in a start without failure or change a thread ends only with the declared spec on record and the cluster's CA in the file, which `RecordedIsBaked` and `MountIsFile` turn into what the workload has. |
| `StackInvariant`, `StopsForGood`, `OptOutIsKept` | `StackInv`: a command reports only at its end; during a start there is one supervisord or none; once a start has opted out, no supervisord that is left has the operator's listener in its configuration. |
| `HostInvariant`, `ReleasedWhenLoadable`, `FormulaeStay`, `CleanApplies`, `SuccessorFirst` | `HostInv`: what the manifest names exists in the tap, and each step of a migration stands on the ones before it. `CleanSoFar` adds that what a faultless apply has passed, optional or not, is as wanted, and is inductive only together with it; at the end it has passed all. |
| `ConfigInvariant`, `OwnedIsAlwaysExact` | `ConfigInv`: what lies next to the file is what the reconciler made of that file, which nobody touches before it is installed. The rest is about the reconcilers as functions, for any file and any chart: the owned sections of each kind begin with different keys, so grafting one leaves the others as they are, and completing routes, keeping choices and forcing leaves stay outside them. |
| `RouteInvariant`, `RoutesAlwaysHold` | `RouteInv`: in every file that is read or left, a route names a provider and a model or neither, and the main route names them. Choices are preserved leaf by leaf, so a provider alone in the file would be paired with the chart's model. The reconciler keeps this of any such file; and as no route's path begins with another's, completing one leaves the others done. |
| `BuildInvariant`, `BuildsArePatched`, `OrderAlwaysFits`, `PatchingAgainIsNothing`, `BuildsResume` | `BuildInv`: there is a set of edits whose text is the tree (`Written`), made in an order in which each found its anchors (`InOrder`, `FirstTime`); what the run has passed is applied and no later edit can undo it (`SettledSoFar`, `SettledForGood`), where a patch that takes its files together has, once begun, all it will yet write before it (`ReadyWhole`). The scripts themselves enter by facts checked once for each script and once for each pair that shares a file: no edit takes another's text except the ones `Follows` or their own anchors order. So a finished run has made all edits, whose text is `Patched`, and in the order as listed an anchor can only be gone where a whole patch stopped half-way. |

The constants are assumed to be what the modules' `ASSUME`s say, which TLC evaluates on every instance: limits and bounds are numbers, sizes and lifetimes are not negative, an object can always be given to the operator, a configuration has finitely many leaves, each at a sequence of keys, upstream drifts at places where it has text, `order.txt` is a sequence of names.

One assumption is about people. `HermesAssumption` says that a chart names a provider of its catalog and a model for each route, as the defaults of `_helpers.tpl` do (`renderedConfig` refuses a provider that is not enabled), and that an edit of `config.yaml` chooses a route's provider and model together and leaves `model` a mapping, as the harness does. Without it `RoutesHold` fails: an edit that gives only a model to a route the file does not have gets the chart's provider with it. (It also leaves out edits that change one of the two where the file has both, which would do no harm.)

Some theorems reason about data that a definition walks through: the bytes of a set of entries, and the sections and routes that a reconciler folds over. The prover has no induction rule for them, so each walk is described by the sequence of its intermediate results, and a property of every turn is shown by looking at the least turn at which it would fail (`LeastNumber`).

Only model-checked:

- Liveness (`EveryCallEnds`, `CommandsEnd`, `VmcpFollows`, `EveryRequestEnds`), which needs fairness and `ENABLED`.
- `StableOnceInstalled`, which compares two reconciliations of one file leaf by leaf, and needs of that file that it nests as mappings do, which the definitions leave open.

## Disagreements

Between the code and what the repository says of it. The first is a finding with a run; the others were met while modelling and have none.

- `vicegerent_mcp.py:3047`: `set_enabled` loses one of two concurrent switches (`ServerStateLost`).
- `client.go:289` takes the mutex without regard to the context; `client.go:225` says the deadline governs the whole sequence. A caller can wait past it while another shakes hands.
- `webhook-listener/server.go:71` keeps the replay cache in memory; `images/webhook-listener/README.md:30` and `docs/setup.md:268` promise single use without excepting a restart, which forgets it.
- `server.go:743` lets a tool without a mapping on an allow-by-default backend pass before redaction; `docs/secrets-and-pii-redaction.md:31` and `server.go:1117` say every call.
- `reconcile.py:555` reports "previous links restored" also where the link of an earlier managed version, which `link --force` has taken over, is not put back: only replaced formulae (line 545) are.
- `vicegerent_mcp.py:1532` lists the group with `list_workloads`, which turns a failed listing into an empty group, where the comment at 625 asks lifecycle commands to surface failures: a start then recreates every healthy workload. `list_all_workload_names` (639) does the same for all groups: a changed workload is restarted as it was and recorded as new, against the comment at 1452.
- `vicegerent_mcp.py:1481` and `1504` compute the fingerprint when the call has returned, of the inputs as they are then; the docstrings at 1397 ("Last-applied spec fingerprint") and 1410 say it is of what was applied. An input changed meanwhile is recorded without having been applied. A start killed before the save leaves the fingerprint of the workload before; once the edit is taken back, the next start finds nothing changed, against the comment at 1455.
- `vicegerent_mcp.py:1280` says `kind_kubeconfig_stale` compares "the mounted CA"; it compares the file last written. `write_internal_kubeconfig` (1228) writes it before the outcome of `thv run` is known, and for all servers of the cluster: after a failed removal and run, or a run for one server, a workload with the old CA counts as current.
- `vicegerent_mcp.py:928` says the health watch reconciles the served membership; it compares the configuration file, and a file written by a command that then failed to restart the vMCP hides that it serves something else. The docstring at 875 says the watch never restarts anything; it restarts the vMCP.

## Not modelled, and why

- **Shim response gate.** `CheckResponse` keeps nothing between two responses; its outcome depends on patterns and a judge that a model could only guess.
- **Mapping, CEL helpers, signatures, regular expressions, JSON and SSE framing.** Pure functions, folded into what they decide. Policy rules about the arguments alone (branch names, title formats, durations, AWS, Kubernetes, Elastic, Grafana, web crawl) are one nondeterministic denial in `ShimGate`, so the Cerbos policies are listed as partly modelled.
- **Host control plane: doctor, log following, the AWS credential watch, the dialogue of `configure`.** They print, ask and notify; what `configure` saves is modelled. An ignored failure of `thv rm` (1492) shows as the failure of the run after it.
- **What the patched agent then does.** Upstream's code, not in this repository.
- **Home migration and skills.** Shell that moves directories once, in init containers that run one after the other.
- **Terminal UI, notifier.** Drawing; their state changes are calls of modelled operations.
- **git guard, stubs, installer, command line.** Stateless filters and drivers of external tools whose state is the cluster's.
- **Validation scripts, charts, stages, vendored servers.** Static checks, manifests and wrappers: no behaviour over time.
