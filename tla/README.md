# TLA+ models of Brain3

Brain3 gives remote MCP clients (a chat assistant, an IDE) access to a vault of markdown notes on
the owner's machine. A Rust gateway authenticates clients with OAuth 2.1, makes one MCP server of
several that run in local containers, and opens a Cloudflare tunnel; a Python server in one of the
containers reads, writes and searches the vault. This directory holds TLA+ modules that model the parts
of that system where concurrency, failure, ordering and confusable data matter, TLC configurations
that check them on small instances, and proofs, checked by TLAPS, of the properties that matter most.

Paths below are relative to the repository root. `PROJECT.json` maps every definition to the lines it
models, lists every run with its properties, a mutant of the code for every property that a run
checks (a plausible bug the property does find), the hazards of the code and the theorems.

| file | what it is |
|---|---|
| `TokenLifecycle.tla` | abstract specification: what becomes of codes and token pairs |
| `OAuthGateway.tla`, `MCOAuthGateway.*` | the OAuth endpoints, the token table, the bearer check |
| `OAuthGatewayProofs.tla` | its safety theorems; it implements `TokenLifecycle` |
| `FrontmatterIndex.tla`, `MCFrontmatter*` | the vault server's in-memory index and its file watcher |
| `FrontmatterIndexProofs.tla` | its safety theorems |
| `Containers.tla`, `MCContainers.*` | the containers of an installation: collection, recreation, start, shutdown |
| `ContainersProofs.tla` | its safety theorems |
| `Session.tla`, `MCSession.*` | one run of the program: startups, terminal UI or command line, cleanups, end |
| `SessionProofs.tla` | its safety theorems |
| `Setup.tla`, `MCSetup*` | the wizard, the environment file, the configuration of a session |
| `SetupProofs.tla` | its safety theorems |
| `Router.tla`, `MCRouter*` | one MCP server made of the vault server, the native tool and the plugins |
| `RouterProofs.tla` | its safety theorems |
| `UnifiedDiff.tla` | applying a unified diff, and what a diff means (pure operators) |
| `UnifiedDiffProofs.tla` | what is accepted, and what comes of it, is what the diff means |
| `VaultFiles.tla`, `MCVault*` | the tools that change notes, next to editors |
| `VaultFilesProofs.tla` | its safety theorems |

To run: `tlc -config MCOAuthGateway.cfg MCOAuthGateway`, `tlapm OAuthGatewayProofs.tla`, and likewise
for the others; `PROJECT.json` has the module of each configuration.

# 1. Inventory

## Components, their state and operations

**OAuth endpoints** (`crates/platform/src/http/oauth_handlers.rs`). State: `AppState.authorizer`, an
`AuthMap` of authorization codes in memory behind a tokio mutex; `AppState.issuer` behind another.
Operations: login form (GET), login (POST /oauth/authorize), code exchange and refresh (POST
/oauth/token). *Hard:* two mutexes taken by three handlers; the code is taken out of the map before
the pair is stored; a client that hangs up drops its handler at an await. *Correct when:* a code and a
refresh token are each worth one pair; no handler waits for ever; a token carries what the owner
consented to.

**Token store** (`crates/platform/src/token_store/sqlite.rs`). State: the table `oauth_tokens`, two rows
a pair. Operations: `issue_pair`, `rotate_refresh_pair`, `load_token`, `cleanup_expired`. *Hard:*
transactions that fail, a crash between commit and reply, a reply that is lost, access and refresh
tokens in one table. *Correct when:* a login has at most one pair at any time; what a client was told
survives; expiry and kind are respected.

**Bearer check and MCP proxy** (`http/mcp_handlers.rs`, `core/src/application/proxy_mcp.rs`). No state
but the request in flight. *Hard:* the expiry is compared after the issuer is unlocked; the upstream is
called without a timeout; headers of clients and of the gateway meet. *Correct when:* a dead token opens
nothing, a hanging upstream keeps nobody else from the mutexes, and each upstream gets its own
credentials and no others. The local listener skips the bearer check.

**OAuth rate limiter** (`http/rate_limit.rs`). State: that of the governor library, a quota per client
address; the repository's code picks the address and words the refusal.

**MCP router** (`core/src/application/mcp_router.rs`), **plugin MCP client**
(`remote_mcp_container_client.rs`), **native transcription tool** (`native_mcp_tools/`). State: what each
plugin listed when the gateway started. Operations: merge `tools/list` and `resources/list` of
three kinds of server, route `tools/call` and `resources/read`. *Hard:* names that begin like others;
plugins that do not answer yet; lists that are out of date. *Correct when:* what is advertised is
what is reachable, and a name leads back to the server that advertised it.

**Container startup and garbage collection** (`core/src/application/ensure_container.rs`,
`platform/src/container/`). State: the containers of the runtime (Docker or Apple's), which outlive the
gateway; the names and host ports it uses. Operations: ensure and verify, orphan preflight, collection,
recreation of plugin containers, stop. *Hard:* a stopped Docker container removes itself while the code
removes it; ports are picked, released and used later; failures half-way; crashes. *Correct when:*
after a failed start nothing is left running, and a second session starts from the remains of a first.

**Bootstrap and shutdown** (`platform/src/runtime/bootstrap.rs`), **session and servers**
(`apps/gateway/src/server.rs`), **entry point** (`main.rs`), **terminal UI** (`tui/app.rs`). State: which
containers, tunnel and listeners the session owns; the channels between the UI's event loop and its
finalize, startup and cleanup tasks. *Hard:* startup, shutdown and the user overlap; errors that skip
the release of what was started; a timer that ends a cleanup. *Correct when:* every resource a session
started has a holder until it is released, what is shown as running runs, and a quit ends the program.

**Cloudflare tunnels** (`platform/src/tunnel/`). State: a child process, its pid file, a task that reads
its output. Operations: start, stop, status. *Hard:* the child is stored before its URL is known, and
everything that fails in between. *Correct when:* a stopped or dropped tunnel leaves no child.

**First-run setup and configuration** (`core/src/application/first_run_setup.rs`,
`platform/src/config/`, the pages of `tui/`). State: inputs, draft, environment file, environment of
the process, configuration of the session. Operations: the pages, confirm, finalize, load. *Hard:* one
setting lives in five places; settings that exclude each other; variables that are set already stay;
writes that fail or are interrupted. *Correct when:* what was confirmed is what the program runs with,
now and in later runs.

**Frontmatter index** (`brain3-mcp-vault-tools/.../frontmatter_index.py`). State: `_index`,
`_pending_paths`, `_debounce_timer`, the observer and its queue, a thread per timer. Operations: `start`,
the scan, dispatch, debounce, flush, rebuild, `stop`. *Hard:* four kinds of thread and editors that
write at any time; timers that cannot be cancelled any more. *Correct when:* the index says what the
files say as soon as nothing is under way, and no change that was told of is lost.

**Vault file tools** (`vault.py`, `tools/`). State: the vault on disk. Operations: atomic write, move,
delete to trash, unified diff guarded by an expected hash, frontmatter update, search. *Hard:* check then
write, against editors; a batch that goes on; positions that shift; collisions of names in the trash.
*Correct when:* no text is lost that nobody replaced, and a diff means what diffs mean.

**Health probe and diagnostics**, **Cloudflare tunnel setup** (`setup_tui.rs`), **pages and assets**,
**scripts**: probe, draw or run once.

## Interactions

A client's browser POSTs the login; the client exchanges the code, then calls `/mcp` with the access
token; the bearer check reads the table under the issuer mutex and hands the request to the router, which
calls the native tool, a plugin container or the vault container over HTTP. The vault server runs its
tools on one event loop; its index is fed by watchdog's dispatcher thread and by timer threads. The entry
point chooses a launch; the wizard writes the environment file; startup loads it and runs bootstrap
(containers, tunnel), then the listeners; shutdown runs the other way.

How the models share the system: `Session` takes a start of a container as one step with the outcomes that
`Containers` has for it; `Setup` takes a start of a session as one step that reads the configuration;
`OAuthGateway` takes the upstream as something that may never answer, and `Router` is that upstream;
`VaultFiles` writes the files and `FrontmatterIndex` watches them.


# 2. The modules

Every module takes one step for what the code does between two points at which somebody else can act: an
await, a callback, a command, a lock. Variables are named as in the code; those marked *history* exist for
the properties only, and no guard of an action that models code reads them.

## OAuthGateway (abstract: TokenLifecycle)

A task is an HTTP request; `pc[t]` is where its handler awaits.

| code | model |
|---|---|
| handlers up to their first await | `OauthAuthorizePost`, `OauthTokenExchange`, `OauthTokenRefresh`, `McpReverseProxy` |
| `lock().await` of authorizer, issuer | `AcquireFirst`, `AcquireSecond`, in the order each handler has |
| `oxide-auth` flows as the handlers call them (external) | `AuthorizationFlow`, `AuthorizationRefused`, `AccessTokenFlow`, `AccessTokenRefused`, `ClientRefused`, `GeneratorFails`, `RefreshGrant`, `RefreshRefused` |
| transactions of `sqlite.rs` | `IssuePair`, `RotateRefreshPair`, `TransactionFails`, `CleanupExpired` |
| bearer check and upstream | `RecoverToken`, `RecoverTokenFails`, `ExpiryCheck`, `UpstreamDone` |
| the reply; a client that hangs up | `Reply`, `Disconnect` |
| the process ends and starts again | `CrashRestart` |

`codes` is the `AuthMap`, `rows` the table; a tag is a number drawn once and stands for a random code or
token. *History:* `knownCodes`, `knownTokens` (what clients were told), `consents`, `lineage`, a row's
`login`, a request's `dead`.

* `OneLivePairPerLogin`: the table never holds tokens of two pairs of one login.
* `RotationIsAChain`: no code and no refresh token was ever exchanged twice.
* `DeadTokenNeverForwarded`: a token that is dead when the request arrives opens nothing (one that dies
  while it is being checked may get through: the expiry is compared after the lookup).
* `TokensMatchConsent`: a token's redirect URI is one the owner consented to, through every rotation.
* `DeliveredPairsDurable`: a reply never runs ahead of its commit, and no crash takes a pair back.
* `NoCircularWait`: whoever holds a mutex runs its flow, which nothing suspends, or waits for one that is
  free or whose holder runs its flow; nobody keeps one while it waits for an upstream, which may never answer.
* `ImplementsTokenLifecycle`: with a code counted as outstanding until its pair is committed, and a pair as
  live while its refresh token is stored, every step is one of `TokenLifecycle` or a stutter.

## FrontmatterIndex

| code | model |
|---|---|
| `start`, the scan, the observer | `ScanFile`, `InstallScan`, `StartObserver`, `StartFails` |
| `rebuild` | `Rebuild`, `RebuildFails` |
| watchdog's queue and dispatcher (external), `on_modified` … `on_moved` | `Notify`, `DispatchEvent`, `Accepted`, `ScheduleDebounce` |
| timer threads (external), `_flush_pending` | `Expire`, `FlushPending`, `FlushRead`, `FlushInstall` |
| `stop` | `StopLocked`, `StopTimer`, `StopObserver`, `JoinObserver` |
| the file tools, editors | `WriteFileAtomic`, `MovePath`, `DeletePath`, `EditInPlace` |
| a new process | `Restart` |

A `with self._lock:` block is one step; `LockHeldAt` says where a thread holds the lock while it waits for
another, so that joining the observer inside the block would deadlock the model as it would the code.
Time is no number: a timer that was armed is expired or cancelled, in any order and beside any other, and
flushes overlap as they like. *History:* `untold[p]`, why the entry of `p` need not agree with the file: its
last change was made before the watch or by a rename, of which the watcher is not told, or two flushes held
an entry of it at once, of which the older may be installed last.

* `SettledPathAgrees`: while the server serves, an entry is what its file says as soon as no event, pending
  path or running flush is about it; except for the reasons in `untold`, until one flush reads the file alone.
* `NoLostWakeup`: a pending path has a timer that will flush it.
* `IndexCatchesUp`, `StopCompletes`: liveness.
* `RenamesReachTheIndex` (fails): the same as the first, renames included.

## Containers

`box[n]` is the container of name `n`: its state, whose it is, what it is for. A command of the runtime
is one step, and between two of them the world may act.

| code | model |
|---|---|
| the outline of bootstrap | `Start`, `Probe`, `NextPlugin`, `PluginsDone`, `CoreFails`, `PluginFails` |
| recreation of a plugin's container | `RecreateExists`, `RecreateList`, `RecreateRunning`, `RecreateStop`, `RecreateRemove` |
| orphan preflight, three policies | `SkipPreflight`, `Preflight`, `ListedOneGoesAway` |
| collection | `CollectOne`, `RemovalSeen`, `RemovalTimesOut`, `RemoveCollected`, `Collected` |
| `EnsureContainerUseCase::ensure`, its network, verification | `Ensure`, `EnsureNetwork`, `Launch`, `Created`, `LaunchConflicts`, `LaunchFails`, `Verified`, `VerificationFails` |
| stop | `StopExists`, `StopRunning`, `StopStop`, `StopRemove`, `StopFails`, `Undone` |
| shutdown | `Shutdown`, `ShutdownDone` |
| a command that fails; the process dies | `CommandFails`, `Crash` |
| the world (external) | `Exits`, `DaemonRemoves`, `ForeignArrives`, `ForeignLeaves` |

`docker` are the names whose containers Docker runs with `--rm`; the others are Apple's, which stay.
Containers of others have the role "foreign" and take any free name at any time. *History:* `trouble`,
whether something happened after which the code promises nothing (a command failed, the process crashed, a
removal timed out); a box's `late`, whether another's container took a name on which the process had a claim
(`Claimed`: it owns it, or saw it some commands ago and is about to act on it).

* `NothingLeftBehind`: after an untroubled shutdown nothing of the session runs, whatever failed to start.
* `RoomMade`: at a launch, no container of the kind is left in its way.
* `SparesOthers`: no step of the process stops or removes a container that is not this session's, an
  earlier core under the collecting policy, or an earlier container of the plugin; except one that is `late`.
* `SessionEnds`: startup and shutdown end, though Docker may never remove what it stopped.
* `NeverGoesRound`: the safety half of it: every command of a startup or a shutdown, whatever it answers,
  and a crash too, brings the process closer to the end by a measure: plugins still to look at, then the
  stage of the one being started, then containers to collect, then the stages of the stops.

## Session

One run of the process. `boot[k]`, `server[k]`, `owned[k]` belong to the k-th startup task; `release[c]` to
a cleanup task (0 is that of the command line); `startupRx`, `finalize`, `cleanupRx` are the ends of the
channels that the event loop holds.

| code | model |
|---|---|
| `plan_launch`, its refusals, the modes | `Init`, `ChooseLaunchMode`, `PlanLaunch`, `WithoutEnvFile`, `NeedsTerminal`, `Admitted`, `Plans`, `Launched` |
| a startup task: load, core, probe, tunnel, plugins, listeners, state, hand-over | `Load`, `LoadFails`, `RefuseCore`, `StartCore`, `StartCoreInVain`, `NoCore`, `LoseCore`, `ProbePasses`, `ProbeFails`, `NoTunnel`, `TunnelRefused`, `SpawnTunnel`, `TunnelReady`, `TunnelFails`, `NoPlugin`, `StartPlugin`, `LosePlugin`, `Bind`, `BindFails`, `BuildState`, `BuildStateFails`, `Send` |
| the event loop | `Confirm`, `Finalized`, `ApplyFinalize`, `ApplyStartup`, `InitiateShutdown`, `GoToMain`, `LeaveScreen`, `TerminalFails` |
| the command line | `CliBails`, `CliServes`, `Interrupt`, `ServerErrs` |
| a shutdown task | `AskServer`, `ServerEnded`, `StopTunnel`, `StopContainer`, `StopsEnded`, `LateSession`, `TimeOut` |
| connections drain; the process ends | `Drained`, `Exit` |

`Drop` is what Rust does with a value that nobody holds any more, and each action that lets a session go
applies it: a dropped server handle begins a graceful shutdown, a dropped tunnel kills its `cloudflared`
(`kill_on_drop`), a dropped runtime leaves its containers running. *History:* `loose`, the sessions
something of which was let go like that.

* `NothingLeftUnawares`: a container that outlives the program belongs to a session in `loose`; a session
  that was kept has its containers stopped, whatever ran at the same time.
* `TunnelsAreHeld`: at most one `cloudflared` runs, and somebody is still able to stop it.
* `RunningIsUp`: what the status screen calls running has its container, server and tunnel: no retry,
  late startup or cleanup took them away.
* `QuitLeavesTheScreen`, `QuitEndsTheProgram`: a quit ends, even if a startup hangs.

## Setup

A setting lives in the text of an input, the draft, the environment file, the environment of the process
and the configuration of the session. There is one setting for each way they differ, the container runtime
with its network isolation among them, which macOS (`MacOS`) refuses together for Docker; a port is a
number of thousands: 0 to `MaxPort` for 0 to 65535. `Loadable` has every refusal of `load` that a setting can
meet: ports, lifetimes, access mode, hosts, the local port without its token, an unknown runtime, a missing
vault, unsupported isolation, a missing password.

| code | model |
|---|---|
| `run_gateway_tui`, three ways in | `LaunchFirst`, `LaunchSetup`, `LaunchConfigured`, `Existing` |
| `prepare`, the draft from an existing configuration | `Prepared`, `OriginOf`, `DraftFrom`, `WithPolicy`, `InputsOf` |
| the pages | `Enter`, `Esc`, `Forward`, `Backward`, `PortsPass`, `ChooseAccessMode`, `GenerateInstead`, `TypePassword`, `TypePort`, `OffsetPorts`, `ToggleIsolation`, `ToggleAudio`, `TypePortOnSummary`, `TogglePasswordMode`, `Fill` |
| confirm, finalize | `Confirm`, `Finalized`, `NewPassword`, `FinalizeWrites`, `FinalizeFails` |
| writing and reading the file | `Rendered`, `Written`, `Parsed`, `Loaded`, `Loadable`, `ContainerRefused`, `Unsupported`, `Config`, `Tunnel`, `HostConflict`, `ExpectedHost` |
| starting, the card | `Read`, `Started`, `StartFails`, `LookAtCard`, `Quit` |

*History:* `confirmed[p]`, the settings last confirmed for a file; `loads`, `untouched`.

* `LaterRunsAreAsConfirmed`, `FirstStartIsAsConfirmed`: what was confirmed is what runs, in later runs, and
  at once if the process had not read a file before.
* `WrittenFilesLoad`: a file the wizard wrote can be read, unless it is for Docker with isolation on macOS
  (`Supported`), which the wizard writes and the program then refuses.
* `ReviewKeepsSettings`: reading, reviewing and writing again changes nothing.
* `PortsAreValidated`: there is no way round the pages to the summary with an invalid port that is wanted.
* `CardIsRight` (fails): the card shows the password that the gateway accepts.

## Router

Names are sequences of letters, one of which is the separator, because that is what the question is
about; a header is its name and who wrote it.

| code | model |
|---|---|
| validation of `brain3.yaml` | `Kept` |
| starting the plugin clients, retries, a deadline; the tool inventory | `Begin`, `Initialize`, `FetchTools`, `FetchResources`, `AttemptFails`, `DeadlinePasses`, `LogInventory` |
| prefixes and their removal | `Prefix`, `Prefixed`, `Claims`, `Stripped`, `Linked`, `ContentsUri` |
| `handle` | `AskInitialize`, `AskList`, `CallNative`, `CallPlugin`, `CallCore`, `ReadPlugin`, `ReadCore`, `Forward` |
| routes beside it, refusals | `FetchAsset`, `RefuseToken`, `RefuseHost` |
| headers towards each upstream | `ToCore`, `ToPlugin`, `ToAssets` |
| vault server and plugins (external) | `ServerChanges`, `ServerStops`, `ServerReturns`, `FallsSilent` |

*History:* `told` (what the client was last told), `last` (the last request: where it went, as what, with
which headers).

* `PrefixLeadsBack` (fails): a call of a listed tool goes to the server that listed it, under its own name.
* `RoutedBack`, `LinksLead`: the same, and for the UI resource a tool links to, unless an earlier plugin's
  prefix begins the name too (`Shadowed`). A call of such a tool is not found, or goes to a plugin that listed
  the very same name; it never reaches a server that did not list what was called.
* `CredentialsApart`: each upstream gets the credentials meant for it and no others, and nothing a client
  sent passes for them.
* `CapabilityIsHonest`: a client that was told "no resources" is not listed a plugin's.
* `GatewayServes`: plugins that are not up, or fail, delay the gateway, but not for ever; only one that takes
  a request and never answers does, and the core when it is asked for its tools.

## UnifiedDiff and VaultFiles

`UnifiedDiff` has the algorithm (`ApplyHunks` over `ApplyHunk`, with the offset of earlier hunks, the
special case of line 0 and the comparison after normalisation of line ends) and, apart from it, what a diff
means: `Fits` and `Meant` are stated on the original text by position, without an offset. `Plain` says
which diffs the code handles as that meaning has it: the text has no unfinished last line and the diff adds
none, and only the first hunk may be without old lines, at line 0.

| code | model |
|---|---|
| tools that read | `VaultRead` |
| tools that write | `VaultApplyUnifiedDiff`, `VaultCreateOverwriteFile`, `VaultBatchFrontmatterUpdate`, `NextUpdate`, `BatchDone` |
| `write_file_atomic` | `MakeTemp`, `Replace`, `WriteFails` |
| `move_path`, `delete_path` | `VaultMove`, `VaultDelete`, `Rename`, `RenameFails` |
| the process dies; editors; the clock (external) | `Crash`, `EditorWrites`, `EditorRemoves`, `Tick` |

A file is a sequence of words and line ends; a name in the trash carries the stamp `delete_path` gives it.
*History:* `owed` (texts that nobody replaced knowingly), `last`, `raced` (an editor changed a note under a
call), `crowded` (a stamp was given twice in a second), `crashed`, `trashed`.

* `PlainDiffIsApplied`: a plain diff with its hunks in order is accepted if and only if it fits the text,
  and does what it means, to the text as it is when it is replaced.
* `CallsAreAtomic`: however long ago a call read, compared a hash or looked whether a name is free, it
  changes the vault in one step as if it did all of that then, once for each note; unless `raced` or
  `crowded`.
* `NothingIsLost`: a text is in the vault or in the trash until somebody who read it, or was told to
  overwrite, replaces it.
* `NoLitter`: calls that fail leave no temporary file.
* `DiffIsApplied`, `NotHardDeleted` (fail): the same as documentation has it, without exceptions.

# 3. The runs

| run | instance | shows |
|---|---|---|
| `oauth_safety` | 2 tasks (symmetric), 1 login, 10 tags (a code and three pairs), 2 redirect URIs, time to 2 | the safety properties and the refinement |
| `index` | 2 paths, 1 value, 3 timers, 3 changes, both sync modes | the properties of the index |
| `index_renames` | the same | `RenamesReachTheIndex` fails |
| `containers` | 2 names for the vault server, 1 plugin, every distribution over the runtimes, every policy | the properties of `Containers` |
| `session` | 3 modes, 2 startups, 2 cleanups | the properties of `Session` |
| `setup` | macOS, ports 0–2, 2 edits a run, 2 runs, 2 hand-written files | the properties of `Setup` |
| `setup_card` | the same on Linux, 2 random passwords, 1 edit | `CardIsRight` fails |
| `router` | 2 plugins, names `a`, `ab`, `a_`, a duplicate, an invalid entry, 1 change of the servers | the properties of `Router` |
| `router_names` | the same | `PrefixLeadsBack` fails |
| `vault` | 3 notes (one in the trash), 3 texts, 5 diffs, 2 calls, 1 edit, 2 ticks | the properties of `VaultFiles` |
| `vault_trash`, `vault_diff` | 2 calls; 1 call with 1 diff | `NotHardDeleted`, `DiffIsApplied` fail |

**Why the bounds are enough to meet the hard cases.** Two requests meet at every await of each other; ten
tags give a login, a rotation and a retry of it that lost its reply; lifetimes of 1 and 2 make an access
token die before its refresh token, and both within the run. Three timers are one that was cancelled
too late, one that is flushing and a new one. Two core names make a leftover of an earlier session under
another name; there is nothing at first, and sessions that crash leave it in every state. Two sessions
make a retry next to a startup that is late; two cleanups make a quit next to the main task's. Two edits and
two runs are enough to write, review, change and read back. Two plugins, one with a name that begins like the other's, and tools with names that look like prefixed ones, are what
routing could confuse. Notes of one name in two directories, with a third in the trash, meet in the
trash; the characters of texts (`Chars`) are two letters, one that stands for frontmatter, and the two line
ends; the diffs are an append, two hunks of which the first moves the second, an insertion at line 0 and one
that is malformed. What depends on larger values is proved (section 4).

Deadlock is checked where the system never stops (OAuth, index, containers); a program that ended, a wizard
that was left, a bounded number of calls and a gateway that waits for a silent plugin may stop.

**Fairness.** *Index:* the dispatcher, expired timers and a `stop` that began go on; armed timers expire.
*Containers:* startup and shutdown go on and commands return; none of the failures is forced, nor that the daemon ever
removes anything; `SessionEnds` then rests on the code's five-second limit to its poll. *Session:* the
event loop takes what a cleanup sends, cleanup tasks and their timer go on, connections drain and `main`
exits; nothing is assumed of startups, which may hang. *Router:* an attempt that need not wait for an answer
that never comes goes on, and the clock reaches the deadline; nobody is made to answer, since the HTTP client
has no timeout (`reqwest_proxy.rs:16`).

# 4. The proofs

Every invariant that a passing run checks is also proved for all values of the constants, and so are the
action properties and the refinement. Two more are proved and in no run: `NeverGoesRound`, the safety half of
`SessionEnds`, and `CallsAreAtomic` (each was model-checked on the instance of its module's run first); and of
`PrefixLeadsBack`, which fails, `NamesApartSuffice` proves under which names it holds. Each proof module of a
state machine has an inductive invariant `IInv` made of named parts, a step per action, a result `Invariance`,
and the properties as consequences.

| module | the inductive invariant says, beside types | theorems |
|---|---|---|
| `OAuthGatewayProofs` | who is at a place holds its mutexes, and who holds them is at such a place (`MutexInv`); what is stored was drawn (`FreshInv`); a login is in one of: an outstanding code, one handler's hands, one pair (`LoginInv`, `RowInv`); `ConsentInv`, `HeldInv`, `DurableInv`, `BearerInv` | `OneLivePair`, `SingleUse`, `Consent`, `DeadTokensStop`, `DeliveredSurvives`, `NobodyWaitsInACircle`, `Refinement` |
| `FrontmatterIndexProofs` | the timer of the handle waits or has just waited, and only a running flush has work (`TimerInv`), a pending path has a timer that `stop` is not about to cancel (`WakeupInv`), before the watch there is nothing to flush (`QuietInv`), what the scan or a flush has read is what the file said or is to be read again (`ScanInv`, `ReadInv`, `EntryInv`) | `NobodyLeftWaiting`, `SettledAgrees` |
| `ContainersProofs` | what a container can be (`BoxInv`), the way from the vault server through the plugins (`PlanInv`), a name being stopped is ours or gone (`TargetInv`), preflight and recreation lose sight of none (`RoomInv`), what runs is going to be stopped by somebody (`OwnerInv`) | `OthersSpared`, `RoomIsMade`, `LeavesNothing`; `NothingGoesRound`, from types alone |
| `SessionProofs` | sessions are started in turn and held by one (`OneAtATime`, `OneHolder`), a child is held (`TunnelsHeld`), a container has an owner or is loose (`ContainersKept`), a session under way has brought up what its place implies (`BroughtUp`) | `NoStrayTunnel`, `NothingIsLeftUnawares`, `ShownIsUp` |
| `SetupProofs` | files are assignments that are well formed and mean what was confirmed (`FilesInv`), `ProcessInv`, `LaunchedInv`, `ConfiguredInv`, `StartInv`, `PortsInv`, `ReviewInv` | `NoLockout`, `ConfirmedIsRun`, `FirstStartIsRun`, `PortsAreChecked`, `ReviewLosesNothing` |
| `RouterProofs` | each client's lists carry its prefix (`ShapeInv`, `ListedInv`), so does what the client was told (`ToldInv`) | `ListedToolsAreReached`, `ListedLinksAreReached`, `NamesApartSuffice`, `CredentialsStayApart`, `HonestCapability` |
| `VaultFilesProofs` | temporary files are those of the call under way (`TempsCounted`), what a call read or is owed is still there (`ReadIsThere`), stamps are not of the future (`StampsAreRecent`), `RenamesToNowhere`; files are texts (`FilesAreTexts`), what a diff tool is about to write is the diff applied to what it has read (`DiffInHand`), what a call is about to do is what it was asked (`CallInHand`), and the last answer is what the algorithm said (`LastDiff`) | `NoTextIsLost`, `VaultIsTidy`, `DiffsAreApplied`, `CallsTakeEffectAtOnce` |
| `UnifiedDiffProofs` | (no state) after each hunk the text is what is meant up to it, then what the original has behind it (`Reached`) | `PlainDiffs` |

Why the properties need strengthening, in three examples. *One pair per login* alone does not survive
`IssuePair`: one must know that the code being redeemed is in no map, no other handler and no row;
that is what `LoginInv` says. *Settled entries agree* needs to know of a flush that has read a file and not
stored it that the file is unchanged or will be read again, and that no other flush holds an older entry of it,
or that `untold` says so. *Confirmed settings are those that run* rests on
the lemma `RoundTrip`: reading what was written for confirmed settings gives what they mean, for every
combination of access mode, tunnel and ports; and two namesakes are told apart in *routing* by the lemmas
`ClaimsCompare` and `OneClaimant`: two prefixes of one name are comparable, so of names that keep apart at
most one claims it.

**Diffs, for every text and every diff.** `UnifiedDiff` is written with recursive functions on `0..n`, one per
loop of `patch.py`. What such a function computes is proved by induction; since the library states induction
with an operator as its parameter, `UnifiedDiffProofs` states it with a set (`SetInduction`,
`LoopInduction`) and takes it from the well-foundedness of the natural numbers. The lemmas `SplitDef`,
`JoinDef`, `PickDef`, `ReplacedDef`, `ApplyDef` and `MeantDef` give each function by its first value and its
step; `LinesJoined` and `LinesAreLines` say that splitting undoes joining. The argument is `Progress`: as long
as the hunks so far were accepted, the text is `Reached`, and the offset is by how much it is longer;
`HunkIsThere` then says that the code compares the hunk with the lines of the *original* text the
diff names. So a diff that fits is accepted (`FittingDiffs`) and one that is accepted fits (`AcceptedFits`).
The proof corrected the model: an earlier `Plain` allowed two insertions at line 0, of which the second would
have gone before the first. `DiffsAreApplied` adds that nobody, without being noticed in `raced`,
changes the note between the algorithm and the rename.

**What they assume.** The constants' assumptions in the modules, which TLC evaluates in the runs; none
of them leaves out a case of the code: what the code does not promise is in the statement of the property
(section 5). As the models do: the clock does not run backwards; one gateway uses a
token file; drawn codes and tokens never collide; the kernel's queue of file events does not overflow; the
vault server starts its index once; tool names are not empty. `TypeCorrect` (or `IndexTypeCorrect`, `ContainersTypeCorrect`) is proved of
each module.

**Model-checked only.** `IndexCatchesUp`, `StopCompletes`, `SessionEnds`,
`QuitLeavesTheScreen`, `QuitEndsTheProgram`, `GatewayServes`: liveness under fairness is out of the
prover's reach. Of `SessionEnds` the safety half is proved (`NothingGoesRound`); that a command is always
possible, and taken, stays with TLC. That a waiting OAuth handler gets done is neither: `NoCircularWait` is what
it needs of the code, beside mutexes that are FIFO and a scheduler that runs who can go on.

# 5. Findings, limits and observations

Five runs check what a document says and find it violated by what the code does.

1. `index_renames`: "In-memory index of YAML frontmatter across all vault .md files"
   (`frontmatter_index.py:1`). `on_moved` only logs (`:433`), and `write_file_atomic`, `vault_move` and
   `vault_delete` all end in a rename: the index does not follow the server's own writes.
2. `setup_card`: "When shown a login screen, enter the Username and Password displayed in Brain3's MCP
   Config Settings screen" (`README.MD:178`). A process launched with `--setup` has loaded the old file;
   `dotenvy::from_path` leaves variables alone that are set (`env_file.rs:46`), so the session started at
   once accepts the old password while the card shows the new one. A restart mends it.
3. `vault_trash`: "Files are moved to .trash/, not hard deleted" (`tools/manage.py:53`). The stamp added to
   a name that is taken is in seconds, and whether the stamped name is taken is not looked at
   (`vault.py:146`): of two notes of one name deleted in one second, with a third in the trash, one is gone.
4. `vault_diff`: "the preferred tool for … small appends at EOF" (`brain3-mcp-vault-tools/README.md:100`).
   A last line without a line end keeps none as context, and the added line is joined to it: `a` and `+b`
   give `ab` (`tools/patch.py:172`).
5. `router_names`: "two containers can't collide and so `tools/call` can be routed back to the right container
   by stripping the prefix" (`docs/superpowers/plans/2026-07-15-proxy-mcp-resources.md:52-54`). The names `a`
   and `a_` are both valid (`brain3_yaml.rs:233`), their prefixes `a__` and `a___` both begin `a___b`, and the
   first client that matches wins (`mcp_router.rs:199`): tool `b` of `a_` is called as `_b` of `a`, and not found
   there, or another tool. Resource URIs share it.

**Limits that a property states.** The exceptions below are in the statement of a property, because the code
does not promise more; the models have the excepted cases.

* `untold` in `SettledPathAgrees` and `IndexCatchesUp`: what changes between the scan's look and the watch;
  renames; and a file of which two flushes held an entry at once, since `_flush_pending` reads outside the lock
  (`frontmatter_index.py:343`) and of two overlapping flushes the older may install its entry last. Such an
  entry stays wrong until the next event of the file.
* `late` in `SparesOthers`: stops go by name (`startup.rs:165`, `:192`). If somebody else takes a name of the
  session after its own container went away, its shutdown stops their container, and collection or recreation
  one that took a name between the list and the stop.
* `trouble` in `NothingLeftBehind` and `RoomMade`: a failed command is reported and not retried.
* `loose` in `NothingLeftUnawares`: dropping a runtime does not stop containers; which ways lead there
  (a failed bind, a late session, a cut cleanup) is what the action definitions of `Session` show.
* `Shadowed` in `RoutedBack` and `LinksLead`: finding 5.
* `fetch.at = "silent"` in `GatewayServes`: a plugin that takes a request and never answers holds the gateway's
  start for ever: the deadline is looked at only between attempts (`server.rs:542`), and the HTTP client has no
  timeout. So does the core, which is asked for its tools when the plugins are done (`server.rs:466`).
* `Supported(d)` in `WrittenFilesLoad`: Docker with isolation on macOS is refused when the file is loaded
  (`env_file.rs:505`), and the wizard writes it: a hand-written file with Docker keeps its runtime through a
  review (`first_run_setup.rs:190`), and isolation is a switch of the page (`tui/state.rs:369`).
* `Plain(d)` in `Setup`: a typed password with `$` or the like is substituted by the parser of the file.
* `Plain(diff)`, `InOrder(diff)`, `raced`, `crowded` in `VaultFiles`: diffs at a last line without a line
  end, insertions other than one at the start, hunks that overlap or go back; an editor between read and
  replace (which `expected_hash` does not exclude either); a stamp given twice.

**Observations** that no property is about. `stop` cancels the timer before it stops the observer
(`frontmatter_index.py:137`), so that an event in between arms another. Recreation of a plugin
removes a Docker container while the daemon may be doing it (`startup.rs:531`). A retry competes for the
port with the session it replaces (`server.rs:402`). `g` on the password page (`README.MD:148`) is not reached while a generated one is
selected. A name in `brain3.yaml` counts as seen before its entry is validated (`brain3_yaml.rs:189`), so an
invalid entry shadows a valid one. `patch.py:167` speaks of keeping line ends, which reading the file has
made LF. An insertion after line 2 (`@@ -2,0 +3 @@`) goes before line 2.

# 6. Plan

Order, by how much depends on it: the OAuth core with its abstract specification; the index; containers;
the session that composes containers, tunnel, server and UI; the setup wizard; the vault tools; the
router; each with its proofs after its runs. All of these are done. What is left, in order:

1. directories as the source of moves and deletions, and `dry_run`, in `VaultFiles`;
2. an abstract specification of `Containers` (a session is off, coming, up, going) which `Session` uses
   for its start of a container, and the refinement between them;
3. measures like `NeverGoesRound` for the cleanups of `Session` and the `stop` of the index, and an
   abstract vault of atomic calls that `CallsAreAtomic` makes `VaultFiles` implement;
4. two logins at once in the OAuth run, which take more states than a run has room for (the theorems have any
   number);
5. the pid file of the tunnel, with a process that was killed;
6. the rate limiter's choice of the client address.

# 7. Not modelled, and why

* *Rate limiter*: the quota is governor's; a limited request is one that never arrives.
* *Cloudflare tunnel setup*, *scripts*: one command after another, with nothing beside them.
* *Transcription tool*: a call shares nothing with others but a model that is loaded once.
* *Pages, drawing, logs, diagnostics*: they change no state.
* *Images, mounts, environments of containers*: what can fail of them is `CommandFails` or `LaunchFails`. Of
  networks only the look at the one needed is (`EnsureNetwork`), which may find any. One name under both
  runtimes at once is left out.
* *Commands that hang*: container commands return (`process.rs:46` sets no timeout), which `SessionEnds`
  assumes. (Requests that hang are modelled, in `OAuthGateway` and `Router`.)
* *The tunnel's pid file* and the kill of a process by its number.
* *Syntax of the environment file* beyond which passwords it changes.
* *Reading tools, listings, search, moves of directories, dry runs* of the vault server.
* *File system errors*, except those of the write, the rename and the finalization.
* *Two gateway processes at once*, on one token file or one set of containers.
