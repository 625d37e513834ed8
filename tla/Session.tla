-------------------------------- MODULE Session --------------------------------
(***************************************************************************)
(* One run of the gateway program: startup tasks that bring up a session   *)
(* (vault container, tunnel, plugin containers, HTTP server), the terminal *)
(* UI or the command line that holds it, the cleanup tasks that a quit     *)
(* spawns, and the end of the process.                                     *)
(*                                                                         *)
(* The event loop, every startup task and every cleanup task run           *)
(* concurrently and hand sessions over through oneshot channels.  Rust     *)
(* drops what nobody holds any more: a dropped server handle starts a      *)
(* graceful shutdown, a dropped tunnel kills its cloudflared, a dropped    *)
(* runtime leaves its containers running.  How a container is started and  *)
(* removed is in Containers; here a container start is one step with all   *)
(* the outcomes that module has.                                           *)
(***************************************************************************)
EXTENDS Naturals, FiniteSets

CONSTANTS
  Modes,        \* ways to launch the program, to consider
  MaxSessions,  \* bound: startup tasks of one process
  MaxCleanups   \* bound: times the user quits (again, when it is possible)

ASSUME BoundAssumption == MaxSessions \in Nat \ {0} /\ MaxCleanups \in Nat \ {0}
ASSUME ModeAssumption == Modes \subseteq {"wizard", "configured", "cli"}

VARIABLES
  mode,       \* wizard: first run or --setup; configured: TUI; cli
  tunnelled,  \* config.tunnel is set
  step,       \* SetupStep, the wizard's pages being one; or how far main is
  finalize,   \* finalize_rx and the task at its other end
  startupRx,  \* the session startup_rx waits for
  runtime,    \* the session whose runtime and server the program holds
  cleanupRx,  \* the cleanup cleanup_rx waits for
  boot,       \* where each startup task is
  failure,    \* primary_failure_summary of each session
  owned,      \* what each session's runtime would stop
  container,  \* whose container runs under the name of each kind
  child,      \* sessions whose cloudflared is running
  server,     \* the HTTP server of each session
  release,    \* the shutdown tasks; 0 is the one of main
  loose       \* history: sessions of which something was let go

asked == <<mode, tunnelled>>
screen == <<step, finalize, startupRx, runtime, cleanupRx>>
tasks == <<boot, failure, owned>>
world == <<container, child, server>>
vars == <<asked, screen, tasks, world, release, loose>>

-----------------------------------------------------------------------------
Sessions == 1..MaxSessions
Cleanups == 1..MaxCleanups
Nobody == 0
Main == 0
Kinds == {"core", "plugin"}

BootStep == {"load", "core", "probe", "tunnel", "url", "plugins", "bind", "state", "send"}
Shutdown == [pc : {"idle", "server", "tunnel", "stops", "await", "done"},
             session : Sessions \cup {Nobody}, rx : Sessions \cup {Nobody},
             left : SUBSET Kinds]
Idle == [pc |-> "idle", session |-> Nobody, rx |-> Nobody, left |-> {}]

TypeOK ==
  /\ mode \in Modes
  /\ tunnelled \in BOOLEAN
  /\ step \in {"summary", "status", "shutting", "starting", "serving", "left", "gone"}
  /\ finalize \in {"none", "running", "ok", "failed"}
  /\ startupRx \in Sessions \cup {Nobody}
  /\ runtime \in Sessions \cup {Nobody}
  /\ cleanupRx \in Cleanups \cup {Nobody}
  /\ boot \in [Sessions -> BootStep \cup {"none", "sent", "failed", "over"}]
  /\ failure \in [Sessions -> {"none", "core", "tunnel"}]
  /\ owned \in [Sessions -> SUBSET (Kinds \cup {"tunnel"})]
  /\ container \in [Kinds -> Sessions \cup {Nobody}]
  /\ child \subseteq Sessions
  /\ server \in [Sessions -> {"none", "open", "draining", "closed"}]
  /\ release \in [Cleanups \cup {Main} -> Shutdown]
  /\ loose \subseteq Sessions

-----------------------------------------------------------------------------
Alive == step # "gone"
InTui == step \in {"summary", "status", "shutting"}

(* Somebody will receive what the startup task sends.                      *)
Awaited(k) ==
  \/ startupRx = k
  \/ \E c \in Cleanups : release[c].rx = k

At(k, s) == Alive /\ boot[k] = s
GoOn(k, s) == boot' = [boot EXCEPT ![k] = s]
Own(k, what) == owned' = [owned EXCEPT ![k] = @ \cup what]
Fail(k, what) == failure' = [failure EXCEPT ![k] = what]
Runs(kind, k) == container' = [container EXCEPT ![kind] = k]

(* Mutant of ChildrenAfterDrop: cloudflared spawned without kill_on_drop.  *)
DropSparesChildren(S) == child

(* kill_on_drop(true).                                                     *)
ChildrenAfterDrop(S) == child \ S

(* The watch channel of a dropped handle closes: graceful shutdown begins. *)
ServersAfterDrop(S) ==
  [k \in Sessions |-> IF k \in S /\ server[k] = "open" THEN "draining" ELSE server[k]]

(* The runtimes and servers of S are dropped without being shut down.      *)
Drop(S) ==
  /\ child' = ChildrenAfterDrop(S)
  /\ server' = ServersAfterDrop(S)
  /\ loose' = loose \cup S

(* A shutdown of session k (if any) that then waits for session rx.        *)
Begin(k, rx) ==
  [pc |-> CASE k # Nobody -> "server" [] k = Nobody /\ rx # Nobody -> "await" [] OTHER -> "done",
   session |-> k, rx |-> rx, left |-> {}]

(* The session of the next startup task.                                   *)
Next1(k) == /\ boot[k] = "none"
            /\ \A j \in Sessions : j < k => boot[j] # "none"

-----------------------------------------------------------------------------
(* main: what the program is asked to do.                                  *)

Flags == {"setup", "cloudflare-setup", "cli"}

ChooseLaunchMode(flags) ==
  CASE "setup" \in flags -> "reconfigure"
    [] "setup" \notin flags /\ "cloudflare-setup" \in flags -> "tunnel-setup"
    [] flags = {"cli"} -> "cli"
    [] flags = {} -> "tui"

(* Without an env file only the default one is set up.                     *)
WithoutEnvFile(launch, custom) ==
  IF launch = "tui" /\ ~custom THEN "first-run" ELSE "refused"

PlanLaunch(launch, envExists, custom) ==
  IF envExists THEN launch ELSE WithoutEnvFile(launch, custom)

(* The noninteractive_* refusals.                                          *)
NeedsTerminal(plan) == plan # "cli"

(* A named tunnel that is not provisioned yet ends in setup_tui, or in a   *)
(* refusal, and so does --cloudflare-setup; a first run has no tunnel.     *)
Admitted(plan, terminal, provisioned) ==
  /\ plan \notin {"refused", "tunnel-setup"}
  /\ NeedsTerminal(plan) => terminal
  /\ plan # "first-run" => provisioned

Plans == {PlanLaunch(ChooseLaunchMode(flags), envExists, custom) :
            flags \in SUBSET Flags, envExists \in BOOLEAN, custom \in BOOLEAN}

(* The launches that lead to this module.                                  *)
Launched ==
  {CASE plan \in {"first-run", "reconfigure"} -> "wizard"
     [] plan = "tui" -> "configured"
     [] plan = "cli" -> "cli" :
     plan \in {p \in Plans : \E terminal, provisioned \in BOOLEAN :
                               Admitted(p, terminal, provisioned)}}

Init ==
  /\ mode \in Launched \cap Modes
  /\ tunnelled \in BOOLEAN
  /\ step = CASE mode = "wizard" -> "summary"
              [] mode = "configured" -> "status"
              [] mode = "cli" -> "starting"
  /\ finalize = "none"
  /\ startupRx = IF mode = "wizard" THEN Nobody ELSE 1
  /\ runtime = Nobody
  /\ cleanupRx = Nobody
  /\ boot = [k \in Sessions |-> IF k = 1 /\ mode # "wizard" THEN "load" ELSE "none"]
  /\ failure = [k \in Sessions |-> "none"]
  /\ owned = [k \in Sessions |-> {}]
  /\ container = [kind \in Kinds |-> Nobody]
  /\ child = {}
  /\ server = [k \in Sessions |-> "none"]
  /\ release = [c \in Cleanups \cup {Main} |-> Idle]
  /\ loose = {}

-----------------------------------------------------------------------------
(* spawn_configured_gateway_session and bootstrap_configured_runtime.      *)

(* The configuration is read.                                              *)
Load(k) ==
  /\ At(k, "load")
  /\ GoOn(k, "core")
  /\ UNCHANGED <<asked, screen, failure, owned, world, release, loose>>

(* It is not valid, or ensure_named_tunnel_config_exists finds no file.    *)
LoadFails(k) ==
  /\ At(k, "load")
  /\ GoOn(k, "failed")
  /\ UNCHANGED <<asked, screen, failure, owned, world, release, loose>>

(* requires_explicit_gc: only a configured launch refuses.                 *)
RefuseCore(k) ==
  /\ At(k, "core") /\ mode # "wizard"
  /\ GoOn(k, "failed")
  /\ UNCHANGED <<asked, screen, failure, owned, world, release, loose>>

(* Reachable on its port.                                                  *)
StartCore(k) ==
  /\ At(k, "core")
  /\ Runs("core", k) /\ Own(k, {"core"}) /\ GoOn(k, "probe")
  /\ UNCHANGED <<asked, screen, failure, child, server, release, loose>>

(* StartupFailed: it was started, so it is the session's to stop, but it   *)
(* may have exited.                                                        *)
StartCoreInVain(k) ==
  /\ At(k, "core")
  /\ \E seen \in {k, Nobody} : Runs("core", seen)
  /\ Own(k, {"core"}) /\ Fail(k, "core") /\ GoOn(k, "send")
  /\ UNCHANGED <<asked, screen, child, server, release, loose>>

(* Nothing started; collection may have removed an earlier container.      *)
NoCore(k) ==
  /\ At(k, "core")
  /\ \E seen \in {container["core"], Nobody} : Runs("core", seen)
  /\ Fail(k, "core") /\ GoOn(k, "send")
  /\ UNCHANGED <<asked, screen, owned, child, server, release, loose>>

(* Any other error counts as "not started", even when it comes after       *)
(* docker run: then the container runs and nobody owns it.                 *)
LoseCore(k) ==
  /\ At(k, "core")
  /\ Runs("core", k) /\ loose' = loose \cup {k}
  /\ Fail(k, "core") /\ GoOn(k, "send")
  /\ UNCHANGED <<asked, screen, owned, child, server, release>>

(* probe_mcp_vault_list.                                                   *)
ProbePasses(k) ==
  /\ At(k, "probe")
  /\ GoOn(k, "tunnel")
  /\ UNCHANGED <<asked, screen, failure, owned, world, release, loose>>

ProbeFails(k) ==
  /\ At(k, "probe")
  /\ GoOn(k, "send") /\ Fail(k, "core")
  /\ UNCHANGED <<asked, screen, owned, world, release, loose>>

NoTunnel(k) ==
  /\ At(k, "tunnel") /\ ~tunnelled
  /\ GoOn(k, "plugins")
  /\ UNCHANGED <<asked, screen, failure, owned, world, release, loose>>

(* No cloudflared, no configuration or one for another port, a failed      *)
(* registry cleanup: before anything is spawned.                           *)
TunnelRefused(k) ==
  /\ At(k, "tunnel") /\ tunnelled
  /\ GoOn(k, "plugins") /\ Fail(k, "tunnel")
  /\ UNCHANGED <<asked, screen, owned, world, release, loose>>

SpawnTunnel(k) ==
  /\ At(k, "tunnel") /\ tunnelled
  /\ GoOn(k, "url") /\ child' = child \cup {k}
  /\ UNCHANGED <<asked, screen, failure, owned, container, server, release, loose>>

(* The URL appears in the log, or the process lives and is registered.     *)
TunnelReady(k) ==
  /\ At(k, "url")
  /\ Own(k, {"tunnel"}) /\ GoOn(k, "plugins")
  /\ UNCHANGED <<asked, screen, failure, world, release, loose>>

(* start_tunnel drops the adapter with the child it may have stored.       *)
TunnelFails(k) ==
  /\ At(k, "url")
  /\ Fail(k, "tunnel") /\ child' = ChildrenAfterDrop({k}) /\ GoOn(k, "plugins")
  /\ UNCHANGED <<asked, screen, owned, container, server, release, loose>>

(* start_plugin_mcp_containers, for one plugin: none in brain3.yaml, or it *)
(* failed and was stopped, an older one perhaps removed before.            *)
NoPlugin(k) ==
  /\ At(k, "plugins")
  /\ \E seen \in {container["plugin"], Nobody} : Runs("plugin", seen)
  /\ GoOn(k, "bind")
  /\ UNCHANGED <<asked, screen, failure, owned, child, server, release, loose>>

StartPlugin(k) ==
  /\ At(k, "plugins")
  /\ Runs("plugin", k) /\ Own(k, {"plugin"}) /\ GoOn(k, "bind")
  /\ UNCHANGED <<asked, screen, failure, child, server, release, loose>>

(* It failed, and so did its stop; or nobody knows that it was started.    *)
LosePlugin(k) ==
  /\ At(k, "plugins")
  /\ Runs("plugin", k) /\ loose' = loose \cup {k} /\ GoOn(k, "bind")
  /\ UNCHANGED <<asked, screen, failure, owned, child, server, release>>

PortFree == \A j \in Sessions : server[j] # "open"

(* bind_listener, bind_local_mcp_listener.                                 *)
Bind(k) ==
  /\ At(k, "bind") /\ PortFree
  /\ server' = [server EXCEPT ![k] = "open"]
  /\ GoOn(k, "state")
  /\ UNCHANGED <<asked, screen, failure, owned, container, child, release, loose>>

(* The startup task returns Err: its runtime and listeners are dropped.    *)
GiveUp(k) ==
  /\ GoOn(k, "failed")
  /\ child' = ChildrenAfterDrop({k})
  /\ server' = [server EXCEPT ![k] = "none"]
  /\ loose' = loose \cup {k}
  /\ UNCHANGED <<asked, screen, failure, owned, container, release>>

(* Mutant of BindFails: a port that is taken is only logged.               *)
BindFailureIgnored(k) ==
  /\ At(k, "bind")
  /\ GoOn(k, "send")
  /\ UNCHANGED <<asked, screen, failure, owned, world, release, loose>>

(* The port is taken, by another program or by this one.                   *)
BindFails(k) == At(k, "bind") /\ GiveUp(k)

(* build_gateway_state: token database and plugin clients.                 *)
BuildState(k) ==
  /\ At(k, "state")
  /\ GoOn(k, "send")
  /\ UNCHANGED <<asked, screen, failure, owned, world, release, loose>>

BuildStateFails(k) == At(k, "state") /\ GiveUp(k)

(* tx.send: the session is dropped when the receiver is gone.              *)
Send(k) ==
  /\ At(k, "send") /\ mode # "cli"
  /\ \/ Awaited(k) /\ GoOn(k, "sent") /\ UNCHANGED <<child, server, loose>>
     \/ ~Awaited(k) /\ GoOn(k, "over") /\ Drop({k})
  /\ UNCHANGED <<asked, screen, failure, owned, container, release>>

Boot(k) ==
  \/ Load(k) \/ LoadFails(k) \/ RefuseCore(k) \/ StartCore(k) \/ StartCoreInVain(k) \/ NoCore(k) \/ LoseCore(k)
  \/ ProbePasses(k) \/ ProbeFails(k)
  \/ NoTunnel(k) \/ TunnelRefused(k) \/ SpawnTunnel(k) \/ TunnelReady(k) \/ TunnelFails(k)
  \/ NoPlugin(k) \/ StartPlugin(k) \/ LosePlugin(k)
  \/ Bind(k) \/ BindFails(k) \/ BuildState(k) \/ BuildStateFails(k) \/ Send(k)

-----------------------------------------------------------------------------
(* The event loop of the terminal UI.                                      *)

(* Enter on the summary: finalize_and_start.                               *)
Confirm ==
  /\ step = "summary"
  /\ finalize' = "running"
  /\ startupRx' = Nobody
  /\ step' = "status"
  /\ UNCHANGED <<asked, runtime, cleanupRx, tasks, world, release, loose>>

Finalized ==
  /\ Alive /\ finalize = "running"
  /\ finalize' \in {"ok", "failed"}
  /\ UNCHANGED <<asked, step, startupRx, runtime, cleanupRx, tasks, world, release, loose>>

(* handle_runtime_tick, apply_finalize_result: whatever the step was.      *)
ApplyFinalize ==
  /\ InTui
  /\ \/ /\ finalize = "ok"
        /\ \E k \in Sessions :
             /\ Next1(k)
             /\ GoOn(k, "load")
             /\ startupRx' = k
        /\ step' = "status"
     \/ /\ finalize = "failed"
        /\ step' = "summary"
        /\ UNCHANGED <<boot, startupRx>>
  /\ finalize' = "none"
  /\ UNCHANGED <<asked, runtime, cleanupRx, failure, owned, world, release, loose>>

(* apply_startup_result: the runtime and server it replaces are dropped.   *)
ApplyStartup ==
  /\ InTui /\ startupRx # Nobody
  /\ \/ /\ boot[startupRx] = "sent"
        /\ Drop({runtime} \ {Nobody})
        /\ runtime' = startupRx
        /\ GoOn(startupRx, "over")
        /\ step' = IF mode # "wizard" THEN step
                   ELSE IF failure[startupRx] = "none" THEN "status" ELSE "summary"
     \/ /\ boot[startupRx] = "failed"
        /\ UNCHANGED <<child, server, loose, runtime, boot, step>>
  /\ startupRx' = Nobody
  /\ UNCHANGED <<asked, finalize, cleanupRx, failure, owned, container, release>>

(* q: initiate_shutdown.  An earlier cleanup goes on, unwatched.           *)
InitiateShutdown ==
  /\ InTui /\ step # "shutting"
  /\ \E c \in Cleanups :
       /\ release[c].pc = "idle" /\ \A b \in Cleanups : b < c => release[b].pc # "idle"
       /\ release' = [release EXCEPT ![c] = Begin(runtime, startupRx)]
       /\ cleanupRx' = c
  /\ runtime' = Nobody /\ startupRx' = Nobody /\ step' = "shutting"
  /\ UNCHANGED <<asked, finalize, tasks, world, loose>>

(* run_gateway_tui goes on to cleanup(), which shuts down what is held.    *)
GoToMain ==
  /\ step' = "left"
  /\ release' = [release EXCEPT ![Main] = Begin(runtime, Nobody)]
  /\ runtime' = Nobody

(* handle_runtime_tick sees the end of the cleanup it waits for.           *)
LeaveScreen ==
  /\ InTui /\ cleanupRx # Nobody
  /\ release[cleanupRx].pc = "done"
  /\ cleanupRx' = Nobody
  /\ GoToMain
  /\ UNCHANGED <<asked, finalize, startupRx, tasks, world, loose>>

(* Drawing or reading the terminal fails.                                  *)
TerminalFails ==
  /\ InTui
  /\ GoToMain
  /\ UNCHANGED <<asked, finalize, startupRx, cleanupRx, tasks, world, loose>>

Tui == Confirm \/ Finalized \/ ApplyFinalize \/ ApplyStartup \/ InitiateShutdown
       \/ LeaveScreen \/ TerminalFails

-----------------------------------------------------------------------------
(* run_cli_mode.                                                           *)

(* What main returns over: startups and cleanups that are under way.       *)
Unfinished ==
  {k \in Sessions :
     \/ boot[k] \in BootStep \cup {"sent"}
     \/ \E c \in Cleanups \cup {Main} : release[c].session = k}

(* The process ends: these are aborted, and what they hold is dropped.     *)
Gone == /\ step' = "gone"
        /\ child' = ChildrenAfterDrop(Sessions)
        /\ loose' = loose \cup Unfinished
        /\ UNCHANGED <<asked, finalize, startupRx, runtime, cleanupRx, tasks, container, server, release>>

(* Bails out without shutdown: configuration, refusal, or a core container *)
(* that is not ready; or the server could not be set up.                   *)
CliBails ==
  /\ step = "starting"
  /\ \/ boot[1] = "failed"
     \/ boot[1] = "send" /\ failure[1] = "core"
  /\ Gone

CliServes ==
  /\ step = "starting" /\ boot[1] = "send" /\ failure[1] # "core"
  /\ step' = "serving" /\ runtime' = 1 /\ startupRx' = Nobody
  /\ GoOn(1, "over")
  /\ UNCHANGED <<asked, finalize, cleanupRx, failure, owned, world, release, loose>>

(* ctrl-c.                                                                 *)
Interrupt ==
  /\ step = "serving"
  /\ GoToMain
  /\ UNCHANGED <<asked, finalize, startupRx, cleanupRx, tasks, world, loose>>

Cli == CliBails \/ CliServes \/ Interrupt

-----------------------------------------------------------------------------
(* GatewayServerHandle::shutdown and shutdown_managed_runtime, in a cleanup *)
(* task or in main.                                                        *)

In(c, pc) == Alive /\ release[c].pc = pc
Continue(c, pc) == release' = [release EXCEPT ![c].pc = pc]

(* What is left to do once the session of c is shut down.                  *)
Onwards(c) == Begin(Nobody, release[c].rx)

(* Mutant of AskServer: the handle is awaited without being told to stop.  *)
AskNobody(c) == FALSE

AskServer(c) ==
  /\ In(c, "server")
  /\ server[release[c].session] = "open"
  /\ server' = [server EXCEPT ![release[c].session] = "draining"]
  /\ UNCHANGED <<asked, screen, tasks, container, child, release, loose>>

(* Every connection has ended: as long as that takes.                      *)
Drained(k) ==
  /\ Alive /\ server[k] = "draining"
  /\ server' = [server EXCEPT ![k] = "closed"]
  /\ UNCHANGED <<asked, screen, tasks, container, child, release, loose>>

ServerEnded(c) ==
  /\ In(c, "server")
  /\ server[release[c].session] \in {"none", "closed"}
  /\ Continue(c, "tunnel")
  /\ UNCHANGED <<asked, screen, tasks, world, loose>>

(* In main an error of the server ends everything, the containers left.    *)
ServerErrs ==
  /\ In(Main, "server")
  /\ server[release[Main].session] \in {"draining", "closed"}
  /\ Gone

(* Mutant of StopTunnel: the plugin containers are forgotten.              *)
StopTunnelForCore(c) ==
  /\ In(c, "tunnel")
  /\ child' = child \ {release[c].session}
  /\ release' = [release EXCEPT ![c].pc = "stops",
                                ![c].left = owned[release[c].session] \cap {"core"}]
  /\ UNCHANGED <<asked, screen, tasks, container, server, loose>>

(* Mutant of StopTunnel: the tunnel is to be stopped as a container, too.  *)
StopTunnelTwice(c) ==
  /\ In(c, "tunnel")
  /\ child' = child \ {release[c].session}
  /\ release' = [release EXCEPT ![c].pc = "stops",
                                ![c].left = owned[release[c].session]]
  /\ UNCHANGED <<asked, screen, tasks, container, server, loose>>

(* stop_tunnel: SIGTERM, then SIGKILL.                                     *)
StopTunnel(c) ==
  /\ In(c, "tunnel")
  /\ child' = child \ {release[c].session}
  /\ release' = [release EXCEPT ![c].pc = "stops",
                                ![c].left = owned[release[c].session] \cap Kinds]
  /\ UNCHANGED <<asked, screen, tasks, container, server, loose>>

(* One of the concurrent stops: by name, whoever the container is of.      *)
StopContainer(c, kind) ==
  /\ In(c, "stops") /\ kind \in release[c].left
  /\ \/ Runs(kind, Nobody) /\ UNCHANGED loose
     \/ /\ UNCHANGED container
        /\ loose' = loose \cup ({container[kind]} \ {Nobody})
  /\ release' = [release EXCEPT ![c].left = @ \ {kind}]
  /\ UNCHANGED <<asked, screen, tasks, child, server>>

StopsEnded(c) ==
  /\ In(c, "stops") /\ release[c].left = {}
  /\ release' = [release EXCEPT ![c] = Onwards(c)]
  /\ UNCHANGED <<asked, screen, tasks, world, loose>>

(* The startup the quit did not wait for ends: shut it down as well.       *)
LateSession(c) ==
  /\ In(c, "await")
  /\ \/ /\ boot[release[c].rx] = "sent"
        /\ GoOn(release[c].rx, "over")
        /\ release' = [release EXCEPT ![c] = Begin(release[c].rx, Nobody)]
     \/ /\ boot[release[c].rx] = "failed"
        /\ release' = [release EXCEPT ![c] = Begin(Nobody, Nobody)]
        /\ UNCHANGED boot
  /\ UNCHANGED <<asked, screen, failure, owned, world, loose>>

(* Mutant of TimeOut: the timer does not cover the wait for a startup.     *)
TimeOutOfStops(c) ==
  /\ c # Main /\ Alive
  /\ release[c].pc \in {"server", "tunnel", "stops"}
  /\ \E done \in SUBSET release[c].left :
       container' = [kind \in Kinds |-> IF kind \in done THEN Nobody ELSE container[kind]]
  /\ LET sent == {k \in Sessions : k = release[c].rx /\ boot[k] = "sent"} IN
     /\ Drop(sent \cup ({release[c].session} \ {Nobody}))
     /\ boot' = [k \in Sessions |-> IF k \in sent THEN "over" ELSE boot[k]]
  /\ release' = [release EXCEPT ![c] = Begin(Nobody, Nobody)]
  /\ UNCHANGED <<asked, screen, failure, owned>>

(* shutdown_cleanup_timeout, not for main: the task drops what it holds.   *)
(* A docker stop that was begun goes on.                                   *)
TimeOut(c) ==
  /\ c # Main /\ Alive
  /\ release[c].pc \in {"server", "tunnel", "stops", "await"}
  /\ \E done \in SUBSET release[c].left :
       container' = [kind \in Kinds |-> IF kind \in done THEN Nobody ELSE container[kind]]
  /\ LET sent == {k \in Sessions : k = release[c].rx /\ boot[k] = "sent"} IN
     /\ Drop(sent \cup ({release[c].session} \ {Nobody}))
     /\ boot' = [k \in Sessions |-> IF k \in sent THEN "over" ELSE boot[k]]
  /\ release' = [release EXCEPT ![c] = Begin(Nobody, Nobody)]
  /\ UNCHANGED <<asked, screen, failure, owned>>

Exit ==
  /\ step = "left" /\ release[Main].pc = "done"
  /\ Gone

Shut(c) ==
  \/ AskServer(c) \/ ServerEnded(c) \/ StopTunnel(c) \/ StopsEnded(c) \/ LateSession(c)
  \/ \E kind \in Kinds : StopContainer(c, kind)

Next ==
  \/ \E k \in Sessions : Boot(k) \/ Drained(k)
  \/ Tui
  \/ Cli
  \/ \E c \in Cleanups \cup {Main} : Shut(c) \/ TimeOut(c)
  \/ ServerErrs
  \/ Exit

Spec == Init /\ [][Next]_vars

(* The event loop polls every 200 ms; tasks are scheduled; the timer of a  *)
(* cleanup runs; commands of the runtime and connections end some time.    *)
(* Nothing is assumed of startup tasks.                                    *)
Fairness ==
  /\ WF_vars(LeaveScreen)
  /\ WF_vars(Exit)
  /\ \A c \in Cleanups \cup {Main} : WF_vars(Shut(c)) /\ WF_vars(TimeOut(c))
  /\ \A k \in Sessions : WF_vars(Drained(k))

FairSpec == Spec /\ Fairness

-----------------------------------------------------------------------------
(* Properties.                                                             *)

(* A container that outlives the program belongs to a session of which     *)
(* something was let go: its startup or its delivery failed, it was        *)
(* replaced by a retry, the timer cut its cleanup short, a stop failed, or *)
(* it was still under way at exit.  A session that the program got hold of *)
(* and kept has its containers stopped, whatever ran at the same time.     *)
NothingLeftUnawares ==
  step = "gone" => \A kind \in Kinds : container[kind] \in loose \cup {Nobody}

(* Who still holds the tunnel of session k.                                *)
Holds(k) ==
  \/ boot[k] \in BootStep \cup {"sent"}
  \/ runtime = k
  \/ \E c \in Cleanups \cup {Main} :
       release[c].session = k /\ release[c].pc \in {"server", "tunnel"}

(* No stray cloudflared: each one belongs to a startup that is under way,  *)
(* or to a session that can still stop it; and there is only one.          *)
TunnelsAreHeld ==
  /\ \A k \in child : Holds(k)
  /\ \A j, k \in child : j = k

(* What the status screen calls running is running: nothing the program    *)
(* did for another session took its container, its server or its tunnel.   *)
RunningIsUp ==
  \A k \in Sessions :
    (/\ step = "status" /\ runtime = k /\ failure[k] = "none"
     /\ startupRx = Nobody /\ finalize = "none" /\ cleanupRx = Nobody) =>
      /\ container["core"] = k
      /\ server[k] = "open"
      /\ tunnelled => k \in child

(* Asking to quit leaves the screen, even when a startup never ends.       *)
QuitLeavesTheScreen == cleanupRx # Nobody ~> ~InTui

(* And once the screen is left the program ends, if connections do.        *)
QuitEndsTheProgram == step = "left" ~> step = "gone"
=============================================================================
