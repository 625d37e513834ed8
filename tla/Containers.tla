------------------------------ MODULE Containers ------------------------------
(***************************************************************************)
(* The containers of a Brain3 installation: preflight and collection of    *)
(* what an earlier session left, recreation of plugin containers, start    *)
(* and verification, and the stop at shutdown.                             *)
(*                                                                         *)
(* One gateway process at a time drives a container runtime that outlives  *)
(* it, by name and through command lines.  Meanwhile containers exit by    *)
(* themselves, the Docker daemon removes the ones started with --rm when   *)
(* it gets to it, and other people use the same runtime.  A step is one    *)
(* command of the runtime, or what the process does between two of them.   *)
(***************************************************************************)
EXTENDS Naturals, FiniteSets

CONSTANTS
  CoreNames,     \* container names the owner may configure for the vault server
  Plugins,       \* plugin containers the owner may configure, by name
  DockerChoices, \* the sets of names that are run by Docker, to consider
  Policies       \* startup policies to consider

Core == "core"         \* the role label of the vault server
Foreign == "foreign"   \* not labelled by this installation

ASSUME NameAssumption ==
  /\ CoreNames # {}
  /\ CoreNames \cap Plugins = {}
  /\ {Core, Foreign} \cap Plugins = {}
ASSUME ChoiceAssumption ==
  /\ DockerChoices # {}
  /\ DockerChoices \subseteq SUBSET (CoreNames \cup Plugins)
  /\ Policies # {}
  /\ Policies \subseteq {"skip", "refuse", "collect"}

VARIABLES
  box,      \* the container of each name, as the runtime has it
  docker,   \* the names run by Docker; the others are Apple containers
  policy,   \* RuntimeStartupPolicy of this session
  core,     \* the configured name of the vault server
  pc,       \* what the process is doing
  name,     \* the container being started
  todo,     \* plugins of brain3.yaml not looked at yet
  listed,   \* containers collection has yet to treat
  target,   \* the one it is removing
  owned,    \* what the session has to stop when it ends
  stops,    \* where the stop of a container is
  trouble   \* history: a command failed, or the process ended without shutdown

program == <<policy, core, pc, name, todo, listed, target, owned, stops, trouble>>
vars == <<box, docker, program>>

-----------------------------------------------------------------------------
Names == CoreNames \cup Plugins
Roles == Plugins \cup {Core, Foreign}

(* A Docker container that stops is exited until the daemon takes it up    *)
(* and removing until it is gone.  mine: this session started it; late: it *)
(* took a name that this session was about to stop or remove.              *)
Box == [state : {"absent", "running", "exited", "removing"},
        role : Roles, mine : BOOLEAN, late : BOOLEAN]
Container(state, role) ==
  [state |-> state, role |-> role, mine |-> FALSE, late |-> FALSE]
Nothing == Container("absent", Foreign)

Managed == [name : Names, running : BOOLEAN]

Startup == {"preflight", "collecting", "awaitingRemoval", "removing", "ensuring",
            "networking", "launching", "verifying", "probing", "plugins", "undoing",
            "recreateExists", "recreateList", "recreateRunning",
            "recreateStop", "recreateRemove"}
Location == Startup \cup {"down", "up", "failed", "stopping"}
StopLocation == {"idle", "exists", "running", "stop", "remove"}

TypeOK ==
  /\ box \in [Names -> Box]
  /\ docker \in DockerChoices
  /\ policy \in Policies
  /\ core \in CoreNames
  /\ pc \in Location
  /\ name \in Names
  /\ todo \subseteq Plugins
  /\ listed \subseteq Managed
  /\ target \in Names
  /\ owned \subseteq Names
  /\ stops \in [Names -> StopLocation]
  /\ trouble \in BOOLEAN

-----------------------------------------------------------------------------
(* The runtime.                                                            *)

Present(n) == box[n].state # "absent"
Running(n) == box[n].state = "running"

(* plugin_mcp_role_label and the role of the vault server.                 *)
RoleOf(n) == IF n \in Plugins THEN n ELSE Core

(* What the run command makes of the two container configurations: the     *)
(* labels hold the role.                                                   *)
CoreContainer(state) == [Container(state, Core) EXCEPT !.mine = TRUE]
PluginContainer(p, state) == [Container(state, p) EXCEPT !.mine = TRUE]

(* Mutant of Created: every container has its name for a role.             *)
NameAsRole(n, state) == PluginContainer(n, state)

Created(n, state) ==
  IF n \in Plugins THEN PluginContainer(n, state) ELSE CoreContainer(state)

(* Each runtime is asked through a port of its own.                        *)
SameRuntime(n) == n \in docker <=> name \in docker

(* managed_container_scope, list_managed_containers: by label, running or  *)
(* not, the ones the daemon is removing included.                          *)
ManagedContainers(role) ==
  {[name |-> n, running |-> Running(n)] :
     n \in {m \in Names : Present(m) /\ SameRuntime(m) /\ box[m].role = role}}

Become(n, state) == box' = [box EXCEPT ![n].state = state]
Vanish(n) == box' = [box EXCEPT ![n] = Nothing]

(* exists and is_running answer "no" when the command exits with an error  *)
(* and fail only when it cannot be started.                                *)
Look(truth, seen) ==
  /\ seen => truth
  /\ trouble' = (trouble \/ seen # truth)

(* stop: succeeds unless there is no such container.                       *)
StopCommand(n) ==
  /\ Present(n)
  /\ Become(n, IF Running(n) THEN "exited" ELSE box[n].state)

(* What docker rm and container delete do without --force.                 *)
RemoveCommand(n) == box[n].state = "exited" /\ Vanish(n)

SomethingFails == trouble' = TRUE
NothingFails == UNCHANGED trouble

-----------------------------------------------------------------------------
(* bootstrap_configured_runtime and start_plugin_mcp_containers.           *)

Init ==
  /\ box = [n \in Names |-> Nothing]
  /\ docker \in DockerChoices
  /\ policy \in Policies
  /\ core \in CoreNames
  /\ pc = "down"
  /\ name = core
  /\ todo = {}
  /\ listed = {}
  /\ target = core
  /\ owned = {}
  /\ stops = [n \in Names |-> "idle"]
  /\ trouble = FALSE

(* A session: its policy, its container name and its plugins are what the  *)
(* owner has configured by now, a vault server or none.  Nothing in the    *)
(* runtime is of this session.                                             *)
Start ==
  /\ pc = "down"
  /\ policy' \in Policies
  /\ core' \in CoreNames
  /\ name' = core'
  /\ todo' \in SUBSET Plugins
  /\ pc' \in {"preflight", "plugins"}
  /\ owned' = {}
  /\ trouble' = FALSE
  /\ box' = [n \in Names |-> Container(box[n].state, box[n].role)]
  /\ UNCHANGED <<docker, listed, target, stops>>

Goto(location) ==
  /\ pc' = location
  /\ UNCHANGED <<docker, policy, core, name, todo, listed, target, owned, stops>>

(* Mutant of StartedContainer: one that failed its verification is not     *)
(* counted.                                                                *)
NeverStarted(error) == FALSE

(* ContainerError::started_container and requires_explicit_gc.             *)
StartedContainer(error) == error = "StartupFailed"
RequiresExplicitGc(error) == error = "OrphanedManagedContainers"

(* The container that is being started fails.  Without the vault server    *)
(* the session goes on only to show why; without a plugin it goes on.      *)
CoreFails(error) ==
  /\ name = core
  /\ pc' = IF RequiresExplicitGc(error) THEN "down" ELSE "failed"
  /\ owned' = IF StartedContainer(error) THEN {name} ELSE {}
  /\ UNCHANGED stops

PluginFails(error) ==
  /\ name # core
  /\ pc' = IF StartedContainer(error) THEN "undoing" ELSE "plugins"
  /\ stops' = IF StartedContainer(error) THEN [stops EXCEPT ![name] = "exists"]
                                         ELSE stops
  /\ UNCHANGED owned

StartFails(error) ==
  /\ CoreFails(error) \/ PluginFails(error)
  /\ listed' = {}
  /\ UNCHANGED <<docker, policy, core, name, todo, target>>

(* Any command of the startup that cannot be run or fails unexpectedly,    *)
(* those without a location of their own included: the free port, the      *)
(* image, the network.  In verifying, only that is_running cannot be run.  *)
CommandFails ==
  /\ pc \in Startup \ {"probing", "plugins", "undoing", "launching"}
  /\ pc = "preflight" => policy # "skip"
  /\ pc = "collecting" => \E c \in listed : c.running
  /\ SomethingFails
  /\ StartFails("Other")
  /\ UNCHANGED box

-----------------------------------------------------------------------------
(* recreate_existing_managed_plugin_container_if_present.                  *)

RecreateExists ==
  /\ pc = "recreateExists"
  /\ \E seen \in BOOLEAN :
       /\ Look(Present(name), seen)
       /\ Goto(IF seen THEN "recreateList" ELSE "preflight")
  /\ UNCHANGED box

(* Mutant of IsManaged: any container of that name.                        *)
IsPresent(n) == Present(n)

(* Whether a same-name container is this installation's to recreate.       *)
IsManaged(n) == \E c \in ManagedContainers(RoleOf(n)) : c.name = n

RecreateList ==
  /\ pc = "recreateList"
  /\ Goto(IF IsManaged(name) THEN "recreateRunning" ELSE "preflight")
  /\ NothingFails
  /\ UNCHANGED box

RecreateRunning ==
  /\ pc = "recreateRunning"
  /\ \E seen \in BOOLEAN :
       /\ Look(Running(name), seen)
       /\ Goto(IF seen THEN "recreateStop" ELSE "recreateRemove")
  /\ UNCHANGED box

RecreateStop ==
  /\ pc = "recreateStop"
  /\ \/ StopCommand(name) /\ Goto("recreateRemove")
     \/ ~Present(name) /\ Goto("preflight") /\ UNCHANGED box
  /\ NothingFails

(* A removal in progress is an error that nothing expects, and so is a     *)
(* container that runs after all.                                          *)
RecreateRemove ==
  /\ pc = "recreateRemove"
  /\ \/ RemoveCommand(name) /\ Goto("preflight")
     \/ ~Present(name) /\ Goto("preflight") /\ UNCHANGED box
     \/ box[name].state \in {"removing", "running"} /\ StartFails("Other") /\ UNCHANGED box
  /\ NothingFails

-----------------------------------------------------------------------------
(* maybe_handle_managed_container_orphans.                                 *)

SkipPreflight ==
  /\ pc = "preflight"
  /\ policy = "skip"
  /\ Goto("ensuring")
  /\ NothingFails
  /\ UNCHANGED box

Preflight ==
  /\ pc = "preflight"
  /\ policy # "skip"
  /\ LET found == ManagedContainers(RoleOf(name)) IN
     \/ found = {} /\ Goto("ensuring")
     \/ /\ found # {}
        /\ policy = "refuse"
        /\ StartFails("OrphanedManagedContainers")
     \/ /\ found # {}
        /\ policy = "collect"
        /\ pc' = "collecting"
        /\ listed' = found
        /\ UNCHANGED <<docker, policy, core, name, todo, target, owned, stops>>
  /\ NothingFails
  /\ UNCHANGED box

(* docker ps and docker inspect are two commands: a container that goes    *)
(* away in between makes the second fail.                                  *)
ListedOneGoesAway ==
  /\ pc \in {"preflight", "recreateList"}
  /\ pc = "preflight" => policy # "skip"
  /\ name \in docker
  /\ \E n \in docker :
       /\ box[n].state = "removing"
       /\ box[n].role = RoleOf(name)
       /\ Vanish(n)
  /\ StartFails("Other")
  /\ NothingFails

-----------------------------------------------------------------------------
(* garbage_collect_managed_containers.  Each list is looked at once, what  *)
(* it says is used later.  Only Docker's answer that a container is gone   *)
(* is understood after a stop.                                             *)

Collected ==
  /\ pc = "collecting"
  /\ listed = {}
  /\ Goto("ensuring")
  /\ NothingFails
  /\ UNCHANGED box

(* Mutant of AfterStop: --rm is trusted to be quick.                       *)
TrustTheDaemon(n) == IF n \in docker THEN "collecting" ELSE "removing"

(* Docker removes what it runs, Apple's containers are removed here.       *)
AfterStop(n) == IF n \in docker THEN "awaitingRemoval" ELSE "removing"

CollectOne ==
  /\ pc = "collecting"
  /\ \E c \in listed :
       /\ listed' = listed \ {c}
       /\ target' = c.name
       /\ \/ c.running /\ StopCommand(c.name) /\ pc' = AfterStop(c.name)
          \/ /\ c.running /\ ~Present(c.name) /\ c.name \in docker
             /\ pc' = "collecting" /\ UNCHANGED box
          \/ ~c.running /\ pc' = AfterStop(c.name) /\ UNCHANGED box
  /\ NothingFails
  /\ UNCHANGED <<docker, policy, core, name, todo, owned, stops>>

(* wait_for_container_gone: polls until it is gone or five seconds passed. *)
RemovalSeen ==
  /\ pc = "awaitingRemoval"
  /\ Look(Present(target), FALSE)
  /\ Goto("collecting")
  /\ UNCHANGED box

(* Mutant of RemovalTimesOut: polls for as long as it takes.               *)
NeverTimesOut == FALSE /\ UNCHANGED vars

RemovalTimesOut ==
  /\ pc = "awaitingRemoval"
  /\ Present(target)
  /\ StartFails("Other")
  /\ NothingFails
  /\ UNCHANGED box

RemoveCollected ==
  /\ pc = "removing"
  /\ \/ RemoveCommand(target)
     \/ ~Present(target) /\ UNCHANGED box
  /\ Goto("collecting")
  /\ NothingFails

-----------------------------------------------------------------------------
(* EnsureContainerUseCase::ensure.                                         *)

Ensure ==
  /\ pc = "ensuring"
  /\ \E seen \in BOOLEAN :
       /\ Look(Present(name), seen)
       /\ \/ seen /\ StartFails("Conflict")
          \/ ~seen /\ Goto("networking")
  /\ UNCHANGED box

NetworkState == {"missing", "compatible", "incompatible"}

(* ensure_network: it creates the one that is missing and refuses one that *)
(* is not internal, where isolation is asked for.  Networks are not        *)
(* modelled, so any may be found.                                          *)
EnsureNetwork ==
  /\ pc = "networking"
  /\ \E found \in NetworkState :
       \/ found = "incompatible" /\ StartFails("Conflict")
       \/ found # "incompatible" /\ Goto("launching")
  /\ NothingFails
  /\ UNCHANGED box

Launch ==
  /\ pc = "launching"
  /\ ~Present(name)
  /\ box' = [box EXCEPT ![name] = Created(name, "running")]
  /\ Goto("verifying")
  /\ NothingFails

(* Somebody was faster.                                                    *)
LaunchConflicts ==
  /\ pc = "launching"
  /\ Present(name)
  /\ StartFails("CommandFailed")
  /\ NothingFails
  /\ UNCHANGED box

(* The run command fails, on a port for one, or only its end is lost; the  *)
(* bridge cannot be attached.  What was created may be gone or not.        *)
LaunchFails ==
  /\ pc = "launching"
  /\ \/ UNCHANGED box
     \/ /\ ~Present(name)
        /\ \E state \in {"running", "exited"} :
             box' = [box EXCEPT ![name] = Created(name, state)]
  /\ SomethingFails
  /\ StartFails("CommandFailed")

(* verify_startup: running and reachable ...                               *)
Verified ==
  /\ pc = "verifying"
  /\ Running(name)
  /\ owned' = owned \cup {name}
  /\ pc' = IF name = core THEN "probing" ELSE "plugins"
  /\ NothingFails
  /\ UNCHANGED <<box, docker, policy, core, name, todo, listed, target, stops>>

(* ... or it exited, has no address, or two minutes passed.                *)
VerificationFails ==
  /\ pc = "verifying"
  /\ StartFails("StartupFailed")
  /\ NothingFails
  /\ UNCHANGED box

(* probe_mcp_vault_list: the container stays, and is the session's.        *)
Probe ==
  /\ pc = "probing"
  /\ \E healthy \in BOOLEAN : Goto(IF healthy THEN "plugins" ELSE "failed")
  /\ NothingFails
  /\ UNCHANGED box

NextPlugin ==
  /\ pc = "plugins"
  /\ \E p \in todo :
       /\ todo' = todo \ {p}
       /\ name' = p
  /\ pc' = "recreateExists"
  /\ NothingFails
  /\ UNCHANGED <<box, docker, policy, core, listed, target, owned, stops>>

PluginsDone ==
  /\ pc = "plugins"
  /\ todo = {}
  /\ Goto("up")
  /\ NothingFails
  /\ UNCHANGED box

-----------------------------------------------------------------------------
(* stop_mcp_container and stop_plugin_mcp_container, after a failed start  *)
(* of a plugin and, for all that the session owns at once, at its end.     *)

StopGoto(n, location) ==
  /\ stops' = [stops EXCEPT ![n] = location]
  /\ UNCHANGED <<docker, policy, core, pc, name, todo, listed, target, owned>>

(* Docker containers remove themselves.                                    *)
AfterStopped(n) == IF n \in docker THEN "idle" ELSE "remove"

StopExists(n) ==
  /\ stops[n] = "exists"
  /\ \E seen \in BOOLEAN :
       /\ Look(Present(n), seen)
       /\ StopGoto(n, IF seen THEN "running" ELSE "idle")
  /\ UNCHANGED box

StopRunning(n) ==
  /\ stops[n] = "running"
  /\ \E seen \in BOOLEAN :
       /\ Look(Running(n), seen)
       /\ StopGoto(n, IF seen THEN "stop" ELSE AfterStopped(n))
  /\ UNCHANGED box

StopStop(n) ==
  /\ stops[n] = "stop"
  /\ \/ StopCommand(n) /\ StopGoto(n, AfterStopped(n))
     \/ ~Present(n) /\ StopGoto(n, "idle") /\ UNCHANGED box
  /\ NothingFails

StopRemove(n) ==
  /\ stops[n] = "remove"
  /\ RemoveCommand(n) \/ (box[n].state # "exited" /\ UNCHANGED box)
  /\ StopGoto(n, "idle")
  /\ NothingFails

(* Errors are logged and the shutdown goes on.                             *)
StopFails(n) ==
  /\ stops[n] # "idle"
  /\ StopGoto(n, "idle")
  /\ SomethingFails
  /\ UNCHANGED box

AllStopped == \A n \in Names : stops[n] = "idle"

(* stop_failed_plugin_container returns.                                   *)
Undone ==
  /\ pc = "undoing"
  /\ AllStopped
  /\ Goto("plugins")
  /\ NothingFails
  /\ UNCHANGED box

(* shutdown_managed_runtime: from the terminal UI also after a failed start.*)
Shutdown ==
  /\ pc \in {"up", "failed"}
  /\ pc' = "stopping"
  /\ stops' = [n \in Names |-> IF n \in owned THEN "exists" ELSE "idle"]
  /\ NothingFails
  /\ UNCHANGED <<box, docker, policy, core, name, todo, listed, target, owned>>

ShutdownDone ==
  /\ pc = "stopping"
  /\ AllStopped
  /\ Goto("down")
  /\ NothingFails
  /\ UNCHANGED box

(* The process dies; or run_cli_mode gives up on a failed vault server, or *)
(* on a server error, and leaves without shutdown_managed_runtime.         *)
Crash ==
  /\ pc # "down"
  /\ pc' = "down"
  /\ listed' = {}
  /\ stops' = [n \in Names |-> "idle"]
  /\ SomethingFails
  /\ UNCHANGED <<box, docker, policy, core, name, todo, target, owned>>

-----------------------------------------------------------------------------
(* Everybody else.                                                         *)

Exits(n) ==
  /\ Running(n)
  /\ Become(n, "exited")
  /\ UNCHANGED <<docker, program>>

(* remove_on_exit: --rm, for what this installation runs under Docker.     *)
DaemonRemoves(n) ==
  /\ n \in docker
  /\ box[n].role # Foreign
  /\ \/ box[n].state = "exited" /\ Become(n, "removing")
     \/ box[n].state = "removing" /\ Vanish(n)
  /\ UNCHANGED <<docker, program>>

(* What the process will stop or remove by name, and took for a container  *)
(* of this installation when it looked: the one being recreated, the ones  *)
(* it listed for collection, the one whose start it watches, what the      *)
(* session has to stop at its end or is stopping.                          *)
Claimed(n) ==
  \/ n = name /\ pc \in {"recreateRunning", "recreateStop", "recreateRemove", "verifying"}
  \/ \E c \in listed : c.name = n
  \/ n = target /\ pc \in {"awaitingRemoval", "removing"}
  \/ n \in owned /\ pc \notin {"down", "stopping"}
  \/ stops[n] # "idle"

(* Somebody, another installation for one, takes a free name at any time.  *)
ForeignArrives(n) ==
  /\ ~Present(n)
  /\ box' = [box EXCEPT ![n] = [state |-> "running", role |-> Foreign,
                                mine |-> FALSE, late |-> Claimed(n)]]
  /\ UNCHANGED <<docker, program>>

ForeignLeaves(n) ==
  /\ Present(n)
  /\ box[n].role = Foreign
  /\ Vanish(n)
  /\ UNCHANGED <<docker, program>>

-----------------------------------------------------------------------------
Stopping(n) ==
  StopExists(n) \/ StopRunning(n) \/ StopStop(n) \/ StopRemove(n) \/ StopFails(n)

Starting ==
  \/ CommandFails
  \/ RecreateExists \/ RecreateList \/ RecreateRunning \/ RecreateStop \/ RecreateRemove
  \/ SkipPreflight \/ Preflight \/ ListedOneGoesAway
  \/ Collected \/ CollectOne \/ RemovalSeen \/ RemovalTimesOut \/ RemoveCollected
  \/ Ensure \/ EnsureNetwork \/ Launch \/ LaunchConflicts \/ LaunchFails
  \/ Verified \/ VerificationFails \/ Probe
  \/ NextPlugin \/ PluginsDone \/ Undone

Others ==
  \E n \in Names : Exits(n) \/ DaemonRemoves(n) \/ ForeignArrives(n) \/ ForeignLeaves(n)

Next ==
  \/ Start \/ Starting \/ Shutdown \/ ShutdownDone \/ Crash
  \/ \E n \in Names : Stopping(n)
  \/ Others

Spec == Init /\ [][Next]_vars

(* The process goes on with a startup and with a shutdown, and commands    *)
(* return.  Nobody has to start or end a session, nothing has to fail, and *)
(* the daemon may never remove anything.                                   *)
FairSpec ==
  /\ Spec
  /\ WF_vars(Starting /\ UNCHANGED trouble)
  /\ WF_vars(ShutdownDone)
  /\ \A n \in Names : WF_vars(Stopping(n) /\ UNCHANGED trouble)

-----------------------------------------------------------------------------
(* What this session may touch: what it started itself; what an earlier    *)
(* one left of the vault server, if the owner asked for collection; what   *)
(* an earlier one left of the plugin of that name.                         *)
Ours(n) ==
  \/ box[n].mine
  \/ box[n].role = Core /\ policy = "collect"
  \/ box[n].role = n

(* No step of the process stops or removes another container, unless that  *)
(* one took a name while the process had a claim on it: the process works  *)
(* by name, and by what it saw some commands ago.  So whoever has a name   *)
(* when a session starts, or takes one that the session does not hold, is  *)
(* safe from it.  (What the daemon is removing may go away meanwhile.)     *)
SparesOthers ==
  [][program' # program =>
       \A n \in Names :
         box[n].state \in {"running", "exited"} /\ ~Ours(n) /\ ~box[n].late =>
           box'[n].state = box[n].state]_vars

(* After a shutdown without trouble nothing of the session runs, whatever  *)
(* failed to start, exited early or was half-way; what Docker runs goes    *)
(* away by itself, of Apple's containers nothing is left.                  *)
NothingLeftBehind ==
  pc = "down" /\ ~trouble =>
    \A n \in Names : box[n].mine => n \in docker /\ ~Running(n)

(* By the time a container is launched, preflight, collection and          *)
(* recreation have made room: unless preflight is skipped its runtime has  *)
(* no vault server left under any name, and nothing of the plugin at all.  *)
RoomMade ==
  pc \in {"ensuring", "networking", "launching"} /\ ~trouble =>
    \A n \in Names : Present(n) /\ SameRuntime(n) /\ box[n].role = RoleOf(name) =>
                        name = core /\ policy = "skip"

(* A startup comes to its end and a shutdown too, though the Docker daemon *)
(* may never remove what it stopped.                                       *)
SessionEnds ==
  [](pc \in Startup \cup {"stopping"} => <>(pc \in {"up", "failed", "down"}))

(* How far a container is on its way, or the session through its end.      *)
Stage(location) ==
  CASE location = "recreateExists"  -> 1
    [] location = "recreateList"    -> 2
    [] location = "recreateRunning" -> 3
    [] location = "recreateStop"    -> 4
    [] location = "recreateRemove"  -> 5
    [] location = "preflight"       -> 6
    [] location \in {"collecting", "awaitingRemoval", "removing"} -> 7
    [] location = "ensuring"        -> 8
    [] location = "networking"      -> 9
    [] location = "launching"       -> 10
    [] location = "verifying"       -> 11
    [] location \in {"probing", "undoing"}   -> 12
    [] location \in {"plugins", "stopping"}  -> 13
    [] OTHER -> 14
StopStage(location) ==
  CASE location = "exists"  -> 1
    [] location = "running" -> 2
    [] location = "stop"    -> 3
    [] location = "remove"  -> 4
    [] OTHER -> 5

(* One plugin less to look at; or the same ones and further on its way; or *)
(* as far, and one container less to collect, or back for the next; or the *)
(* stop of one container is further and the others are where they were.    *)
Fewer(new, old) == new \subseteq old /\ new # old
Advances ==
  \/ Fewer(todo', todo)
  \/ /\ todo' = todo
     /\ \/ Stage(pc) < Stage(pc')
        \/ /\ Stage(pc) = Stage(pc')
           /\ \/ Fewer(listed', listed)
              \/ listed' = listed /\ pc # "collecting" /\ pc' = "collecting"
              \/ /\ <<pc', listed'>> = <<pc, listed>>
                 /\ \E n \in Names :
                      /\ StopStage(stops[n]) < StopStage(stops'[n])
                      /\ stops' = [stops EXCEPT ![n] = stops'[n]]

(* A startup and a shutdown never go round: each command, whatever it      *)
(* answers or fails with, and a crash too, bring the process closer to the *)
(* end.  With finitely many plugins and containers it cannot go on for     *)
(* ever: the safety half of SessionEnds.                                   *)
NeverGoesRound ==
  [][program' # program /\ pc \in Startup \cup {"stopping"} => Advances]_vars
=============================================================================
