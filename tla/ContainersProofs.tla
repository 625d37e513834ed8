--------------------------- MODULE ContainersProofs ---------------------------
(***************************************************************************)
(* Proofs about Containers, for any names, plugins and policies, with others   *)
(* taking free names at any time.                                          *)
(***************************************************************************)
EXTENDS Containers, TLAPS

(* What a container can be: a free name has none of the session's, only    *)
(* Docker removes by itself, a plugin's role is only found at its name.    *)
BoxInv ==
  \A n \in Names :
    /\ box[n].mine => Present(n)
    /\ box[n].state = "removing" => n \in docker
    /\ box[n].role \in Plugins => box[n].role = n

(* The locations at which a container's place is being made.               *)
Preparing == Startup \ {"probing", "plugins", "undoing"}

(* The session works its way from the vault server through the plugins.    *)
PlanInv ==
  /\ pc \in Startup => name \notin todo /\ todo \cap owned = {}
  /\ pc \in Preparing => name \notin owned /\ (name = core => owned = {})
  /\ pc \in Startup => name = core \/ name \in Plugins
  /\ pc \in {"recreateExists", "recreateList", "recreateRunning", "recreateStop",
             "recreateRemove", "undoing"} => name \in Plugins
  /\ pc \in {"collecting", "awaitingRemoval", "removing"} => policy = "collect"
  /\ \A n \in Names : stops[n] # "idle" => pc \in {"undoing", "stopping"}

(* What is about to be stopped or removed is gone, or has the right role   *)
(* or was started by this session, or took the name too late to be seen.   *)
GoneOr(n, role) == Present(n) => box[n].role = role \/ box[n].late
GoneOrMine(n) == Present(n) => box[n].mine \/ box[n].late

TargetInv ==
  /\ pc \in {"collecting", "awaitingRemoval", "removing"} =>
       \A c \in listed : GoneOr(c.name, RoleOf(name))
  /\ pc \in {"awaitingRemoval", "removing"} => GoneOr(target, RoleOf(name))
  /\ pc \in {"recreateRunning", "recreateStop", "recreateRemove"} => GoneOr(name, name)
  /\ pc = "verifying" => GoneOrMine(name)
  /\ pc \notin {"down", "stopping"} => \A n \in owned : GoneOrMine(n)
  /\ \A n \in Names : stops[n] # "idle" => GoneOrMine(n)

(* A container that stands in the way of the one being started.            *)
InTheWay(n) == Present(n) /\ SameRuntime(n) /\ box[n].role = RoleOf(name)

(* Without trouble, preflight and recreation lose sight of none.           *)
RoomInv ==
  ~trouble =>
    /\ pc = "preflight" /\ name # core => \A n \in Names : ~InTheWay(n)
    /\ pc = "collecting" =>
         \A n \in Names : InTheWay(n) => \E c \in listed : c.name = n
    /\ pc \in {"awaitingRemoval", "removing"} =>
         \A n \in Names : InTheWay(n) => n = target \/ \E c \in listed : c.name = n

(* What shutdown has to stop.                                              *)
Active(n) == box[n].mine /\ Running(n)

(* What it must not leave: running, or not going away by itself.           *)
Loose(n) == box[n].mine /\ (Running(n) \/ n \notin docker)

(* Without trouble, somebody is going to stop it.                          *)
OwnerInv ==
  /\ \A n \in Names : stops[n] = "remove" => n \notin docker
  /\ ~trouble =>
       \A n \in Names :
         /\ stops[n] = "remove" => ~Active(n)
         /\ Loose(n) =>
              \/ pc \in (Startup \cup {"up", "failed"}) /\ n \in owned
              \/ pc = "verifying" /\ n = name
              \/ pc \in {"undoing", "stopping"} /\ stops[n] # "idle"

IInv ==
  /\ TypeOK
  /\ BoxInv
  /\ PlanInv
  /\ TargetInv
  /\ RoomInv
  /\ RoomMade
  /\ OwnerInv

-----------------------------------------------------------------------------
(* Constants and roles, as facts.                                          *)
LEMMA NameFacts ==
  /\ CoreNames \cap Plugins = {}
  /\ Core \notin Plugins /\ Foreign \notin Plugins /\ Core # Foreign
  /\ Core \in Roles /\ Foreign \in Roles /\ Plugins \subseteq Roles
  /\ Nothing \in Box /\ Nothing.state = "absent" /\ Nothing.role = Foreign
  /\ Nothing.mine = FALSE /\ Nothing.late = FALSE
  /\ \A n : n \in Plugins => RoleOf(n) = n
  /\ \A n : n \notin Plugins => RoleOf(n) = Core
  /\ \A n : RoleOf(n) \in Roles /\ RoleOf(n) # Foreign
  BY NameAssumption DEF Roles, Core, Foreign, Nothing, Container, Box, RoleOf

(* What is listed can be listed.                                           *)
LEMMA ListedType ==
  ASSUME NEW role
  PROVE  ManagedContainers(role) \subseteq Managed
<1> SUFFICES ASSUME NEW n \in Names
             PROVE  [name |-> n, running |-> Running(n)] \in Managed
  BY DEF ManagedContainers
<1>1. Running(n) \in BOOLEAN
  BY DEF Running
<1> QED
  BY <1>1 DEF Managed

(* A container that this session starts.                                   *)
LEMMA LaunchedType ==
  ASSUME TypeOK, NEW n \in Names, NEW role \in Roles,
         NEW state \in {"running", "exited"}, NEW mine \in BOOLEAN, NEW late \in BOOLEAN
  PROVE  [box EXCEPT ![n] =
            [state |-> state, role |-> role, mine |-> mine, late |-> late]]
           \in [Names -> Box]
  BY DEF TypeOK, Box

(* It has the role of its name, and is this session's.                     *)
LEMMA CreatedIs ==
  ASSUME NEW n, NEW state
  PROVE  Created(n, state) =
           [state |-> state, role |-> RoleOf(n), mine |-> TRUE, late |-> FALSE]
  BY DEF Created, CoreContainer, PluginContainer, Container, RoleOf

(* A foreign one is late if the process had a claim on its name.           *)
LEMMA ForeignIs ==
  ASSUME NEW n \in Names, ForeignArrives(n)
  PROVE  box' = [box EXCEPT ![n] = [state |-> "running", role |-> Foreign,
                                    mine |-> FALSE, late |-> Claimed(n)]]
  BY DEF ForeignArrives

(* A claim is a matter of yes or no.                                       *)
LEMMA ClaimedType ==
  ASSUME NEW n
  PROVE  Claimed(n) \in BOOLEAN
BY DEF Claimed

(* A failed start goes on with the next plugin, undoes one, or is over.    *)
LEMMA StartFailsType ==
  ASSUME TypeOK, NEW error, StartFails(error)
  PROVE  /\ pc' \in {"down", "failed", "undoing", "plugins"}
         /\ owned' \subseteq Names
         /\ stops' \in [Names -> StopLocation]
         /\ listed' = {}
         /\ UNCHANGED <<docker, policy, core, name, todo, target>>
  BY DEF TypeOK, StartFails, CoreFails, PluginFails, StopLocation

(* What the commands do to a container, and to no other.                   *)
OthersStay(n) == \A m \in Names : m # n => box'[m] = box[m]

(* A container changes its state and keeps the rest.                       *)
LEMMA BecomeFacts ==
  ASSUME TypeOK, NEW n \in Names, NEW state, Become(n, state)
  PROVE  /\ box'[n].state = state
         /\ box'[n].role = box[n].role
         /\ box'[n].mine = box[n].mine
         /\ box'[n].late = box[n].late
         /\ OthersStay(n)
  BY DEF TypeOK, Box, Become, OthersStay

(* A stopped container does not run, and keeps the rest.                   *)
LEMMA StopFacts ==
  ASSUME TypeOK, NEW n \in Names, StopCommand(n)
  PROVE  /\ Present(n)
         /\ box'[n].state = (IF Running(n) THEN "exited" ELSE box[n].state)
         /\ box'[n].role = box[n].role
         /\ box'[n].mine = box[n].mine
         /\ box'[n].late = box[n].late
         /\ OthersStay(n)
  BY BecomeFacts DEF StopCommand

(* What is removed leaves nothing under its name.                          *)
LEMMA VanishFacts ==
  ASSUME TypeOK, NEW n \in Names, Vanish(n)
  PROVE  box'[n] = Nothing /\ OthersStay(n)
  BY DEF TypeOK, Vanish, OthersStay

(* Only what has exited is removed.                                        *)
LEMMA RemoveFacts ==
  ASSUME TypeOK, NEW n \in Names, RemoveCommand(n)
  PROVE  box[n].state = "exited" /\ box'[n] = Nothing /\ OthersStay(n)
  BY VanishFacts DEF RemoveCommand

(* A new container under one name.                                         *)
LEMMA CreateFacts ==
  ASSUME TypeOK, NEW n \in Names, NEW state, NEW role, NEW mine, NEW late,
         box' = [box EXCEPT ![n] =
                   [state |-> state, role |-> role, mine |-> mine, late |-> late]]
  PROVE  /\ box'[n].state = state
         /\ box'[n].role = role
         /\ box'[n].mine = mine
         /\ box'[n].late = late
         /\ OthersStay(n)
  BY DEF TypeOK, OthersStay

(* A new session starts with nothing of its own.                           *)
LEMMA StartFacts ==
  ASSUME TypeOK, NEW n \in Names, Start
  PROVE  /\ box'[n].state = box[n].state
         /\ box'[n].role = box[n].role
         /\ box'[n].mine = FALSE
<1>1. box'[n] = Container(box[n].state, box[n].role)
  BY DEF Start
<1> QED
  BY <1>1 DEF Container

(* What can become of a container in a step.                               *)
Kept(m, state) ==
  /\ box'[m].state = state
  /\ box'[m].role = box[m].role
  /\ box'[m].mine = box[m].mine
  /\ box'[m].late = box[m].late

Change(m) ==
  \/ UNCHANGED box
  \/ box'[m] = box[m]
  \/ box'[m] = Nothing
  \/ Running(m) /\ Kept(m, "exited")
  \/ m \in docker /\ box[m].state = "exited" /\ Kept(m, "removing")
  \/ /\ ~Present(m)
     /\ box'[m].state \in {"running", "exited"}
     /\ \/ m = name /\ pc = "launching" /\ box'[m].role = RoleOf(m) /\ box'[m].mine
        \/ Others /\ box'[m].role = Foreign /\ ~box'[m].mine
  \/ /\ Start
     /\ box'[m].state = box[m].state /\ box'[m].role = box[m].role /\ ~box'[m].mine

(* A container is what it was or less: none appears, and none starts.      *)
Shrinks(m) ==
  /\ Present(m)' => Present(m)
  /\ Present(m)' => /\ box'[m].role = box[m].role
                    /\ box'[m].mine = box[m].mine
                    /\ box'[m].late = box[m].late
  /\ Running(m)' => Running(m)

(* A stop changes containers in one of these ways.                         *)
LEMMA StopKeeps ==
  ASSUME TypeOK, NEW n \in Names, StopCommand(n), NEW m \in Names
  PROVE  Change(m)
<1>1. CASE m # n
  BY <1>1, StopFacts DEF Change, OthersStay
<1>2. CASE m = n /\ Running(n)
  BY <1>2, StopFacts DEF Change, Kept
<1>3. CASE m = n /\ ~Running(n)
  BY <1>3 DEF StopCommand, Become, Change, TypeOK, Box
<1> QED
  BY <1>1, <1>2, <1>3

(* The runtime of a name does not change.                                  *)
LEMMA DocksStay ==
  ASSUME Next
  PROVE  docker' = docker
  BY DEF Next, Start, Starting, Shutdown, ShutdownDone, Crash, Stopping, Others,
     CommandFails, RecreateExists, RecreateList, RecreateRunning, RecreateStop,
     RecreateRemove, SkipPreflight, Preflight, ListedOneGoesAway, Collected,
     CollectOne, RemovalSeen, RemovalTimesOut, RemoveCollected, Ensure, EnsureNetwork, Launch,
     LaunchConflicts, LaunchFails, Verified, VerificationFails, Probe, NextPlugin,
     PluginsDone, Undone, StopExists, StopRunning, StopStop, StopRemove, StopFails,
     Exits, DaemonRemoves, ForeignArrives, ForeignLeaves, Goto, StopGoto, StartFails

(* Every step keeps the types.                                             *)
LEMMA TypeStep ==
  ASSUME TypeOK, Next
  PROVE  TypeOK'
<1>1. CASE Start
  BY <1>1, NameFacts
  DEF Start, Container, TypeOK, Location, Startup, Names, Box, Managed, StopLocation
<1>2. CASE CommandFails
  BY <1>2, NameFacts
  DEF CommandFails, SomethingFails, StartFails, CoreFails, PluginFails,
      StartedContainer, RequiresExplicitGc, Startup, TypeOK, Location,
      Names, Box, Managed, StopLocation
<1>3. CASE RecreateExists
  BY <1>3, NameFacts
  DEF RecreateExists, Look, Goto, TypeOK, Location, Startup, Names, Box,
      Managed, StopLocation
<1>4. CASE RecreateList
  BY <1>4, NameFacts
  DEF RecreateList, Goto, NothingFails, IsManaged, ManagedContainers,
      RoleOf, TypeOK, Location, Startup, Names, Box, Managed, StopLocation
<1>5. CASE RecreateRunning
  BY <1>5, NameFacts
  DEF RecreateRunning, Look, Goto, TypeOK, Location, Startup, Names, Box,
      Managed, StopLocation
<1>6. CASE RecreateStop
  BY <1>6, NameFacts
  DEF RecreateStop, StopCommand, Become, Goto, NothingFails, TypeOK,
      Location, Startup, Names, Box, Managed, StopLocation
<1>7. CASE RecreateRemove
  BY <1>7, NameFacts
  DEF RecreateRemove, RemoveCommand, Vanish, Goto, NothingFails, StartFails,
      CoreFails, PluginFails, StartedContainer, RequiresExplicitGc, TypeOK,
      Location, Startup, Names, Box, Managed, StopLocation
<1>8. CASE SkipPreflight
  BY <1>8, NameFacts
  DEF SkipPreflight, Goto, NothingFails, TypeOK, Location, Startup, Names,
      Box, Managed, StopLocation
<1>9. CASE Preflight
  <2>1. CASE StartFails("OrphanedManagedContainers") /\ UNCHANGED box
    BY <1>9, <2>1, StartFailsType
    DEF Preflight, NothingFails, TypeOK, Location, Startup
  <2>2. CASE Goto("ensuring") /\ UNCHANGED <<box, trouble>>
    BY <2>2 DEF Goto, TypeOK, Location, Startup
  <2>3. CASE /\ pc' = "collecting"
             /\ listed' = ManagedContainers(RoleOf(name))
             /\ UNCHANGED <<docker, policy, core, name, todo, target, owned, stops,
                            box, trouble>>
    BY <2>3, ListedType DEF TypeOK, Location, Startup
  <2> QED
    BY <1>9, <2>1, <2>2, <2>3 DEF Preflight, NothingFails
<1>10. CASE ListedOneGoesAway
  <2>1. box' \in [Names -> Box]
    BY <1>10, NameFacts DEF ListedOneGoesAway, Vanish, TypeOK
  <2>2. PICK error : StartFails(error)
    BY <1>10 DEF ListedOneGoesAway
  <2>3. trouble' = trouble
    BY <1>10 DEF ListedOneGoesAway, NothingFails
  <2> QED
    BY <2>1, <2>2, <2>3, StartFailsType DEF TypeOK, Location, Startup
<1>11. CASE Collected
  BY <1>11, NameFacts
  DEF Collected, Goto, NothingFails, TypeOK, Location, Startup, Names, Box,
      Managed, StopLocation
<1>12. CASE CollectOne
  BY <1>12, NameFacts
  DEF CollectOne, StopCommand, Become, AfterStop, NothingFails, TypeOK,
      Location, Startup, Names, Box, Managed, StopLocation
<1>13. CASE RemovalSeen
  BY <1>13, NameFacts
  DEF RemovalSeen, Look, Goto, TypeOK, Location, Startup, Names, Box,
      Managed, StopLocation
<1>14. CASE RemovalTimesOut
  BY <1>14, NameFacts
  DEF RemovalTimesOut, StartFails, CoreFails, PluginFails, StartedContainer,
      RequiresExplicitGc, NothingFails, TypeOK, Location, Startup, Names,
      Box, Managed, StopLocation
<1>15. CASE RemoveCollected
  BY <1>15, NameFacts
  DEF RemoveCollected, RemoveCommand, Vanish, Goto, NothingFails, TypeOK,
      Location, Startup, Names, Box, Managed, StopLocation
<1>16. CASE Ensure
  BY <1>16, NameFacts
  DEF Ensure, Look, StartFails, CoreFails, PluginFails, StartedContainer,
      RequiresExplicitGc, Goto, TypeOK, Location, Startup, Names, Box,
      Managed, StopLocation
<1>16a. CASE EnsureNetwork
  BY <1>16a, NameFacts
  DEF EnsureNetwork, NothingFails, StartFails, CoreFails, PluginFails, StartedContainer,
      RequiresExplicitGc, Goto, TypeOK, Location, Startup, Names, Box,
      Managed, StopLocation
<1>17. CASE Launch
  BY <1>17, NameFacts, CreatedIs
  DEF Launch, Goto, NothingFails, TypeOK, Location, Startup, Names, Box,
      Managed, StopLocation
<1>18. CASE LaunchConflicts
  BY <1>18, NameFacts
  DEF LaunchConflicts, StartFails, CoreFails, PluginFails, StartedContainer,
      RequiresExplicitGc, NothingFails, TypeOK, Location, Startup, Names,
      Box, Managed, StopLocation
<1>19. CASE LaunchFails
  <2>1. CASE UNCHANGED box
    BY <1>19, <2>1, StartFailsType
    DEF LaunchFails, SomethingFails, TypeOK, Location, Startup
  <2>2. ASSUME NEW state \in {"running", "exited"},
               box' = [box EXCEPT ![name] = Created(name, state)]
        PROVE  box' \in [Names -> Box]
    BY <2>2, NameFacts, LaunchedType, CreatedIs DEF TypeOK
  <2>3. CASE box' \in [Names -> Box]
    BY <1>19, <2>3, StartFailsType
    DEF LaunchFails, SomethingFails, TypeOK, Location, Startup
  <2> QED
    BY <1>19, <2>1, <2>2, <2>3 DEF LaunchFails
<1>20. CASE Verified
  BY <1>20, NameFacts
  DEF Verified, NothingFails, TypeOK, Location, Startup, Names, Box,
      Managed, StopLocation
<1>21. CASE VerificationFails
  BY <1>21, NameFacts
  DEF VerificationFails, StartFails, CoreFails, PluginFails,
      StartedContainer, RequiresExplicitGc, NothingFails, TypeOK, Location,
      Startup, Names, Box, Managed, StopLocation
<1>22. CASE Probe
  BY <1>22, NameFacts
  DEF Probe, Goto, NothingFails, TypeOK, Location, Startup, Names, Box,
      Managed, StopLocation
<1>23. CASE NextPlugin
  BY <1>23, NameFacts
  DEF NextPlugin, NothingFails, TypeOK, Location, Startup, Names, Box,
      Managed, StopLocation
<1>24. CASE PluginsDone
  BY <1>24, NameFacts
  DEF PluginsDone, Goto, NothingFails, TypeOK, Location, Startup, Names,
      Box, Managed, StopLocation
<1>25. CASE Undone
  BY <1>25, NameFacts
  DEF Undone, Goto, NothingFails, AllStopped, TypeOK, Location, Startup,
      Names, Box, Managed, StopLocation
<1>26. CASE Shutdown
  BY <1>26, NameFacts
  DEF Shutdown, NothingFails, TypeOK, Location, Startup, Names, Box,
      Managed, StopLocation
<1>27. CASE ShutdownDone
  BY <1>27, NameFacts
  DEF ShutdownDone, Goto, NothingFails, AllStopped, TypeOK, Location,
      Startup, Names, Box, Managed, StopLocation
<1>28. CASE Crash
  BY <1>28, NameFacts
  DEF Crash, SomethingFails, TypeOK, Location, Startup, Names, Box, Managed,
      StopLocation
<1>29. ASSUME NEW n \in Names, StopExists(n)
       PROVE  TypeOK'
  BY <1>29, NameFacts
  DEF StopExists, Look, StopGoto, TypeOK, Location, Startup, Names, Box,
      Managed, StopLocation
<1>30. ASSUME NEW n \in Names, StopRunning(n)
       PROVE  TypeOK'
  BY <1>30, NameFacts
  DEF StopRunning, Look, StopGoto, AfterStopped, TypeOK, Location, Startup,
      Names, Box, Managed, StopLocation
<1>31. ASSUME NEW n \in Names, StopStop(n)
       PROVE  TypeOK'
  BY <1>31, NameFacts
  DEF StopStop, StopCommand, Become, StopGoto, AfterStopped, NothingFails,
      TypeOK, Location, Startup, Names, Box, Managed, StopLocation
<1>32. ASSUME NEW n \in Names, StopRemove(n)
       PROVE  TypeOK'
  BY <1>32, NameFacts
  DEF StopRemove, RemoveCommand, Vanish, StopGoto, NothingFails, TypeOK,
      Location, Startup, Names, Box, Managed, StopLocation
<1>33. ASSUME NEW n \in Names, StopFails(n)
       PROVE  TypeOK'
  BY <1>33, NameFacts
  DEF StopFails, StopGoto, SomethingFails, TypeOK, Location, Startup, Names,
      Box, Managed, StopLocation
<1>34. ASSUME NEW n \in Names, Exits(n)
       PROVE  TypeOK'
  BY <1>34, NameFacts
  DEF Exits, Become, program, TypeOK, Location, Startup, Names, Box,
      Managed, StopLocation
<1>35. ASSUME NEW n \in Names, DaemonRemoves(n)
       PROVE  TypeOK'
  BY <1>35, NameFacts
  DEF DaemonRemoves, Become, Vanish, program, TypeOK, Location, Startup,
      Names, Box, Managed, StopLocation
<1>36. ASSUME NEW n \in Names, ForeignArrives(n)
       PROVE  TypeOK'
  <2>1. box' \in [Names -> Box]
    <3> DEFINE late == Claimed(n)
    <3>1. late \in BOOLEAN
      BY ClaimedType
    <3>2. box' = [box EXCEPT ![n] = [state |-> "running", role |-> Foreign,
                                     mine |-> FALSE, late |-> late]]
      BY <1>36, ForeignIs
    <3> HIDE DEF late
    <3> QED
      BY <3>1, <3>2, LaunchedType, NameFacts
  <2> QED
    BY <1>36, <2>1 DEF ForeignArrives, program, TypeOK
<1>37. ASSUME NEW n \in Names, ForeignLeaves(n)
       PROVE  TypeOK'
  BY <1>37, NameFacts
  DEF ForeignLeaves, Vanish, program, TypeOK, Location, Startup, Names, Box,
      Managed, StopLocation
<1> QED
  BY <1>1, <1>2, <1>3, <1>4, <1>5, <1>6, <1>7, <1>8, <1>9, <1>10, <1>11,
      <1>12, <1>13, <1>14, <1>15, <1>16, <1>16a, <1>17, <1>18, <1>19, <1>20, <1>21,
      <1>22, <1>23, <1>24, <1>25, <1>26, <1>27, <1>28, <1>29, <1>30, <1>31,
      <1>32, <1>33, <1>34, <1>35, <1>36, <1>37
  DEF Next, Starting, Stopping, Others

(* The session keeps to its plan.                                          *)
LEMMA PlanStep ==
  ASSUME TypeOK, PlanInv, Next
  PROVE  PlanInv'
<1>1. CASE Start
  BY <1>1, NameFacts
  DEF Start, TypeOK, PlanInv, Preparing, Startup, AllStopped
<1>2. CASE CommandFails
  BY <1>2, NameFacts
  DEF CommandFails, SomethingFails, StartFails, CoreFails, PluginFails,
      StartedContainer, RequiresExplicitGc, Startup, TypeOK, PlanInv,
      Preparing, AllStopped
<1>3. CASE RecreateExists
  BY <1>3, NameFacts
  DEF RecreateExists, Look, Goto, TypeOK, PlanInv, Preparing, Startup,
      AllStopped
<1>4. CASE RecreateList
  BY <1>4, NameFacts
  DEF RecreateList, Goto, NothingFails, IsManaged, ManagedContainers,
      RoleOf, TypeOK, PlanInv, Preparing, Startup, AllStopped
<1>5. CASE RecreateRunning
  BY <1>5, NameFacts
  DEF RecreateRunning, Look, Goto, TypeOK, PlanInv, Preparing, Startup,
      AllStopped
<1>6. CASE RecreateStop
  BY <1>6, NameFacts
  DEF RecreateStop, StopCommand, Become, Goto, NothingFails, TypeOK,
      PlanInv, Preparing, Startup, AllStopped
<1>7. CASE RecreateRemove
  BY <1>7, NameFacts
  DEF RecreateRemove, RemoveCommand, Vanish, Goto, NothingFails, StartFails,
      CoreFails, PluginFails, StartedContainer, RequiresExplicitGc, TypeOK,
      PlanInv, Preparing, Startup, AllStopped
<1>8. CASE SkipPreflight
  BY <1>8, NameFacts
  DEF SkipPreflight, Goto, NothingFails, TypeOK, PlanInv, Preparing,
      Startup, AllStopped
<1>9. CASE Preflight
  BY <1>9, NameFacts
  DEF Preflight, Goto, NothingFails, ManagedContainers, StartFails,
      CoreFails, PluginFails, StartedContainer, RequiresExplicitGc, TypeOK,
      PlanInv, Preparing, Startup, AllStopped
<1>10. CASE ListedOneGoesAway
  BY <1>10, NameFacts
  DEF ListedOneGoesAway, Vanish, StartFails, CoreFails, PluginFails,
      StartedContainer, RequiresExplicitGc, NothingFails, TypeOK, PlanInv,
      Preparing, Startup, AllStopped
<1>11. CASE Collected
  BY <1>11, NameFacts
  DEF Collected, Goto, NothingFails, TypeOK, PlanInv, Preparing, Startup,
      AllStopped
<1>12. CASE CollectOne
  BY <1>12, NameFacts
  DEF CollectOne, StopCommand, Become, AfterStop, NothingFails, TypeOK,
      PlanInv, Preparing, Startup, AllStopped
<1>13. CASE RemovalSeen
  BY <1>13, NameFacts
  DEF RemovalSeen, Look, Goto, TypeOK, PlanInv, Preparing, Startup,
      AllStopped
<1>14. CASE RemovalTimesOut
  BY <1>14, NameFacts
  DEF RemovalTimesOut, StartFails, CoreFails, PluginFails, StartedContainer,
      RequiresExplicitGc, NothingFails, TypeOK, PlanInv, Preparing, Startup,
      AllStopped
<1>15. CASE RemoveCollected
  BY <1>15, NameFacts
  DEF RemoveCollected, RemoveCommand, Vanish, Goto, NothingFails, TypeOK,
      PlanInv, Preparing, Startup, AllStopped
<1>16. CASE Ensure
  BY <1>16, NameFacts
  DEF Ensure, Look, StartFails, CoreFails, PluginFails, StartedContainer,
      RequiresExplicitGc, Goto, TypeOK, PlanInv, Preparing, Startup,
      AllStopped
<1>16a. CASE EnsureNetwork
  BY <1>16a, NameFacts
  DEF EnsureNetwork, NothingFails, StartFails, CoreFails, PluginFails, StartedContainer,
      RequiresExplicitGc, Goto, TypeOK, PlanInv, Preparing, Startup,
      AllStopped
<1>17. CASE Launch
  BY <1>17, NameFacts, CreatedIs
  DEF Launch, Goto, NothingFails, TypeOK, PlanInv, Preparing, Startup,
      AllStopped
<1>18. CASE LaunchConflicts
  BY <1>18, NameFacts
  DEF LaunchConflicts, StartFails, CoreFails, PluginFails, StartedContainer,
      RequiresExplicitGc, NothingFails, TypeOK, PlanInv, Preparing, Startup,
      AllStopped
<1>19. CASE LaunchFails
  BY <1>19, NameFacts, CreatedIs
  DEF LaunchFails, StartFails, CoreFails, PluginFails, StartedContainer,
      RequiresExplicitGc, SomethingFails, TypeOK, PlanInv, Preparing,
      Startup, AllStopped
<1>20. CASE Verified
  BY <1>20, NameFacts
  DEF Verified, NothingFails, TypeOK, PlanInv, Preparing, Startup,
      AllStopped
<1>21. CASE VerificationFails
  BY <1>21, NameFacts
  DEF VerificationFails, StartFails, CoreFails, PluginFails,
      StartedContainer, RequiresExplicitGc, NothingFails, TypeOK, PlanInv,
      Preparing, Startup, AllStopped
<1>22. CASE Probe
  BY <1>22, NameFacts
  DEF Probe, Goto, NothingFails, TypeOK, PlanInv, Preparing, Startup,
      AllStopped
<1>23. CASE NextPlugin
  BY <1>23, NameFacts
  DEF NextPlugin, NothingFails, TypeOK, PlanInv, Preparing, Startup,
      AllStopped
<1>24. CASE PluginsDone
  BY <1>24, NameFacts
  DEF PluginsDone, Goto, NothingFails, TypeOK, PlanInv, Preparing, Startup,
      AllStopped
<1>25. CASE Undone
  BY <1>25, NameFacts
  DEF Undone, Goto, NothingFails, AllStopped, TypeOK, PlanInv, Preparing,
      Startup
<1>26. CASE Shutdown
  BY <1>26, NameFacts
  DEF Shutdown, NothingFails, TypeOK, PlanInv, Preparing, Startup,
      AllStopped
<1>27. CASE ShutdownDone
  BY <1>27, NameFacts
  DEF ShutdownDone, Goto, NothingFails, AllStopped, TypeOK, PlanInv,
      Preparing, Startup
<1>28. CASE Crash
  BY <1>28, NameFacts
  DEF Crash, SomethingFails, TypeOK, PlanInv, Preparing, Startup, AllStopped
<1>29. ASSUME NEW n \in Names, StopExists(n)
       PROVE  PlanInv'
  BY <1>29, NameFacts
  DEF StopExists, Look, StopGoto, TypeOK, PlanInv, Preparing, Startup,
      AllStopped
<1>30. ASSUME NEW n \in Names, StopRunning(n)
       PROVE  PlanInv'
  BY <1>30, NameFacts
  DEF StopRunning, Look, StopGoto, AfterStopped, TypeOK, PlanInv, Preparing,
      Startup, AllStopped
<1>31. ASSUME NEW n \in Names, StopStop(n)
       PROVE  PlanInv'
  BY <1>31, NameFacts
  DEF StopStop, StopCommand, Become, StopGoto, AfterStopped, NothingFails,
      TypeOK, PlanInv, Preparing, Startup, AllStopped
<1>32. ASSUME NEW n \in Names, StopRemove(n)
       PROVE  PlanInv'
  BY <1>32, NameFacts
  DEF StopRemove, RemoveCommand, Vanish, StopGoto, NothingFails, TypeOK,
      PlanInv, Preparing, Startup, AllStopped
<1>33. ASSUME NEW n \in Names, StopFails(n)
       PROVE  PlanInv'
  BY <1>33, NameFacts
  DEF StopFails, StopGoto, SomethingFails, TypeOK, PlanInv, Preparing,
      Startup, AllStopped
<1>34. ASSUME NEW n \in Names, Exits(n)
       PROVE  PlanInv'
  BY <1>34, NameFacts
  DEF Exits, Become, program, TypeOK, PlanInv, Preparing, Startup,
      AllStopped
<1>35. ASSUME NEW n \in Names, DaemonRemoves(n)
       PROVE  PlanInv'
  BY <1>35, NameFacts
  DEF DaemonRemoves, Become, Vanish, program, TypeOK, PlanInv, Preparing,
      Startup, AllStopped
<1>36. ASSUME NEW n \in Names, ForeignArrives(n)
       PROVE  PlanInv'
  BY <1>36, NameFacts
  DEF ForeignArrives, program, TypeOK, PlanInv, Preparing, Startup,
      AllStopped
<1>37. ASSUME NEW n \in Names, ForeignLeaves(n)
       PROVE  PlanInv'
  BY <1>37, NameFacts
  DEF ForeignLeaves, Vanish, program, TypeOK, PlanInv, Preparing, Startup,
      AllStopped
<1> QED
  BY <1>1, <1>2, <1>3, <1>4, <1>5, <1>6, <1>7, <1>8, <1>9, <1>10, <1>11,
      <1>12, <1>13, <1>14, <1>15, <1>16, <1>16a, <1>17, <1>18, <1>19, <1>20, <1>21,
      <1>22, <1>23, <1>24, <1>25, <1>26, <1>27, <1>28, <1>29, <1>30, <1>31,
      <1>32, <1>33, <1>34, <1>35, <1>36, <1>37
  DEF Next, Starting, Stopping, Others

(* Every step changes containers in one of these ways.                     *)
LEMMA ChangeStep ==
  ASSUME TypeOK, Next, NEW m \in Names
  PROVE  Change(m)
<1>0. name \in Names /\ target \in Names
  BY DEF TypeOK
<1>1. CASE Start
  BY <1>1, StartFacts DEF Change
<1>2. CASE RecreateStop
  BY <1>0, <1>2, StopKeeps DEF RecreateStop, Change
<1>3. CASE RecreateRemove
  BY <1>0, <1>3, RemoveFacts DEF RecreateRemove, Change, OthersStay
<1>4. CASE ListedOneGoesAway
  <2>1. PICK n \in docker : box[n].state = "removing" /\ Vanish(n)
    BY <1>4 DEF ListedOneGoesAway
  <2>2. n \in Names
    BY ChoiceAssumption DEF TypeOK, Names
  <2> QED
    BY <2>1, <2>2, VanishFacts DEF Change, OthersStay
<1>5. CASE CollectOne
  <2>1. CASE UNCHANGED box
    BY <2>1 DEF Change
  <2>2. ASSUME NEW c \in listed, StopCommand(c.name)
        PROVE  Change(m)
    <3>1. c.name \in Names
      BY DEF TypeOK, Managed
    <3> QED
      BY <2>2, <3>1, StopKeeps
  <2> QED
    BY <1>5, <2>1, <2>2 DEF CollectOne
<1>6. CASE RemoveCollected
  BY <1>0, <1>6, RemoveFacts DEF RemoveCollected, Change, OthersStay
<1>7. CASE Launch
  BY <1>0, <1>7, CreateFacts, CreatedIs DEF Launch, Change, OthersStay
<1>8. CASE LaunchFails
  BY <1>0, <1>8, CreateFacts, CreatedIs DEF LaunchFails, Change, OthersStay
<1>9. ASSUME NEW n \in Names, StopStop(n)
       PROVE  Change(m)
  BY <1>9, StopKeeps DEF StopStop, Change
<1>10. ASSUME NEW n \in Names, StopRemove(n)
       PROVE  Change(m)
  BY <1>10, RemoveFacts DEF StopRemove, Change, OthersStay
<1>11. ASSUME NEW n \in Names, Exits(n)
       PROVE  Change(m)
  BY <1>11, BecomeFacts DEF Exits, Change, Kept, OthersStay
<1>12. ASSUME NEW n \in Names, DaemonRemoves(n)
       PROVE  Change(m)
  BY <1>12, BecomeFacts, VanishFacts DEF DaemonRemoves, Change, Kept, OthersStay
<1>13. ASSUME NEW n \in Names, ForeignArrives(n)
       PROVE  Change(m)
  <2>1. Others
    BY <1>13 DEF Others
  <2>2. ~Present(n) /\ box'[n].state = "running" /\ box'[n].role = Foreign
        /\ box'[n].mine = FALSE /\ OthersStay(n)
    <3> DEFINE late == Claimed(n)
    <3>1. box' = [box EXCEPT ![n] = [state |-> "running", role |-> Foreign,
                                     mine |-> FALSE, late |-> late]]
      BY <1>13, ForeignIs
    <3>2. ~Present(n)
      BY <1>13 DEF ForeignArrives
    <3> HIDE DEF late
    <3> QED
      BY <3>1, <3>2, CreateFacts
  <2> QED
    BY <2>1, <2>2 DEF Change, OthersStay
<1>14. ASSUME NEW n \in Names, ForeignLeaves(n)
       PROVE  Change(m)
  BY <1>14, VanishFacts DEF ForeignLeaves, Change, OthersStay
<1>15. CASE UNCHANGED box
  BY <1>15 DEF Change
<1> QED
  BY <1>1, <1>2, <1>3, <1>4, <1>5, <1>6, <1>7, <1>8, <1>9, <1>10, <1>11,
      <1>12, <1>13, <1>14, <1>15
  DEF Next, Starting, Stopping, Others, CommandFails, RecreateExists,
      RecreateList, RecreateRunning, SkipPreflight, Preflight, Collected,
      RemovalSeen, RemovalTimesOut, Ensure, EnsureNetwork, LaunchConflicts, Verified,
      VerificationFails, Probe, NextPlugin, PluginsDone, Undone, Shutdown,
      ShutdownDone, Crash, StopExists, StopRunning, StopFails

(* A new container has the role of its name, and only Docker removes.      *)
LEMMA BoxStep ==
  ASSUME TypeOK, BoxInv, Next
  PROVE  BoxInv'
<1> SUFFICES ASSUME NEW m \in Names
             PROVE  /\ box'[m].mine => Present(m)'
                    /\ box'[m].state = "removing" => m \in docker
                    /\ box'[m].role \in Plugins => box'[m].role = m
  <2>1. docker' = docker
    BY DocksStay
  <2> QED
    BY <2>1 DEF BoxInv
<1>1. Change(m)
  BY ChangeStep
<1>2. Nothing.state = "absent" /\ Nothing.role \notin Plugins /\ Nothing.mine = FALSE
  BY NameFacts
<1>3. RoleOf(m) \in Plugins => RoleOf(m) = m
  BY NameFacts
<1>4. box'[m].mine => Present(m)'
  BY <1>1, <1>2 DEF Change, Kept, BoxInv, Present, Running
<1>5. box'[m].state = "removing" => m \in docker
  BY <1>1, <1>2 DEF Change, Kept, BoxInv, Present, Running
<1>6. box'[m].role \in Plugins => box'[m].role = m
  BY <1>1, <1>2, <1>3, NameFacts DEF Change, Kept, BoxInv
<1> QED
  BY <1>4, <1>5, <1>6

(* Of a session's steps only a launch makes a container appear.            *)
LEMMA NothingAppears ==
  ASSUME TypeOK, ~Others, Next, NEW m \in Names,
         pc # "down", pc \in {"networking", "launching"} => m # name
  PROVE  Shrinks(m)
<1>1. Change(m)
  BY ChangeStep
<1>2. Nothing.state = "absent"
  BY NameFacts
<1>3. ~Start
  BY DEF Start
<1> QED
  BY <1>1, <1>2, <1>3 DEF Change, Kept, Shrinks, Present, Running

(* Everybody else leaves the process alone, and only adds what is foreign. *)
LEMMA OthersFacts ==
  ASSUME TypeOK, Others
  PROVE  /\ UNCHANGED <<docker, program>>
         /\ \A m \in Names :
              \/ Shrinks(m)
              \/ box'[m].role = Foreign /\ box'[m].mine = FALSE /\ box'[m].late = Claimed(m)
<1> DEFINE Result(m) ==
      \/ Shrinks(m)
      \/ box'[m].role = Foreign /\ box'[m].mine = FALSE /\ box'[m].late = Claimed(m)
<1>0. Nothing.state = "absent"
  BY NameFacts
<1> SUFFICES ASSUME NEW n \in Names,
                    Exits(n) \/ DaemonRemoves(n) \/ ForeignArrives(n) \/ ForeignLeaves(n),
                    NEW m \in Names
             PROVE  UNCHANGED <<docker, program>> /\ Result(m)
  BY DEF Others
<1>1. CASE Exits(n)
  BY <1>1, BecomeFacts DEF Exits, Shrinks, Present, Running, OthersStay
<1>2. CASE DaemonRemoves(n)
  BY <1>0, <1>2, BecomeFacts, VanishFacts
  DEF DaemonRemoves, Shrinks, Present, Running, OthersStay
<1>3. CASE ForeignArrives(n)
  <2>2. box'[n].role = Foreign /\ box'[n].mine = FALSE /\ box'[n].late = Claimed(n)
        /\ OthersStay(n)
    BY <1>3, ForeignIs, CreateFacts
  <2>3. m # n => Shrinks(m)
    BY <2>2 DEF OthersStay, Shrinks, Present, Running
  <2> QED
    BY <1>3, <2>2, <2>3 DEF ForeignArrives
<1>4. CASE ForeignLeaves(n)
  BY <1>0, <1>4, VanishFacts DEF ForeignLeaves, Shrinks, Present, Running, OthersStay
<1> QED
  BY <1>1, <1>2, <1>3, <1>4

(* Who takes a name that the process has a claim on is late.               *)
LEMMA TargetOthers ==
  ASSUME TypeOK, TargetInv, Others
  PROVE  TargetInv'
<1>1. UNCHANGED <<docker, policy, core, pc, name, todo, listed, target, owned, stops>>
  BY OthersFacts DEF program
<1>2. \A m \in Names : Shrinks(m) \/ box'[m].late = Claimed(m)
  BY OthersFacts
<1>3. name \in Names /\ target \in Names /\ owned \subseteq Names
      /\ \A c \in listed : c.name \in Names
  BY DEF TypeOK, Managed
<1>4. ASSUME NEW m \in Names, NEW role, GoneOr(m, role), Claimed(m)
      PROVE  GoneOr(m, role)'
  BY <1>2, <1>4 DEF GoneOr, Shrinks
<1>5. ASSUME NEW m \in Names, GoneOrMine(m), Claimed(m)
      PROVE  GoneOrMine(m)'
  BY <1>2, <1>5 DEF GoneOrMine, Shrinks
<1>6. ASSUME pc \in {"collecting", "awaitingRemoval", "removing"}, NEW c \in listed
      PROVE  GoneOr(c.name, RoleOf(name))'
  BY <1>1, <1>3, <1>4, <1>6 DEF TargetInv, Claimed, RoleOf
<1>7. ASSUME pc \in {"awaitingRemoval", "removing"}
      PROVE  GoneOr(target, RoleOf(name))'
  BY <1>1, <1>3, <1>4, <1>7 DEF TargetInv, Claimed, RoleOf
<1>8. ASSUME pc \in {"recreateRunning", "recreateStop", "recreateRemove"}
      PROVE  GoneOr(name, name)'
  BY <1>1, <1>3, <1>4, <1>8 DEF TargetInv, Claimed
<1>9. ASSUME pc = "verifying"
      PROVE  GoneOrMine(name)'
  BY <1>1, <1>3, <1>5, <1>9 DEF TargetInv, Claimed
<1>10. ASSUME pc \notin {"down", "stopping"}, NEW n \in owned
       PROVE  GoneOrMine(n)'
  BY <1>1, <1>3, <1>5, <1>10 DEF TargetInv, Claimed
<1>11. ASSUME NEW n \in Names, stops[n] # "idle"
       PROVE  GoneOrMine(n)'
  BY <1>1, <1>5, <1>11 DEF TargetInv, Claimed
<1> QED
  BY <1>1, <1>6, <1>7, <1>8, <1>9, <1>10, <1>11 DEF TargetInv

(* What is about to be stopped or removed has the right role.              *)
LEMMA TargetStep ==
  ASSUME TypeOK, PlanInv, BoxInv, TargetInv, Next
  PROVE  TargetInv'
<1> SUFFICES ASSUME ~Others
             PROVE  TargetInv'
  BY TargetOthers
<1>0. pc # "down" =>
        \A m \in Names : (pc \in {"networking", "launching"} => m # name) => Shrinks(m)
  BY NothingAppears
<1>1. CASE Start
  BY <1>1, <1>0, NameFacts
  DEF Start, TargetInv, GoneOr, GoneOrMine, Shrinks, TypeOK, Managed,
      PlanInv, Startup, Preparing
<1>2. CASE CommandFails
  BY <1>2, <1>0, NameFacts
  DEF CommandFails, SomethingFails, StartFails, CoreFails, PluginFails,
      StartedContainer, RequiresExplicitGc, Startup, TargetInv, GoneOr,
      GoneOrMine, Shrinks, TypeOK, Managed, PlanInv, Preparing
<1>3. CASE RecreateExists
  BY <1>3, <1>0, NameFacts
  DEF RecreateExists, Look, Goto, TargetInv, GoneOr, GoneOrMine, Shrinks,
      TypeOK, Managed, PlanInv, Startup, Preparing
<1>4. CASE RecreateList
  BY <1>4, <1>0, NameFacts
  DEF RecreateList, Goto, NothingFails, IsManaged, ManagedContainers,
      RoleOf, TargetInv, GoneOr, GoneOrMine, Shrinks, TypeOK, Managed,
      PlanInv, Startup, Preparing
<1>5. CASE RecreateRunning
  BY <1>5, <1>0, NameFacts
  DEF RecreateRunning, Look, Goto, TargetInv, GoneOr, GoneOrMine, Shrinks,
      TypeOK, Managed, PlanInv, Startup, Preparing
<1>6. CASE RecreateStop
  BY <1>6, <1>0, NameFacts, StopFacts
  DEF RecreateStop, Goto, NothingFails, TargetInv, GoneOr, GoneOrMine,
      Shrinks, TypeOK, Managed, PlanInv, Startup, Preparing
<1>7. CASE RecreateRemove
  BY <1>7, <1>0, NameFacts, RemoveFacts
  DEF RecreateRemove, Goto, NothingFails, StartFails, CoreFails,
      PluginFails, StartedContainer, RequiresExplicitGc, TargetInv, GoneOr,
      GoneOrMine, Shrinks, TypeOK, Managed, PlanInv, Startup, Preparing
<1>8. CASE SkipPreflight
  BY <1>8, <1>0, NameFacts
  DEF SkipPreflight, Goto, NothingFails, TargetInv, GoneOr, GoneOrMine,
      Shrinks, TypeOK, Managed, PlanInv, Startup, Preparing
<1>9. CASE Preflight
  BY <1>9, <1>0, NameFacts
  DEF Preflight, Goto, NothingFails, ManagedContainers, StartFails,
      CoreFails, PluginFails, StartedContainer, RequiresExplicitGc,
      TargetInv, GoneOr, GoneOrMine, Shrinks, TypeOK, Managed, PlanInv,
      Startup, Preparing
<1>10. CASE ListedOneGoesAway
  BY <1>10, <1>0, NameFacts, VanishFacts
  DEF ListedOneGoesAway, StartFails, CoreFails, PluginFails,
      StartedContainer, RequiresExplicitGc, NothingFails, TargetInv, GoneOr,
      GoneOrMine, Shrinks, TypeOK, Managed, PlanInv, Startup, Preparing
<1>11. CASE Collected
  BY <1>11, <1>0, NameFacts
  DEF Collected, Goto, NothingFails, TargetInv, GoneOr, GoneOrMine, Shrinks,
      TypeOK, Managed, PlanInv, Startup, Preparing
<1>12. CASE CollectOne
  BY <1>12, <1>0, NameFacts, StopFacts
  DEF CollectOne, AfterStop, NothingFails, TargetInv, GoneOr, GoneOrMine,
      Shrinks, TypeOK, Managed, PlanInv, Startup, Preparing
<1>13. CASE RemovalSeen
  BY <1>13, <1>0, NameFacts
  DEF RemovalSeen, Look, Goto, TargetInv, GoneOr, GoneOrMine, Shrinks,
      TypeOK, Managed, PlanInv, Startup, Preparing
<1>14. CASE RemovalTimesOut
  BY <1>14, <1>0, NameFacts
  DEF RemovalTimesOut, StartFails, CoreFails, PluginFails, StartedContainer,
      RequiresExplicitGc, NothingFails, TargetInv, GoneOr, GoneOrMine,
      Shrinks, TypeOK, Managed, PlanInv, Startup, Preparing
<1>15. CASE RemoveCollected
  BY <1>15, <1>0, NameFacts, RemoveFacts
  DEF RemoveCollected, Goto, NothingFails, TargetInv, GoneOr, GoneOrMine,
      Shrinks, TypeOK, Managed, PlanInv, Startup, Preparing
<1>16. CASE Ensure
  BY <1>16, <1>0, NameFacts
  DEF Ensure, Look, StartFails, CoreFails, PluginFails, StartedContainer,
      RequiresExplicitGc, Goto, TargetInv, GoneOr, GoneOrMine, Shrinks,
      TypeOK, Managed, PlanInv, Startup, Preparing
<1>16a. CASE EnsureNetwork
  BY <1>16a, <1>0, NameFacts
  DEF EnsureNetwork, NothingFails, StartFails, CoreFails, PluginFails, StartedContainer,
      RequiresExplicitGc, Goto, TargetInv, GoneOr, GoneOrMine, Shrinks,
      TypeOK, Managed, PlanInv, Startup, Preparing
<1>17. CASE Launch
  BY <1>17, <1>0, NameFacts, CreateFacts, CreatedIs
  DEF Launch, Goto, NothingFails, TargetInv, GoneOr, GoneOrMine, Shrinks,
      TypeOK, Managed, PlanInv, Startup, Preparing
<1>18. CASE LaunchConflicts
  BY <1>18, <1>0, NameFacts
  DEF LaunchConflicts, StartFails, CoreFails, PluginFails, StartedContainer,
      RequiresExplicitGc, NothingFails, TargetInv, GoneOr, GoneOrMine,
      Shrinks, TypeOK, Managed, PlanInv, Startup, Preparing
<1>19. CASE LaunchFails
  BY <1>19, <1>0, NameFacts, CreateFacts, CreatedIs
  DEF LaunchFails, StartFails, CoreFails, PluginFails, StartedContainer,
      RequiresExplicitGc, SomethingFails, TargetInv, GoneOr, GoneOrMine,
      Shrinks, TypeOK, Managed, PlanInv, Startup, Preparing
<1>20. CASE Verified
  BY <1>20, <1>0, NameFacts
  DEF Verified, NothingFails, TargetInv, GoneOr, GoneOrMine, Shrinks,
      TypeOK, Managed, PlanInv, Startup, Preparing
<1>21. CASE VerificationFails
  BY <1>21, <1>0, NameFacts
  DEF VerificationFails, StartFails, CoreFails, PluginFails,
      StartedContainer, RequiresExplicitGc, NothingFails, TargetInv, GoneOr,
      GoneOrMine, Shrinks, TypeOK, Managed, PlanInv, Startup, Preparing
<1>22. CASE Probe
  BY <1>22, <1>0, NameFacts
  DEF Probe, Goto, NothingFails, TargetInv, GoneOr, GoneOrMine, Shrinks,
      TypeOK, Managed, PlanInv, Startup, Preparing
<1>23. CASE NextPlugin
  BY <1>23, <1>0, NameFacts
  DEF NextPlugin, NothingFails, TargetInv, GoneOr, GoneOrMine, Shrinks,
      TypeOK, Managed, PlanInv, Startup, Preparing
<1>24. CASE PluginsDone
  BY <1>24, <1>0, NameFacts
  DEF PluginsDone, Goto, NothingFails, TargetInv, GoneOr, GoneOrMine,
      Shrinks, TypeOK, Managed, PlanInv, Startup, Preparing
<1>25. CASE Undone
  BY <1>25, <1>0, NameFacts
  DEF Undone, Goto, NothingFails, AllStopped, TargetInv, GoneOr, GoneOrMine,
      Shrinks, TypeOK, Managed, PlanInv, Startup, Preparing
<1>26. CASE Shutdown
  BY <1>26, <1>0, NameFacts
  DEF Shutdown, NothingFails, TargetInv, GoneOr, GoneOrMine, Shrinks,
      TypeOK, Managed, PlanInv, Startup, Preparing
<1>27. CASE ShutdownDone
  BY <1>27, <1>0, NameFacts
  DEF ShutdownDone, Goto, NothingFails, AllStopped, TargetInv, GoneOr,
      GoneOrMine, Shrinks, TypeOK, Managed, PlanInv, Startup, Preparing
<1>28. CASE Crash
  BY <1>28, <1>0, NameFacts
  DEF Crash, SomethingFails, TargetInv, GoneOr, GoneOrMine, Shrinks, TypeOK,
      Managed, PlanInv, Startup, Preparing
<1>29. ASSUME NEW n \in Names, StopExists(n)
       PROVE  TargetInv'
  BY <1>29, <1>0, NameFacts
  DEF StopExists, Look, StopGoto, TargetInv, GoneOr, GoneOrMine, Shrinks,
      TypeOK, Managed, PlanInv, Startup, Preparing
<1>30. ASSUME NEW n \in Names, StopRunning(n)
       PROVE  TargetInv'
  BY <1>30, <1>0, NameFacts
  DEF StopRunning, Look, StopGoto, AfterStopped, TargetInv, GoneOr,
      GoneOrMine, Shrinks, TypeOK, Managed, PlanInv, Startup, Preparing
<1>31. ASSUME NEW n \in Names, StopStop(n)
       PROVE  TargetInv'
  BY <1>31, <1>0, NameFacts, StopFacts
  DEF StopStop, StopGoto, AfterStopped, NothingFails, TargetInv, GoneOr,
      GoneOrMine, Shrinks, TypeOK, Managed, PlanInv, Startup, Preparing
<1>32. ASSUME NEW n \in Names, StopRemove(n)
       PROVE  TargetInv'
  BY <1>32, <1>0, NameFacts, RemoveFacts
  DEF StopRemove, StopGoto, NothingFails, TargetInv, GoneOr, GoneOrMine,
      Shrinks, TypeOK, Managed, PlanInv, Startup, Preparing
<1>33. ASSUME NEW n \in Names, StopFails(n)
       PROVE  TargetInv'
  BY <1>33, <1>0, NameFacts
  DEF StopFails, StopGoto, SomethingFails, TargetInv, GoneOr, GoneOrMine,
      Shrinks, TypeOK, Managed, PlanInv, Startup, Preparing
<1> QED
  BY <1>1, <1>2, <1>3, <1>4, <1>5, <1>6, <1>7, <1>8, <1>9, <1>10, <1>11,
      <1>12, <1>13, <1>14, <1>15, <1>16, <1>16a, <1>17, <1>18, <1>19, <1>20, <1>21,
      <1>22, <1>23, <1>24, <1>25, <1>26, <1>27, <1>28, <1>29, <1>30, <1>31,
      <1>32, <1>33
  DEF Next, Starting, Stopping

(* A container in the way of a plugin has the plugin's name.               *)
LEMMA PluginInTheWay ==
  ASSUME BoxInv, name \in Plugins, NEW n \in Names, InTheWay(n)
  PROVE  n = name
  BY NameFacts DEF InTheWay, BoxInv

(* Preflight lists whatever is in the way.                                 *)
LEMMA ListedInTheWay ==
  ASSUME NEW n \in Names, InTheWay(n)
  PROVE  \E c \in ManagedContainers(RoleOf(name)) : c.name = n
<1>1. [name |-> n, running |-> Running(n)] \in ManagedContainers(RoleOf(name))
  BY DEF ManagedContainers, InTheWay
<1> QED
  BY <1>1

(* Nobody else adds a container in the way.                                *)
LEMMA RoomOthers ==
  ASSUME TypeOK, RoomInv, RoomMade, Others
  PROVE  RoomInv' /\ RoomMade'
<1>1. docker' = docker /\ UNCHANGED <<policy, core, pc, name, listed, target, trouble>>
  BY OthersFacts DEF program
<1>2. \A n \in Names : InTheWay(n)' => InTheWay(n)
  BY <1>1, OthersFacts, NameFacts DEF Shrinks, InTheWay, SameRuntime
<1> QED
  BY <1>1, <1>2 DEF RoomInv, RoomMade, InTheWay

(* Without trouble, no container in the way is lost sight of.              *)
LEMMA RoomStep ==
  ASSUME TypeOK, PlanInv, BoxInv, RoomInv, RoomMade, Next
  PROVE  RoomInv' /\ RoomMade'
<1> SUFFICES ASSUME ~Others
             PROVE  RoomInv' /\ RoomMade'
  BY RoomOthers
<1>00. BoxInv' /\ docker' = docker
  BY BoxStep, DocksStay
<1>0. pc # "down" =>
        \A m \in Names : (pc \in {"networking", "launching"} => m # name) => Shrinks(m)
  BY NothingAppears
<1>1. CASE Start
  BY <1>1, <1>00, <1>0, NameFacts
  DEF Start, RoomInv, RoomMade, InTheWay, SameRuntime, Shrinks, TypeOK,
      Managed, PlanInv, Startup, Preparing, BoxInv
<1>2. CASE CommandFails
  BY <1>2, <1>00, <1>0, NameFacts
  DEF CommandFails, SomethingFails, StartFails, CoreFails, PluginFails,
      StartedContainer, RequiresExplicitGc, Startup, RoomInv, RoomMade,
      InTheWay, SameRuntime, Shrinks, TypeOK, Managed, PlanInv, Preparing,
      BoxInv
<1>3. CASE RecreateExists
  <2>1. \A n \in Names : InTheWay(n) => n = name
    BY <1>3, PluginInTheWay DEF RecreateExists, PlanInv
  <2>2. ~trouble' => (pc' = "preflight" => ~Present(name))
    BY <1>3 DEF RecreateExists, Look, Goto
  <2>3. pc' \in {"recreateList", "preflight"} /\ UNCHANGED <<box, name, core>>
    BY <1>3 DEF RecreateExists, Goto
  <2> QED
    BY <1>00, <2>1, <2>2, <2>3 DEF RoomInv, RoomMade, InTheWay, SameRuntime, Present
<1>4. CASE RecreateList
  <2>1. \A n \in Names : InTheWay(n) => n = name
    BY <1>4, PluginInTheWay DEF RecreateList, PlanInv
  <2>2. name \in Names
    BY DEF TypeOK
  <2>3. InTheWay(name) => IsManaged(name)
    BY <2>2, ListedInTheWay DEF IsManaged
  <2>4. /\ pc' \in {"recreateRunning", "preflight"} /\ UNCHANGED <<box, name, core>>
        /\ pc' = "preflight" => ~IsManaged(name)
    BY <1>4 DEF RecreateList, Goto
  <2> QED
    BY <1>00, <2>1, <2>3, <2>4 DEF RoomInv, RoomMade, InTheWay, SameRuntime, Present
<1>5. CASE RecreateRunning
  BY <1>5, <1>00, <1>0, NameFacts
  DEF RecreateRunning, Look, Goto, RoomInv, RoomMade, InTheWay, SameRuntime,
      Shrinks, TypeOK, Managed, PlanInv, Startup, Preparing, BoxInv
<1>6. CASE RecreateStop
  BY <1>6, <1>00, <1>0, NameFacts, StopFacts
  DEF RecreateStop, Goto, NothingFails, RoomInv, RoomMade, InTheWay,
      SameRuntime, Shrinks, TypeOK, Managed, PlanInv, Startup, Preparing,
      BoxInv
<1>7. CASE RecreateRemove
  <2>1. CASE StartFails("Other")
    BY <2>1 DEF StartFails, CoreFails, PluginFails, StartedContainer,
       RequiresExplicitGc, RoomInv, RoomMade
  <2>2. CASE Goto("preflight")
    <3>1. name' = name /\ name \in Names /\ name \in Plugins /\ pc' = "preflight"
      BY <1>7, <2>2 DEF RecreateRemove, Goto, TypeOK, PlanInv
    <3>2. ASSUME NEW n \in Names, InTheWay(n)' PROVE n = name
      BY <1>00, <3>1, <3>2, NameFacts DEF InTheWay, SameRuntime, BoxInv
    <3>3. ~Present(name)'
      <4>1. CASE RemoveCommand(name)
        BY <3>1, <4>1, RemoveFacts, NameFacts DEF Present
      <4>2. CASE ~Present(name) /\ UNCHANGED box
        BY <3>1, <4>2 DEF Present
      <4>3. CASE StartFails("Other")
        BY <2>2, <4>3 DEF StartFails, CoreFails, PluginFails, StartedContainer,
           RequiresExplicitGc, Goto
      <4> QED
        BY <1>7, <4>1, <4>2, <4>3 DEF RecreateRemove
    <3> QED
      BY <1>00, <3>1, <3>2, <3>3 DEF RoomInv, RoomMade, InTheWay, SameRuntime
  <2> QED
    BY <1>7, <2>1, <2>2 DEF RecreateRemove
<1>8. CASE SkipPreflight
  BY <1>8, <1>00, <1>0, NameFacts
  DEF SkipPreflight, Goto, NothingFails, RoomInv, RoomMade, InTheWay,
      SameRuntime, Shrinks, TypeOK, Managed, PlanInv, Startup, Preparing,
      BoxInv
<1>9. CASE Preflight
  <2>1. UNCHANGED <<box, name, policy>>
    BY <1>9 DEF Preflight, Goto, StartFails
  <2>2. CASE StartFails("OrphanedManagedContainers")
    BY <2>2 DEF StartFails, CoreFails, PluginFails, StartedContainer,
       RequiresExplicitGc, RoomInv, RoomMade
  <2>3. CASE pc' = "ensuring" /\ ManagedContainers(RoleOf(name)) = {}
    BY <1>00, <2>1, <2>3, ListedInTheWay DEF RoomInv, RoomMade, InTheWay, SameRuntime, Present
  <2>4. CASE pc' = "collecting" /\ listed' = ManagedContainers(RoleOf(name))
    <3>1. \A n \in Names : InTheWay(n)' => InTheWay(n)
      BY <1>00, <2>1 DEF InTheWay, SameRuntime, Present
    <3> QED
      BY <2>4, <3>1, ListedInTheWay DEF RoomInv, RoomMade
  <2> QED
    BY <1>9, <2>2, <2>3, <2>4 DEF Preflight, Goto
<1>10. CASE ListedOneGoesAway
  BY <1>10, <1>00, <1>0, NameFacts, VanishFacts
  DEF ListedOneGoesAway, StartFails, CoreFails, PluginFails,
      StartedContainer, RequiresExplicitGc, NothingFails, RoomInv, RoomMade,
      InTheWay, SameRuntime, Shrinks, TypeOK, Managed, PlanInv, Startup,
      Preparing, BoxInv
<1>11. CASE Collected
  BY <1>11, <1>00, <1>0, NameFacts
  DEF Collected, Goto, NothingFails, RoomInv, RoomMade, InTheWay,
      SameRuntime, Shrinks, TypeOK, Managed, PlanInv, Startup, Preparing,
      BoxInv
<1>12. CASE CollectOne
  BY <1>12, <1>00, <1>0, NameFacts, StopFacts
  DEF CollectOne, AfterStop, NothingFails, RoomInv, RoomMade, InTheWay,
      SameRuntime, Shrinks, TypeOK, Managed, PlanInv, Startup, Preparing,
      BoxInv
<1>13. CASE RemovalSeen
  <2>1. /\ pc = "awaitingRemoval" /\ pc' = "collecting"
        /\ trouble' = (trouble \/ Present(target)) /\ UNCHANGED <<box, name, listed>>
    BY <1>13 DEF RemovalSeen, Look, Goto, Present
  <2>2. \A n \in Names : InTheWay(n)' => InTheWay(n)
    BY <1>00, <2>1 DEF InTheWay, SameRuntime, Present
  <2> QED
    BY <2>1, <2>2 DEF RoomInv, RoomMade, InTheWay
<1>14. CASE RemovalTimesOut
  BY <1>14, <1>00, <1>0, NameFacts
  DEF RemovalTimesOut, StartFails, CoreFails, PluginFails, StartedContainer,
      RequiresExplicitGc, NothingFails, RoomInv, RoomMade, InTheWay,
      SameRuntime, Shrinks, TypeOK, Managed, PlanInv, Startup, Preparing,
      BoxInv
<1>15. CASE RemoveCollected
  <2>1. target \in Names /\ pc = "removing" /\ pc' = "collecting" /\ trouble' = trouble
        /\ UNCHANGED <<name, listed, target>>
    BY <1>15 DEF RemoveCollected, Goto, NothingFails, TypeOK
  <2>2. ~Present(target)'
    BY <1>15, <2>1, RemoveFacts, NameFacts DEF RemoveCollected, Present
  <2>3. \A n \in Names : InTheWay(n)' => InTheWay(n)
    BY <1>00, <1>0, <2>1 DEF Shrinks, InTheWay, SameRuntime
  <2> QED
    BY <1>00, <2>1, <2>2, <2>3 DEF RoomInv, RoomMade, InTheWay, SameRuntime
<1>16. CASE Ensure
  BY <1>16, <1>00, <1>0, NameFacts
  DEF Ensure, Look, StartFails, CoreFails, PluginFails, StartedContainer,
      RequiresExplicitGc, Goto, RoomInv, RoomMade, InTheWay, SameRuntime,
      Shrinks, TypeOK, Managed, PlanInv, Startup, Preparing, BoxInv
<1>16a. CASE EnsureNetwork
  <2>1. CASE StartFails("Conflict")
    BY <2>1 DEF StartFails, CoreFails, PluginFails, StartedContainer,
       RequiresExplicitGc, RoomInv, RoomMade
  <2>2. CASE Goto("launching")
    BY <1>16a, <1>00, <2>2
    DEF EnsureNetwork, Goto, NothingFails, RoomInv, RoomMade, SameRuntime, Present
  <2> QED
    BY <1>16a, <2>1, <2>2 DEF EnsureNetwork
<1>17. CASE Launch
  BY <1>17, <1>00, <1>0, NameFacts, CreatedIs
  DEF Launch, Goto, NothingFails, RoomInv, RoomMade, InTheWay, SameRuntime,
      Shrinks, TypeOK, Managed, PlanInv, Startup, Preparing, BoxInv
<1>18. CASE LaunchConflicts
  BY <1>18, <1>00, <1>0, NameFacts
  DEF LaunchConflicts, StartFails, CoreFails, PluginFails, StartedContainer,
      RequiresExplicitGc, NothingFails, RoomInv, RoomMade, InTheWay,
      SameRuntime, Shrinks, TypeOK, Managed, PlanInv, Startup, Preparing,
      BoxInv
<1>19. CASE LaunchFails
  BY <1>19, <1>00, <1>0, NameFacts, CreatedIs
  DEF LaunchFails, StartFails, CoreFails, PluginFails, StartedContainer,
      RequiresExplicitGc, SomethingFails, RoomInv, RoomMade, InTheWay,
      SameRuntime, Shrinks, TypeOK, Managed, PlanInv, Startup, Preparing,
      BoxInv
<1>20. CASE Verified
  BY <1>20, <1>00, <1>0, NameFacts
  DEF Verified, NothingFails, RoomInv, RoomMade, InTheWay, SameRuntime,
      Shrinks, TypeOK, Managed, PlanInv, Startup, Preparing, BoxInv
<1>21. CASE VerificationFails
  BY <1>21, <1>00, <1>0, NameFacts
  DEF VerificationFails, StartFails, CoreFails, PluginFails,
      StartedContainer, RequiresExplicitGc, NothingFails, RoomInv, RoomMade,
      InTheWay, SameRuntime, Shrinks, TypeOK, Managed, PlanInv, Startup,
      Preparing, BoxInv
<1>22. CASE Probe
  BY <1>22, <1>00, <1>0, NameFacts
  DEF Probe, Goto, NothingFails, RoomInv, RoomMade, InTheWay, SameRuntime,
      Shrinks, TypeOK, Managed, PlanInv, Startup, Preparing, BoxInv
<1>23. CASE NextPlugin
  BY <1>23, <1>00, <1>0, NameFacts
  DEF NextPlugin, NothingFails, RoomInv, RoomMade, InTheWay, SameRuntime,
      Shrinks, TypeOK, Managed, PlanInv, Startup, Preparing, BoxInv
<1>24. CASE PluginsDone
  BY <1>24, <1>00, <1>0, NameFacts
  DEF PluginsDone, Goto, NothingFails, RoomInv, RoomMade, InTheWay,
      SameRuntime, Shrinks, TypeOK, Managed, PlanInv, Startup, Preparing,
      BoxInv
<1>25. CASE Undone
  BY <1>25, <1>00, <1>0, NameFacts
  DEF Undone, Goto, NothingFails, AllStopped, RoomInv, RoomMade, InTheWay,
      SameRuntime, Shrinks, TypeOK, Managed, PlanInv, Startup, Preparing,
      BoxInv
<1>26. CASE Shutdown
  BY <1>26, <1>00, <1>0, NameFacts
  DEF Shutdown, NothingFails, RoomInv, RoomMade, InTheWay, SameRuntime,
      Shrinks, TypeOK, Managed, PlanInv, Startup, Preparing, BoxInv
<1>27. CASE ShutdownDone
  BY <1>27, <1>00, <1>0, NameFacts
  DEF ShutdownDone, Goto, NothingFails, AllStopped, RoomInv, RoomMade,
      InTheWay, SameRuntime, Shrinks, TypeOK, Managed, PlanInv, Startup,
      Preparing, BoxInv
<1>28. CASE Crash
  BY <1>28, <1>00, <1>0, NameFacts
  DEF Crash, SomethingFails, RoomInv, RoomMade, InTheWay, SameRuntime,
      Shrinks, TypeOK, Managed, PlanInv, Startup, Preparing, BoxInv
<1>29. ASSUME NEW n \in Names, StopExists(n)
       PROVE  RoomInv' /\ RoomMade'
  BY <1>29, <1>00, <1>0, NameFacts
  DEF StopExists, Look, StopGoto, RoomInv, RoomMade, InTheWay, SameRuntime,
      Shrinks, TypeOK, Managed, PlanInv, Startup, Preparing, BoxInv
<1>30. ASSUME NEW n \in Names, StopRunning(n)
       PROVE  RoomInv' /\ RoomMade'
  BY <1>30, <1>00, <1>0, NameFacts
  DEF StopRunning, Look, StopGoto, AfterStopped, RoomInv, RoomMade,
      InTheWay, SameRuntime, Shrinks, TypeOK, Managed, PlanInv, Startup,
      Preparing, BoxInv
<1>31. ASSUME NEW n \in Names, StopStop(n)
       PROVE  RoomInv' /\ RoomMade'
  BY <1>31, <1>00, <1>0, NameFacts, StopFacts
  DEF StopStop, StopGoto, AfterStopped, NothingFails, RoomInv, RoomMade,
      InTheWay, SameRuntime, Shrinks, TypeOK, Managed, PlanInv, Startup,
      Preparing, BoxInv
<1>32. ASSUME NEW n \in Names, StopRemove(n)
       PROVE  RoomInv' /\ RoomMade'
  BY <1>32, <1>00, <1>0, NameFacts, RemoveFacts
  DEF StopRemove, StopGoto, NothingFails, RoomInv, RoomMade, InTheWay,
      SameRuntime, Shrinks, TypeOK, Managed, PlanInv, Startup, Preparing,
      BoxInv
<1>33. ASSUME NEW n \in Names, StopFails(n)
       PROVE  RoomInv' /\ RoomMade'
  BY <1>33, <1>00, <1>0, NameFacts
  DEF StopFails, StopGoto, SomethingFails, RoomInv, RoomMade, InTheWay,
      SameRuntime, Shrinks, TypeOK, Managed, PlanInv, Startup, Preparing,
      BoxInv
<1> QED
  BY <1>1, <1>2, <1>3, <1>4, <1>5, <1>6, <1>7, <1>8, <1>9, <1>10, <1>11,
      <1>12, <1>13, <1>14, <1>15, <1>16, <1>16a, <1>17, <1>18, <1>19, <1>20, <1>21,
      <1>22, <1>23, <1>24, <1>25, <1>26, <1>27, <1>28, <1>29, <1>30, <1>31,
      <1>32, <1>33
  DEF Next, Starting, Stopping

(* Whatever is loose afterwards was loose before.                          *)
LEMMA StaysLoose ==
  ASSUME NEW m \in Names, BoxInv', docker' = docker,
         Shrinks(m) \/ box'[m].mine = FALSE, Loose(m)'
  PROVE  Loose(m)
BY DEF BoxInv, Shrinks, Loose

(* A start that fails without a container of its own to undo.              *)
LEMMA StartFailsPlan ==
  ASSUME NEW error, StartFails(error), ~StartedContainer(error)
  PROVE  /\ stops' = stops
         /\ \/ owned' = owned /\ pc' = "plugins"
            \/ name = core /\ pc' \in {"failed", "down"}
  BY DEF StartFails, CoreFails, PluginFails

(* While room is being made, the owner of a loose container stays.         *)
LEMMA PreparingOwner ==
  ASSUME PlanInv, OwnerInv, pc \in Preparing, pc # "verifying",
         trouble' = trouble, stops' = stops,
         \A m \in Names : Loose(m)' => Loose(m),
         \/ owned' = owned /\ pc' \in Startup
         \/ name = core /\ pc' \in {"failed", "down"}
  PROVE  OwnerInv'
<1>1. \A m \in Names : stops[m] = "idle"
  BY DEF PlanInv, Preparing, Startup
<1>2. ~trouble => \A m \in Names : Loose(m) => m \in owned /\ name # core
  BY <1>1 DEF OwnerInv, PlanInv, Preparing, Startup
<1> QED
  BY <1>1, <1>2 DEF OwnerInv

(* While containers are stopped, a loose one is on its way.                *)
LEMMA StoppingOwner ==
  ASSUME TypeOK, PlanInv, OwnerInv, NEW n \in Names, stops[n] # "idle",
         NEW location, StopGoto(n, location), trouble => trouble',
         \A m \in Names : m # n => (Loose(m)' => Loose(m)) /\ (Active(m)' => Active(m)),
         location = "remove" => n \notin docker /\ (trouble' \/ ~Active(n)'),
         location = "idle" => trouble' \/ ~Loose(n)'
  PROVE  OwnerInv'
<1>1. pc' = pc /\ pc \in {"undoing", "stopping"} /\ UNCHANGED <<docker, name, owned>>
  BY DEF StopGoto, PlanInv
<1>2. stops'[n] = location /\ \A m \in Names : m # n => stops'[m] = stops[m]
  BY DEF StopGoto, TypeOK
<1>3. \A m \in Names : stops'[m] = "remove" => m \notin docker /\ (trouble' \/ ~Active(m)')
  BY <1>2 DEF OwnerInv
<1>4. ASSUME ~trouble', NEW m \in Names, Loose(m)'
      PROVE  \/ pc \in (Startup \cup {"up", "failed"}) /\ m \in owned
             \/ stops'[m] # "idle"
  BY <1>1, <1>2, <1>4 DEF OwnerInv
<1> QED
  BY <1>1, <1>3, <1>4 DEF OwnerInv

(* Nobody else makes a container this session's.                           *)
LEMMA OwnerOthers ==
  ASSUME TypeOK, BoxInv', OwnerInv, Others
  PROVE  OwnerInv'
<1>1. docker' = docker /\ UNCHANGED <<pc, name, owned, stops, trouble>>
  BY OthersFacts DEF program
<1>2. \A n \in Names : Loose(n)' => Loose(n)
  BY <1>1, OthersFacts, StaysLoose
<1>3. \A n \in Names : Active(n)' => Active(n)
  BY OthersFacts DEF Shrinks, Active, Running, Present
<1> QED
  BY <1>1, <1>2, <1>3 DEF OwnerInv

(* Without trouble, what must not be left is somebody's to stop.           *)
LEMMA OwnerStep ==
  ASSUME TypeOK, PlanInv, BoxInv, OwnerInv, Next
  PROVE  OwnerInv'
<1> SUFFICES ASSUME ~Others
             PROVE  OwnerInv'
  BY OwnerOthers, BoxStep
<1>00. BoxInv' /\ docker' = docker
  BY BoxStep, DocksStay
<1>0. pc # "down" =>
        \A m \in Names : (pc \in {"networking", "launching"} => m # name) => Shrinks(m)
  BY NothingAppears
<1>1. CASE Start
  <2>1. \A m \in Names : stops'[m] = "idle" /\ box'[m].mine = FALSE
    BY <1>1, StartFacts DEF Start, PlanInv
  <2> QED
    BY <2>1 DEF OwnerInv, Active, Loose
<1>2. CASE CommandFails
  BY <1>2, <1>0, NameFacts
  DEF CommandFails, SomethingFails, StartFails, CoreFails, PluginFails,
      StartedContainer, RequiresExplicitGc, Startup, OwnerInv, Active, Loose,
      Shrinks, TypeOK, PlanInv, Preparing, BoxInv, AllStopped
<1>3. CASE RecreateExists
  BY <1>3, <1>0, NameFacts
  DEF RecreateExists, Look, Goto, OwnerInv, Active, Loose, Shrinks, TypeOK, PlanInv,
      Startup, Preparing, BoxInv, AllStopped
<1>4. CASE RecreateList
  BY <1>4, <1>0, NameFacts
  DEF RecreateList, Goto, NothingFails, IsManaged, ManagedContainers,
      RoleOf, OwnerInv, Active, Loose, Shrinks, TypeOK, PlanInv, Startup, Preparing,
      BoxInv, AllStopped
<1>5. CASE RecreateRunning
  BY <1>5, <1>0, NameFacts
  DEF RecreateRunning, Look, Goto, OwnerInv, Active, Loose, Shrinks, TypeOK,
      PlanInv, Startup, Preparing, BoxInv, AllStopped
<1>6. CASE RecreateStop
  <2>1. \A m \in Names : Loose(m)' => Loose(m)
    BY <1>00, <1>0, <1>6, StaysLoose DEF RecreateStop
  <2> QED
    BY <1>6, <2>1, PreparingOwner
    DEF RecreateStop, Goto, NothingFails, Preparing, Startup
<1>7. CASE RecreateRemove
  <2>1. \A m \in Names : Loose(m)' => Loose(m)
    BY <1>00, <1>0, <1>7, StaysLoose DEF RecreateRemove
  <2> QED
    BY <1>7, <2>1, StartFailsPlan, PreparingOwner
    DEF RecreateRemove, Goto, NothingFails, StartedContainer, Preparing, Startup
<1>8. CASE SkipPreflight
  BY <1>8, <1>0, NameFacts
  DEF SkipPreflight, Goto, NothingFails, OwnerInv, Active, Loose, Shrinks, TypeOK,
      PlanInv, Startup, Preparing, BoxInv, AllStopped
<1>9. CASE Preflight
  BY <1>9, <1>0, NameFacts
  DEF Preflight, Goto, NothingFails, ManagedContainers, StartFails,
      CoreFails, PluginFails, StartedContainer, RequiresExplicitGc,
      OwnerInv, Active, Loose, Shrinks, TypeOK, PlanInv, Startup, Preparing, BoxInv,
      AllStopped
<1>10. CASE ListedOneGoesAway
  <2>1. \A m \in Names : Loose(m)' => Loose(m)
    BY <1>00, <1>0, <1>10, StaysLoose DEF ListedOneGoesAway
  <2> QED
    BY <1>10, <2>1, StartFailsPlan, PreparingOwner
    DEF ListedOneGoesAway, NothingFails, StartedContainer, Preparing, Startup
<1>11. CASE Collected
  BY <1>11, <1>0, NameFacts
  DEF Collected, Goto, NothingFails, OwnerInv, Active, Loose, Shrinks, TypeOK,
      PlanInv, Startup, Preparing, BoxInv, AllStopped
<1>12. CASE CollectOne
  <2>1. \A m \in Names : Loose(m)' => Loose(m)
    BY <1>00, <1>0, <1>12, StaysLoose DEF CollectOne
  <2> QED
    BY <1>12, <2>1, PreparingOwner
    DEF CollectOne, NothingFails, AfterStop, Preparing, Startup
<1>13. CASE RemovalSeen
  BY <1>13, <1>0, NameFacts
  DEF RemovalSeen, Look, Goto, OwnerInv, Active, Loose, Shrinks, TypeOK, PlanInv,
      Startup, Preparing, BoxInv, AllStopped
<1>14. CASE RemovalTimesOut
  BY <1>14, <1>0, NameFacts
  DEF RemovalTimesOut, StartFails, CoreFails, PluginFails, StartedContainer,
      RequiresExplicitGc, NothingFails, OwnerInv, Active, Loose, Shrinks, TypeOK,
      PlanInv, Startup, Preparing, BoxInv, AllStopped
<1>15. CASE RemoveCollected
  <2>1. \A m \in Names : Loose(m)' => Loose(m)
    BY <1>00, <1>0, <1>15, StaysLoose DEF RemoveCollected
  <2> QED
    BY <1>15, <2>1, PreparingOwner
    DEF RemoveCollected, Goto, NothingFails, Preparing, Startup
<1>16. CASE Ensure
  BY <1>16, <1>0, NameFacts
  DEF Ensure, Look, StartFails, CoreFails, PluginFails, StartedContainer,
      RequiresExplicitGc, Goto, OwnerInv, Active, Loose, Shrinks, TypeOK, PlanInv,
      Startup, Preparing, BoxInv, AllStopped
<1>16a. CASE EnsureNetwork
  <2>1. \A m \in Names : Loose(m)' => Loose(m)
    BY <1>00, <1>16a DEF EnsureNetwork, Loose, Running
  <2>2. UNCHANGED <<trouble, stops>> /\ pc = "networking"
    <3>1. trouble' = trouble /\ pc = "networking"
      BY <1>16a DEF EnsureNetwork, NothingFails
    <3>2. stops' = stops
      BY <1>16a, StartFailsPlan DEF EnsureNetwork, Goto, StartedContainer
    <3> QED
      BY <3>1, <3>2
  <2>3. CASE Goto("launching")
    BY <2>1, <2>2, <2>3, PreparingOwner DEF Goto, Preparing, Startup
  <2>4. CASE StartFails("Conflict")
    <3>1. ~StartedContainer("Conflict")
      BY DEF StartedContainer
    <3>2. \/ owned' = owned /\ pc' = "plugins"
          \/ name = core /\ pc' \in {"failed", "down"}
      BY <2>4, <3>1, StartFailsPlan
    <3> QED
      BY <2>1, <2>2, <3>2, PreparingOwner DEF Preparing, Startup
  <2> QED
    BY <1>16a, <2>3, <2>4 DEF EnsureNetwork
<1>17. CASE Launch
  BY <1>17, <1>0, NameFacts, CreatedIs
  DEF Launch, Goto, NothingFails, OwnerInv, Active, Loose, Shrinks, TypeOK, PlanInv,
      Startup, Preparing, BoxInv, AllStopped
<1>18. CASE LaunchConflicts
  <2>1. \A m \in Names : Loose(m)' => Loose(m)
    BY <1>00, <1>18 DEF LaunchConflicts, Loose, Running
  <2> QED
    BY <1>18, <2>1, PreparingOwner, StartFailsPlan
    DEF LaunchConflicts, NothingFails, StartedContainer, Preparing, Startup
<1>19. CASE LaunchFails
  BY <1>19, <1>0, NameFacts, CreatedIs
  DEF LaunchFails, StartFails, CoreFails, PluginFails, StartedContainer,
      RequiresExplicitGc, SomethingFails, OwnerInv, Active, Loose, Shrinks, TypeOK,
      PlanInv, Startup, Preparing, BoxInv, AllStopped
<1>20. CASE Verified
  BY <1>20, <1>0, NameFacts
  DEF Verified, NothingFails, OwnerInv, Active, Loose, Shrinks, TypeOK, PlanInv,
      Startup, Preparing, BoxInv, AllStopped
<1>21. CASE VerificationFails
  BY <1>21, <1>0, NameFacts
  DEF VerificationFails, StartFails, CoreFails, PluginFails,
      StartedContainer, RequiresExplicitGc, NothingFails, OwnerInv, Active, Loose,
      Shrinks, TypeOK, PlanInv, Startup, Preparing, BoxInv, AllStopped
<1>22. CASE Probe
  BY <1>22, <1>0, NameFacts
  DEF Probe, Goto, NothingFails, OwnerInv, Active, Loose, Shrinks, TypeOK, PlanInv,
      Startup, Preparing, BoxInv, AllStopped
<1>23. CASE NextPlugin
  BY <1>23, <1>0, NameFacts
  DEF NextPlugin, NothingFails, OwnerInv, Active, Loose, Shrinks, TypeOK, PlanInv,
      Startup, Preparing, BoxInv, AllStopped
<1>24. CASE PluginsDone
  BY <1>24, <1>0, NameFacts
  DEF PluginsDone, Goto, NothingFails, OwnerInv, Active, Loose, Shrinks, TypeOK,
      PlanInv, Startup, Preparing, BoxInv, AllStopped
<1>25. CASE Undone
  BY <1>25, <1>0, NameFacts
  DEF Undone, Goto, NothingFails, AllStopped, OwnerInv, Active, Loose, Shrinks,
      TypeOK, PlanInv, Startup, Preparing, BoxInv
<1>26. CASE Shutdown
  BY <1>26, <1>0, NameFacts
  DEF Shutdown, NothingFails, OwnerInv, Active, Loose, Shrinks, TypeOK, PlanInv,
      Startup, Preparing, BoxInv, AllStopped
<1>27. CASE ShutdownDone
  BY <1>27, <1>0, NameFacts
  DEF ShutdownDone, Goto, NothingFails, AllStopped, OwnerInv, Active, Loose,
      Shrinks, TypeOK, PlanInv, Startup, Preparing, BoxInv
<1>28. CASE Crash
  BY <1>28, <1>0, NameFacts
  DEF Crash, SomethingFails, OwnerInv, Active, Loose, Shrinks, TypeOK, PlanInv,
      Startup, Preparing, BoxInv, AllStopped
<1>29. ASSUME NEW n \in Names, StopExists(n)
       PROVE  OwnerInv'
  <2>1. \A m \in Names : (Loose(m)' => Loose(m)) /\ (Active(m)' => Active(m))
    BY <1>00, <1>29 DEF StopExists, Loose, Active, Running
  <2>2. PICK seen \in BOOLEAN :
          Look(Present(n), seen) /\ StopGoto(n, IF seen THEN "running" ELSE "idle")
    BY <1>29 DEF StopExists
  <2>3. ~seen => trouble' \/ ~Loose(n)'
    BY <2>1, <2>2 DEF Look, Loose, BoxInv
  <2> QED
    BY <1>29, <2>1, <2>2, <2>3, StoppingOwner DEF StopExists, Look
<1>30. ASSUME NEW n \in Names, StopRunning(n)
       PROVE  OwnerInv'
  <2>1. \A m \in Names : (Loose(m)' => Loose(m)) /\ (Active(m)' => Active(m))
    BY <1>00, <1>30 DEF StopRunning, Loose, Active, Running
  <2>2. PICK seen \in BOOLEAN :
          Look(Running(n), seen) /\ StopGoto(n, IF seen THEN "stop" ELSE AfterStopped(n))
    BY <1>30 DEF StopRunning
  <2>3. ~seen => trouble' \/ ~Running(n)
    BY <2>2 DEF Look
  <2>4. ~seen => trouble' \/ ~Active(n)'
    BY <2>1, <2>3 DEF Active
  <2>5. ~seen /\ n \in docker => trouble' \/ ~Loose(n)'
    BY <1>00, <2>4 DEF Loose, Active
  <2> QED
    BY <1>30, <2>1, <2>2, <2>4, <2>5, StoppingOwner DEF StopRunning, Look, AfterStopped
<1>31. ASSUME NEW n \in Names, StopStop(n)
       PROVE  OwnerInv'
  <2>1. CASE StopCommand(n) /\ StopGoto(n, AfterStopped(n))
    <3>1. ~Running(n)' /\ ~Active(n)' /\ \A m \in Names : m # n => box'[m] = box[m]
      BY <2>1, StopFacts DEF Active, Running, OthersStay
    <3>2. \A m \in Names : m # n => (Loose(m)' => Loose(m)) /\ (Active(m)' => Active(m))
      BY <1>00, <3>1 DEF Loose, Active, Running
    <3>3. n \in docker => ~Loose(n)'
      BY <1>00, <3>1 DEF Loose
    <3> QED
      BY <1>31, <2>1, <3>1, <3>2, <3>3, StoppingOwner DEF StopStop, AfterStopped, NothingFails
  <2>2. CASE ~Present(n) /\ StopGoto(n, "idle") /\ UNCHANGED box
    <3>1. \A m \in Names : (Loose(m)' => Loose(m)) /\ (Active(m)' => Active(m))
      BY <1>00, <2>2 DEF Loose, Active, Running
    <3>2. ~Loose(n)'
      BY <2>2, <3>1 DEF Loose, BoxInv
    <3> QED
      BY <1>31, <2>2, <3>1, <3>2, StoppingOwner DEF StopStop, NothingFails
  <2> QED
    BY <1>31, <2>1, <2>2 DEF StopStop
<1>32. ASSUME NEW n \in Names, StopRemove(n)
       PROVE  OwnerInv'
  <2>1. CASE RemoveCommand(n)
    <3>1. ~Loose(n)' /\ \A m \in Names : m # n => box'[m] = box[m]
      BY <2>1, RemoveFacts, NameFacts DEF Loose, OthersStay
    <3>2. \A m \in Names : m # n => (Loose(m)' => Loose(m)) /\ (Active(m)' => Active(m))
      BY <1>00, <3>1 DEF Loose, Active, Running
    <3> QED
      BY <1>32, <3>1, <3>2, StoppingOwner DEF StopRemove, NothingFails
  <2>2. CASE box[n].state # "exited" /\ UNCHANGED box
    <3>1. \A m \in Names : (Loose(m)' => Loose(m)) /\ (Active(m)' => Active(m))
      BY <1>00, <2>2 DEF Loose, Active, Running
    <3>2. n \notin docker /\ (trouble \/ ~Active(n))
      BY <1>32 DEF StopRemove, OwnerInv
    <3>3. trouble \/ ~box[n].mine
      BY <2>2, <3>2 DEF BoxInv, TypeOK, Box, Present, Running, Active
    <3>4. trouble \/ ~Loose(n)'
      BY <3>1, <3>3 DEF Loose
    <3> QED
      BY <1>32, <3>1, <3>4, StoppingOwner DEF StopRemove, NothingFails
  <2> QED
    BY <1>32, <2>1, <2>2 DEF StopRemove
<1>33. ASSUME NEW n \in Names, StopFails(n)
       PROVE  OwnerInv'
  BY <1>33, <1>0, NameFacts
  DEF StopFails, StopGoto, SomethingFails, OwnerInv, Active, Loose, Shrinks, TypeOK,
      PlanInv, Startup, Preparing, BoxInv, AllStopped
<1> QED
  BY <1>1, <1>2, <1>3, <1>4, <1>5, <1>6, <1>7, <1>8, <1>9, <1>10, <1>11,
      <1>12, <1>13, <1>14, <1>15, <1>16, <1>16a, <1>17, <1>18, <1>19, <1>20, <1>21,
      <1>22, <1>23, <1>24, <1>25, <1>26, <1>27, <1>28, <1>29, <1>30, <1>31,
      <1>32, <1>33
  DEF Next, Starting, Stopping

-----------------------------------------------------------------------------
(* The inductive invariant holds initially ...                             *)
LEMMA InitIInv ==
  ASSUME Init
  PROVE  IInv
<1>1. TypeOK
  BY NameFacts, NameAssumption, ChoiceAssumption
  DEF Init, TypeOK, Names, Location, StopLocation, Managed
<1>2. /\ pc = "down" /\ name = core /\ owned = {}
      /\ \A n \in Names : box[n] = Nothing /\ stops[n] = "idle"
  BY DEF Init
<1>3. Nothing.state = "absent" /\ Nothing.role = Foreign /\ Nothing.mine = FALSE
  BY NameFacts
<1>4. BoxInv
  BY <1>2, <1>3, NameFacts DEF BoxInv
<1>5. PlanInv
  BY <1>2 DEF PlanInv, Preparing, Startup
<1>6. TargetInv
  BY <1>2 DEF TargetInv
<1>7. RoomInv /\ RoomMade
  BY <1>2 DEF RoomInv, RoomMade
<1>8. OwnerInv
  BY <1>2, <1>3 DEF OwnerInv, Active, Loose
<1> QED
  BY <1>1, <1>4, <1>5, <1>6, <1>7, <1>8 DEF IInv

(* ... and every step keeps it.                                            *)
LEMMA NextIInv ==
  ASSUME IInv, [Next]_vars
  PROVE  IInv'
<1>1. CASE Next
  BY <1>1, TypeStep, BoxStep, PlanStep, TargetStep, RoomStep, OwnerStep DEF IInv
<1>2. CASE UNCHANGED vars
  <2>1. UNCHANGED <<box, docker, policy, core, pc, name, todo, listed, target, owned,
                    stops, trouble>>
    BY <1>2 DEF vars, program
  <2>2. TypeOK' /\ BoxInv' /\ PlanInv'
    BY <2>1 DEF IInv, TypeOK, BoxInv, PlanInv, Present
  <2>3. TargetInv' /\ RoomInv' /\ RoomMade'
    BY <2>1 DEF IInv, TargetInv, GoneOr, GoneOrMine, RoomInv, RoomMade, InTheWay,
       SameRuntime, Present
  <2>4. OwnerInv'
    BY <2>1 DEF IInv, OwnerInv, Active, Loose, Running
  <2> QED
    BY <2>2, <2>3, <2>4 DEF IInv
<1> QED
  BY <1>1, <1>2

(* Hence the invariant always holds.                                       *)
LEMMA Invariance == Spec => []IInv
<1>1. Init => IInv
  BY InitIInv
<1>2. IInv /\ [Next]_vars => IInv'
  BY NextIInv
<1> QED
  BY <1>1, <1>2, PTL DEF Spec

-----------------------------------------------------------------------------
(* What the process knows of its containers is always of its type.         *)
THEOREM ContainersTypeCorrect == Spec => []TypeOK
<1>1. Init => TypeOK
  BY InitIInv DEF IInv
<1>2. TypeOK /\ [Next]_vars => TypeOK'
  <2>1. TypeOK /\ UNCHANGED vars => TypeOK'
    BY DEF vars, program, TypeOK
  <2> QED
    BY <2>1, TypeStep
<1> QED
  BY <1>1, <1>2, PTL DEF Spec

(* Preflight, collection and recreation have made room by the time a       *)
(* container is launched (garbage_collect_managed_containers).             *)
THEOREM RoomIsMade == Spec => []RoomMade
<1>1. IInv => RoomMade
  BY DEF IInv
<1> QED
  BY <1>1, Invariance, PTL

(* A session without trouble leaves nothing of its own running, and of     *)
(* Apple's containers nothing at all (shutdown_managed_runtime).           *)
THEOREM LeavesNothing == Spec => []NothingLeftBehind
<1>1. IInv => NothingLeftBehind
  <2> SUFFICES ASSUME IInv, pc = "down", ~trouble, NEW n \in Names, box[n].mine
               PROVE  n \in docker /\ ~Running(n)
    BY DEF NothingLeftBehind
  <2>1. ~Loose(n)
    BY DEF IInv, OwnerInv, PlanInv, Startup
  <2> QED
    BY <2>1 DEF Loose
<1> QED
  BY <1>1, Invariance, PTL

(* What collection removes may be removed.                                 *)
LEMMA RoleIsOurs ==
  ASSUME BoxInv, policy = "collect", NEW n \in Names, Present(n),
         GoneOr(n, RoleOf(name)), ~box[n].late
  PROVE  Ours(n)
<1>1. box[n].role = RoleOf(name)
  BY DEF GoneOr
<1>2. CASE name \in Plugins
  BY <1>1, <1>2, NameFacts DEF BoxInv, Ours
<1>3. CASE name \notin Plugins
  BY <1>1, <1>3, NameFacts DEF Ours
<1> QED
  BY <1>2, <1>3

(* A step of the process leaves a container alone that is not its own.     *)
LEMMA SparesStep ==
  ASSUME IInv, Next, program' # program, NEW m \in Names,
         box[m].state \in {"running", "exited"}, ~Ours(m), ~box[m].late
  PROVE  box'[m].state = box[m].state
<1>0. /\ TypeOK /\ BoxInv /\ PlanInv /\ TargetInv
      /\ name \in Names /\ target \in Names /\ Present(m)
  BY DEF IInv, TypeOK, Present
<1>1. CASE Start
  BY <1>0, <1>1, StartFacts
<1>2. CASE RecreateStop
  <2>1. m # name
    BY <1>0, <1>2 DEF RecreateStop, TargetInv, GoneOr, Ours
  <2> QED
    BY <1>0, <1>2, <2>1, StopFacts DEF RecreateStop, OthersStay
<1>3. CASE RecreateRemove
  <2>1. m # name
    BY <1>0, <1>3 DEF RecreateRemove, TargetInv, GoneOr, Ours
  <2> QED
    BY <1>0, <1>3, <2>1, RemoveFacts DEF RecreateRemove, OthersStay
<1>4. CASE ListedOneGoesAway
  <2>1. PICK n \in docker : box[n].state = "removing" /\ Vanish(n)
    BY <1>4 DEF ListedOneGoesAway
  <2>2. n \in Names
    BY <1>0, ChoiceAssumption DEF TypeOK, Names
  <2> QED
    BY <1>0, <2>1, <2>2, VanishFacts DEF OthersStay
<1>5. CASE CollectOne
  <2>1. ASSUME NEW c \in listed, StopCommand(c.name)
        PROVE  box'[m].state = box[m].state
    <3>1. c.name \in Names
      BY <1>0 DEF TypeOK, Managed
    <3>2. GoneOr(c.name, RoleOf(name)) /\ policy = "collect"
      BY <1>0, <1>5 DEF CollectOne, TargetInv, PlanInv
    <3>3. m # c.name
      BY <1>0, <3>2, RoleIsOurs
    <3> QED
      BY <1>0, <2>1, <3>1, <3>3, StopFacts DEF OthersStay
  <2> QED
    BY <1>5, <2>1 DEF CollectOne
<1>6. CASE RemoveCollected
  <2>1. GoneOr(target, RoleOf(name)) /\ policy = "collect"
    BY <1>0, <1>6 DEF RemoveCollected, TargetInv, PlanInv
  <2>2. m # target
    BY <1>0, <2>1, RoleIsOurs
  <2> QED
    BY <1>0, <1>6, <2>2, RemoveFacts DEF RemoveCollected, OthersStay
<1>7. CASE Launch
  BY <1>0, <1>7, CreateFacts, CreatedIs DEF Launch, OthersStay
<1>8. CASE LaunchFails
  BY <1>0, <1>8, CreateFacts, CreatedIs DEF LaunchFails, OthersStay
<1>9. ASSUME NEW n \in Names, StopStop(n)
       PROVE  box'[m].state = box[m].state
  <2>1. m # n
    BY <1>0, <1>9 DEF StopStop, TargetInv, GoneOrMine, Ours
  <2> QED
    BY <1>0, <1>9, <2>1, StopFacts DEF StopStop, OthersStay
<1>10. ASSUME NEW n \in Names, StopRemove(n)
       PROVE  box'[m].state = box[m].state
  <2>1. m # n
    BY <1>0, <1>10 DEF StopRemove, TargetInv, GoneOrMine, Ours
  <2> QED
    BY <1>0, <1>10, <2>1, RemoveFacts DEF StopRemove, OthersStay
<1>11. CASE UNCHANGED box
  BY <1>11
<1>12. CASE Others
  BY <1>0, <1>12, OthersFacts
<1> QED
  BY <1>1, <1>2, <1>3, <1>4, <1>5, <1>6, <1>7, <1>8, <1>9, <1>10, <1>11,
      <1>12
  DEF Next, Starting, Stopping, CommandFails, RecreateExists, RecreateList,
      RecreateRunning, SkipPreflight, Preflight, Collected, RemovalSeen,
      RemovalTimesOut, Ensure, EnsureNetwork, LaunchConflicts, Verified, VerificationFails,
      Probe, NextPlugin, PluginsDone, Undone, Shutdown, ShutdownDone, Crash,
      StopExists, StopRunning, StopFails

(* No step of the process stops or removes a container that is not this    *)
(* session's, unless an earlier session left it and it has the role that   *)
(* is being collected or recreated, or it took a name while the process    *)
(* had a claim on it (stop_mcp_container and the others go by name).       *)
THEOREM OthersSpared == Spec => SparesOthers
<1>1. IInv /\ [Next]_vars =>
        [program' # program =>
           \A n \in Names :
             box[n].state \in {"running", "exited"} /\ ~Ours(n) /\ ~box[n].late =>
               box'[n].state = box[n].state]_vars
  BY SparesStep
<1>2. Spec => []IInv
  BY Invariance
<1> QED
  BY <1>1, <1>2, PTL DEF Spec, SparesOthers

-----------------------------------------------------------------------------
(* Going round.  A failed start of a container is further than any         *)
(* location it can fail at.                                                *)
LEMMA FailureAdvances ==
  ASSUME NEW error, StartFails(error),
         pc \in Startup \ {"probing", "undoing", "plugins"}
  PROVE  Advances
<1>1. todo' = todo /\ pc' \in {"down", "failed", "undoing", "plugins"}
  BY DEF StartFails, CoreFails, PluginFails
<1>2. Stage(pc') \in 12 .. 14 /\ Stage(pc) \in 1 .. 11
  BY <1>1 DEF Stage, Startup
<1> QED
  BY <1>1, <1>2 DEF Advances

(* A command of the startup brings it further.                             *)
LEMMA StartingAdvances ==
  ASSUME Starting, pc \in Startup
  PROVE  Advances
<1>1. CASE CommandFails
  BY <1>1, FailureAdvances
  DEF CommandFails, Goto, Advances, Stage, Startup
<1>2. CASE RecreateExists
  BY <1>2
  DEF RecreateExists, Goto, Advances, Stage, Startup
<1>3. CASE RecreateList
  BY <1>3
  DEF RecreateList, Goto, Advances, Stage, Startup
<1>4. CASE RecreateRunning
  BY <1>4
  DEF RecreateRunning, Goto, Advances, Stage, Startup
<1>5. CASE RecreateStop
  BY <1>5
  DEF RecreateStop, Goto, Advances, Stage, Startup
<1>6. CASE RecreateRemove
  BY <1>6, FailureAdvances
  DEF RecreateRemove, Goto, Advances, Stage, Startup
<1>7. CASE SkipPreflight
  BY <1>7
  DEF SkipPreflight, Goto, Advances, Stage, Startup
<1>8. CASE Preflight
  BY <1>8, FailureAdvances
  DEF Preflight, Goto, Advances, Stage, Startup
<1>9. CASE ListedOneGoesAway
  BY <1>9, FailureAdvances
  DEF ListedOneGoesAway, Goto, Advances, Stage, Startup
<1>10. CASE Collected
  BY <1>10
  DEF Collected, Goto, Advances, Stage, Startup
<1>11. CASE RemovalSeen
  BY <1>11
  DEF RemovalSeen, Goto, Advances, Stage, Startup
<1>12. CASE RemovalTimesOut
  BY <1>12, FailureAdvances
  DEF RemovalTimesOut, Goto, Advances, Stage, Startup
<1>13. CASE RemoveCollected
  BY <1>13
  DEF RemoveCollected, Goto, Advances, Stage, Startup
<1>14. CASE Ensure
  BY <1>14, FailureAdvances
  DEF Ensure, Goto, Advances, Stage, Startup
<1>15. CASE EnsureNetwork
  BY <1>15, FailureAdvances
  DEF EnsureNetwork, Goto, Advances, Stage, Startup
<1>16. CASE Launch
  BY <1>16
  DEF Launch, Goto, Advances, Stage, Startup
<1>17. CASE LaunchConflicts
  BY <1>17, FailureAdvances
  DEF LaunchConflicts, Goto, Advances, Stage, Startup
<1>18. CASE LaunchFails
  BY <1>18, FailureAdvances
  DEF LaunchFails, Goto, Advances, Stage, Startup
<1>19. CASE Verified
  BY <1>19
  DEF Verified, Goto, Advances, Stage, Startup
<1>20. CASE VerificationFails
  BY <1>20, FailureAdvances
  DEF VerificationFails, Goto, Advances, Stage, Startup
<1>21. CASE Probe
  BY <1>21
  DEF Probe, Goto, Advances, Stage, Startup
<1>22. CASE PluginsDone
  BY <1>22
  DEF PluginsDone, Goto, Advances, Stage, Startup
<1>23. CASE Undone
  BY <1>23
  DEF Undone, Goto, Advances, Stage, Startup
<1>24. CASE CollectOne
  <2>1. todo' = todo /\ Fewer(listed', listed)
    BY <1>24 DEF CollectOne, Fewer
  <2>2. pc = "collecting" /\ pc' \in {"collecting", "awaitingRemoval", "removing"}
    BY <1>24 DEF CollectOne, AfterStop
  <2> QED
    BY <2>1, <2>2 DEF Advances, Stage
<1>25. CASE NextPlugin
  BY <1>25 DEF NextPlugin, Fewer, Advances
<1> QED
  BY <1>1, <1>2, <1>3, <1>4, <1>5, <1>6, <1>7, <1>8, <1>9, <1>10, <1>11, <1>12, <1>13, <1>14, <1>15, <1>16, <1>17, <1>18, <1>19, <1>20, <1>21, <1>22, <1>23, <1>24, <1>25 DEF Starting

(* A command of a stop brings that stop further and no other one.          *)
LEMMA StoppingAdvances ==
  ASSUME TypeOK, NEW n \in Names, Stopping(n)
  PROVE  Advances
<1>1. /\ todo' = todo /\ pc' = pc /\ listed' = listed
      /\ stops' = [stops EXCEPT ![n] = stops'[n]]
      /\ StopStage(stops[n]) < StopStage(stops'[n])
  <2>1. CASE StopExists(n)
    BY <2>1 DEF StopExists, StopGoto, StopStage, TypeOK
  <2>2. CASE StopRunning(n)
    BY <2>2 DEF StopRunning, StopGoto, StopStage, AfterStopped, TypeOK
  <2>3. CASE StopStop(n)
    BY <2>3 DEF StopStop, StopGoto, StopStage, AfterStopped, TypeOK
  <2>4. CASE StopRemove(n)
    BY <2>4 DEF StopRemove, StopGoto, StopStage, TypeOK
  <2>5. CASE StopFails(n)
    BY <2>5 DEF StopFails, StopGoto, StopStage, TypeOK, StopLocation
  <2> QED
    BY <2>1, <2>2, <2>3, <2>4, <2>5 DEF Stopping
<1> QED
  BY <1>1 DEF Advances

(* No startup and no shutdown goes round, with any number of plugins and   *)
(* containers and whatever fails.                                          *)
THEOREM NothingGoesRound == Spec => NeverGoesRound
<1>1. ASSUME TypeOK, Next, program' # program, pc \in Startup \cup {"stopping"}
      PROVE  Advances
  <2>1. CASE Starting
    <3>1. pc \in Startup
      BY <2>1
      DEF Starting, CommandFails, RecreateExists, RecreateList, RecreateRunning,
          RecreateStop, RecreateRemove, SkipPreflight, Preflight,
          ListedOneGoesAway, Collected, CollectOne, RemovalSeen,
          RemovalTimesOut, RemoveCollected, Ensure, EnsureNetwork, Launch,
          LaunchConflicts, LaunchFails, Verified, VerificationFails, Probe,
          NextPlugin, PluginsDone, Undone, Startup
    <3> QED
      BY <2>1, <3>1, StartingAdvances
  <2>2. ASSUME NEW n \in Names, Stopping(n) PROVE Advances
    BY <1>1, <2>2, StoppingAdvances
  <2>3. CASE ShutdownDone
    BY <2>3 DEF ShutdownDone, Goto, Advances, Stage
  <2>4. CASE Crash
    BY <1>1, <2>4 DEF Crash, Advances, Stage, Startup
  <2>5. ~Start /\ ~Shutdown
    BY <1>1 DEF Start, Shutdown, Startup
  <2>6. ~Others
    BY <1>1 DEF Others, Exits, DaemonRemoves, ForeignArrives, ForeignLeaves
  <2> QED
    BY <1>1, <2>1, <2>2, <2>3, <2>4, <2>5, <2>6 DEF Next
<1> QED
  BY <1>1, ContainersTypeCorrect, PTL DEF Spec, NeverGoesRound
=============================================================================
