---------------------------- MODULE SessionProofs ----------------------------
(***************************************************************************)
(* Theorems about Session.                                                 *)
(***************************************************************************)
EXTENDS Session, TLAPS

Releases == Cleanups \cup {Main}

Flying(k) == boot[k] \in BootStep \cup {"sent"}
Latest(k) == \A j \in Sessions : j > k => boot[j] = "none"

(* Sessions are started in turn, and nothing is under way while another    *)
(* one is being confirmed.                                                 *)
OneAtATime ==
  /\ \A j, k \in Sessions : j < k /\ boot[k] # "none" => boot[j] # "none"
  /\ \A k \in Sessions : Flying(k) \/ k \in child => Latest(k)
  /\ step = "summary" \/ finalize # "none" =>
       startupRx = Nobody /\ child = {} /\ \A k \in Sessions : ~Flying(k)

(* A session whose tunnel did not come up, or not yet, has no cloudflared. *)
NoChildYet ==
  \A k \in Sessions :
    LET before == boot[k] \in {"none", "load", "core", "probe", "tunnel"} IN
    /\ before => failure[k] = "none"
    /\ before \/ failure[k] # "none" => k \notin child

NothingOwnedYet ==
  \A k \in Sessions : boot[k] \in {"none", "load", "core"} => owned[k] = {}

(* A shutdown has a session exactly when it is shutting one down.          *)
ShutdownsWellFormed ==
  /\ \A c \in Releases :
       /\ release[c].pc \in {"idle", "await", "done"} <=> release[c].session = Nobody
       /\ release[c].pc = "await" => release[c].rx # Nobody
       /\ release[c].pc # "stops" => release[c].left = {}
  /\ step \in {"summary", "status", "shutting", "starting", "serving"} =>
       release[Main].pc = "idle"
  /\ step \in {"starting", "left", "gone"} => runtime = Nobody

TunnelsHeld == \A k \in child : Holds(k)

(* Who will still stop the container of session k.                         *)
WillStop(k, kind) ==
  \/ Flying(k)
  \/ runtime = k
  \/ \E c \in Releases :
       /\ release[c].session = k
       /\ release[c].pc \in {"server", "tunnel"} \/ kind \in release[c].left

ContainersKept ==
  \A kind \in Kinds :
    \/ container[kind] \in loose \cup {Nobody}
    \/ /\ step # "gone"
       /\ kind \in owned[container[kind]]
       /\ WillStop(container[kind], kind)

(* While nobody has asked to quit, the startup that is under way is the    *)
(* one that is waited for, and it is not begun over a session without a    *)
(* failure.                                                                *)
Undisturbed == InTui /\ cleanupRx = Nobody

OneHolder ==
  Undisturbed =>
    /\ \A c \in Releases : release[c].pc = "idle"
    /\ \A k \in Sessions : Flying(k) => startupRx = k
    /\ runtime # Nobody =>
         /\ boot[runtime] = "over"
         /\ startupRx # Nobody \/ step = "summary" \/ finalize # "none" => failure[runtime] # "none"

(* So nothing takes away what a startup without failure has brought up.    *)
IsUp(k) ==
  failure[k] = "none" =>
    /\ boot[k] \in {"probe", "tunnel", "url", "plugins", "bind", "state", "send", "sent"} \/ runtime = k =>
         container["core"] = k
    /\ boot[k] \in {"state", "send", "sent"} \/ runtime = k => server[k] = "open"
    /\ tunnelled /\ (boot[k] \in {"url", "plugins", "bind", "state", "send", "sent"} \/ runtime = k) =>
         k \in child

BroughtUp == Undisturbed => \A k \in Sessions : IsUp(k)

IInv ==
  /\ TypeOK
  /\ OneAtATime /\ NoChildYet /\ NothingOwnedYet /\ ShutdownsWellFormed
  /\ TunnelsHeld /\ ContainersKept
  /\ OneHolder /\ BroughtUp

-----------------------------------------------------------------------------
(* Every step keeps the types. *)
LEMMA TypeStep ==
  ASSUME TypeOK, [Next]_vars
  PROVE  TypeOK'
<1> USE DEF TypeOK, Shutdown, BootStep, Sessions, Cleanups, Releases, Kinds, Nobody, Main, vars, asked, screen, tasks, world
<1>1. ASSUME NEW k \in Sessions, Load(k) PROVE TypeOK'
  BY <1>1 DEF Load, At, Alive, GoOn, Own, Fail, Runs
<1>2. ASSUME NEW k \in Sessions, LoadFails(k) PROVE TypeOK'
  BY <1>2 DEF LoadFails, At, Alive, GoOn, Own, Fail, Runs
<1>3. ASSUME NEW k \in Sessions, RefuseCore(k) PROVE TypeOK'
  BY <1>3 DEF RefuseCore, At, Alive, GoOn, Own, Fail, Runs
<1>4. ASSUME NEW k \in Sessions, StartCore(k) PROVE TypeOK'
  BY <1>4 DEF StartCore, At, Alive, GoOn, Own, Fail, Runs
<1>5. ASSUME NEW k \in Sessions, StartCoreInVain(k) PROVE TypeOK'
  BY <1>5 DEF StartCoreInVain, At, Alive, GoOn, Own, Fail, Runs
<1>6. ASSUME NEW k \in Sessions, NoCore(k) PROVE TypeOK'
  BY <1>6 DEF NoCore, At, Alive, GoOn, Own, Fail, Runs
<1>7. ASSUME NEW k \in Sessions, LoseCore(k) PROVE TypeOK'
  BY <1>7 DEF LoseCore, At, Alive, GoOn, Own, Fail, Runs
<1>8. ASSUME NEW k \in Sessions, ProbePasses(k) PROVE TypeOK'
  BY <1>8 DEF ProbePasses, At, Alive, GoOn, Own, Fail, Runs
<1>9. ASSUME NEW k \in Sessions, ProbeFails(k) PROVE TypeOK'
  BY <1>9 DEF ProbeFails, At, Alive, GoOn, Own, Fail, Runs
<1>10. ASSUME NEW k \in Sessions, NoTunnel(k) PROVE TypeOK'
  BY <1>10 DEF NoTunnel, At, Alive, GoOn, Own, Fail, Runs
<1>11. ASSUME NEW k \in Sessions, TunnelRefused(k) PROVE TypeOK'
  BY <1>11 DEF TunnelRefused, At, Alive, GoOn, Own, Fail, Runs
<1>12. ASSUME NEW k \in Sessions, SpawnTunnel(k) PROVE TypeOK'
  BY <1>12 DEF SpawnTunnel, At, Alive, GoOn, Own, Fail, Runs
<1>13. ASSUME NEW k \in Sessions, TunnelReady(k) PROVE TypeOK'
  BY <1>13 DEF TunnelReady, At, Alive, GoOn, Own, Fail, Runs
<1>14. ASSUME NEW k \in Sessions, TunnelFails(k) PROVE TypeOK'
  BY <1>14 DEF TunnelFails, ChildrenAfterDrop, At, Alive, GoOn, Own, Fail, Runs
<1>15. ASSUME NEW k \in Sessions, NoPlugin(k) PROVE TypeOK'
  BY <1>15 DEF NoPlugin, At, Alive, GoOn, Own, Fail, Runs
<1>16. ASSUME NEW k \in Sessions, StartPlugin(k) PROVE TypeOK'
  BY <1>16 DEF StartPlugin, At, Alive, GoOn, Own, Fail, Runs
<1>17. ASSUME NEW k \in Sessions, LosePlugin(k) PROVE TypeOK'
  BY <1>17 DEF LosePlugin, At, Alive, GoOn, Own, Fail, Runs
<1>18. ASSUME NEW k \in Sessions, Bind(k) PROVE TypeOK'
  BY <1>18 DEF Bind, At, Alive, GoOn, Own, Fail, Runs
<1>19. ASSUME NEW k \in Sessions, BindFails(k) PROVE TypeOK'
  BY <1>19 DEF BindFails, GiveUp, ChildrenAfterDrop, At, Alive, GoOn, Own, Fail, Runs
<1>20. ASSUME NEW k \in Sessions, BuildState(k) PROVE TypeOK'
  BY <1>20 DEF BuildState, At, Alive, GoOn, Own, Fail, Runs
<1>21. ASSUME NEW k \in Sessions, BuildStateFails(k) PROVE TypeOK'
  BY <1>21 DEF BuildStateFails, GiveUp, ChildrenAfterDrop, At, Alive, GoOn, Own, Fail, Runs
<1>22. ASSUME NEW k \in Sessions, Send(k) PROVE TypeOK'
  <2>1. CASE Awaited(k)
    BY <1>22, <2>1 DEF Send, At, GoOn
  <2>2. CASE ~Awaited(k)
    <3>1. child' \subseteq Sessions /\ loose' \subseteq Sessions
      BY <1>22, <2>2 DEF Send, Drop, ChildrenAfterDrop
    <3>2. server' \in [Sessions -> {"none", "open", "draining", "closed"}]
      BY <1>22, <2>2 DEF Send, Drop, ServersAfterDrop
    <3>3. QED
      BY <1>22, <2>2, <3>1, <3>2 DEF Send, At, GoOn
  <2>3. QED
    BY <2>1, <2>2
<1>23. ASSUME NEW k \in Sessions, Drained(k) PROVE TypeOK'
  BY <1>23 DEF Drained, Alive, At, GoOn, Own, Fail, Runs
<1>24. CASE Confirm
  BY <1>24 DEF Confirm, GoOn, Alive
<1>25. CASE Finalized
  BY <1>25 DEF Finalized, Alive, GoOn
<1>26. CASE ApplyFinalize
  BY <1>26 DEF ApplyFinalize, InTui, Next1, GoOn, Alive
<1>27. CASE ApplyStartup
  <2>1. CASE boot[startupRx] = "sent"
    <3>1. child' \subseteq Sessions /\ loose' \subseteq Sessions
      BY <1>27, <2>1 DEF ApplyStartup, Drop, ChildrenAfterDrop
    <3>2. server' \in [Sessions -> {"none", "open", "draining", "closed"}]
      BY <1>27, <2>1 DEF ApplyStartup, Drop, ServersAfterDrop
    <3>3. startupRx \in Sessions /\ runtime' = startupRx /\ boot' = [boot EXCEPT ![startupRx] = "over"]
      BY <1>27, <2>1 DEF ApplyStartup, GoOn
    <3>4. step' \in {"summary", "status", "shutting", "starting", "serving", "left", "gone"}
      BY <1>27, <2>1 DEF ApplyStartup
    <3>5. QED
      BY <1>27, <3>1, <3>2, <3>3, <3>4 DEF ApplyStartup
  <2>2. CASE boot[startupRx] # "sent"
    BY <1>27, <2>2 DEF ApplyStartup
  <2>3. QED
    BY <2>1, <2>2
<1>28. CASE InitiateShutdown
  BY <1>28 DEF InitiateShutdown, InTui, Begin, GoOn, Alive
<1>29. CASE LeaveScreen
  BY <1>29 DEF LeaveScreen, InTui, GoToMain, Begin, GoOn, Alive
<1>30. CASE TerminalFails
  BY <1>30 DEF TerminalFails, InTui, GoToMain, Begin, GoOn, Alive
<1>31. CASE CliBails
  BY <1>31 DEF CliBails, Gone, ChildrenAfterDrop, Unfinished, GoOn, Alive
<1>32. CASE CliServes
  <2>1. 1 \in Sessions
    BY BoundAssumption
  <2>2. QED
    BY <1>32, <2>1 DEF CliServes, GoOn
<1>33. CASE Interrupt
  BY <1>33 DEF Interrupt, GoToMain, Begin, GoOn, Alive
<1>34. CASE ServerErrs
  BY <1>34 DEF ServerErrs, Gone, ChildrenAfterDrop, Unfinished, In, Alive, GoOn
<1>35. CASE Exit
  BY <1>35 DEF Exit, Gone, ChildrenAfterDrop, Unfinished, GoOn, Alive
<1>36. ASSUME NEW c \in Releases, AskServer(c) PROVE TypeOK'
  BY <1>36 DEF AskServer, In, Alive, GoOn
<1>37. ASSUME NEW c \in Releases, ServerEnded(c) PROVE TypeOK'
  BY <1>37 DEF ServerEnded, In, Alive, Continue, GoOn
<1>38. ASSUME NEW c \in Releases, StopTunnel(c) PROVE TypeOK'
  BY <1>38 DEF StopTunnel, In, Alive, GoOn
<1>39. ASSUME NEW c \in Releases, StopsEnded(c) PROVE TypeOK'
  BY <1>39 DEF StopsEnded, In, Alive, Onwards, Begin, GoOn
<1>40. ASSUME NEW c \in Releases, LateSession(c) PROVE TypeOK'
  BY <1>40 DEF LateSession, In, Alive, Begin, GoOn
<1>41. ASSUME NEW c \in Releases, TimeOut(c) PROVE TypeOK'
  BY <1>41 DEF TimeOut, Alive, Begin, Drop, ChildrenAfterDrop, ServersAfterDrop, GoOn
<1>42. ASSUME NEW c \in Releases, NEW kind \in Kinds, StopContainer(c, kind) PROVE TypeOK'
  BY <1>42 DEF StopContainer, In, Alive, Runs
<1>43. CASE UNCHANGED vars
  BY <1>43
<1> HIDE DEF TypeOK, Shutdown, BootStep, asked, screen, tasks, world
<1>44. QED
  BY <1>1, <1>2, <1>3, <1>4, <1>5, <1>6, <1>7, <1>8, <1>9, <1>10, <1>11, <1>12, <1>13, <1>14, <1>15, <1>16, <1>17, <1>18, <1>19, <1>20, <1>21, <1>22, <1>23, <1>24, <1>25, <1>26, <1>27, <1>28, <1>29, <1>30, <1>31, <1>32, <1>33, <1>34, <1>35, <1>36, <1>37, <1>38, <1>39, <1>40, <1>41, <1>42, <1>43 DEF Next, Boot, Tui, Cli, Shut

(* Every step keeps the order of the sessions. *)
LEMMA OneAtATimeStep ==
  ASSUME TypeOK, OneAtATime, NoChildYet, ShutdownsWellFormed, [Next]_vars
  PROVE  OneAtATime'
<1> USE DEF TypeOK, Shutdown, BootStep, Sessions, Cleanups, Releases, Kinds, Nobody, Main, vars, asked, screen, tasks, world, OneAtATime, Flying, Latest, NoChildYet, ShutdownsWellFormed
<1>1. ASSUME NEW k \in Sessions, Load(k) PROVE OneAtATime'
  BY <1>1 DEF Load, At, Alive, GoOn, Own, Fail, Runs
<1>2. ASSUME NEW k \in Sessions, LoadFails(k) PROVE OneAtATime'
  BY <1>2 DEF LoadFails, At, Alive, GoOn, Own, Fail, Runs
<1>3. ASSUME NEW k \in Sessions, RefuseCore(k) PROVE OneAtATime'
  BY <1>3 DEF RefuseCore, At, Alive, GoOn, Own, Fail, Runs
<1>4. ASSUME NEW k \in Sessions, StartCore(k) PROVE OneAtATime'
  BY <1>4 DEF StartCore, At, Alive, GoOn, Own, Fail, Runs
<1>5. ASSUME NEW k \in Sessions, StartCoreInVain(k) PROVE OneAtATime'
  BY <1>5 DEF StartCoreInVain, At, Alive, GoOn, Own, Fail, Runs
<1>6. ASSUME NEW k \in Sessions, NoCore(k) PROVE OneAtATime'
  BY <1>6 DEF NoCore, At, Alive, GoOn, Own, Fail, Runs
<1>7. ASSUME NEW k \in Sessions, LoseCore(k) PROVE OneAtATime'
  BY <1>7 DEF LoseCore, At, Alive, GoOn, Own, Fail, Runs
<1>8. ASSUME NEW k \in Sessions, ProbePasses(k) PROVE OneAtATime'
  BY <1>8 DEF ProbePasses, At, Alive, GoOn, Own, Fail, Runs
<1>9. ASSUME NEW k \in Sessions, ProbeFails(k) PROVE OneAtATime'
  BY <1>9 DEF ProbeFails, At, Alive, GoOn, Own, Fail, Runs
<1>10. ASSUME NEW k \in Sessions, NoTunnel(k) PROVE OneAtATime'
  BY <1>10 DEF NoTunnel, At, Alive, GoOn, Own, Fail, Runs
<1>11. ASSUME NEW k \in Sessions, TunnelRefused(k) PROVE OneAtATime'
  BY <1>11 DEF TunnelRefused, At, Alive, GoOn, Own, Fail, Runs
<1>12. ASSUME NEW k \in Sessions, SpawnTunnel(k) PROVE OneAtATime'
  BY <1>12 DEF SpawnTunnel, At, Alive, GoOn, Own, Fail, Runs
<1>13. ASSUME NEW k \in Sessions, TunnelReady(k) PROVE OneAtATime'
  BY <1>13 DEF TunnelReady, At, Alive, GoOn, Own, Fail, Runs
<1>14. ASSUME NEW k \in Sessions, TunnelFails(k) PROVE OneAtATime'
  BY <1>14 DEF TunnelFails, ChildrenAfterDrop, At, Alive, GoOn, Own, Fail, Runs
<1>15. ASSUME NEW k \in Sessions, NoPlugin(k) PROVE OneAtATime'
  BY <1>15 DEF NoPlugin, At, Alive, GoOn, Own, Fail, Runs
<1>16. ASSUME NEW k \in Sessions, StartPlugin(k) PROVE OneAtATime'
  BY <1>16 DEF StartPlugin, At, Alive, GoOn, Own, Fail, Runs
<1>17. ASSUME NEW k \in Sessions, LosePlugin(k) PROVE OneAtATime'
  BY <1>17 DEF LosePlugin, At, Alive, GoOn, Own, Fail, Runs
<1>18. ASSUME NEW k \in Sessions, Bind(k) PROVE OneAtATime'
  BY <1>18 DEF Bind, At, Alive, GoOn, Own, Fail, Runs
<1>19. ASSUME NEW k \in Sessions, BindFails(k) PROVE OneAtATime'
  BY <1>19 DEF BindFails, GiveUp, ChildrenAfterDrop, At, Alive, GoOn, Own, Fail, Runs
<1>20. ASSUME NEW k \in Sessions, BuildState(k) PROVE OneAtATime'
  BY <1>20 DEF BuildState, At, Alive, GoOn, Own, Fail, Runs
<1>21. ASSUME NEW k \in Sessions, BuildStateFails(k) PROVE OneAtATime'
  BY <1>21 DEF BuildStateFails, GiveUp, ChildrenAfterDrop, At, Alive, GoOn, Own, Fail, Runs
<1>22. ASSUME NEW k \in Sessions, Send(k) PROVE OneAtATime'
  <2>1. boot[k] = "send" /\ step' = step /\ finalize' = finalize /\ startupRx' = startupRx
    BY <1>22 DEF Send, At
  <2>2. boot' = [boot EXCEPT ![k] = "sent"] \/ boot' = [boot EXCEPT ![k] = "over"]
    BY <1>22 DEF Send, GoOn
  <2>3. child' \subseteq child
    BY <1>22 DEF Send, Drop, ChildrenAfterDrop
  <2>4. boot'[k] \in {"sent", "over"} /\ \A j \in Sessions \ {k} : boot'[j] = boot[j]
    <3>1. CASE boot' = [boot EXCEPT ![k] = "sent"]
      BY <3>1
    <3>2. CASE boot' = [boot EXCEPT ![k] = "over"]
      BY <3>2
    <3>3. QED
      BY <2>2, <3>1, <3>2
  <2>5. \A j \in Sessions : boot'[j] # "none" <=> boot[j] # "none"
    BY <2>1, <2>4
  <2>6. QED
    BY <2>1, <2>3, <2>4, <2>5
<1>23. ASSUME NEW k \in Sessions, Drained(k) PROVE OneAtATime'
  BY <1>23 DEF Drained, Alive, At, GoOn, Own, Fail, Runs
<1>24. CASE Confirm
  BY <1>24 DEF Confirm, GoOn, Alive
<1>25. CASE Finalized
  BY <1>25 DEF Finalized, Alive, GoOn
<1>26. CASE ApplyFinalize
  <2>1. CASE finalize = "failed"
    BY <1>26, <2>1 DEF ApplyFinalize
  <2>2. CASE finalize = "ok"
    <3>1. PICK k \in Sessions : Next1(k) /\ GoOn(k, "load")
      BY <1>26, <2>2 DEF ApplyFinalize
    <3>2. child = {} /\ child' = child /\ finalize' = "none" /\ step' = "status"
      BY <1>26, <2>2 DEF ApplyFinalize
    <3>3. boot' = [boot EXCEPT ![k] = "load"] /\ boot[k] = "none"
      BY <3>1 DEF Next1, GoOn
    <3>4. \A j \in Sessions : j > k => boot[j] = "none"
      BY <3>3
    <3>5. \A j \in Sessions : j < k => boot[j] # "none"
      BY <3>1 DEF Next1
    <3>6. \A j \in Sessions : boot[j] \notin BootStep \cup {"sent"}
      BY <2>2
    <3>7. \A i, j \in Sessions : i < j /\ boot'[j] # "none" => boot'[i] # "none"
      BY <3>3, <3>4, <3>5
    <3>8. QED
      BY <3>2, <3>3, <3>4, <3>6, <3>7
  <2>3. QED
    BY <1>26, <2>1, <2>2 DEF ApplyFinalize
<1>27. CASE ApplyStartup
  <2>1. CASE boot[startupRx] = "sent"
    <3> DEFINE k == startupRx
    <3>1. k \in Sessions /\ boot' = [boot EXCEPT ![k] = "over"] /\ startupRx' = Nobody /\ finalize' = finalize
      BY <1>27, <2>1 DEF ApplyStartup, GoOn
    <3>2. child' \subseteq child
      BY <1>27, <2>1 DEF ApplyStartup, Drop, ChildrenAfterDrop
    <3>3. \A j \in Sessions : Flying(j) \/ j \in child => j = k
      <4>1. \A j \in Sessions : j > k => boot[j] = "none" /\ ~(j \in child)
        BY <2>1, <3>1
      <4>2. \A j \in Sessions : Flying(j) \/ j \in child => j >= k
        BY <2>1, <3>1
      <4>3. QED
        BY <4>1, <4>2, <3>1
    <3>4. step' = "summary" => child' = {}
      <4>1. step # "summary" /\ finalize = "none"
        BY <1>27 DEF ApplyStartup
      <4>2. step' = "summary" => failure[k] # "none"
        BY <1>27, <2>1, <4>1 DEF ApplyStartup
      <4>3. QED
        BY <3>1, <3>2, <3>3, <4>2
    <3>5. finalize = "none"
      BY <1>27 DEF ApplyStartup
    <3>6. \A j \in Sessions : boot'[j] \notin BootStep \cup {"sent"}
      BY <3>1, <3>3
    <3>7. \A j \in Sessions : boot'[j] # "none" <=> boot[j] # "none"
      BY <2>1, <3>1
    <3>8. QED
      BY <3>1, <3>2, <3>4, <3>5, <3>6, <3>7
  <2>2. CASE boot[startupRx] # "sent"
    <3>1. /\ boot' = boot /\ child' = child /\ step' = step
          /\ startupRx' = Nobody /\ finalize' = finalize
      BY <1>27, <2>2 DEF ApplyStartup
    <3>2. QED
      BY <3>1
  <2>3. QED
    BY <2>1, <2>2
<1>28. CASE InitiateShutdown
  BY <1>28 DEF InitiateShutdown, InTui, Begin, GoOn, Alive
<1>29. CASE LeaveScreen
  BY <1>29 DEF LeaveScreen, InTui, GoToMain, Begin, GoOn, Alive
<1>30. CASE TerminalFails
  BY <1>30 DEF TerminalFails, InTui, GoToMain, Begin, GoOn, Alive
<1>31. CASE CliBails
  BY <1>31 DEF CliBails, Gone, ChildrenAfterDrop, Unfinished, GoOn, Alive
<1>32. CASE CliServes
  BY <1>32 DEF CliServes, GoOn, Alive
<1>33. CASE Interrupt
  BY <1>33 DEF Interrupt, GoToMain, Begin, GoOn, Alive
<1>34. CASE ServerErrs
  BY <1>34 DEF ServerErrs, Gone, ChildrenAfterDrop, Unfinished, In, Alive, GoOn
<1>35. CASE Exit
  BY <1>35 DEF Exit, Gone, ChildrenAfterDrop, Unfinished, GoOn, Alive
<1>36. ASSUME NEW c \in Releases, AskServer(c) PROVE OneAtATime'
  BY <1>36 DEF AskServer, In, Alive, GoOn
<1>37. ASSUME NEW c \in Releases, ServerEnded(c) PROVE OneAtATime'
  BY <1>37 DEF ServerEnded, In, Alive, Continue, GoOn
<1>38. ASSUME NEW c \in Releases, StopTunnel(c) PROVE OneAtATime'
  BY <1>38 DEF StopTunnel, In, Alive, GoOn
<1>39. ASSUME NEW c \in Releases, StopsEnded(c) PROVE OneAtATime'
  BY <1>39 DEF StopsEnded, In, Alive, Onwards, Begin, GoOn
<1>40. ASSUME NEW c \in Releases, LateSession(c) PROVE OneAtATime'
  <2>1. UNCHANGED <<step, finalize, startupRx, child>>
    BY <1>40 DEF LateSession
  <2>2. CASE boot' = boot
    BY <2>1, <2>2
  <2>3. CASE boot' # boot
    <3>1. boot[release[c].rx] = "sent" /\ boot' = [boot EXCEPT ![release[c].rx] = "over"] /\ release[c].rx \in Sessions
      BY <1>40, <2>3 DEF LateSession, In, GoOn
    <3>2. QED
      BY <2>1, <3>1
  <2>4. QED
    BY <2>2, <2>3
<1>41. ASSUME NEW c \in Releases, TimeOut(c) PROVE OneAtATime'
  BY <1>41 DEF TimeOut, Alive, Begin, Drop, ChildrenAfterDrop, ServersAfterDrop, GoOn
<1>42. ASSUME NEW c \in Releases, NEW kind \in Kinds, StopContainer(c, kind) PROVE OneAtATime'
  BY <1>42 DEF StopContainer, In, Alive, Runs
<1>43. CASE UNCHANGED vars
  BY <1>43
<1> HIDE DEF TypeOK, Shutdown, BootStep, asked, screen, tasks, world, OneAtATime, Flying, Latest, NoChildYet, ShutdownsWellFormed
<1>44. QED
  BY <1>1, <1>2, <1>3, <1>4, <1>5, <1>6, <1>7, <1>8, <1>9, <1>10, <1>11, <1>12, <1>13, <1>14, <1>15, <1>16, <1>17, <1>18, <1>19, <1>20, <1>21, <1>22, <1>23, <1>24, <1>25, <1>26, <1>27, <1>28, <1>29, <1>30, <1>31, <1>32, <1>33, <1>34, <1>35, <1>36, <1>37, <1>38, <1>39, <1>40, <1>41, <1>42, <1>43 DEF Next, Boot, Tui, Cli, Shut

(* A cloudflared is only spawned for a session that has got that far. *)
LEMMA NoChildYetStep ==
  ASSUME TypeOK, NoChildYet, OneAtATime, [Next]_vars
  PROVE  NoChildYet'
<1> USE DEF TypeOK, Shutdown, BootStep, Sessions, Cleanups, Releases, Kinds, Nobody, Main, vars, asked, screen, tasks, world, NoChildYet, OneAtATime, Flying
<1>1. ASSUME NEW k \in Sessions, Load(k) PROVE NoChildYet'
  BY <1>1 DEF Load, At, Alive, GoOn, Own, Fail, Runs
<1>2. ASSUME NEW k \in Sessions, LoadFails(k) PROVE NoChildYet'
  BY <1>2 DEF LoadFails, At, Alive, GoOn, Own, Fail, Runs
<1>3. ASSUME NEW k \in Sessions, RefuseCore(k) PROVE NoChildYet'
  BY <1>3 DEF RefuseCore, At, Alive, GoOn, Own, Fail, Runs
<1>4. ASSUME NEW k \in Sessions, StartCore(k) PROVE NoChildYet'
  BY <1>4 DEF StartCore, At, Alive, GoOn, Own, Fail, Runs
<1>5. ASSUME NEW k \in Sessions, StartCoreInVain(k) PROVE NoChildYet'
  BY <1>5 DEF StartCoreInVain, At, Alive, GoOn, Own, Fail, Runs
<1>6. ASSUME NEW k \in Sessions, NoCore(k) PROVE NoChildYet'
  BY <1>6 DEF NoCore, At, Alive, GoOn, Own, Fail, Runs
<1>7. ASSUME NEW k \in Sessions, LoseCore(k) PROVE NoChildYet'
  BY <1>7 DEF LoseCore, At, Alive, GoOn, Own, Fail, Runs
<1>8. ASSUME NEW k \in Sessions, ProbePasses(k) PROVE NoChildYet'
  BY <1>8 DEF ProbePasses, At, Alive, GoOn, Own, Fail, Runs
<1>9. ASSUME NEW k \in Sessions, ProbeFails(k) PROVE NoChildYet'
  BY <1>9 DEF ProbeFails, At, Alive, GoOn, Own, Fail, Runs
<1>10. ASSUME NEW k \in Sessions, NoTunnel(k) PROVE NoChildYet'
  BY <1>10 DEF NoTunnel, At, Alive, GoOn, Own, Fail, Runs
<1>11. ASSUME NEW k \in Sessions, TunnelRefused(k) PROVE NoChildYet'
  BY <1>11 DEF TunnelRefused, At, Alive, GoOn, Own, Fail, Runs
<1>12. ASSUME NEW k \in Sessions, SpawnTunnel(k) PROVE NoChildYet'
  BY <1>12 DEF SpawnTunnel, At, Alive, GoOn, Own, Fail, Runs
<1>13. ASSUME NEW k \in Sessions, TunnelReady(k) PROVE NoChildYet'
  BY <1>13 DEF TunnelReady, At, Alive, GoOn, Own, Fail, Runs
<1>14. ASSUME NEW k \in Sessions, TunnelFails(k) PROVE NoChildYet'
  BY <1>14 DEF TunnelFails, ChildrenAfterDrop, At, Alive, GoOn, Own, Fail, Runs
<1>15. ASSUME NEW k \in Sessions, NoPlugin(k) PROVE NoChildYet'
  BY <1>15 DEF NoPlugin, At, Alive, GoOn, Own, Fail, Runs
<1>16. ASSUME NEW k \in Sessions, StartPlugin(k) PROVE NoChildYet'
  BY <1>16 DEF StartPlugin, At, Alive, GoOn, Own, Fail, Runs
<1>17. ASSUME NEW k \in Sessions, LosePlugin(k) PROVE NoChildYet'
  BY <1>17 DEF LosePlugin, At, Alive, GoOn, Own, Fail, Runs
<1>18. ASSUME NEW k \in Sessions, Bind(k) PROVE NoChildYet'
  BY <1>18 DEF Bind, At, Alive, GoOn, Own, Fail, Runs
<1>19. ASSUME NEW k \in Sessions, BindFails(k) PROVE NoChildYet'
  BY <1>19 DEF BindFails, GiveUp, ChildrenAfterDrop, At, Alive, GoOn, Own, Fail, Runs
<1>20. ASSUME NEW k \in Sessions, BuildState(k) PROVE NoChildYet'
  BY <1>20 DEF BuildState, At, Alive, GoOn, Own, Fail, Runs
<1>21. ASSUME NEW k \in Sessions, BuildStateFails(k) PROVE NoChildYet'
  BY <1>21 DEF BuildStateFails, GiveUp, ChildrenAfterDrop, At, Alive, GoOn, Own, Fail, Runs
<1>22. ASSUME NEW k \in Sessions, Send(k) PROVE NoChildYet'
  BY <1>22 DEF Send, Drop, ChildrenAfterDrop, ServersAfterDrop, Awaited, At, Alive, GoOn, Own, Fail, Runs
<1>23. ASSUME NEW k \in Sessions, Drained(k) PROVE NoChildYet'
  BY <1>23 DEF Drained, Alive, At, GoOn, Own, Fail, Runs
<1>24. CASE Confirm
  BY <1>24 DEF Confirm, GoOn, Alive
<1>25. CASE Finalized
  BY <1>25 DEF Finalized, Alive, GoOn
<1>26. CASE ApplyFinalize
  BY <1>26 DEF ApplyFinalize, InTui, Next1, GoOn, Alive
<1>27. CASE ApplyStartup
  BY <1>27 DEF ApplyStartup, InTui, Drop, ChildrenAfterDrop, ServersAfterDrop, GoOn, Alive
<1>28. CASE InitiateShutdown
  BY <1>28 DEF InitiateShutdown, InTui, Begin, GoOn, Alive
<1>29. CASE LeaveScreen
  BY <1>29 DEF LeaveScreen, InTui, GoToMain, Begin, GoOn, Alive
<1>30. CASE TerminalFails
  BY <1>30 DEF TerminalFails, InTui, GoToMain, Begin, GoOn, Alive
<1>31. CASE CliBails
  BY <1>31 DEF CliBails, Gone, ChildrenAfterDrop, Unfinished, GoOn, Alive
<1>32. CASE CliServes
  BY <1>32 DEF CliServes, GoOn, Alive
<1>33. CASE Interrupt
  BY <1>33 DEF Interrupt, GoToMain, Begin, GoOn, Alive
<1>34. CASE ServerErrs
  BY <1>34 DEF ServerErrs, Gone, ChildrenAfterDrop, Unfinished, In, Alive, GoOn
<1>35. CASE Exit
  BY <1>35 DEF Exit, Gone, ChildrenAfterDrop, Unfinished, GoOn, Alive
<1>36. ASSUME NEW c \in Releases, AskServer(c) PROVE NoChildYet'
  BY <1>36 DEF AskServer, In, Alive, GoOn
<1>37. ASSUME NEW c \in Releases, ServerEnded(c) PROVE NoChildYet'
  BY <1>37 DEF ServerEnded, In, Alive, Continue, GoOn
<1>38. ASSUME NEW c \in Releases, StopTunnel(c) PROVE NoChildYet'
  BY <1>38 DEF StopTunnel, In, Alive, GoOn
<1>39. ASSUME NEW c \in Releases, StopsEnded(c) PROVE NoChildYet'
  BY <1>39 DEF StopsEnded, In, Alive, Onwards, Begin, GoOn
<1>40. ASSUME NEW c \in Releases, LateSession(c) PROVE NoChildYet'
  <2>1. UNCHANGED <<failure, child>>
    BY <1>40 DEF LateSession
  <2>2. CASE boot' = boot
    BY <2>1, <2>2
  <2>3. CASE boot' # boot
    <3>1. boot[release[c].rx] = "sent" /\ boot' = [boot EXCEPT ![release[c].rx] = "over"]
      BY <1>40, <2>3 DEF LateSession, GoOn
    <3>2. QED
      BY <2>1, <3>1
  <2>4. QED
    BY <2>2, <2>3
<1>41. ASSUME NEW c \in Releases, TimeOut(c) PROVE NoChildYet'
  BY <1>41 DEF TimeOut, Alive, Begin, Drop, ChildrenAfterDrop, ServersAfterDrop, GoOn
<1>42. ASSUME NEW c \in Releases, NEW kind \in Kinds, StopContainer(c, kind) PROVE NoChildYet'
  BY <1>42 DEF StopContainer, In, Alive, Runs
<1>43. CASE UNCHANGED vars
  BY <1>43
<1> HIDE DEF TypeOK, Shutdown, BootStep, asked, screen, tasks, world, NoChildYet, OneAtATime, Flying
<1>44. QED
  BY <1>1, <1>2, <1>3, <1>4, <1>5, <1>6, <1>7, <1>8, <1>9, <1>10, <1>11, <1>12, <1>13, <1>14, <1>15, <1>16, <1>17, <1>18, <1>19, <1>20, <1>21, <1>22, <1>23, <1>24, <1>25, <1>26, <1>27, <1>28, <1>29, <1>30, <1>31, <1>32, <1>33, <1>34, <1>35, <1>36, <1>37, <1>38, <1>39, <1>40, <1>41, <1>42, <1>43 DEF Next, Boot, Tui, Cli, Shut

(* A session owns nothing before it has started something. *)
LEMMA NothingOwnedYetStep ==
  ASSUME TypeOK, NothingOwnedYet, OneAtATime, ShutdownsWellFormed, [Next]_vars
  PROVE  NothingOwnedYet'
<1> USE DEF TypeOK, Shutdown, BootStep, Sessions, Cleanups, Releases, Kinds, Nobody, Main, vars, asked, screen, tasks, world, NothingOwnedYet
<1>1. ASSUME NEW k \in Sessions, Load(k) PROVE NothingOwnedYet'
  BY <1>1 DEF Load, At, Alive, GoOn, Own, Fail, Runs
<1>2. ASSUME NEW k \in Sessions, LoadFails(k) PROVE NothingOwnedYet'
  BY <1>2 DEF LoadFails, At, Alive, GoOn, Own, Fail, Runs
<1>3. ASSUME NEW k \in Sessions, RefuseCore(k) PROVE NothingOwnedYet'
  BY <1>3 DEF RefuseCore, At, Alive, GoOn, Own, Fail, Runs
<1>4. ASSUME NEW k \in Sessions, StartCore(k) PROVE NothingOwnedYet'
  BY <1>4 DEF StartCore, At, Alive, GoOn, Own, Fail, Runs
<1>5. ASSUME NEW k \in Sessions, StartCoreInVain(k) PROVE NothingOwnedYet'
  BY <1>5 DEF StartCoreInVain, At, Alive, GoOn, Own, Fail, Runs
<1>6. ASSUME NEW k \in Sessions, NoCore(k) PROVE NothingOwnedYet'
  BY <1>6 DEF NoCore, At, Alive, GoOn, Own, Fail, Runs
<1>7. ASSUME NEW k \in Sessions, LoseCore(k) PROVE NothingOwnedYet'
  BY <1>7 DEF LoseCore, At, Alive, GoOn, Own, Fail, Runs
<1>8. ASSUME NEW k \in Sessions, ProbePasses(k) PROVE NothingOwnedYet'
  BY <1>8 DEF ProbePasses, At, Alive, GoOn, Own, Fail, Runs
<1>9. ASSUME NEW k \in Sessions, ProbeFails(k) PROVE NothingOwnedYet'
  BY <1>9 DEF ProbeFails, At, Alive, GoOn, Own, Fail, Runs
<1>10. ASSUME NEW k \in Sessions, NoTunnel(k) PROVE NothingOwnedYet'
  BY <1>10 DEF NoTunnel, At, Alive, GoOn, Own, Fail, Runs
<1>11. ASSUME NEW k \in Sessions, TunnelRefused(k) PROVE NothingOwnedYet'
  BY <1>11 DEF TunnelRefused, At, Alive, GoOn, Own, Fail, Runs
<1>12. ASSUME NEW k \in Sessions, SpawnTunnel(k) PROVE NothingOwnedYet'
  BY <1>12 DEF SpawnTunnel, At, Alive, GoOn, Own, Fail, Runs
<1>13. ASSUME NEW k \in Sessions, TunnelReady(k) PROVE NothingOwnedYet'
  BY <1>13 DEF TunnelReady, At, Alive, GoOn, Own, Fail, Runs
<1>14. ASSUME NEW k \in Sessions, TunnelFails(k) PROVE NothingOwnedYet'
  BY <1>14 DEF TunnelFails, ChildrenAfterDrop, At, Alive, GoOn, Own, Fail, Runs
<1>15. ASSUME NEW k \in Sessions, NoPlugin(k) PROVE NothingOwnedYet'
  BY <1>15 DEF NoPlugin, At, Alive, GoOn, Own, Fail, Runs
<1>16. ASSUME NEW k \in Sessions, StartPlugin(k) PROVE NothingOwnedYet'
  BY <1>16 DEF StartPlugin, At, Alive, GoOn, Own, Fail, Runs
<1>17. ASSUME NEW k \in Sessions, LosePlugin(k) PROVE NothingOwnedYet'
  BY <1>17 DEF LosePlugin, At, Alive, GoOn, Own, Fail, Runs
<1>18. ASSUME NEW k \in Sessions, Bind(k) PROVE NothingOwnedYet'
  BY <1>18 DEF Bind, At, Alive, GoOn, Own, Fail, Runs
<1>19. ASSUME NEW k \in Sessions, BindFails(k) PROVE NothingOwnedYet'
  BY <1>19 DEF BindFails, GiveUp, ChildrenAfterDrop, At, Alive, GoOn, Own, Fail, Runs
<1>20. ASSUME NEW k \in Sessions, BuildState(k) PROVE NothingOwnedYet'
  BY <1>20 DEF BuildState, At, Alive, GoOn, Own, Fail, Runs
<1>21. ASSUME NEW k \in Sessions, BuildStateFails(k) PROVE NothingOwnedYet'
  BY <1>21 DEF BuildStateFails, GiveUp, ChildrenAfterDrop, At, Alive, GoOn, Own, Fail, Runs
<1>22. ASSUME NEW k \in Sessions, Send(k) PROVE NothingOwnedYet'
  BY <1>22 DEF Send, Drop, ChildrenAfterDrop, ServersAfterDrop, Awaited, At, Alive, GoOn, Own, Fail, Runs
<1>23. ASSUME NEW k \in Sessions, Drained(k) PROVE NothingOwnedYet'
  BY <1>23 DEF Drained, Alive, At, GoOn, Own, Fail, Runs
<1>24. CASE Confirm
  BY <1>24 DEF Confirm, GoOn, Alive
<1>25. CASE Finalized
  BY <1>25 DEF Finalized, Alive, GoOn
<1>26. CASE ApplyFinalize
  BY <1>26 DEF ApplyFinalize, InTui, Next1, GoOn, Alive
<1>27. CASE ApplyStartup
  BY <1>27 DEF ApplyStartup, InTui, Drop, ChildrenAfterDrop, ServersAfterDrop, GoOn, Alive
<1>28. CASE InitiateShutdown
  BY <1>28 DEF InitiateShutdown, InTui, Begin, GoOn, Alive
<1>29. CASE LeaveScreen
  BY <1>29 DEF LeaveScreen, InTui, GoToMain, Begin, GoOn, Alive
<1>30. CASE TerminalFails
  BY <1>30 DEF TerminalFails, InTui, GoToMain, Begin, GoOn, Alive
<1>31. CASE CliBails
  BY <1>31 DEF CliBails, Gone, ChildrenAfterDrop, Unfinished, GoOn, Alive
<1>32. CASE CliServes
  BY <1>32 DEF CliServes, GoOn, Alive
<1>33. CASE Interrupt
  BY <1>33 DEF Interrupt, GoToMain, Begin, GoOn, Alive
<1>34. CASE ServerErrs
  BY <1>34 DEF ServerErrs, Gone, ChildrenAfterDrop, Unfinished, In, Alive, GoOn
<1>35. CASE Exit
  BY <1>35 DEF Exit, Gone, ChildrenAfterDrop, Unfinished, GoOn, Alive
<1>36. ASSUME NEW c \in Releases, AskServer(c) PROVE NothingOwnedYet'
  BY <1>36 DEF AskServer, In, Alive, GoOn
<1>37. ASSUME NEW c \in Releases, ServerEnded(c) PROVE NothingOwnedYet'
  BY <1>37 DEF ServerEnded, In, Alive, Continue, GoOn
<1>38. ASSUME NEW c \in Releases, StopTunnel(c) PROVE NothingOwnedYet'
  BY <1>38 DEF StopTunnel, In, Alive, GoOn
<1>39. ASSUME NEW c \in Releases, StopsEnded(c) PROVE NothingOwnedYet'
  BY <1>39 DEF StopsEnded, In, Alive, Onwards, Begin, GoOn
<1>40. ASSUME NEW c \in Releases, LateSession(c) PROVE NothingOwnedYet'
  BY <1>40 DEF LateSession, In, Alive, Begin, GoOn
<1>41. ASSUME NEW c \in Releases, TimeOut(c) PROVE NothingOwnedYet'
  BY <1>41 DEF TimeOut, Alive, Begin, Drop, ChildrenAfterDrop, ServersAfterDrop, GoOn
<1>42. ASSUME NEW c \in Releases, NEW kind \in Kinds, StopContainer(c, kind) PROVE NothingOwnedYet'
  BY <1>42 DEF StopContainer, In, Alive, Runs
<1>43. CASE UNCHANGED vars
  BY <1>43
<1> HIDE DEF TypeOK, Shutdown, BootStep, asked, screen, tasks, world, NothingOwnedYet
<1>44. QED
  BY <1>1, <1>2, <1>3, <1>4, <1>5, <1>6, <1>7, <1>8, <1>9, <1>10, <1>11, <1>12, <1>13, <1>14, <1>15, <1>16, <1>17, <1>18, <1>19, <1>20, <1>21, <1>22, <1>23, <1>24, <1>25, <1>26, <1>27, <1>28, <1>29, <1>30, <1>31, <1>32, <1>33, <1>34, <1>35, <1>36, <1>37, <1>38, <1>39, <1>40, <1>41, <1>42, <1>43 DEF Next, Boot, Tui, Cli, Shut

(* Every step keeps the shutdowns well formed. *)
LEMMA ShutdownsStep ==
  ASSUME TypeOK, ShutdownsWellFormed, [Next]_vars
  PROVE  ShutdownsWellFormed'
<1> USE DEF TypeOK, Shutdown, BootStep, Sessions, Cleanups, Releases, Kinds, Nobody, Main, vars, asked, screen, tasks, world, ShutdownsWellFormed
<1>1. ASSUME NEW k \in Sessions, Load(k) PROVE ShutdownsWellFormed'
  BY <1>1 DEF Load, At, Alive, GoOn, Own, Fail, Runs
<1>2. ASSUME NEW k \in Sessions, LoadFails(k) PROVE ShutdownsWellFormed'
  BY <1>2 DEF LoadFails, At, Alive, GoOn, Own, Fail, Runs
<1>3. ASSUME NEW k \in Sessions, RefuseCore(k) PROVE ShutdownsWellFormed'
  BY <1>3 DEF RefuseCore, At, Alive, GoOn, Own, Fail, Runs
<1>4. ASSUME NEW k \in Sessions, StartCore(k) PROVE ShutdownsWellFormed'
  BY <1>4 DEF StartCore, At, Alive, GoOn, Own, Fail, Runs
<1>5. ASSUME NEW k \in Sessions, StartCoreInVain(k) PROVE ShutdownsWellFormed'
  BY <1>5 DEF StartCoreInVain, At, Alive, GoOn, Own, Fail, Runs
<1>6. ASSUME NEW k \in Sessions, NoCore(k) PROVE ShutdownsWellFormed'
  BY <1>6 DEF NoCore, At, Alive, GoOn, Own, Fail, Runs
<1>7. ASSUME NEW k \in Sessions, LoseCore(k) PROVE ShutdownsWellFormed'
  BY <1>7 DEF LoseCore, At, Alive, GoOn, Own, Fail, Runs
<1>8. ASSUME NEW k \in Sessions, ProbePasses(k) PROVE ShutdownsWellFormed'
  BY <1>8 DEF ProbePasses, At, Alive, GoOn, Own, Fail, Runs
<1>9. ASSUME NEW k \in Sessions, ProbeFails(k) PROVE ShutdownsWellFormed'
  BY <1>9 DEF ProbeFails, At, Alive, GoOn, Own, Fail, Runs
<1>10. ASSUME NEW k \in Sessions, NoTunnel(k) PROVE ShutdownsWellFormed'
  BY <1>10 DEF NoTunnel, At, Alive, GoOn, Own, Fail, Runs
<1>11. ASSUME NEW k \in Sessions, TunnelRefused(k) PROVE ShutdownsWellFormed'
  BY <1>11 DEF TunnelRefused, At, Alive, GoOn, Own, Fail, Runs
<1>12. ASSUME NEW k \in Sessions, SpawnTunnel(k) PROVE ShutdownsWellFormed'
  BY <1>12 DEF SpawnTunnel, At, Alive, GoOn, Own, Fail, Runs
<1>13. ASSUME NEW k \in Sessions, TunnelReady(k) PROVE ShutdownsWellFormed'
  BY <1>13 DEF TunnelReady, At, Alive, GoOn, Own, Fail, Runs
<1>14. ASSUME NEW k \in Sessions, TunnelFails(k) PROVE ShutdownsWellFormed'
  BY <1>14 DEF TunnelFails, ChildrenAfterDrop, At, Alive, GoOn, Own, Fail, Runs
<1>15. ASSUME NEW k \in Sessions, NoPlugin(k) PROVE ShutdownsWellFormed'
  BY <1>15 DEF NoPlugin, At, Alive, GoOn, Own, Fail, Runs
<1>16. ASSUME NEW k \in Sessions, StartPlugin(k) PROVE ShutdownsWellFormed'
  BY <1>16 DEF StartPlugin, At, Alive, GoOn, Own, Fail, Runs
<1>17. ASSUME NEW k \in Sessions, LosePlugin(k) PROVE ShutdownsWellFormed'
  BY <1>17 DEF LosePlugin, At, Alive, GoOn, Own, Fail, Runs
<1>18. ASSUME NEW k \in Sessions, Bind(k) PROVE ShutdownsWellFormed'
  BY <1>18 DEF Bind, At, Alive, GoOn, Own, Fail, Runs
<1>19. ASSUME NEW k \in Sessions, BindFails(k) PROVE ShutdownsWellFormed'
  BY <1>19 DEF BindFails, GiveUp, ChildrenAfterDrop, At, Alive, GoOn, Own, Fail, Runs
<1>20. ASSUME NEW k \in Sessions, BuildState(k) PROVE ShutdownsWellFormed'
  BY <1>20 DEF BuildState, At, Alive, GoOn, Own, Fail, Runs
<1>21. ASSUME NEW k \in Sessions, BuildStateFails(k) PROVE ShutdownsWellFormed'
  BY <1>21 DEF BuildStateFails, GiveUp, ChildrenAfterDrop, At, Alive, GoOn, Own, Fail, Runs
<1>22. ASSUME NEW k \in Sessions, Send(k) PROVE ShutdownsWellFormed'
  BY <1>22 DEF Send, Drop, ChildrenAfterDrop, ServersAfterDrop, Awaited, At, Alive, GoOn, Own, Fail, Runs
<1>23. ASSUME NEW k \in Sessions, Drained(k) PROVE ShutdownsWellFormed'
  BY <1>23 DEF Drained, Alive, At, GoOn, Own, Fail, Runs
<1>24. CASE Confirm
  BY <1>24 DEF Confirm, GoOn, Alive
<1>25. CASE Finalized
  BY <1>25 DEF Finalized, Alive, GoOn
<1>26. CASE ApplyFinalize
  BY <1>26 DEF ApplyFinalize, InTui, Next1, GoOn, Alive
<1>27. CASE ApplyStartup
  BY <1>27 DEF ApplyStartup, InTui, Drop, ChildrenAfterDrop, ServersAfterDrop, GoOn, Alive
<1>28. CASE InitiateShutdown
  BY <1>28 DEF InitiateShutdown, InTui, Begin, GoOn, Alive
<1>29. CASE LeaveScreen
  BY <1>29 DEF LeaveScreen, InTui, GoToMain, Begin, GoOn, Alive
<1>30. CASE TerminalFails
  BY <1>30 DEF TerminalFails, InTui, GoToMain, Begin, GoOn, Alive
<1>31. CASE CliBails
  BY <1>31 DEF CliBails, Gone, ChildrenAfterDrop, Unfinished, GoOn, Alive
<1>32. CASE CliServes
  BY <1>32 DEF CliServes, GoOn, Alive
<1>33. CASE Interrupt
  BY <1>33 DEF Interrupt, GoToMain, Begin, GoOn, Alive
<1>34. CASE ServerErrs
  BY <1>34 DEF ServerErrs, Gone, ChildrenAfterDrop, Unfinished, In, Alive, GoOn
<1>35. CASE Exit
  BY <1>35 DEF Exit, Gone, ChildrenAfterDrop, Unfinished, GoOn, Alive
<1>36. ASSUME NEW c \in Releases, AskServer(c) PROVE ShutdownsWellFormed'
  BY <1>36 DEF AskServer, In, Alive, GoOn
<1>37. ASSUME NEW c \in Releases, ServerEnded(c) PROVE ShutdownsWellFormed'
  BY <1>37 DEF ServerEnded, In, Alive, Continue, GoOn
<1>38. ASSUME NEW c \in Releases, StopTunnel(c) PROVE ShutdownsWellFormed'
  BY <1>38 DEF StopTunnel, In, Alive, GoOn
<1>39. ASSUME NEW c \in Releases, StopsEnded(c) PROVE ShutdownsWellFormed'
  BY <1>39 DEF StopsEnded, In, Alive, Onwards, Begin, GoOn
<1>40. ASSUME NEW c \in Releases, LateSession(c) PROVE ShutdownsWellFormed'
  BY <1>40 DEF LateSession, In, Alive, Begin, GoOn
<1>41. ASSUME NEW c \in Releases, TimeOut(c) PROVE ShutdownsWellFormed'
  BY <1>41 DEF TimeOut, Alive, Begin, Drop, ChildrenAfterDrop, ServersAfterDrop, GoOn
<1>42. ASSUME NEW c \in Releases, NEW kind \in Kinds, StopContainer(c, kind) PROVE ShutdownsWellFormed'
  BY <1>42 DEF StopContainer, In, Alive, Runs
<1>43. CASE UNCHANGED vars
  BY <1>43
<1> HIDE DEF TypeOK, Shutdown, BootStep, asked, screen, tasks, world, ShutdownsWellFormed
<1>44. QED
  BY <1>1, <1>2, <1>3, <1>4, <1>5, <1>6, <1>7, <1>8, <1>9, <1>10, <1>11, <1>12, <1>13, <1>14, <1>15, <1>16, <1>17, <1>18, <1>19, <1>20, <1>21, <1>22, <1>23, <1>24, <1>25, <1>26, <1>27, <1>28, <1>29, <1>30, <1>31, <1>32, <1>33, <1>34, <1>35, <1>36, <1>37, <1>38, <1>39, <1>40, <1>41, <1>42, <1>43 DEF Next, Boot, Tui, Cli, Shut

(* A cloudflared always has a holder. *)
LEMMA TunnelsHeldStep ==
  ASSUME TypeOK, TunnelsHeld, NoChildYet, ShutdownsWellFormed, OneAtATime, [Next]_vars
  PROVE  TunnelsHeld'
<1> USE DEF TypeOK, Shutdown, BootStep, Sessions, Cleanups, Releases, Kinds, Nobody, Main, vars, asked, screen, tasks, world, TunnelsHeld, Holds, NoChildYet, ShutdownsWellFormed
<1>1. ASSUME NEW k \in Sessions, Load(k) PROVE TunnelsHeld'
  BY <1>1 DEF Load, At, Alive, GoOn, Own, Fail, Runs
<1>2. ASSUME NEW k \in Sessions, LoadFails(k) PROVE TunnelsHeld'
  BY <1>2 DEF LoadFails, At, Alive, GoOn, Own, Fail, Runs
<1>3. ASSUME NEW k \in Sessions, RefuseCore(k) PROVE TunnelsHeld'
  BY <1>3 DEF RefuseCore, At, Alive, GoOn, Own, Fail, Runs
<1>4. ASSUME NEW k \in Sessions, StartCore(k) PROVE TunnelsHeld'
  BY <1>4 DEF StartCore, At, Alive, GoOn, Own, Fail, Runs
<1>5. ASSUME NEW k \in Sessions, StartCoreInVain(k) PROVE TunnelsHeld'
  BY <1>5 DEF StartCoreInVain, At, Alive, GoOn, Own, Fail, Runs
<1>6. ASSUME NEW k \in Sessions, NoCore(k) PROVE TunnelsHeld'
  BY <1>6 DEF NoCore, At, Alive, GoOn, Own, Fail, Runs
<1>7. ASSUME NEW k \in Sessions, LoseCore(k) PROVE TunnelsHeld'
  BY <1>7 DEF LoseCore, At, Alive, GoOn, Own, Fail, Runs
<1>8. ASSUME NEW k \in Sessions, ProbePasses(k) PROVE TunnelsHeld'
  BY <1>8 DEF ProbePasses, At, Alive, GoOn, Own, Fail, Runs
<1>9. ASSUME NEW k \in Sessions, ProbeFails(k) PROVE TunnelsHeld'
  BY <1>9 DEF ProbeFails, At, Alive, GoOn, Own, Fail, Runs
<1>10. ASSUME NEW k \in Sessions, NoTunnel(k) PROVE TunnelsHeld'
  BY <1>10 DEF NoTunnel, At, Alive, GoOn, Own, Fail, Runs
<1>11. ASSUME NEW k \in Sessions, TunnelRefused(k) PROVE TunnelsHeld'
  BY <1>11 DEF TunnelRefused, At, Alive, GoOn, Own, Fail, Runs
<1>12. ASSUME NEW k \in Sessions, SpawnTunnel(k) PROVE TunnelsHeld'
  BY <1>12 DEF SpawnTunnel, At, Alive, GoOn, Own, Fail, Runs
<1>13. ASSUME NEW k \in Sessions, TunnelReady(k) PROVE TunnelsHeld'
  BY <1>13 DEF TunnelReady, At, Alive, GoOn, Own, Fail, Runs
<1>14. ASSUME NEW k \in Sessions, TunnelFails(k) PROVE TunnelsHeld'
  BY <1>14 DEF TunnelFails, ChildrenAfterDrop, At, Alive, GoOn, Own, Fail, Runs
<1>15. ASSUME NEW k \in Sessions, NoPlugin(k) PROVE TunnelsHeld'
  BY <1>15 DEF NoPlugin, At, Alive, GoOn, Own, Fail, Runs
<1>16. ASSUME NEW k \in Sessions, StartPlugin(k) PROVE TunnelsHeld'
  BY <1>16 DEF StartPlugin, At, Alive, GoOn, Own, Fail, Runs
<1>17. ASSUME NEW k \in Sessions, LosePlugin(k) PROVE TunnelsHeld'
  BY <1>17 DEF LosePlugin, At, Alive, GoOn, Own, Fail, Runs
<1>18. ASSUME NEW k \in Sessions, Bind(k) PROVE TunnelsHeld'
  BY <1>18 DEF Bind, At, Alive, GoOn, Own, Fail, Runs
<1>19. ASSUME NEW k \in Sessions, BindFails(k) PROVE TunnelsHeld'
  BY <1>19 DEF BindFails, GiveUp, ChildrenAfterDrop, At, Alive, GoOn, Own, Fail, Runs
<1>20. ASSUME NEW k \in Sessions, BuildState(k) PROVE TunnelsHeld'
  BY <1>20 DEF BuildState, At, Alive, GoOn, Own, Fail, Runs
<1>21. ASSUME NEW k \in Sessions, BuildStateFails(k) PROVE TunnelsHeld'
  BY <1>21 DEF BuildStateFails, GiveUp, ChildrenAfterDrop, At, Alive, GoOn, Own, Fail, Runs
<1>22. ASSUME NEW k \in Sessions, Send(k) PROVE TunnelsHeld'
  <2>1. CASE Awaited(k)
    <3>1. boot' = [boot EXCEPT ![k] = "sent"] /\ UNCHANGED <<child, runtime, release>>
      BY <1>22, <2>1 DEF Send, GoOn
    <3>2. boot'[k] = "sent" /\ \A j \in Sessions \ {k} : boot'[j] = boot[j]
      BY <3>1
    <3>3. QED
      BY <3>1, <3>2
  <2>2. CASE ~Awaited(k)
    <3>1. child' = child \ {k} /\ boot' = [boot EXCEPT ![k] = "over"]
      BY <1>22, <2>2 DEF Send, Drop, ChildrenAfterDrop, GoOn
    <3>2. UNCHANGED <<runtime, release>>
      BY <1>22 DEF Send
    <3>3. QED
      BY <3>1, <3>2
  <2>3. QED
    BY <2>1, <2>2
<1>23. ASSUME NEW k \in Sessions, Drained(k) PROVE TunnelsHeld'
  BY <1>23 DEF Drained, Alive, At, GoOn, Own, Fail, Runs
<1>24. CASE Confirm
  BY <1>24 DEF Confirm, GoOn, Alive
<1>25. CASE Finalized
  BY <1>25 DEF Finalized, Alive, GoOn
<1>26. CASE ApplyFinalize
  <2>1. CASE finalize = "failed"
    BY <1>26, <2>1 DEF ApplyFinalize
  <2>2. CASE finalize = "ok"
    <3>1. child' = {}
      BY <1>26, <2>2 DEF ApplyFinalize, OneAtATime
    <3>2. QED
      BY <3>1
  <2>3. QED
    BY <1>26, <2>1, <2>2 DEF ApplyFinalize
<1>27. CASE ApplyStartup
  <2>1. CASE boot[startupRx] = "sent"
    <3>1. child' = child \ ({runtime} \ {Nobody})
      BY <1>27, <2>1 DEF ApplyStartup, Drop, ChildrenAfterDrop
    <3>2. boot' = [boot EXCEPT ![startupRx] = "over"] /\ runtime' = startupRx /\ release' = release
      BY <1>27, <2>1 DEF ApplyStartup, GoOn
    <3>3. QED
      BY <3>1, <3>2
  <2>2. CASE boot[startupRx] # "sent"
    <3>1. UNCHANGED <<boot, child, runtime, release>> /\ startupRx \in Sessions
      BY <1>27, <2>2 DEF ApplyStartup
    <3>2. boot[startupRx] = "failed" /\ startupRx' = Nobody
      BY <1>27, <2>2 DEF ApplyStartup
    <3>3. QED
      BY <3>1, <3>2
  <2>3. QED
    BY <2>1, <2>2
<1>28. CASE InitiateShutdown
  BY <1>28 DEF InitiateShutdown, InTui, Begin, GoOn, Alive
<1>29. CASE LeaveScreen
  BY <1>29 DEF LeaveScreen, InTui, GoToMain, Begin, GoOn, Alive
<1>30. CASE TerminalFails
  BY <1>30 DEF TerminalFails, InTui, GoToMain, Begin, GoOn, Alive
<1>31. CASE CliBails
  BY <1>31 DEF CliBails, Gone, ChildrenAfterDrop, Unfinished, GoOn, Alive
<1>32. CASE CliServes
  BY <1>32 DEF CliServes, GoOn, Alive
<1>33. CASE Interrupt
  BY <1>33 DEF Interrupt, GoToMain, Begin, GoOn, Alive
<1>34. CASE ServerErrs
  BY <1>34 DEF ServerErrs, Gone, ChildrenAfterDrop, Unfinished, In, Alive, GoOn
<1>35. CASE Exit
  BY <1>35 DEF Exit, Gone, ChildrenAfterDrop, Unfinished, GoOn, Alive
<1>36. ASSUME NEW c \in Releases, AskServer(c) PROVE TunnelsHeld'
  BY <1>36 DEF AskServer, In, Alive, GoOn
<1>37. ASSUME NEW c \in Releases, ServerEnded(c) PROVE TunnelsHeld'
  BY <1>37 DEF ServerEnded, In, Alive, Continue, GoOn
<1>38. ASSUME NEW c \in Releases, StopTunnel(c) PROVE TunnelsHeld'
  BY <1>38 DEF StopTunnel, In, Alive, GoOn
<1>39. ASSUME NEW c \in Releases, StopsEnded(c) PROVE TunnelsHeld'
  BY <1>39 DEF StopsEnded, In, Alive, Onwards, Begin, GoOn
<1>40. ASSUME NEW c \in Releases, LateSession(c) PROVE TunnelsHeld'
  <2>1. release[c].session = Nobody /\ UNCHANGED <<runtime, child>>
    BY <1>40 DEF LateSession, In
  <2>2. CASE boot[release[c].rx] = "failed"
    <3>1. boot' = boot /\ \A b \in Releases : b # c => release'[b] = release[b]
      BY <1>40, <2>2 DEF LateSession
    <3>2. QED
      BY <2>1, <3>1
  <2>3. CASE boot[release[c].rx] = "sent"
    <3> DEFINE j == release[c].rx
    <3>1. j \in Sessions
      BY <1>40 DEF LateSession, In
    <3>2. boot' = [boot EXCEPT ![j] = "over"]
      BY <1>40, <2>3 DEF LateSession, GoOn
    <3>3. release'[c].session = j /\ release'[c].pc = "server"
      BY <1>40, <2>3, <3>1 DEF LateSession, Begin
    <3>4. \A b \in Releases : b # c => release'[b] = release[b]
      BY <1>40, <2>3 DEF LateSession
    <3>5. ASSUME NEW k \in child' PROVE Holds(k)'
      <4>1. CASE k = j
        BY <3>3, <4>1
      <4>2. CASE k # j
        BY <2>1, <3>2, <3>4, <3>5, <4>2
      <4>3. QED
        BY <4>1, <4>2
    <3>6. QED
      BY <3>5
  <2>4. QED
    BY <1>40, <2>2, <2>3 DEF LateSession
<1>41. ASSUME NEW c \in Releases, TimeOut(c) PROVE TunnelsHeld'
  BY <1>41 DEF TimeOut, Alive, Begin, Drop, ChildrenAfterDrop, ServersAfterDrop, GoOn
<1>42. ASSUME NEW c \in Releases, NEW kind \in Kinds, StopContainer(c, kind) PROVE TunnelsHeld'
  BY <1>42 DEF StopContainer, In, Alive, Runs
<1>43. CASE UNCHANGED vars
  BY <1>43
<1> HIDE DEF TypeOK, Shutdown, BootStep, asked, screen, tasks, world, TunnelsHeld, Holds, NoChildYet, ShutdownsWellFormed
<1>44. QED
  BY <1>1, <1>2, <1>3, <1>4, <1>5, <1>6, <1>7, <1>8, <1>9, <1>10, <1>11, <1>12, <1>13, <1>14, <1>15, <1>16, <1>17, <1>18, <1>19, <1>20, <1>21, <1>22, <1>23, <1>24, <1>25, <1>26, <1>27, <1>28, <1>29, <1>30, <1>31, <1>32, <1>33, <1>34, <1>35, <1>36, <1>37, <1>38, <1>39, <1>40, <1>41, <1>42, <1>43 DEF Next, Boot, Tui, Cli, Shut

(* A container that nobody will stop has been let go of. *)
LEMMA ContainersKeptStep ==
  ASSUME TypeOK, ContainersKept, NothingOwnedYet, ShutdownsWellFormed, OneAtATime, [Next]_vars
  PROVE  ContainersKept'
<1> USE DEF TypeOK, Shutdown, BootStep, Sessions, Cleanups, Releases, Kinds, Nobody, Main, vars, asked, screen, tasks, world, ContainersKept, WillStop, Flying, NothingOwnedYet, ShutdownsWellFormed
<1>1. ASSUME NEW k \in Sessions, Load(k) PROVE ContainersKept'
  BY <1>1 DEF Load, At, Alive, GoOn, Own, Fail, Runs
<1>2. ASSUME NEW k \in Sessions, LoadFails(k) PROVE ContainersKept'
  BY <1>2 DEF LoadFails, At, Alive, GoOn, Own, Fail, Runs
<1>3. ASSUME NEW k \in Sessions, RefuseCore(k) PROVE ContainersKept'
  BY <1>3 DEF RefuseCore, At, Alive, GoOn, Own, Fail, Runs
<1>4. ASSUME NEW k \in Sessions, StartCore(k) PROVE ContainersKept'
  BY <1>4 DEF StartCore, At, Alive, GoOn, Own, Fail, Runs
<1>5. ASSUME NEW k \in Sessions, StartCoreInVain(k) PROVE ContainersKept'
  BY <1>5 DEF StartCoreInVain, At, Alive, GoOn, Own, Fail, Runs
<1>6. ASSUME NEW k \in Sessions, NoCore(k) PROVE ContainersKept'
  BY <1>6 DEF NoCore, At, Alive, GoOn, Own, Fail, Runs
<1>7. ASSUME NEW k \in Sessions, LoseCore(k) PROVE ContainersKept'
  BY <1>7 DEF LoseCore, At, Alive, GoOn, Own, Fail, Runs
<1>8. ASSUME NEW k \in Sessions, ProbePasses(k) PROVE ContainersKept'
  BY <1>8 DEF ProbePasses, At, Alive, GoOn, Own, Fail, Runs
<1>9. ASSUME NEW k \in Sessions, ProbeFails(k) PROVE ContainersKept'
  BY <1>9 DEF ProbeFails, At, Alive, GoOn, Own, Fail, Runs
<1>10. ASSUME NEW k \in Sessions, NoTunnel(k) PROVE ContainersKept'
  BY <1>10 DEF NoTunnel, At, Alive, GoOn, Own, Fail, Runs
<1>11. ASSUME NEW k \in Sessions, TunnelRefused(k) PROVE ContainersKept'
  BY <1>11 DEF TunnelRefused, At, Alive, GoOn, Own, Fail, Runs
<1>12. ASSUME NEW k \in Sessions, SpawnTunnel(k) PROVE ContainersKept'
  BY <1>12 DEF SpawnTunnel, At, Alive, GoOn, Own, Fail, Runs
<1>13. ASSUME NEW k \in Sessions, TunnelReady(k) PROVE ContainersKept'
  BY <1>13 DEF TunnelReady, At, Alive, GoOn, Own, Fail, Runs
<1>14. ASSUME NEW k \in Sessions, TunnelFails(k) PROVE ContainersKept'
  BY <1>14 DEF TunnelFails, ChildrenAfterDrop, At, Alive, GoOn, Own, Fail, Runs
<1>15. ASSUME NEW k \in Sessions, NoPlugin(k) PROVE ContainersKept'
  BY <1>15 DEF NoPlugin, At, Alive, GoOn, Own, Fail, Runs
<1>16. ASSUME NEW k \in Sessions, StartPlugin(k) PROVE ContainersKept'
  BY <1>16 DEF StartPlugin, At, Alive, GoOn, Own, Fail, Runs
<1>17. ASSUME NEW k \in Sessions, LosePlugin(k) PROVE ContainersKept'
  BY <1>17 DEF LosePlugin, At, Alive, GoOn, Own, Fail, Runs
<1>18. ASSUME NEW k \in Sessions, Bind(k) PROVE ContainersKept'
  BY <1>18 DEF Bind, At, Alive, GoOn, Own, Fail, Runs
<1>19. ASSUME NEW k \in Sessions, BindFails(k) PROVE ContainersKept'
  BY <1>19 DEF BindFails, GiveUp, ChildrenAfterDrop, At, Alive, GoOn, Own, Fail, Runs
<1>20. ASSUME NEW k \in Sessions, BuildState(k) PROVE ContainersKept'
  BY <1>20 DEF BuildState, At, Alive, GoOn, Own, Fail, Runs
<1>21. ASSUME NEW k \in Sessions, BuildStateFails(k) PROVE ContainersKept'
  BY <1>21 DEF BuildStateFails, GiveUp, ChildrenAfterDrop, At, Alive, GoOn, Own, Fail, Runs
<1>22. ASSUME NEW k \in Sessions, Send(k) PROVE ContainersKept'
  <2>1. SUFFICES ASSUME NEW kind \in Kinds, container'[kind] \notin loose' \cup {Nobody}
                 PROVE  /\ step' # "gone"
                        /\ kind \in owned'[container'[kind]]
                        /\ WillStop(container[kind], kind)'
    BY DEF ContainersKept
  <2> DEFINE j == container[kind]
  <2>2. UNCHANGED <<container, owned, step, runtime, release>> /\ loose \subseteq loose'
    BY <1>22 DEF Send, Drop
  <2>3. j \in Sessions /\ kind \in owned[j] /\ WillStop(j, kind) /\ step # "gone"
    BY <2>1, <2>2
  <2>4. CASE Awaited(k)
    <3>1. boot' = [boot EXCEPT ![k] = "sent"]
      BY <1>22, <2>2, <2>4 DEF Send, GoOn
    <3>2. boot'[k] = "sent" /\ \A i \in Sessions \ {k} : boot'[i] = boot[i]
      BY <3>1
    <3>3. QED
      BY <2>2, <2>3, <3>2
  <2>5. CASE ~Awaited(k)
    <3>1. boot' = [boot EXCEPT ![k] = "over"] /\ j # k
      BY <1>22, <2>1, <2>2, <2>5 DEF Send, GoOn, Drop
    <3>2. QED
      BY <2>2, <2>3, <3>1
  <2>6. QED
    BY <2>4, <2>5
<1>23. ASSUME NEW k \in Sessions, Drained(k) PROVE ContainersKept'
  BY <1>23 DEF Drained, Alive, At, GoOn, Own, Fail, Runs
<1>24. CASE Confirm
  BY <1>24 DEF Confirm, GoOn, Alive
<1>25. CASE Finalized
  BY <1>25 DEF Finalized, Alive, GoOn
<1>26. CASE ApplyFinalize
  <2>1. SUFFICES ASSUME NEW kind \in Kinds, container'[kind] \notin loose' \cup {Nobody}
                 PROVE  /\ step' # "gone"
                        /\ kind \in owned'[container'[kind]]
                        /\ WillStop(container[kind], kind)'
    BY DEF ContainersKept
  <2> DEFINE j == container[kind]
  <2>2. UNCHANGED <<container, owned, runtime, release, loose>> /\ step' # "gone"
    BY <1>26 DEF ApplyFinalize
  <2>3. j \in Sessions /\ kind \in owned[j] /\ WillStop(j, kind)
    BY <2>1, <2>2
  <2>4. Flying(j) => Flying(j)'
    <3>1. CASE finalize = "ok"
      <4>1. PICK k \in Sessions : boot' = [boot EXCEPT ![k] = "load"]
        BY <1>26, <3>1 DEF ApplyFinalize, GoOn
      <4>2. QED
        BY <2>2, <2>3, <4>1
    <3>2. CASE finalize # "ok"
      <4>1. boot' = boot
        BY <1>26, <3>2 DEF ApplyFinalize
      <4>2. QED
        BY <2>2, <4>1
    <3>3. QED
      BY <3>1, <3>2
  <2>5. QED
    BY <2>2, <2>3, <2>4
<1>27. CASE ApplyStartup
  <2>1. SUFFICES ASSUME NEW kind \in Kinds, container'[kind] \notin loose' \cup {Nobody}
                 PROVE  /\ step' # "gone"
                        /\ kind \in owned'[container'[kind]]
                        /\ WillStop(container[kind], kind)'
    BY DEF ContainersKept
  <2> DEFINE j == container[kind]
  <2>2. UNCHANGED <<container, owned, release>> /\ loose \subseteq loose' /\ step' # "gone"
    BY <1>27 DEF ApplyStartup, Drop, InTui
  <2>3. j \in Sessions /\ kind \in owned[j] /\ WillStop(j, kind)
    BY <2>1, <2>2
  <2>4. CASE boot[startupRx] = "sent"
    <3>1. boot' = [boot EXCEPT ![startupRx] = "over"] /\ runtime' = startupRx /\ loose' = loose \cup ({runtime} \ {Nobody})
      BY <1>27, <2>4 DEF ApplyStartup, GoOn, Drop
    <3>2. j # runtime
      BY <2>1, <2>2, <2>3, <3>1
    <3>3. CASE j = startupRx
      BY <2>2, <2>3, <3>1, <3>2, <3>3
    <3>4. CASE j # startupRx
      <4>1. boot'[j] = boot[j]
        BY <2>3, <3>1, <3>4
      <4>2. QED
        BY <2>2, <2>3, <3>2, <4>1
    <3>5. QED
      BY <3>3, <3>4
  <2>5. CASE boot[startupRx] # "sent"
    BY <1>27, <2>2, <2>3, <2>5 DEF ApplyStartup
  <2>6. QED
    BY <2>4, <2>5
<1>28. CASE InitiateShutdown
  <2>1. SUFFICES ASSUME NEW kind \in Kinds, container'[kind] \notin loose' \cup {Nobody}
                 PROVE  /\ step' # "gone"
                        /\ kind \in owned'[container'[kind]]
                        /\ WillStop(container[kind], kind)'
    BY DEF ContainersKept
  <2> DEFINE j == container[kind]
  <2>2. UNCHANGED <<container, loose, owned, boot>> /\ step' # "gone"
    BY <1>28 DEF InitiateShutdown
  <2>3. j \in Sessions /\ kind \in owned[j] /\ WillStop(j, kind)
    BY <2>1, <2>2
  <2>4. PICK c \in Cleanups : release[c].pc = "idle" /\ release' = [release EXCEPT ![c] = Begin(runtime, startupRx)]
    BY <1>28 DEF InitiateShutdown
  <2>5. CASE runtime = j
    <3>1. release'[c].session = j /\ release'[c].pc = "server"
      BY <2>3, <2>4, <2>5 DEF Begin
    <3>2. QED
      BY <2>2, <2>3, <3>1
  <2>6. CASE Flying(j)
    BY <2>2, <2>3, <2>6
  <2>7. CASE \E b \in Releases : release[b].session = j /\ (release[b].pc \in {"server", "tunnel"} \/ kind \in release[b].left)
    <3>1. PICK b \in Releases : release[b].session = j /\ (release[b].pc \in {"server", "tunnel"} \/ kind \in release[b].left)
      BY <2>7
    <3>2. b # c
      BY <2>3, <2>4, <3>1
    <3>3. release'[b] = release[b]
      BY <2>4, <3>2
    <3>4. QED
      BY <2>2, <2>3, <3>1, <3>3
  <2>8. QED
    BY <2>3, <2>5, <2>6, <2>7
<1>29. CASE LeaveScreen
  <2>1. SUFFICES ASSUME NEW kind \in Kinds, container'[kind] \notin loose' \cup {Nobody}
                 PROVE  /\ step' # "gone"
                        /\ kind \in owned'[container'[kind]]
                        /\ WillStop(container[kind], kind)'
    BY DEF ContainersKept
  <2> DEFINE j == container[kind]
  <2>2. UNCHANGED <<container, loose, owned, boot>> /\ step' = "left"
    BY <1>29 DEF LeaveScreen, GoToMain
  <2>3. j \in Sessions /\ kind \in owned[j] /\ WillStop(j, kind)
    BY <2>1, <2>2
  <2>4. release' = [release EXCEPT ![Main] = Begin(runtime, Nobody)] /\ release[Main].session = Nobody
    BY <1>29 DEF LeaveScreen, GoToMain, InTui
  <2>5. CASE runtime = j
    <3>1. release'[Main].session = j /\ release'[Main].pc = "server"
      BY <2>3, <2>4, <2>5 DEF Begin
    <3>2. QED
      BY <2>2, <2>3, <3>1
  <2>6. CASE Flying(j)
    BY <2>2, <2>3, <2>6
  <2>7. CASE \E c \in Releases : release[c].session = j /\ (release[c].pc \in {"server", "tunnel"} \/ kind \in release[c].left)
    <3>1. PICK c \in Releases : release[c].session = j /\ (release[c].pc \in {"server", "tunnel"} \/ kind \in release[c].left)
      BY <2>7
    <3>2. c # Main /\ release'[c] = release[c]
      BY <2>3, <2>4, <3>1
    <3>3. QED
      BY <2>2, <2>3, <3>1, <3>2
  <2>8. QED
    BY <2>3, <2>5, <2>6, <2>7
<1>30. CASE TerminalFails
  <2>1. SUFFICES ASSUME NEW kind \in Kinds, container'[kind] \notin loose' \cup {Nobody}
                 PROVE  /\ step' # "gone"
                        /\ kind \in owned'[container'[kind]]
                        /\ WillStop(container[kind], kind)'
    BY DEF ContainersKept
  <2> DEFINE j == container[kind]
  <2>2. UNCHANGED <<container, loose, owned, boot>> /\ step' = "left"
    BY <1>30 DEF TerminalFails, GoToMain
  <2>3. j \in Sessions /\ kind \in owned[j] /\ WillStop(j, kind)
    BY <2>1, <2>2
  <2>4. release' = [release EXCEPT ![Main] = Begin(runtime, Nobody)] /\ release[Main].session = Nobody
    BY <1>30 DEF TerminalFails, GoToMain, InTui
  <2>5. CASE runtime = j
    <3>1. release'[Main].session = j /\ release'[Main].pc = "server"
      BY <2>3, <2>4, <2>5 DEF Begin
    <3>2. QED
      BY <2>2, <2>3, <3>1
  <2>6. CASE Flying(j)
    BY <2>2, <2>3, <2>6
  <2>7. CASE \E c \in Releases : release[c].session = j /\ (release[c].pc \in {"server", "tunnel"} \/ kind \in release[c].left)
    <3>1. PICK c \in Releases : release[c].session = j /\ (release[c].pc \in {"server", "tunnel"} \/ kind \in release[c].left)
      BY <2>7
    <3>2. c # Main /\ release'[c] = release[c]
      BY <2>3, <2>4, <3>1
    <3>3. QED
      BY <2>2, <2>3, <3>1, <3>2
  <2>8. QED
    BY <2>3, <2>5, <2>6, <2>7
<1>31. CASE CliBails
  <2>1. SUFFICES ASSUME NEW kind \in Kinds, container'[kind] \notin loose' \cup {Nobody}
                 PROVE  /\ step' # "gone"
                        /\ kind \in owned'[container'[kind]]
                        /\ WillStop(container[kind], kind)'
    BY DEF ContainersKept
  <2> DEFINE j == container[kind]
  <2>2. container' = container /\ loose \subseteq loose' /\ Unfinished \subseteq loose'
    BY <1>31 DEF CliBails, Gone
  <2>3. j \in Sessions /\ WillStop(j, kind) /\ runtime = Nobody
    BY <1>31, <2>2, <2>1 DEF CliBails
  <2>4. j \in Unfinished
    BY <2>3 DEF Unfinished
  <2>5. QED
    BY <2>1, <2>2, <2>4
<1>32. CASE CliServes
  BY <1>32 DEF CliServes, GoOn, Alive
<1>33. CASE Interrupt
  <2>1. SUFFICES ASSUME NEW kind \in Kinds, container'[kind] \notin loose' \cup {Nobody}
                 PROVE  /\ step' # "gone"
                        /\ kind \in owned'[container'[kind]]
                        /\ WillStop(container[kind], kind)'
    BY DEF ContainersKept
  <2> DEFINE j == container[kind]
  <2>2. UNCHANGED <<container, loose, owned, boot>> /\ step' = "left"
    BY <1>33 DEF Interrupt, GoToMain
  <2>3. j \in Sessions /\ kind \in owned[j] /\ WillStop(j, kind)
    BY <2>1, <2>2
  <2>4. release' = [release EXCEPT ![Main] = Begin(runtime, Nobody)] /\ release[Main].session = Nobody
    BY <1>33 DEF Interrupt, GoToMain, InTui
  <2>5. CASE runtime = j
    <3>1. release'[Main].session = j /\ release'[Main].pc = "server"
      BY <2>3, <2>4, <2>5 DEF Begin
    <3>2. QED
      BY <2>2, <2>3, <3>1
  <2>6. CASE Flying(j)
    BY <2>2, <2>3, <2>6
  <2>7. CASE \E c \in Releases : release[c].session = j /\ (release[c].pc \in {"server", "tunnel"} \/ kind \in release[c].left)
    <3>1. PICK c \in Releases : release[c].session = j /\ (release[c].pc \in {"server", "tunnel"} \/ kind \in release[c].left)
      BY <2>7
    <3>2. c # Main /\ release'[c] = release[c]
      BY <2>3, <2>4, <3>1
    <3>3. QED
      BY <2>2, <2>3, <3>1, <3>2
  <2>8. QED
    BY <2>3, <2>5, <2>6, <2>7
<1>34. CASE ServerErrs
  <2>1. SUFFICES ASSUME NEW kind \in Kinds, container'[kind] \notin loose' \cup {Nobody}
                 PROVE  /\ step' # "gone"
                        /\ kind \in owned'[container'[kind]]
                        /\ WillStop(container[kind], kind)'
    BY DEF ContainersKept
  <2> DEFINE j == container[kind]
  <2>2. container' = container /\ loose \subseteq loose' /\ Unfinished \subseteq loose'
    BY <1>34 DEF ServerErrs, Gone
  <2>3. j \in Sessions /\ WillStop(j, kind) /\ runtime = Nobody
    BY <1>34, <2>2, <2>1 DEF ServerErrs, In, Alive
  <2>4. j \in Unfinished
    BY <2>3 DEF Unfinished
  <2>5. QED
    BY <2>1, <2>2, <2>4
<1>35. CASE Exit
  <2>1. SUFFICES ASSUME NEW kind \in Kinds, container'[kind] \notin loose' \cup {Nobody}
                 PROVE  /\ step' # "gone"
                        /\ kind \in owned'[container'[kind]]
                        /\ WillStop(container[kind], kind)'
    BY DEF ContainersKept
  <2> DEFINE j == container[kind]
  <2>2. container' = container /\ loose \subseteq loose' /\ Unfinished \subseteq loose'
    BY <1>35 DEF Exit, Gone
  <2>3. j \in Sessions /\ WillStop(j, kind) /\ runtime = Nobody
    BY <1>35, <2>2, <2>1 DEF Exit
  <2>4. j \in Unfinished
    BY <2>3 DEF Unfinished
  <2>5. QED
    BY <2>1, <2>2, <2>4
<1>36. ASSUME NEW c \in Releases, AskServer(c) PROVE ContainersKept'
  BY <1>36 DEF AskServer, In, Alive, GoOn
<1>37. ASSUME NEW c \in Releases, ServerEnded(c) PROVE ContainersKept'
  BY <1>37 DEF ServerEnded, In, Alive, Continue, GoOn
<1>38. ASSUME NEW c \in Releases, StopTunnel(c) PROVE ContainersKept'
  BY <1>38 DEF StopTunnel, In, Alive, GoOn
<1>39. ASSUME NEW c \in Releases, StopsEnded(c) PROVE ContainersKept'
  BY <1>39 DEF StopsEnded, In, Alive, Onwards, Begin, GoOn
<1>40. ASSUME NEW c \in Releases, LateSession(c) PROVE ContainersKept'
  <2>1. SUFFICES ASSUME NEW kind \in Kinds, container'[kind] \notin loose' \cup {Nobody}
                 PROVE  /\ step' # "gone"
                        /\ kind \in owned'[container'[kind]]
                        /\ WillStop(container[kind], kind)'
    BY DEF ContainersKept
  <2> DEFINE j == container[kind]
  <2>2. UNCHANGED <<container, owned, step, runtime, loose>> /\ release[c].session = Nobody /\ release[c].left = {}
    BY <1>40 DEF LateSession, In
  <2>3. j \in Sessions /\ kind \in owned[j] /\ WillStop(j, kind) /\ step # "gone"
    BY <2>1, <2>2
  <2>4. \A b \in Releases : b # c => release'[b] = release[b]
    BY <1>40 DEF LateSession
  <2>5. CASE boot[release[c].rx] = "failed"
    <3>1. boot' = boot
      BY <1>40, <2>5 DEF LateSession
    <3>2. QED
      BY <2>2, <2>3, <2>4, <3>1
  <2>6. CASE boot[release[c].rx] = "sent"
    <3>1. boot' = [boot EXCEPT ![release[c].rx] = "over"]
      BY <1>40, <2>6 DEF LateSession, GoOn
    <3>2. release[c].rx \in Sessions
      BY <1>40 DEF LateSession, In
    <3>3. release'[c].session = release[c].rx /\ release'[c].pc = "server"
      BY <1>40, <2>6, <3>2 DEF LateSession, Begin
    <3>4. CASE j = release[c].rx
      BY <2>2, <2>3, <3>3, <3>4
    <3>5. CASE j # release[c].rx
      BY <2>2, <2>3, <2>4, <3>1, <3>5
    <3>6. QED
      BY <3>4, <3>5
  <2>7. QED
    BY <1>40, <2>5, <2>6 DEF LateSession
<1>41. ASSUME NEW c \in Releases, TimeOut(c) PROVE ContainersKept'
  BY <1>41 DEF TimeOut, Alive, Begin, Drop, ChildrenAfterDrop, ServersAfterDrop, GoOn
<1>42. ASSUME NEW c \in Releases, NEW kind \in Kinds, StopContainer(c, kind) PROVE ContainersKept'
  BY <1>42 DEF StopContainer, In, Alive, Runs
<1>43. CASE UNCHANGED vars
  BY <1>43
<1> HIDE DEF TypeOK, Shutdown, BootStep, asked, screen, tasks, world, ContainersKept, WillStop, Flying, NothingOwnedYet, ShutdownsWellFormed
<1>44. QED
  BY <1>1, <1>2, <1>3, <1>4, <1>5, <1>6, <1>7, <1>8, <1>9, <1>10, <1>11, <1>12, <1>13, <1>14, <1>15, <1>16, <1>17, <1>18, <1>19, <1>20, <1>21, <1>22, <1>23, <1>24, <1>25, <1>26, <1>27, <1>28, <1>29, <1>30, <1>31, <1>32, <1>33, <1>34, <1>35, <1>36, <1>37, <1>38, <1>39, <1>40, <1>41, <1>42, <1>43 DEF Next, Boot, Tui, Cli, Shut

(* While nobody has asked to quit, no shutdown is under way.               *)
LEMMA NoShutdown ==
  ASSUME OneHolder, NEW c \in Releases, release[c].pc # "idle", UNCHANGED screen
  PROVE  ~Undisturbed /\ ~Undisturbed'
BY DEF OneHolder, Undisturbed, InTui, screen

(* And a startup that is under way is the only one, with no session beside *)
(* it that came up without failure.                                        *)
LEMMA OneStartup ==
  ASSUME TypeOK, OneHolder, Undisturbed, NEW k \in Sessions, Flying(k)
  PROVE  /\ startupRx = k /\ runtime # k
         /\ \A j \in Sessions : j # k => ~Flying(j) /\ (runtime = j => failure[j] # "none")
<1>1. startupRx = k /\ k # Nobody
  BY DEF OneHolder, Sessions, Nobody
<1>2. runtime # k
  BY DEF OneHolder, Flying, Sessions, Nobody, BootStep
<1>3. ASSUME NEW j \in Sessions, j # k PROVE ~Flying(j) /\ (runtime = j => failure[j] # "none")
  BY <1>1, <1>3 DEF OneHolder, Sessions, Nobody
<1> QED BY <1>1, <1>2, <1>3

(* So a step of a startup need only show that its own session is up.       *)
LEMMA StartupStep ==
  ASSUME TypeOK, OneHolder, NEW k \in Sessions, Flying(k), UNCHANGED <<asked, screen>>,
         \A j \in Sessions : j # k => boot'[j] = boot[j] /\ failure'[j] = failure[j],
         Undisturbed => IsUp(k)'
  PROVE  BroughtUp'
<1>1. Undisturbed' = Undisturbed /\ runtime' = runtime
  BY DEF Undisturbed, InTui, screen
<1>2. SUFFICES ASSUME Undisturbed, NEW j \in Sessions PROVE IsUp(j)'
  BY <1>1 DEF BroughtUp
<1>3. CASE j = k
  BY <1>2, <1>3
<1>4. CASE j # k
  <2>1. ~Flying(j) /\ (runtime = j => failure[j] # "none")
    BY <1>2, <1>4, OneStartup
  <2>2. boot'[j] = boot[j] /\ failure'[j] = failure[j]
    BY <1>4
  <2> QED BY <1>1, <2>1, <2>2 DEF IsUp, Flying, BootStep
<1> QED BY <1>3, <1>4

(* A startup is begun only when nothing is under way or held without failure. *)
LEMMA OneHolderStep ==
  ASSUME TypeOK, OneAtATime, OneHolder, [Next]_vars
  PROVE  OneHolder'
<1> USE DEF TypeOK, Shutdown, BootStep, Sessions, Cleanups, Releases, Kinds, Nobody, Main, vars, asked,
           screen, tasks, world, Undisturbed, InTui, Flying, OneHolder
<1>1. ASSUME NEW k \in Sessions, Load(k) PROVE OneHolder'
  BY <1>1 DEF Load, At, Alive, GoOn, Own, Fail, Runs
<1>2. ASSUME NEW k \in Sessions, LoadFails(k) PROVE OneHolder'
  BY <1>2 DEF LoadFails, At, Alive, GoOn, Own, Fail, Runs
<1>3. ASSUME NEW k \in Sessions, RefuseCore(k) PROVE OneHolder'
  BY <1>3 DEF RefuseCore, At, Alive, GoOn, Own, Fail, Runs
<1>4. ASSUME NEW k \in Sessions, StartCore(k) PROVE OneHolder'
  BY <1>4 DEF StartCore, At, Alive, GoOn, Own, Fail, Runs
<1>5. ASSUME NEW k \in Sessions, StartCoreInVain(k) PROVE OneHolder'
  BY <1>5 DEF StartCoreInVain, At, Alive, GoOn, Own, Fail, Runs
<1>6. ASSUME NEW k \in Sessions, NoCore(k) PROVE OneHolder'
  BY <1>6 DEF NoCore, At, Alive, GoOn, Own, Fail, Runs
<1>7. ASSUME NEW k \in Sessions, LoseCore(k) PROVE OneHolder'
  BY <1>7 DEF LoseCore, At, Alive, GoOn, Own, Fail, Runs
<1>8. ASSUME NEW k \in Sessions, ProbePasses(k) PROVE OneHolder'
  BY <1>8 DEF ProbePasses, At, Alive, GoOn, Own, Fail, Runs
<1>9. ASSUME NEW k \in Sessions, ProbeFails(k) PROVE OneHolder'
  BY <1>9 DEF ProbeFails, At, Alive, GoOn, Own, Fail, Runs
<1>10. ASSUME NEW k \in Sessions, NoTunnel(k) PROVE OneHolder'
  BY <1>10 DEF NoTunnel, At, Alive, GoOn, Own, Fail, Runs
<1>11. ASSUME NEW k \in Sessions, TunnelRefused(k) PROVE OneHolder'
  BY <1>11 DEF TunnelRefused, At, Alive, GoOn, Own, Fail, Runs
<1>12. ASSUME NEW k \in Sessions, SpawnTunnel(k) PROVE OneHolder'
  BY <1>12 DEF SpawnTunnel, At, Alive, GoOn, Own, Fail, Runs
<1>13. ASSUME NEW k \in Sessions, TunnelReady(k) PROVE OneHolder'
  BY <1>13 DEF TunnelReady, At, Alive, GoOn, Own, Fail, Runs
<1>14. ASSUME NEW k \in Sessions, TunnelFails(k) PROVE OneHolder'
  BY <1>14 DEF TunnelFails, ChildrenAfterDrop, At, Alive, GoOn, Own, Fail, Runs
<1>15. ASSUME NEW k \in Sessions, NoPlugin(k) PROVE OneHolder'
  BY <1>15 DEF NoPlugin, At, Alive, GoOn, Own, Fail, Runs
<1>16. ASSUME NEW k \in Sessions, StartPlugin(k) PROVE OneHolder'
  BY <1>16 DEF StartPlugin, At, Alive, GoOn, Own, Fail, Runs
<1>17. ASSUME NEW k \in Sessions, LosePlugin(k) PROVE OneHolder'
  BY <1>17 DEF LosePlugin, At, Alive, GoOn, Own, Fail, Runs
<1>18. ASSUME NEW k \in Sessions, Bind(k) PROVE OneHolder'
  BY <1>18 DEF Bind, At, Alive, GoOn, Own, Fail, Runs
<1>19. ASSUME NEW k \in Sessions, BindFails(k) PROVE OneHolder'
  BY <1>19 DEF BindFails, GiveUp, ChildrenAfterDrop, At, Alive, GoOn, Own, Fail, Runs
<1>20. ASSUME NEW k \in Sessions, BuildState(k) PROVE OneHolder'
  BY <1>20 DEF BuildState, At, Alive, GoOn, Own, Fail, Runs
<1>21. ASSUME NEW k \in Sessions, BuildStateFails(k) PROVE OneHolder'
  BY <1>21 DEF BuildStateFails, GiveUp, ChildrenAfterDrop, At, Alive, GoOn, Own, Fail, Runs
<1>22. ASSUME NEW k \in Sessions, Send(k) PROVE OneHolder'
  <2>1. SUFFICES ASSUME Undisturbed' PROVE OneHolder'
    BY DEF OneHolder
  <2>2. Undisturbed /\ Flying(k) /\ UNCHANGED <<asked, screen, failure, release>>
    BY <1>22, <2>1 DEF Send, At
  <2>3. startupRx = k /\ runtime # k
    BY <2>2, OneStartup
  <2>4. boot' = [boot EXCEPT ![k] = "sent"]
    BY <1>22, <2>3 DEF Send, Awaited, GoOn
  <2> QED BY <2>2, <2>3, <2>4
<1>23. ASSUME NEW k \in Sessions, Drained(k) PROVE OneHolder'
  BY <1>23 DEF Drained, At, Alive, GoOn, Own, Fail, Runs
<1>24. CASE Confirm
  <2>1. step = "summary" /\ UNCHANGED <<runtime, cleanupRx, tasks, release>>
    BY <1>24 DEF Confirm
  <2>2. \A k \in Sessions : ~Flying(k)
    BY <2>1 DEF OneAtATime
  <2> QED BY <2>1, <2>2
<1>25. CASE Finalized
  BY <1>25 DEF Finalized, Alive, GoOn
<1>26. CASE ApplyFinalize
  <2>1. SUFFICES ASSUME Undisturbed' PROVE OneHolder'
    BY DEF OneHolder
  <2>2. Undisturbed /\ finalize # "none" /\ finalize' = "none" /\ UNCHANGED <<runtime, failure, release>>
    BY <1>26, <2>1 DEF ApplyFinalize
  <2>3. \A k \in Sessions : ~Flying(k)
    BY <2>2 DEF OneAtATime
  <2>4. runtime # Nobody => boot[runtime] = "over" /\ failure[runtime] # "none"
    BY <2>2
  <2>5. CASE finalize = "ok"
    <3>1. PICK k \in Sessions : Next1(k) /\ boot' = [boot EXCEPT ![k] = "load"] /\ startupRx' = k
      BY <1>26, <2>5 DEF ApplyFinalize, GoOn
    <3>2. boot[k] = "none"
      BY <3>1 DEF Next1
    <3> QED BY <2>2, <2>3, <2>4, <3>1, <3>2
  <2>6. CASE finalize # "ok"
    <3>1. UNCHANGED <<boot, startupRx>>
      BY <1>26, <2>6 DEF ApplyFinalize
    <3> QED BY <2>2, <2>3, <2>4, <3>1
  <2> QED BY <2>5, <2>6
<1>27. CASE ApplyStartup
  <2>1. SUFFICES ASSUME Undisturbed' PROVE OneHolder'
    BY DEF OneHolder
  <2>2. Undisturbed /\ startupRx \in Sessions /\ startupRx' = Nobody
        /\ UNCHANGED <<finalize, failure, release, asked>>
    BY <1>27, <2>1 DEF ApplyStartup
  <2>3. CASE boot[startupRx] = "sent"
    <3>1. /\ runtime' = startupRx /\ boot' = [boot EXCEPT ![startupRx] = "over"]
          /\ step' = IF mode # "wizard" THEN step
                     ELSE IF failure[startupRx] = "none" THEN "status" ELSE "summary"
      BY <1>27, <2>3 DEF ApplyStartup, GoOn
    <3>2. \A i \in Sessions : i # startupRx => ~Flying(i)
      BY <2>2, <2>3, OneStartup
    <3>3. Flying(startupRx) /\ step # "summary" /\ finalize = "none"
      BY <2>2, <2>3 DEF OneAtATime
    <3>4. \A i \in Sessions : ~Flying(i)'
      BY <3>1, <3>2
    <3> QED BY <2>2, <3>1, <3>3, <3>4
  <2>4. CASE boot[startupRx] # "sent"
    <3>1. UNCHANGED <<step, runtime, boot>> /\ boot[startupRx] = "failed"
      BY <1>27, <2>4 DEF ApplyStartup
    <3>2. \A i \in Sessions : ~Flying(i)
      BY <2>2, <3>1
    <3> QED BY <2>2, <3>1, <3>2
  <2> QED BY <2>3, <2>4
<1>28. CASE InitiateShutdown
  BY <1>28 DEF InitiateShutdown, Begin
<1>29. CASE LeaveScreen
  BY <1>29 DEF LeaveScreen, GoToMain
<1>30. CASE TerminalFails
  BY <1>30 DEF TerminalFails, GoToMain
<1>31. CASE CliBails
  BY <1>31 DEF CliBails, Gone
<1>32. CASE CliServes
  BY <1>32 DEF CliServes, GoOn
<1>33. CASE Interrupt
  BY <1>33 DEF Interrupt, GoToMain
<1>34. CASE ServerErrs
  BY <1>34 DEF ServerErrs, Gone
<1>35. CASE Exit
  BY <1>35 DEF Exit, Gone
<1>36. ASSUME NEW c \in Releases, AskServer(c) PROVE OneHolder'
  BY <1>36 DEF AskServer, In, Alive
<1>37. ASSUME NEW c \in Releases, ServerEnded(c) PROVE OneHolder'
  BY <1>37 DEF ServerEnded, In, Alive, Continue
<1>38. ASSUME NEW c \in Releases, StopTunnel(c) PROVE OneHolder'
  BY <1>38 DEF StopTunnel, In, Alive
<1>39. ASSUME NEW c \in Releases, StopsEnded(c) PROVE OneHolder'
  BY <1>39 DEF StopsEnded, In, Alive
<1>40. ASSUME NEW c \in Releases, LateSession(c) PROVE OneHolder'
  BY <1>40 DEF LateSession, In, Alive
<1>41. ASSUME NEW c \in Releases, TimeOut(c) PROVE OneHolder'
  BY <1>41 DEF TimeOut, Alive
<1>42. ASSUME NEW c \in Releases, NEW kind \in Kinds, StopContainer(c, kind) PROVE OneHolder'
  BY <1>42 DEF StopContainer, In, Alive, Runs
<1>43. CASE UNCHANGED vars
  BY <1>43
<1> HIDE DEF TypeOK, Shutdown, BootStep, asked, screen, tasks, world, Undisturbed, InTui, Flying, OneHolder
<1> QED
  BY <1>1, <1>2, <1>3, <1>4, <1>5, <1>6, <1>7, <1>8, <1>9, <1>10, <1>11, <1>12, <1>13, <1>14,
     <1>15, <1>16, <1>17, <1>18, <1>19, <1>20, <1>21, <1>22, <1>23, <1>24, <1>25, <1>26, <1>27,
     <1>28, <1>29, <1>30, <1>31, <1>32, <1>33, <1>34, <1>35, <1>36, <1>37, <1>38, <1>39, <1>40,
     <1>41, <1>42, <1>43
     DEF Next, Boot, Tui, Cli, Shut

(* Nothing is taken from a session that came up without failure.           *)
LEMMA BroughtUpStep ==
  ASSUME TypeOK, OneAtATime, OneHolder, BroughtUp, [Next]_vars
  PROVE  BroughtUp'
<1> USE DEF TypeOK, Shutdown, BootStep, Sessions, Cleanups, Releases, Kinds, Nobody, Main, vars, asked,
           screen, tasks, world, Undisturbed, InTui, Flying, BroughtUp, IsUp
<1>1. ASSUME NEW k \in Sessions, Load(k) PROVE BroughtUp'
  BY <1>1 DEF Load, At, Alive, GoOn, Own, Fail, Runs
<1>2. ASSUME NEW k \in Sessions, LoadFails(k) PROVE BroughtUp'
  BY <1>2 DEF LoadFails, At, Alive, GoOn, Own, Fail, Runs
<1>3. ASSUME NEW k \in Sessions, RefuseCore(k) PROVE BroughtUp'
  BY <1>3 DEF RefuseCore, At, Alive, GoOn, Own, Fail, Runs
<1>4. ASSUME NEW k \in Sessions, StartCore(k) PROVE BroughtUp'
  <2>1. Flying(k) /\ UNCHANGED <<asked, screen>>
    BY <1>4 DEF StartCore, At
  <2>2. \A j \in Sessions : j # k => boot'[j] = boot[j] /\ failure'[j] = failure[j]
    BY <1>4 DEF StartCore, At, Alive, GoOn, Own, Fail, Runs
  <2>3. Undisturbed => IsUp(k)'
    <3>1. SUFFICES ASSUME Undisturbed PROVE IsUp(k)'
      OBVIOUS
    <3>2. runtime # k
      BY <2>1, <3>1, OneStartup
    <3> QED BY <1>4, <3>2 DEF StartCore, At, Alive, GoOn, Own, Fail, Runs
  <2> HIDE DEF BroughtUp, IsUp, Undisturbed, InTui, Flying
  <2> QED BY <2>1, <2>2, <2>3, StartupStep
<1>5. ASSUME NEW k \in Sessions, StartCoreInVain(k) PROVE BroughtUp'
  <2>1. Flying(k) /\ UNCHANGED <<asked, screen>>
    BY <1>5 DEF StartCoreInVain, At
  <2>2. \A j \in Sessions : j # k => boot'[j] = boot[j] /\ failure'[j] = failure[j]
    BY <1>5 DEF StartCoreInVain, At, Alive, GoOn, Own, Fail, Runs
  <2>3. Undisturbed => IsUp(k)'
    <3>1. SUFFICES ASSUME Undisturbed PROVE IsUp(k)'
      OBVIOUS
    <3>2. runtime # k
      BY <2>1, <3>1, OneStartup
    <3> QED BY <1>5, <3>2 DEF StartCoreInVain, At, Alive, GoOn, Own, Fail, Runs
  <2> HIDE DEF BroughtUp, IsUp, Undisturbed, InTui, Flying
  <2> QED BY <2>1, <2>2, <2>3, StartupStep
<1>6. ASSUME NEW k \in Sessions, NoCore(k) PROVE BroughtUp'
  <2>1. Flying(k) /\ UNCHANGED <<asked, screen>>
    BY <1>6 DEF NoCore, At
  <2>2. \A j \in Sessions : j # k => boot'[j] = boot[j] /\ failure'[j] = failure[j]
    BY <1>6 DEF NoCore, At, Alive, GoOn, Own, Fail, Runs
  <2>3. Undisturbed => IsUp(k)'
    <3>1. SUFFICES ASSUME Undisturbed PROVE IsUp(k)'
      OBVIOUS
    <3>2. runtime # k
      BY <2>1, <3>1, OneStartup
    <3> QED BY <1>6, <3>2 DEF NoCore, At, Alive, GoOn, Own, Fail, Runs
  <2> HIDE DEF BroughtUp, IsUp, Undisturbed, InTui, Flying
  <2> QED BY <2>1, <2>2, <2>3, StartupStep
<1>7. ASSUME NEW k \in Sessions, LoseCore(k) PROVE BroughtUp'
  <2>1. Flying(k) /\ UNCHANGED <<asked, screen>>
    BY <1>7 DEF LoseCore, At
  <2>2. \A j \in Sessions : j # k => boot'[j] = boot[j] /\ failure'[j] = failure[j]
    BY <1>7 DEF LoseCore, At, Alive, GoOn, Own, Fail, Runs
  <2>3. Undisturbed => IsUp(k)'
    <3>1. SUFFICES ASSUME Undisturbed PROVE IsUp(k)'
      OBVIOUS
    <3>2. runtime # k
      BY <2>1, <3>1, OneStartup
    <3> QED BY <1>7, <3>2 DEF LoseCore, At, Alive, GoOn, Own, Fail, Runs
  <2> HIDE DEF BroughtUp, IsUp, Undisturbed, InTui, Flying
  <2> QED BY <2>1, <2>2, <2>3, StartupStep
<1>8. ASSUME NEW k \in Sessions, ProbePasses(k) PROVE BroughtUp'
  BY <1>8 DEF ProbePasses, At, Alive, GoOn, Own, Fail, Runs
<1>9. ASSUME NEW k \in Sessions, ProbeFails(k) PROVE BroughtUp'
  BY <1>9 DEF ProbeFails, At, Alive, GoOn, Own, Fail, Runs
<1>10. ASSUME NEW k \in Sessions, NoTunnel(k) PROVE BroughtUp'
  BY <1>10 DEF NoTunnel, At, Alive, GoOn, Own, Fail, Runs
<1>11. ASSUME NEW k \in Sessions, TunnelRefused(k) PROVE BroughtUp'
  BY <1>11 DEF TunnelRefused, At, Alive, GoOn, Own, Fail, Runs
<1>12. ASSUME NEW k \in Sessions, SpawnTunnel(k) PROVE BroughtUp'
  BY <1>12 DEF SpawnTunnel, At, Alive, GoOn, Own, Fail, Runs
<1>13. ASSUME NEW k \in Sessions, TunnelReady(k) PROVE BroughtUp'
  BY <1>13 DEF TunnelReady, At, Alive, GoOn, Own, Fail, Runs
<1>14. ASSUME NEW k \in Sessions, TunnelFails(k) PROVE BroughtUp'
  BY <1>14 DEF TunnelFails, ChildrenAfterDrop, At, Alive, GoOn, Own, Fail, Runs
<1>15. ASSUME NEW k \in Sessions, NoPlugin(k) PROVE BroughtUp'
  BY <1>15 DEF NoPlugin, At, Alive, GoOn, Own, Fail, Runs
<1>16. ASSUME NEW k \in Sessions, StartPlugin(k) PROVE BroughtUp'
  BY <1>16 DEF StartPlugin, At, Alive, GoOn, Own, Fail, Runs
<1>17. ASSUME NEW k \in Sessions, LosePlugin(k) PROVE BroughtUp'
  BY <1>17 DEF LosePlugin, At, Alive, GoOn, Own, Fail, Runs
<1>18. ASSUME NEW k \in Sessions, Bind(k) PROVE BroughtUp'
  BY <1>18 DEF Bind, At, Alive, GoOn, Own, Fail, Runs
<1>19. ASSUME NEW k \in Sessions, BindFails(k) PROVE BroughtUp'
  <2>1. Flying(k) /\ UNCHANGED <<asked, screen>>
    BY <1>19 DEF BindFails, GiveUp, ChildrenAfterDrop, At
  <2>2. \A j \in Sessions : j # k => boot'[j] = boot[j] /\ failure'[j] = failure[j]
    BY <1>19 DEF BindFails, GiveUp, ChildrenAfterDrop, At, Alive, GoOn, Own, Fail, Runs
  <2>3. Undisturbed => IsUp(k)'
    <3>1. SUFFICES ASSUME Undisturbed PROVE IsUp(k)'
      OBVIOUS
    <3>2. runtime # k
      BY <2>1, <3>1, OneStartup
    <3> QED BY <1>19, <3>2 DEF BindFails, GiveUp, ChildrenAfterDrop, At, Alive, GoOn, Own, Fail, Runs
  <2> HIDE DEF BroughtUp, IsUp, Undisturbed, InTui, Flying
  <2> QED BY <2>1, <2>2, <2>3, StartupStep
<1>20. ASSUME NEW k \in Sessions, BuildState(k) PROVE BroughtUp'
  BY <1>20 DEF BuildState, At, Alive, GoOn, Own, Fail, Runs
<1>21. ASSUME NEW k \in Sessions, BuildStateFails(k) PROVE BroughtUp'
  <2>1. Flying(k) /\ UNCHANGED <<asked, screen>>
    BY <1>21 DEF BuildStateFails, GiveUp, ChildrenAfterDrop, At
  <2>2. \A j \in Sessions : j # k => boot'[j] = boot[j] /\ failure'[j] = failure[j]
    BY <1>21 DEF BuildStateFails, GiveUp, ChildrenAfterDrop, At, Alive, GoOn, Own, Fail, Runs
  <2>3. Undisturbed => IsUp(k)'
    <3>1. SUFFICES ASSUME Undisturbed PROVE IsUp(k)'
      OBVIOUS
    <3>2. runtime # k
      BY <2>1, <3>1, OneStartup
    <3> QED BY <1>21, <3>2 DEF BuildStateFails, GiveUp, ChildrenAfterDrop, At, Alive, GoOn, Own, Fail, Runs
  <2> HIDE DEF BroughtUp, IsUp, Undisturbed, InTui, Flying
  <2> QED BY <2>1, <2>2, <2>3, StartupStep
<1>22. ASSUME NEW k \in Sessions, Send(k) PROVE BroughtUp'
  <2>1. Flying(k) /\ UNCHANGED <<asked, screen>>
    BY <1>22 DEF Send, At
  <2>2. \A j \in Sessions : j # k => boot'[j] = boot[j] /\ failure'[j] = failure[j]
    BY <1>22 DEF Send, GoOn
  <2>3. Undisturbed => IsUp(k)'
    <3>1. SUFFICES ASSUME Undisturbed PROVE IsUp(k)'
      OBVIOUS
    <3>2. startupRx = k /\ runtime # k
      BY <2>1, <3>1, OneStartup
    <3>3. UNCHANGED <<child, server, container, failure, tunnelled>> /\ boot'[k] = "sent" /\ boot[k] = "send"
      BY <1>22, <3>2 DEF Send, Awaited, GoOn, At
    <3> QED BY <2>1, <3>1, <3>2, <3>3
  <2> HIDE DEF BroughtUp, IsUp, Undisturbed, InTui, Flying
  <2> QED BY <2>1, <2>2, <2>3, StartupStep
<1>23. ASSUME NEW k \in Sessions, Drained(k) PROVE BroughtUp'
  BY <1>23 DEF Drained, At, Alive, GoOn, Own, Fail, Runs
<1>24. CASE Confirm
  BY <1>24 DEF Confirm, GoOn, Alive
<1>25. CASE Finalized
  BY <1>25 DEF Finalized, Alive, GoOn
<1>26. CASE ApplyFinalize
  <2>1. SUFFICES ASSUME Undisturbed', NEW j \in Sessions PROVE IsUp(j)'
    BY DEF BroughtUp
  <2>2. Undisturbed /\ UNCHANGED <<world, failure, runtime, asked>> /\ IsUp(j)
    BY <1>26, <2>1 DEF ApplyFinalize
  <2>3. boot'[j] \in {boot[j], "load"}
    BY <1>26 DEF ApplyFinalize, GoOn
  <2> QED BY <2>2, <2>3
<1>27. CASE ApplyStartup
  <2>1. SUFFICES ASSUME Undisturbed', NEW j \in Sessions PROVE IsUp(j)'
    BY DEF BroughtUp
  <2>2. Undisturbed /\ UNCHANGED <<container, failure, asked>> /\ IsUp(j) /\ startupRx \in Sessions
    BY <1>27, <2>1 DEF ApplyStartup
  <2>3. CASE boot[startupRx] = "sent"
    <3>1. /\ runtime' = startupRx /\ boot' = [boot EXCEPT ![startupRx] = "over"]
          /\ child' = child \ ({runtime} \ {Nobody})
          /\ server' = ServersAfterDrop({runtime} \ {Nobody})
      BY <1>27, <2>3 DEF ApplyStartup, GoOn, Drop, ChildrenAfterDrop
    <3>2. runtime # startupRx /\ \A i \in Sessions : i # startupRx => ~Flying(i)
      BY <2>2, <2>3, OneStartup
    <3>3. CASE j = startupRx
      <4>1. server'[j] = server[j] /\ (j \in child => j \in child')
        BY <3>1, <3>2, <3>3 DEF ServersAfterDrop
      <4> QED BY <2>2, <2>3, <3>3, <4>1
    <3>4. CASE j # startupRx
      <4>1. boot'[j] = boot[j] /\ ~Flying(j)
        BY <3>1, <3>2, <3>4
      <4> QED BY <3>1, <3>4, <4>1
    <3> QED BY <3>3, <3>4
  <2>4. CASE boot[startupRx] # "sent"
    <3>1. UNCHANGED <<child, server, runtime, boot>>
      BY <1>27, <2>4 DEF ApplyStartup
    <3> QED BY <2>2, <3>1
  <2> QED BY <2>3, <2>4
<1>28. CASE InitiateShutdown
  BY <1>28 DEF InitiateShutdown, Begin
<1>29. CASE LeaveScreen
  BY <1>29 DEF LeaveScreen, GoToMain
<1>30. CASE TerminalFails
  BY <1>30 DEF TerminalFails, GoToMain
<1>31. CASE CliBails
  BY <1>31 DEF CliBails, Gone
<1>32. CASE CliServes
  BY <1>32 DEF CliServes, GoOn
<1>33. CASE Interrupt
  BY <1>33 DEF Interrupt, GoToMain
<1>34. CASE ServerErrs
  BY <1>34 DEF ServerErrs, Gone
<1>35. CASE Exit
  BY <1>35 DEF Exit, Gone
<1>36. ASSUME NEW c \in Releases, AskServer(c) PROVE BroughtUp'
  <2>1. release[c].pc # "idle" /\ UNCHANGED screen
    BY <1>36 DEF AskServer, In
  <2> HIDE DEF Undisturbed, InTui
  <2> QED BY <2>1, NoShutdown
<1>37. ASSUME NEW c \in Releases, ServerEnded(c) PROVE BroughtUp'
  BY <1>37 DEF ServerEnded, In, Alive, Continue
<1>38. ASSUME NEW c \in Releases, StopTunnel(c) PROVE BroughtUp'
  <2>1. release[c].pc # "idle" /\ UNCHANGED screen
    BY <1>38 DEF StopTunnel, In
  <2> HIDE DEF Undisturbed, InTui
  <2> QED BY <2>1, NoShutdown
<1>39. ASSUME NEW c \in Releases, StopsEnded(c) PROVE BroughtUp'
  BY <1>39 DEF StopsEnded, In, Alive
<1>40. ASSUME NEW c \in Releases, LateSession(c) PROVE BroughtUp'
  <2>1. release[c].pc # "idle" /\ UNCHANGED screen
    BY <1>40 DEF LateSession, In
  <2> HIDE DEF Undisturbed, InTui
  <2> QED BY <2>1, NoShutdown
<1>41. ASSUME NEW c \in Releases, TimeOut(c) PROVE BroughtUp'
  <2>1. release[c].pc # "idle" /\ UNCHANGED screen
    BY <1>41 DEF TimeOut, In
  <2> HIDE DEF Undisturbed, InTui
  <2> QED BY <2>1, NoShutdown
<1>42. ASSUME NEW c \in Releases, NEW kind \in Kinds, StopContainer(c, kind) PROVE BroughtUp'
  <2>1. release[c].pc # "idle" /\ UNCHANGED screen
    BY <1>42 DEF StopContainer, In
  <2> HIDE DEF Undisturbed, InTui
  <2> QED BY <2>1, NoShutdown
<1>43. CASE UNCHANGED vars
  BY <1>43
<1> HIDE DEF TypeOK, Shutdown, BootStep, asked, screen, tasks, world, Undisturbed, InTui, Flying, BroughtUp, IsUp
<1> QED
  BY <1>1, <1>2, <1>3, <1>4, <1>5, <1>6, <1>7, <1>8, <1>9, <1>10, <1>11, <1>12, <1>13, <1>14,
     <1>15, <1>16, <1>17, <1>18, <1>19, <1>20, <1>21, <1>22, <1>23, <1>24, <1>25, <1>26, <1>27,
     <1>28, <1>29, <1>30, <1>31, <1>32, <1>33, <1>34, <1>35, <1>36, <1>37, <1>38, <1>39, <1>40,
     <1>41, <1>42, <1>43
     DEF Next, Boot, Tui, Cli, Shut

-----------------------------------------------------------------------------
(* The initial states satisfy the invariant.                               *)
LEMMA InitIInv == Init => IInv
<1> SUFFICES ASSUME Init PROVE IInv
  OBVIOUS
<1> USE BoundAssumption, ModeAssumption
    DEF Init, Sessions, Cleanups, Releases, Kinds, Nobody, Main, BootStep, Flying, Latest
<1>1. mode \in {"wizard", "configured", "cli"}
  OBVIOUS
<1>2. TypeOK
  BY <1>1 DEF TypeOK, Shutdown, Idle
<1>3. OneAtATime
  BY <1>1 DEF OneAtATime
<1>4. NoChildYet /\ NothingOwnedYet
  BY DEF NoChildYet, NothingOwnedYet
<1>5. ShutdownsWellFormed
  BY DEF ShutdownsWellFormed, Idle
<1>6. TunnelsHeld /\ ContainersKept
  BY DEF TunnelsHeld, ContainersKept
<1>7. OneHolder /\ BroughtUp
  BY <1>1 DEF OneHolder, BroughtUp, IsUp, Undisturbed, InTui, Idle
<1>8. QED
  BY <1>2, <1>3, <1>4, <1>5, <1>6, <1>7 DEF IInv

(* The types hold in every state of every run of the program.              *)
THEOREM TypeCorrect == Spec => []TypeOK
<1>1. Init => TypeOK
  BY InitIInv DEF IInv
<1>2. TypeOK /\ [Next]_vars => TypeOK'
  BY TypeStep
<1>3. QED
  BY <1>1, <1>2, PTL DEF Spec

(* The inductive invariant.                                                *)
THEOREM Invariance == Spec => []IInv
<1>1. IInv /\ [Next]_vars => IInv'
  BY TypeStep, OneAtATimeStep, NoChildYetStep, NothingOwnedYetStep, ShutdownsStep,
     TunnelsHeldStep, ContainersKeptStep, OneHolderStep, BroughtUpStep DEF IInv
<1>2. QED
  BY <1>1, InitIInv, PTL DEF Spec

(* Whatever startups, quits and timeouts do to each other, a cloudflared   *)
(* process has a holder that will stop it, and there is at most one.       *)
THEOREM NoStrayTunnel == Spec => []TunnelsAreHeld
<1>1. IInv => TunnelsAreHeld
  <2>1. SUFFICES ASSUME IInv PROVE TunnelsAreHeld
    OBVIOUS
  <2>2. \A k \in child : Holds(k)
    BY <2>1 DEF IInv, TunnelsHeld
  <2>3. ASSUME NEW j \in child, NEW k \in child, j < k PROVE FALSE
    BY <2>1, <2>3 DEF IInv, TypeOK, OneAtATime, NoChildYet, Latest, Sessions
  <2>4. child \subseteq Sessions /\ Sessions \subseteq Nat
    BY <2>1 DEF IInv, TypeOK, Sessions
  <2>5. ASSUME NEW j \in child, NEW k \in child PROVE j = k
    BY <2>3, <2>4
  <2>6. QED
    BY <2>2, <2>5 DEF TunnelsAreHeld
<1>2. QED
  BY <1>1, Invariance, PTL

(* When the program has ended, a container still runs only for a session   *)
(* of which something was let go on the way.                               *)
THEOREM NothingIsLeftUnawares == Spec => []NothingLeftUnawares
<1>1. IInv => NothingLeftUnawares
  BY DEF IInv, ContainersKept, NothingLeftUnawares
<1>2. QED
  BY <1>1, Invariance, PTL
(* What is shown as running has its containers, its server and its tunnel. *)
THEOREM ShownIsUp == Spec => []RunningIsUp
<1>1. IInv => RunningIsUp
  BY DEF IInv, BroughtUp, IsUp, Undisturbed, InTui, RunningIsUp
<1>2. QED
  BY <1>1, Invariance, PTL
=============================================================================
