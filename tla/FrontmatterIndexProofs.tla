------------------------ MODULE FrontmatterIndexProofs ------------------------
(***************************************************************************)
(* Proofs about FrontmatterIndex, for any files, contents, timers and      *)
(* number of changes.                                                      *)
(*                                                                         *)
(* The argument for SettledPathAgrees: what a flush has read of a file is  *)
(* what the file says, or a later change of it is queued or in the hands   *)
(* of a flush that has yet to read the file (ReadInv).  When that one      *)
(* reads it while an older entry is held, the file is marked overtaken; if *)
(* not, the entry of a file with nothing under way is the right one        *)
(* (EntryInv).                                                             *)
(***************************************************************************)
EXTENDS FrontmatterIndex, FiniteSetTheorems, SequenceTheorems, TLAPS

AtMostOne(S) == \A x, y \in S : x = y

(* The types, with AtMostOne for the cardinalities.                        *)
TypeInv ==
  /\ vault \in [Paths -> Content]
  /\ syncMode \in SyncModes
  /\ main \in Location
  /\ toScan \subseteq Paths
  /\ newIndex \in [Paths -> Entry]
  /\ index \in [Paths -> Entry]
  /\ watching \in BOOLEAN
  /\ events \in Seq(Event)
  /\ handling \subseteq Paths
  /\ pending \subseteq Paths
  /\ handle \subseteq Timers
  /\ captured \subseteq Timers
  /\ timers \in [Timers -> Timer]
  /\ changes \in 0 .. MaxChanges
  /\ untold \in [Paths -> Excuse]
  /\ AtMostOne(handling)
  /\ AtMostOne(handle)

(* The timer of the handle is not the one stop() is about to cancel, and   *)
(* waits or has just waited; only a running flush has work or an entry.    *)
TimerInv ==
  /\ captured \cap handle = {}
  /\ captured # {} => main = "cancelling"
  /\ \A t \in handle : timers[t].state \in {"armed", "fired"}
  /\ \A t \in Timers :
       timers[t].state # "running" => timers[t].work = {} /\ timers[t].read = {}

(* A flush holds at most one entry it has yet to install.                  *)
ReadOne == \A t \in Timers : AtMostOne(timers[t].read)

(* A pending path has a timer that stop() is not about to cancel.          *)
WakeupInv ==
  pending # {} => \E t \in Timers \ captured : timers[t].state \in {"armed", "fired"}

(* Until the observer is started, and always in sync mode, there is nothing *)
(* to flush; while the scan is installed no flush runs.                    *)
QuietInv ==
  /\ main \in {"scan", "rescan"} \/ syncMode =>
       /\ ~watching
       /\ events = <<>> /\ handling = {} /\ pending = {}
       /\ \A t \in Timers : timers[t].state = "free"
  /\ main = "install" =>
       /\ watching /\ toScan = {}
       /\ \A t \in Timers : timers[t].state \in {"free", "armed"}
  /\ main \in {"install", "serving"} /\ ~syncMode => watching
  /\ main = "rescan" => syncMode
  /\ main = "serving" => \A p \in Paths : untold[p] # "reread"

(* What the scan has read is what the file says, unless the file changed   *)
(* behind its back.                                                        *)
ScanInv ==
  /\ main \in {"scan", "rescan"} =>
       \A p \in Paths \ toScan :
         untold[p] \in {"no", "reread"} => newIndex[p] = Parsed(vault[p])
  /\ main = "install" =>
       \A p \in Paths :
         untold[p] \in {"no", "reread"} /\ ~Queued(p) =>
           newIndex[p] = Parsed(vault[p])

(* What a flush has read is what the file says, or a change is queued, or  *)
(* a flush has yet to read the file again.                                 *)
ToRead(p) == Queued(p) \/ \E t \in Timers : p \in timers[t].work

ReadInv ==
  main = "serving" =>
    \A t \in Timers : \A r \in timers[t].read :
      untold[r.path] = "no" /\ ~ToRead(r.path) => r.entry = Parsed(vault[r.path])

EntryInv ==
  main \in {"serving", "rescan"} =>
    \A p \in Paths : untold[p] = "no" /\ ~InFlight(p) => Agrees(p)

IInv ==
  /\ TypeInv
  /\ TimerInv
  /\ ReadOne
  /\ WakeupInv
  /\ QuietInv

AgreeInv == ScanInv /\ ReadInv /\ EntryInv

-----------------------------------------------------------------------------
(* Helpers.                                                                *)

(* At most one element, as a cardinality.                                  *)
LEMMA AtMostOneCardinality ==
  ASSUME NEW S, AtMostOne(S)
  PROVE  Cardinality(S) <= 1
<1>1. CASE S = {}
  BY <1>1, FS_EmptySet
<1>2. CASE S # {}
  <2>1. PICK x \in S : TRUE
    BY <1>2
  <2>2. S = {x}
    BY <2>1 DEF AtMostOne
  <2>3. Cardinality({x}) = 1
    BY FS_Singleton
  <2> QED
    BY <2>2, <2>3
<1> QED
  BY <1>1, <1>2

(* A timer that is not in use is well-typed.                               *)
LEMMA IdleType == Idle \in Timer
  BY DEF Idle, Timer

(* So is one that has taken up some work or read an entry.                 *)
LEMMA WorkType ==
  ASSUME NEW timer \in Timer, NEW w \in SUBSET Paths,
         NEW r \in SUBSET [path : Paths, entry : Entry]
  PROVE  [timer EXCEPT !.work = w, !.read = r] \in Timer
  BY DEF Timer

(* A cancel leaves a timer as it is or frees an armed one.                 *)
LEMMA CancelledType ==
  ASSUME TypeInv, NEW S
  PROVE  /\ Cancelled(S) \in [Timers -> Timer]
         /\ \A t \in Timers :
              \/ Cancelled(S)[t] = timers[t]
              \/ t \in S /\ timers[t].state = "armed" /\ Cancelled(S)[t] = Idle
  BY IdleType DEF TypeInv, Cancelled

(* What ScheduleDebounce does, with its timer named.                       *)
LEMMA ScheduleFacts ==
  ASSUME TypeInv, ScheduleDebounce
  PROVE  \E p \in handling, t \in Timers \ captured :
           /\ timers[t].state = "free"
           /\ pending' = pending \cup {p}
           /\ timers' = [Cancelled(handle) EXCEPT
                           ![t] = [Idle EXCEPT !.state = "armed"]]
           /\ handle' = {t}
           /\ handling' = {}
  BY DEF ScheduleDebounce

(* A freshly armed timer is well-typed.                                    *)
LEMMA ArmedType ==
  [Idle EXCEPT !.state = "armed"] \in Timer
  BY DEF Idle, Timer

(* A fresh event is in the queue or nothing watches; the others stay.      *)
LEMMA NotifyFacts ==
  ASSUME TypeInv, NEW kind \in {"changed", "moved"}, NEW p \in Paths,
         Notify(kind, p)
  PROVE  /\ events' \in Seq(Event)
         /\ ~watching => events' = events
         /\ watching => Contains(events', [kind |-> kind, path |-> p])
         /\ \A e : Contains(events, e) => Contains(events', e)
<1> DEFINE e0 == [kind |-> kind, path |-> p]
<1>0. e0 \in Event
  BY DEF Event
<1>1. CASE ~watching
  BY <1>1 DEF Notify, TypeInv
<1>2. CASE watching /\ events # <<>> /\ Last(events) = e0
  <2>1. Len(events) \in 1 .. Len(events)
    BY <1>2, EmptySeq DEF TypeInv
  <2> QED
    BY <1>2, <2>1 DEF Notify, TypeInv, Contains, Last
<1>3. CASE watching /\ ~(events # <<>> /\ Last(events) = e0)
  <2>1. events' = Append(events, e0)
    BY <1>3 DEF Notify
  <2>2. /\ events' \in Seq(Event)
        /\ Len(events') = Len(events) + 1
        /\ \A i \in 1 .. Len(events) : events'[i] = events[i]
        /\ events'[Len(events) + 1] = e0
        /\ Len(events) \in Nat
    BY <2>1, <1>0, AppendProperties DEF TypeInv
  <2>3. Contains(events', e0)
    BY <2>2 DEF Contains
  <2>4. ASSUME NEW e, Contains(events, e)
        PROVE  Contains(events', e)
    BY <2>2, <2>4 DEF Contains
  <2> QED
    BY <1>3, <2>2, <2>3, <2>4
<1> QED
  BY <1>1, <1>2, <1>3

(* Taking an event: the others stay.                                       *)
LEMMA TakeFacts ==
  ASSUME TypeInv, events # <<>>
  PROVE  /\ Head(events) \in Event
         /\ Tail(events) \in Seq(Event)
         /\ \A e : Contains(events, e) => e = Head(events) \/ Contains(Tail(events), e)
<1>1. /\ Head(events) \in Event
      /\ Tail(events) \in Seq(Event)
      /\ Len(Tail(events)) = Len(events) - 1
      /\ \A i \in 1 .. Len(Tail(events)) : Tail(events)[i] = events[i + 1]
      /\ Len(events) \in Nat
      /\ Head(events) = events[1]
  BY HeadTailProperties DEF TypeInv
<1>2. ASSUME NEW e, NEW i \in 1 .. Len(events), events[i] = e, e # Head(events)
      PROVE  Contains(Tail(events), e)
  <2>1. i # 1
    BY <1>1, <1>2
  <2>2. i - 1 \in 1 .. Len(Tail(events)) /\ i = (i - 1) + 1
    BY <1>1, <1>2, <2>1
  <2>3. Tail(events)[i - 1] = e
    BY <1>1, <1>2, <2>2
  <2> QED
    BY <2>2, <2>3 DEF Contains
<1> QED
  BY <1>1, <1>2 DEF Contains

(* The dispatcher accepts at most one path.                                *)
LEMMA AcceptedType ==
  ASSUME NEW e \in Event
  PROVE  Accepted(e) \subseteq Paths /\ AtMostOne(Accepted(e))
  BY DEF Accepted, AtMostOne, Event

(* A file has an entry or none.                                            *)
LEMMA ParsedType ==
  ASSUME NEW c \in Content
  PROVE  Parsed(c) \in Entry
  BY DEF Parsed, Entry

-----------------------------------------------------------------------------
(* Types.                                                                  *)

(* A change of the vault keeps the types.                                  *)
LEMMA ChangeType ==
  ASSUME TypeInv, NEW kind \in {"changed", "moved"}, NEW p \in Paths, NEW new,
         \A q \in DOMAIN new : new[q] \in Content,
         Change(kind, new, p)
  PROVE  TypeInv'
<1>1. events' \in Seq(Event)
  BY NotifyFacts DEF Change
<1>2. vault' \in [Paths -> Content]
  BY DEF Change, TypeInv
<1>3. untold' \in [Paths -> Excuse]
  BY DEF Change, TypeInv, Told, Excuse
<1>4. changes' \in 0 .. MaxChanges
  BY ModeAssumption DEF Change, TypeInv
<1> QED
  BY <1>1, <1>2, <1>3, <1>4 DEF Change, TypeInv

(* Every step keeps the types.                                             *)
LEMMA TypeStep ==
  ASSUME TypeInv, TimerInv, [Next]_vars
  PROVE  TypeInv'
<1>1. CASE UNCHANGED vars
  BY <1>1 DEF vars, TypeInv, AtMostOne
<1>2. CASE ScanFile
  BY <1>2, ParsedType DEF ScanFile, TypeInv, Excuse
<1>3. CASE StartObserver
  BY <1>3 DEF StartObserver, TypeInv, Location
<1>4. CASE InstallScan
  BY <1>4 DEF InstallScan, TypeInv, Excuse, Location, EmptyIndex, Entry
<1>5. CASE StartFails
  BY <1>5 DEF StartFails, TypeInv, Location
<1>6. CASE Rebuild
  BY <1>6 DEF Rebuild, TypeInv, Location, EmptyIndex, Entry
<1>7. CASE RebuildFails
  BY <1>7 DEF RebuildFails, TypeInv, Excuse, Location, EmptyIndex, Entry
<1>8. ASSUME NEW p \in Paths, VaultChange(p)
      PROVE  TypeInv'
  <2>1. CASE EditInPlace(p)
    BY <2>1, ChangeType DEF EditInPlace
  <2>2. CASE WriteFileAtomic(p)
    BY <2>2, ChangeType DEF WriteFileAtomic
  <2>3. CASE MovePath(p)
    <3>1. PICK dst \in Paths :
            Change("moved", [q \in {p, dst} |-> IF q = p THEN NoFile ELSE vault[p]],
                   dst)
      BY <2>3 DEF MovePath
    <3>2. NoFile \in Content /\ vault[p] \in Content
      BY DEF TypeInv, Content
    <3> QED
      BY <3>1, <3>2, ChangeType
  <2>4. CASE DeletePath(p)
    BY <2>4, ChangeType DEF DeletePath, Content
  <2> QED
    BY <1>8, <2>1, <2>2, <2>3, <2>4 DEF VaultChange
<1>9. CASE DispatchEvent
  BY <1>9, TakeFacts, AcceptedType DEF DispatchEvent, TypeInv
<1>10. CASE ScheduleDebounce
  <2>1. PICK p \in handling, t \in Timers \ captured :
          /\ pending' = pending \cup {p}
          /\ timers' = [Cancelled(handle) EXCEPT
                          ![t] = [Idle EXCEPT !.state = "armed"]]
          /\ handle' = {t}
          /\ handling' = {}
    BY <1>10, ScheduleFacts
  <2>2. timers' \in [Timers -> Timer]
    BY <2>1, CancelledType, ArmedType
  <2>3. AtMostOne(handle') /\ AtMostOne(handling')
    BY <2>1 DEF AtMostOne
  <2> QED
    BY <1>10, <2>1, <2>2, <2>3 DEF ScheduleDebounce, TypeInv
<1>11. ASSUME NEW t \in Timers, TimerStep(t)
       PROVE  TypeInv'
  <2>1. CASE Expire(t)
    BY <2>1 DEF Expire, TypeInv, Timer
  <2>2. CASE FlushPending(t)
    <3>1. [Idle EXCEPT !.state = "running", !.work = pending] \in Timer
      BY DEF Idle, Timer, TypeInv
    <3>2. timers' \in [Timers -> Timer]
      BY <2>2, <3>1, IdleType DEF FlushPending, TypeInv
    <3> QED
      BY <2>2, <3>2 DEF FlushPending, Snapshot, TypeInv, AtMostOne
  <2>3. CASE FlushRead(t)
    <3>1. PICK p \in timers[t].work :
            /\ timers' = [timers EXCEPT
                            ![t].work = @ \ {p},
                            ![t].read = {[path |-> p, entry |-> Parsed(vault[p])]}]
            /\ untold' = [untold EXCEPT
                            ![p] = IF HeldElsewhere(p, t) THEN "overtaken" ELSE "no"]
      BY <2>3 DEF FlushRead
    <3>2. p \in Paths /\ vault[p] \in Content
      BY <3>1 DEF TypeInv, Timer
    <3>3. [path |-> p, entry |-> Parsed(vault[p])] \in [path : Paths, entry : Entry]
      BY <3>2, ParsedType
    <3> DEFINE w == timers[t].work \ {p}
               r == {[path |-> p, entry |-> Parsed(vault[p])]}
    <3>4. timers[t] \in Timer /\ w \in SUBSET Paths
      BY DEF TypeInv, Timer
    <3>5. r \in SUBSET [path : Paths, entry : Entry]
      BY <3>3
    <3>6. [timers[t] EXCEPT !.work = w, !.read = r] \in Timer
      BY <3>4, <3>5, WorkType
    <3>7. timers' = [timers EXCEPT ![t] = [timers[t] EXCEPT !.work = w, !.read = r]]
      BY <3>1 DEF TypeInv
    <3>8. timers' \in [Timers -> Timer]
      BY <3>6, <3>7 DEF TypeInv
    <3>9. untold' \in [Paths -> Excuse]
      BY <3>1 DEF TypeInv, Excuse
    <3> QED
      BY <2>3, <3>8, <3>9 DEF FlushRead, TypeInv
  <2>4. CASE FlushInstall(t)
    <3>1. PICK r \in timers[t].read : index' = Updated(r)
      BY <2>4 DEF FlushInstall
    <3>2. r.path \in Paths /\ r.entry \in Entry
      BY <3>1 DEF TypeInv, Timer
    <3>3. index' \in [Paths -> Entry]
      BY <3>1, <3>2 DEF Updated, TypeInv
    <3>4. [timers[t] EXCEPT !.read = {}] \in Timer
      BY DEF TypeInv, Timer
    <3>5. timers' \in [Timers -> Timer]
      BY <2>4, <3>4, IdleType DEF FlushInstall, TypeInv
    <3> QED
      BY <2>4, <3>3, <3>5 DEF FlushInstall, TypeInv
  <2> QED
    BY <1>11, <2>1, <2>2, <2>3, <2>4 DEF TimerStep
<1>12. CASE StopLocked
  BY <1>12 DEF StopLocked, TypeInv, Location, AtMostOne
<1>13. CASE StopTimer
  BY <1>13, CancelledType DEF StopTimer, TypeInv, Location
<1>14. CASE StopObserver
  <2>1. handling' \subseteq Paths /\ AtMostOne(handling')
    BY <1>14, TakeFacts, AcceptedType DEF StopObserver, TypeInv, AtMostOne
  <2>2. <<>> \in Seq(Event)
    OBVIOUS
  <2> QED
    BY <1>14, <2>1, <2>2 DEF StopObserver, TypeInv, Location
<1>15. CASE JoinObserver
  BY <1>15 DEF JoinObserver, TypeInv, Location
<1>16. CASE Restart
  <2>1. <<>> \in Seq(Event) /\ EmptyIndex \in [Paths -> Entry]
    BY DEF EmptyIndex, Entry
  <2>2. AtMostOne({}) /\ "scan" \in Location
    BY DEF AtMostOne, Location
  <2>3. [t \in Timers |-> Idle] \in [Timers -> Timer]
    BY IdleType
  <2> QED
    BY <1>16, <2>1, <2>2, <2>3 DEF Restart, TypeInv, Excuse
<1> QED
  BY <1>1, <1>2, <1>3, <1>4, <1>5, <1>6, <1>7, <1>8, <1>9, <1>10, <1>11,
     <1>12, <1>13, <1>14, <1>15, <1>16
  DEF Next, StopStep

(* The handle and the captured timer stay apart and in their states.       *)
LEMMA TimerStepInv ==
  ASSUME TypeInv, TimerInv, [Next]_vars
  PROVE  TimerInv'
<1>1. CASE UNCHANGED vars
  BY <1>1 DEF vars, TimerInv
<1>2. CASE ScanFile
  BY <1>2 DEF ScanFile, TimerInv
<1>3. CASE StartObserver
  BY <1>3 DEF StartObserver, TimerInv
<1>4. CASE InstallScan
  BY <1>4 DEF InstallScan, TimerInv, TypeInv
<1>5. CASE StartFails
  BY <1>5 DEF StartFails, TimerInv
<1>6. CASE Rebuild
  BY <1>6 DEF Rebuild, TimerInv
<1>7. CASE RebuildFails
  BY <1>7 DEF RebuildFails, TimerInv
<1>8. ASSUME NEW p \in Paths, VaultChange(p)
      PROVE  TimerInv'
  BY <1>8 DEF VaultChange, EditInPlace, WriteFileAtomic, MovePath, DeletePath,
              Change, TimerInv
<1>9. CASE DispatchEvent
  BY <1>9 DEF DispatchEvent, TimerInv
<1>10. CASE ScheduleDebounce
  <2>1. PICK p \in handling, t \in Timers \ captured :
          /\ timers[t].state = "free"
          /\ timers' = [Cancelled(handle) EXCEPT
                          ![t] = [Idle EXCEPT !.state = "armed"]]
          /\ handle' = {t}
    BY <1>10, ScheduleFacts
  <2>2. /\ timers'[t].state = "armed"
        /\ timers'[t].work = {} /\ timers'[t].read = {}
    BY <2>1, CancelledType DEF Idle
  <2>3. ASSUME NEW u \in Timers, u # t
        PROVE  timers'[u] = timers[u] \/ timers'[u] = Idle
    BY <2>1, <2>3, CancelledType
  <2>4. \A u \in Timers : timers'[u].state # "running" =>
          timers'[u].work = {} /\ timers'[u].read = {}
    BY <2>2, <2>3 DEF TimerInv, Idle
  <2> QED
    BY <1>10, <2>1, <2>2, <2>4 DEF ScheduleDebounce, TimerInv
<1>11. ASSUME NEW t \in Timers, TimerStep(t)
       PROVE  TimerInv'
  <2>1. CASE Expire(t)
    BY <2>1 DEF Expire, TimerInv, TypeInv, Timer
  <2>2. CASE FlushPending(t)
    <3>1. \A u \in Timers \ {t} :
            /\ timers'[u].state = timers[u].state
            /\ timers'[u].work = timers[u].work
            /\ timers'[u].read = timers[u].read
      BY <2>2 DEF FlushPending
    <3>2. timers'[t] = IF pending = {} THEN Idle
                       ELSE [Idle EXCEPT !.state = "running", !.work = pending]
      BY <2>2 DEF FlushPending, TypeInv
    <3>3. timers'[t].state # "running" =>
            timers'[t].work = {} /\ timers'[t].read = {}
      BY <3>2 DEF Idle
    <3> QED
      BY <2>2, <3>1, <3>3 DEF FlushPending, Snapshot, TimerInv
  <2>3. CASE FlushRead(t)
    <3>1. /\ \A u \in Timers \ {t} : timers'[u] = timers[u]
          /\ timers'[t].state = "running"
      BY <2>3 DEF FlushRead, TypeInv, Timer
    <3> QED
      BY <2>3, <3>1 DEF FlushRead, TimerInv, TypeInv
  <2>4. CASE FlushInstall(t)
    <3>1. \A u \in Timers \ {t} :
            /\ timers'[u].state = timers[u].state
            /\ timers'[u].work = timers[u].work
            /\ timers'[u].read = timers[u].read
      BY <2>4 DEF FlushInstall
    <3>2. timers'[t] = IF timers[t].work = {} THEN Idle
                       ELSE [timers[t] EXCEPT !.read = {}]
      BY <2>4 DEF FlushInstall, TypeInv
    <3>3. timers[t].read # {} /\ timers[t].state = "running"
      BY <2>4 DEF FlushInstall, TimerInv
    <3>4. timers'[t].state # "running" =>
            timers'[t].work = {} /\ timers'[t].read = {}
      BY <3>2, <3>3 DEF Idle, TypeInv, Timer
    <3>5. t \notin handle
      BY <3>3 DEF TimerInv
    <3> QED
      BY <2>4, <3>1, <3>4, <3>5 DEF FlushInstall, TimerInv, TypeInv
  <2> QED
    BY <1>11, <2>1, <2>2, <2>3, <2>4 DEF TimerStep
<1>12. CASE StopLocked
  BY <1>12 DEF StopLocked, TimerInv
<1>13. CASE StopTimer
  BY <1>13, CancelledType DEF StopTimer, TimerInv, Idle, TypeInv
<1>14. CASE StopObserver
  BY <1>14 DEF StopObserver, TimerInv
<1>15. CASE JoinObserver
  BY <1>15 DEF JoinObserver, TimerInv
<1>16. CASE Restart
  BY <1>16 DEF Restart, TimerInv, Idle
<1> QED
  BY <1>1, <1>2, <1>3, <1>4, <1>5, <1>6, <1>7, <1>8, <1>9, <1>10, <1>11,
     <1>12, <1>13, <1>14, <1>15, <1>16
  DEF Next, StopStep

(* Each flush reads one file at a time.                                    *)
LEMMA ReadOneStep ==
  ASSUME TypeInv, ReadOne, [Next]_vars
  PROVE  ReadOne'
<1> DEFINE Fine(u) == \/ timers'[u].read \subseteq timers[u].read
                      \/ \E x : timers'[u].read = {x}
<1>1. ASSUME \A u \in Timers : Fine(u)
      PROVE  ReadOne'
  BY <1>1 DEF ReadOne, AtMostOne
<1>2. CASE timers' = timers
  BY <1>1, <1>2
<1>3. CASE InstallScan
  BY <1>1, <1>3 DEF InstallScan
<1>4. CASE ScheduleDebounce
  <2>1. PICK p \in handling, t \in Timers \ captured :
          timers' = [Cancelled(handle) EXCEPT
                       ![t] = [Idle EXCEPT !.state = "armed"]]
    BY <1>4, ScheduleFacts
  <2>2. timers'[t].read = {}
    BY <2>1, CancelledType DEF Idle
  <2>3. ASSUME NEW u \in Timers, u # t
        PROVE  timers'[u] = timers[u] \/ timers'[u] = Idle
    BY <2>1, <2>3, CancelledType
  <2> QED
    BY <1>1, <2>2, <2>3 DEF Idle
<1>5. CASE StopTimer
  BY <1>1, <1>5, CancelledType DEF StopTimer, Idle
<1>6. CASE Restart
  BY <1>1, <1>6 DEF Restart, Idle
<1>7. ASSUME NEW t \in Timers, TimerStep(t)
      PROVE  ReadOne'
  <2>1. CASE Expire(t)
    BY <1>1, <2>1 DEF Expire, TypeInv, Timer
  <2>2. CASE FlushPending(t)
    <3>1. \A u \in Timers \ {t} : timers'[u].read = timers[u].read
      BY <2>2 DEF FlushPending
    <3>2. timers'[t] = IF pending = {} THEN Idle
                       ELSE [Idle EXCEPT !.state = "running", !.work = pending]
      BY <2>2 DEF FlushPending, TypeInv
    <3>3. timers'[t].read = {}
      BY <3>2 DEF Idle
    <3> QED
      BY <1>1, <3>1, <3>3
  <2>3. CASE FlushRead(t)
    <3>1. PICK p \in timers[t].work :
            /\ timers' = [timers EXCEPT
                            ![t].work = @ \ {p},
                            ![t].read = {[path |-> p, entry |-> Parsed(vault[p])]}]
            /\ untold' = [untold EXCEPT
                            ![p] = IF HeldElsewhere(p, t) THEN "overtaken" ELSE "no"]
      BY <2>3 DEF FlushRead
    <3>2. /\ \A u \in Timers \ {t} : timers'[u] = timers[u]
          /\ timers'[t].read = {[path |-> p, entry |-> Parsed(vault[p])]}
      BY <3>1 DEF TypeInv, Timer
    <3> QED
      BY <1>1, <3>2
  <2>4. CASE FlushInstall(t)
    <3>1. \A u \in Timers \ {t} : timers'[u].read = timers[u].read
      BY <2>4 DEF FlushInstall
    <3>2. timers'[t] = IF timers[t].work = {} THEN Idle
                       ELSE [timers[t] EXCEPT !.read = {}]
      BY <2>4 DEF FlushInstall, TypeInv
    <3>3. timers[t] \in Timer
      BY DEF TypeInv
    <3>4. timers'[t].read = {}
      BY <3>2, <3>3 DEF Idle, Timer
    <3> QED
      BY <1>1, <3>1, <3>4
  <2> QED
    BY <1>7, <2>1, <2>2, <2>3, <2>4 DEF TimerStep
<1> QED
  BY <1>2, <1>3, <1>4, <1>5, <1>6, <1>7
  DEF Next, vars, StopStep, ScanFile, StartObserver, StartFails, Rebuild,
      RebuildFails, VaultChange, EditInPlace, WriteFileAtomic, MovePath,
      DeletePath, Change, DispatchEvent, StopLocked, StopObserver, JoinObserver

(* Nobody is left waiting: cancels spare the timer that replaces the       *)
(* cancelled one, and stop() empties the pending paths first.              *)
LEMMA WakeupStep ==
  ASSUME TypeInv, TimerInv, WakeupInv, [Next]_vars
  PROVE  WakeupInv'
<1>1. CASE UNCHANGED vars
  BY <1>1 DEF vars, WakeupInv
<1>2. CASE ScanFile
  BY <1>2 DEF ScanFile, WakeupInv
<1>3. CASE StartObserver
  BY <1>3 DEF StartObserver, WakeupInv
<1>4. CASE InstallScan
  BY <1>4 DEF InstallScan, WakeupInv
<1>5. CASE StartFails
  BY <1>5 DEF StartFails, WakeupInv
<1>6. CASE Rebuild
  BY <1>6 DEF Rebuild, WakeupInv
<1>7. CASE RebuildFails
  BY <1>7 DEF RebuildFails, WakeupInv
<1>8. ASSUME NEW p \in Paths, VaultChange(p)
      PROVE  WakeupInv'
  BY <1>8 DEF VaultChange, EditInPlace, WriteFileAtomic, MovePath, DeletePath,
              Change, WakeupInv
<1>9. CASE DispatchEvent
  BY <1>9 DEF DispatchEvent, WakeupInv
<1>10. CASE ScheduleDebounce
  <2>1. PICK p \in handling, t \in Timers \ captured :
          timers' = [Cancelled(handle) EXCEPT
                       ![t] = [Idle EXCEPT !.state = "armed"]]
    BY <1>10, ScheduleFacts
  <2>2. timers'[t].state = "armed"
    BY <2>1, CancelledType DEF Idle
  <2> QED
    BY <1>10, <2>2 DEF ScheduleDebounce, WakeupInv
<1>11. ASSUME NEW t \in Timers, TimerStep(t)
       PROVE  WakeupInv'
  <2>1. CASE Expire(t)
    BY <2>1 DEF Expire, WakeupInv, TypeInv, Timer
  <2>2. CASE FlushPending(t)
    BY <2>2 DEF FlushPending, Snapshot, WakeupInv
  <2>3. CASE FlushRead(t)
    <3>1. \A u \in Timers : timers'[u].state = timers[u].state
      BY <2>3 DEF FlushRead, TypeInv, Timer
    <3> QED
      BY <2>3, <3>1 DEF FlushRead, WakeupInv
  <2>4. CASE FlushInstall(t)
    <3>1. \A u \in Timers \ {t} : timers'[u].state = timers[u].state
      BY <2>4 DEF FlushInstall
    <3>2. timers[t].state = "running"
      BY <2>4 DEF FlushInstall, TimerInv
    <3> QED
      BY <2>4, <3>1, <3>2 DEF FlushInstall, WakeupInv
  <2> QED
    BY <1>11, <2>1, <2>2, <2>3, <2>4 DEF TimerStep
<1>12. CASE StopLocked
  BY <1>12 DEF StopLocked, WakeupInv
<1>13. CASE StopTimer
  BY <1>13, CancelledType DEF StopTimer, WakeupInv
<1>14. CASE StopObserver
  BY <1>14 DEF StopObserver, WakeupInv
<1>15. CASE JoinObserver
  BY <1>15 DEF JoinObserver, WakeupInv
<1>16. CASE Restart
  BY <1>16 DEF Restart, WakeupInv
<1> QED
  BY <1>1, <1>2, <1>3, <1>4, <1>5, <1>6, <1>7, <1>8, <1>9, <1>10, <1>11,
     <1>12, <1>13, <1>14, <1>15, <1>16
  DEF Next, StopStep

(* Nothing moves before the observer is started, nor in sync mode; while   *)
(* the scan is being installed timers may be armed but not expire.         *)
LEMMA QuietStep ==
  ASSUME TypeInv, TimerInv, QuietInv, [Next]_vars
  PROVE  QuietInv'
<1>1. CASE UNCHANGED vars
  BY <1>1 DEF vars, QuietInv
<1>2. CASE ScanFile
  BY <1>2 DEF ScanFile, QuietInv
<1>3. CASE StartObserver
  BY <1>3 DEF StartObserver, QuietInv
<1>4. CASE InstallScan
  <2>1. \A t \in Timers : timers'[t].state = timers[t].state
    BY <1>4 DEF InstallScan
  <2>2. \A p \in Paths : untold'[p] # "reread"
    BY <1>4 DEF InstallScan
  <2> QED
    BY <1>4, <2>1, <2>2 DEF InstallScan, QuietInv
<1>5. CASE StartFails
  BY <1>5 DEF StartFails, QuietInv
<1>6. CASE Rebuild
  BY <1>6 DEF Rebuild, QuietInv
<1>7. CASE RebuildFails
  BY <1>7 DEF RebuildFails, QuietInv
<1>8. ASSUME NEW p \in Paths, VaultChange(p)
      PROVE  QuietInv'
  <2>0. PICK kind \in {"changed", "moved"}, q \in Paths :
          \E new : Change(kind, new, q)
    BY <1>8 DEF VaultChange, EditInPlace, WriteFileAtomic, MovePath, DeletePath
  <2>1. PICK new : Change(kind, new, q)
    BY <2>0
  <2>2. ~watching => events' = events
    BY <2>1, NotifyFacts DEF Change
  <2>3. \A x \in Paths : untold'[x] = "reread" => untold[x] = "reread"
    BY <2>1 DEF Change, Told
  <2> QED
    BY <2>1, <2>2, <2>3 DEF Change, QuietInv
<1>9. CASE DispatchEvent
  BY <1>9 DEF DispatchEvent, QuietInv
<1>10. CASE ScheduleDebounce
  <2>1. PICK p \in handling, t \in Timers \ captured :
          timers' = [Cancelled(handle) EXCEPT
                       ![t] = [Idle EXCEPT !.state = "armed"]]
    BY <1>10, ScheduleFacts
  <2>2. ~syncMode /\ main \notin {"scan", "rescan"}
    BY <2>1 DEF QuietInv
  <2>3. timers'[t].state = "armed"
    BY <2>1, CancelledType DEF Idle
  <2>4. \A u \in Timers \ {t} : timers'[u] = timers[u] \/ timers'[u].state = "free"
    BY <2>1, CancelledType DEF Idle
  <2> QED
    BY <1>10, <2>2, <2>3, <2>4 DEF ScheduleDebounce, QuietInv
<1>11. ASSUME NEW t \in Timers, TimerStep(t)
       PROVE  QuietInv'
  <2>1. timers[t].state # "free" /\ main # "install"
    BY <1>11 DEF TimerStep, Expire, FlushPending, FlushRead, FlushInstall,
                 QuietInv, TimerInv
  <2>2. ~syncMode /\ main \notin {"scan", "rescan"}
    BY <2>1 DEF QuietInv
  <2>3. \A p \in Paths : untold'[p] = "reread" => untold[p] = "reread"
    BY <1>11 DEF TimerStep, Expire, FlushPending, FlushRead, FlushInstall, TypeInv
  <2> QED
    BY <1>11, <2>1, <2>2, <2>3
    DEF TimerStep, Expire, FlushPending, FlushRead, FlushInstall, QuietInv
<1>12. CASE StopLocked
  BY <1>12 DEF StopLocked, QuietInv
<1>13. CASE StopTimer
  BY <1>13, CancelledType DEF StopTimer, QuietInv, Idle
<1>14. CASE StopObserver
  BY <1>14 DEF StopObserver, QuietInv
<1>15. CASE JoinObserver
  BY <1>15 DEF JoinObserver, QuietInv
<1>16. CASE Restart
  BY <1>16 DEF Restart, QuietInv, Idle
<1> QED
  BY <1>1, <1>2, <1>3, <1>4, <1>5, <1>6, <1>7, <1>8, <1>9, <1>10, <1>11,
     <1>12, <1>13, <1>14, <1>15, <1>16
  DEF Next, StopStep

-----------------------------------------------------------------------------
(* IInv is an invariant.                                                   *)
(* It holds at the start.                                                  *)
LEMMA InitInv == Init => IInv
<1> SUFFICES ASSUME Init PROVE IInv
  OBVIOUS
<1>1. TypeInv
  <2>1. <<>> \in Seq(Event) /\ EmptyIndex \in [Paths -> Entry]
    BY DEF EmptyIndex, Entry
  <2>2. AtMostOne({}) /\ "scan" \in Location /\ 0 \in 0 .. MaxChanges
    BY ModeAssumption DEF AtMostOne, Location
  <2>3. [t \in Timers |-> Idle] \in [Timers -> Timer]
    BY IdleType
  <2> QED
    BY <2>1, <2>2, <2>3 DEF Init, TypeInv, Excuse
<1>2. TimerInv /\ ReadOne /\ WakeupInv /\ QuietInv
  BY DEF Init, TimerInv, ReadOne, AtMostOne, WakeupInv, QuietInv, Idle
<1> QED
  BY <1>1, <1>2 DEF IInv

(* Every step keeps it.                                                    *)
LEMMA NextInv == IInv /\ [Next]_vars => IInv'
  BY TypeStep, TimerStepInv, ReadOneStep, WakeupStep, QuietStep DEF IInv

(* The inductive invariant holds in every state.                           *)
THEOREM IndexInvariance == Spec => []IInv
  BY InitInv, NextInv, PTL DEF Spec

(* Every variable has its type, the handle is a timer that has yet to      *)
(* flush, and entries are read by running flushes only.                    *)
THEOREM IndexTypeCorrect == Spec => []TypeOK
<1>1. IInv => TypeOK
  <2> SUFFICES ASSUME IInv PROVE TypeOK
    OBVIOUS
  <2>1. Cardinality(handling) <= 1 /\ Cardinality(handle) <= 1
    BY AtMostOneCardinality DEF IInv, TypeInv
  <2> QED
    BY <2>1 DEF IInv, TypeInv, TimerInv, TypeOK
<1> QED
  BY <1>1, IndexInvariance, PTL

(* A pending path always has a timer that will flush it.                   *)
THEOREM NobodyLeftWaiting == Spec => []NoLostWakeup
<1>1. IInv => NoLostWakeup
  BY DEF IInv, WakeupInv, NoLostWakeup
<1> QED
  BY <1>1, IndexInvariance, PTL

-----------------------------------------------------------------------------
(* Settled paths agree.                                                    *)

(* A change keeps what is known of the other files; a changed file is one  *)
(* nobody is told of, or the change is queued.                             *)
LEMMA ChangeAgrees ==
  ASSUME IInv, AgreeInv, NEW kind \in {"changed", "moved"}, NEW p \in Paths,
         NEW new, kind = "changed" => DOMAIN new = {p}, Change(kind, new, p)
  PROVE  AgreeInv'
<1>1. \A q \in Paths : Queued(q) => Queued(q)'
  BY NotifyFacts DEF Change, Queued, IInv
<1>2. ASSUME NEW q \in Paths, untold'[q] \in {"no", "reread"}
      PROVE  \/ vault'[q] = vault[q] /\ untold'[q] = untold[q]
             \/ watching /\ Queued(q)'
  <2>1. CASE q \notin DOMAIN new
    BY <2>1 DEF Change, IInv, TypeInv
  <2>2. CASE q \in DOMAIN new
    <3>1. watching /\ kind = "changed"
      BY <2>2, <1>2 DEF Change, Told
    <3> QED
      BY <2>2, <3>1, NotifyFacts DEF Change, Queued, IInv
  <2> QED
    BY <2>1, <2>2
<1>3. \A q \in Paths : InFlight(q) => InFlight(q)'
  BY <1>1 DEF InFlight, Change
<1>4. ScanInv'
  BY <1>1, <1>2 DEF AgreeInv, ScanInv, Change, IInv, QuietInv
<1>5. ReadInv'
  <2> SUFFICES ASSUME main = "serving", NEW t \in Timers, NEW x \in timers[t].read,
                      untold'[x.path] = "no", ~ToRead(x.path)'
               PROVE  x.entry = Parsed(vault'[x.path])
    BY DEF ReadInv, Change
  <2>1. x.path \in Paths
    BY DEF IInv, TypeInv, Timer
  <2> QED
    BY <1>1, <1>2, <2>1 DEF AgreeInv, ReadInv, ToRead, Change
<1>6. EntryInv'
  BY <1>2, <1>3 DEF AgreeInv, EntryInv, Change, Agrees, InFlight
<1> QED
  BY <1>4, <1>5, <1>6 DEF AgreeInv

(* So does every other step.                                               *)
LEMMA AgreeStep ==
  ASSUME IInv, AgreeInv, [Next]_vars
  PROVE  AgreeInv'
<1>0. ASSUME vault' = vault, index' = index, untold' = untold, main' = main,
             toScan' = toScan, newIndex' = newIndex,
             \A q \in Paths : Queued(q) => Queued(q)',
             \A t \in Timers : timers'[t].work = timers[t].work
                               /\ timers'[t].read = timers[t].read
      PROVE  AgreeInv'
  <2>1. \A q \in Paths : InFlight(q) => InFlight(q)'
    BY <1>0 DEF InFlight
  <2>2. ScanInv' /\ EntryInv'
    BY <1>0, <2>1 DEF AgreeInv, ScanInv, EntryInv, Agrees
  <2>3. \A t \in Timers : \A x \in timers[t].read : x.path \in Paths
    BY DEF IInv, TypeInv, Timer
  <2>4. ReadInv'
    BY <1>0, <2>3 DEF AgreeInv, ReadInv, ToRead
  <2> QED
    BY <2>2, <2>4 DEF AgreeInv
<1>1. CASE UNCHANGED vars
  BY <1>0, <1>1 DEF vars, Queued
<1>2. CASE ScanFile
  <2>1. PICK p \in toScan :
          /\ toScan' = toScan \ {p}
          /\ newIndex' = [newIndex EXCEPT ![p] = Parsed(vault[p])]
          /\ untold' = [untold EXCEPT ![p] = IF @ = "no" THEN "no" ELSE "reread"]
    BY <1>2 DEF ScanFile
  <2>2. main' = main /\ main \in {"scan", "rescan"} /\ vault' = vault
        /\ p \in Paths /\ \A q \in Paths \ {p} : untold'[q] = untold[q]
    BY <1>2, <2>1 DEF ScanFile, IInv, TypeInv
  <2>3. ScanInv'
    BY <2>1, <2>2 DEF AgreeInv, ScanInv, IInv, TypeInv
  <2>4. ReadInv'
    BY <2>2 DEF ReadInv
  <2>5. \A q \in Paths : untold'[q] = "no" => untold[q] = "no"
    BY <2>1, <2>2 DEF IInv, TypeInv
  <2>6. EntryInv'
    BY <1>2, <2>5 DEF ScanFile, AgreeInv, EntryInv, InFlight, Queued, Agrees
  <2> QED
    BY <2>3, <2>4, <2>6 DEF AgreeInv
<1>3. CASE StartObserver
  BY <1>3 DEF StartObserver, AgreeInv, ScanInv, ReadInv, EntryInv
<1>4. CASE InstallScan
  <2>1. \A t \in Timers : timers'[t].read = {}
    BY <1>4 DEF InstallScan, IInv, QuietInv, TimerInv
  <2>2. ASSUME NEW q \in Paths, untold'[q] = "no", ~InFlight(q)'
        PROVE  newIndex[q] = Parsed(vault[q])
    <3>1. untold[q] \in {"no", "reread"}
      BY <1>4, <2>2 DEF InstallScan
    <3>2. ~Queued(q)
      BY <1>4, <2>2 DEF InstallScan, InFlight, Queued
    <3> QED
      BY <1>4, <3>1, <3>2 DEF InstallScan, AgreeInv, ScanInv
  <2>3. EntryInv'
    BY <1>4, <2>2 DEF InstallScan, EntryInv, Agrees
  <2> QED
    BY <1>4, <2>1, <2>3 DEF InstallScan, AgreeInv, ScanInv, ReadInv
<1>5. CASE StartFails
  BY <1>5 DEF StartFails, AgreeInv, ScanInv, ReadInv, EntryInv
<1>6. CASE Rebuild
  BY <1>6 DEF Rebuild, AgreeInv, ScanInv, ReadInv, EntryInv, InFlight, Queued,
              Agrees
<1>7. CASE RebuildFails
  <2>1. \A t \in Timers : timers[t].read = {}
    BY <1>7 DEF RebuildFails, IInv, QuietInv, TimerInv
  <2>2. \A q \in Paths : untold'[q] = "no" => untold[q] = "no"
    BY <1>7 DEF RebuildFails
  <2> QED
    BY <1>7, <2>1, <2>2
    DEF RebuildFails, AgreeInv, ScanInv, ReadInv, EntryInv, InFlight, Queued, Agrees
<1>8. ASSUME NEW p \in Paths, VaultChange(p)
      PROVE  AgreeInv'
  <2>1. CASE EditInPlace(p)
    <3>1. PICK c \in Content : Change("changed", [q \in {p} |-> c], p)
      BY <2>1 DEF EditInPlace
    <3>2. DOMAIN [q \in {p} |-> c] = {p}
      OBVIOUS
    <3> QED
      BY <3>1, <3>2, ChangeAgrees
  <2>2. CASE ~EditInPlace(p)
    <3>1. PICK q \in Paths : \E new : Change("moved", new, q)
      BY <1>8, <2>2 DEF VaultChange, WriteFileAtomic, MovePath, DeletePath
    <3>2. PICK new : Change("moved", new, q)
      BY <3>1
    <3> QED
      BY <3>2, ChangeAgrees
  <2> QED
    BY <2>1, <2>2
<1>9. CASE DispatchEvent
  <2>1. ASSUME NEW q \in Paths, Queued(q)
        PROVE  Queued(q)'
    <3>1. CASE Head(events) = [kind |-> "changed", path |-> q]
      BY <1>9, <3>1 DEF DispatchEvent, Accepted, Queued
    <3>2. CASE Head(events) # [kind |-> "changed", path |-> q]
      BY <1>9, <2>1, <3>2, TakeFacts DEF DispatchEvent, Queued, IInv
    <3> QED
      BY <3>1, <3>2
  <2> QED
    BY <1>0, <1>9, <2>1 DEF DispatchEvent
<1>10. CASE ScheduleDebounce
  <2>1. PICK p \in handling, t \in Timers \ captured :
          /\ timers[t].state = "free"
          /\ pending' = pending \cup {p}
          /\ timers' = [Cancelled(handle) EXCEPT
                          ![t] = [Idle EXCEPT !.state = "armed"]]
          /\ handling' = {}
    BY <1>10, ScheduleFacts DEF IInv
  <2>2. timers'[t].work = {} /\ timers'[t].read = {}
    BY <2>1, CancelledType DEF Idle, IInv
  <2>3. ASSUME NEW u \in Timers
        PROVE  timers'[u].work = timers[u].work /\ timers'[u].read = timers[u].read
    <3>1. CASE u = t
      BY <2>1, <2>2, <3>1 DEF IInv, TimerInv
    <3>2. CASE u # t /\ timers'[u] = timers[u]
      BY <3>2
    <3>3. CASE u # t /\ timers[u].state = "armed" /\ timers'[u] = Idle
      BY <3>3 DEF IInv, TimerInv, Idle
    <3>4. u # t => timers'[u] = Cancelled(handle)[u]
      BY <2>1, CancelledType DEF IInv
    <3> QED
      BY <3>1, <3>2, <3>3, <3>4, CancelledType DEF IInv
  <2>4. \A q \in Paths : Queued(q) => Queued(q)'
    BY <1>10, <2>1 DEF ScheduleDebounce, Queued, IInv, TypeInv, AtMostOne
  <2> QED
    BY <1>0, <1>10, <2>3, <2>4 DEF ScheduleDebounce
<1>11. ASSUME NEW t \in Timers, TimerStep(t)
       PROVE  AgreeInv'
  <2>0. /\ main' = main /\ vault' = vault
        /\ main \notin {"scan", "rescan", "install"}
    BY <1>11 DEF TimerStep, Expire, FlushPending, FlushRead, FlushInstall,
                 IInv, QuietInv, TimerInv
  <2>1. CASE Expire(t)
    <3>1. \A u \in Timers : timers'[u].work = timers[u].work
                            /\ timers'[u].read = timers[u].read
      BY <2>1 DEF Expire, IInv, TypeInv, Timer
    <3> QED
      BY <1>0, <2>1, <3>1 DEF Expire, Queued
  <2>2. CASE FlushPending(t)
    <3>1. \A u \in Timers \ {t} : timers'[u].work = timers[u].work
                                  /\ timers'[u].read = timers[u].read
      BY <2>2 DEF FlushPending, IInv
    <3>2. timers'[t] = IF pending = {} THEN Idle
                       ELSE [Idle EXCEPT !.state = "running", !.work = pending]
      BY <2>2 DEF FlushPending, IInv, TypeInv
    <3>3. timers'[t].work = pending /\ timers'[t].read = {}
      BY <3>2 DEF Idle
    <3>4. timers[t].work = {} /\ timers[t].read = {}
      BY <2>2 DEF FlushPending, IInv, TimerInv
    <3>5. \A q \in Paths : /\ ToRead(q) => ToRead(q)'
                           /\ InFlight(q) => InFlight(q)'
      BY <2>2, <3>1, <3>3, <3>4 DEF FlushPending, InFlight, ToRead, Queued, Snapshot
    <3>6. ReadInv'
      <4> SUFFICES ASSUME main = "serving", NEW u \in Timers, NEW x \in timers'[u].read,
                          untold[x.path] = "no", ~ToRead(x.path)'
                   PROVE  x.entry = Parsed(vault[x.path])
        BY <2>0, <2>2 DEF ReadInv, FlushPending
      <4>1. x \in timers[u].read
        BY <3>1, <3>3
      <4>2. x.path \in Paths
        BY <4>1 DEF IInv, TypeInv, Timer
      <4> QED
        BY <3>5, <4>1, <4>2 DEF AgreeInv, ReadInv
    <3>7. EntryInv'
      BY <2>0, <2>2, <3>5 DEF FlushPending, AgreeInv, EntryInv, Agrees
    <3> QED
      BY <2>0, <3>6, <3>7 DEF AgreeInv, ScanInv
  <2>3. CASE FlushRead(t)
    <3>1. PICK p \in timers[t].work :
            /\ timers' = [timers EXCEPT
                            ![t].work = @ \ {p},
                            ![t].read = {[path |-> p, entry |-> Parsed(vault[p])]}]
            /\ untold' = [untold EXCEPT
                            ![p] = IF HeldElsewhere(p, t) THEN "overtaken" ELSE "no"]
      BY <2>3 DEF FlushRead
    <3>2. \A u \in Timers \ {t} : timers'[u] = timers[u]
      BY <3>1 DEF IInv, TypeInv
    <3>3. /\ timers'[t].work = timers[t].work \ {p}
          /\ timers'[t].read = {[path |-> p, entry |-> Parsed(vault[p])]}
      BY <3>1 DEF IInv, TypeInv, Timer
    <3>4. timers[t].read = {}
      BY <2>3 DEF FlushRead
    <3>5. \A q \in Paths : Queued(q)' <=> Queued(q)
      BY <2>3 DEF FlushRead, Queued
    <3>6. ASSUME NEW q \in Paths, InFlight(q)
          PROVE  InFlight(q)'
      <4>1. CASE q \in timers[t].work
        <5>1. q \in timers'[t].work \cup {x.path : x \in timers'[t].read}
          BY <3>3, <4>1
        <5> QED
          BY <5>1 DEF InFlight
      <4>2. CASE q \notin timers[t].work
        BY <3>2, <3>4, <3>5, <3>6, <4>2 DEF InFlight
      <4> QED
        BY <4>1, <4>2
    <3>7. p \in Paths /\ \A q \in Paths \ {p} : untold'[q] = untold[q]
      BY <3>1 DEF IInv, TypeInv, Timer
    <3>8. ReadInv'
      <4> SUFFICES ASSUME main = "serving", NEW u \in Timers, NEW x \in timers'[u].read,
                          untold'[x.path] = "no", ~ToRead(x.path)'
                   PROVE  x.entry = Parsed(vault[x.path])
        BY <2>0 DEF ReadInv
      <4>1. CASE u = t
        BY <3>3, <4>1
      <4>2. CASE u # t /\ x.path = p
        <5>1. HeldElsewhere(p, t)
          BY <3>2, <4>2 DEF HeldElsewhere
        <5>2. untold'[p] = "overtaken"
          BY <3>1, <3>7, <5>1 DEF IInv, TypeInv
        <5> QED
          BY <4>2, <5>2
      <4>3. CASE u # t /\ x.path # p
        <5>1. x \in timers[u].read /\ x.path \in Paths
          BY <3>2, <4>3 DEF IInv, TypeInv, Timer
        <5>2. untold[x.path] = "no"
          BY <3>7, <4>3, <5>1
        <5>3. ToRead(x.path) => ToRead(x.path)'
          BY <3>2, <3>3, <3>5, <4>3, <5>1 DEF ToRead
        <5> QED
          BY <5>1, <5>2, <5>3 DEF AgreeInv, ReadInv
      <4> QED
        BY <4>1, <4>2, <4>3
    <3>9. InFlight(p)'
      <4>1. p \in {x.path : x \in timers'[t].read}
        BY <3>3
      <4> QED
        BY <4>1 DEF InFlight
    <3>10. EntryInv'
      BY <2>0, <2>3, <3>6, <3>7, <3>9 DEF FlushRead, AgreeInv, EntryInv, Agrees
    <3> QED
      BY <2>0, <3>8, <3>10 DEF AgreeInv, ScanInv
  <2>4. CASE FlushInstall(t)
    <3>1. PICK x \in timers[t].read : index' = Updated(x)
      BY <2>4 DEF FlushInstall
    <3>2. x.path \in Paths /\ timers[t].read = {x}
      BY <3>1 DEF IInv, TypeInv, Timer, ReadOne, AtMostOne
    <3>3. \A u \in Timers \ {t} : timers'[u].work = timers[u].work
                                  /\ timers'[u].read = timers[u].read
      BY <2>4 DEF FlushInstall, IInv
    <3>4. timers'[t] = IF timers[t].work = {} THEN Idle
                       ELSE [timers[t] EXCEPT !.read = {}]
      BY <2>4 DEF FlushInstall, IInv, TypeInv
    <3>5. timers'[t].work = timers[t].work /\ timers'[t].read = {}
      <4>1. timers[t] \in Timer
        BY DEF IInv, TypeInv
      <4>2. CASE timers[t].work = {}
        BY <3>4, <4>2 DEF Idle
      <4>3. CASE timers[t].work # {}
        BY <3>4, <4>1, <4>3 DEF Timer
      <4> QED
        BY <4>2, <4>3
    <3>6. \A q \in Paths : Queued(q)' <=> Queued(q)
      BY <2>4 DEF FlushInstall, Queued
    <3>7. ReadInv'
      <4> SUFFICES ASSUME main = "serving", NEW u \in Timers, NEW y \in timers'[u].read,
                          untold[y.path] = "no", ~ToRead(y.path)'
                   PROVE  y.entry = Parsed(vault[y.path])
        BY <2>0, <2>4 DEF ReadInv, FlushInstall
      <4>1. y \in timers[u].read
        BY <3>3, <3>5
      <4>2. y.path \in Paths
        BY <4>1 DEF IInv, TypeInv, Timer
      <4>3. ToRead(y.path) => ToRead(y.path)'
        BY <3>3, <3>5, <3>6, <4>2 DEF ToRead
      <4> QED
        BY <4>1, <4>2, <4>3 DEF AgreeInv, ReadInv
    <3>8. ASSUME NEW q \in Paths, main = "serving", untold[q] = "no", ~InFlight(q)'
          PROVE  index'[q] = Parsed(vault[q])
      <4>1. ~Queued(q) /\ ~ToRead(q)
        BY <3>3, <3>5, <3>6, <3>8 DEF InFlight, ToRead
      <4>2. CASE q = x.path
        BY <3>1, <3>2, <3>8, <4>1, <4>2 DEF AgreeInv, ReadInv, Updated, IInv, TypeInv
      <4>3. CASE q # x.path
        <5>1. ~InFlight(q)
          BY <3>2, <3>3, <3>5, <3>8, <4>1, <4>3 DEF InFlight
        <5> QED
          BY <3>1, <3>8, <4>3, <5>1
          DEF AgreeInv, EntryInv, Agrees, Updated, IInv, TypeInv
      <4> QED
        BY <4>2, <4>3
    <3>9. EntryInv'
      BY <2>0, <2>4, <3>8 DEF FlushInstall, EntryInv, Agrees
    <3> QED
      BY <2>0, <3>7, <3>9 DEF AgreeInv, ScanInv
  <2> QED
    BY <1>11, <2>1, <2>2, <2>3, <2>4 DEF TimerStep
<1>12. CASE StopLocked
  BY <1>12 DEF StopLocked, AgreeInv, ScanInv, ReadInv, EntryInv
<1>13. CASE StopStep
  BY <1>13 DEF StopStep, StopTimer, StopObserver, JoinObserver,
               AgreeInv, ScanInv, ReadInv, EntryInv
<1>14. CASE Restart
  BY <1>14 DEF Restart, AgreeInv, ScanInv, ReadInv, EntryInv
<1> QED
  BY <1>1, <1>2, <1>3, <1>4, <1>5, <1>6, <1>7, <1>8, <1>9, <1>10, <1>11,
     <1>12, <1>13, <1>14
  DEF Next

(* The entry of a settled path is what the file says: a file of which no   *)
(* two flushes held an entry at the same time, that was not renamed and    *)
(* was watched when it changed.                                            *)
THEOREM SettledAgrees == Spec => []SettledPathAgrees
<1>1. Init => AgreeInv
  BY DEF Init, AgreeInv, ScanInv, ReadInv, EntryInv
<1>2. IInv /\ AgreeInv /\ [Next]_vars => AgreeInv'
  BY AgreeStep
<1>3. Spec => []AgreeInv
  BY <1>1, <1>2, IndexInvariance, PTL DEF Spec
<1>4. AgreeInv => SettledPathAgrees
  BY DEF AgreeInv, EntryInv, SettledPathAgrees
<1> QED
  BY <1>3, <1>4, PTL
=============================================================================
