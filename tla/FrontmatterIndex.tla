--------------------------- MODULE FrontmatterIndex ---------------------------
(***************************************************************************)
(* The frontmatter index of the vault's MCP server: the initial scan, the  *)
(* file watcher, the debounce timer and the flush that re-reads changed    *)
(* files, the synchronous rebuild of test mode, and stop.                  *)
(*                                                                         *)
(* Four kinds of thread meet here: the main thread (start, serve, stop),   *)
(* watchdog's dispatcher, one thread per threading.Timer, and whoever else *)
(* writes into the vault.  A step is what a thread does between two looks  *)
(* at shared state: one "with self._lock" block, one look at a file, one   *)
(* change to a file, one call that another thread can observe.             *)
(***************************************************************************)
EXTENDS Naturals, FiniteSets, Sequences, SequencesExt

CONSTANTS
  Paths,       \* markdown files outside the excluded directories
  Values,      \* frontmatter a file may have
  Broken,      \* a file whose frontmatter cannot be parsed
  NoFile,      \* no file at this path
  NoEntry,     \* no entry in the index
  Timers,      \* threading.Timer objects alive at the same time
  Main,        \* the main thread
  SyncModes,   \* the values of enable_sync_mode to consider
  MaxChanges   \* bound: changes to the vault in a behaviour

ASSUME NullAssumption ==
  /\ {Broken, NoFile, NoEntry} \cap Values = {}
  /\ Broken # NoFile
  /\ Main \notin Timers
ASSUME ModeAssumption ==
  /\ SyncModes \subseteq BOOLEAN
  /\ MaxChanges \in Nat

VARIABLES
  vault,     \* what is on disk, by path
  syncMode,  \* _sync_mode
  main,      \* where the main thread is
  toScan,    \* files the scan has yet to look at
  newIndex,  \* new_index of a scan under way
  index,     \* _index
  watching,  \* the observer is started and not stopped
  events,    \* watchdog's queue
  handling,  \* the path the dispatcher is about to schedule (at most one)
  pending,   \* _pending_paths
  handle,    \* _debounce_timer (at most one)
  captured,  \* the timer stop() is about to cancel (at most one)
  timers,    \* the Timer threads
  changes,   \* number of changes so far
  untold     \* history: why the entry of a path need not follow the file

vars == <<vault, syncMode, main, toScan, newIndex, index, watching, events,
          handling, pending, handle, captured, timers, changes, untold>>

-----------------------------------------------------------------------------
Content == Values \cup {Broken, NoFile}
Entry == Values \cup {NoEntry}
EmptyIndex == [p \in Paths |-> NoEntry]

(* A missing file and one that fails to parse have no entry.               *)
Parsed(content) == IF content \in Values THEN content ELSE NoEntry

Event == [kind : {"changed", "moved"}, path : Paths]

(* A timer waits (armed), has waited (fired) or runs _flush_pending, with  *)
(* work left and at most one entry read and not yet installed.             *)
Timer == [state : {"free", "armed", "fired", "running"},
          work : SUBSET Paths,
          read : SUBSET [path : Paths, entry : Entry]]

Idle == [state |-> "free", work |-> {}, read |-> {}]

(* Why an entry need not follow its file: nothing watched when it changed, *)
(* it was renamed, or two flushes read it at the same time.  reread: the   *)
(* scan has seen the change; it counts once the scan is installed.         *)
Excuse == {"no", "reread", "unwatched", "rename", "overtaken"}

Location == {"scan", "install", "serving", "rescan",
             "cancelling", "unwatching", "joining", "stopped", "failed"}

(* Mutant of LockHeldAt: stop() joins the observer inside its with block.  *)
LockedToTheEnd == {"cancelling", "unwatching", "joining"}

(* The lock is only held within a with block, which is one step: there is  *)
(* no location at which the main thread sits on it.                        *)
LockHeldAt == {}
LockFree == main \notin LockHeldAt

-----------------------------------------------------------------------------
(* The scan of start() and of rebuild(): one look at each file.            *)

ScanFile ==
  /\ main \in {"scan", "rescan"}
  /\ \E p \in toScan :
       /\ toScan' = toScan \ {p}
       /\ newIndex' = [newIndex EXCEPT ![p] = Parsed(vault[p])]
       /\ untold' = [untold EXCEPT ![p] = IF @ = "no" THEN "no" ELSE "reread"]
  /\ UNCHANGED <<vault, syncMode, main, index, watching, events, handling,
                 pending, handle, captured, timers, changes>>

(* The watcher is started after the scan; never in sync mode.              *)
StartObserver ==
  /\ main = "scan" /\ toScan = {} /\ ~syncMode
  /\ watching' = TRUE
  /\ main' = "install"
  /\ UNCHANGED <<vault, syncMode, toScan, newIndex, index, events, handling,
                 pending, handle, captured, timers, changes, untold>>

InstallScan ==
  /\ \/ main = "install"
     \/ main \in {"scan", "rescan"} /\ toScan = {} /\ syncMode
  /\ LockFree
  /\ index' = newIndex
  /\ newIndex' = EmptyIndex
  /\ main' = "serving"
  /\ untold' = [p \in Paths |-> IF untold[p] = "reread" THEN "no" ELSE untold[p]]
  /\ UNCHANGED <<vault, syncMode, toScan, watching, events, handling,
                 pending, handle, captured, timers, changes>>

(* The scan or the observer raises: the observer is stopped and the server *)
(* never gets to serve.                                                    *)
StartFails ==
  /\ main = "scan"
  /\ main' = "failed"
  /\ UNCHANGED <<vault, syncMode, toScan, newIndex, index, watching, events,
                 handling, pending, handle, captured, timers, changes, untold>>

(* The vault_reindex_frontmatter_sync tool, which exists in sync mode only. *)
Rebuild ==
  /\ main = "serving" /\ syncMode
  /\ main' = "rescan"
  /\ toScan' = Paths
  /\ newIndex' = EmptyIndex
  /\ UNCHANGED <<vault, syncMode, index, watching, events, handling,
                 pending, handle, captured, timers, changes, untold>>

(* The scan raises: the tool fails and the old index stays.                *)
RebuildFails ==
  /\ main = "rescan"
  /\ main' = "serving"
  /\ toScan' = {}
  /\ newIndex' = EmptyIndex
  /\ untold' = [p \in Paths |->
                  IF untold[p] = "reread" THEN "unwatched" ELSE untold[p]]
  /\ UNCHANGED <<vault, syncMode, index, watching, events, handling,
                 pending, handle, captured, timers, changes>>

-----------------------------------------------------------------------------
(* Changes to the vault, and what watchdog makes of them.  Its queue drops *)
(* an event equal to the last one still in it.                             *)

Notify(kind, p) ==
  LET e == [kind |-> kind, path |-> p] IN
  events' = IF ~watching \/ (events # <<>> /\ Last(events) = e)
            THEN events ELSE Append(events, e)

(* Nobody is told of a change made while nothing watches, nor by a rename. *)
Told(kind) ==
  IF ~watching THEN "unwatched" ELSE IF kind = "moved" THEN "rename" ELSE "no"

Change(kind, new, p) ==
  /\ changes < MaxChanges
  /\ changes' = changes + 1
  /\ vault' = [q \in Paths |-> IF q \in DOMAIN new THEN new[q] ELSE vault[q]]
  /\ Notify(kind, p)
  /\ untold' = [q \in Paths |->
                  IF q \in DOMAIN new THEN Told(kind) ELSE untold[q]]
  /\ UNCHANGED <<syncMode, main, toScan, newIndex, index, watching, handling,
                 pending, handle, captured, timers>>

(* Another program creates, rewrites or removes a file in place.           *)
EditInPlace(p) ==
  \E c \in Content \ {vault[p]} : Change("changed", [q \in {p} |-> c], p)

(* write_file_atomic puts a temporary file in the place of the old one; so *)
(* do the editors that save by renaming, at any time.                      *)
WriteFileAtomic(p) ==
  \E c \in (Content \ {NoFile}) \ {vault[p]} :
    Change("moved", [q \in {p} |-> c], p)

(* Tools run on the server's event loop, one at a time, so never during a  *)
(* rebuild.                                                                *)
MovePath(p) ==
  /\ main = "serving"
  /\ vault[p] # NoFile
  /\ \E dst \in Paths :
       /\ vault[dst] = NoFile
       /\ Change("moved", [q \in {p, dst} |-> IF q = p THEN NoFile ELSE vault[p]],
                 dst)

DeletePath(p) ==
  /\ main = "serving"
  /\ vault[p] # NoFile
  /\ Change("moved", [q \in {p} |-> NoFile], p)

-----------------------------------------------------------------------------
(* The dispatcher thread.  _handle schedules what was created, modified or *)
(* deleted; on_moved only writes to the log.                               *)

(* Mutant of Accepted: events are dropped while a debounce is under way.   *)
AcceptedWhenIdle(e) ==
  {p \in {e.path} : e.kind = "changed" /\ handle = {}}

Accepted(e) == {p \in {e.path} : e.kind = "changed"}

DispatchEvent ==
  /\ watching /\ handling = {} /\ events # <<>>
  /\ handling' = Accepted(Head(events))
  /\ events' = Tail(events)
  /\ UNCHANGED <<vault, syncMode, main, toScan, newIndex, index, watching,
                 pending, handle, captured, timers, changes, untold>>

(* Timer.cancel(): in vain once the timer has waited its time.             *)
Cancelled(set) ==
  [t \in Timers |-> IF t \in set /\ timers[t].state = "armed"
                    THEN Idle ELSE timers[t]]

ScheduleDebounce ==
  /\ LockFree
  /\ \E p \in handling :
       LET unused == {u \in Timers \ captured : timers[u].state = "free"}
           t == CHOOSE u \in unused : TRUE
       IN /\ unused # {}
          /\ pending' = pending \cup {p}
          /\ timers' = [Cancelled(handle) EXCEPT
                          ![t] = [Idle EXCEPT !.state = "armed"]]
          /\ handle' = {t}
  /\ handling' = {}
  /\ UNCHANGED <<vault, syncMode, main, toScan, newIndex, index, watching,
                 events, captured, changes, untold>>

-----------------------------------------------------------------------------
(* The Timer threads.                                                      *)

(* The debounce has passed.  It lasts five seconds, which the stretch from  *)
(* starting the observer to the install of the scan is taken not to.       *)
Expire(t) ==
  /\ timers[t].state = "armed"
  /\ main # "install"
  /\ timers' = [timers EXCEPT ![t].state = "fired"]
  /\ UNCHANGED <<vault, syncMode, main, toScan, newIndex, index, watching,
                 events, handling, pending, handle, captured, changes, untold>>

(* Mutants of Snapshot: a set or the handle is not reset.                  *)
SnapshotKeepsPaths == pending' = pending /\ handle' = {}
SnapshotKeepsHandle == pending' = {} /\ handle' = handle

(* _flush_pending empties the set and forgets the current timer, which     *)
(* need not be the one that runs: that other timer is then out of reach of *)
(* every cancel, and its flush may overlap this one.                       *)
Snapshot == pending' = {} /\ handle' = {}

FlushPending(t) ==
  /\ timers[t].state = "fired"
  /\ LockFree
  /\ timers' = [timers EXCEPT
                  ![t] = IF pending = {} THEN Idle
                         ELSE [Idle EXCEPT !.state = "running", !.work = pending]]
  /\ Snapshot
  /\ UNCHANGED <<vault, syncMode, main, toScan, newIndex, index, watching,
                 events, handling, captured, changes, untold>>

(* Another flush holds an entry of p that it has yet to install.           *)
HeldElsewhere(p, t) ==
  \E u \in Timers \ {t} : \E r \in timers[u].read : r.path = p

(* exists() and the parse, outside the lock.  Of two flushes that hold an  *)
(* entry of the same file the one that read first may install last.        *)
FlushRead(t) ==
  /\ timers[t].state = "running" /\ timers[t].read = {}
  /\ \E p \in timers[t].work :
       /\ timers' = [timers EXCEPT
                       ![t].work = @ \ {p},
                       ![t].read = {[path |-> p, entry |-> Parsed(vault[p])]}]
       /\ untold' = [untold EXCEPT
                       ![p] = IF HeldElsewhere(p, t) THEN "overtaken" ELSE "no"]
  /\ UNCHANGED <<vault, syncMode, main, toScan, newIndex, index, watching,
                 events, handling, pending, handle, captured, changes>>

(* Mutant of Updated: a file that no longer parses keeps its entry.        *)
UpdatedIfParsed(r) ==
  IF r.entry = NoEntry THEN index ELSE [index EXCEPT ![r.path] = r.entry]

Updated(r) == [index EXCEPT ![r.path] = r.entry]

FlushInstall(t) ==
  /\ LockFree
  /\ \E r \in timers[t].read : index' = Updated(r)
  /\ timers' = [timers EXCEPT
                  ![t] = IF timers[t].work = {} THEN Idle
                         ELSE [timers[t] EXCEPT !.read = {}]]
  /\ UNCHANGED <<vault, syncMode, main, toScan, newIndex, watching, events,
                 handling, pending, handle, captured, changes, untold>>

-----------------------------------------------------------------------------
(* stop(): under the lock the fields are emptied; then, without it, the    *)
(* timer is cancelled, the observer told to stop, and its thread joined.   *)

StopLocked ==
  /\ main = "serving"
  /\ captured' = handle
  /\ handle' = {}
  /\ pending' = {}
  /\ main' = "cancelling"
  /\ UNCHANGED <<vault, syncMode, toScan, newIndex, index, watching, events,
                 handling, timers, changes, untold>>

StopTimer ==
  /\ main = "cancelling"
  /\ timers' = Cancelled(captured)
  /\ captured' = {}
  /\ main' = "unwatching"
  /\ UNCHANGED <<vault, syncMode, toScan, newIndex, index, watching, events,
                 handling, pending, handle, changes, untold>>

(* The dispatcher sees the request to stop before its next event, or after *)
(* one more if it was already waiting for that.                            *)
StopObserver ==
  /\ main = "unwatching"
  /\ watching' = FALSE
  /\ events' = <<>>
  /\ \/ UNCHANGED handling
     \/ /\ watching /\ handling = {} /\ events # <<>>
        /\ handling' = Accepted(Head(events))
  /\ main' = "joining"
  /\ UNCHANGED <<vault, syncMode, toScan, newIndex, index, pending, handle,
                 captured, timers, changes, untold>>

JoinObserver ==
  /\ main = "joining"
  /\ handling = {}
  /\ main' = "stopped"
  /\ UNCHANGED <<vault, syncMode, toScan, newIndex, index, watching, events,
                 handling, pending, handle, captured, timers, changes, untold>>

-----------------------------------------------------------------------------
Init ==
  /\ vault \in [Paths -> Content]
  /\ syncMode \in SyncModes
  /\ main = "scan"
  /\ toScan = Paths
  /\ newIndex = EmptyIndex
  /\ index = EmptyIndex
  /\ watching = FALSE
  /\ events = <<>>
  /\ handling = {}
  /\ pending = {}
  /\ handle = {}
  /\ captured = {}
  /\ timers = [t \in Timers |-> Idle]
  /\ changes = 0
  /\ untold = [p \in Paths |-> "no"]

(* The process ends or is killed, and its container is started again.      *)
Restart ==
  /\ main' = "scan"
  /\ toScan' = Paths
  /\ newIndex' = EmptyIndex
  /\ index' = EmptyIndex
  /\ watching' = FALSE
  /\ events' = <<>>
  /\ handling' = {}
  /\ pending' = {}
  /\ handle' = {}
  /\ captured' = {}
  /\ timers' = [t \in Timers |-> Idle]
  /\ untold' = [p \in Paths |-> "no"]
  /\ UNCHANGED <<vault, syncMode, changes>>

VaultChange(p) ==
  \/ EditInPlace(p)
  \/ WriteFileAtomic(p)
  \/ MovePath(p)
  \/ DeletePath(p)

TimerStep(t) ==
  \/ Expire(t)
  \/ FlushPending(t)
  \/ FlushRead(t)
  \/ FlushInstall(t)

StopStep ==
  \/ StopTimer
  \/ StopObserver
  \/ JoinObserver

Next ==
  \/ ScanFile
  \/ StartObserver
  \/ InstallScan
  \/ StartFails
  \/ Rebuild
  \/ RebuildFails
  \/ \E p \in Paths : VaultChange(p)
  \/ DispatchEvent
  \/ ScheduleDebounce
  \/ \E t \in Timers : TimerStep(t)
  \/ StopLocked
  \/ StopStep
  \/ Restart

Spec == Init /\ [][Next]_vars

(* The operating system runs every thread that can run and the interpreter *)
(* lock is handed round.  Nothing is assumed of stop, rebuild, restarts or *)
(* whoever edits the vault.                                                *)
Fairness ==
  /\ WF_vars(DispatchEvent)
  /\ WF_vars(ScheduleDebounce)
  /\ WF_vars(StopStep)
  /\ \A t \in Timers : WF_vars(TimerStep(t))

FairSpec == Spec /\ Fairness

-----------------------------------------------------------------------------
(* Every variable has its type; _debounce_timer is a timer that waits or   *)
(* has just waited; what is read is read by a running flush.               *)
TypeOK ==
  /\ vault \in [Paths -> Content]
  /\ syncMode \in SyncModes
  /\ main \in Location
  /\ toScan \subseteq Paths
  /\ newIndex \in [Paths -> Entry]
  /\ index \in [Paths -> Entry]
  /\ watching \in BOOLEAN
  /\ events \in Seq(Event)
  /\ handling \subseteq Paths /\ Cardinality(handling) <= 1
  /\ pending \subseteq Paths
  /\ handle \subseteq Timers /\ Cardinality(handle) <= 1
  /\ captured \subseteq Timers
  /\ timers \in [Timers -> Timer]
  /\ changes \in 0 .. MaxChanges
  /\ untold \in [Paths -> Excuse]
  /\ \A t \in handle : timers[t].state \in {"armed", "fired"}
  /\ \A t \in Timers :
       timers[t].state # "running" => timers[t].work = {} /\ timers[t].read = {}

(* A change of p has yet to be taken up by a flush, or to reach the index. *)
Queued(p) ==
  \/ Contains(events, [kind |-> "changed", path |-> p])
  \/ p \in handling \cup pending

InFlight(p) ==
  \/ Queued(p)
  \/ \E t \in Timers : p \in timers[t].work \cup {r.path : r \in timers[t].read}

Agrees(p) == index[p] = Parsed(vault[p])

(* While the server serves, the entry of a file is what the file says as   *)
(* soon as nothing about it is queued, pending or being read, however      *)
(* scans, edits, cancelled timers and overlapping flushes interleave: for  *)
(* every file but those whose last change was made after the scan's look   *)
(* and before the watch, or by a rename, and those of which two flushes    *)
(* held an entry at the same time; until one flush reads the file alone.   *)
SettledPathAgrees ==
  main = "serving" =>
    \A p \in Paths : untold[p] = "no" /\ ~InFlight(p) => Agrees(p)

(* The same without the exception for renames: what "in-memory index of    *)
(* YAML frontmatter across all vault .md files" says.                      *)
RenamesReachTheIndex ==
  main = "serving" =>
    \A p \in Paths : untold[p] \in {"no", "rename"} /\ ~InFlight(p) => Agrees(p)

(* A pending path always has a timer that will flush it: neither cancelling *)
(* a timer that has fired, nor a flush that forgets a newer timer, nor stop *)
(* leaves a path waiting for nobody.                                       *)
NoLostWakeup ==
  pending # {} => \E t \in Timers : timers[t].state \in {"armed", "fired"}

(* Every change the watcher tells of reaches the index, unless before that *)
(* the file is replaced by a rename, two flushes hold an entry of it at    *)
(* the same time, or the server stops serving.                             *)
IndexCatchesUp ==
  \A p \in Paths :
    main = "serving" /\ untold[p] = "no"
      ~> Agrees(p) \/ untold[p] # "no" \/ main # "serving"

(* stop() returns: joining the observer cannot wait for a thread that      *)
(* waits for the index lock.                                               *)
StopCompletes ==
  main = "cancelling" ~> main \in {"stopped", "scan"}
=============================================================================
