------------------------------- MODULE Watcher -------------------------------
(***************************************************************************)
(* The watcher goroutine: it registers the directories of the running      *)
(* tasks with inotify once per refresh interval, and runs a task when an   *)
(* event arrives from below its root, at most once per debounce interval.  *)
(*                                                                         *)
(* The kernel ("inotify", through fsnotify) is external: it holds a watch  *)
(* on a directory until the directory is removed, and queues the path of   *)
(* an event for every watched directory something happens in, or drops it  *)
(* when the queue is full.                                                 *)
(***************************************************************************)
EXTENDS TaskRuns

CONSTANTS Dirs,       \* directories, as sequences of names
          Root,       \* [Tasks -> Dirs]: local_path of a task
          EventCap    \* bound: events the kernel and the channel hold

ASSUME WatcherAssumption ==
  /\ Dirs \subseteq Seq(STRING)
  /\ Root \in [Tasks -> Dirs]
  /\ EventCap \in Nat \ {0}

VARIABLES disk,       \* directories that exist
          kernel,     \* directories inotify watches
          watched,    \* keys of Watcher.watched
          removed,    \* history: directories that vanished while the watcher had them
          roots,      \* Watcher.roots: the task each active root belongs to
          events,     \* paths of events not yet handled
          recent,     \* tasks triggered less than one debounce interval ago
          loop        \* where Run's loop is

watcherVars == <<disk, kernel, watched, removed, roots, events, recent, loop>>
table == <<watched, removed, roots>>

Select == [pc |-> "select", todo |-> <<>>, active |-> <<>>, hit |-> {}]

Parent(d) == SubSeq(d, 1, Len(d) - 1)
pathWithinRoot(p, root) == Len(root) <= Len(p) /\ SubSeq(p, 1, Len(root)) = root
shouldWatch(t) == status[t] = "running" /\ Direction[t] # "download"

----------------------------------------------------------------------------
(* reconcile                                                               *)

\* The task list is read.
ReconcileBegin ==
  /\ loop.pc = "select"
  /\ loop' = [Select EXCEPT !.pc = "walk", !.todo = SelectSeq(Order, shouldWatch)]
  /\ NoCall
  /\ UNCHANGED <<disk, kernel, table, events, recent>>

listWatchDirs(root) == {d \in disk : pathWithinRoot(d, root)}

\* Mutant: a directory goes into the table though Add failed.
RegisteredAnyway(added, new) ==
  /\ watched' = watched \cup new
  /\ kernel' = kernel \cup added
  /\ removed' = removed \ new

Registered(added, new) ==
  /\ watched' = watched \cup added
  /\ kernel' = kernel \cup added
  /\ removed' = removed \ added

\* One task of the list: its directories that are not in the table are added.
\* full: the kernel refuses some of them.
Walk(full) ==
  LET t   == Head(loop.todo)
      new == listWatchDirs(Root[t]) \ watched
  IN  /\ loop.pc = "walk" /\ loop.todo # <<>>
      /\ \E added \in IF full THEN SUBSET new \ {new} ELSE {new} : Registered(added, new)
      /\ loop' = [loop EXCEPT !.todo = Tail(@), !.active =
                    [r \in DOMAIN @ \cup {Root[t]} |-> IF r = Root[t] THEN t ELSE @[r]]]
      /\ NoCall
      /\ UNCHANGED <<disk, roots, events, recent>>

\* Mutant: nothing is released as long as some root is active.
ReleaseTogether(keep) ==
  IF keep = {} THEN watched' = {} /\ kernel' = {} /\ removed' = {}
  ELSE UNCHANGED <<watched, kernel, removed>>

Release(keep) ==
  /\ watched' = watched \cap keep
  /\ kernel' = kernel \cap keep
  /\ removed' = removed \cap keep

\* Directories below no active root are released.  Whether a directory still
\* exists is not looked at.
Sweep ==
  LET keep == {d \in watched : \E r \in DOMAIN loop.active : pathWithinRoot(d, r)}
  IN  /\ loop.pc = "walk" /\ loop.todo = <<>>
      /\ Release(keep)
      /\ roots' = loop.active
      /\ loop' = Select
      /\ NoCall
      /\ UNCHANGED <<disk, events, recent>>

----------------------------------------------------------------------------
(* handleEvent                                                             *)

EventBegin ==
  /\ loop.pc = "select" /\ events # <<>>
  /\ events' = Tail(events)
  /\ loop' = [Select EXCEPT !.pc = "event",
                !.hit = {r \in DOMAIN roots : pathWithinRoot(Head(events), r)}]
  /\ NoCall
  /\ UNCHANGED <<disk, kernel, table, recent>>

\* One root of the loop over w.roots: the task is run unless it was triggered
\* within the debounce interval.
Trigger(r) ==
  /\ loop.pc = "event" /\ ~Busy("watcher") /\ r \in loop.hit
  /\ loop' = [loop EXCEPT !.hit = @ \ {r}]
  /\ IF roots[r] \in recent
     THEN NoCall /\ UNCHANGED recent
     ELSE Call("watcher", roots[r]) /\ recent' = recent \cup {roots[r]}
  /\ UNCHANGED <<disk, kernel, table, events>>

EventEnd ==
  /\ loop.pc = "event" /\ ~Busy("watcher") /\ loop.hit = {}
  /\ loop' = Select
  /\ NoCall
  /\ UNCHANGED <<disk, kernel, table, events, recent>>

DebounceOver(t) ==
  /\ t \in recent
  /\ recent' = recent \ {t}
  /\ NoCall
  /\ UNCHANGED <<disk, kernel, table, events, loop>>

WatcherStep ==
  \/ ReconcileBegin \/ Walk(FALSE) \/ Sweep
  \/ EventBegin \/ (\E r \in loop.hit : Trigger(r)) \/ EventEnd

----------------------------------------------------------------------------
(* The local file system.                                                  *)

\* An event about p, which the kernel sees if it watches one of ds.
Notify(p, ds) ==
  events' = IF ds \cap kernel # {} /\ Len(events) < EventCap THEN Append(events, p) ELSE events

Above(t, d) == pathWithinRoot(d, Root[t]) /\ Direction[t] # "download"
Touched(d)  == Changed({t \in Tasks : Above(t, d)})

WriteFile(d) ==
  /\ d \in disk
  /\ Notify(d, {d})
  /\ Touched(d)
  /\ UNCHANGED <<disk, kernel, table, recent, loop, status, stamp>>

MakeDir(d) ==
  /\ d \notin disk /\ Parent(d) \in disk
  /\ disk' = disk \cup {d}
  /\ Notify(d, {Parent(d)})
  /\ Touched(d)
  /\ UNCHANGED <<kernel, table, recent, loop, status, stamp>>

\* rm -r of a directory below a root: the kernel drops the watches below it.
RemoveDir(d) ==
  LET gone == {x \in disk : pathWithinRoot(x, d)}
  IN  /\ d \in disk /\ Parent(d) \in disk
      /\ disk' = disk \ gone
      /\ kernel' = kernel \ gone
      /\ removed' = removed \cup (watched \cap gone)
      /\ Notify(d, {d, Parent(d)})
      /\ Touched(d)
      /\ UNCHANGED <<watched, roots, recent, loop, status, stamp>>

\* A process starts with empty tables.
WatcherInit ==
  /\ kernel = {} /\ watched = {} /\ removed = {}
  /\ roots = <<>> /\ events = <<>> /\ recent = {} /\ loop = Select

WatcherReset ==
  /\ kernel' = {} /\ watched' = {} /\ removed' = {}
  /\ roots' = <<>> /\ events' = <<>> /\ recent' = {} /\ loop' = Select
=============================================================================
