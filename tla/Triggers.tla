------------------------------ MODULE Triggers ------------------------------
(***************************************************************************)
(* Everything that sets a run off: the scheduler's and the poller's loops  *)
(* over the tasks, the watcher, and POST /tasks/{id}/start.  Each loop is  *)
(* one goroutine and waits for the run it called, so a run that does not   *)
(* end stops its loop for every task.                                      *)
(*                                                                         *)
(* The question is whether a local change is always followed by a run that *)
(* has seen it, whatever events are lost, debounced or never produced, and *)
(* whether the watcher's table agrees with what the kernel watches.        *)
(***************************************************************************)
EXTENDS Watcher

CONSTANT Starts   \* what a behaviour may start with: the status of the tasks, and
                  \* bounds on changes of the local file system, on Start and Pause
                  \* requests, and on faults (runs that fail, requests that are never
                  \* answered, refused watches, restarts)

ASSUME TriggersAssumption ==
  Starts \subseteq [status : [Tasks -> {"running", "paused"}],
                   budget : [edits : Nat, requests : Nat, faults : Nat]]

VARIABLES tick,         \* tasks the scheduler and the poller have still to visit
          budget        \* what is left of the bounds

runVars == <<status, stamp, job, dirty>>
vars == <<runVars, watcherVars, tick, budget>>

Spend(what) == budget[what] > 0 /\ budget' = [budget EXCEPT ![what] = @ - 1]

----------------------------------------------------------------------------
(* Scheduler.Tick (its first half) and Poller.Tick.                        *)

\* Mutant: a task that has been reconciled once is never due again.
runOnce(t) == stamp[t] = "none"

shouldRun(t)  == stamp[t] # "fresh"
shouldPoll(t) == shouldRun(t)   \* the same rule, on last_remote_scan_at

\* List, and the tasks the loop does not pass over.
TickBegin(g) ==
  /\ tick[g] = <<>> /\ ~Busy(g)
  /\ tick' = [tick EXCEPT ![g] = SelectSeq(Order, LAMBDA t :
                 status[t] \in Schedulable /\ (g = "poller" => Direction[t] # "upload"))]
  /\ UNCHANGED <<runVars, watcherVars, budget>>

\* The loop's next task: its runtime row is read, and it is run if it is due.
Visit(g) ==
  LET t == Head(tick[g])
  IN  /\ tick[g] # <<>> /\ ~Busy(g)
      /\ IF (g = "scheduler" /\ shouldRun(t)) \/ (g = "poller" /\ shouldPoll(t))
         THEN Call(g, t) ELSE NoCall
      /\ tick' = [tick EXCEPT ![g] = Tail(@)]
      /\ UNCHANGED <<watcherVars, budget>>

Loops == {"scheduler", "poller"}

----------------------------------------------------------------------------
(* Requests, servers, users and the process.                               *)

\* The handler goes on with executeTask before it answers.
Start(t) ==
  /\ ~Busy("handler") /\ Spend("requests")
  /\ status' = [status EXCEPT ![t] = "running"]
  /\ job' = [job EXCEPT !["handler"] = [task |-> t, snap |-> "running", covers |-> TRUE,
                                        hung |-> FALSE]]
  /\ stamp' = [stamp EXCEPT ![t] = "none"]
  /\ UNCHANGED <<dirty, watcherVars, tick>>

Pause(t) ==
  /\ Spend("requests")
  /\ status[t] # "paused"
  /\ status' = [status EXCEPT ![t] = "paused"]
  /\ stamp' = [stamp EXCEPT ![t] = "none"]
  /\ UNCHANGED <<job, dirty, watcherVars, tick>>

RunEnds(g)  == Succeed(g) /\ UNCHANGED <<watcherVars, tick, budget>>
RunFails(g) == (Degrade(g) \/ Fail(g)) /\ Spend("faults") /\ UNCHANGED <<watcherVars, tick>>
RunHangs(g) == Hang(g) /\ Spend("faults") /\ UNCHANGED <<watcherVars, tick>>

Edit ==
  /\ \E d \in Dirs : WriteFile(d) \/ MakeDir(d) \/ RemoveDir(d)
  /\ Spend("edits")
  /\ UNCHANGED tick

Watch == WatcherStep /\ UNCHANGED <<tick, budget>>
WatchRefused == Walk(TRUE) /\ Spend("faults") /\ UNCHANGED tick

Time(t) ==
  /\ (IntervalPasses(t) /\ UNCHANGED watcherVars) \/ DebounceOver(t)
  /\ UNCHANGED <<tick, budget>>

\* The process is killed and started again; the tables are as they were.
Restart ==
  /\ Spend("faults")
  /\ WatcherReset
  /\ job' = [g \in Goroutines |-> NoJob]
  /\ tick' = [g \in Loops |-> <<>>]
  /\ UNCHANGED <<status, stamp, dirty, disk>>

----------------------------------------------------------------------------
Init ==
  /\ \E s \in Starts : status = s.status /\ budget = s.budget
  /\ stamp = [t \in Tasks |-> "none"]
  /\ job = [g \in Goroutines |-> NoJob]
  /\ dirty = {}
  /\ disk \in SUBSET Dirs
  /\ \A t \in Tasks : Root[t] \in disk
  /\ \A d \in disk : Parent(d) \in Dirs => Parent(d) \in disk
  /\ WatcherInit
  /\ tick = [g \in Loops |-> <<>>]

Next ==
  \/ \E g \in Loops : TickBegin(g) \/ Visit(g)
  \/ \E g \in Goroutines : RunEnds(g) \/ RunFails(g) \/ RunHangs(g)
  \/ \E t \in Tasks : Start(t) \/ Pause(t)
  \/ Watch \/ WatchRefused
  \/ Edit
  \/ \E t \in Tasks : Time(t)
  \/ Restart

Spec == Init /\ [][Next]_vars

\* Tickers keep ticking, a call that is not hung ends, time passes, and a Go
\* select that finds its ticker ready again and again takes it.
Fairness ==
  /\ \A g \in Loops : WF_vars(TickBegin(g)) /\ WF_vars(Visit(g))
  /\ \A g \in Goroutines : WF_vars(RunEnds(g))
  /\ \A t \in Tasks : WF_vars(Time(t))
  /\ WF_vars(Watch)
  /\ SF_vars(ReconcileBegin /\ UNCHANGED <<tick, budget>>)

FairSpec == Spec /\ Fairness

----------------------------------------------------------------------------
(* Properties.                                                             *)

\* The watcher knows every watch the kernel holds, so that it can release it,
\* and it believes in a watch the kernel does not hold only for a directory
\* that was removed after it had been added (reconcile, Add, Remove).
TableAgrees == kernel \subseteq watched /\ watched \ kernel \subseteq removed

\* A server keeps g waiting.
Hung(g) == job[g].hung

\* Unless the scheduler itself waits for an answer that never comes, every change
\* below the root of a task is followed by a successful run that scanned the tree
\* after the change, as long as the task is in service: events that are debounced,
\* dropped or never produced are made up for by the scheduler, and so is a watcher,
\* a poller or a request that hangs.
ChangeIsSeen ==
  []<>~Hung("scheduler") =>
    \A t \in Tasks : t \in dirty ~> (t \notin dirty \/ status[t] \in Dormant)

\* Unless the watcher hangs, a directory keeps no watch if it is below the roots of
\* such tasks only that stay out of running, even if another task is running whose
\* root is above, below or beside theirs: the kernel's watches are a limited resource.
WatchesReleased ==
  \A d \in Dirs :
    <>[](\A t \in Tasks : Above(t, d) => status[t] # "running") /\ []<>~Hung("watcher")
      => <>[](d \notin kernel)

\* Every directory that stays below the root of a task that stays running is
\* watched in the end.
DirectoriesWatched ==
  \A t \in Tasks, d \in Dirs :
    <>[](d \in disk /\ Above(t, d) /\ status[t] = "running") /\ []<>~Hung("watcher")
      => <>[](d \in kernel)
=============================================================================
