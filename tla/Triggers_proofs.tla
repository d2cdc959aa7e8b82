-------------------------- MODULE Triggers_proofs ---------------------------
(***************************************************************************)
(* The watcher's table against the kernel's watches, for any tasks, any    *)
(* directories and any bounds.  TableAgrees is inductive as it stands: the *)
(* actions that do not touch the table are put aside first.                *)
(***************************************************************************)
EXTENDS Triggers, TLAPS

\* Nothing that TableAgrees is about changes.
SameTable == UNCHANGED <<kernel, watched, removed>>

\* The steps of the watcher other than Walk and Sweep leave the table alone.
LEMMA EventSteps ==
  (ReconcileBegin \/ EventBegin \/ EventEnd \/ (\E r \in loop.hit : Trigger(r))) => SameTable
BY DEF ReconcileBegin, EventBegin, EventEnd, Trigger, table, SameTable

\* Registering puts the same directories into both.
LEMMA WalkAgrees ==
  ASSUME TableAgrees, NEW full \in BOOLEAN, Walk(full)
  PROVE  TableAgrees'
<1>1. PICK added, new : Registered(added, new)
  BY DEF Walk
<1> QED BY <1>1 DEF Registered, TableAgrees

\* Releasing takes the same directories out of both.
LEMMA SweepAgrees == TableAgrees /\ Sweep => TableAgrees'
<1> SUFFICES ASSUME TableAgrees, Sweep PROVE TableAgrees'
  OBVIOUS
<1>1. PICK keep : Release(keep)
  BY DEF Sweep
<1> QED BY <1>1 DEF Release, TableAgrees

\* A directory that vanishes is remembered if the watcher had it.
LEMMA EditAgrees ==
  ASSUME TableAgrees, NEW d \in Dirs, WriteFile(d) \/ MakeDir(d) \/ RemoveDir(d)
  PROVE  TableAgrees'
<1>1. CASE WriteFile(d) \/ MakeDir(d)
  BY <1>1 DEF WriteFile, MakeDir, table, TableAgrees
<1>2. CASE RemoveDir(d)
  <2>1. PICK gone : /\ kernel' = kernel \ gone
                    /\ removed' = removed \cup (watched \cap gone)
                    /\ watched' = watched
    BY <1>2 DEF RemoveDir
  <2> QED BY <2>1 DEF TableAgrees
<1> QED BY <1>1, <1>2

\* Whatever fails, whatever is removed and whenever the process restarts, the
\* watcher knows every watch the kernel holds, and the watches it wrongly
\* believes in are those of directories that were removed (Watcher.reconcile).
THEOREM TableTheorem == Spec => []TableAgrees
<1>1. Init => TableAgrees
  BY DEF Init, WatcherInit, TableAgrees
<1>2. TableAgrees /\ [Next]_vars => TableAgrees'
  <2> SUFFICES ASSUME TableAgrees, [Next]_vars PROVE TableAgrees'
    OBVIOUS
  <2>1. CASE SameTable
    BY <2>1 DEF SameTable, TableAgrees
  <2>2. ASSUME NEW g \in Loops, TickBegin(g) \/ Visit(g) PROVE SameTable
    BY <2>2 DEF TickBegin, Visit, watcherVars, table, SameTable
  <2>3. ASSUME NEW g \in Goroutines, RunEnds(g) \/ RunFails(g) \/ RunHangs(g) PROVE SameTable
    BY <2>3 DEF RunEnds, RunFails, RunHangs, watcherVars, table, SameTable
  <2>4. ASSUME NEW t \in Tasks, Start(t) \/ Pause(t) \/ Time(t) PROVE SameTable
    BY <2>4 DEF Start, Pause, Time, DebounceOver, watcherVars, table, SameTable
  <2>5. CASE Watch
    BY <2>1, <2>5, EventSteps, WalkAgrees, SweepAgrees DEF Watch, WatcherStep
  <2>6. CASE WatchRefused
    BY <2>6, WalkAgrees DEF WatchRefused
  <2>7. CASE Edit
    BY <2>7, EditAgrees DEF Edit
  <2>8. CASE Restart
    BY <2>8 DEF Restart, WatcherReset, TableAgrees
  <2>9. CASE UNCHANGED vars
    BY <2>9, <2>1 DEF vars, watcherVars, table, SameTable
  <2> QED BY <2>1, <2>2, <2>3, <2>4, <2>5, <2>6, <2>7, <2>8, <2>9 DEF Next
<1> QED BY <1>1, <1>2, PTL DEF Spec
=============================================================================
