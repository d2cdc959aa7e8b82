---------------------------- MODULE TaskControl ----------------------------
(***************************************************************************)
(* The control plane: the tasks, connections, task_runtime_state,          *)
(* failure_records and operation_queue tables, and the goroutines that     *)
(* read and write them without any lock: the scheduler, the poller, the    *)
(* watcher and the HTTP handlers, all calling TaskService.                 *)
(*                                                                         *)
(* One step is one repository call that changes a table (a single SQL      *)
(* statement), together with the reads just after it.  A handler that      *)
(* reads a row, computes and writes the whole row back therefore takes two *)
(* steps, and anything may happen in between.  What a run does             *)
(* to files and to action items is SyncTask; here a run's planned actions  *)
(* succeed, fail ("degraded") or cannot be carried out at all ("failed").  *)
(* The queue holds the baseline_sync items recordFailure adds.             *)
(***************************************************************************)
EXTENDS Naturals, FiniteSets

CONSTANTS Tasks, Conns,    \* ids
          Runners,         \* subset of {"scheduler", "poller", "watcher"}
          Handlers,        \* goroutines serving HTTP requests
          Directions,      \* directions a task may be given
          Slots,           \* bound: rows of operation_queue
          MaxAttempts,     \* 10 in Scheduler.Tick
          Budgets          \* bounds on HTTP requests, on runs that cannot decrypt the
                           \* password or whose plan or actions fail, and on restarts:
                           \* one of these is picked

Actors == Runners \cup Handlers

ASSUME ControlAssumption ==
  /\ Runners \subseteq {"scheduler", "poller", "watcher"}
  /\ Runners \cap Handlers = {}
  /\ Directions \subseteq {"upload", "download", "bidirectional"}
  /\ MaxAttempts \in Nat \ {0}
  /\ Tasks # {} /\ Conns # {} /\ Directions # {} /\ Slots # {} /\ "none" \notin Tasks
  /\ Budgets \subseteq [requests : Nat, errors : Nat, crashes : Nat]

VARIABLES conns,     \* connections that exist
          tasks,     \* tasks table; status "absent" where there is no row
          runtime,   \* task_runtime_state; phase "none" where there is no row
          failures,  \* tasks with failure_records
          queue,     \* baseline_sync rows that are still to be executed
          act,       \* what each goroutine is doing
          stale,     \* history: goroutines whose copy of a task row was read
                     \* before the task was last taken out of service
          overlap,   \* history: goroutines that held a row of a task while another
                     \* one held a row of the same task
          budget     \* what is left of the bounds

vars == <<conns, tasks, runtime, failures, queue, act, stale, overlap, budget>>

Schedulable == {"running", "degraded", "retrying"}     \* isSchedulableTaskStatus
Dormant     == {"created", "paused", "stopped", "failed"}
Statuses    == Schedulable \cup Dormant

TaskRow == [status : Statuses \cup {"absent"}, conn : Conns, dir : Directions]

\* streak is only ever compared with 1, so 2 stands for more.  last_success_at,
\* last_reconcile_at and the scan times are set and cleared together: success
\* says that they are set.  ckpt: no checkpoint, a poll's, one listing paths.
Phases   == {"none", "running", "polling_remote", "degraded", "failed", "idle", "paused", "stopped"}
StateRow == [phase : Phases, streak : 0..2, success : BOOLEAN, ckpt : {"", "poll", "paths"}]
Fresh(phase, streak) == [phase |-> phase, streak |-> streak, success |-> FALSE, ckpt |-> ""]
NoState == Fresh("none", 0)
Succeeded == [phase |-> "idle", streak |-> 0, success |-> TRUE, ckpt |-> ""]

NoItem  == [task |-> "none", attempt |-> 0]

RunKinds  == {"tick", "op", "poll", "watch", "start"}
Kinds     == RunKinds \cup {"none", "pause", "stop", "update"}
Pcs       == {"idle", "load", "mark", "enter", "flush", "resolve", "plan", "exec",
              "degrade", "fail", "record", "succeed", "opdone", "transit", "put"}
Absent  == [status |-> "absent", conn |-> CHOOSE c \in Conns : TRUE,
            dir |-> CHOOSE d \in Directions : TRUE]
AnyTask == CHOOSE t \in Tasks : TRUE
AnySlot == CHOOSE s \in Slots : TRUE
NoActor == [pc |-> "idle", kind |-> "none", task |-> AnyTask, snap |-> Absent, streak |-> 0,
            pend |-> NoState, cont |-> "idle", slot |-> AnySlot, ok |-> FALSE]

----------------------------------------------------------------------------
(* Repositories.                                                           *)

Exists(t) == tasks[t].status # "absent"

\* TaskRepository.Update writes every column; it touches no row that is not
\* there and the foreign key refuses a connection that is gone.
UpdateTask(t, row) ==
  tasks' = IF Exists(t) /\ row.conn \in conns THEN [tasks EXCEPT ![t] = row] ELSE tasks

\* Mutant: no foreign key ties the row to its task.
UpsertOrphan(t, row) == runtime' = [runtime EXCEPT ![t] = row]

\* TaskRuntimeRepository.Upsert; the foreign key refuses a missing task.
UpsertRuntime(t, row) ==
  runtime' = IF Exists(t) THEN [runtime EXCEPT ![t] = row] ELSE runtime

\* First half of upsertRuntimeState: the checkpoint of the stored row is kept.
Carry(t, row) == [row EXCEPT !.ckpt = runtime[t].ckpt]

Step(a, pc) == act' = [act EXCEPT ![a].pc = pc]

\* Second half: the prepared row is written by Flush, then the call goes on.
Prepare(a, row, cont) ==
  act' = [act EXCEPT ![a].pc = "flush", ![a].pend = row, ![a].cont = cont]

\* A call is over.  The scheduler still has to settle the queue item it was for.
Return(a, ok) ==
  act' = [act EXCEPT ![a] = IF act[a].kind = "op"
                            THEN [NoActor EXCEPT !.pc = "opdone", !.kind = "op",
                                                 !.slot = act[a].slot, !.ok = ok]
                            ELSE NoActor]

Spend(what) == budget[what] > 0 /\ budget' = [budget EXCEPT ![what] = @ - 1]

----------------------------------------------------------------------------
(* What sets the background goroutines off.                                *)

Begin(a, kind, t) ==
  /\ act[a].pc = "idle"
  /\ act' = [act EXCEPT ![a].pc = "load", ![a].kind = kind, ![a].task = t]
  /\ UNCHANGED <<conns, tasks, runtime, failures, queue, budget>>

\* shouldRun and shouldPoll: a task without timestamps is due at once, any other
\* one when its interval has passed.  A run clears the timestamps when it starts,
\* so a task may be due whenever a goroutine looks at it.
SchedulerTick(t) ==
  /\ "scheduler" \in Runners
  /\ tasks[t].status \in Schedulable
  /\ Begin("scheduler", "tick", t)

\* The queue part of Tick.  Items of a task that the same tick has run are passed
\* over and wait for the next tick; each tick starts with an empty list.
SchedulerOp(s) ==
  /\ "scheduler" \in Runners
  /\ queue[s].task \in Tasks
  /\ act["scheduler"].pc = "idle"
  /\ act' = [act EXCEPT !["scheduler"].pc = "load", !["scheduler"].kind = "op",
                        !["scheduler"].task = queue[s].task, !["scheduler"].slot = s]
  /\ UNCHANGED <<conns, tasks, runtime, failures, queue, budget>>

PollerTick(t) ==
  /\ "poller" \in Runners
  /\ tasks[t].status \in Schedulable /\ tasks[t].dir # "upload"
  /\ Begin("poller", "poll", t)

\* The watcher's table of roots may be a second old: an event may belong to a
\* task in any state.
WatcherEvent(t) ==
  /\ "watcher" \in Runners
  /\ Begin("watcher", "watch", t)

----------------------------------------------------------------------------
(* ExecuteRunningTask, PollRemoteTask and executeTask.                     *)

Admits(a, row) ==
  row.status \in Schedulable /\ (act[a].kind = "poll" => row.dir # "upload")

Load(a) ==
  LET t == act[a].task
  IN  /\ act[a].pc = "load"
      /\ IF Admits(a, tasks[t])
         THEN act' = [act EXCEPT ![a].pc = IF act[a].kind = "poll" THEN "mark" ELSE "enter",
                                 ![a].snap = tasks[t]]
         ELSE Return(a, FALSE)
      /\ UNCHANGED <<conns, tasks, runtime, failures, queue, budget>>

\* PollRemoteTask copies the stored row and stamps a new checkpoint on it.
Mark(a) ==
  /\ act[a].pc = "mark"
  /\ Prepare(a, [runtime[act[a].task] EXCEPT !.phase = "polling_remote", !.ckpt = "poll"], "enter")
  /\ UNCHANGED <<conns, tasks, runtime, failures, queue, budget>>

\* Mutant: the row that marks the run keeps the stored streak.
EnterKeepsStreak(a) ==
  /\ act[a].pc = "enter"
  /\ Prepare(a, Carry(act[a].task, Fresh("running", runtime[act[a].task].streak)), "resolve")
  /\ UNCHANGED <<conns, tasks, runtime, failures, queue, budget>>

\* The row that marks the run replaces the stored one, failure streak included.
Enter(a) ==
  /\ act[a].pc = "enter"
  /\ Prepare(a, Carry(act[a].task, Fresh("running", 0)), "resolve")
  /\ UNCHANGED <<conns, tasks, runtime, failures, queue, budget>>

Flush(a) ==
  /\ act[a].pc = "flush"
  /\ UpsertRuntime(act[a].task, act[a].pend)
  /\ IF act[a].cont = "idle" THEN Return(a, act[a].ok)
     ELSE act' = [act EXCEPT ![a].pc = act[a].cont, ![a].pend = NoState, ![a].cont = "idle"]
  /\ UNCHANGED <<conns, tasks, failures, queue, budget>>

\* resolveConnection, then the runtime row is read back for its streak.
Resolve(a) ==
  LET t == act[a].task
  IN  /\ act[a].pc = "resolve"
      /\ IF act[a].snap.conn \in conns
         THEN /\ act' = [act EXCEPT ![a].pc = "plan", ![a].streak = runtime[t].streak]
              /\ UNCHANGED tasks
         ELSE /\ UpdateTask(t, [act[a].snap EXCEPT !.status = "failed"])
              /\ Return(a, FALSE)
      /\ UNCHANGED <<conns, runtime, failures, queue, budget>>

\* The stored password cannot be decrypted: no failure is recorded and the runtime
\* row keeps saying that the task is running.
ResolveFails(a) ==
  /\ act[a].pc = "resolve" /\ act[a].snap.conn \in conns /\ Spend("errors")
  /\ UpdateTask(act[a].task, [act[a].snap EXCEPT !.status = "failed"])
  /\ Return(a, FALSE)
  /\ UNCHANGED <<conns, runtime, failures, queue>>

\* Plan returned actions; updateRemoteCheckpointPaths rewrites the stored row
\* when there is a checkpoint and the plan names remote paths.
Planned(a) ==
  LET t == act[a].task
  IN  /\ act[a].pc = "plan"
      /\ \/ Step(a, "exec")
         \/ /\ runtime[t].ckpt # "" /\ act[a].snap.dir # "upload"
            /\ Prepare(a, [runtime[t] EXCEPT !.ckpt = "paths"], "exec")
      /\ UNCHANGED <<conns, tasks, runtime, failures, queue, budget>>

PlanFailed(a) ==
  /\ act[a].pc = "plan" /\ Spend("errors")
  /\ Step(a, "fail")
  /\ UNCHANGED <<conns, tasks, runtime, failures, queue>>

\* The foreign key refuses the queue rows of a task that was deleted.
EnqueueRefused(a) ==
  /\ act[a].pc = "exec" /\ ~Exists(act[a].task)
  /\ Step(a, "fail")
  /\ UNCHANGED <<conns, tasks, runtime, failures, queue, budget>>

ActionsDone(a) ==
  /\ act[a].pc = "exec"
  /\ Step(a, "succeed")
  /\ UNCHANGED <<conns, tasks, runtime, failures, queue, budget>>

\* A file operation fails, or the foreign key refuses the index row of a task
\* that was deleted.
ActionFailed(a) ==
  /\ act[a].pc = "exec"
  /\ IF Exists(act[a].task) THEN Spend("errors") ELSE UNCHANGED budget
  /\ Step(a, "degrade")
  /\ UNCHANGED <<conns, tasks, runtime, failures, queue>>

Streak(a) == IF act[a].streak < 2 THEN act[a].streak + 1 ELSE 2

\* errActionExecutionDegraded: the stale row goes back with a new status.
Degrade(a) ==
  LET t == act[a].task
      s == IF Streak(a) > 1 THEN "retrying" ELSE "degraded"
  IN  /\ act[a].pc = "degrade"
      /\ UpdateTask(t, [act[a].snap EXCEPT !.status = s])
      /\ act' = [act EXCEPT ![a].pc = "flush", ![a].cont = "idle", ![a].ok = TRUE,
                            ![a].pend = Carry(t, Fresh("degraded", Streak(a)))]
      /\ UNCHANGED <<conns, runtime, failures, queue, budget>>

Fail(a) ==
  LET t == act[a].task
  IN  /\ act[a].pc = "fail"
      /\ UpdateTask(t, [act[a].snap EXCEPT !.status = "failed"])
      /\ Prepare(a, Carry(t, Fresh("failed", Streak(a))), "record")
      /\ UNCHANGED <<conns, runtime, failures, queue, budget>>

Settles(b, s) == act[b].kind = "op" /\ act[b].slot = s

\* recordFailure: a failure row and a baseline_sync item.
Record(a) ==
  LET t    == act[a].task
      free == {s \in Slots : queue[s] = NoItem /\ \A b \in Actors : ~Settles(b, s)}
  IN  /\ act[a].pc = "record"
      /\ failures' = IF Exists(t) THEN failures \cup {t} ELSE failures
      /\ IF Exists(t) /\ free # {}
         THEN \E s \in free : queue' = [queue EXCEPT ![s] = [task |-> t, attempt |-> 0]]
         ELSE UNCHANGED queue
      /\ Return(a, FALSE)
      /\ UNCHANGED <<conns, tasks, runtime, budget>>

\* Mutant: the task stays degraded.
SucceedDegraded(a) ==
  /\ act[a].pc = "succeed"
  /\ act' = [act EXCEPT ![a].pc = "flush", ![a].cont = "idle", ![a].ok = TRUE,
                        ![a].pend = Carry(act[a].task, Succeeded)]
  /\ UNCHANGED <<conns, tasks, runtime, failures, queue, budget>>

\* A run that began degraded puts the task back to running; one that began
\* retrying does not.
Succeed(a) ==
  LET t == act[a].task
  IN  /\ act[a].pc = "succeed"
      /\ IF act[a].snap.status = "degraded"
         THEN UpdateTask(t, [act[a].snap EXCEPT !.status = "running"])
         ELSE UNCHANGED tasks
      /\ act' = [act EXCEPT ![a].pc = "flush", ![a].cont = "idle", ![a].ok = TRUE,
                            ![a].pend = Carry(t, Succeeded)]
      /\ UNCHANGED <<conns, runtime, failures, queue, budget>>

\* Mutant: one attempt too many.
OpDoneLate(a) ==
  LET s == act[a].slot
  IN  /\ act[a].pc = "opdone"
      /\ queue' = IF queue[s] = NoItem THEN queue
                  ELSE IF act[a].ok \/ queue[s].attempt >= MaxAttempts
                       THEN [queue EXCEPT ![s] = NoItem]
                       ELSE [queue EXCEPT ![s].attempt = @ + 1]
      /\ act' = [act EXCEPT ![a] = NoActor]
      /\ UNCHANGED <<conns, tasks, runtime, failures, budget>>

\* The end of Tick's loop body for a baseline_sync item: Dequeue, MarkFailed or
\* Reschedule.  Finished rows are never read again and are dropped.
OpDone(a) ==
  LET s == act[a].slot
  IN  /\ act[a].pc = "opdone"
      /\ queue' = IF queue[s] = NoItem THEN queue
                  ELSE IF act[a].ok \/ queue[s].attempt + 1 >= MaxAttempts
                       THEN [queue EXCEPT ![s] = NoItem]
                       ELSE [queue EXCEPT ![s].attempt = @ + 1]
      /\ act' = [act EXCEPT ![a] = NoActor]
      /\ UNCHANGED <<conns, tasks, runtime, failures, budget>>

----------------------------------------------------------------------------
(* HTTP handlers.                                                          *)

Serve(h) == act[h].pc = "idle" /\ Spend("requests")

CreateTask(h, t, c, dir) ==
  /\ Serve(h) /\ ~Exists(t) /\ c \in conns
  /\ tasks' = [tasks EXCEPT ![t] = [status |-> "created", conn |-> c, dir |-> dir]]
  /\ UNCHANGED <<conns, runtime, failures, queue, act>>

\* DELETE cascades to every table that refers to the task.
DeleteTask(h, t) ==
  /\ Serve(h) /\ Exists(t)
  /\ tasks' = [tasks EXCEPT ![t] = Absent]
  /\ runtime' = [runtime EXCEPT ![t] = NoState]
  /\ failures' = failures \ {t}
  /\ queue' = [s \in Slots |-> IF queue[s].task = t THEN NoItem ELSE queue[s]]
  /\ UNCHANGED <<conns, act>>

\* Mutant: an update starts the task.
UpdateStarts(h, t, c, dir) ==
  /\ Serve(h) /\ Exists(t)
  /\ act' = [act EXCEPT ![h].pc = "put", ![h].kind = "update", ![h].task = t,
                        ![h].snap = [status |-> "running", conn |-> c, dir |-> dir]]
  /\ UNCHANGED <<conns, tasks, runtime, failures, queue>>

\* TaskService.Update: the row is read, merged with the request and written.
UpdateBegin(h, t, c, dir) ==
  /\ Serve(h) /\ Exists(t)
  /\ act' = [act EXCEPT ![h].pc = "put", ![h].kind = "update", ![h].task = t,
                        ![h].snap = [tasks[t] EXCEPT !.conn = c, !.dir = dir]]
  /\ UNCHANGED <<conns, tasks, runtime, failures, queue>>

UpdatePut(h) ==
  /\ act[h].pc = "put"
  /\ UpdateTask(act[h].task, act[h].snap)
  /\ Return(h, TRUE)
  /\ UNCHANGED <<conns, runtime, failures, queue, budget>>

\* transitionStatus: GetByID, then Update.
TransitBegin(h, t, kind, s) ==
  /\ Serve(h) /\ Exists(t)
  /\ act' = [act EXCEPT ![h].pc = "transit", ![h].kind = kind, ![h].task = t,
                        ![h].snap = [tasks[t] EXCEPT !.status = s]]
  /\ UNCHANGED <<conns, tasks, runtime, failures, queue>>

Start(h, t) == TransitBegin(h, t, "start", "running")
Pause(h, t) == TransitBegin(h, t, "pause", "paused")
Stop(h, t)  == TransitBegin(h, t, "stop", "stopped")

\* Start goes on with executeTask, Pause and Stop write the runtime row.
Transit(h) ==
  LET t == act[h].task
      ok == Exists(t) /\ act[h].snap.conn \in conns
  IN  /\ act[h].pc = "transit"
      /\ UpdateTask(t, act[h].snap)
      /\ CASE ~ok -> Return(h, FALSE)
           [] ok /\ act[h].kind = "start" -> Step(h, "enter")
           [] ok /\ act[h].kind # "start" ->
                Prepare(h, Carry(t, Fresh(act[h].snap.status, 0)), "idle")
      /\ UNCHANGED <<conns, runtime, failures, queue, budget>>

\* ConnectionService: a connection that some task refers to is not deleted.
CreateConnection(h, c) ==
  /\ Serve(h) /\ c \notin conns
  /\ conns' = conns \cup {c}
  /\ UNCHANGED <<tasks, runtime, failures, queue, act>>

\* Mutant: tasks that use the connection are not looked for.
DeleteUsedConnection(h, c) ==
  /\ Serve(h) /\ c \in conns
  /\ conns' = conns \ {c}
  /\ UNCHANGED <<tasks, runtime, failures, queue, act>>

DeleteConnection(h, c) ==
  /\ Serve(h) /\ c \in conns
  /\ \A t \in Tasks : Exists(t) => tasks[t].conn # c
  /\ conns' = conns \ {c}
  /\ UNCHANGED <<tasks, runtime, failures, queue, act>>

\* The client goes away: the request's context is cancelled and every statement
\* that the handler, or the run that Start called, would still execute fails.
HangUp(h) ==
  /\ act[h].pc # "idle"
  /\ act' = [act EXCEPT ![h] = NoActor]
  /\ UNCHANGED <<conns, tasks, runtime, failures, queue, budget>>

\* The process is killed and started again; the tables are as they were.
Crash ==
  /\ Spend("crashes")
  /\ act' = [a \in Actors |-> NoActor]
  /\ UNCHANGED <<conns, tasks, runtime, failures, queue>>

----------------------------------------------------------------------------
\* The tables as an earlier process may have left them: no task, or one that was
\* created, started, paused or stopped and has not been run yet.
InitRow == {Absent} \cup
           {r \in TaskRow : r.status \in {"created", "running", "paused", "stopped"}}

Init ==
  /\ conns \in SUBSET Conns
  /\ tasks \in [Tasks -> InitRow]
  /\ \A t \in Tasks : Exists(t) => tasks[t].conn \in conns
  /\ runtime = [t \in Tasks |-> NoState]
  /\ failures = {}
  /\ queue = [s \in Slots |-> NoItem]
  /\ act = [a \in Actors |-> NoActor]
  /\ stale = {} /\ overlap = {}
  /\ budget \in Budgets

Run(a) ==
  \/ Load(a) \/ Mark(a) \/ Enter(a) \/ Flush(a) \/ Resolve(a)
  \/ Planned(a) \/ EnqueueRefused(a) \/ ActionsDone(a)
  \/ Degrade(a) \/ Fail(a) \/ Record(a) \/ Succeed(a) \/ OpDone(a)
  \/ UpdatePut(a) \/ Transit(a)

RunError(a) == ResolveFails(a) \/ PlanFailed(a) \/ ActionFailed(a)

Trigger ==
  \/ \E t \in Tasks : SchedulerTick(t) \/ PollerTick(t) \/ WatcherEvent(t)
  \/ \E s \in Slots : SchedulerOp(s)

Request(h) ==
  \/ \E t \in Tasks : DeleteTask(h, t) \/ Start(h, t) \/ Pause(h, t) \/ Stop(h, t)
  \/ \E t \in Tasks, c \in Conns, dir \in Directions :
       CreateTask(h, t, c, dir) \/ UpdateBegin(h, t, c, dir)
  \/ \E c \in Conns : CreateConnection(h, c) \/ DeleteConnection(h, c)

\* The goroutines that hold a copy of t's row, and t is taken out of service.
Holding(a) == act[a].pc \notin {"idle", "load", "opdone"}
Retired(t) == tasks[t].status \notin Dormant /\ tasks'[t].status \in Dormant
Meets(a) == \E b \in Actors \ {a} : Holding(b) /\ act[b].task = act[a].task
Outdate ==
  /\ stale' = {a \in Actors : Holding(a)' /\ (a \in stale \/ Retired(act'[a].task))}
  /\ overlap' = {a \in Actors : Holding(a)' /\ (a \in overlap \/ Meets(a)')}

Next ==
  /\ \/ Trigger
     \/ \E a \in Actors : Run(a) \/ RunError(a)
     \/ \E h \in Handlers : Request(h) \/ HangUp(h)
     \/ Crash
  /\ Outdate

Spec == Init /\ [][Next]_vars

\* A goroutine goes on with the call it is in, and every tick of the scheduler
\* visits the tasks before it turns to the queue.
Fairness ==
  /\ \A a \in Actors : WF_vars(Run(a) /\ Outdate)
  /\ \A t \in Tasks : SF_vars(SchedulerTick(t) /\ Outdate)
  /\ \A s \in Slots : WF_vars(SchedulerOp(s) /\ Outdate)

FairSpec == Spec /\ Fairness

----------------------------------------------------------------------------
(* Properties.                                                             *)

ActorRow == [pc : Pcs, kind : Kinds, task : Tasks, snap : TaskRow, streak : 0..2,
             pend : StateRow, cont : Pcs, slot : Slots, ok : BOOLEAN]

\* Type invariant: the tables and what the goroutines carry are well formed.
TypeOK ==
  /\ conns \subseteq Conns
  /\ tasks \in [Tasks -> TaskRow]
  /\ runtime \in [Tasks -> StateRow]
  /\ failures \subseteq Tasks
  /\ queue \in [Slots -> [task : Tasks \cup {"none"}, attempt : 0..(MaxAttempts - 1)]]
  /\ act \in [Actors -> ActorRow]
  /\ stale \subseteq Actors /\ overlap \subseteq Actors
  /\ budget \in [requests : Nat, errors : Nat, crashes : Nat]

\* However requests, runs and restarts interleave, a task row names a
\* connection that exists, and no runtime row, failure or queue item outlives
\* its task: nothing a run in flight writes brings a deleted task back in part.
RefIntegrity ==
  /\ \A t \in Tasks : Exists(t) => tasks[t].conn \in conns
  /\ \A t \in Tasks : ~Exists(t) => runtime[t] = NoState /\ t \notin failures
  /\ \A s \in Slots : queue[s].task \in Tasks => Exists(queue[s].task)

\* A task that is created, paused, stopped or failed comes back into service
\* only through Start, or through a write of a row that was read before the task
\* was taken out of service.  Once no goroutine holds such a copy, a pause
\* lasts until somebody calls Start.
ActivationNeedsStart ==
  [][\A t \in Tasks :
       tasks[t].status \in Dormant /\ tasks'[t].status \in Schedulable =>
         \E a \in Actors :
           /\ act[a].task = t
           /\ a \in stale \/ (act[a].pc = "transit" /\ act[a].kind = "start")]_vars

\* A run counts a failure on top of an earlier one, and so makes its task
\* "retrying", only if it overlapped another call on the same task: the row that
\* marks a run as running wipes the streak out before the run reads it, so two
\* failed runs one after the other are two first failures.
RetryingNeedsOverlap ==
  \A a \in Actors : act[a].pc = "degrade" /\ Streak(a) > 1 => a \in overlap

\* A task that is paused or stopped stays so until Start is called.
PauseHolds ==
  [][\A t \in Tasks :
       tasks[t].status \in {"paused", "stopped"} /\ tasks'[t].status \in Schedulable =>
         \E a \in Actors : act[a].task = t /\ act[a].pc = "transit" /\ act[a].kind = "start"]_vars

\* A task whose actions failed is run again and gets out of degraded.
DegradedRecovers ==
  \A t \in Tasks : tasks[t].status = "degraded" ~> tasks[t].status # "degraded"
=============================================================================
