------------------------------ MODULE SyncTask ------------------------------
(***************************************************************************)
(* The data plane of one sync task: workers (the goroutines that call      *)
(* executeTask and ExecuteQueueOperation) plan actions from the two file   *)
(* trees, put them in the operation queue, execute them on the trees and   *)
(* record the outcome in the file index.  Users edit both trees meanwhile, *)
(* requests fail, and the process may be killed and started again.         *)
(*                                                                         *)
(* One step of a worker is one call that another actor could observe:      *)
(* taking the local snapshot, planning and enqueueing, listing the queue,  *)
(* marking an item, the file operation, the index write, the final queue   *)
(* update.  No lock spans two of them.                                     *)
(*                                                                         *)
(* Kept in TaskControl instead: pause and stop, the runtime row, and the   *)
(* baseline_sync items.  A NextAttemptAt delay only says when an item is   *)
(* due, so here any executable item may be due at any time.                *)
(***************************************************************************)
EXTENDS Planner

CONSTANTS Workers,        \* goroutines that may execute the task
          Scheduler,      \* the one among them that also drains the queue
          MaxAttempts,    \* 10 in Scheduler.Tick
          Scenarios       \* what a behaviour may be about, see Scenario

\* The task and what happens to it: the goroutines that come to run it (the poller
\* leaves upload tasks alone, the watcher needs events), the trees either side may
\* start with, whether the server lists collections with a trailing slash (servers
\* differ), the paths and the contents users write, which edits and which faults occur,
\* whether users edit while a worker is busy, how many edits, faults, crashes
\* and retry requests there are, and the bounds on rows kept in the queue and
\* on file_index.version.  Trees are finite.
Edits  == {"local_write", "local_remove", "local_rename", "remote_write", "remote_remove"}
Kinds  == {"listing", "error_page", "transport", "lost_reply", "cut_body", "http_status"}
Scenario(s) ==
  /\ s.task \in Policy /\ s.slashed \in BOOLEAN
  /\ Scheduler \in s.workers /\ s.workers \subseteq Workers
  /\ \A t \in s.trees : IsFiniteSet(DOMAIN t) /\ \A p \in DOMAIN t : IsSeq(p)
  /\ \A p \in s.paths : IsSeq(p)
  /\ s.edits \subseteq Edits /\ s.faults \subseteq Kinds /\ s.busy \in BOOLEAN
  /\ s.budget \in [edits : Nat, faults : Nat, crashes : Nat, retries : Nat]
  /\ s.queueCap \in Nat /\ s.versionCap \in Nat \ {0}

ASSUME SyncAssumption ==
  /\ Scheduler \in Workers
  /\ MaxAttempts \in Nat \ {0}
  /\ \A s \in Scenarios : Scenario(s)

VARIABLES scene,          \* the scenario, fixed
          local, remote,  \* the two trees
          index,          \* file_index, a function from paths to rows
          conflicts,      \* conflict_history: <<path, local copy, remote copy>>
          failures,       \* open failure_records, as [op, rel]
          queue,          \* operation_queue by created_at, each plan in its own order:
                          \* up to ten items, that is the order of their ids
          status,         \* task status; "degraded" stands for retrying too
          work,           \* what each worker is doing
          request,        \* RetryFailureByID under way: the failure, the items it listed
          live,           \* history: contents users wrote and did not destroy
          shared,         \* history: paths that have existed on the remote side
          budget          \* what is left of the scenario's bounds

vars == <<scene, local, remote, index, conflicts, failures, queue, status, work, request, live, shared,
          budget>>
tables == <<index, conflicts, failures, status>>
trees  == <<local, remote, live>>

task == scene.task

Executable == {"queued", "retry_wait"}
ItemStatus == Executable \cup {"executing", "succeeded", "failed"}
\* A worker: where it is, whether it is in a run or drains the queue, the task
\* status and the local snapshot it read, the items it listed, and the index
\* rows writeActionResult read.
Working(pc, mode, st, snap, todo) ==
  [pc |-> pc, mode |-> mode, st |-> st, snap |-> snap, todo |-> todo,
   prev |-> NoRow, src |-> NoRow]
Handling == {"exec", "write", "target", "dequeue"}    \* it has an item in hand
Idle == Working("idle", "run", "running", <<>>, <<>>)
NoRequest == [failure |-> [op |-> "", rel |-> <<>>], todo |-> <<>>]

----------------------------------------------------------------------------
(* operation_queue                                                         *)

\* SELECT ... WHERE ... ORDER BY: the rows of q at the positions idx, in order.
Selected(q, idx) ==
  LET upTo[n \in 0..Len(q)] ==
        IF n = 0 THEN <<>>
        ELSE IF n \in idx THEN Append(upTo[n - 1], q[n]) ELSE upTo[n - 1]
  IN  upTo[Len(q)]

ItemIds(items) == {items[i].id : i \in DOMAIN items}
FreshId(k) ==
  CHOOSE n \in (1..scene.queueCap) \ ItemIds(queue) : Cardinality((1..n) \ ItemIds(queue)) = k
Item(id, act) == [id |-> id, act |-> act, status |-> "queued", attempt |-> 0]

\* Rows past the bound are not kept.
Enqueue(plan) ==
  LET room == Min({Len(plan), IF Len(queue) < scene.queueCap THEN scene.queueCap - Len(queue) ELSE 0})
  IN  queue \o [i \in 1..room |-> Item(FreshId(i), plan[i])]

\* UPDATE operation_queue SET status, attempt_count WHERE id.
Reschedule(q, id, s, attempt) ==
  [i \in DOMAIN q |-> IF q[i].id = id THEN [q[i] EXCEPT !.status = s, !.attempt = attempt]
                                      ELSE q[i]]
SetStatus(q, id, s) ==
  [i \in DOMAIN q |-> IF q[i].id = id THEN [q[i] EXCEPT !.status = s] ELSE q[i]]

\* A succeeded or failed row that nobody holds a copy of is never read again;
\* the model forgets it.
Held(wk) == ItemIds(request.todo) \cup UNION {ItemIds(wk[w].todo) : w \in Workers}
Unfinished(it) == it.status \notin {"succeeded", "failed"}
Forget(q, wk) == Selected(q, {i \in DOMAIN q : Unfinished(q[i]) \/ q[i].id \in Held(wk)})

\* attempt_count is compared with 0 and with MaxAttempts only: MaxAttempts stands
\* for the counts past it, which the loop of a run, where there is no limit, gets to.
Bump(attempt) == Min({attempt + 1, MaxAttempts})

----------------------------------------------------------------------------
(* A run: executeTask and executePlannedActions.                           *)

At(w, pc) == work[w].pc = pc
Cur(w)    == Head(work[w].todo)

\* The walk of the local tree is one step.
snapshotLocal == local

BeginRun(w) ==
  /\ At(w, "idle") /\ w \in scene.workers
  /\ status \in {"running", "degraded"}
  /\ task.direction = "bidirectional" => \A p \in DOMAIN index : index[p].version < scene.versionCap
  /\ work' = [work EXCEPT ![w] = Working("snap", "run", status, snapshotLocal, <<>>)]
  /\ UNCHANGED <<trees, tables, queue, budget>>

\* A plan made from what planning sees of the remote side.
PlansFrom(w, seen) == Plans(task, work[w].snap, local, Listed(seen, scene.slashed), index)

Planned(w, seen) ==
  /\ \E plan \in PlansFrom(w, seen) : queue' = Enqueue(plan)
  /\ work' = [work EXCEPT ![w].pc = "list", ![w].snap = <<>>]
  /\ UNCHANGED <<trees, tables>>

PlanRun(w) == At(w, "snap") /\ Planned(w, remote) /\ UNCHANGED budget

\* Plan returns an error: the whole row is written back with status failed.
PlanError(w) ==
  /\ status' = "failed"
  /\ work' = [work EXCEPT ![w] = Idle]
  /\ UNCHANGED <<trees, index, conflicts, failures, queue>>

PlanFails(w) ==
  /\ At(w, "snap")
  /\ PlanMayFail(task, work[w].snap, local, Listed(remote, scene.slashed), index)
  /\ PlanError(w)
  /\ UNCHANGED budget

Spend == budget.faults > 0 /\ budget' = [budget EXCEPT !.faults = @ - 1]
ListsRemote == task.direction # "upload" \/ task.mirror

\* A PROPFIND or GET of the planner gets no answer.
PlanFault(w) ==
  /\ "listing" \in scene.faults /\ Spend
  /\ At(w, "snap") /\ ListsRemote
  /\ PlanError(w)

\* A PROPFIND of the directory p (<<>> is the task's root) is answered with an
\* error page: the client does not look at the status, and XML without a
\* response element is a directory with nothing in it.  (If planning fails on
\* top of that, the effect is that of PlanFault.)
Unlisted(t, p) == [q \in {x \in DOMAIN t : x = p \/ ~Under(p, x)} |-> t[q]]

PlanBlind(w) ==
  /\ "error_page" \in scene.faults /\ Spend
  /\ At(w, "snap") /\ ListsRemote
  /\ \E p \in {<<>>} \cup {q \in DOMAIN remote : IsDir(remote, q)} :
       Planned(w, Unlisted(remote, p))

\* The GETs of the file p that sameFile makes are answered with an error status:
\* the error text is compared with the local file.
Misread(t, p) == [t EXCEPT ![p] = ErrBody]

PlanMisled(w) ==
  /\ "http_status" \in scene.faults /\ Spend
  /\ At(w, "snap") /\ task.direction = "bidirectional"
  /\ \E p \in {q \in DOMAIN remote : IsFile(remote, q)} : Planned(w, Misread(remote, p))

ListExecutable == {i \in DOMAIN queue : queue[i].status \in Executable}

\* Mutant: whatever is not finished is executed, so also what a kill left.
ListUnfinished(w) ==
  /\ At(w, "list")
  /\ work' = [work EXCEPT ![w].pc = "next", ![w].todo = Selected(queue, {i \in DOMAIN queue : Unfinished(queue[i])})]
  /\ UNCHANGED <<trees, tables, queue, budget>>

List(w) ==
  /\ At(w, "list")
  /\ work' = [work EXCEPT ![w].pc = "next",
                          ![w].todo = Selected(queue, ListExecutable)]
  /\ UNCHANGED <<trees, tables, queue, budget>>

\* Scheduler.Tick, ListDue: some of the executable items are due.  A degraded
\* task has no LastReconcileAt, so the same tick has just run it, and the items
\* of a task that was run are passed over; unless another worker degraded it
\* in the meantime.
ListDue(w) ==
  /\ w = Scheduler /\ At(w, "idle")
  /\ status # "degraded" \/ scene.workers # {w}
  /\ \E due \in SUBSET ListExecutable \ {{}} :
       work' = [work EXCEPT ![w] = Working("next", "ops", "running", <<>>, Selected(queue, due))]
  /\ UNCHANGED <<trees, tables, queue, budget>>

----------------------------------------------------------------------------
(* One item: executeQueueOperationResolved.                                *)

\* ExecuteQueueOperation insists on status running; a run does not look again.
Admitted(w) == work[w].mode = "run" \/ status = "running"
Skips(w) == shouldSkipActionExecution(Cur(w).attempt, Cur(w).act.op, RowOf(index, Cur(w).act.rel))
Pending(w) == At(w, "next") /\ work[w].todo # <<>>

Skip(w) ==
  /\ Pending(w) /\ Admitted(w) /\ Skips(w)
  /\ work' = [work EXCEPT ![w].pc = "dequeue"]
  /\ UNCHANGED <<trees, tables, queue, budget>>

Claim(w) ==
  /\ Pending(w) /\ Admitted(w) /\ ~Skips(w)
  /\ queue' = Reschedule(queue, Cur(w).id, "executing", Cur(w).attempt)
  /\ work' = [work EXCEPT ![w].pc = "exec"]
  /\ UNCHANGED <<trees, tables, budget>>

\* executePlan returns no error for this action.
EffectOK(a) ==
  CASE a.op = "create_dir_local" -> osMkdirAllOK(local, a.lp)
    [] a.op \in {"upload_file", "move_conflict_remote"} -> readable(local, a.lp)
    [] a.op \in {"download_file", "move_conflict_local"} -> osCreateOK(local, a.lp)
    [] a.op = "move_local" -> osRenameOK(local, a.src, a.lp)
    [] OTHER -> TRUE

LocalAfter(a) ==
  CASE a.op = "create_dir_local" -> osMkdirAll(local, a.lp)
    [] a.op \in {"download_file", "move_conflict_local"} ->
         osCreate(local, a.lp, davGet(remote, a.rp))
    [] a.op = "delete_local" -> osRemoveAll(local, a.lp)
    [] a.op = "move_local" -> osRename(local, a.src, a.lp)
    [] OTHER -> local

RemoteAfter(a) ==
  CASE a.op = "create_dir_remote" -> davMkcol(remote, a.rp)
    [] a.op \in {"upload_file", "move_conflict_remote"} -> davPut(remote, a.rp, local[a.lp])
    [] a.op = "delete_remote" -> davDelete(remote, Joined(a.rp))
    [] a.op = "move_remote" -> davMove(remote, Joined(a.src), a.rp)
    [] OTHER -> remote

\* The file operation succeeds and writeActionResult reads the index.
Loaded(w) ==
  work' = [work EXCEPT ![w].pc = "write",
                       ![w].prev = RowOf(index, Cur(w).act.rel),
                       ![w].src = RowOf(index, Cur(w).act.src)]

Effect(w) ==
  LET a == Cur(w).act
  IN  /\ At(w, "exec") /\ EffectOK(a)
      /\ local' = LocalAfter(a) /\ remote' = RemoteAfter(a)
      /\ Loaded(w)
      /\ UNCHANGED <<live, tables, queue, budget>>

\* A one-way task writes rows whose version nobody reads: it stops at the bound.
Capped(row) ==
  IF task.direction = "bidirectional" \/ row.version <= scene.versionCap THEN row
  ELSE [row EXCEPT !.version = scene.versionCap]

\* FileIndexRepository.Upsert: one row per relative path, and ids are unique.
Upsert(p, row) == index' = With(index, p, Capped(row))
Refused(p) == ~Has(index, p) /\ \E q \in DOMAIN index : fileIndexID(q) = fileIndexID(p)

Moving(w)  == Cur(w).act.op \in MoveOps
Written(w) == [work EXCEPT ![w].pc = "dequeue", ![w].prev = NoRow, ![w].src = NoRow]

Write(w) ==
  LET a == Cur(w).act
  IN  /\ At(w, "write") /\ ~Moving(w) /\ ~Refused(a.rel)
      /\ Upsert(a.rel, writeActionResult(work[w].prev, a.op, a.isDir))
      /\ conflicts' = IF a.op = "move_conflict_remote"
                      THEN conflicts \cup {<<a.rel, a.cp, a.rp>>} ELSE conflicts
      /\ work' = Written(w)
      /\ UNCHANGED <<trees, failures, queue, status, budget>>

\* writeMoveActionResults: the row of the source, then that of the target.
WriteSource(w) ==
  /\ At(w, "write") /\ Moving(w) /\ ~Refused(Cur(w).act.src)
  /\ Upsert(Cur(w).act.src, moveSourceRow(work[w].src))
  /\ work' = [work EXCEPT ![w].pc = "target"]
  /\ UNCHANGED <<trees, conflicts, failures, queue, status, budget>>

WriteTarget(w) ==
  /\ At(w, "target") /\ ~Refused(Cur(w).act.rel)
  /\ Upsert(Cur(w).act.rel, moveDestRow(work[w].src, work[w].prev))
  /\ work' = Written(w)
  /\ UNCHANGED <<trees, conflicts, failures, queue, status, budget>>

Dequeue(w) ==
  /\ At(w, "dequeue")
  /\ work' = [work EXCEPT ![w].pc = "next", ![w].todo = Tail(@)]
  /\ queue' = Forget(SetStatus(queue, Cur(w).id, "succeeded"), work')
  /\ UNCHANGED <<trees, tables, budget>>

----------------------------------------------------------------------------
(* Failures.                                                               *)

\* recordActionFailure, then the caller's error path: a run stores the item as
\* retry_wait, marks the task degraded and stops; the scheduler keeps the
\* status it listed, or gives the item up, and goes on with the next.
FailRun(w) ==
  /\ work[w].mode = "run"
  /\ work' = [work EXCEPT ![w] = Idle]
  /\ queue' = Forget(Reschedule(queue, Cur(w).id, "retry_wait", Bump(Cur(w).attempt)), work')
  /\ status' = "degraded"

\* The scheduler goes on with the next item.
Skipping(w) == [work EXCEPT ![w] = Working("next", @.mode, @.st, @.snap, Tail(@.todo))]

\* Mutant: an item is never given up.
RetriedForEver(w) ==
  /\ work' = Skipping(w)
  /\ queue' = Forget(Reschedule(queue, Cur(w).id, Cur(w).status, Cur(w).attempt + 1), work')

Retried(w) ==
  /\ work' = Skipping(w)
  /\ queue' = Forget(IF Cur(w).attempt + 1 >= MaxAttempts
                     THEN SetStatus(queue, Cur(w).id, "failed")
                     ELSE Reschedule(queue, Cur(w).id, Cur(w).status, Cur(w).attempt + 1), work')

FailOp(w) ==
  /\ work[w].mode = "ops"
  /\ Retried(w)
  /\ UNCHANGED status

Failed(w) ==
  /\ failures' = failures \cup {[op |-> Cur(w).act.op, rel |-> Cur(w).act.rel]}
  /\ FailRun(w) \/ FailOp(w)
  /\ UNCHANGED <<index, conflicts, live>>

EffectFails(w) ==
  LET a == Cur(w).act
  IN  /\ At(w, "exec") /\ ~EffectOK(a)
      /\ local' = IF a.op = "move_local" THEN osRenameFailed(local, a.lp) ELSE local
      /\ Failed(w)
      /\ UNCHANGED <<remote, budget>>

\* The file operation is done, but the row to record it has the id of another.
WriteRefused(w) ==
  /\ \/ At(w, "write") /\ Refused(IF Moving(w) THEN Cur(w).act.src ELSE Cur(w).act.rel)
     \/ At(w, "target") /\ Refused(Cur(w).act.rel)
  /\ Failed(w)
  /\ UNCHANGED <<local, remote, budget>>

RemoteOps == {"create_dir_remote", "delete_remote", "move_remote", "upload_file", "move_conflict_remote"}
FetchOps  == {"download_file", "move_conflict_local"}

\* No answer arrives and the request had no effect.
Transport(w) ==
  /\ "transport" \in scene.faults /\ Spend
  /\ At(w, "exec") /\ Cur(w).act.op \in RemoteOps \cup FetchOps
  /\ Failed(w)
  /\ UNCHANGED <<local, remote>>

\* The server carried the request out; the answer was lost.
LostReply(w) ==
  /\ "lost_reply" \in scene.faults /\ Spend
  /\ At(w, "exec") /\ Cur(w).act.op \in RemoteOps /\ EffectOK(Cur(w).act)
  /\ remote' = RemoteAfter(Cur(w).act)
  /\ Failed(w)
  /\ UNCHANGED local

\* The connection broke inside a GET: os.Create has truncated the target.
CutBody(w) ==
  /\ "cut_body" \in scene.faults /\ Spend
  /\ At(w, "exec") /\ Cur(w).act.op \in FetchOps /\ EffectOK(Cur(w).act)
  /\ local' = osCreate(local, Cur(w).act.lp, Partial)
  /\ Failed(w)
  /\ UNCHANGED remote

\* The server answers with an error status: nothing happens remotely, a GET
\* yields the error body, and the client reports success.
HttpStatus(w) ==
  LET a == Cur(w).act
  IN  /\ "http_status" \in scene.faults /\ Spend
      /\ At(w, "exec") /\ a.op \in RemoteOps \cup FetchOps /\ EffectOK(a)
      /\ local' = IF a.op \in FetchOps THEN osCreate(local, a.lp, ErrBody) ELSE local
      /\ Loaded(w)
      /\ UNCHANGED <<remote, live, tables, queue>>

\* ExecuteQueueOperation refuses with ErrConflict: the attempt is still counted.
Refuse(w) ==
  /\ Pending(w) /\ ~Admitted(w)
  /\ Retried(w)
  /\ UNCHANGED <<trees, tables, budget>>

\* End of the list.  A run that began degraded puts the task back to running.
\* One that began retrying does not, but only two overlapping runs can get a
\* task to retrying.
Finish(w) ==
  /\ At(w, "next") /\ work[w].todo = <<>>
  /\ IF work[w].mode = "run" /\ work[w].st = "degraded"
     THEN status' = "running" \/ (Workers # {w} /\ status' = status)
     ELSE status' = status
  /\ work' = [work EXCEPT ![w] = Idle]
  /\ UNCHANGED <<trees, index, conflicts, failures, queue, budget>>

----------------------------------------------------------------------------
(* The environment: users, the HTTP API, and the process itself.           *)

Quiet == scene.busy \/ \A w \in Workers : At(w, "idle")

\* A user edit takes old out of circulation and puts new into it.
Edit(kind, old, new) ==
  /\ kind \in scene.edits /\ Quiet
  /\ budget.edits > 0
  /\ budget' = [budget EXCEPT !.edits = @ - 1]
  /\ live' = (live \ old) \cup new
  /\ UNCHANGED <<tables, queue, work>>

Holds(t, p) == IF IsFile(t, p) THEN {t[p]} ELSE {}
Below(t, p) == {t[q] : q \in {x \in DOMAIN t : Under(p, x)}} \ {Dir}

LocalWrite(p, c) ==
  /\ osCreateOK(local, p) /\ Holds(local, p) # {c}
  /\ local' = osCreate(local, p, c)
  /\ Edit("local_write", Holds(local, p), {c})
  /\ UNCHANGED remote

LocalRemove(p) ==
  /\ Has(local, p)
  /\ local' = osRemoveAll(local, p)
  /\ Edit("local_remove", Below(local, p), {})
  /\ UNCHANGED remote

LocalRename(p, q) ==
  /\ IsFile(local, p) /\ ~Has(local, q) /\ osCreateOK(local, q)
  /\ local' = osRename(local, p, q)
  /\ Edit("local_rename", {}, {})
  /\ UNCHANGED remote

RemoteWrite(p, c) ==
  /\ osCreateOK(remote, p) /\ Holds(remote, p) # {c}
  /\ remote' = osCreate(remote, p, c)
  /\ Edit("remote_write", Holds(remote, p), {c})
  /\ UNCHANGED local

RemoteRemove(p) ==
  /\ Has(remote, p)
  /\ remote' = osRemoveAll(remote, p)
  /\ Edit("remote_remove", Below(remote, p), {})
  /\ UNCHANGED local

UserEdit ==
  \/ \E p \in scene.paths, c \in scene.contents : LocalWrite(p, c) \/ RemoteWrite(p, c)
  \/ \E p \in DOMAIN local \cup DOMAIN remote : LocalRemove(p) \/ RemoteRemove(p)
  \/ \E p, q \in scene.paths : LocalRename(p, q)

\* POST /tasks/{id}/start on a failed task.  The run it goes on with is the
\* next BeginRun.
Start ==
  /\ status = "failed"
  /\ status' = "running"
  /\ UNCHANGED <<trees, index, conflicts, failures, queue, work, budget>>

Retry == budget.retries > 0 /\ budget' = [budget EXCEPT !.retries = @ - 1]

\* RetryFailures: ResetRetryableByTaskID.
RetryFailures ==
  /\ Retry
  /\ queue' = [i \in DOMAIN queue |->
                 IF queue[i].status \in {"retry_wait", "executing"}
                 THEN [queue[i] EXCEPT !.status = "queued"] ELSE queue[i]]
  /\ UNCHANGED <<trees, tables, work>>

\* isRetryableQueueMatch: target_path is the action's remote path.
RetryMatch(f, it) ==
  /\ it.status \in {"retry_wait", "executing"}
  /\ it.act.op = f.op
  /\ IsSuffix(f.rel, it.act.rp)

\* RetryFailureByID lists the matching items, writes each back as it was read
\* but queued, and resolves the failure: the items may have moved on meanwhile.
RetryFailureByID(f) ==
  LET todo == Selected(queue, {i \in DOMAIN queue : RetryMatch(f, queue[i])})
  IN  /\ Retry
      /\ request.todo = <<>> /\ todo # <<>>
      /\ request' = [failure |-> f, todo |-> todo]
      /\ UNCHANGED <<trees, tables, queue, work>>

Requeue ==
  LET it == Head(request.todo)
  IN  /\ request.todo # <<>>
      /\ queue' = Reschedule(queue, it.id, "queued", it.attempt)
      /\ request' = IF Len(request.todo) = 1 THEN NoRequest ELSE [request EXCEPT !.todo = Tail(@)]
      /\ failures' = IF Len(request.todo) = 1 THEN failures \ {request.failure} ELSE failures
      /\ UNCHANGED <<trees, index, conflicts, status, work, budget>>

\* The process is killed and started again: nothing in the tables is repaired.
Restart(q) ==
  /\ budget.crashes > 0
  /\ budget' = [budget EXCEPT !.crashes = @ - 1]
  /\ work' = [w \in Workers |-> Idle] /\ request' = NoRequest
  /\ queue' = Selected(q, {i \in DOMAIN q : Unfinished(q[i])})
  /\ UNCHANGED <<remote, live, tables>>

Crash ==
  /\ request.todo # <<>> \/ \E w \in Workers : ~At(w, "idle")
  /\ Restart(queue) /\ UNCHANGED local

\* A kill inside a GET: os.Create has truncated the target.
CrashFetching(w) ==
  /\ At(w, "exec") /\ Cur(w).act.op \in FetchOps /\ EffectOK(Cur(w).act)
  /\ local' = osCreate(local, Cur(w).act.lp, Partial)
  /\ Restart(queue)

\* Items are inserted one by one: a kill leaves the first n of a plan.
CrashEnqueueing(w) ==
  /\ At(w, "snap")
  /\ \E plan \in PlansFrom(w, remote) :
       \E n \in 1..(Len(plan) - 1) : Restart(Enqueue(SubSeq(plan, 1, n)))
  /\ UNCHANGED local

----------------------------------------------------------------------------
Init ==
  /\ scene \in Scenarios
  /\ local \in scene.trees /\ remote \in scene.trees
  /\ index = <<>> /\ conflicts = {} /\ failures = {} /\ queue = <<>>
  /\ status = "running"
  /\ work = [w \in Workers |-> Idle] /\ request = NoRequest
  /\ live = (Range(local) \cup Range(remote)) \ {Dir}
  /\ shared = DOMAIN remote
  /\ budget = scene.budget

Progress(w) ==
  \/ PlanRun(w) \/ PlanFails(w) \/ List(w)
  \/ Skip(w) \/ Claim(w) \/ Effect(w) \/ EffectFails(w)
  \/ Write(w) \/ WriteSource(w) \/ WriteTarget(w) \/ WriteRefused(w)
  \/ Dequeue(w) \/ Refuse(w) \/ Finish(w)

Faults(w) ==
  \/ PlanFault(w) \/ PlanBlind(w) \/ PlanMisled(w)
  \/ Transport(w) \/ LostReply(w) \/ CutBody(w) \/ HttpStatus(w)

Step ==
  \/ /\ \/ \E w \in Workers : BeginRun(w) \/ ListDue(w) \/ Progress(w) \/ Faults(w)
        \/ UserEdit
        \/ Start \/ RetryFailures
     /\ UNCHANGED request
  \/ \E f \in failures : RetryFailureByID(f)
  \/ Requeue
  \/ Crash \/ \E w \in Workers : CrashEnqueueing(w) \/ CrashFetching(w)

Recorded == shared' = shared \cup DOMAIN remote' /\ UNCHANGED scene
Next == Step /\ Recorded

Spec == Init /\ [][Next]_vars

\* Every goroutine goes on with the call it is in.  Each tick of the scheduler
\* looks at the tasks before it looks at the queue, and a task is due again one
\* interval after its last run, so a run cannot be put off for ever.
Fairness ==
  /\ \A w \in Workers : WF_vars(Progress(w) /\ UNCHANGED request /\ Recorded)
  /\ SF_vars(BeginRun(Scheduler) /\ UNCHANGED request /\ Recorded)
  /\ WF_vars(Requeue /\ Recorded)

FairSpec == Spec /\ Fairness
----------------------------------------------------------------------------
(* Properties.                                                             *)

Statuses == {"running", "degraded", "failed"}
ItemOK(it) == it.act.op \in Ops /\ it.status \in ItemStatus /\ it.attempt \in 0..MaxAttempts

\* Type invariant: rows, items and workers are well formed.
TypeOK ==
  /\ \A p \in DOMAIN index : index[p] \in Row
  /\ \A i \in DOMAIN queue : ItemOK(queue[i])
  /\ status \in Statuses
  /\ \A w \in Workers :
       /\ work[w].pc \in {"idle", "snap", "list", "next"} \cup Handling
       /\ work[w].mode \in {"run", "ops"}
       /\ work[w].pc \in Handling => work[w].todo # <<>>
       /\ \A i \in DOMAIN work[w].todo : ItemOK(work[w].todo[i])
       /\ {work[w].prev, work[w].src} \subseteq Row
  /\ \A i \in DOMAIN request.todo : ItemOK(request.todo[i])

\* Whatever mixture of actions, retries, crashes and concurrent workers wrote
\* the file index, a row's sync_state is the one its flags imply and a
\* tombstone never sits on a row that says both sides exist
\* (writeActionResult, writeMoveActionResults).
IndexConsistent == \A p \in DOMAIN index : RowConsistent(index[p])

\* With keep_both and without mirror deletes, a content some user wrote and
\* nobody removed is still on one of the two sides: conflict copies keep what
\* a run would otherwise overwrite.
NothingLost ==
  task.conflict = "keep_both" /\ ~task.mirror => live \subseteq Range(local) \cup Range(remote)

\* A worker removes a local file only if its path has been on the remote side:
\* mirror deletes need evidence that the file was synced before.
DeleteNeedsEvidence ==
  [][\A w \in Workers :
       At(w, "exec") /\ work'[w].pc = "write" /\ Cur(w).act.op = "delete_local"
         => Cur(w).act.lp \in shared]_vars

\* The remote side as a run sees it that meets no fault while it plans.
Listing == Listed(remote, scene.slashed)

\* What a run of a bidirectional task puts into the queue is justified by its
\* snapshot, the listing it got and the index: no delete without a row that says
\* the path was synced, no file written over unless the policy says so, no move
\* onto a path that is taken.
PlansJustified ==
  [][\A w \in Workers :
       task.direction = "bidirectional" /\ At(w, "snap") /\ work'[w].pc = "list" /\ budget' = budget
         => \A i \in DOMAIN queue' \ DOMAIN queue :
              Justified(task, work[w].snap, local, Listing, index, queue'[i].act)]_vars

\* Whatever order the maps are walked in, no two items a run puts into the queue
\* are about one path, except the two halves of a conflict, of which the local
\* copy comes first: the order of a plan decides nothing about a single path.
PlansApart ==
  [][\A w \in Workers :
       At(w, "snap") /\ work'[w].pc = "list"
         => \A i, j \in DOMAIN queue' \ DOMAIN queue :
              i < j => Apart(queue'[i].act, queue'[j].act)]_vars

\* A run overlooks nothing: whatever it mistakes for a move, every path that calls
\* for an action when it plans is the path of one it puts into the queue.  (The
\* bound on the queue, which the code has not, is not reached.)
PlansComplete ==
  [][\A w \in Workers :
       At(w, "snap") /\ work'[w].pc = "list" /\ budget' = budget /\ Len(queue') < scene.queueCap
         => \A p \in DOMAIN work[w].snap \cup DOMAIN Listing :
              Calls(task, work[w].snap, local, Listing, p)
                => \E i \in DOMAIN queue' \ DOMAIN queue : p \in Touched(queue'[i].act)]_vars

\* What executing the action a may take from a side: a deletion what is at and
\* below its path, if the task mirrors deletes; a transfer the file it writes over;
\* a move what it replaces, and what it takes along, which is then where it went.
Carried(src, dst, t, t2, p) ==
  LET q == dst \o SubSeq(p, Len(src) + 1, Len(p))
  IN  Under(src, p) /\ Has(t2, q) /\ t2[q] = t[p]
TakenLocally(a, p) ==
  \/ a.op = "delete_local" /\ task.mirror /\ Under(a.lp, p)
  \/ a.op \in FetchOps /\ p = a.lp /\ IsFile(local, p)
  \/ a.op = "move_local" /\ (Under(a.lp, p) \/ Carried(a.src, a.lp, local, local', p))
TakenRemotely(a, p) ==
  \/ a.op = "delete_remote" /\ task.mirror /\ Under(Joined(a.rp), p)
  \/ a.op \in {"upload_file", "move_conflict_remote"} /\ p = a.rp /\ IsFile(remote, p)
  \/ a.op = "move_remote" /\ (Under(a.rp, p) \/ Carried(Joined(a.src), a.rp, remote, remote', p))
Gone(t, t2) == {p \in DOMAIN t : ~(Has(t2, p) /\ t2[p] = t[p])}

\* Nothing disappears from either side behind a user's back: whatever else goes
\* wrong, what a step other than an edit removes or replaces is what the item a
\* worker has in hand is about, and only a task that mirrors deletes removes
\* anything without putting it elsewhere or something else in its place.
LossesExplained ==
  [][budget'.edits = budget.edits =>
       /\ \A p \in Gone(local, local') :
            \E w \in Workers : At(w, "exec") /\ TakenLocally(Cur(w).act, p)
       /\ \A p \in Gone(remote, remote') :
            \E w \in Workers : At(w, "exec") /\ TakenRemotely(Cur(w).act, p)]_vars

\* As long as no request has failed or been refused and no kill has come between,
\* both copies a conflict names exist when it goes on record: the remote content
\* next to the local file, the local content next to the remote one.  (What a
\* failure of one half leaves is the business of NothingLost.)
Undisturbed == [budget EXCEPT !.edits = 0] = [scene.budget EXCEPT !.edits = 0]
ConflictsKept ==
  [][Undisturbed => \A c \in conflicts' \ conflicts : Has(local, c[2]) /\ Has(remote, c[3])]_vars

OneWayStep ==
  /\ task.direction = "upload" =>
       local' = local /\ (~task.mirror => DOMAIN remote \subseteq DOMAIN remote')
  /\ task.direction = "download" =>
       remote' = remote /\ (~task.mirror => DOMAIN local \subseteq DOMAIN local')

\* A one-way task never writes to the side it copies from, and without mirror
\* deletes it removes nothing from the other side either, whatever requests
\* fail, are answered with an error page or are retried after a kill.
OneWay == [][budget'.edits = budget.edits => OneWayStep]_vars

\* A run that meets no fault fails as a whole for one of two reasons only,
\* whoever else works or edits meanwhile: a file of its snapshot is no longer one
\* when it is compared, or a local directory that was synced is not listed under
\* its name (it is gone from the remote side, or the server writes a slash after
\* it), and move detection reads it like a file.
Changed(snap, p) == snap[p] # Dir /\ ~readable(local, p)
LostDirectory(snap, p) == snap[p] = Dir /\ ~Has(Listing, p) /\ isMoveCandidate(RowOf(index, p))
FailuresExplained ==
  [][status' = "failed" /\ status # "failed" /\ budget' = budget =>
       \E w \in Workers : \E p \in DOMAIN work[w].snap :
         Changed(work[w].snap, p) \/ LostDirectory(work[w].snap, p)]_vars

\* The row with this id is being executed by some worker.
InHand(id) == \E w \in Workers : work[w].pc \in Handling /\ Cur(w).id = id

\* Some item that is due again and again cannot be executed: what it reads or
\* writes locally is gone or in its way.
Stuck ==
  \E i \in DOMAIN queue :
    /\ queue[i].status \in Executable \/ InHand(queue[i].id)
    /\ ~EffectOK(queue[i].act)

\* Every file and directory on the local side is on the remote side too.
BroughtOver == \A p \in DOMAIN local : Has(remote, p) /\ remote[p] = local[p]

\* Once users stop editing, an upload task gets everything over and keeps it
\* there, whatever finite number of requests fail and however often the process
\* is killed, and clears away the rest if it mirrors deletes; only a file that
\* was removed while its upload waited, or a listing that failed, keeps it from
\* that.  (A mirroring task whose server lists collections with a slash is left
\* out: it deletes what it made, see DeletesPropagate.)
UploadConverges ==
  task.direction = "upload" /\ (task.mirror => ~scene.slashed) =>
    \/ <>[](BroughtOver /\ (task.mirror => DOMAIN remote \subseteq DOMAIN local))
    \/ <>[]Stuck
    \/ <>[](status = "failed")

\* The two sides of any other task end up equal once users stop editing, with the
\* same exceptions.
SidesConverge ==
  task.direction # "upload" /\ ~scene.slashed =>
    <>[](local = remote) \/ <>[]Stuck \/ <>[](status = "failed")

\* PRD:240, "the failure of a single file must not stop the whole task": an
\* upload task gets over all there is, even if an item of it fails for good.
OthersGoOn == task.direction = "upload" => <>[]BroughtOver

\* README:80, "conservative mirror delete propagation gated by prior evidence": as
\* long as nobody has edited anything, a two-way task deletes nothing.
DeletesPropagate ==
  [][task.direction = "bidirectional" /\ budget'.edits = scene.budget.edits =>
       DOMAIN local \subseteq DOMAIN local' /\ DOMAIN remote \subseteq DOMAIN remote']_vars

----------------------------------------------------------------------------
(* The queue, as a single worker drives it, implements OperationQueue.     *)

QueueIds == UNION {1..s.queueCap : s \in Scenarios}
RowLife(s) ==
  CASE s \in Executable -> "waiting" [] s = "executing" -> "orphaned" [] OTHER -> "finished"
Life(id) ==
  IF InHand(id) THEN "held"
  ELSE LET rows == {i \in DOMAIN queue : queue[i].id = id}
       IN  IF rows = {} THEN "absent" ELSE RowLife(queue[CHOOSE i \in rows : TRUE].status)

Queue == INSTANCE OperationQueue WITH
           Ids <- QueueIds, life <- [id \in QueueIds |-> Life(id)], asked <- ItemIds(request.todo)

\* Whatever edits, faults, kills and retry requests do to it, a row of the queue
\* lives the life OperationQueue describes: it is executed by one worker at a
\* time, and neither a finished row nor one a kill left executing is executed
\* again unless a user asks for it.
QueueLife == Queue!Spec
=============================================================================
