# Verification of fn-cloudsync

TLA+ models of the synchronisation core of fn-cloudsync (a Go server that keeps
local directories and WebDAV directories in step), TLC runs that check them on
small instances, and TLAPS proofs about them for instances of any size.
`PROJECT.json` lists the runs, which definition models which lines, the hazards
of the code, the disagreements found between code and documents, and the
theorems.

Short names: *PRD* is `docs/prd/2026-03-24-golang-webdav-cloud-sync-prd.md`,
*design* is `docs/superpowers/specs/2026-03-24-golang-webdav-cloud-sync-design.md`.

## 1. The system

| Component | State | Operations | Talks to |
|---|---|---|---|
| `app.TaskService` | none of its own; all state is in tables | Create, Update, Delete, Start, Pause, Stop, ExecuteRunningTask, PollRemoteTask, ExecuteQueueOperation, RetryFailures, RetryFailureByID | every repository, the baseline runner |
| `scheduler` | none | Tick: run the tasks that are due, then drain the queue | TaskService, queue |
| `poller` | none | Tick: PollRemoteTask for due tasks that download | TaskService |
| `watcher` | roots, watched directories, last trigger per task | reconcile, handleEvent | TaskService, fsnotify |
| `sync.BaselineRunner` | none | Plan, ExecuteAction (file operation, then index row) | both trees, file_index, conflict_history |
| `connector/webdav` | none | MKCOL, PUT, GET, MOVE, DELETE, PROPFIND | WebDAV server |
| `store/sqlite` | tables connections, tasks, task_runtime_state, file_index, operation_queue, failure_records, conflict_history | one SQL statement per call, no transaction over two | SQLite |
| `app.ConnectionService` | connections | Create, Update, Delete, TestConnection | tasks (foreign key) |
| HTTP API, secrets, config, logger, admin page | none | decoding, encryption, display | the services |

`cmd/server/main.go` starts three goroutines (scheduler, poller, watcher) next to
the HTTP server; each handler is a goroutine too.  All of them call the same
TaskService, which has no lock.  What makes the system hard is therefore:

* **Interleaving.** A run reads a task row, works for seconds or hours and writes
  all columns back.  Nothing keeps two goroutines from running one task.
* **Failure.** Requests get lost, answers get lost, bodies are cut, and the client
  never looks at an HTTP status.
* **Retries.** An action planned in one run may be executed in a later one, against
  trees that have changed, and a retried action may be skipped.
* **Restarts.** The process may die between a file operation and the row that
  records it.
* **Random order.** Plans are built by ranging over Go maps.

What makes the parts correct:

* task control: tables refer to rows that exist; a paused task stays paused; a task
  that got into trouble gets out of it; the record of the last success survives;
* data plane: no user content is lost under `keep_both`; mirror deletes happen only
  to files that were synced; the sides converge; the index says what it means;
  each item is executed by one worker at a time and none is left behind;
* triggers: a local change is followed by a run that sees it, whatever happens to
  the events; the watcher knows what the kernel watches and gives watches back;
* connections: what is stored about a server belongs to that server, passwords are
  stored encrypted, and a request undoes an edit only if it overlapped it.

## 2. The modules

```
FileTree    FileIndex                     TaskRuns
     \      /      \                          |
     Planner       FileIndex_proofs        Watcher
        |   \          |                       |
        |    Planner_proofs               Triggers ---- MCTriggers
        |              |                      |
     SyncTask ---- MCSyncTask             Triggers_proofs
        :    \         |
        :     SyncTask_proofs
        :              |
   OperationQueue  SyncQueue_proofs
   (implemented)

TaskControl ---- MCTaskControl        Connections ---- MCConnections
     |                                     |
TaskControl_proofs                    Connections_proofs
```

SyncTask is one task and its files, TaskControl the tables and who writes them,
Triggers what sets runs off, Connections the table of servers.

**FileIndex** - a row of `file_index`, reduced to the columns some decision reads;
what `writeActionResult` and `writeMoveActionResults` write; `isMoveCandidate`, the
mirror rule, `nextConflictVersion`, `shouldSkipActionExecution`.

**FileTree** - a tree is a function from paths to `Dir` or a content.  Local
operations have a guard (no error is returned) and a result.  Remote operations have
a result only: the client reports success for every answer, so a request the server
refuses is one that changes nothing.  `davGet` of a missing file yields the error
body.  A name is a tuple of marks, so that `fileIndexID` (which writes `_` for `/`)
can map two paths to one id.  A trailing slash is a last segment without a name:
`Listed` is the listing of a server that writes one after each collection (servers
differ), which the client does not take off, and `Joined` is what `path.Join` and
`filepath.Join` make of such a path.  Rows and queue items keep the slash.

**Planner** - `Plan` as a set of possible action sequences, one for every order the
Go maps may be visited in.  Move detection takes the first match it meets; its result
is any maximal one-to-one matching.  `actionsFromLocal` and `actionsFromRemote` are the
bodies of the two loops; `Emitted` is a loop over a map.  `Justified` is not code: it
says what has to be true of the trees and the index for an action to be planned.
`Apart` is not code either: two actions have no path in common (`Touched`: the path an
action is about and the source of a move), or are the two halves of a conflict in their
order.  And `Calls` says which paths must get an action, so that the three together say
path by path what a plan holds.

**SyncTask** - one task's data plane.  Each worker (a goroutine in `executeTask` or in
the queue half of `Scheduler.Tick`) is a small program:

| Step | Code |
|---|---|
| `BeginRun` | ExecuteRunningTask, then `snapshotLocal` |
| `PlanRun`, `PlanFails`, `PlanFault` | rest of `Plan`, the Enqueue loop; the error path of executeTask |
| `PlanBlind`, `PlanMisled` | the same after a PROPFIND answered with an error page, which lists a directory as empty; after a GET of `sameFile` answered with an error status |
| `List`, `ListDue` | ListByTaskID; ListDue |
| `Skip`, `Claim` | executeQueueOperationResolved up to the Reschedule to `executing` |
| `Effect`, `EffectFails` | executePlan, then the index read of writeActionResult |
| `Write`; `WriteSource`, `WriteTarget` | the index row and the conflict record; the two rows of a move |
| `WriteRefused` | the row has the primary key of another path's |
| `Dequeue`, `Finish` | Dequeue; the end of executeTask |
| `Failed`, `Refuse` | recordActionFailure and the caller's error path; ErrConflict |
| `Transport`, `LostReply`, `CutBody`, `HttpStatus` | what the network can do to a request |
| `RetryFailures`, `RetryFailureByID`/`Requeue`, `Start` | HTTP requests |
| `Crash`, `CrashEnqueueing`, `CrashFetching` | kill and restart, at any step, inside the Enqueue loop or while a body arrives (a partial file is left): the tables stay as they are |

Users write, remove and rename files on either side.  `live` (contents users wrote
and did not destroy) and `shared` (paths that were ever on the remote side) are
history variables for the properties.  A behaviour begins by picking a *scenario*
(`scene`): the task's policies, the trees, whether the server writes a slash after
collections (`slashed`), which goroutines come to run the task (`workers`), which edits and faults may occur and how many of each.

**OperationQueue** - what the queue promises, without statuses, attempts, listings
and copies: a row waits, is held by one worker, and is finished, given back or given
up; only a user's retry brings back a finished row or one a kill left behind.
SyncTask implements it under the mapping `Life` (a row is *held* while some worker has
it in hand, *orphaned* when it says `executing` and nobody has it); `QueueLife` is that
refinement.  It holds for one worker.  With two, both may take the same row, because
listing and marking are two statements.

**TaskControl** - the control plane of several tasks and connections: every
repository call that changes a table is one step of the goroutine that makes it.
Runs are reduced to their outcome (succeed, degraded, failed, or `ResolveFails`: the
connection's password cannot be decrypted).  `upsertRuntimeState`
is two steps (read the checkpoint, write the row).  `stale` is a history variable:
the goroutines whose copy of a task row predates the moment the task was last taken
out of service.  `overlap` is another: the goroutines that worked on a task while
another one did.  `HangUp` is a client that goes away: the request's context is
cancelled, and every statement still to come, those of the run that Start called
included, fails.

**TaskRuns, Watcher, Triggers** - TaskRuns is a run as its caller sees it: it may be
refused, it clears the timestamps when it begins, it scans the tree, and it ends at
some time or never (`Hang`: the HTTP client has no timeout).  Watcher is `reconcile`
and `handleEvent` in the steps between which the file system or another goroutine may
act: read the task list, register one task's directories, release the rest; take an
event, run one task it concerns.  The kernel's watches (`kernel`) are kept apart from
the watcher's table (`watched`).  Triggers composes them with the loops of scheduler and poller,
Start, Pause and restarts.  `dirty` is a history variable: tasks whose tree changed since a
successful run scanned it.

**Connections** - the four requests of ConnectionService, statement by statement; a
ciphertext is the password and the key it was made with.  A test writes back the row
it read before the probe.  `contended` is a history variable: requests whose copy of
the row another one has outdated.

Abstractions worth knowing:

* Enqueueing one plan is one step (a kill may cut it short), and so are planning's remote snapshot, index read
  and comparisons; the local snapshot is a step before.
* Time is left out of SyncTask and TaskControl: `NextAttemptAt`, `nextBackoff`,
  `shouldRun` and `shouldPoll` say *when* something happens, and there it may happen at
  any time.  Triggers has `shouldRun` and `shouldPoll`, with timestamps that are none,
  fresh or old.
* In SyncTask `degraded` stands for `retrying` too; TaskControl tells them apart.
* Finished queue rows that nobody holds a copy of are dropped, and a row's version
  stops at `versionCap` in one-way tasks, where nothing reads it.
* Statements fail only on a key or because the request's context is cancelled; the
  contexts of the background goroutines end with the process.  A MKCOL chain is carried out entirely or not at all, and an upload
  cut off half way leaves nothing on the server.
* The local root exists: `snapshotLocal` itself does not fail.  The watcher gets its
  inotify instance: without one its goroutine returns and only the scheduler is left.
* In Triggers a task keeps its root and direction, and tasks are neither created nor
  deleted.

## 3. The runs

Passing runs:

| Run | Instance | Shows |
|---|---|---|
| `safety` | ten scenarios, nine of them with one worker: two files, three contents and three edits of any kind between runs of a `keep_both` task; `d/f` and `d_f`, whose rows have one id; a directory that disappears on the remote side while a new file turns up there, on a server that writes slashes and on one that does not; a request of the planner or of an action answered with an error status; a conflict with one fault of any kind and a retry request, or a kill, between its halves; a move with a lost answer and a kill; a mirror task with two edits at any moment, one fault, one kill, one manual retry; scheduler and poller at once on one file of a mirror task, with one removal at any moment and one lost request | `NothingLost`, `ConflictsKept`, `FailuresExplained`, `PlansJustified`, `PlansApart`, `PlansComplete`, `LossesExplained`, `IndexConsistent`, `DeleteNeedsEvidence`, `TypeOK` |
| `converge` | one worker; a file in a directory under a mirroring download task and an upload task with and without mirroring, the file rewritten, removed or renamed at any moment, so also while its upload waits; two files under a two-way task; one fault, one kill, one retry request | `SidesConverge`, `UploadConverges`, `OneWay`, `QueueLife` |
| `control` | scheduler, poller and one handler on one task; one request that may be hung up on and one failing run, or two failing runs | `RefIntegrity`, `ActivationNeedsStart`, `RetryingNeedsOverlap`, `TypeOK` |
| `recovery` | scheduler, watcher and one handler, two connections of which any may exist at first; a failing run with a request or a restart | `DegradedRecovers`, `RefIntegrity` |
| `triggers` | an upload and a two-way task on one root with one subdirectory, and an upload task on that subdirectory; edits, a request, a fault (a failing run, a hanging request, refused watches, a restart) | `ChangeIsSeen`, `WatchesReleased`, `TableAgrees` |
| `connections` | two requests on one connection, two servers, passwords and keys; no bound on the number of requests | `CapsWereProbed`, `UncontendedWrites`, `TypeOK` |

What the convergence properties except is what the code does not recover from, and no
more: an item that comes up again and again and cannot be executed (`Stuck`: the file
an upload reads is gone, or something is in the way of a download), a listing that
failed (the task is `failed` until somebody starts it), and mirroring tasks on a server
that writes slashes.  What the documents say of these cases is checked by `blocked` and
`slashed_mirror` below.  `FailuresExplained` says why a run fails that meets no fault,
whoever edits or works at the same time: a file of its snapshot is gone or a directory
when it is compared, or a local directory that was synced is not listed under its name.

Runs that end in a violation, each of a sentence some document states (quoted under
"findings" in `PROJECT.json`):

| Run | What happens |
|---|---|
| `mirror_directory` | a file is uploaded before its directory exists; the refusal is ignored, the index says "synced", the next run deletes the local file |
| `stale_download` | a retried download overwrites a file created since it was planned |
| `pause` | a run that was under way un-pauses the task |
| `rewatch` | a directory that is removed and made again is never watched again |
| `blocked` | a file is removed while its upload waits; the item fails in each run and the file behind it never gets over |
| `slashed_mirror` | on a server that lists `docs` as `docs/`, a two-way mirroring task deletes a directory both sides had, nobody having edited anything |

The models also show the following, which follow from one or two lines of the code
and are not kept as runs:

* two workers that execute one item may both write its index row at one version, or the
  second at a lower one: nothing compares the stored version (`planner.go:107`; design:244
  says `version` keeps threads from overwriting each other's writes);
* a server that accepts a request and never answers stops the loop that made it: the
  client has no timeout, and a connection's `timeout_sec` is never read (`client.go:41`;
  PRD:252 asks for recovery from timeouts).  `ChangeIsSeen` shows that only the
  scheduler's own waiting keeps a change from being brought over;
* a run that cannot resolve its connection, as after a change of the secret key, leaves
  the task failed without a failure record and its runtime row saying `running`
  (`task_service.go:552`; PRD:254 asks for a reason and recent failures);
* a server that refuses the password with an XML body passes the connection test, since
  `Probe` looks at no status (`client.go:81`; PRD:80);
* a failed task is never retried: its `baseline_sync` item calls ExecuteRunningTask,
  which refuses failed tasks (`task_service.go:457`; PRD:307 asks for recovery);
* `d/f` and `d_f` in one task never come to rest: the row of the second is refused each
  time, after its file operation has been done (`baseline_runner.go:453`);
* an empty listing makes a mirror task delete synced local files and download them
  again in the next run, and lets any two-way task upload over a newer remote file
  (`client.go:168`);
* an Update that overlaps a TestConnection is undone by it
  (`connection_service.go:149`);
* a PUT answered by a 5xx status counts as done, with the same outcome as in
  `mirror_directory` (`client.go:308`);
* two workers may execute one item, because `executing` is written without looking
  at the stored status (`task_service.go:529`);
* on a server that writes slashes a mirroring download task makes each directory in
  one run and deletes it in the next: the remote key `docs/` and the local key `docs` never meet
  (`client.go:194`, `baseline_runner.go:160`);
* an item that was `executing` when the process died stays so: `ListDue` and
  `isExecutableQueueStatus` both leave it out until somebody asks for a retry of the
  task's failures; the next run plans its action anew under another id;
* a directory that takes part in move detection is opened as a file and planning
  fails (`planner.go:608`): one of the two reasons in `FailuresExplained`;
* the start of a run erases the last success (`task_service.go:543`);
* a task that reached `retrying` never returns to `running` (`task_service.go:599`).

### Bounds

* Two files (or one in a directory) and two or three contents are enough for every
  branch of the planner: a conflict needs two contents on one path, a move needs two
  paths, the order hazard needs a directory with a file in it.
* `MaxAttempts` is 10 in the code and 2 or 3 here: the code compares attempts with 0
  and with the limit only.  The loop of a run, which has no limit, counts past it; the
  model stays at `MaxAttempts` there (`Bump`), which any comparison with 0 or the limit
  takes for the same.  So `TypeOK` shows that the scheduler gives up in time, and says
  nothing of how often a run tries.
* Scenario budgets (`Scenarios`), `Budgets` and `Starts` bound edits, faults, kills and
  requests; a bound is spent, never reset.  Convergence is about what happens when the
  environment has calmed down.
* `queueCap` bounds the rows kept; rows past it are dropped as if the run had not
  planned them, and a later run plans them again.
* `versionCap` stops bidirectional tasks from starting further runs: `keep_both`
  makes new copies as long as the two contents differ, so it never comes to rest by
  itself.  In the two-way scenario of `converge` the cap is above what the bounded edits
  and faults can reach.
* `EventCap` is 1 for a channel of 64: what matters is that events get lost when it is
  full.  One subdirectory is enough for a directory that comes and goes below a root,
  and two tasks for a shared root, for a root below another one, and for a loop that
  waits with one task behind another.
* Handlers are symmetric in `connections` (safety only).
* Deadlock is checked in `triggers` and `connections`.  Elsewhere the model may really
  stop: at `versionCap`, or when all tasks are dormant and no request is left.

### Fairness

`FairSpec` assumes weak fairness of the steps inside a call (a goroutine goes on;
every request ends with an answer or an error) and strong fairness of the
scheduler's beginning a run: each tick visits the tasks before it drains the queue,
and a task is due at the latest one interval after its last run.  That a request ends
is an assumption about the network in SyncTask and TaskControl: the client sets no
timeout (see the hazard at `client.go:41`).  Triggers has requests that hang; there
`ChangeIsSeen` is stated for behaviours in which the scheduler does not hang for ever,
`WatchesReleased` for those in which the watcher does not (any other goroutine may),
and the fairness is: tickers tick, calls that do not hang end, time
passes for each task, the watcher goes on with what it does, and (strong fairness) its
`select` takes the refresh ticker if that is ready again and again.  Go chooses among
the ready cases of a `select` at random, so events alone cannot keep the ticker out.
Faults, edits, crashes and requests are never forced.

## 4. What is proved

`TaskControl_proofs` (any tasks, connections, goroutines, slots and bounds, under
`ControlAssumption`):

* `TypeCorrect`: `Spec => []TypeOK`
* `ReferentialIntegrity`: `Spec => []RefIntegrity`
* `ActivationTheorem`: `Spec => ActivationNeedsStart`
* `StreakTheorem`: `Spec => []RetryingNeedsOverlap`

The inductive invariant `IInv` adds to `TypeOK` and `RefIntegrity`:

* `KindOK`: the kind of call a goroutine is in fits where it is;
* `SnapOK`: every run's copy of a task row is schedulable.  Without it nothing says
  that writing the copy back does not raise a dormant task;
* `CopyOK`: a goroutine that is not `stale` holds a copy that agrees with the table on
  whether the task is in service.  This links copies to the table and carries the activation
  theorem.

The proof has one lemma per kind of step (a step that goes on in a call, one that
ends it, a trigger, a request, a restart) and one per conjunct; `NextIInv` puts them
together by cases on `Next`.  `IInv` was checked with TLC on the control
instances first.  `StreakTheorem` adds `StreakOK`: a run that met no other call on its
task has written a row without a streak and finds that row when it reads it back.

`Triggers_proofs` (any tasks, roots, directories and bounds): `TableTheorem`,
`Spec => []TableAgrees`.  The invariant is inductive as it stands; the lemmas follow
the steps that touch the table (`Walk`, `Sweep`, `RemoveDir`, a restart).

`Connections_proofs` (any connections, servers, passwords, keys and handlers):
`TypeCorrect` (`Spec => []TypeOK`), `CapsTheorem` and `UncontendedTheorem`.  The
inductive invariant says the same of the copies the requests hold: `CopiesProbed` (a
copy's capabilities are its own endpoint's) and `CopiesFresh` (a copy nobody outdated
agrees with the table in what its request leaves alone).

`FileIndex_proofs` (any row, action and version):

* `ActionResultWritten`, `MoveResultWritten`: the rows written are well formed,
  consistent, and newer than the rows they replace;
* `AppliedIsSkipped`: the skip rule recognises the result of each kind of action.

`Planner_proofs` (any trees of finitely many paths, any index, any order of the maps):

* `PlansPlanned`: a plan is a sequence of actions the executor can handle; only a
  mirroring task plans deletes, and a one-way task plans nothing against its source;
* `BidirectionalPlansJustified`: each action of a two-way plan is `Justified`;
* `PathsApart`: any two actions of a plan are `Apart`, so that the random order of the
  maps decides nothing about a single path.  It does decide whether a file comes before
  its directory, and the names of conflict copies, made up from the index, are not among
  the paths compared;
* `PathsCovered`: each path that `Calls` for an action is the path of one, whatever was
  taken for a move.  A two-way task has no answer to a local file where the remote side
  has a directory: `Calls` leaves such a path out.

The argument of the last two follows the phases of a plan: each loop stays within the
paths it visits, one round is about one path (`Round`), the matchings are one-to-one and
use disjoint paths, and the later loops leave out what was matched and nothing else.

What a plan looks like depends on the recursive function inside `FlattenSeq`, for as
many rounds as there are paths.  The induction this needs is done with a set in the
place of a predicate: `NatSetInduction` (a set that holds 0 and every successor of a
member holds all naturals) follows from the well-foundedness of `<`, and a set, unlike
an operator, is something the provers can instantiate.

`SyncTask_proofs` (any scenarios, faults, kills, retries and bounds, under
`SyncAssumption`: the scheduler is one of the workers, attempts have a positive limit,
trees are finite):

| Theorem | States | For |
|---|---|---|
| `SyncTypeCorrect` | `TypeOK` | any workers |
| `IndexStaysConsistent` | `IndexConsistent` | any workers |
| `OneWayHolds` | `OneWay` | any workers |
| `RunsJustified` | `PlansJustified` | any workers, users editing at any moment |
| `RunsApart` | `PlansApart` | any workers, any faults, users editing at any moment |
| `RunsComplete` | `PlansComplete` | any workers, users editing at any moment; planning meets no fault |
| `LossesAreExplained` | `LossesExplained` | any workers, any faults, kills and retries |
| `FailuresAreExplained` | `FailuresExplained` | any workers, users editing at any moment, servers of either kind; planning meets no fault |

The inductive invariant `IInv` has one part per variable.  To `TypeOK` and
`IndexConsistent` it adds what makes them inductive: trees stay finite trees; every
queued item, listed item and item of a retry request is an action some plan of this
task could hold (`PlannedAct`, from `PlansPlanned`), which is what carries `OneWay` over
retries and kills; and the rows a worker read from the index are consistent or absent,
so that what it computes from them is.  There is one lemma per action.

The properties about plans carry the theorems of `Planner_proofs` over to the rows of the
queue: `EnqueuedActs` and `EnqueuedAll` say that the rows a run adds are the plan, in its
order and, below `queueCap`, all of it.

`LossesAreExplained` has two halves.  `TreeChanges`: apart from users only a worker that
executes an item changes a tree.  `LocalTaken` and `RemoteTaken`: what such a step takes
away follows from the file operations, where the case of a move rests on two facts about
paths (`PathBelow`, `BelowPath`: taking the prefix off and putting another one on is
one-to-one), and that only mirroring tasks delete is `PlannedAct`.

`FailuresAreExplained` combines two facts.  `OnlyPlanFails`: without a fault only the
error path of planning marks the task failed.  `PlanFailure`: planning compares files of
the snapshot, which are still files unless somebody changed them, and what move
detection takes for sources, where a directory of the snapshot can only be one that is
not listed and whose row says it was synced.

There is no theorem on the versions of the index: with two workers they do not grow
(section 3), and the program always has three.

`SyncQueue_proofs`: `QueueRefined`, one worker: `Spec => QueueLife`, SyncTask implements
OperationQueue under the mapping `Life`.  The invariant `QInv` relates three copies of
the same rows, the table, the list a worker goes through and the list of a retry
request: ids are distinct in each, what is listed is still in the table, was executable
when listed, and is so still unless the worker has it in hand; a finished row is kept
only for a request that holds it.  One lemma per kind of step shows what it is to the
abstract queue: a stutter, or the step of that name.  With two workers the refinement is false.

Only model-checked, and why:

* `NothingLost` and `DeleteNeedsEvidence` are not true of the code at
  large: the runs `stale_download` and `mirror_directory` violate them.  `ConflictsKept`
  is stated for the time before the first fault, kill or retry (a refused PUT of the
  remote copy violates it after that), and would be violated by a user who removes the
  local copy before the conflict is on record.  They hold on
  the scenarios of the runs, whose trees, edits and faults are chosen; a theorem about
  those would be about the instance.  What is true of the code whatever
  happens is what `PlansJustified` says of the moment of planning: a `keep_both` task
  without mirror deletes plans nothing that removes or writes over what the run saw;
  and what `LossesExplained` says of the moment of executing: nothing goes but what the
  item in hand is about, and such a task only ever writes over a file or moves it.  The
  losses come from executing an item later than it was planned, or from believing a
  refusal;
* `SidesConverge`, `UploadConverges`, `DegradedRecovers`, `ChangeIsSeen` and
  `WatchesReleased`: liveness under fairness is outside the prover.

## 5. What is not modelled

HTTP decoding and encoding, the admin page and logging (no control of their own);
metrics and views (read only); the parsing of PROPFIND entries, but for the slash
after a collection; `Stat` and
`HealthCheck`, which nothing calls; the `RunOnce` path and `persistFileIndex`, which
run only without a queue repository, and `main.go` always sets one; task events, for
which `main.go` sets no repository; the migrations as such.  `operation_queue` sorts
the items of one plan by a text id, so from the eleventh on they are not in plan order
(`operation_queue_repository.go:46`): plans of eleven actions are out of TLC's reach,
and the model keeps plan order.

## 6. Plan

Done: the data plane, the control plane, the triggers, the connections, the abstract
queue, their findings, and the proofs of section 4.

Left, in this order:

1. **The age of an item**: `LossesExplained` says which item takes a content away.  With a
   history of when contents came to be and items were planned, a `keep_both` task that
   loses one could be shown to have executed an item older than it, or to have met a
   refusal.
2. **The order of large plans**: the text order of ids from the eleventh item on.
