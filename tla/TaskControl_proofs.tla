-------------------------- MODULE TaskControl_proofs --------------------------
(***************************************************************************)
(* Proofs about TaskControl, for any number of tasks, connections, HTTP    *)
(* handlers and queue slots and for any bounds.                            *)
(***************************************************************************)
EXTENDS TaskControl, TLAPS

(* The inductive invariant.                                                *)

\* Where upsertRuntimeState is called from.
Conts == {"idle", "enter", "resolve", "exec", "record"}

\* The program counter fits the call the goroutine is in.
KindOK(a) ==
  LET r == act[a]
  IN  /\ r.cont \in Conts
      /\ r.pc = "put" => r.kind = "update"
      /\ r.pc = "transit" => r.kind \in {"start", "pause", "stop"}
      /\ r.pc = "flush" => r.kind \in RunKinds \/ r.cont = "idle"
      /\ r.pc = "opdone" => r.kind = "op"
      /\ r.pc \notin {"idle", "put", "transit", "flush"} => r.kind \in RunKinds

\* A copy of a row never says "absent", and is the row a transition will write.
SnapOK(a) ==
  LET r == act[a]
  IN  /\ Holding(a) => r.snap.status \in Statuses
      /\ Holding(a) /\ r.kind \in RunKinds => r.snap.status \in Schedulable
      /\ r.pc = "transit" /\ r.kind # "start" => r.snap.status \in {"paused", "stopped"}

\* A copy that is not stale agrees with the table on whether the task is in
\* service.
CopyOK(a) ==
  LET r == act[a]
      s == tasks[r.task].status
  IN  /\ Holding(a) /\ a \notin stale /\ r.kind \in RunKinds /\ r.pc # "transit"
           => s \notin Dormant
      /\ r.pc = "put" /\ a \notin stale /\ s \in Dormant => r.snap.status \notin Schedulable

IInv ==
  /\ TypeOK
  /\ \A a \in Actors : KindOK(a)
  /\ \A a \in Actors : SnapOK(a)
  /\ \A a \in Actors : CopyOK(a)
  /\ RefIntegrity

----------------------------------------------------------------------------
(* Types.                                                                  *)

\* The placeholders for "no row", "no item" and "no call" are of the types of
\* the tables they stand in.
LEMMA Placeholders ==
  /\ Absent \in TaskRow /\ Absent.status = "absent"
  /\ NoState \in StateRow /\ NoState.ckpt = ""
  /\ NoItem.task = "none" /\ NoItem \in [task : Tasks \cup {"none"}, attempt : 0..(MaxAttempts - 1)]
  /\ NoActor \in ActorRow /\ NoActor.pc = "idle" /\ NoActor.kind = "none"
<1>1. Absent \in TaskRow /\ Absent.status = "absent"
  BY ControlAssumption DEF Absent, TaskRow
<1>2. NoState \in StateRow /\ NoState.ckpt = ""
  BY DEF NoState, Fresh, StateRow, Phases
<1>3. NoItem.task = "none" /\ NoItem \in [task : Tasks \cup {"none"}, attempt : 0..(MaxAttempts - 1)]
  BY ControlAssumption DEF NoItem
<1>4. NoActor \in ActorRow /\ NoActor.pc = "idle" /\ NoActor.kind = "none"
  <2>1. AnyTask \in Tasks
    BY ControlAssumption DEF AnyTask
  <2>2. AnySlot \in Slots
    BY ControlAssumption DEF AnySlot
  <2>3. Absent \in TaskRow /\ NoState \in StateRow
    BY <1>1, <1>2
  <2>4. NoActor \in ActorRow
    BY <2>1, <2>2, <2>3 DEF NoActor, ActorRow, Pcs, Kinds
  <2> QED
    BY <2>4 DEF NoActor
<1> QED
  BY <1>1, <1>2, <1>3, <1>4

\* A runtime row that carries the stored checkpoint is a runtime row.
LEMMA CarryType ==
  ASSUME TypeOK, NEW t \in Tasks, NEW row \in StateRow
  PROVE  Carry(t, row) \in StateRow
BY DEF TypeOK, Carry, StateRow

\* In particular one made by Fresh.
LEMMA FreshType ==
  ASSUME TypeOK, NEW t \in Tasks, NEW phase \in Phases, NEW streak \in 0..2
  PROVE  Carry(t, Fresh(phase, streak)) \in StateRow
<1>1. Fresh(phase, streak) \in StateRow
  BY DEF Fresh, StateRow
<1> QED
  BY <1>1, CarryType

\* The repository writes keep the types of the tables.
LEMMA WriteType ==
  ASSUME TypeOK, NEW t \in Tasks
  PROVE  /\ \A row \in TaskRow : UpdateTask(t, row) => tasks' \in [Tasks -> TaskRow]
         /\ \A row \in StateRow : UpsertRuntime(t, row) => runtime' \in [Tasks -> StateRow]
BY DEF TypeOK, UpdateTask, UpsertRuntime

\* What a goroutine does next is always a well formed record.
LEMMA ActType ==
  ASSUME TypeOK, NEW a \in Actors, NEW pc \in Pcs, NEW row \in StateRow, NEW ok \in BOOLEAN
  PROVE  /\ Step(a, pc) => act' \in [Actors -> ActorRow]
         /\ Prepare(a, row, pc) => act' \in [Actors -> ActorRow]
         /\ Return(a, ok) => act' \in [Actors -> ActorRow]
<1>0. act[a] \in ActorRow
  BY DEF TypeOK
<1>1. Step(a, pc) => act' \in [Actors -> ActorRow]
  <2>1. [act[a] EXCEPT !.pc = pc] \in ActorRow
    BY <1>0 DEF ActorRow
  <2> QED
    BY <2>1 DEF Step, TypeOK
<1>2. Prepare(a, row, pc) => act' \in [Actors -> ActorRow]
  <2>1. [act[a] EXCEPT !.pc = "flush", !.pend = row, !.cont = pc] \in ActorRow
    BY <1>0 DEF ActorRow, Pcs
  <2> QED
    BY <2>1 DEF Prepare, TypeOK
<1>3. Return(a, ok) => act' \in [Actors -> ActorRow]
  <2>1. [NoActor EXCEPT !.pc = "opdone", !.kind = "op", !.slot = act[a].slot, !.ok = ok] \in ActorRow
    BY Placeholders DEF TypeOK, ActorRow, Pcs, Kinds, RunKinds
  <2> QED
    BY <2>1, Placeholders DEF Return, TypeOK
<1> QED
  BY <1>1, <1>2, <1>3

\* A bound that is used up stays a natural number.
LEMMA SpendType ==
  ASSUME TypeOK, NEW what \in {"requests", "errors", "crashes"}, Spend(what)
  PROVE  budget' \in [requests : Nat, errors : Nat, crashes : Nat]
BY DEF TypeOK, Spend

\* Every step keeps the types.  Pause and Stop write the status of the copy into
\* the runtime row as its phase: that it is a phase is what SnapOK adds.
LEMMA TypeStep ==
  ASSUME TypeOK, \A a \in Actors : SnapOK(a), [Next]_vars
  PROVE  TypeOK'
<1> USE DEF Actors
<1>s. Next => stale' \subseteq Actors /\ overlap' \subseteq Actors
  BY DEF Next, Outdate
<1>1. CASE UNCHANGED vars
  BY <1>1 DEF TypeOK, vars
<1>2. ASSUME NEW t \in Tasks, NEW a \in Actors, NEW kind \in RunKinds, Begin(a, kind, t), Next
      PROVE  TypeOK'
  <2>1. act[a] \in ActorRow
    BY DEF TypeOK
  <2>2. [act[a] EXCEPT !.pc = "load", !.kind = kind, !.task = t] \in ActorRow
    BY <2>1 DEF ActorRow, Pcs, Kinds
  <2> QED
    BY <1>2, <1>s, <2>2 DEF Begin, TypeOK
<1>3. ASSUME NEW s \in Slots, SchedulerOp(s), Next
      PROVE  TypeOK'
  <2>1. act["scheduler"] \in ActorRow /\ queue[s].task \in Tasks
    BY <1>3 DEF TypeOK, SchedulerOp
  <2>2. [act["scheduler"] EXCEPT !.pc = "load", !.kind = "op", !.task = queue[s].task, !.slot = s]
          \in ActorRow
    BY <2>1 DEF ActorRow, Pcs, Kinds, RunKinds
  <2> QED
    BY <1>3, <1>s, <2>2 DEF SchedulerOp, TypeOK
<1>4. ASSUME NEW a \in Actors, Run(a) \/ RunError(a), Next
      PROVE  TypeOK'
  <2> DEFINE r == act[a]
             t == act[a].task
  <2>0. /\ r \in ActorRow /\ t \in Tasks /\ r.snap \in TaskRow /\ r.pend \in StateRow
        /\ r.cont \in Pcs /\ r.ok \in BOOLEAN /\ r.streak \in 0..2 /\ r.slot \in Slots
        /\ r.kind \in Kinds
    BY DEF TypeOK, ActorRow
  <2>s. stale' \subseteq Actors /\ overlap' \subseteq Actors
    BY <1>4, <1>s
  <2>t. Streak(a) \in 0..2
    BY <2>0 DEF Streak
  <2>r. runtime[t] \in StateRow /\ tasks[t] \in TaskRow
    BY <2>0 DEF TypeOK
  <2> HIDE DEF r, t
  <2>1. CASE Load(a)
    <3>1. \A pc \in Pcs : [act[a] EXCEPT !.pc = pc, !.snap = tasks[act[a].task]] \in ActorRow
      BY <2>0, <2>r DEF ActorRow, r, t
    <3>2. act' \in [Actors -> ActorRow]
      BY <2>1, <3>1, ActType, Placeholders DEF Load, TypeOK, Pcs
    <3> QED
      BY <2>1, <2>s, <3>2 DEF Load, TypeOK
  <2>2. CASE Mark(a)
    <3>1. [runtime[t] EXCEPT !.phase = "polling_remote", !.ckpt = "poll"] \in StateRow
      BY <2>r DEF StateRow, Phases
    <3>2. act' \in [Actors -> ActorRow]
      BY <2>2, <3>1, ActType DEF Mark, Pcs, t
    <3> QED
      BY <2>2, <2>s, <3>2 DEF Mark, TypeOK
  <2>3. CASE Enter(a)
    <3>1. Carry(t, Fresh("running", 0)) \in StateRow
      BY <2>0, FreshType DEF Phases
    <3>2. act' \in [Actors -> ActorRow]
      BY <2>3, <3>1, ActType DEF Enter, Pcs, t
    <3> QED
      BY <2>3, <2>s, <3>2 DEF Enter, TypeOK
  <2>4. CASE Flush(a)
    <3>1. [act[a] EXCEPT !.pc = act[a].cont, !.pend = NoState, !.cont = "idle"] \in ActorRow
      BY <2>0, Placeholders DEF ActorRow, Pcs, r
    <3>2. act' \in [Actors -> ActorRow]
      <4>1. CASE act[a].cont = "idle"
        BY <2>4, <4>1, <2>0, ActType, Placeholders DEF Flush, Pcs, r
      <4>2. CASE act[a].cont # "idle"
        BY <2>4, <4>2, <3>1 DEF Flush, TypeOK
      <4> QED
        BY <4>1, <4>2
    <3>3. runtime' \in [Tasks -> StateRow]
      BY <2>4, <2>0, WriteType DEF Flush, r, t
    <3> QED
      BY <2>4, <2>s, <3>2, <3>3 DEF Flush, TypeOK
  <2>5. CASE Resolve(a)
    <3>1. [act[a] EXCEPT !.pc = "plan", !.streak = runtime[act[a].task].streak] \in ActorRow
      BY <2>0, <2>r DEF ActorRow, Pcs, StateRow, r, t
    <3>2. [act[a].snap EXCEPT !.status = "failed"] \in TaskRow
      BY <2>0 DEF TaskRow, Statuses, Dormant, r
    <3>3. act' \in [Actors -> ActorRow]
      BY <2>5, <3>1, ActType, Placeholders DEF Resolve, TypeOK, Pcs
    <3>4. tasks' \in [Tasks -> TaskRow]
      BY <2>5, <3>2, <2>0, WriteType DEF Resolve, TypeOK, t
    <3> QED
      BY <2>5, <2>s, <3>3, <3>4 DEF Resolve, TypeOK
  <2>6. CASE Planned(a)
    <3>1. [runtime[t] EXCEPT !.ckpt = "paths"] \in StateRow
      BY <2>r DEF StateRow
    <3>2. act' \in [Actors -> ActorRow]
      BY <2>6, <3>1, ActType, Placeholders DEF Planned, Pcs, t
    <3> QED
      BY <2>6, <2>s, <3>2 DEF Planned, TypeOK
  <2>7. CASE PlanFailed(a) \/ EnqueueRefused(a) \/ ActionsDone(a) \/ ActionFailed(a)
    <3>1. act' \in [Actors -> ActorRow]
      BY <2>7, ActType, Placeholders DEF PlanFailed, EnqueueRefused, ActionsDone, ActionFailed, Pcs
    <3>2. budget' \in [requests : Nat, errors : Nat, crashes : Nat]
      BY <2>7, SpendType DEF PlanFailed, EnqueueRefused, ActionsDone, ActionFailed, TypeOK
    <3> QED
      BY <2>7, <2>s, <3>1, <3>2
      DEF PlanFailed, EnqueueRefused, ActionsDone, ActionFailed, TypeOK
  <2>8. CASE Degrade(a)
    <3>1. \A s \in Statuses : [act[a].snap EXCEPT !.status = s] \in TaskRow
      BY <2>0 DEF TaskRow, r
    <3>2. Carry(t, Fresh("degraded", Streak(a))) \in StateRow
      BY <2>0, <2>t, FreshType DEF Phases
    <3>3. [act[a] EXCEPT !.pc = "flush", !.cont = "idle", !.ok = TRUE,
                         !.pend = Carry(t, Fresh("degraded", Streak(a)))] \in ActorRow
      BY <2>0, <3>2 DEF ActorRow, Pcs, r
    <3>4. act' \in [Actors -> ActorRow]
      BY <2>8, <3>3 DEF Degrade, TypeOK, t
    <3>5. tasks' \in [Tasks -> TaskRow]
      BY <2>8, <3>1, <2>0, WriteType DEF Degrade, Statuses, Schedulable, t
    <3> QED
      BY <2>8, <2>s, <3>4, <3>5 DEF Degrade, TypeOK
  <2>9. CASE Fail(a)
    <3>1. [act[a].snap EXCEPT !.status = "failed"] \in TaskRow
      BY <2>0 DEF TaskRow, Statuses, Dormant, r
    <3>2. Carry(t, Fresh("failed", Streak(a))) \in StateRow
      BY <2>0, <2>t, FreshType DEF Phases
    <3>3. act' \in [Actors -> ActorRow]
      BY <2>9, <3>2, ActType DEF Fail, Pcs, t
    <3>4. tasks' \in [Tasks -> TaskRow]
      BY <2>9, <3>1, <2>0, WriteType DEF Fail, t
    <3> QED
      BY <2>9, <2>s, <3>3, <3>4 DEF Fail, TypeOK
  <2>10. CASE Record(a)
    <3>1. act' \in [Actors -> ActorRow]
      BY <2>10, ActType, Placeholders DEF Record, Pcs
    <3>2. [task |-> t, attempt |-> 0] \in [task : Tasks \cup {"none"}, attempt : 0..(MaxAttempts - 1)]
      BY <2>0, ControlAssumption
    <3>3. queue' \in [Slots -> [task : Tasks \cup {"none"}, attempt : 0..(MaxAttempts - 1)]]
      BY <2>10, <3>2 DEF Record, TypeOK, t
    <3>4. failures' \subseteq Tasks
      BY <2>10, <2>0 DEF Record, TypeOK, t
    <3> QED
      BY <2>10, <2>s, <3>1, <3>3, <3>4 DEF Record, TypeOK
  <2>11. CASE Succeed(a)
    <3>1. [act[a].snap EXCEPT !.status = "running"] \in TaskRow
      BY <2>0 DEF TaskRow, Statuses, Schedulable, r
    <3>2. Carry(t, Succeeded) \in StateRow
      <4>1. Succeeded \in StateRow
        BY DEF Succeeded, StateRow, Phases
      <4> QED
        BY <4>1, <2>0, CarryType
    <3>3. [act[a] EXCEPT !.pc = "flush", !.cont = "idle", !.ok = TRUE,
                         !.pend = Carry(t, Succeeded)] \in ActorRow
      BY <2>0, <3>2 DEF ActorRow, Pcs, r
    <3>4. act' \in [Actors -> ActorRow]
      BY <2>11, <3>3 DEF Succeed, TypeOK, t
    <3>5. tasks' \in [Tasks -> TaskRow]
      BY <2>11, <3>1, <2>0, WriteType DEF Succeed, TypeOK, t
    <3> QED
      BY <2>11, <2>s, <3>4, <3>5 DEF Succeed, TypeOK
  <2>12. CASE OpDone(a)
    <3> DEFINE s == act[a].slot
               QRow == [task : Tasks \cup {"none"}, attempt : 0..(MaxAttempts - 1)]
    <3>1. queue[s] \in QRow /\ s \in Slots
      BY <2>0 DEF TypeOK, r
    <3>2. queue[s].attempt + 1 < MaxAttempts => [queue[s] EXCEPT !.attempt = @ + 1] \in QRow
      BY <3>1, ControlAssumption
    <3>3. queue' \in [Slots -> QRow]
      <4>1. CASE queue[s] = NoItem
        BY <2>12, <4>1 DEF OpDone, TypeOK
      <4>2. CASE queue[s] # NoItem /\ (act[a].ok \/ queue[s].attempt + 1 >= MaxAttempts)
        BY <2>12, <4>2, Placeholders DEF OpDone, TypeOK
      <4>3. CASE queue[s] # NoItem /\ ~(act[a].ok \/ queue[s].attempt + 1 >= MaxAttempts)
        <5>1. queue[s].attempt + 1 < MaxAttempts
          BY <4>3, <3>1, ControlAssumption
        <5> QED
          BY <2>12, <4>3, <3>2, <5>1 DEF OpDone, TypeOK
      <4> QED
        BY <4>1, <4>2, <4>3
    <3>4. act' \in [Actors -> ActorRow]
      BY <2>12, Placeholders DEF OpDone, TypeOK
    <3> QED
      BY <2>12, <2>s, <3>3, <3>4 DEF OpDone, TypeOK
  <2>13. CASE UpdatePut(a)
    <3>1. act' \in [Actors -> ActorRow]
      BY <2>13, ActType, Placeholders DEF UpdatePut, Pcs
    <3>2. tasks' \in [Tasks -> TaskRow]
      BY <2>13, <2>0, WriteType DEF UpdatePut, r, t
    <3> QED
      BY <2>13, <2>s, <3>1, <3>2 DEF UpdatePut, TypeOK
  <2>14. CASE Transit(a)
    <3>1. tasks' \in [Tasks -> TaskRow]
      BY <2>14, <2>0, WriteType DEF Transit, r, t
    <3>2. act' \in [Actors -> ActorRow]
      <4>1. CASE Return(a, FALSE)
        BY <4>1, ActType, Placeholders DEF Pcs
      <4>2. CASE Step(a, "enter")
        BY <4>2, ActType, Placeholders DEF Pcs
      <4>3. CASE /\ act[a].snap.status \in Phases
                 /\ Prepare(a, Carry(t, Fresh(act[a].snap.status, 0)), "idle")
        <5>1. Carry(t, Fresh(act[a].snap.status, 0)) \in StateRow
          <6>1. \A phase \in Phases : Carry(t, Fresh(phase, 0)) \in StateRow
            BY <2>0, FreshType
          <6> QED
            BY <4>3, <6>1
        <5> QED
          BY <4>3, <5>1, ActType DEF Pcs
      <4>4. act[a].pc = "transit" /\ act[a].kind # "start" => act[a].snap.status \in Phases
        BY DEF SnapOK, Phases
      <4> QED
        BY <2>14, <4>1, <4>2, <4>3, <4>4 DEF Transit, t
    <3> QED
      BY <2>14, <2>s, <3>1, <3>2 DEF Transit, TypeOK
  <2>15. CASE ResolveFails(a)
    <3>1. [act[a].snap EXCEPT !.status = "failed"] \in TaskRow
      BY <2>0 DEF TaskRow, Statuses, Dormant, r
    <3>2. act' \in [Actors -> ActorRow]
      BY <2>15, ActType, Placeholders DEF ResolveFails, Pcs
    <3>3. tasks' \in [Tasks -> TaskRow]
      BY <2>15, <3>1, <2>0, WriteType DEF ResolveFails, TypeOK, t
    <3>4. budget' \in [requests : Nat, errors : Nat, crashes : Nat]
      BY <2>15, SpendType DEF ResolveFails, TypeOK
    <3> QED
      BY <2>15, <2>s, <3>2, <3>3, <3>4 DEF ResolveFails, TypeOK
  <2> QED
    BY <1>4, <2>1, <2>2, <2>3, <2>4, <2>5, <2>6, <2>7, <2>8, <2>9, <2>10, <2>11, <2>12,
       <2>13, <2>14, <2>15 DEF Run, RunError
<1>5. ASSUME NEW h \in Handlers, Request(h), Next
      PROVE  TypeOK'
  <2> USE DEF Serve
  <2>0. act[h] \in ActorRow /\ (Request(h) => Spend("requests"))
    BY DEF TypeOK, Request, CreateTask, DeleteTask, Start, Pause, Stop, TransitBegin, UpdateBegin,
           CreateConnection, DeleteConnection
  <2>b. budget' \in [requests : Nat, errors : Nat, crashes : Nat]
    BY <1>5, <2>0, SpendType
  <2>1. ASSUME NEW t \in Tasks, NEW c \in Conns, NEW dir \in Directions, CreateTask(h, t, c, dir)
        PROVE  TypeOK'
    <3>1. [status |-> "created", conn |-> c, dir |-> dir] \in TaskRow
      BY DEF TaskRow, Statuses, Dormant
    <3> QED
      BY <1>5, <1>s, <2>b, <2>1, <3>1 DEF CreateTask, TypeOK
  <2>2. ASSUME NEW t \in Tasks, DeleteTask(h, t)
        PROVE  TypeOK'
    BY <1>5, <1>s, <2>b, <2>2, Placeholders DEF DeleteTask, TypeOK
  <2>3. ASSUME NEW t \in Tasks, NEW c \in Conns, NEW dir \in Directions, UpdateBegin(h, t, c, dir)
        PROVE  TypeOK'
    <3>1. [tasks[t] EXCEPT !.conn = c, !.dir = dir] \in TaskRow
      BY DEF TypeOK, TaskRow
    <3>2. [act[h] EXCEPT !.pc = "put", !.kind = "update", !.task = t,
                         !.snap = [tasks[t] EXCEPT !.conn = c, !.dir = dir]] \in ActorRow
      BY <2>0, <3>1 DEF ActorRow, Pcs, Kinds
    <3> QED
      BY <1>5, <1>s, <2>b, <2>3, <3>2 DEF UpdateBegin, TypeOK
  <2>4. ASSUME NEW t \in Tasks, NEW kind \in {"start", "pause", "stop"}, NEW s \in Statuses,
               TransitBegin(h, t, kind, s)
        PROVE  TypeOK'
    <3>1. [tasks[t] EXCEPT !.status = s] \in TaskRow
      BY DEF TypeOK, TaskRow
    <3>2. [act[h] EXCEPT !.pc = "transit", !.kind = kind, !.task = t,
                         !.snap = [tasks[t] EXCEPT !.status = s]] \in ActorRow
      BY <2>0, <3>1 DEF ActorRow, Pcs, Kinds, RunKinds
    <3> QED
      BY <1>5, <1>s, <2>b, <2>4, <3>2 DEF TransitBegin, TypeOK
  <2>5. ASSUME NEW t \in Tasks, Start(h, t) \/ Pause(h, t) \/ Stop(h, t)
        PROVE  TypeOK'
    BY <2>4, <2>5 DEF Start, Pause, Stop, Statuses, Schedulable, Dormant
  <2>6. ASSUME NEW c \in Conns, CreateConnection(h, c) \/ DeleteConnection(h, c)
        PROVE  TypeOK'
    BY <1>5, <1>s, <2>b, <2>6 DEF CreateConnection, DeleteConnection, TypeOK
  <2> QED
    BY <1>5, <2>1, <2>2, <2>3, <2>5, <2>6 DEF Request
<1>6. ASSUME Crash, Next
      PROVE  TypeOK'
  BY <1>6, <1>s, SpendType, Placeholders DEF Crash, TypeOK
<1>7. ASSUME NEW t \in Tasks, SchedulerTick(t) \/ PollerTick(t) \/ WatcherEvent(t), Next
      PROVE  TypeOK'
  BY <1>2, <1>7 DEF SchedulerTick, PollerTick, WatcherEvent, RunKinds
<1>8. ASSUME NEW h \in Handlers, HangUp(h), Next
      PROVE  TypeOK'
  BY <1>8, <1>s, Placeholders DEF HangUp, TypeOK
<1> QED
  BY <1>1, <1>3, <1>4, <1>5, <1>6, <1>7, <1>8 DEF Next, Trigger
----------------------------------------------------------------------------
(* What a step does to the goroutine that takes it, and to the others.     *)

Mid == {"mark", "enter", "flush", "resolve", "plan", "exec", "degrade", "fail", "record", "succeed"}

\* The call goes on with the same copy of the same row.
GoesOn(a) ==
  /\ act[a].pc \in Mid
  /\ act[a].kind \in RunKinds
  /\ act'[a].pc \in Mid /\ act'[a].cont \in Conts
  /\ act'[a].task = act[a].task /\ act'[a].kind = act[a].kind /\ act'[a].snap = act[a].snap

\* The call is over.
Ends(a) == act'[a].pc = "idle" \/ (act'[a].pc = "opdone" /\ act'[a].kind = "op")

Others(a) == \A b \in Actors : b # a => act'[b] = act[b]

ActorOK(a) == KindOK(a) /\ SnapOK(a) /\ CopyOK(a)

\* A goroutine that does not move keeps its part of the invariant: when its task
\* is taken out of service its copy becomes stale.
LEMMA OtherStep ==
  ASSUME Outdate, NEW a \in Actors, ActorOK(a), act'[a] = act[a]
  PROVE  ActorOK(a)'
<1>1. KindOK(a)' /\ SnapOK(a)'
  BY DEF ActorOK, KindOK, SnapOK, Holding
<1>2. Holding(a)' /\ a \notin stale' => a \notin stale /\ ~Retired(act[a].task)
  BY DEF Outdate
<1>3. act[a].pc = "put" => Holding(a)
  BY DEF Holding
<1>4. CopyOK(a)'
  BY <1>2, <1>3 DEF ActorOK, CopyOK, Holding, Retired
<1> QED
  BY <1>1, <1>4 DEF ActorOK

\* So does one whose call goes on.
LEMMA GoesOnStep ==
  ASSUME Outdate, NEW a \in Actors, ActorOK(a), GoesOn(a)
  PROVE  ActorOK(a)'
<1>1. Holding(a) /\ Holding(a)'
  BY DEF Holding, GoesOn, Mid
<1>2. KindOK(a)' /\ SnapOK(a)'
  BY <1>1 DEF ActorOK, KindOK, SnapOK, GoesOn, Mid
<1>3. a \notin stale' => a \notin stale /\ ~Retired(act[a].task)
  BY <1>1 DEF Outdate, GoesOn
<1>4. CopyOK(a)'
  BY <1>1, <1>3 DEF ActorOK, CopyOK, GoesOn, Retired, Mid
<1> QED
  BY <1>2, <1>4 DEF ActorOK

\* And one whose call is over, which holds no copy any more.
LEMMA EndStep ==
  ASSUME NEW a \in Actors, Ends(a), act'[a].cont \in Conts
  PROVE  ActorOK(a)'
<1>1. ~Holding(a)' /\ act'[a].pc \notin {"put", "transit", "flush"}
  BY DEF Ends, Holding
<1>2. KindOK(a)'
  BY <1>1 DEF KindOK, Ends, RunKinds
<1>3. SnapOK(a)' /\ CopyOK(a)'
  BY <1>1 DEF SnapOK, CopyOK
<1> QED
  BY <1>2, <1>3 DEF ActorOK

\* Return ends the call of one goroutine.
LEMMA ReturnEnds ==
  ASSUME TypeOK, NEW a \in Actors, NEW ok \in BOOLEAN, Return(a, ok)
  PROVE  Ends(a) /\ Others(a) /\ act'[a].cont \in Conts
<1>0. NoActor.pc = "idle" /\ NoActor.cont = "idle" /\ NoActor \in ActorRow
  BY Placeholders DEF NoActor
<1> DEFINE o == [NoActor EXCEPT !.pc = "opdone", !.kind = "op", !.slot = act[a].slot, !.ok = ok]
<1>1. o.pc = "opdone" /\ o.kind = "op" /\ o.cont = "idle"
  BY <1>0 DEF ActorRow
<1>2. act' = [act EXCEPT ![a] = IF act[a].kind = "op" THEN o ELSE NoActor]
  BY DEF Return
<1> HIDE DEF o
<1>3. Others(a) /\ (act'[a] = o \/ act'[a] = NoActor)
  BY <1>2 DEF TypeOK, Others
<1> QED
  BY <1>0, <1>1, <1>3 DEF Ends, Conts
\* The steps of a run that neither begin nor end it.
LEMMA RunGoesOn ==
  ASSUME TypeOK, NEW a \in Actors, ActorOK(a),
         \/ Mark(a) \/ Enter(a) \/ Planned(a) \/ PlanFailed(a) \/ EnqueueRefused(a)
         \/ ActionsDone(a) \/ ActionFailed(a) \/ Degrade(a) \/ Fail(a) \/ Succeed(a)
         \/ Flush(a) /\ act[a].cont # "idle"
         \/ Resolve(a) /\ act[a].snap.conn \in conns
  PROVE  GoesOn(a) /\ Others(a)
<1>0. act[a] \in ActorRow /\ act[a].cont \in Conts
  BY DEF TypeOK, ActorOK, KindOK
<1>k. act[a].pc \in Mid \ {"flush"} => act[a].kind \in RunKinds
  BY DEF ActorOK, KindOK, Mid
<1> USE DEF Mid, Conts
<1> DEFINE Same == /\ act'[a].pc \in Mid /\ act'[a].cont \in Conts /\ Others(a)
                   /\ act'[a].task = act[a].task /\ act'[a].kind = act[a].kind
                   /\ act'[a].snap = act[a].snap
<1>1. ASSUME NEW pc \in Mid, Step(a, pc)
      PROVE  Same
  BY <1>0, <1>1 DEF Step, TypeOK, ActorRow, Others
<1>2. ASSUME NEW row, NEW c \in Conts, Prepare(a, row, c)
      PROVE  Same
  BY <1>0, <1>2 DEF Prepare, TypeOK, ActorRow, Others
<1>3. ASSUME NEW row, act' = [act EXCEPT ![a].pc = "flush", ![a].cont = "idle", ![a].ok = TRUE,
                                         ![a].pend = row]
      PROVE  Same
  BY <1>0, <1>3 DEF TypeOK, ActorRow, Others
<1>4. CASE Planned(a) \/ PlanFailed(a) \/ EnqueueRefused(a) \/ ActionsDone(a) \/ ActionFailed(a)
  <2>1. act[a].pc \in Mid \ {"flush"}
    BY <1>4 DEF Planned, PlanFailed, EnqueueRefused, ActionsDone, ActionFailed
  <2>2. \/ Step(a, "exec") \/ Step(a, "fail") \/ Step(a, "succeed") \/ Step(a, "degrade")
        \/ Prepare(a, [runtime[act[a].task] EXCEPT !.ckpt = "paths"], "exec")
    BY <1>4 DEF Planned, PlanFailed, EnqueueRefused, ActionsDone, ActionFailed
  <2>3. Same
    BY <2>2, <1>1, <1>2
  <2> QED
    BY <2>1, <2>3, <1>k DEF GoesOn
<1>5. CASE Mark(a) \/ Enter(a) \/ Fail(a)
  <2>1. act[a].pc \in Mid \ {"flush"}
    BY <1>5 DEF Mark, Enter, Fail
  <2>2. \E row : Prepare(a, row, "enter") \/ Prepare(a, row, "resolve") \/ Prepare(a, row, "record")
    BY <1>5 DEF Mark, Enter, Fail
  <2>3. Same
    BY <2>2, <1>2
  <2> QED
    BY <2>1, <2>3, <1>k DEF GoesOn
<1>6. CASE Degrade(a) \/ Succeed(a)
  <2>1. act[a].pc \in Mid \ {"flush"}
    BY <1>6 DEF Degrade, Succeed
  <2>2. Same
    BY <1>6, <1>3 DEF Degrade, Succeed
  <2> QED
    BY <2>1, <2>2, <1>k DEF GoesOn
<1>7. CASE Flush(a) /\ act[a].cont # "idle"
  <2>1. act[a].pc = "flush" /\ act[a].kind \in RunKinds
    BY <1>7 DEF Flush, ActorOK, KindOK
  <2>2. act' = [act EXCEPT ![a].pc = act[a].cont, ![a].pend = NoState, ![a].cont = "idle"]
    BY <1>7 DEF Flush
  <2>3. Same
    BY <1>0, <1>7, <2>2 DEF TypeOK, ActorRow, Others
  <2> QED
    BY <2>1, <2>3 DEF GoesOn
<1>8. CASE Resolve(a) /\ act[a].snap.conn \in conns
  <2>1. act[a].pc \in Mid \ {"flush"}
    BY <1>8 DEF Resolve
  <2>2. act' = [act EXCEPT ![a].pc = "plan", ![a].streak = runtime[act[a].task].streak]
    BY <1>8 DEF Resolve
  <2>3. Same
    BY <1>0, <2>2 DEF TypeOK, ActorRow, Others
  <2> QED
    BY <2>1, <2>3, <1>k DEF GoesOn
<1> QED
  BY <1>4, <1>5, <1>6, <1>7, <1>8
\* Every step keeps what the invariant says of the goroutines.
LEMMA ActorStep ==
  ASSUME TypeOK, \A a \in Actors : ActorOK(a), Next
  PROVE  \A a \in Actors : ActorOK(a)'
<1>o. Outdate
  BY DEF Next
<1>1. ASSUME NEW a \in Actors, Others(a), ActorOK(a)'
      PROVE  \A b \in Actors : ActorOK(b)'
  BY <1>o, <1>1, OtherStep DEF Others
<1>2. ASSUME NEW a \in Actors, NEW ok \in BOOLEAN, Return(a, ok)
      PROVE  \A b \in Actors : ActorOK(b)'
  BY <1>1, <1>2, ReturnEnds, EndStep
<1>3. ASSUME NEW a \in Actors, NEW kind \in RunKinds, NEW t \in Tasks, NEW s \in Slots,
             \/ act' = [act EXCEPT ![a].pc = "load", ![a].kind = kind, ![a].task = t]
             \/ act' = [act EXCEPT ![a].pc = "load", ![a].kind = kind, ![a].task = t, ![a].slot = s]
      PROVE  \A b \in Actors : ActorOK(b)'
  <2>0. act[a] \in ActorRow /\ act[a].cont \in Conts
    BY DEF TypeOK, ActorOK, KindOK
  <2>1. act'[a].pc = "load" /\ act'[a].kind = kind /\ act'[a].cont \in Conts /\ Others(a)
    <3>d. act \in [Actors -> ActorRow]
      BY DEF TypeOK
    <3>1. Others(a)
      BY <1>3, <3>d DEF Others
    <3>2. \/ act'[a] = [act[a] EXCEPT !.pc = "load", !.kind = kind, !.task = t]
          \/ act'[a] = [act[a] EXCEPT !.pc = "load", !.kind = kind, !.task = t, !.slot = s]
      BY <1>3, <3>d
    <3>3. act'[a].pc = "load" /\ act'[a].kind = kind /\ act'[a].cont = act[a].cont
      BY <2>0, <3>2 DEF ActorRow
    <3> QED
      BY <2>0, <3>1, <3>3
  <2>2. ActorOK(a)'
    BY <2>1 DEF ActorOK, KindOK, SnapOK, CopyOK, Holding
  <2> QED
    BY <1>1, <2>1, <2>2
<1>4. ASSUME NEW t \in Tasks, SchedulerTick(t) \/ PollerTick(t) \/ WatcherEvent(t)
      PROVE  \A b \in Actors : ActorOK(b)'
  <2>1. AnySlot \in Slots
    BY ControlAssumption DEF AnySlot
  <2>2. \E a \in Actors, kind \in RunKinds :
          act' = [act EXCEPT ![a].pc = "load", ![a].kind = kind, ![a].task = t]
    <3>1. CASE SchedulerTick(t)
      BY <3>1 DEF SchedulerTick, Begin, RunKinds, Actors
    <3>2. CASE PollerTick(t)
      BY <3>2 DEF PollerTick, Begin, RunKinds, Actors
    <3>3. CASE WatcherEvent(t)
      BY <3>3 DEF WatcherEvent, Begin, RunKinds, Actors
    <3> QED
      BY <1>4, <3>1, <3>2, <3>3
  <2> QED
    BY <1>3, <2>1, <2>2
<1>5. ASSUME NEW s \in Slots, SchedulerOp(s)
      PROVE  \A b \in Actors : ActorOK(b)'
  BY <1>3, <1>5 DEF SchedulerOp, RunKinds, Actors
<1>6. ASSUME NEW a \in Actors, Run(a) \/ RunError(a)
      PROVE  \A b \in Actors : ActorOK(b)'
  <2>0. act[a] \in ActorRow /\ act[a].ok \in BOOLEAN /\ act[a].task \in Tasks /\ act[a].cont \in Conts
    BY DEF TypeOK, ActorRow, ActorOK, KindOK
  <2>1. CASE \/ Mark(a) \/ Enter(a) \/ Planned(a) \/ PlanFailed(a) \/ EnqueueRefused(a)
             \/ ActionsDone(a) \/ ActionFailed(a) \/ Degrade(a) \/ Fail(a) \/ Succeed(a)
             \/ Flush(a) /\ act[a].cont # "idle"
             \/ Resolve(a) /\ act[a].snap.conn \in conns
    <3>1. GoesOn(a) /\ Others(a)
      BY <2>1, RunGoesOn
    <3> QED
      BY <1>1, <1>o, <3>1, GoesOnStep
  <2>2. CASE \/ Flush(a) /\ act[a].cont = "idle"
             \/ Resolve(a) /\ act[a].snap.conn \notin conns
             \/ ResolveFails(a) \/ Record(a) \/ UpdatePut(a)
    <3>1. Return(a, act[a].ok) \/ Return(a, FALSE) \/ Return(a, TRUE)
      BY <2>2 DEF Flush, Resolve, ResolveFails, Record, UpdatePut
    <3> QED
      BY <1>2, <2>0, <3>1
  <2>3. CASE OpDone(a)
    <3>1. act'[a] = NoActor /\ Others(a)
      BY <2>3 DEF OpDone, TypeOK, Others
    <3>2. NoActor.pc = "idle" /\ NoActor.cont = "idle"
      BY DEF NoActor
    <3>3. ActorOK(a)'
      BY <3>1, <3>2, EndStep DEF Ends, Conts
    <3> QED
      BY <1>1, <3>1, <3>3
  <2>4. CASE Load(a)
    <3>1. CASE ~Admits(a, tasks[act[a].task])
      BY <1>2, <2>4, <3>1 DEF Load
    <3>2. CASE Admits(a, tasks[act[a].task])
      <4>1. tasks[act[a].task].status \in Schedulable /\ act[a].kind \in RunKinds
        BY <2>4, <3>2 DEF Admits, Load, ActorOK, KindOK
      <4>2. /\ act'[a].pc \in {"mark", "enter"} /\ act'[a].snap = tasks[act[a].task] /\ Others(a)
            /\ act'[a].task = act[a].task /\ act'[a].kind = act[a].kind /\ act'[a].cont \in Conts
            /\ tasks' = tasks
        BY <2>0, <2>4, <3>2 DEF Load, TypeOK, ActorRow, Others
      <4>3. KindOK(a)' /\ SnapOK(a)'
        BY <4>1, <4>2 DEF KindOK, SnapOK, Holding, Statuses
      <4>4. CopyOK(a)'
        BY <4>1, <4>2 DEF CopyOK, Dormant, Schedulable
      <4> QED
        BY <1>1, <4>2, <4>3, <4>4 DEF ActorOK
    <3> QED
      BY <3>1, <3>2
  <2>5. CASE Transit(a)
    <3> DEFINE t == act[a].task
               ok == Exists(t) /\ act[a].snap.conn \in conns
    <3>1. act[a].pc = "transit" /\ act[a].kind \in {"start", "pause", "stop"} /\ Holding(a)
      BY <2>5 DEF Transit, ActorOK, KindOK, Holding
    <3>2. CASE ~ok
      BY <1>2, <2>5, <3>2 DEF Transit
    <3>3. CASE ok /\ act[a].kind = "start"
      <4>1. /\ act'[a].pc = "enter" /\ act'[a].snap = act[a].snap /\ Others(a)
            /\ act'[a].task = t /\ act'[a].kind = act[a].kind /\ act'[a].cont \in Conts
        <5>1. Step(a, "enter")
          BY <2>5, <3>3 DEF Transit
        <5> QED
          BY <2>0, <5>1 DEF Step, TypeOK, ActorRow, Others
      <4>2. act[a].snap.status \in Schedulable
        BY <3>1, <3>3 DEF ActorOK, SnapOK, RunKinds
      <4>3. tasks'[t] = act[a].snap
        BY <2>0, <2>5, <3>3 DEF Transit, UpdateTask, TypeOK
      <4>4. KindOK(a)' /\ SnapOK(a)'
        BY <3>3, <4>1, <4>2 DEF KindOK, SnapOK, Holding, Statuses, RunKinds
      <4>5. CopyOK(a)'
        BY <4>1, <4>2, <4>3 DEF CopyOK, Dormant, Schedulable
      <4> QED
        BY <1>1, <4>1, <4>4, <4>5 DEF ActorOK
    <3>4. CASE ok /\ act[a].kind # "start"
      <4>1. \E row : Prepare(a, row, "idle")
        BY <2>5, <3>4 DEF Transit
      <4>2. /\ act'[a].pc = "flush" /\ act'[a].cont = "idle" /\ act'[a].snap = act[a].snap
            /\ act'[a].kind = act[a].kind /\ Others(a)
        BY <2>0, <4>1 DEF Prepare, TypeOK, ActorRow, Others
      <4>3. act[a].kind \notin RunKinds /\ act[a].snap.status \in {"paused", "stopped"}
        BY <3>1, <3>4 DEF RunKinds, ActorOK, SnapOK
      <4>4. ActorOK(a)'
        BY <4>2, <4>3 DEF ActorOK, KindOK, SnapOK, CopyOK, Holding, Statuses, Dormant, Conts
      <4> QED
        BY <1>1, <4>2, <4>4
    <3> QED
      BY <3>2, <3>3, <3>4
  <2> QED
    BY <1>6, <2>1, <2>2, <2>3, <2>4, <2>5 DEF Run, RunError
<1>7. ASSUME NEW h \in Handlers, NEW t \in Tasks, NEW c \in Conns, NEW dir \in Directions,
             UpdateBegin(h, t, c, dir)
      PROVE  \A b \in Actors : ActorOK(b)'
  <2>0. h \in Actors /\ act[h] \in ActorRow /\ act[h].cont \in Conts /\ tasks[t] \in TaskRow
    BY DEF TypeOK, ActorOK, KindOK, Actors
  <2>1. /\ act'[h].pc = "put" /\ act'[h].kind = "update" /\ act'[h].task = t
        /\ act'[h].snap.status = tasks[t].status /\ act'[h].cont \in Conts /\ Others(h)
        /\ tasks' = tasks /\ Exists(t)
    BY <1>7, <2>0 DEF UpdateBegin, TypeOK, ActorRow, TaskRow, Others
  <2>2. tasks[t].status \in Statuses
    BY <2>0, <2>1 DEF Exists, TaskRow
  <2>3. ActorOK(h)'
    BY <2>1, <2>2 DEF ActorOK, KindOK, SnapOK, CopyOK, RunKinds, Dormant, Schedulable
  <2> QED
    BY <1>1, <2>0, <2>1, <2>3
<1>8. ASSUME NEW h \in Handlers, NEW t \in Tasks, NEW kind, NEW s, TransitBegin(h, t, kind, s),
             <<kind, s>> \in {<<"start", "running">>, <<"pause", "paused">>, <<"stop", "stopped">>}
      PROVE  \A b \in Actors : ActorOK(b)'
  <2>0. h \in Actors /\ act[h] \in ActorRow /\ act[h].cont \in Conts /\ tasks[t] \in TaskRow
    BY DEF TypeOK, ActorOK, KindOK, Actors
  <2>1. /\ act'[h].pc = "transit" /\ act'[h].kind = kind /\ act'[h].task = t
        /\ act'[h].snap.status = s /\ act'[h].cont \in Conts /\ Others(h)
    BY <1>8, <2>0 DEF TransitBegin, TypeOK, ActorRow, TaskRow, Others
  <2>2. /\ s \in Statuses /\ kind \in {"start", "pause", "stop"}
        /\ kind \in RunKinds => s \in Schedulable
        /\ kind # "start" => s \in {"paused", "stopped"}
    BY <1>8 DEF Statuses, Schedulable, Dormant, RunKinds
  <2>3. ActorOK(h)'
    BY <2>1, <2>2 DEF ActorOK, KindOK, SnapOK, CopyOK
  <2> QED
    BY <1>1, <2>0, <2>1, <2>3
<1>9. ASSUME NEW h \in Handlers, Request(h)
      PROVE  \A b \in Actors : ActorOK(b)'
  <2>1. CASE act' = act
    BY <1>o, <2>1, OtherStep
  <2> QED
    BY <1>7, <1>8, <1>9, <2>1
    DEF Request, Start, Pause, Stop, CreateTask, DeleteTask, CreateConnection, DeleteConnection
<1>10. CASE Crash
  <2>1. \A a \in Actors : act'[a] = NoActor
    BY <1>10 DEF Crash
  <2>2. NoActor.pc = "idle" /\ NoActor.cont = "idle"
    BY DEF NoActor
  <2> QED
    BY <2>1, <2>2, EndStep DEF Ends, Conts
<1>11. ASSUME NEW h \in Handlers, HangUp(h)
       PROVE  \A b \in Actors : ActorOK(b)'
  <2>1. h \in Actors /\ act'[h] = NoActor /\ Others(h)
    BY <1>11 DEF HangUp, TypeOK, Others, Actors
  <2>2. NoActor.pc = "idle" /\ NoActor.cont = "idle"
    BY DEF NoActor
  <2>3. ActorOK(h)'
    BY <2>1, <2>2, EndStep DEF Ends, Conts
  <2> QED
    BY <1>1, <2>1, <2>3
<1> QED
  BY <1>4, <1>5, <1>6, <1>9, <1>10, <1>11 DEF Next, Trigger
----------------------------------------------------------------------------
(* The tables.                                                             *)

\* Writing a row that is not "absent" keeps referential integrity, whatever
\* became of the task and of the connection since the row was read.
LEMMA UpdateRef ==
  ASSUME TypeOK, RefIntegrity, NEW t \in Tasks, NEW row \in TaskRow, row.status # "absent",
         UpdateTask(t, row), UNCHANGED <<conns, runtime, failures, queue>>
  PROVE  RefIntegrity'
BY DEF TypeOK, RefIntegrity, UpdateTask, Exists

\* Every step keeps referential integrity.
LEMMA RefStep ==
  ASSUME TypeOK, \A a \in Actors : ActorOK(a), RefIntegrity, Next
  PROVE  RefIntegrity'
<1>0. ASSUME UNCHANGED <<conns, tasks, runtime, failures, queue>>
      PROVE  RefIntegrity'
  BY <1>0 DEF RefIntegrity, Exists
<1>1. CASE Trigger
  BY <1>0, <1>1 DEF Trigger, SchedulerTick, PollerTick, WatcherEvent, Begin, SchedulerOp
<1>2. ASSUME NEW a \in Actors, Run(a) \/ RunError(a)
      PROVE  RefIntegrity'
  <2> DEFINE t == act[a].task
             snap == act[a].snap
  <2>0. t \in Tasks /\ snap \in TaskRow /\ act[a].slot \in Slots
    BY DEF TypeOK, ActorRow
  <2>s. \A s \in Statuses : /\ [snap EXCEPT !.status = s] \in TaskRow
                            /\ [snap EXCEPT !.status = s].status # "absent"
    BY <2>0 DEF TaskRow, Statuses, Schedulable, Dormant
  <2>1. CASE Load(a) \/ Mark(a) \/ Enter(a) \/ Planned(a) \/ EnqueueRefused(a) \/ ActionsDone(a)
             \/ PlanFailed(a) \/ ActionFailed(a)
    BY <1>0, <2>1
    DEF Load, Mark, Enter, Planned, EnqueueRefused, ActionsDone, PlanFailed, ActionFailed
  <2>2. CASE Flush(a)
    BY <2>0, <2>2 DEF Flush, UpsertRuntime, RefIntegrity, Exists, TypeOK
  <2>3. CASE Resolve(a) \/ ResolveFails(a) \/ Degrade(a) \/ Fail(a) \/ Succeed(a)
    <3>1. \/ UNCHANGED tasks
          \/ \E s \in Statuses : UpdateTask(t, [snap EXCEPT !.status = s])
      BY <2>3 DEF Resolve, ResolveFails, Degrade, Fail, Succeed, Statuses, Schedulable, Dormant
    <3>2. UNCHANGED <<conns, runtime, failures, queue>>
      BY <2>3 DEF Resolve, ResolveFails, Degrade, Fail, Succeed
    <3> QED
      BY <1>0, <2>0, <2>s, <3>1, <3>2, UpdateRef
  <2>4. CASE Record(a)
    <3>1. \A s \in Slots :
            \/ queue'[s] = queue[s]
            \/ queue'[s].task = t /\ Exists(t)
      BY <2>0, <2>4 DEF Record, TypeOK
    <3>2. UNCHANGED <<conns, tasks, runtime>>
      BY <2>4 DEF Record
    <3>3. failures' = failures \/ (failures' = failures \cup {t} /\ Exists(t))
      BY <2>4 DEF Record
    <3> QED
      BY <2>0, <3>1, <3>2, <3>3 DEF RefIntegrity, Exists
  <2>5. CASE OpDone(a)
    <3>1. \A s \in Slots : queue'[s].task = queue[s].task \/ queue'[s] = NoItem
      BY <2>0, <2>5 DEF OpDone, TypeOK
    <3>2. UNCHANGED <<conns, tasks, runtime, failures>>
      BY <2>5 DEF OpDone
    <3> QED
      BY <3>1, <3>2, Placeholders, ControlAssumption DEF RefIntegrity, Exists
  <2>6. CASE UpdatePut(a) \/ Transit(a)
    <3>1. snap.status # "absent"
      BY <2>6 DEF ActorOK, SnapOK, Holding, UpdatePut, Transit, Statuses, Schedulable, Dormant
    <3>2. UpdateTask(t, snap) /\ UNCHANGED <<conns, runtime, failures, queue>>
      BY <2>6 DEF UpdatePut, Transit
    <3> QED
      BY <2>0, <3>1, <3>2, UpdateRef
  <2> QED
    BY <1>2, <2>1, <2>2, <2>3, <2>4, <2>5, <2>6 DEF Run, RunError
<1>3. ASSUME NEW h \in Handlers, Request(h)
      PROVE  RefIntegrity'
  <2>1. ASSUME NEW t \in Tasks, NEW c \in Conns, NEW dir \in Directions, CreateTask(h, t, c, dir)
        PROVE  RefIntegrity'
    BY <2>1 DEF CreateTask, RefIntegrity, Exists, TypeOK
  <2>2. ASSUME NEW t \in Tasks, DeleteTask(h, t)
        PROVE  RefIntegrity'
    <3>1. \A u \in Tasks : tasks'[u] = IF u = t THEN Absent ELSE tasks[u]
      BY <2>2 DEF DeleteTask, TypeOK
    <3>2. \A u \in Tasks : runtime'[u] = IF u = t THEN NoState ELSE runtime[u]
      BY <2>2 DEF DeleteTask, TypeOK
    <3>3. \A s \in Slots : queue'[s] = IF queue[s].task = t THEN NoItem ELSE queue[s]
      BY <2>2 DEF DeleteTask
    <3>4. failures' = failures \ {t} /\ conns' = conns
      BY <2>2 DEF DeleteTask
    <3>5. \A u \in Tasks : Exists(u)' => u # t /\ Exists(u) /\ tasks'[u].conn \in conns'
      BY <3>1, <3>4, Placeholders DEF RefIntegrity, Exists
    <3>6. \A u \in Tasks : ~Exists(u)' => runtime'[u] = NoState /\ u \notin failures'
      <4> TAKE u \in Tasks
      <4> HAVE ~Exists(u)'
      <4>1. CASE u = t
        BY <4>1, <3>2, <3>4
      <4>2. CASE u # t
        <5>1. ~Exists(u)
          BY <3>1, <4>2 DEF Exists
        <5> QED
          BY <3>2, <3>4, <4>2, <5>1 DEF RefIntegrity
      <4> QED
        BY <4>1, <4>2
    <3>7. \A s \in Slots : queue'[s].task \in Tasks => Exists(queue[s].task)'
      <4> TAKE s \in Slots
      <4> HAVE queue'[s].task \in Tasks
      <4>1. queue[s].task # t /\ queue'[s] = queue[s]
        BY <3>3, Placeholders, ControlAssumption
      <4>2. Exists(queue[s].task) /\ queue[s].task \in Tasks
        BY <4>1 DEF RefIntegrity
      <4> QED
        BY <3>1, <4>1, <4>2 DEF Exists
    <3> QED
      BY <3>5, <3>6, <3>7 DEF RefIntegrity
  <2>3. ASSUME NEW t \in Tasks, NEW c \in Conns, NEW dir \in Directions, UpdateBegin(h, t, c, dir)
        PROVE  RefIntegrity'
    BY <1>0, <2>3 DEF UpdateBegin
  <2>4. ASSUME NEW t \in Tasks, Start(h, t) \/ Pause(h, t) \/ Stop(h, t)
        PROVE  RefIntegrity'
    BY <1>0, <2>4 DEF Start, Pause, Stop, TransitBegin
  <2>5. ASSUME NEW c \in Conns, CreateConnection(h, c) \/ DeleteConnection(h, c)
        PROVE  RefIntegrity'
    BY <2>5 DEF CreateConnection, DeleteConnection, RefIntegrity, Exists
  <2> QED
    BY <1>3, <2>1, <2>2, <2>3, <2>4, <2>5 DEF Request
<1>4. CASE Crash
  BY <1>0, <1>4 DEF Crash
<1>5. ASSUME NEW h \in Handlers, HangUp(h)
      PROVE  RefIntegrity'
  BY <1>0, <1>5 DEF HangUp
<1> QED
  BY <1>1, <1>2, <1>3, <1>4, <1>5 DEF Next

----------------------------------------------------------------------------
(* Theorems.                                                               *)

\* The tables a process finds when it starts satisfy the invariant.
LEMMA InitIInv == Init => IInv
<1> SUFFICES ASSUME Init PROVE IInv
  OBVIOUS
<1>1. TypeOK
  <2>1. InitRow \subseteq TaskRow
    BY Placeholders DEF InitRow
  <2> QED
    BY <2>1, Placeholders, ControlAssumption DEF Init, TypeOK
<1>2. \A a \in Actors : ActorOK(a)
  <2>1. NoActor.pc = "idle" /\ NoActor.cont = "idle"
    BY DEF NoActor
  <2> QED
    BY <2>1 DEF Init, ActorOK, KindOK, SnapOK, CopyOK, Holding, Conts
<1>3. RefIntegrity
  BY Placeholders, ControlAssumption DEF Init, RefIntegrity, Exists
<1> QED
  BY <1>1, <1>2, <1>3 DEF IInv, ActorOK

\* Every step keeps it.
LEMMA NextIInv == IInv /\ [Next]_vars => IInv'
<1> SUFFICES ASSUME IInv, [Next]_vars PROVE IInv'
  OBVIOUS
<1>0. TypeOK /\ RefIntegrity /\ \A a \in Actors : ActorOK(a) /\ SnapOK(a)
  BY DEF IInv, ActorOK
<1>1. TypeOK'
  BY <1>0, TypeStep
<1>2. CASE Next
  <2>1. \A a \in Actors : ActorOK(a)'
    BY <1>0, <1>2, ActorStep
  <2>2. RefIntegrity'
    BY <1>0, <1>2, RefStep
  <2> QED
    BY <1>1, <2>1, <2>2 DEF IInv, ActorOK
<1>3. CASE UNCHANGED vars
  BY <1>3, <1>1 DEF vars, IInv, KindOK, SnapOK, CopyOK, Holding, RefIntegrity, Exists
<1> QED
  BY <1>2, <1>3

\* The inductive invariant holds in every behaviour.
THEOREM Invariance == Spec => []IInv
BY InitIInv, NextIInv, PTL DEF Spec

\* Type correctness, for every number of goroutines and tasks.
THEOREM TypeCorrect == Spec => []TypeOK
<1>1. IInv => TypeOK
  BY DEF IInv
<1> QED
  BY <1>1, Invariance, PTL

\* However requests, runs and restarts interleave, no table refers to a task or
\* to a connection that is gone (the foreign keys, and the checks of
\* TaskRepository.Update and ConnectionService.Delete).
THEOREM ReferentialIntegrity == Spec => []RefIntegrity
<1>1. IInv => RefIntegrity
  BY DEF IInv
<1> QED
  BY <1>1, Invariance, PTL

\* Who puts a task back into service: the only writes that can are Degrade,
\* Succeed and UpdatePut, from a copy, and Transit.
LEMMA Activation ==
  ASSUME IInv, Next, NEW t \in Tasks,
         tasks[t].status \in Dormant, tasks'[t].status \in Schedulable
  PROVE  \E a \in Actors :
           /\ act[a].task = t
           /\ a \in stale \/ (act[a].pc = "transit" /\ act[a].kind = "start")
<1>0. TypeOK /\ \A a \in Actors : ActorOK(a)
  BY DEF IInv, ActorOK
<1>1. tasks' # tasks /\ tasks'[t] # tasks[t]
  BY DEF Dormant, Schedulable
<1>2. PICK a \in Actors : Run(a) \/ ResolveFails(a)
  <2>1. ~Trigger /\ ~Crash
    BY <1>1 DEF Trigger, SchedulerTick, PollerTick, WatcherEvent, Begin, SchedulerOp, Crash
  <2>2. ASSUME NEW h \in Handlers, Request(h)
        PROVE  FALSE
    <3>1. PICK u \in Tasks : \/ \E c \in Conns, dir \in Directions : CreateTask(h, u, c, dir)
                             \/ DeleteTask(h, u)
      BY <1>1, <2>2 DEF Request, Start, Pause, Stop, TransitBegin, UpdateBegin,
                        CreateConnection, DeleteConnection
    <3>2. tasks'[u].status \in {"absent", "created"} /\ \A v \in Tasks : v # u => tasks'[v] = tasks[v]
      <4>1. CASE DeleteTask(h, u)
        BY <1>0, <4>1, Placeholders DEF DeleteTask, TypeOK
      <4>2. ASSUME NEW c \in Conns, NEW dir \in Directions, CreateTask(h, u, c, dir)
            PROVE  /\ tasks'[u].status = "created"
                   /\ \A v \in Tasks : v # u => tasks'[v] = tasks[v]
        BY <1>0, <4>2 DEF CreateTask, TypeOK
      <4> QED
        BY <3>1, <4>1, <4>2
    <3> QED
      BY <1>1, <3>2 DEF Schedulable
  <2>3. ASSUME NEW a \in Actors, PlanFailed(a) \/ ActionFailed(a)
        PROVE  FALSE
    BY <1>1, <2>3 DEF PlanFailed, ActionFailed
  <2>4. ASSUME NEW h \in Handlers, HangUp(h)
        PROVE  FALSE
    BY <1>1, <2>4 DEF HangUp
  <2> QED
    BY <2>1, <2>2, <2>3, <2>4 DEF Next, RunError
<1> DEFINE r == act[a]
<1>3. r.task \in Tasks /\ r.snap \in TaskRow /\ ActorOK(a)
  BY <1>0 DEF TypeOK, ActorRow
<1>4. ASSUME NEW row, UpdateTask(r.task, row)
      PROVE  r.task = t /\ tasks'[t] = row
  BY <1>0, <1>1, <1>3, <1>4 DEF UpdateTask, TypeOK
<1>5. CASE Resolve(a) \/ ResolveFails(a) \/ Fail(a)
  <2>1. UpdateTask(r.task, [r.snap EXCEPT !.status = "failed"])
    BY <1>1, <1>5 DEF Resolve, ResolveFails, Fail
  <2>2. [r.snap EXCEPT !.status = "failed"].status = "failed"
    BY <1>3 DEF TaskRow
  <2> QED
    BY <1>4, <2>1, <2>2 DEF Schedulable
<1>6. CASE Degrade(a) \/ Succeed(a)
  <2>1. \E row : UpdateTask(r.task, row)
    BY <1>1, <1>6 DEF Degrade, Succeed
  <2>2. r.task = t
    BY <1>4, <2>1
  <2>3. Holding(a) /\ r.kind \in RunKinds /\ r.pc # "transit"
    BY <1>3, <1>6 DEF Degrade, Succeed, Holding, ActorOK, KindOK
  <2>4. a \in stale
    BY <1>3, <2>2, <2>3 DEF ActorOK, CopyOK
  <2> QED
    BY <2>2, <2>4
<1>7. CASE UpdatePut(a)
  <2>1. r.task = t /\ tasks'[t] = r.snap /\ r.pc = "put"
    BY <1>4, <1>7 DEF UpdatePut
  <2>2. a \in stale
    BY <1>3, <2>1 DEF ActorOK, CopyOK
  <2> QED
    BY <2>1, <2>2
<1>8. CASE Transit(a)
  <2>1. r.task = t /\ tasks'[t] = r.snap /\ r.pc = "transit"
    BY <1>4, <1>8 DEF Transit
  <2>2. r.kind = "start"
    BY <1>3, <2>1 DEF ActorOK, SnapOK, Schedulable
  <2> QED
    BY <2>1, <2>2
<1> QED
  BY <1>1, <1>2, <1>5, <1>6, <1>7, <1>8
  DEF Run, Load, Mark, Enter, Flush, Planned, EnqueueRefused, ActionsDone, Record, OpDone

\* A task out of service comes back only through Start, or through a goroutine
\* whose copy of the row was read before the task was taken out of service
\* (the unconditional writes of executeTask, Update and transitionStatus).
THEOREM ActivationTheorem == Spec => ActivationNeedsStart
<1>1. IInv /\ [Next]_vars =>
        [\A t \in Tasks :
           tasks[t].status \in Dormant /\ tasks'[t].status \in Schedulable =>
             \E a \in Actors :
               /\ act[a].task = t
               /\ a \in stale \/ (act[a].pc = "transit" /\ act[a].kind = "start")]_vars
  BY Activation
<1> QED
  BY <1>1, Invariance, PTL DEF Spec, ActivationNeedsStart

----------------------------------------------------------------------------
(* The failure streak.                                                     *)

\* A run that met no other call on its task carries no streak, and finds none
\* in the runtime row between the write that marks it and the read of the row.
StreakOK(a) ==
  LET r == act[a]
  IN  Holding(a) /\ a \notin overlap =>
        /\ ~Meets(a)
        /\ r.pc = "flush" /\ r.cont = "resolve" => r.pend.streak = 0
        /\ r.pc = "resolve" => runtime[r.task].streak = 0
        /\ r.pc \in {"plan", "exec", "degrade"} => r.streak = 0
        /\ r.pc = "flush" /\ r.cont = "exec" => r.streak = 0

\* A step of a run moves its own goroutine only.
LEMMA OthersStay ==
  ASSUME IInv, NEW a \in Actors, Run(a) \/ RunError(a)
  PROVE  Others(a)
<1>0. TypeOK /\ ActorOK(a) /\ act[a].ok \in BOOLEAN
  BY DEF IInv, ActorOK, TypeOK, ActorRow
<1>1. ASSUME NEW ok \in BOOLEAN, Return(a, ok) PROVE Others(a)
  BY <1>0, <1>1, ReturnEnds
<1>2. CASE \/ Mark(a) \/ Enter(a) \/ Planned(a) \/ PlanFailed(a) \/ EnqueueRefused(a)
           \/ ActionsDone(a) \/ ActionFailed(a) \/ Degrade(a) \/ Fail(a) \/ Succeed(a)
           \/ Flush(a) /\ act[a].cont # "idle"
           \/ Resolve(a) /\ act[a].snap.conn \in conns
  BY <1>0, <1>2, RunGoesOn
<1>3. CASE \/ Flush(a) /\ act[a].cont = "idle"
           \/ Resolve(a) /\ act[a].snap.conn \notin conns
           \/ ResolveFails(a) \/ Record(a) \/ UpdatePut(a)
  <2>1. Return(a, act[a].ok) \/ Return(a, FALSE) \/ Return(a, TRUE)
    BY <1>3 DEF Flush, Resolve, ResolveFails, Record, UpdatePut
  <2> QED BY <1>0, <1>1, <2>1
<1>4. CASE OpDone(a)
  BY <1>0, <1>4 DEF OpDone, TypeOK, Others
<1>5. CASE Load(a)
  <2>1. Return(a, FALSE) \/ \E pc, snap : act' = [act EXCEPT ![a].pc = pc, ![a].snap = snap]
    BY <1>5 DEF Load
  <2> QED BY <1>0, <1>1, <2>1 DEF TypeOK, Others
<1>6. CASE Transit(a)
  <2>1. Return(a, FALSE) \/ Step(a, "enter") \/ \E row : Prepare(a, row, "idle")
    BY <1>6 DEF Transit
  <2> QED BY <1>0, <1>1, <2>1 DEF TypeOK, Others, Step, Prepare
<1> QED
  BY <1>2, <1>3, <1>4, <1>5, <1>6 DEF Run, RunError

\* A goroutine moves by a step of its own run, or it begins or drops a call.
LEMMA Movers ==
  ASSUME IInv, Next, NEW a \in Actors, act'[a] # act[a]
  PROVE  Run(a) \/ RunError(a) \/ act'[a].pc \in {"idle", "load", "put", "transit"}
<1>0. TypeOK /\ act \in [Actors -> ActorRow] /\ act[a] \in ActorRow
  BY DEF IInv, TypeOK
<1>1. ASSUME NEW b \in Actors, Run(b) \/ RunError(b) PROVE Run(a) \/ RunError(a)
  BY <1>1, OthersStay DEF Others
<1>2. ASSUME NEW b \in Actors, NEW kind, NEW t, Begin(b, kind, t) PROVE act'[a].pc = "load"
  BY <1>0, <1>2 DEF Begin, ActorRow
<1>3. ASSUME NEW t \in Tasks, SchedulerTick(t) \/ PollerTick(t) \/ WatcherEvent(t)
      PROVE  act'[a].pc = "load"
  BY <1>2, <1>3 DEF SchedulerTick, PollerTick, WatcherEvent, Actors
<1>4. ASSUME NEW s \in Slots, SchedulerOp(s) PROVE act'[a].pc = "load"
  BY <1>0, <1>4 DEF SchedulerOp, ActorRow
<1>5. ASSUME NEW h \in Handlers, Request(h) PROVE act'[a].pc \in {"put", "transit"}
  <2>1. ASSUME NEW t \in Tasks, NEW c \in Conns, NEW dir \in Directions, UpdateBegin(h, t, c, dir)
        PROVE  act'[a].pc = "put"
    BY <1>0, <2>1 DEF UpdateBegin, ActorRow
  <2>2. ASSUME NEW t \in Tasks, NEW kind, NEW s, TransitBegin(h, t, kind, s)
        PROVE  act'[a].pc = "transit"
    BY <1>0, <2>2 DEF TransitBegin, ActorRow
  <2>3. act' # act
    OBVIOUS
  <2> QED
    BY <1>5, <2>1, <2>2, <2>3
    DEF Request, Start, Pause, Stop, CreateTask, DeleteTask, CreateConnection, DeleteConnection
<1>6. ASSUME NEW h \in Handlers, HangUp(h) PROVE act'[a].pc = "idle"
  BY <1>0, <1>6, Placeholders DEF HangUp
<1>7. CASE Crash
  BY <1>7, Placeholders DEF Crash
<1> QED
  BY <1>1, <1>3, <1>4, <1>5, <1>6, <1>7 DEF Next, Trigger

\* A runtime row is written by Flush, or vanishes with its task.
LEMMA RuntimeWrites ==
  ASSUME IInv, Next, NEW t \in Tasks
  PROVE  \/ runtime'[t].streak = runtime[t].streak
         \/ runtime'[t].streak = 0
         \/ \E b \in Actors : Flush(b) /\ act[b].task = t
<1>0. TypeOK
  BY DEF IInv
<1>1. ASSUME NEW b \in Actors, Run(b) \/ RunError(b)
      PROVE  runtime' = runtime \/ (Flush(b) /\ (act[b].task # t => runtime'[t] = runtime[t]))
  <2>1. CASE Flush(b)
    BY <1>0, <2>1 DEF Flush, UpsertRuntime, TypeOK
  <2>2. CASE ~Flush(b)
    BY <1>1, <2>2 DEF Run, RunError, Load, Mark, Enter, Resolve, Planned, EnqueueRefused, ActionsDone,
      Degrade, Fail, Record, Succeed, OpDone, UpdatePut, Transit, ResolveFails, PlanFailed, ActionFailed
  <2> QED BY <2>1, <2>2
<1>2. ASSUME NEW h \in Handlers, Request(h) PROVE runtime'[t] = runtime[t] \/ runtime'[t] = NoState
  <2>1. ASSUME NEW u \in Tasks, DeleteTask(h, u)
        PROVE  runtime'[t] = runtime[t] \/ runtime'[t] = NoState
    BY <1>0, <2>1 DEF DeleteTask, TypeOK
  <2> QED
    BY <1>2, <2>1 DEF Request, Start, Pause, Stop, TransitBegin, UpdateBegin, CreateTask,
      CreateConnection, DeleteConnection
<1>3. (Trigger \/ Crash \/ \E h \in Handlers : HangUp(h)) => runtime' = runtime
  BY DEF Trigger, SchedulerTick, PollerTick, WatcherEvent, Begin, SchedulerOp, Crash, HangUp
<1>4. NoState.streak = 0
  BY DEF NoState, Fresh
<1> QED
  BY <1>1, <1>2, <1>3, <1>4 DEF Next

\* Every step keeps the streaks.
LEMMA StreakStep ==
  ASSUME IInv, \A a \in Actors : StreakOK(a), Next
  PROVE  \A a \in Actors : StreakOK(a)'
<1> SUFFICES ASSUME NEW a \in Actors, Holding(a)', a \notin overlap' PROVE StreakOK(a)'
  BY DEF StreakOK
<1> DEFINE r == act[a]
<1>0. TypeOK /\ r \in ActorRow /\ r.task \in Tasks /\ ActorOK(a) /\ r.cont \in Conts
  BY DEF IInv, TypeOK, ActorRow, ActorOK, KindOK
<1>1. a \notin overlap /\ ~Meets(a)'
  BY DEF Next, Outdate
<1>2. CASE act'[a] = act[a]
  <2>1. Holding(a) /\ ~Meets(a)
    BY <1>1, <1>2 DEF Holding, StreakOK
  <2>2. ASSUME NEW b \in Actors, Flush(b), act[b].task = r.task PROVE FALSE
    <3>1. Holding(b)
      BY <2>2 DEF Flush, Holding
    <3>2. b = a
      BY <2>1, <2>2, <3>1 DEF Meets
    <3>3. Return(a, r.ok) \/ act' = [act EXCEPT ![a].pc = r.cont, ![a].pend = NoState,
                                                ![a].cont = "idle"]
      BY <2>2, <3>2 DEF Flush
    <3>4. act'[a].pc # "flush"
      <4>1. CASE Return(a, r.ok)
        BY <1>0, <4>1, ReturnEnds DEF Ends, ActorRow
      <4>2. CASE act' = [act EXCEPT ![a].pc = r.cont, ![a].pend = NoState, ![a].cont = "idle"]
        BY <1>0, <4>2 DEF TypeOK, ActorRow, Conts
      <4> QED BY <3>3, <4>1, <4>2
    <3> QED BY <1>2, <2>2, <3>2, <3>4 DEF Flush
  <2>3. runtime'[r.task].streak = runtime[r.task].streak \/ runtime'[r.task].streak = 0
    BY <1>0, <2>2, RuntimeWrites
  <2> QED BY <1>1, <1>2, <2>1, <2>3 DEF StreakOK
<1>3. CASE act'[a] # act[a] /\ ~(Run(a) \/ RunError(a))
  <2>1. act'[a].pc \in {"idle", "load", "put", "transit"}
    BY <1>3, Movers
  <2> QED BY <1>1, <2>1 DEF StreakOK
<1>4. CASE Run(a) \/ RunError(a)
  <2>d. act \in [Actors -> ActorRow]
    BY <1>0 DEF TypeOK
  <2>1. ASSUME NEW ok \in BOOLEAN, Return(a, ok) PROVE StreakOK(a)'
    BY <1>0, <2>1, ReturnEnds DEF Ends, StreakOK, Holding
  <2>2. ASSUME act'[a].pc \in {"mark", "enter", "fail", "record", "succeed"}
               \/ (act'[a].pc = "flush" /\ act'[a].cont \in {"idle", "enter", "record"})
        PROVE  StreakOK(a)'
    BY <1>1, <2>2 DEF StreakOK
  <2>3. CASE Load(a) \/ Transit(a)
    <3>1. \/ Return(a, FALSE) \/ Step(a, "enter")
          \/ \E row : Prepare(a, row, "idle")
          \/ \E pc \in {"mark", "enter"} : \E snap :
               act' = [act EXCEPT ![a].pc = pc, ![a].snap = snap]
      BY <2>3 DEF Load, Transit
    <3> QED
      BY <1>0, <2>d, <2>1, <2>2, <3>1, ZenonT(60) DEF Step, Prepare, ActorRow
  <2>4. CASE Mark(a) \/ Fail(a) \/ Degrade(a) \/ Succeed(a)
    <3>1. CASE Mark(a) \/ Fail(a)
      <4>1. \E row : Prepare(a, row, "enter") \/ Prepare(a, row, "record")
        BY <3>1 DEF Mark, Fail
      <4> QED
        BY <1>0, <2>d, <2>2, <4>1 DEF Prepare, ActorRow
    <3>2. CASE Degrade(a) \/ Succeed(a)
      <4>1. \E row : act' = [act EXCEPT ![a].pc = "flush", ![a].cont = "idle", ![a].ok = TRUE,
                                        ![a].pend = row]
        BY <3>2 DEF Degrade, Succeed
      <4> QED
        BY <1>0, <2>d, <2>2, <4>1 DEF ActorRow
    <3> QED BY <2>4, <3>1, <3>2
  <2>5. CASE PlanFailed(a) \/ EnqueueRefused(a) \/ ActionsDone(a)
    <3>1. Step(a, "fail") \/ Step(a, "succeed")
      BY <2>5 DEF PlanFailed, EnqueueRefused, ActionsDone
    <3> QED
      BY <1>0, <2>d, <2>2, <3>1 DEF Step, ActorRow
  <2>6. CASE ResolveFails(a) \/ Record(a) \/ UpdatePut(a)
    BY <2>1, <2>6 DEF ResolveFails, Record, UpdatePut
  <2>7. CASE OpDone(a)
    BY <2>d, <2>7, Placeholders DEF OpDone, Holding
  <2>8. CASE Enter(a)
    <3> DEFINE row == Carry(r.task, Fresh("running", 0))
    <3>1. row.streak = 0
      BY <1>0 DEF Carry, Fresh
    <3>2. Prepare(a, row, "resolve")
      BY <2>8 DEF Enter
    <3> HIDE DEF row
    <3>3. act'[a].pc = "flush" /\ act'[a].cont = "resolve" /\ act'[a].pend = row
      BY <1>0, <2>d, <3>2 DEF Prepare, ActorRow
    <3> QED
      BY <1>1, <3>1, <3>3 DEF StreakOK
  <2>9. CASE Flush(a)
    <3>1. r.pc = "flush" /\ Holding(a) /\ UpsertRuntime(r.task, r.pend)
      BY <2>9 DEF Flush, Holding
    <3>2. (r.cont = "resolve" => r.pend.streak = 0) /\ (r.cont = "exec" => r.streak = 0)
      BY <1>1, <3>1 DEF StreakOK
    <3>3. CASE r.cont = "idle"
      BY <1>0, <2>1, <2>9, <3>3 DEF Flush, ActorRow
    <3>4. CASE r.cont # "idle"
      <4>1. /\ act'[a].pc = r.cont /\ act'[a].streak = r.streak
            /\ act'[a].task = r.task
        BY <1>0, <2>d, <2>9, <3>4 DEF Flush, ActorRow
      <4>2. r.cont = "resolve" => runtime'[r.task].streak = 0
        <5>1. CASE Exists(r.task)
          BY <1>0, <3>1, <3>2, <5>1 DEF UpsertRuntime, TypeOK
        <5>2. CASE ~Exists(r.task)
          <6>1. runtime' = runtime /\ runtime[r.task] = NoState
            BY <1>0, <3>1, <5>2 DEF UpsertRuntime, IInv, RefIntegrity
          <6>2. NoState.streak = 0
            BY DEF NoState, Fresh
          <6> QED BY <6>1, <6>2
        <5> QED BY <5>1, <5>2
      <4> QED
        BY <1>0, <1>1, <3>2, <3>4, <4>1, <4>2 DEF StreakOK, Conts
    <3> QED BY <3>3, <3>4
  <2>10. CASE Resolve(a)
    <3>1. r.pc = "resolve" /\ Holding(a)
      BY <2>10 DEF Resolve, Holding
    <3>2. runtime[r.task].streak = 0
      BY <1>1, <3>1 DEF StreakOK
    <3>3. \/ Return(a, FALSE)
          \/ act' = [act EXCEPT ![a].pc = "plan", ![a].streak = runtime[r.task].streak]
      BY <2>10 DEF Resolve
    <3>4. CASE act' = [act EXCEPT ![a].pc = "plan", ![a].streak = runtime[r.task].streak]
      <4>1. act'[a].pc = "plan" /\ act'[a].streak = 0
        BY <1>0, <2>d, <3>2, <3>4 DEF ActorRow
      <4> QED BY <1>1, <4>1 DEF StreakOK
    <3> QED BY <2>1, <3>3, <3>4
  <2>11. CASE Planned(a) \/ ActionFailed(a)
    <3>1. r.pc \in {"plan", "exec"} /\ Holding(a)
      BY <2>11 DEF Planned, ActionFailed, Holding
    <3>2. r.streak = 0
      BY <1>1, <3>1 DEF StreakOK
    <3>3. Step(a, "exec") \/ Step(a, "degrade") \/ \E row : Prepare(a, row, "exec")
      BY <2>11 DEF Planned, ActionFailed
    <3>4. /\ act'[a].streak = r.streak
          /\ act'[a].pc \in {"exec", "degrade"} \/ (act'[a].pc = "flush" /\ act'[a].cont = "exec")
      <4>1. CASE Step(a, "exec") \/ Step(a, "degrade")
        BY <1>0, <2>d, <4>1 DEF Step, ActorRow
      <4>2. ASSUME NEW row, Prepare(a, row, "exec")
            PROVE  act'[a].streak = r.streak /\ act'[a].pc = "flush" /\ act'[a].cont = "exec"
        BY <1>0, <2>d, <4>2 DEF Prepare, ActorRow
      <4> QED BY <3>3, <4>1, <4>2
    <3> QED BY <1>1, <3>2, <3>4 DEF StreakOK
  <2> QED
    BY <1>4, <2>3, <2>4, <2>5, <2>6, <2>7, <2>8, <2>9, <2>10, <2>11 DEF Run, RunError
<1> QED BY <1>2, <1>3, <1>4

\* No run that was alone on its task ever counts a second failure in a row: the
\* write that marks a run as running has wiped the streak out (executeTask).
THEOREM StreakTheorem == Spec => []RetryingNeedsOverlap
<1> DEFINE Streaks == \A a \in Actors : StreakOK(a)
<1>1. Init => Streaks
  <2>1. NoActor.pc = "idle"
    BY DEF NoActor
  <2> QED BY <2>1 DEF Init, StreakOK, Holding
<1>2. IInv /\ Streaks /\ [Next]_vars => Streaks'
  <2>1. CASE UNCHANGED vars
    BY <2>1 DEF vars, StreakOK, Holding, Meets
  <2> QED BY <2>1, StreakStep
<1>3. IInv /\ Streaks => RetryingNeedsOverlap
  BY DEF IInv, TypeOK, ActorRow, StreakOK, Streak, Holding, RetryingNeedsOverlap
<1> HIDE DEF Streaks
<1> QED
  BY <1>1, <1>2, <1>3, Invariance, PTL DEF Spec
===============================================================================
