-------------------------- MODULE SyncQueue_proofs --------------------------
(***************************************************************************)
(* The operation queue of a task with a single worker implements           *)
(* OperationQueue, for any trees, any scenarios and any bounds.            *)
(***************************************************************************)
EXTENDS SyncTask_proofs

----------------------------------------------------------------------------
(* Rows and their ids.                                                     *)

HasRow(q, id, s) == \E i \in DOMAIN q : q[i].id = id /\ q[i].status = s
Distinct(q) == \A i, j \in DOMAIN q : q[i].id = q[j].id => i = j

LEMMA RowIds == ASSUME NEW q, NEW id PROVE id \in ItemIds(q) <=> \E s : HasRow(q, id, s)
BY DEF ItemIds, HasRow

LEMMA OneStatus ==
  ASSUME NEW q, Distinct(q), NEW id, NEW s, NEW t, HasRow(q, id, s), HasRow(q, id, t) PROVE s = t
BY DEF Distinct, HasRow

\* A row is written by its id.
Rewritten(r, q, id, s) ==
  /\ Distinct(q) => Distinct(r)
  /\ ItemIds(r) = ItemIds(q)
  /\ \A x, t : HasRow(r, x, t) <=> IF x = id THEN t = s /\ x \in ItemIds(q) ELSE HasRow(q, x, t)

LEMMA UpdateRows ==
  ASSUME NEW tk, NEW q, Entries(tk, q), NEW id, NEW s \in ItemStatus, NEW attempt \in 0..MaxAttempts,
         NEW r, r = Reschedule(q, id, s, attempt) \/ r = SetStatus(q, id, s)
  PROVE  Rewritten(r, q, id, s)
<1>1. DOMAIN r = DOMAIN q
  BY DEF Reschedule, SetStatus
<1>2. ASSUME NEW i \in DOMAIN q
      PROVE  r[i].id = q[i].id /\ r[i].status = IF q[i].id = id THEN s ELSE q[i].status
  <2>1. Entry(tk, q[i])
    BY DEF Entries
  <2> DEFINE a == [q[i] EXCEPT !.status = s, !.attempt = attempt]
             b == [q[i] EXCEPT !.status = s]
  <2>2. a.id = q[i].id /\ a.status = s /\ b.id = q[i].id /\ b.status = s
    <3>1. q[i] \in [id : {q[i].id}, act : {q[i].act}, status : ItemStatus, attempt : 0..MaxAttempts]
      BY <2>1 DEF Entry, ItemOK
    <3> QED BY <3>1
  <2>3. \/ r[i] = IF q[i].id = id THEN a ELSE q[i]
        \/ r[i] = IF q[i].id = id THEN b ELSE q[i]
    BY DEF Reschedule, SetStatus
  <2> HIDE DEF a, b
  <2> QED BY <2>2, <2>3
<1>3. Distinct(q) => Distinct(r)
  BY <1>1, <1>2 DEF Distinct
<1>4. ItemIds(r) = ItemIds(q)
  BY <1>1, <1>2 DEF ItemIds
<1>5. ASSUME NEW x, NEW t
      PROVE  HasRow(r, x, t) <=> IF x = id THEN t = s /\ x \in ItemIds(q) ELSE HasRow(q, x, t)
  <2>1. CASE x = id
    BY <1>1, <1>2, <2>1 DEF HasRow, ItemIds
  <2>2. CASE x # id
    BY <1>1, <1>2, <2>2 DEF HasRow
  <2> QED BY <2>1, <2>2
<1> QED BY <1>3, <1>4, <1>5 DEF Rewritten

\* Some of the rows.
LEMMA SelectedRows ==
  ASSUME NEW q, IsSeq(q), NEW idx \in SUBSET DOMAIN q, NEW r, r = Selected(q, idx)
  PROVE  /\ Distinct(q) => Distinct(r)
         /\ \A x, t : HasRow(r, x, t) <=> \E i \in idx : q[i].id = x /\ q[i].status = t
         /\ \A k \in DOMAIN r : \E i \in idx : r[k] = q[i]
<1>1. PICK pos : Places(pos, r, q, idx)
  BY SelectedPlaces
<1>2. \A k \in DOMAIN r : pos[k] \in idx /\ r[k] = q[pos[k]]
  BY <1>1 DEF Places
<1>3. \A i \in idx : \E k \in DOMAIN r : pos[k] = i
  BY <1>1 DEF Places
<1>4. Distinct(q) => Distinct(r)
  BY <1>1, <1>2 DEF Distinct, Places
<1>5. \A x, t : HasRow(r, x, t) <=> \E i \in idx : q[i].id = x /\ q[i].status = t
  BY <1>2, <1>3 DEF HasRow
<1> QED BY <1>2, <1>4, <1>5

\* The first item and the others.
LEMMA TailRows ==
  ASSUME NEW tk, NEW q, Entries(tk, q), q # <<>>, Distinct(q)
  PROVE  /\ Distinct(Tail(q)) /\ Head(q).id \notin ItemIds(Tail(q))
         /\ ItemIds(q) = {Head(q).id} \cup ItemIds(Tail(q))
         /\ \A i \in DOMAIN Tail(q) : \E j \in DOMAIN q : Tail(q)[i] = q[j]
         /\ \E j \in DOMAIN q : Head(q) = q[j]
<1> DEFINE t == Tail(q)
           h == Head(q)
<1>1. /\ 1 \in DOMAIN q /\ h = q[1]
      /\ \A i \in DOMAIN t : i + 1 \in DOMAIN q /\ t[i] = q[i + 1]
  BY TailEntries
<1>2. q \in Seq(Range(q)) /\ Len(q) \in Nat /\ DOMAIN q = 1..Len(q) /\ Len(q) # 0
  BY IsSeqDomain, EmptySeq DEF Entries
<1>3. t \in Seq(Range(q)) /\ Len(t) = Len(q) - 1
  BY <1>2, HeadTailProperties
<1>4. DOMAIN t = 1..(Len(q) - 1)
  BY <1>3, LenProperties
<1> HIDE DEF t, h
<1>5. Distinct(t)
  BY <1>1, <1>4, <1>2 DEF Distinct
<1>6. h.id \notin ItemIds(t)
  <2> SUFFICES ASSUME NEW i \in DOMAIN t, t[i].id = h.id PROVE FALSE
    BY DEF ItemIds
  <2>1. i \in Nat /\ i # 0
    BY <1>2, <1>4
  <2>2. i + 1 = 1
    BY <1>1 DEF Distinct
  <2> QED BY <2>1, <2>2
<1>7. ItemIds(q) = {h.id} \cup ItemIds(t)
  <2>1. \A j \in DOMAIN q : j = 1 \/ (j - 1 \in DOMAIN t /\ t[j - 1] = q[j])
    BY <1>1, <1>2, <1>4
  <2> QED BY <1>1, <2>1 DEF ItemIds
<1>8. \A i \in DOMAIN t : \E j \in DOMAIN q : t[i] = q[j]
  BY <1>1
<1>9. \E j \in DOMAIN q : h = q[j]
  BY <1>1
<1> QED BY <1>5, <1>6, <1>7, <1>8, <1>9 DEF t, h

----------------------------------------------------------------------------
(* The ids of new rows.                                                    *)

\* The numbers up to n that are not in U.
Unused(U, n) == (1..n) \ U

LEMMA Upto == ASSUME NEW n \in Nat PROVE IsFiniteSet(1..n) /\ Cardinality(1..n) = n
<1>1. IsFiniteSet(1..n) /\ Cardinality(1..n) = IF 1 > n THEN 0 ELSE n - 1 + 1
  BY FS_Interval
<1> QED BY <1>1

LEMMA UnusedFinite ==
  ASSUME NEW U, NEW n \in Nat PROVE IsFiniteSet(Unused(U, n)) /\ Cardinality(Unused(U, n)) \in Nat
<1>1. IsFiniteSet(1..n)
  BY FS_Interval
<1>2. IsFiniteSet(Unused(U, n))
  BY <1>1, FS_Subset DEF Unused
<1> QED BY <1>2, FS_CardinalityType

\* Of every size up to that of Unused(U, n), some Unused(U, m) with m unused is.
LEMMA UnusedSteps ==
  ASSUME NEW U, NEW n \in Nat, NEW j \in 1..Cardinality(Unused(U, n))
  PROVE  \E m \in Unused(U, n) : Cardinality(Unused(U, m)) = j
<1> DEFINE C(k) == Cardinality(Unused(U, k))
           P(k) == \A i \in 1..C(k) : \E m \in Unused(U, k) : C(m) = i
           T == {k \in Nat : P(k)}
<1>1. 0 \in T
  <2>1. Unused(U, 0) = {}
    BY DEF Unused
  <2>2. C(0) = 0
    BY <2>1, FS_EmptySet
  <2> QED BY <2>2
<1>2. ASSUME NEW k \in Nat, k \in T PROVE k + 1 \in T
  <2>0. P(k) /\ C(k) \in Nat /\ IsFiniteSet(Unused(U, k))
    BY <1>2, UnusedFinite
  <2>1. CASE k + 1 \in U
    <3>1. Unused(U, k + 1) = Unused(U, k)
      BY <2>1 DEF Unused
    <3> QED BY <2>0, <3>1
  <2>2. CASE k + 1 \notin U
    <3>1. Unused(U, k + 1) = Unused(U, k) \cup {k + 1} /\ k + 1 \notin Unused(U, k)
      BY <2>2 DEF Unused
    <3>2. C(k + 1) = C(k) + 1
      BY <2>0, <3>1, FS_AddElement
    <3>3. k + 1 \in Unused(U, k + 1)
      BY <3>1
    <3> HIDE DEF C
    <3>4. ASSUME NEW i \in 1..C(k + 1) PROVE \E m \in Unused(U, k + 1) : C(m) = i
      <4>1. CASE i \in 1..C(k)
        BY <2>0, <3>1, <4>1
      <4>2. CASE i = C(k + 1)
        BY <3>3, <4>2
      <4> QED BY <2>0, <3>2, <4>1, <4>2
    <3> QED BY <3>4
  <2> QED BY <2>1, <2>2
<1> HIDE DEF T
<1>3. Nat \subseteq T
  BY <1>1, <1>2, NatSetInduction
<1>4. P(n)
  BY <1>3 DEF T
<1> QED BY <1>4

\* As long as there is room, FreshId finds an id.
LEMMA Fresh ==
  ASSUME IInv, ItemIds(queue) \subseteq 1..scene.queueCap, NEW k \in Nat \ {0}, Len(queue) + k <= scene.queueCap
  PROVE  /\ FreshId(k) \in (1..scene.queueCap) \ ItemIds(queue)
         /\ Cardinality(Unused(ItemIds(queue), FreshId(k))) = k
<1> DEFINE U == ItemIds(queue)
           cap == scene.queueCap
<1>1. cap \in Nat
  BY SyncAssumption DEF IInv, Scenario
<1>2. Len(queue) \in Nat /\ DOMAIN queue = 1..Len(queue)
  BY IsSeqDomain DEF IInv, QueueInv, Entries
<1> DEFINE f == [i \in DOMAIN queue |-> queue[i].id]
<1>3. f \in Surjection(DOMAIN queue, U)
  BY DEF Surjection, ItemIds
<1>4. IsFiniteSet(DOMAIN queue) /\ Cardinality(DOMAIN queue) = Len(queue)
  BY <1>2, Upto
<1>5. IsFiniteSet(U) /\ Cardinality(U) <= Len(queue) /\ Cardinality(U) \in Nat
  BY <1>3, <1>4, FS_Surjection, FS_CardinalityType
<1> HIDE DEF U, cap, f
<1>6. IsFiniteSet(1..cap) /\ Cardinality(1..cap) = cap
  BY <1>1, Upto
<1> DEFINE S == 1..cap
<1>7. S \cap U = U /\ Unused(U, cap) = S \ U
  BY DEF U, cap, Unused
<1>8. Cardinality(Unused(U, cap)) = cap - Cardinality(U)
  <2> HIDE DEF S
  <2>1. Cardinality(S \ U) = Cardinality(S) - Cardinality(S \cap U)
    BY <1>6, FS_Difference DEF S
  <2> QED BY <1>6, <1>7, <2>1 DEF S
<1>9. k \in 1..Cardinality(Unused(U, cap))
  BY <1>1, <1>2, <1>5, <1>8 DEF cap
<1>10. \E n \in Unused(U, cap) : Cardinality(Unused(U, n)) = k
  BY <1>1, <1>9, UnusedSteps
<1>11. FreshId(k) = CHOOSE n \in Unused(U, cap) : Cardinality(Unused(U, n)) = k
  BY Zenon DEF FreshId, Unused, U, cap
<1> DEFINE n == FreshId(k)
<1>12. n \in Unused(U, cap) /\ Cardinality(Unused(U, n)) = k
  BY <1>10, <1>11
<1> QED BY <1>12 DEF U, cap, Unused

\* A plan puts new rows behind the others, under ids of their own.
LEMMA EnqueueRows ==
  ASSUME IInv, Distinct(queue), ItemIds(queue) \subseteq 1..scene.queueCap,
         NEW plan, PlannedSeq(task, plan), NEW r, r = Enqueue(plan)
  PROVE  \E New \in SUBSET ((1..scene.queueCap) \ ItemIds(queue)) :
           /\ Distinct(r) /\ ItemIds(r) = ItemIds(queue) \cup New
           /\ \A x, t : HasRow(r, x, t) <=> HasRow(queue, x, t) \/ (x \in New /\ t = "queued")
<1>1. PICK room \in Nat :
        /\ room <= Len(plan) /\ (Len(queue) + room <= scene.queueCap \/ room = 0)
        /\ r = queue \o [i \in 1..room |-> Item(FreshId(i), plan[i])]
  BY EnqueueEntries
<1> DEFINE new == [i \in 1..room |-> Item(FreshId(i), plan[i])]
           New == {FreshId(i) : i \in 1..room}
<1>2. scene.queueCap \in Nat /\ IsSeq(queue) /\ Len(queue) \in Nat /\ DOMAIN queue = 1..Len(queue)
  BY IsSeqDomain, SyncAssumption DEF IInv, Scenario, QueueInv, Entries
<1>3. ASSUME NEW i \in 1..room
      PROVE  /\ FreshId(i) \in (1..scene.queueCap) \ ItemIds(queue)
             /\ Cardinality(Unused(ItemIds(queue), FreshId(i))) = i
  <2>1. i \in Nat \ {0} /\ Len(queue) + i <= scene.queueCap
    BY <1>1, <1>2
  <2> QED BY <2>1, Fresh
<1>4. \A i, j \in 1..room : FreshId(i) = FreshId(j) => i = j
  BY <1>3
<1>5. IsSeq(new) /\ DOMAIN new = 1..room
  BY FunctionIsSeq
<1>6. \A i \in DOMAIN new : new[i].id = FreshId(i) /\ new[i].status = "queued"
  BY DEF Item
<1>7. /\ \A i \in DOMAIN r : \/ i \in DOMAIN queue /\ r[i] = queue[i]
                             \/ i - Len(queue) \in DOMAIN new /\ r[i] = new[i - Len(queue)]
      /\ \A i \in DOMAIN queue : i \in DOMAIN r /\ r[i] = queue[i]
      /\ \A i \in DOMAIN new : Len(queue) + i \in DOMAIN r /\ r[Len(queue) + i] = new[i]
      /\ IsSeq(r)
  <2>1. r = queue \o new
    BY <1>1
  <2> HIDE DEF new
  <2> QED BY <1>2, <1>5, <2>1, ConcatIsSeq
<1>8. DOMAIN r \subseteq Nat
  BY <1>7, IsSeqDomain
<1> HIDE DEF new
<1>9. New \in SUBSET ((1..scene.queueCap) \ ItemIds(queue))
  BY <1>3
<1>10. Distinct(r)
  <2> SUFFICES ASSUME NEW i \in DOMAIN r, NEW j \in DOMAIN r, r[i].id = r[j].id PROVE i = j
    BY DEF Distinct
  <2>1. \A l \in DOMAIN queue : queue[l].id \in ItemIds(queue)
    BY DEF ItemIds
  <2>2. \A l \in DOMAIN new : new[l].id \notin ItemIds(queue)
    BY <1>3, <1>5, <1>6
  <2>3. CASE i \in DOMAIN queue /\ r[i] = queue[i] /\ j \in DOMAIN queue /\ r[j] = queue[j]
    BY <2>3 DEF Distinct
  <2>4. CASE /\ i - Len(queue) \in DOMAIN new /\ r[i] = new[i - Len(queue)]
             /\ j - Len(queue) \in DOMAIN new /\ r[j] = new[j - Len(queue)]
    <3>1. FreshId(i - Len(queue)) = FreshId(j - Len(queue))
      BY <1>6, <2>4
    <3>2. i - Len(queue) = j - Len(queue)
      BY <1>4, <1>5, <2>4, <3>1
    <3> QED BY <1>2, <1>8, <3>2
  <2> QED BY <1>7, <2>1, <2>2, <2>3, <2>4
<1>11. \A x, t : HasRow(r, x, t) <=> HasRow(queue, x, t) \/ (x \in New /\ t = "queued")
  <2>1. ASSUME NEW x, NEW t, HasRow(r, x, t) PROVE HasRow(queue, x, t) \/ (x \in New /\ t = "queued")
    <3>1. PICK i \in DOMAIN r : r[i].id = x /\ r[i].status = t
      BY <2>1 DEF HasRow
    <3>2. CASE i \in DOMAIN queue /\ r[i] = queue[i]
      BY <3>1, <3>2 DEF HasRow
    <3>3. CASE i - Len(queue) \in DOMAIN new /\ r[i] = new[i - Len(queue)]
      BY <1>5, <1>6, <3>1, <3>3
    <3> QED BY <1>7, <3>2, <3>3
  <2>2. ASSUME NEW x, NEW t, HasRow(queue, x, t) PROVE HasRow(r, x, t)
    BY <1>7, <2>2 DEF HasRow
  <2>3. ASSUME NEW x \in New PROVE HasRow(r, x, "queued")
    <3>1. PICK i \in 1..room : x = FreshId(i)
      BY DEF New
    <3>2. new[i].id = x /\ new[i].status = "queued" /\ i \in DOMAIN new
      BY <1>5, <1>6, <3>1
    <3>3. Len(queue) + i \in DOMAIN r /\ r[Len(queue) + i] = new[i]
      BY <1>7, <3>2
    <3> QED BY <3>2, <3>3 DEF HasRow
  <2> QED BY <2>1, <2>2, <2>3
<1>12. ItemIds(r) = ItemIds(queue) \cup New
  <2> HIDE DEF New
  <2>1. \A x : x \in ItemIds(r) <=> x \in ItemIds(queue) \/ x \in New
    BY <1>11, RowIds
  <2> QED BY <2>1
<1> HIDE DEF New
<1> QED BY <1>9, <1>10, <1>11, <1>12

\* Of the finished rows of q, r holds those with an id in kept.
Purged(r, q, kept) ==
  /\ Distinct(r)
  /\ \A x, t : HasRow(r, x, t) <=> HasRow(q, x, t) /\ (t \notin {"succeeded", "failed"} \/ x \in kept)

\* What is left of the queue when the worker goes on as wk, and after a kill.
LEMMA ForgetRows ==
  ASSUME NEW tk, NEW q, Entries(tk, q), Distinct(q), NEW wk, NEW r, r = Forget(q, wk)
  PROVE  Purged(r, q, Held(wk))
<1> DEFINE idx == {i \in DOMAIN q : Unfinished(q[i]) \/ q[i].id \in Held(wk)}
<1>1. idx \in SUBSET DOMAIN q /\ IsSeq(q)
  BY DEF Entries
<1>2. r = Selected(q, idx)
  BY DEF Forget
<1>3. \A x, t : (\E i \in idx : q[i].id = x /\ q[i].status = t)
                  <=> HasRow(q, x, t) /\ (t \notin {"succeeded", "failed"} \/ x \in Held(wk))
  BY DEF HasRow, Unfinished
<1> HIDE DEF idx
<1>4. Distinct(r) /\ \A x, t : HasRow(r, x, t) <=> \E i \in idx : q[i].id = x /\ q[i].status = t
  BY <1>1, <1>2, SelectedRows
<1> QED BY <1>3, <1>4 DEF Purged

LEMMA UnfinishedRows ==
  ASSUME NEW q, IsSeq(q), Distinct(q), NEW r, r = Selected(q, {i \in DOMAIN q : Unfinished(q[i])})
  PROVE  Purged(r, q, {})
<1> DEFINE idx == {i \in DOMAIN q : Unfinished(q[i])}
<1>1. idx \in SUBSET DOMAIN q
  OBVIOUS
<1>2. \A x, t : (\E i \in idx : q[i].id = x /\ q[i].status = t)
                  <=> HasRow(q, x, t) /\ t \notin {"succeeded", "failed"}
  BY DEF HasRow, Unfinished
<1> HIDE DEF idx
<1>3. Distinct(r) /\ \A x, t : HasRow(r, x, t) <=> \E i \in idx : q[i].id = x /\ q[i].status = t
  BY <1>1, SelectedRows DEF idx
<1> QED BY <1>2, <1>3 DEF Purged

----------------------------------------------------------------------------
(* The life of a row, told from the queue and the items in hand.           *)

HandOf(pc, todo) == IF pc \in Handling THEN {Head(todo).id} ELSE {}
LifeOf(q, hand, id) ==
  IF id \in hand THEN "held"
  ELSE LET rows == {i \in DOMAIN q : q[i].id = id}
       IN  IF rows = {} THEN "absent" ELSE RowLife(q[CHOOSE i \in rows : TRUE].status)

\* The items in the only worker's hand.
InHands == HandOf(work[Scheduler].pc, work[Scheduler].todo)

LEMMA RowLives ==
  /\ \A s \in Executable : RowLife(s) = "waiting"
  /\ RowLife("executing") = "orphaned" /\ RowLife("succeeded") = "finished" /\ RowLife("failed") = "finished"
BY DEF RowLife, Executable

LEMMA LifeIs ==
  ASSUME Workers = {Scheduler}, NEW id
  PROVE  Life(id) = LifeOf(queue, InHands, id) /\ Life(id)' = LifeOf(queue', InHands', id)
<1>1. InHand(id) <=> id \in InHands
  BY DEF InHand, InHands, HandOf, Cur
<1>2. InHand(id)' <=> id \in InHands'
  BY DEF InHand, InHands, HandOf, Cur
<1>3. Life(id) = LifeOf(queue, InHands, id)
  BY <1>1 DEF Life, LifeOf
<1>4. Life(id)' = LifeOf(queue', InHands', id)
  BY <1>2 DEF Life, LifeOf
<1> QED BY <1>3, <1>4

LEMMA LifeCases ==
  ASSUME NEW q, Distinct(q), NEW hand, NEW id
  PROVE  /\ id \in hand => LifeOf(q, hand, id) = "held"
         /\ id \notin hand => \A s : HasRow(q, id, s) => LifeOf(q, hand, id) = RowLife(s)
         /\ id \notin hand /\ id \notin ItemIds(q) => LifeOf(q, hand, id) = "absent"
<1> DEFINE rows == {i \in DOMAIN q : q[i].id = id}
<1>1. id \notin hand =>
        LifeOf(q, hand, id) = IF rows = {} THEN "absent" ELSE RowLife(q[CHOOSE i \in rows : TRUE].status)
  BY Zenon DEF LifeOf
<1>2. ASSUME NEW s, HasRow(q, id, s) PROVE rows # {} /\ q[CHOOSE i \in rows : TRUE].status = s
  <2>1. PICK i \in DOMAIN q : q[i].id = id /\ q[i].status = s
    BY <1>2 DEF HasRow
  <2>2. i \in rows /\ \A j \in rows : j = i
    BY <2>1 DEF Distinct
  <2>3. (CHOOSE j \in rows : TRUE) \in rows
    BY <2>2
  <2>4. (CHOOSE j \in rows : TRUE) = i
    BY <2>2, <2>3
  <2> QED BY <2>1, <2>2, <2>4
<1>3. id \notin ItemIds(q) => rows = {}
  BY DEF ItemIds
<1>4. id \in hand => LifeOf(q, hand, id) = "held"
  BY DEF LifeOf
<1> QED BY <1>1, <1>2, <1>3, <1>4

LEMMA AnyLife ==
  ASSUME NEW q, NEW hand, NEW id
  PROVE  LifeOf(q, hand, id) \in {"absent", "waiting", "held", "orphaned", "finished"}
<1>1. \A s : RowLife(s) \in {"waiting", "orphaned", "finished"}
  BY DEF RowLife
<1>2. \/ LifeOf(q, hand, id) \in {"held", "absent"}
      \/ \E s : LifeOf(q, hand, id) = RowLife(s)
  BY DEF LifeOf
<1> QED BY <1>1, <1>2

\* Rows with the same statuses in the same hands live the same life.
LEMMA SameLife ==
  ASSUME NEW q, Distinct(q), NEW r, Distinct(r), NEW hand, NEW next, NEW id,
         id \in hand <=> id \in next,
         id \notin hand => \A t : HasRow(r, id, t) <=> HasRow(q, id, t)
  PROVE  LifeOf(r, next, id) = LifeOf(q, hand, id)
<1>1. CASE id \in hand
  BY <1>1, LifeCases
<1>2. CASE id \notin hand /\ id \in ItemIds(q)
  <2>1. PICK s : HasRow(q, id, s) /\ HasRow(r, id, s)
    BY <1>2, RowIds
  <2> QED BY <1>2, <2>1, LifeCases
<1>3. CASE id \notin hand /\ id \notin ItemIds(q)
  <2>1. id \notin ItemIds(r)
    BY <1>3, RowIds
  <2> QED BY <1>3, <2>1, LifeCases
<1> QED BY <1>1, <1>2, <1>3

----------------------------------------------------------------------------
(* What steps of the queue are for OperationQueue.                         *)

SameAsked == ItemIds(request.todo') = ItemIds(request.todo)

LEMMA StutterStep ==
  ASSUME \A id \in QueueIds : Life(id)' = Life(id), SameAsked
  PROVE  UNCHANGED Queue!queueVars
BY DEF Queue!queueVars, SameAsked, ItemIds

LEMMA MovesStep ==
  ASSUME NEW i \in QueueIds, NEW from, NEW to, Life(i) = from, Life(i)' = to, SameAsked,
         \A j \in QueueIds : j # i => Life(j)' = Life(j)
  PROVE  Queue!Moves(i, from, to)
BY DEF Queue!Moves, SameAsked, ItemIds

----------------------------------------------------------------------------
(* The invariant behind the refinement.                                    *)

\* Of a queue q and a worker at pc with the items todo, while a request has
\* asked for some rows: ids are unique; what the worker listed is still there and
\* waits, or is executing in the worker's hand; a finished row is kept for the
\* request.
Sound(q, pc, todo, asked, cap) ==
  /\ Distinct(q) /\ ItemIds(q) \subseteq 1..cap
  /\ Distinct(todo) /\ ItemIds(todo) \subseteq ItemIds(q) /\ asked \subseteq ItemIds(q)
  /\ pc \in {"idle", "snap", "list"} => todo = <<>>
  /\ \A i \in DOMAIN todo : todo[i].status \in Executable
  /\ \A x \in ItemIds(todo) : \A t : HasRow(q, x, t) => \/ t \in Executable
                                                        \/ t = "executing" /\ x \in HandOf(pc, todo)
  /\ \A x, t : HasRow(q, x, t) /\ t \in {"succeeded", "failed"} => x \in asked

NotInHand == {"idle", "snap", "list", "next"}

LEMMA EmptyHand == ASSUME NEW todo, NEW pc \in NotInHand PROVE HandOf(pc, todo) = {}
BY DEF HandOf, NotInHand, Handling

LEMMA NoItems == Distinct(<<>>) /\ ItemIds(<<>>) = {} /\ DOMAIN <<>> = {}
BY DEF Distinct, ItemIds

LEMMA RowStatus ==
  ASSUME NEW tk, NEW q, Entries(tk, q), NEW x, NEW t, HasRow(q, x, t)
  PROVE  t \in ItemStatus /\ x \in ItemIds(q)
BY DEF Entries, Entry, ItemOK, HasRow, ItemIds

\* The worker has listed some of the waiting rows.
LEMMA ListingSound ==
  ASSUME NEW q, NEW pc, NEW todo, NEW asked, NEW cap, Sound(q, pc, todo, asked, cap), IsSeq(q),
         NEW due \in SUBSET {i \in DOMAIN q : q[i].status \in Executable}, NEW listed, listed = Selected(q, due)
  PROVE  Sound(q, "next", listed, asked, cap)
<1>1. /\ Distinct(listed)
      /\ \A k \in DOMAIN listed : \E i \in due : listed[k] = q[i]
  BY SelectedRows DEF Sound
<1>2. \A k \in DOMAIN listed : \E i \in DOMAIN q : listed[k] = q[i] /\ q[i].status \in Executable
  BY <1>1
<1>3. \A k \in DOMAIN listed : listed[k].status \in Executable
  BY <1>2
<1>4. \A x \in ItemIds(listed) : \E s \in Executable : HasRow(q, x, s)
  BY <1>2 DEF ItemIds, HasRow
<1>5. ItemIds(listed) \subseteq ItemIds(q)
  BY <1>4, RowIds
<1>6. \A x \in ItemIds(listed) : \A t : HasRow(q, x, t) => t \in Executable
  BY <1>4, OneStatus DEF Sound
<1> QED BY <1>1, <1>3, <1>5, <1>6 DEF Sound

\* The row of the item next in line, and what the worker takes when it takes it.
LEMMA HeadRow ==
  ASSUME NEW tk, NEW q, NEW pc, NEW todo, NEW asked, NEW cap, Sound(q, pc, todo, asked, cap),
         Entries(tk, todo), todo # <<>>, NEW id, id = Head(todo).id
  PROVE  /\ id \in ItemIds(todo) /\ id \in ItemIds(q) /\ Head(todo).status \in Executable
         /\ ItemIds(todo) = {id} \cup ItemIds(Tail(todo)) /\ id \notin ItemIds(Tail(todo))
         /\ Distinct(Tail(todo)) /\ \A i \in DOMAIN Tail(todo) : Tail(todo)[i].status \in Executable
         /\ pc \in NotInHand => LifeOf(q, HandOf(pc, todo), id) = "waiting"
         /\ pc \in Handling => LifeOf(q, HandOf(pc, todo), id) = "held" /\ HandOf(pc, todo) = {id}
<1> DEFINE t == Tail(todo)
           h == Head(todo)
<1>1. /\ Distinct(t) /\ h.id \notin ItemIds(t)
      /\ ItemIds(todo) = {h.id} \cup ItemIds(t)
      /\ \A i \in DOMAIN t : \E j \in DOMAIN todo : t[i] = todo[j]
      /\ \E j \in DOMAIN todo : h = todo[j]
  BY TailRows DEF Sound
<1> HIDE DEF t, h
<1>2. id \in ItemIds(todo) /\ id \in ItemIds(q) /\ h.status \in Executable
  BY <1>1 DEF Sound, h
<1>3. \A i \in DOMAIN t : t[i].status \in Executable
  BY <1>1 DEF Sound
<1>4. pc \in NotInHand => LifeOf(q, HandOf(pc, todo), id) = "waiting"
  <2> SUFFICES ASSUME pc \in NotInHand PROVE LifeOf(q, HandOf(pc, todo), id) = "waiting"
    OBVIOUS
  <2>1. HandOf(pc, todo) = {}
    BY EmptyHand
  <2>2. PICK s : HasRow(q, id, s)
    BY <1>2, RowIds
  <2>3. s \in Executable
    BY <1>2, <2>1, <2>2 DEF Sound
  <2>4. LifeOf(q, HandOf(pc, todo), id) = RowLife(s)
    BY <2>1, <2>2, LifeCases DEF Sound
  <2> QED BY <2>3, <2>4, RowLives
<1>5. pc \in Handling => LifeOf(q, HandOf(pc, todo), id) = "held" /\ HandOf(pc, todo) = {id}
  <2>1. pc \in Handling => HandOf(pc, todo) = {id}
    BY DEF HandOf
  <2> QED BY <2>1, LifeCases DEF Sound
<1> QED BY <1>1, <1>2, <1>3, <1>4, <1>5 DEF t, h

\* The worker takes the next item, and writes its row if the queue becomes r.
LEMMA TakeSound ==
  ASSUME NEW tk, NEW q, NEW todo, NEW asked, NEW cap, Sound(q, "next", todo, asked, cap),
         Entries(tk, q), Entries(tk, todo), todo # <<>>, NEW pc \in Handling, NEW attempt \in 0..MaxAttempts,
         NEW r, r = q \/ r = Reschedule(q, Head(todo).id, "executing", attempt)
  PROVE  /\ Sound(r, pc, todo, asked, cap)
         /\ \A x : x # Head(todo).id => LifeOf(r, HandOf(pc, todo), x) = LifeOf(q, HandOf("next", todo), x)
         /\ LifeOf(r, HandOf(pc, todo), Head(todo).id) = "held"
         /\ \A x : LifeOf(q, HandOf("next", todo), x) # "held"
<1> DEFINE id == Head(todo).id
<1>0. HandOf(pc, todo) = {id} /\ HandOf("next", todo) = {} /\ pc \notin {"idle", "snap", "list"}
  BY EmptyHand DEF HandOf, Handling, NotInHand
<1>1. id \in ItemIds(todo) /\ id \in ItemIds(q)
  BY HeadRow
<1> HIDE DEF id
<1>2. /\ Distinct(r) /\ ItemIds(r) = ItemIds(q)
      /\ \A x, t : x # id => (HasRow(r, x, t) <=> HasRow(q, x, t))
      /\ \A t : HasRow(r, id, t) => t = "executing" \/ HasRow(q, id, t)
  <2>1. CASE r = q
    BY <2>1 DEF Sound
  <2>2. CASE r = Reschedule(q, id, "executing", attempt)
    <3>1. "executing" \in ItemStatus
      BY DEF ItemStatus
    <3>2. Rewritten(r, q, id, "executing")
      BY <2>2, <3>1, UpdateRows
    <3> QED BY <3>2 DEF Sound, Rewritten
  <2> QED BY <2>1, <2>2 DEF id
<1>3. \A x \in ItemIds(todo) : \A t : HasRow(r, x, t) => t \in Executable \/ (t = "executing" /\ x \in {id})
  BY <1>0, <1>2 DEF Sound
<1>4. \A x, t : HasRow(r, x, t) /\ t \in {"succeeded", "failed"} => x \in asked
  BY <1>2 DEF Sound
<1>5. Sound(r, pc, todo, asked, cap)
  BY <1>0, <1>2, <1>3, <1>4 DEF Sound
<1>6. ASSUME NEW x, x # id PROVE LifeOf(r, {id}, x) = LifeOf(q, {}, x)
  BY <1>2, <1>6, SameLife DEF Sound
<1>7. LifeOf(r, {id}, id) = "held"
  BY <1>2, LifeCases
<1>8. ASSUME NEW x PROVE LifeOf(q, {}, x) # "held"
  <2>1. Distinct(q)
    BY DEF Sound
  <2>2. CASE x \notin ItemIds(q)
    BY <2>1, <2>2, LifeCases
  <2>3. CASE x \in ItemIds(q)
    <3>1. PICK s : HasRow(q, x, s)
      BY <2>3, RowIds
    <3>2. s \in ItemStatus /\ LifeOf(q, {}, x) = RowLife(s)
      BY <2>1, <3>1, RowStatus, LifeCases
    <3> QED BY <3>2, RowLives DEF ItemStatus
  <2> QED BY <2>2, <2>3
<1> QED BY <1>0, <1>5, <1>6, <1>7, <1>8 DEF id

\* The worker is at the item id and leaves it with status s, how it goes on, and
\* what has become of the rows.
Leaves(q, pc, todo, asked, cap, id, s) ==
  /\ Sound(q, pc, todo, asked, cap) /\ pc \in {"next"} \cup Handling
  /\ todo # <<>> /\ id = Head(todo).id
  /\ s \in Executable \cup {"succeeded", "failed"}
GoesOn(todo, next, rest) == (next = "next" /\ rest = Tail(todo)) \/ (next = "idle" /\ rest = <<>>)
LeftAs(r, q, hand, id, s, asked) ==
  /\ \A x : x # id => LifeOf(r, {}, x) = LifeOf(q, hand, x)
  /\ LifeOf(r, {}, id) =
       IF s \in Executable THEN "waiting" ELSE IF id \in asked THEN "finished" ELSE "absent"

\* The worker leaves the item it is at: its row is written with status s, and
\* finished rows that nobody remembers are forgotten.
LEMMA LeaveSound ==
  ASSUME NEW tk, NEW q, NEW pc, NEW todo, NEW asked, NEW cap, NEW id, NEW s,
         Leaves(q, pc, todo, asked, cap, id, s), Entries(tk, todo), NEW q1, Rewritten(q1, q, id, s),
         NEW next, NEW rest, GoesOn(todo, next, rest), NEW r, Purged(r, q1, asked \cup ItemIds(rest))
  PROVE  Sound(r, next, rest, asked, cap) /\ LeftAs(r, q, HandOf(pc, todo), id, s, asked)
<1>0. /\ Sound(q, pc, todo, asked, cap) /\ pc \in {"next"} \cup Handling
      /\ todo # <<>> /\ id = Head(todo).id
      /\ s \in Executable \cup {"succeeded", "failed"}
  BY DEF Leaves
<1>1. /\ id \in ItemIds(todo) /\ id \in ItemIds(q)
      /\ ItemIds(todo) = {id} \cup ItemIds(Tail(todo)) /\ id \notin ItemIds(Tail(todo))
      /\ Distinct(Tail(todo)) /\ \A i \in DOMAIN Tail(todo) : Tail(todo)[i].status \in Executable
  BY <1>0, HeadRow
<1>2. HandOf(pc, todo) \subseteq {id}
  BY <1>0 DEF HandOf
<1>3. "succeeded" \notin Executable /\ "failed" \notin Executable /\ "executing" \notin Executable
  BY DEF Executable
<1>4. /\ Distinct(r)
      /\ \A x, t : HasRow(r, x, t) <=> /\ HasRow(q1, x, t)
                                       /\ t \notin {"succeeded", "failed"} \/ x \in asked \cup ItemIds(rest)
  BY DEF Purged
<1>5. \A x, t : HasRow(q1, x, t) <=> IF x = id THEN t = s ELSE HasRow(q, x, t)
  BY <1>1 DEF Rewritten
<1>6. /\ Distinct(rest) /\ ItemIds(rest) \subseteq ItemIds(todo) \ {id}
      /\ \A i \in DOMAIN rest : rest[i].status \in Executable
  BY <1>1, NoItems DEF GoesOn
<1>7. ASSUME NEW x, x # id PROVE \A t : HasRow(r, x, t) <=> HasRow(q, x, t)
  BY <1>0, <1>4, <1>5, <1>7 DEF Sound
<1>8. \A t : HasRow(r, id, t) <=> t = s /\ (s \in Executable \/ id \in asked)
  BY <1>0, <1>3, <1>4, <1>5, <1>6
<1>9. ItemIds(r) \subseteq ItemIds(q) /\ ItemIds(rest) \subseteq ItemIds(r) /\ asked \subseteq ItemIds(r)
  <2>1. \A x : x # id => (x \in ItemIds(r) <=> x \in ItemIds(q))
    BY <1>7, RowIds
  <2>2. id \in asked => id \in ItemIds(r)
    BY <1>8, RowIds
  <2> QED BY <1>0, <1>1, <1>6, <2>1, <2>2 DEF Sound
<1>10. \A x \in ItemIds(rest) : \A t : HasRow(r, x, t) => t \in Executable
  BY <1>0, <1>2, <1>6, <1>7 DEF Sound
<1>11. \A x, t : HasRow(r, x, t) /\ t \in {"succeeded", "failed"} => x \in asked
  <2> TAKE x, t
  <2>1. CASE x = id
    BY <1>3, <1>8, <2>1
  <2>2. CASE x # id
    BY <1>0, <1>7, <2>2 DEF Sound
  <2> QED BY <2>1, <2>2
<1>12. Sound(r, next, rest, asked, cap)
  BY <1>0, <1>4, <1>6, <1>9, <1>10, <1>11 DEF Sound, GoesOn
<1>13. ASSUME NEW x, x # id PROVE LifeOf(r, {}, x) = LifeOf(q, HandOf(pc, todo), x)
  BY <1>0, <1>2, <1>4, <1>7, <1>13, SameLife DEF Sound
<1>14. LifeOf(r, {}, id) = IF s \in Executable THEN "waiting" ELSE IF id \in asked THEN "finished" ELSE "absent"
  <2>1. CASE s \in Executable \/ id \in asked
    <3>1. LifeOf(r, {}, id) = RowLife(s)
      BY <1>4, <1>8, <2>1, LifeCases
    <3> QED BY <1>0, <2>1, <3>1, RowLives
  <2>2. CASE ~(s \in Executable \/ id \in asked)
    <3>1. id \notin ItemIds(r)
      BY <1>8, <2>2, RowIds
    <3> QED BY <1>4, <2>2, <3>1, LifeCases
  <2> QED BY <2>1, <2>2
<1> QED BY <1>12, <1>13, <1>14 DEF LeftAs

\* A row a request asked for is written back as queued.
AnsweredAs(r, q, hand, id) ==
  /\ \A x : x # id => LifeOf(r, hand, x) = LifeOf(q, hand, x)
  /\ LifeOf(r, hand, id) = IF LifeOf(q, hand, id) = "held" THEN "held" ELSE "waiting"

LEMMA AnswerSound ==
  ASSUME NEW tk, NEW q, NEW pc, NEW todo, NEW asked, NEW cap, Sound(q, pc, todo, asked, cap), Entries(tk, q),
         NEW id \in asked, NEW r, Rewritten(r, q, id, "queued")
  PROVE  Sound(r, pc, todo, asked \ {id}, cap) /\ AnsweredAs(r, q, HandOf(pc, todo), id)
<1> DEFINE hand == HandOf(pc, todo)
<1> HIDE DEF hand
<1>1. "queued" \in Executable
  BY DEF Executable
<1>3. /\ Distinct(r) /\ Distinct(q) /\ ItemIds(r) = ItemIds(q) /\ id \in ItemIds(q)
      /\ \A x, t : x # id => (HasRow(r, x, t) <=> HasRow(q, x, t))
      /\ \A t : HasRow(r, id, t) <=> t = "queued"
  BY DEF Rewritten, Sound
<1>4. \A x \in ItemIds(todo) : \A t : HasRow(r, x, t) => t \in Executable \/ (t = "executing" /\ x \in hand)
  BY <1>1, <1>3 DEF Sound, hand
<1>5. \A x, t : HasRow(r, x, t) /\ t \in {"succeeded", "failed"} => x \in asked \ {id}
  BY <1>3 DEF Sound
<1>6. Sound(r, pc, todo, asked \ {id}, cap)
  BY <1>3, <1>4, <1>5 DEF Sound, hand
<1>7. ASSUME NEW x, x # id PROVE LifeOf(r, hand, x) = LifeOf(q, hand, x)
  BY <1>3, <1>7, SameLife
<1>8. LifeOf(r, hand, id) = IF LifeOf(q, hand, id) = "held" THEN "held" ELSE "waiting"
  <2>1. CASE id \in hand
    BY <1>3, <2>1, LifeCases
  <2>2. CASE id \notin hand
    <3>1. LifeOf(r, hand, id) = "waiting"
      BY <1>1, <1>3, <2>2, LifeCases, RowLives
    <3>2. PICK s : HasRow(q, id, s)
      BY <1>3, RowIds
    <3>3. LifeOf(q, hand, id) = RowLife(s) /\ s \in ItemStatus
      BY <1>3, <2>2, <3>2, LifeCases, RowStatus
    <3> QED BY <3>1, <3>3, RowLives DEF ItemStatus
  <2> QED BY <2>1, <2>2
<1> QED BY <1>6, <1>7, <1>8 DEF hand, AnsweredAs

\* Every retryable row is queued again.
LEMMA RetryAllSound ==
  ASSUME NEW tk, NEW q, NEW pc, NEW todo, NEW asked, NEW cap, Sound(q, pc, todo, asked, cap), Entries(tk, q),
         NEW r, r = [i \in DOMAIN q |-> IF q[i].status \in {"retry_wait", "executing"}
                                        THEN [q[i] EXCEPT !.status = "queued"] ELSE q[i]]
  PROVE  /\ Sound(r, pc, todo, asked, cap)
         /\ \A x : LifeOf(r, HandOf(pc, todo), x) =
                     IF LifeOf(q, HandOf(pc, todo), x) = "orphaned" THEN "waiting"
                     ELSE LifeOf(q, HandOf(pc, todo), x)
<1> DEFINE hand == HandOf(pc, todo)
           new(s) == IF s \in {"retry_wait", "executing"} THEN "queued" ELSE s
<1> HIDE DEF hand
<1>1. DOMAIN r = DOMAIN q /\ \A i \in DOMAIN q : r[i].id = q[i].id /\ r[i].status = new(q[i].status)
  <2> SUFFICES ASSUME NEW i \in DOMAIN q PROVE r[i].id = q[i].id /\ r[i].status = new(q[i].status)
    OBVIOUS
  <2> DEFINE a == [q[i] EXCEPT !.status = "queued"]
  <2>1. q[i] \in [id : {q[i].id}, act : {q[i].act}, status : ItemStatus, attempt : 0..MaxAttempts]
    BY DEF Entries, Entry, ItemOK
  <2>2. a.id = q[i].id /\ a.status = "queued"
    BY <2>1
  <2>3. r[i] = IF q[i].status \in {"retry_wait", "executing"} THEN a ELSE q[i]
    OBVIOUS
  <2> HIDE DEF a
  <2> QED BY <2>2, <2>3
<1>2. Distinct(r) /\ Distinct(q)
  BY <1>1 DEF Distinct, Sound
<1>3. ItemIds(r) = ItemIds(q)
  BY <1>1 DEF ItemIds
<1>4. \A x, t : HasRow(r, x, t) => \E s : HasRow(q, x, s) /\ t = new(s)
  BY <1>1 DEF HasRow
<1>5. \A x, s : HasRow(q, x, s) => HasRow(r, x, new(s))
  BY <1>1 DEF HasRow
<1>6. \A s \in Executable : new(s) \in Executable
  BY DEF Executable
<1>7. new("executing") = "queued" /\ "queued" \in Executable
  BY DEF Executable
<1>8. \A s : new(s) \in {"succeeded", "failed"} => s = new(s)
  OBVIOUS
<1>9. \A s \in ItemStatus : RowLife(new(s)) = IF RowLife(s) = "orphaned" THEN "waiting" ELSE RowLife(s)
  <2>1. "queued" \in Executable /\ "retry_wait" \in Executable
    BY DEF Executable
  <2> QED BY <2>1, RowLives DEF ItemStatus, Executable
<1> HIDE DEF new
<1>10. \A x \in ItemIds(todo) : \A t : HasRow(r, x, t) => t \in Executable \/ (t = "executing" /\ x \in hand)
  BY <1>4, <1>6, <1>7 DEF Sound, hand
<1>11. \A x, t : HasRow(r, x, t) /\ t \in {"succeeded", "failed"} => x \in asked
  BY <1>4, <1>8 DEF Sound
<1>12. Sound(r, pc, todo, asked, cap)
  BY <1>2, <1>3, <1>10, <1>11 DEF Sound, hand
<1>13. ASSUME NEW x
       PROVE  LifeOf(r, hand, x) = IF LifeOf(q, hand, x) = "orphaned" THEN "waiting" ELSE LifeOf(q, hand, x)
  <2>1. CASE x \in hand
    BY <1>2, <2>1, LifeCases
  <2>2. CASE x \notin hand /\ x \notin ItemIds(q)
    BY <1>2, <1>3, <2>2, LifeCases
  <2>3. CASE x \notin hand /\ x \in ItemIds(q)
    <3>1. PICK s : HasRow(q, x, s)
      BY <2>3, RowIds
    <3>2. s \in ItemStatus /\ HasRow(r, x, new(s))
      BY <1>5, <3>1, RowStatus
    <3>3. LifeOf(q, hand, x) = RowLife(s) /\ LifeOf(r, hand, x) = RowLife(new(s))
      BY <1>2, <2>3, <3>1, <3>2, LifeCases
    <3> QED BY <1>9, <3>2, <3>3
  <2> QED BY <2>1, <2>2, <2>3
<1> QED BY <1>12, <1>13 DEF hand

\* New rows are queued.
LEMMA EnqueueSound ==
  ASSUME NEW q, NEW pc, NEW todo, NEW asked, NEW cap, Sound(q, pc, todo, asked, cap),
         NEW New \in SUBSET ((1..cap) \ ItemIds(q)), NEW r, Distinct(r), ItemIds(r) = ItemIds(q) \cup New,
         \A x, t : HasRow(r, x, t) <=> HasRow(q, x, t) \/ (x \in New /\ t = "queued"),
         pc \in NotInHand
  PROVE  /\ Sound(r, pc, todo, asked, cap)
         /\ \A x : x \notin New => LifeOf(r, {}, x) = LifeOf(q, {}, x)
         /\ \A x \in New : LifeOf(q, {}, x) = "absent" /\ LifeOf(r, {}, x) = "waiting"
<1>1. HandOf(pc, todo) = {} /\ Distinct(q) /\ "queued" \in Executable
  BY EmptyHand DEF Sound, Executable
<1>2. \A x \in ItemIds(todo) : \A t : HasRow(r, x, t) => t \in Executable
  BY <1>1 DEF Sound
<1>3. \A x, t : HasRow(r, x, t) /\ t \in {"succeeded", "failed"} => x \in asked
  BY DEF Sound
<1>4. Sound(r, pc, todo, asked, cap)
  BY <1>2, <1>3 DEF Sound
<1>5. ASSUME NEW x, x \notin New PROVE LifeOf(r, {}, x) = LifeOf(q, {}, x)
  BY <1>1, <1>5, SameLife
<1>6. ASSUME NEW x \in New PROVE LifeOf(q, {}, x) = "absent" /\ LifeOf(r, {}, x) = "waiting"
  BY <1>1, LifeCases, RowLives
<1> QED BY <1>4, <1>5, <1>6

\* A kill: only unfinished rows matter, and nobody remembers the others.
LEMMA KillSound ==
  ASSUME NEW tk, NEW q, NEW pc, NEW todo, NEW asked, NEW cap, Sound(q, pc, todo, asked, cap), Entries(tk, q),
         NEW r, Purged(r, q, {}), Entries(tk, todo), pc \in Handling => todo # <<>>
  PROVE  /\ Sound(r, "idle", <<>>, {}, cap)
         /\ \A x : LET old == LifeOf(q, HandOf(pc, todo), x)
                       new == LifeOf(r, {}, x)
                   IN  \/ old = "held" /\ new \in {"orphaned", "waiting"}
                       \/ old = "finished" /\ new = "absent"
                       \/ old \in {"absent", "waiting", "orphaned"} /\ new = old
<1> DEFINE hand == HandOf(pc, todo)
<1>0. /\ Distinct(r)
      /\ \A x, t : HasRow(r, x, t) <=> HasRow(q, x, t) /\ t \notin {"succeeded", "failed"}
  BY DEF Purged
<1>1. Distinct(q) /\ ItemIds(r) \subseteq ItemIds(q)
  BY <1>0, RowIds DEF Sound
<1>2. Sound(r, "idle", <<>>, {}, cap)
  BY <1>0, <1>1, NoItems DEF Sound
<1>3. ASSUME NEW x \in hand PROVE \E s \in Executable \cup {"executing"} : HasRow(q, x, s)
  <2>1. pc \in Handling /\ todo # <<>> /\ x = Head(todo).id
    BY DEF HandOf
  <2>2. x \in ItemIds(todo) /\ x \in ItemIds(q)
    BY <2>1, HeadRow
  <2>3. PICK s : HasRow(q, x, s)
    BY <2>2, RowIds
  <2> QED BY <2>2, <2>3 DEF Sound
<1> HIDE DEF hand
<1>4. ASSUME NEW x
      PROVE  \/ LifeOf(q, hand, x) = "held" /\ LifeOf(r, {}, x) \in {"orphaned", "waiting"}
             \/ LifeOf(q, hand, x) = "finished" /\ LifeOf(r, {}, x) = "absent"
             \/ LifeOf(q, hand, x) \in {"absent", "waiting", "orphaned"} /\ LifeOf(r, {}, x) = LifeOf(q, hand, x)
  <2>1. CASE x \in hand
    <3>1. PICK s \in Executable \cup {"executing"} : HasRow(q, x, s)
      BY <1>3, <2>1
    <3>2. HasRow(r, x, s)
      BY <1>0, <3>1 DEF Executable
    <3>3. LifeOf(r, {}, x) = RowLife(s) /\ LifeOf(q, hand, x) = "held"
      BY <1>0, <1>1, <2>1, <3>2, LifeCases
    <3> QED BY <3>3, RowLives
  <2>2. CASE x \notin hand /\ x \notin ItemIds(q)
    BY <1>0, <1>1, <2>2, LifeCases
  <2>3. CASE x \notin hand /\ x \in ItemIds(q)
    <3>1. PICK s : HasRow(q, x, s)
      BY <2>3, RowIds
    <3>2. LifeOf(q, hand, x) = RowLife(s) /\ s \in ItemStatus
      BY <1>1, <2>3, <3>1, LifeCases, RowStatus
    <3>3. CASE s \in {"succeeded", "failed"}
      <4>1. x \notin ItemIds(r)
        BY <1>0, <1>1, <3>1, <3>3, RowIds, OneStatus
      <4>2. LifeOf(r, {}, x) = "absent"
        BY <1>0, <4>1, LifeCases
      <4> QED BY <3>2, <3>3, <4>2, RowLives
    <3>4. CASE s \notin {"succeeded", "failed"}
      <4>1. LifeOf(r, {}, x) = RowLife(s)
        BY <1>0, <3>1, <3>4, LifeCases
      <4> QED BY <3>2, <3>4, <4>1, RowLives DEF ItemStatus
    <3> QED BY <3>3, <3>4
  <2> QED BY <2>1, <2>2, <2>3
<1> QED BY <1>2, <1>4 DEF hand

----------------------------------------------------------------------------
(* The steps of the only worker.                                           *)

QInv ==
  /\ Sound(queue, work[Scheduler].pc, work[Scheduler].todo, ItemIds(request.todo), scene.queueCap)
  /\ Distinct(request.todo)

LEMMA WorkerFacts ==
  ASSUME IInv
  PROVE  /\ Entries(task, queue) /\ IsSeq(queue) /\ Entries(task, work[Scheduler].todo)
         /\ work[Scheduler].pc \in NotInHand \cup Handling
         /\ work[Scheduler].pc \in Handling => work[Scheduler].todo # <<>>
         /\ Entries(task, request.todo)
         /\ 1..scene.queueCap \subseteq QueueIds
<1>1. WorkerOK(task, work[Scheduler])
  BY SyncAssumption DEF IInv, WorkInv
<1>2. 1..scene.queueCap \subseteq QueueIds
  BY DEF IInv, QueueIds
<1> QED BY <1>1, <1>2 DEF IInv, QueueInv, RequestInv, WorkerOK, Entries, NotInHand

\* The worker stands at pc with the items todo after the step.
LEMMA After ==
  ASSUME Workers = {Scheduler}, NEW pc, NEW todo, Stands(work', Scheduler, pc, todo)
  PROVE  /\ \A id : /\ Life(id) = LifeOf(queue, HandOf(work[Scheduler].pc, work[Scheduler].todo), id)
                    /\ Life(id)' = LifeOf(queue', HandOf(pc, todo), id)
         /\ (/\ Sound(queue', pc, todo, ItemIds(request.todo'), scene.queueCap')
             /\ Distinct(request.todo')) => QInv'
<1>1. InHands' = HandOf(pc, todo)
  BY DEF InHands, Stands
<1>2. InHands = HandOf(work[Scheduler].pc, work[Scheduler].todo)
  BY DEF InHands
<1>3. \A id : Life(id) = LifeOf(queue, InHands, id) /\ Life(id)' = LifeOf(queue', InHands', id)
  BY LifeIs
<1>4. work'[Scheduler].pc = pc /\ work'[Scheduler].todo = todo
  BY DEF Stands
<1> QED BY <1>1, <1>2, <1>3, <1>4 DEF QInv

\* The worker goes on with the items it has.
LEMMA StayStep ==
  ASSUME Workers = {Scheduler}, QInv, UNCHANGED <<queue, request, scene>>, NEW pc,
         Stands(work', Scheduler, pc, work[Scheduler].todo),
         pc \in {"idle", "snap", "list"} => work[Scheduler].todo = <<>>,
         \/ pc \in NotInHand /\ work[Scheduler].pc \in NotInHand
         \/ pc \in Handling /\ work[Scheduler].pc \in Handling
  PROVE  QInv' /\ UNCHANGED Queue!queueVars
<1> DEFINE todo == work[Scheduler].todo
<1>1. HandOf(pc, todo) = HandOf(work[Scheduler].pc, todo)
  BY EmptyHand DEF HandOf
<1>2. Sound(queue, pc, todo, ItemIds(request.todo), scene.queueCap)
  BY <1>1 DEF QInv, Sound
<1>3. QInv'
  BY <1>2, After DEF QInv
<1>4. \A id \in QueueIds : Life(id)' = Life(id)
  BY <1>1, After
<1> QED BY <1>3, <1>4, StutterStep DEF SameAsked

\* The worker lists rows of the queue.
LEMMA ListingStep ==
  ASSUME Workers = {Scheduler}, IInv, QInv, UNCHANGED <<queue, request, scene>>,
         work[Scheduler].pc \in NotInHand, NEW due \in SUBSET ListExecutable,
         Stands(work', Scheduler, "next", Selected(queue, due))
  PROVE  QInv' /\ UNCHANGED Queue!queueVars
<1> DEFINE listed == Selected(queue, due)
<1>1. Sound(queue, "next", listed, ItemIds(request.todo), scene.queueCap)
  BY ListingSound, WorkerFacts DEF QInv, ListExecutable
<1> HIDE DEF listed
<1>2. Stands(work', Scheduler, "next", listed)
  BY DEF listed
<1>3. QInv'
  BY <1>1, <1>2, After DEF QInv
<1>4. HandOf("next", listed) = {} /\ HandOf(work[Scheduler].pc, work[Scheduler].todo) = {}
  BY EmptyHand DEF NotInHand
<1>5. \A id \in QueueIds : Life(id)' = Life(id)
  BY <1>2, <1>4, After
<1> QED BY <1>3, <1>5, StutterStep DEF SameAsked

\* The worker takes an item.
LEMMA TakeStep ==
  ASSUME Workers = {Scheduler}, IInv, QInv, UNCHANGED <<request, scene>>, Skip(Scheduler) \/ Claim(Scheduler)
  PROVE  QInv' /\ \E i \in QueueIds : Queue!Take(i)
<1> DEFINE todo == work[Scheduler].todo
           asked == ItemIds(request.todo)
<1>a. PICK id : id = Head(todo).id
  OBVIOUS
<1>0. Entries(task, queue) /\ Entries(task, todo) /\ Scheduler \in Workers
  BY WorkerFacts
<1>1. work[Scheduler].pc = "next" /\ todo # <<>>
  BY DEF Skip, Claim, Pending, At
<1>2. Head(todo).attempt \in 0..MaxAttempts
  BY <1>0, <1>1, TailEntries DEF Entry, ItemOK
<1>3. queue' = queue \/ queue' = Reschedule(queue, id, "executing", Head(todo).attempt)
  BY <1>a DEF Skip, Claim, Cur
<1>4. PICK pc \in Handling : Stands(work', Scheduler, pc, todo)
  BY <1>0, WorkAfter DEF Handling
<1>5. Sound(queue, "next", todo, asked, scene.queueCap)
  BY <1>1 DEF QInv
<1> DEFINE cap == scene.queueCap
           r == queue'
           attempt == Head(todo).attempt
           tk == task
<1>6. id \in 1..cap
  <2>1. id \in ItemIds(queue)
    BY <1>a, <1>0, <1>1, <1>5, HeadRow
  <2> QED BY <1>5, <2>1 DEF Sound
<1> HIDE DEF todo, asked, cap, r, attempt, tk
<1>7. /\ Sound(r, pc, todo, asked, cap)
      /\ \A x : x # id => LifeOf(r, HandOf(pc, todo), x) = LifeOf(queue, HandOf("next", todo), x)
      /\ LifeOf(r, HandOf(pc, todo), id) = "held"
      /\ \A x : LifeOf(queue, HandOf("next", todo), x) # "held"
  <2>1. r = queue \/ r = Reschedule(queue, Head(todo).id, "executing", attempt)
    BY <1>a, <1>3 DEF r, attempt
  <2>2. attempt \in 0..MaxAttempts /\ Entries(tk, queue) /\ Entries(tk, todo) /\ todo # <<>>
    BY <1>0, <1>1, <1>2 DEF attempt, tk, todo
  <2>3. Sound(queue, "next", todo, asked, cap)
    BY <1>5 DEF cap
  <2> QED BY <1>a, <2>1, <2>2, <2>3, TakeSound
<1>8. LifeOf(queue, HandOf("next", todo), id) = "waiting"
  BY <1>a, <1>0, <1>1, <1>5, HeadRow DEF NotInHand, todo, tk
<1>9. QInv'
  BY <1>4, <1>7, After DEF QInv, cap, asked, r
<1>10. \A x : /\ Life(x) = LifeOf(queue, HandOf("next", todo), x)
              /\ Life(x)' = LifeOf(r, HandOf(pc, todo), x)
  BY <1>1, <1>4, After DEF r, todo
<1>11. /\ Life(id) = "waiting" /\ Life(id)' = "held"
       /\ \A x : x # id => Life(x)' = Life(x)
       /\ \A x : Life(x) # "held"
  BY <1>7, <1>8, <1>10
<1>12. id \in QueueIds
  BY <1>6, WorkerFacts DEF cap
<1>13. Queue!Moves(id, "waiting", "held")
  BY <1>11, <1>12, MovesStep DEF SameAsked
<1>14. Queue!Take(id)
  BY <1>11, <1>13 DEF Queue!Take
<1> QED BY <1>9, <1>12, <1>14

\* The worker leaves the item it is at, and writes s into its row.
LEMMA LeaveStep ==
  ASSUME Workers = {Scheduler}, IInv, QInv, UNCHANGED <<request, scene>>,
         work[Scheduler].todo # <<>>, work[Scheduler].pc \in {"next"} \cup Handling,
         NEW s \in Executable \cup {"succeeded", "failed"}, NEW attempt \in 0..MaxAttempts,
         NEW q1, \/ q1 = Reschedule(queue, Cur(Scheduler).id, s, attempt)
                 \/ q1 = SetStatus(queue, Cur(Scheduler).id, s),
         queue' = Forget(q1, work'),
         NEW next, NEW rest, Stands(work', Scheduler, next, rest), GoesOn(work[Scheduler].todo, next, rest)
  PROVE  /\ QInv'
         /\ \/ UNCHANGED Queue!queueVars
            \/ \E i \in QueueIds : Queue!Finish(i) \/ Queue!GiveBack(i) \/ Queue!GiveUp(i)
<1>1. PICK q, pc, todo, asked, cap, tk, id :
        /\ q = queue /\ pc = work[Scheduler].pc /\ todo = work[Scheduler].todo
        /\ asked = ItemIds(request.todo) /\ cap = scene.queueCap /\ tk = task /\ id = Head(todo).id
  OBVIOUS
<1>2. /\ Sound(q, pc, todo, asked, cap) /\ Entries(tk, q) /\ Entries(tk, todo) /\ todo # <<>>
      /\ pc \in {"next"} \cup Handling /\ 1..cap \subseteq QueueIds
  BY <1>1, WorkerFacts DEF QInv
<1>3. q1 = Reschedule(q, id, s, attempt) \/ q1 = SetStatus(q, id, s)
  BY <1>1 DEF Cur
<1>4. GoesOn(todo, next, rest) /\ HandOf(next, rest) = {}
  BY <1>1, EmptyHand DEF GoesOn, NotInHand
<1>5. Held(work') = asked \cup ItemIds(rest)
  BY <1>1 DEF Held, Stands
<1>6. s \in ItemStatus
  BY DEF ItemStatus
<1>7. Entries(tk, q1) /\ Distinct(q1) /\ Rewritten(q1, q, id, s)
  <2>1. Entries(tk, q1)
    BY <1>2, <1>3, <1>6, UpdateEntries
  <2>2. Rewritten(q1, q, id, s)
    BY <1>2, <1>3, <1>6, UpdateRows
  <2> QED BY <1>2, <2>1, <2>2 DEF Rewritten, Sound
<1> DEFINE r == queue'
<1>8. Purged(r, q1, asked \cup ItemIds(rest))
  BY <1>5, <1>7, ForgetRows
<1> HIDE DEF r
<1>a. Leaves(q, pc, todo, asked, cap, id, s)
  BY <1>1, <1>2 DEF Leaves
<1>9. Sound(r, next, rest, asked, cap) /\ LeftAs(r, q, HandOf(pc, todo), id, s, asked)
  BY <1>2, <1>4, <1>7, <1>8, <1>a, LeaveSound
<1>10. /\ id \in ItemIds(q)
       /\ pc = "next" => LifeOf(q, HandOf(pc, todo), id) = "waiting"
       /\ pc # "next" => LifeOf(q, HandOf(pc, todo), id) = "held"
  BY <1>1, <1>2, HeadRow DEF NotInHand
<1>11. \A x : /\ Life(x) = LifeOf(q, HandOf(pc, todo), x)
              /\ Life(x)' = LifeOf(r, {}, x)
  BY <1>1, <1>4, After, ZenonT(60) DEF r
<1>12. QInv'
  BY <1>1, <1>9, After DEF QInv, r
<1>13. id \in QueueIds
  BY <1>2, <1>10 DEF Sound
<1>14. SameAsked
  BY DEF SameAsked
<1>15. \A x \in QueueIds : x # id => Life(x)' = Life(x)
  BY <1>9, <1>11 DEF LeftAs
<1>16. ASSUME NEW from, NEW to, Life(id) = from, Life(id)' = to PROVE Queue!Moves(id, from, to)
  BY <1>13, <1>14, <1>15, <1>16, MovesStep
<1>17. Queue!Finished(id) = IF id \in asked THEN "finished" ELSE "absent"
  BY <1>1 DEF Queue!Finished
<1>18. CASE s \in Executable
  <2>1. Life(id)' = "waiting"
    BY <1>9, <1>11, <1>18 DEF LeftAs
  <2>2. CASE pc = "next"
    <3>1. Life(id)' = Life(id)
      BY <1>10, <1>11, <2>1, <2>2
    <3> QED BY <1>12, <1>14, <1>15, <3>1, StutterStep
  <2>3. CASE pc # "next"
    <3>1. Queue!Moves(id, "held", "waiting")
      BY <1>10, <1>11, <1>16, <2>1, <2>3
    <3>2. Queue!GiveBack(id)
      BY <3>1 DEF Queue!GiveBack
    <3> QED BY <1>12, <1>13, <3>2
  <2> QED BY <2>2, <2>3
<1>19. CASE s \notin Executable
  <2>0. PICK f : f = IF id \in asked THEN "finished" ELSE "absent"
    OBVIOUS
  <2>1. Life(id)' = f /\ f = Queue!Finished(id)
    BY <1>9, <1>11, <1>17, <1>19, <2>0 DEF LeftAs
  <2>2. CASE pc = "next"
    <3>1. Queue!Moves(id, "waiting", f)
      BY <1>10, <1>11, <1>16, <2>1, <2>2
    <3>2. Queue!GiveUp(id)
      BY <2>1, <3>1 DEF Queue!GiveUp
    <3> QED BY <1>12, <1>13, <3>2
  <2>3. CASE pc # "next"
    <3>1. Queue!Moves(id, "held", f)
      BY <1>10, <1>11, <1>16, <2>1, <2>3
    <3>2. Queue!Finish(id)
      BY <2>1, <3>1 DEF Queue!Finish
    <3> QED BY <1>12, <1>13, <3>2
  <2> QED BY <2>2, <2>3
<1> QED BY <1>18, <1>19

\* A plan is put into the queue.
LEMMA PlanStep ==
  ASSUME Workers = {Scheduler}, IInv, QInv, UNCHANGED <<request, scene>>, At(Scheduler, "snap"),
         NEW plan, PlannedSeq(task, plan), queue' = Enqueue(plan),
         Stands(work', Scheduler, "list", work[Scheduler].todo)
  PROVE  QInv' /\ Queue!Enqueue
<1>1. PICK q, todo, asked, cap :
        /\ q = queue /\ todo = work[Scheduler].todo
        /\ asked = ItemIds(request.todo) /\ cap = scene.queueCap
  OBVIOUS
<1>2. /\ Sound(q, "snap", todo, asked, cap)
      /\ HandOf(work[Scheduler].pc, todo) = {} /\ HandOf("list", todo) = {}
  BY <1>1, EmptyHand DEF QInv, At, NotInHand
<1>3. Sound(q, "list", todo, asked, cap)
  BY <1>2, EmptyHand DEF Sound, NotInHand
<1> DEFINE r == queue'
<1>4. PICK New \in SUBSET ((1..cap) \ ItemIds(q)) :
        /\ Distinct(r) /\ ItemIds(r) = ItemIds(q) \cup New
        /\ \A x, t : HasRow(r, x, t) <=> HasRow(q, x, t) \/ (x \in New /\ t = "queued")
  BY <1>1, <1>2, EnqueueRows DEF Sound
<1> HIDE DEF r
<1>5. /\ Sound(r, "list", todo, asked, cap)
      /\ \A x : x \notin New => LifeOf(r, {}, x) = LifeOf(q, {}, x)
      /\ \A x \in New : LifeOf(q, {}, x) = "absent" /\ LifeOf(r, {}, x) = "waiting"
  BY <1>3, <1>4, EnqueueSound DEF NotInHand
<1>6. \A x : Life(x) = LifeOf(q, {}, x) /\ Life(x)' = LifeOf(r, {}, x)
  BY <1>1, <1>2, After DEF r
<1>7. QInv'
  BY <1>1, <1>5, After DEF QInv, r
<1>8. \A x \in QueueIds : Life(x)' = Life(x) \/ (Life(x) = "absent" /\ Life(x)' = "waiting")
  BY <1>5, <1>6
<1>9. \A x \in QueueIds : Life(x)' \in Queue!Lives
  BY <1>6, AnyLife DEF Queue!Lives
<1>10. Queue!Enqueue
  BY <1>8, <1>9 DEF Queue!Enqueue, ItemIds
<1> QED BY <1>7, <1>10

\* The queue takes a step of OperationQueue, or none.
QueueStep == Queue!Next \/ UNCHANGED Queue!queueVars

\* Every step of the only worker.
LEMMA OwnStep ==
  ASSUME Workers = {Scheduler}, IInv, QInv, UNCHANGED <<request, scene>>,
         BeginRun(Scheduler) \/ ListDue(Scheduler) \/ Progress(Scheduler) \/ Faults(Scheduler)
  PROVE  QInv' /\ QueueStep
<1> DEFINE w == Scheduler
           todo == work[w].todo
<1>0. /\ w \in Workers /\ work[w].pc \in NotInHand \cup Handling /\ (work[w].pc \in Handling => todo # <<>>)
      /\ work[w].pc \in {"idle", "snap", "list"} => todo = <<>>
  BY WorkerFacts DEF QInv, Sound
<1>1. ASSUME BeginRun(w) \/ PlanFails(w) \/ PlanFault(w) \/ Finish(w) PROVE QInv' /\ QueueStep
  <2>1. work[w].pc \in {"idle", "snap", "next"} /\ todo = <<>> /\ queue' = queue
    BY <1>0, <1>1 DEF BeginRun, PlanFails, PlanFault, PlanError, Finish, At
  <2>2. PICK pc \in {"idle", "snap"} : Stands(work', w, pc, <<>>)
    BY <1>0, <1>1, WorkAfter DEF PlanFails, PlanFault
  <2>3. Stands(work', w, pc, todo)
    BY <2>1, <2>2
  <2> QED BY <2>1, <2>3, StayStep DEF QueueStep, NotInHand
<1>2. ASSUME Effect(w) \/ HttpStatus(w) \/ WriteSource(w) \/ Write(w) \/ WriteTarget(w) PROVE QInv' /\ QueueStep
  <2>1. queue' = queue /\ work[w].pc \in Handling
    BY <1>2 DEF Effect, HttpStatus, WriteSource, Write, WriteTarget, At, Handling
  <2>2. PICK pc \in Handling : Stands(work', w, pc, todo)
    BY <1>0, <1>2, WorkAfter DEF Effect, HttpStatus, Handling
  <2>3. pc \notin {"idle", "snap", "list"}
    BY DEF Handling
  <2> QED BY <2>1, <2>2, <2>3, StayStep DEF QueueStep
<1>3. ASSUME PlanRun(w) \/ PlanBlind(w) \/ PlanMisled(w) PROVE QInv' /\ QueueStep
  <2>1. At(w, "snap")
    BY <1>0, <1>3, SeenIsTree
  <2>2. PICK seen : Planned(w, seen) /\ Tree(seen)
    BY <1>0, <1>3, SeenIsTree
  <2>3. PICK plan \in PlansFrom(w, seen) : queue' = Enqueue(plan)
    BY <2>2 DEF Planned
  <2>4. PlannedSeq(task, plan)
    BY <1>0, <2>1, <2>2, RunPlans
  <2>5. Stands(work', w, "list", todo)
    BY <1>0, <2>2, WorkAfter
  <2>6. QInv' /\ Queue!Enqueue
    BY <2>1, <2>3, <2>4, <2>5, PlanStep
  <2> QED BY <2>6 DEF QueueStep, Queue!Next
<1>4. ASSUME List(w) \/ ListDue(w) PROVE QInv' /\ QueueStep
  <2>1. queue' = queue /\ work[w].pc \in NotInHand
    BY <1>4 DEF List, ListDue, At, NotInHand
  <2>2. PICK due \in SUBSET ListExecutable : Stands(work', w, "next", Selected(queue, due))
    BY <1>0, <1>4, WorkAfter
  <2> QED BY <2>1, <2>2, ListingStep DEF QueueStep
<1>5. ASSUME Skip(w) \/ Claim(w) PROVE QInv' /\ QueueStep
  <2>1. QInv' /\ \E i \in QueueIds : Queue!Take(i)
    BY <1>5, TakeStep
  <2> QED BY <2>1 DEF QueueStep, Queue!Next
<1>6. ASSUME NEW s \in Executable \cup {"succeeded", "failed"}, NEW attempt \in 0..MaxAttempts,
             NEW q1, \/ q1 = Reschedule(queue, Cur(w).id, s, attempt)
                     \/ q1 = SetStatus(queue, Cur(w).id, s),
             todo # <<>>, work[w].pc \in {"next"} \cup Handling, queue' = Forget(q1, work'),
             NEW next, NEW rest, Stands(work', w, next, rest), GoesOn(todo, next, rest)
      PROVE  QInv' /\ QueueStep
  <2>1. /\ QInv'
        /\ \/ UNCHANGED Queue!queueVars
           \/ \E i \in QueueIds : Queue!Finish(i) \/ Queue!GiveBack(i) \/ Queue!GiveUp(i)
    BY <1>6, LeaveStep
  <2> QED BY <2>1 DEF QueueStep, Queue!Next
<1>7. ASSUME Dequeue(w) PROVE QInv' /\ QueueStep
  <2>1. /\ work[w].pc \in Handling /\ todo # <<>>
        /\ queue' = Forget(SetStatus(queue, Cur(w).id, "succeeded"), work')
    BY <1>0, <1>7 DEF Dequeue, At, Handling
  <2>2. Stands(work', w, "next", Tail(todo)) /\ GoesOn(todo, "next", Tail(todo))
    BY <1>0, <1>7, WorkAfter DEF GoesOn
  <2>3. Cur(w).attempt \in 0..MaxAttempts
    BY <1>0, <2>1, Hand
  <2> QED BY <1>6, <2>1, <2>2, <2>3
<1>8. ASSUME Retried(w), todo # <<>>, work[w].pc \in {"next"} \cup Handling PROVE QInv' /\ QueueStep
  <2>1. Stands(work', w, "next", Tail(todo)) /\ GoesOn(todo, "next", Tail(todo))
    BY <1>0, <1>8, WorkAfter DEF GoesOn
  <2>2. Cur(w).attempt \in 0..MaxAttempts /\ Cur(w).status \in Executable
    <3>1. Sound(queue, work[w].pc, todo, ItemIds(request.todo), scene.queueCap) /\ Entries(task, todo)
      BY WorkerFacts DEF QInv
    <3>2. Head(todo).status \in Executable
      BY <1>8, <3>1, HeadRow
    <3> QED BY <1>0, <1>8, <3>2, Hand DEF Cur
  <2>3. CASE Cur(w).attempt + 1 >= MaxAttempts
    <3>1. queue' = Forget(SetStatus(queue, Cur(w).id, "failed"), work')
      BY <1>8, <2>3 DEF Retried
    <3> QED BY <1>6, <1>8, <2>1, <2>2, <3>1
  <2>4. CASE ~(Cur(w).attempt + 1 >= MaxAttempts)
    <3>1. queue' = Forget(Reschedule(queue, Cur(w).id, Cur(w).status, Cur(w).attempt + 1), work')
      BY <1>8, <2>4 DEF Retried
    <3>2. Cur(w).attempt + 1 \in 0..MaxAttempts
      BY <2>2, <2>4, SyncAssumption
    <3> QED BY <1>6, <1>8, <2>1, <2>2, <3>1, <3>2
  <2> QED BY <2>3, <2>4
<1>9. ASSUME FailRun(w), work[w].pc \in Handling PROVE QInv' /\ QueueStep
  <2>1. Stands(work', w, "idle", <<>>) /\ GoesOn(todo, "idle", <<>>)
    BY <1>0, <1>9, WorkAfter DEF GoesOn
  <2>2. queue' = Forget(Reschedule(queue, Cur(w).id, "retry_wait", Bump(Cur(w).attempt)), work')
    BY <1>9 DEF FailRun
  <2>3. Bump(Cur(w).attempt) \in 0..MaxAttempts /\ "retry_wait" \in Executable
    BY <1>0, <1>9, Hand, BumpType DEF Executable
  <2> QED BY <1>0, <1>6, <1>9, <2>1, <2>2, <2>3
<1>10. ASSUME \/ EffectFails(w) \/ WriteRefused(w) \/ Transport(w) \/ LostReply(w) \/ CutBody(w) \/ Refuse(w)
       PROVE  QInv' /\ QueueStep
  <2>1. CASE Refuse(w)
    BY <1>8, <2>1 DEF Refuse, Pending, At
  <2>2. CASE ~Refuse(w)
    <3>1. Failed(w) /\ work[w].pc \in {"exec", "write", "target"}
      BY <1>10, <2>2, Zenon DEF EffectFails, WriteRefused, Transport, LostReply, CutBody, At
    <3>2. work[w].pc \in Handling
      BY <3>1 DEF Handling
    <3> QED BY <1>0, <1>8, <1>9, <3>1, <3>2 DEF Failed, FailOp
  <2> QED BY <2>1, <2>2
<1> HIDE DEF w, todo
<1>11. BeginRun(w) \/ ListDue(w) \/ Progress(w) \/ Faults(w)
  BY Zenon DEF w
<1> QED BY <1>1, <1>2, <1>3, <1>4, <1>5, <1>7, <1>10, <1>11 DEF Progress, Faults

----------------------------------------------------------------------------
(* The steps of the environment.                                           *)

LEMMA NobodyMoves ==
  ASSUME work' = work PROVE Stands(work', Scheduler, work[Scheduler].pc, work[Scheduler].todo)
BY DEF Stands

\* Users edit the trees, or start a failed task.
LEMMA EditQueueStep ==
  ASSUME Workers = {Scheduler}, IInv, QInv, UNCHANGED <<queue, work, request, scene>> PROVE QInv' /\ QueueStep
<1>1. QInv'
  BY DEF QInv
<1>2. \A id \in QueueIds : Life(id)' = Life(id)
  <2>1. UNCHANGED InHands
    BY DEF InHands
  <2> QED BY <2>1, LifeIs
<1> QED BY <1>1, <1>2, StutterStep DEF SameAsked, QueueStep

LEMMA RetryAllStep ==
  ASSUME Workers = {Scheduler}, IInv, QInv, UNCHANGED <<request, scene>>, RetryFailures PROVE QInv' /\ QueueStep
<1>1. PICK q, pc, todo, asked, cap, tk :
        /\ q = queue /\ pc = work[Scheduler].pc /\ todo = work[Scheduler].todo
        /\ asked = ItemIds(request.todo) /\ cap = scene.queueCap /\ tk = task
  OBVIOUS
<1>2. Sound(q, pc, todo, asked, cap) /\ Entries(tk, q)
  BY <1>1, WorkerFacts DEF QInv
<1> DEFINE r == queue'
<1>3. /\ r = [i \in DOMAIN q |-> IF q[i].status \in {"retry_wait", "executing"}
                                 THEN [q[i] EXCEPT !.status = "queued"] ELSE q[i]]
      /\ work' = work
  BY <1>1 DEF RetryFailures
<1> HIDE DEF r
<1>4. /\ Sound(r, pc, todo, asked, cap)
      /\ \A x : LifeOf(r, HandOf(pc, todo), x) =
                  IF LifeOf(q, HandOf(pc, todo), x) = "orphaned" THEN "waiting" ELSE LifeOf(q, HandOf(pc, todo), x)
  BY <1>2, <1>3, RetryAllSound
<1>5. Stands(work', Scheduler, pc, todo)
  BY <1>1, <1>3, NobodyMoves
<1>6. QInv'
  BY <1>1, <1>4, <1>5, After DEF QInv, r
<1>7. \A x : Life(x) = LifeOf(q, HandOf(pc, todo), x) /\ Life(x)' = LifeOf(r, HandOf(pc, todo), x)
  BY <1>1, <1>5, After DEF r
<1>8. \A x \in QueueIds : Life(x)' = IF Life(x) = "orphaned" THEN "waiting" ELSE Life(x)
  BY <1>4, <1>7
<1>9. Queue!RetryAll
  BY <1>8 DEF Queue!RetryAll, ItemIds
<1> QED BY <1>6, <1>9 DEF QueueStep, Queue!Next

LEMMA AskStep ==
  ASSUME Workers = {Scheduler}, IInv, QInv, UNCHANGED scene, NEW f, RetryFailureByID(f) PROVE QInv' /\ QueueStep
<1> DEFINE idx == {i \in DOMAIN queue : RetryMatch(f, queue[i])}
           listed == Selected(queue, idx)
<1>1. /\ request.todo = <<>> /\ request' = [failure |-> f, todo |-> listed] /\ UNCHANGED <<queue, work>>
      /\ Entries(task, queue) /\ IsSeq(queue) /\ 1..scene.queueCap \subseteq QueueIds
      /\ work[Scheduler].pc \in NotInHand \cup Handling
  BY WorkerFacts DEF RetryFailureByID
<1>2. /\ Sound(queue, work[Scheduler].pc, work[Scheduler].todo, {}, scene.queueCap)
      /\ Distinct(queue) /\ ItemIds(queue) \subseteq 1..scene.queueCap
  BY <1>1, NoItems DEF QInv, Sound
<1>3. request'.todo = listed
  BY <1>1
<1>4. idx \in SUBSET DOMAIN queue
  OBVIOUS
<1>5. \A i \in idx : queue[i].status \in {"retry_wait", "executing"}
  BY DEF RetryMatch
<1> HIDE DEF idx, listed
<1>6. Distinct(listed) /\ \A k \in DOMAIN listed : \E i \in idx : listed[k] = queue[i]
  BY <1>1, <1>2, <1>4, SelectedRows DEF listed
<1>7. \A x \in ItemIds(listed) : \E s \in {"retry_wait", "executing"} : HasRow(queue, x, s)
  <2> SUFFICES ASSUME NEW k \in DOMAIN listed
               PROVE  \E s \in {"retry_wait", "executing"} : HasRow(queue, listed[k].id, s)
    BY DEF ItemIds
  <2>1. PICK i \in idx : listed[k] = queue[i]
    BY <1>6
  <2> QED BY <1>4, <1>5, <2>1 DEF HasRow
<1>8. ItemIds(listed) \subseteq ItemIds(queue)
  BY <1>7, RowIds
<1>9. Sound(queue, work[Scheduler].pc, work[Scheduler].todo, ItemIds(listed), scene.queueCap)
  BY <1>2, <1>8 DEF Sound
<1>10. QInv'
  BY <1>1, <1>3, <1>6, <1>9 DEF QInv
<1>11. UNCHANGED InHands
  BY <1>1 DEF InHands
<1>12. \A x : Life(x)' = Life(x) /\ Life(x) = LifeOf(queue, InHands, x)
  BY <1>1, <1>11, LifeIs
<1>13. \A x \in ItemIds(listed) : Life(x) \in {"waiting", "held", "orphaned"}
  <2> SUFFICES ASSUME NEW x \in ItemIds(listed) PROVE LifeOf(queue, InHands, x) \in {"waiting", "held", "orphaned"}
    BY <1>12
  <2>1. PICK s \in {"retry_wait", "executing"} : HasRow(queue, x, s)
    BY <1>7
  <2>2. LifeOf(queue, InHands, x) = "held" \/ LifeOf(queue, InHands, x) = RowLife(s)
    BY <1>2, <2>1, LifeCases
  <2>3. "retry_wait" \in Executable
    BY DEF Executable
  <2> QED BY <2>1, <2>2, <2>3, RowLives
<1>14. ItemIds(listed) \subseteq QueueIds
  BY <1>1, <1>2, <1>8
<1>15. ItemIds(request.todo) = {} /\ ItemIds(request.todo)' = ItemIds(listed)
  BY <1>1, <1>3, NoItems DEF ItemIds
<1>16. Queue!Ask
  BY <1>12, <1>13, <1>14, <1>15 DEF Queue!Ask
<1> QED BY <1>10, <1>16 DEF QueueStep, Queue!Next

LEMMA AnswerStep ==
  ASSUME Workers = {Scheduler}, IInv, QInv, UNCHANGED scene, Requeue PROVE QInv' /\ QueueStep
<1>1. PICK q, pc, todo, asked, cap, tk, items, id, attempt :
        /\ q = queue /\ pc = work[Scheduler].pc /\ todo = work[Scheduler].todo
        /\ asked = ItemIds(request.todo) /\ cap = scene.queueCap /\ tk = task
        /\ items = request.todo /\ id = Head(request.todo).id /\ attempt = Head(request.todo).attempt
  OBVIOUS
<1>2. /\ Sound(q, pc, todo, asked, cap) /\ Entries(tk, q) /\ Entries(tk, items) /\ Distinct(items)
      /\ items # <<>> /\ 1..cap \subseteq QueueIds
  BY <1>1, WorkerFacts DEF QInv, Requeue
<1>3. /\ Distinct(Tail(items)) /\ ItemIds(Tail(items)) = asked \ {id} /\ id \in asked /\ attempt \in 0..MaxAttempts
  <2> DEFINE t == Tail(items)
  <2>1. /\ Distinct(t) /\ Head(items).id \notin ItemIds(t)
        /\ ItemIds(items) = {Head(items).id} \cup ItemIds(t)
    BY <1>2, TailRows
  <2>2. Entry(tk, Head(items))
    BY <1>2, TailEntries
  <2> HIDE DEF t
  <2>3. Distinct(t) /\ ItemIds(t) = asked \ {id} /\ id \in asked /\ attempt \in 0..MaxAttempts
    BY <1>1, <2>1, <2>2 DEF Entry, ItemOK
  <2> QED BY <2>3 DEF t
<1> DEFINE r == queue'
<1>4. r = Reschedule(q, id, "queued", attempt) /\ work' = work
  BY <1>1 DEF Requeue
<1> HIDE DEF r
<1>5. Sound(r, pc, todo, asked \ {id}, cap) /\ AnsweredAs(r, q, HandOf(pc, todo), id)
  <2>1. "queued" \in ItemStatus
    BY DEF ItemStatus, Executable
  <2>2. Rewritten(r, q, id, "queued")
    BY <1>2, <1>3, <1>4, <2>1, UpdateRows
  <2> QED BY <1>2, <1>3, <2>2, AnswerSound
<1>6. Distinct(request'.todo) /\ ItemIds(request'.todo) = asked \ {id}
  <2>1. CASE Len(items) = 1
    <3>1. request'.todo = <<>>
      BY <1>1, <2>1 DEF Requeue, NoRequest
    <3>2. items \in Seq(Range(items)) /\ Len(items) \in Nat /\ DOMAIN items = 1..Len(items)
      BY <1>2, IsSeqDomain DEF Entries
    <3>3. ItemIds(items) = {items[1].id} /\ Head(items) = items[1]
      BY <2>1, <3>2 DEF ItemIds
    <3>4. asked \ {id} = {}
      BY <1>1, <3>3
    <3> QED BY <3>1, <3>4, NoItems
  <2>2. CASE Len(items) # 1
    <3>1. request' = [request EXCEPT !.todo = Tail(request.todo)]
      BY <1>1, <2>2 DEF Requeue
    <3>2. request = [failure |-> request.failure, todo |-> request.todo]
      BY DEF IInv, RequestInv
    <3> DEFINE t == Tail(request.todo)
    <3>3. t = Tail(items)
      BY <1>1
    <3> HIDE DEF t
    <3>4. request'.todo = t
      BY <3>1, <3>2 DEF t
    <3> QED BY <1>3, <3>3, <3>4
  <2> QED BY <2>1, <2>2
<1>7. Stands(work', Scheduler, pc, todo)
  BY <1>1, <1>4, NobodyMoves
<1>8. QInv'
  BY <1>1, <1>5, <1>6, <1>7, After DEF r
<1>9. \A x : Life(x) = LifeOf(q, HandOf(pc, todo), x) /\ Life(x)' = LifeOf(r, HandOf(pc, todo), x)
  BY <1>1, <1>7, After DEF r
<1>10. /\ \A x \in QueueIds : x # id => Life(x)' = Life(x)
       /\ Life(id)' = IF Life(id) = "held" THEN Life(id) ELSE "waiting"
       /\ id \in QueueIds
  BY <1>2, <1>3, <1>5, <1>9 DEF Sound, AnsweredAs
<1>11. ItemIds(request.todo) = asked /\ ItemIds(request.todo)' = asked \ {id}
  BY <1>1, <1>6 DEF ItemIds
<1>12. Queue!Answer(id)
  BY <1>3, <1>10, <1>11 DEF Queue!Answer
<1> QED BY <1>8, <1>10, <1>12 DEF QueueStep, Queue!Next

\* A kill when the queue holds q, which is the queue or, in the middle of a plan,
\* the queue and some rows of the plan.
LEMMA KillStep ==
  ASSUME Workers = {Scheduler}, IInv, QInv, UNCHANGED scene,
         Crash \/ \E w \in Workers : CrashEnqueueing(w) \/ CrashFetching(w)
  PROVE  QInv' /\ QueueStep
<1>1. PICK pc, todo, asked, cap, tk :
        /\ pc = work[Scheduler].pc /\ todo = work[Scheduler].todo
        /\ asked = ItemIds(request.todo) /\ cap = scene.queueCap /\ tk = task
  OBVIOUS
<1>2. /\ Sound(queue, pc, todo, asked, cap) /\ Entries(tk, queue) /\ Entries(tk, todo)
      /\ pc \in Handling => todo # <<>>
  BY <1>1, WorkerFacts DEF QInv
<1> DEFINE hand == HandOf(pc, todo)
<1>3. PICK q : /\ Restart(q) /\ Entries(tk, q) /\ Sound(q, pc, todo, asked, cap)
               /\ \A x : \/ LifeOf(q, hand, x) = LifeOf(queue, hand, x)
                         \/ LifeOf(queue, hand, x) = "absent" /\ LifeOf(q, hand, x) = "waiting"
  <2>1. CASE Crash \/ CrashFetching(Scheduler)
    BY <1>2, <2>1 DEF Crash, CrashFetching
  <2>2. CASE CrashEnqueueing(Scheduler)
    <3>1. PICK first : PlannedSeq(task, first) /\ Restart(Enqueue(first)) /\ At(Scheduler, "snap")
      BY <2>2, CrashPlan
    <3> DEFINE q == Enqueue(first)
    <3>2. Entries(tk, q)
      BY <1>1, <3>1, EnqueueEntries
    <3>3. PICK New \in SUBSET ((1..cap) \ ItemIds(queue)) :
            /\ Distinct(q) /\ ItemIds(q) = ItemIds(queue) \cup New
            /\ \A x, t : HasRow(q, x, t) <=> HasRow(queue, x, t) \/ (x \in New /\ t = "queued")
      BY <1>1, <1>2, <3>1, EnqueueRows DEF Sound
    <3>4. pc \in NotInHand /\ Restart(q)
      BY <1>1, <3>1 DEF At, NotInHand
    <3> HIDE DEF q
    <3>5. /\ Sound(q, pc, todo, asked, cap)
          /\ \A x : x \notin New => LifeOf(q, {}, x) = LifeOf(queue, {}, x)
          /\ \A x \in New : LifeOf(queue, {}, x) = "absent" /\ LifeOf(q, {}, x) = "waiting"
      BY <1>2, <3>3, <3>4, EnqueueSound
    <3>6. hand = {}
      BY <3>4, EmptyHand
    <3> QED BY <3>2, <3>4, <3>5, <3>6
  <2> QED BY <2>1, <2>2
<1> DEFINE r == queue'
<1>4. Purged(r, q, {})
  <2>1. r = Selected(q, {i \in DOMAIN q : Unfinished(q[i])}) /\ IsSeq(q) /\ Distinct(q)
    BY <1>3 DEF Restart, Entries, Sound
  <2> QED BY <2>1, UnfinishedRows
<1> HIDE DEF r, hand
<1>5. /\ Sound(r, "idle", <<>>, {}, cap)
      /\ \A x : \/ LifeOf(q, hand, x) = "held" /\ LifeOf(r, {}, x) \in {"orphaned", "waiting"}
                \/ LifeOf(q, hand, x) = "finished" /\ LifeOf(r, {}, x) = "absent"
                \/ /\ LifeOf(q, hand, x) \in {"absent", "waiting", "orphaned"}
                   /\ LifeOf(r, {}, x) = LifeOf(q, hand, x)
  BY <1>2, <1>3, <1>4, KillSound DEF hand
<1>6. PICK none : none = <<>> /\ Stands(work', Scheduler, "idle", none) /\ request'.todo = none
  BY <1>3, SyncAssumption DEF Restart, Stands, Idle, Working, NoRequest
<1>7. HandOf("idle", none) = {}
  BY EmptyHand DEF NotInHand
<1>8. \A x : Life(x) = LifeOf(queue, hand, x) /\ Life(x)' = LifeOf(r, {}, x)
  BY <1>1, <1>6, <1>7, After, SMTT(30) DEF r, hand
<1>9. QInv'
  BY <1>1, <1>5, <1>6, After, NoItems DEF r
<1>10. \A x \in QueueIds : Life(x)' \in Queue!Lives
  BY <1>8, AnyLife DEF Queue!Lives
<1>11. \A x \in QueueIds : \/ Life(x) = "held" /\ Life(x)' \in {"orphaned", "waiting"}
                           \/ Life(x) = "finished" /\ Life(x)' = "absent"
                           \/ Life(x) = "absent" /\ Life(x)' \in {"absent", "waiting"}
                           \/ Life(x) \in {"waiting", "orphaned"} /\ Life(x)' = Life(x)
  BY <1>3, <1>5, <1>8
<1>12. \A x \in QueueIds : Life(x)' \in Queue!Killed(x)
  BY <1>11 DEF Queue!Killed
<1>13. ItemIds(request.todo)' = {}
  BY <1>6, NoItems DEF ItemIds
<1>14. Queue!Kill
  BY <1>10, <1>12, <1>13 DEF Queue!Kill
<1> QED BY <1>9, <1>14 DEF QueueStep, Queue!Next

----------------------------------------------------------------------------
(* The theorem.                                                            *)

LEMMA InitQueue == ASSUME Workers = {Scheduler}, Init PROVE QInv /\ Queue!Init
<1>1. PICK none : none = <<>> /\ queue = none /\ work[Scheduler] = Idle /\ request.todo = none
  BY DEF Init, NoRequest
<1>2. Idle.pc = "idle" /\ Idle.todo = none
  BY <1>1 DEF Idle, Working
<1>3. Distinct(none) /\ ItemIds(none) = {} /\ DOMAIN none = {} /\ \A x, t : ~HasRow(none, x, t)
  BY <1>1, NoItems DEF HasRow
<1>4. Sound(none, "idle", none, {}, scene.queueCap)
  BY <1>1, <1>3 DEF Sound
<1>5. QInv
  BY <1>1, <1>2, <1>3, <1>4 DEF QInv
<1>6. InHands = {}
  BY <1>1, <1>2, EmptyHand DEF InHands, NotInHand
<1>7. \A id : Life(id) = "absent"
  BY <1>1, <1>3, <1>6, LifeIs, LifeCases
<1>8. Queue!Init
  BY <1>1, <1>3, <1>7 DEF Queue!Init
<1> QED BY <1>5, <1>8

LEMMA NextQueue == ASSUME Workers = {Scheduler}, IInv, QInv, [Next]_vars PROVE QInv' /\ QueueStep
<1>1. CASE UNCHANGED <<queue, work, request, scene>>
  BY <1>1, EditQueueStep
<1>2. CASE Next
  <2>0. UNCHANGED scene
    BY <1>2 DEF Next, Recorded
  <2>1. ASSUME NEW w \in Workers, BeginRun(w) \/ ListDue(w) \/ Progress(w) \/ Faults(w), UNCHANGED request
        PROVE  QInv' /\ QueueStep
    <3>1. BeginRun(Scheduler) \/ ListDue(Scheduler) \/ Progress(Scheduler) \/ Faults(Scheduler)
      BY <2>1, Zenon
    <3> QED BY <2>0, <2>1, <3>1, OwnStep
  <2>2. ASSUME UserEdit \/ Start, UNCHANGED request PROVE QInv' /\ QueueStep
    <3>1. UNCHANGED <<queue, work>>
      BY <2>2 DEF UserEdit, LocalWrite, RemoteWrite, LocalRemove, RemoteRemove, LocalRename, Edit, Start
    <3> QED BY <1>1, <2>0, <2>2, <3>1
  <2>3. ASSUME RetryFailures, UNCHANGED request PROVE QInv' /\ QueueStep
    BY <2>0, <2>3, RetryAllStep
  <2>4. ASSUME NEW f, RetryFailureByID(f) PROVE QInv' /\ QueueStep
    BY <2>0, <2>4, AskStep
  <2>5. ASSUME Requeue PROVE QInv' /\ QueueStep
    BY <2>0, <2>5, AnswerStep
  <2>6. ASSUME Crash \/ \E w \in Workers : CrashEnqueueing(w) \/ CrashFetching(w) PROVE QInv' /\ QueueStep
    BY <2>0, <2>6, KillStep
  <2> QED BY <1>2, <2>1, <2>2, <2>3, <2>4, <2>5, <2>6 DEF Next, Step
<1>3. CASE UNCHANGED vars
  BY <1>1, <1>3 DEF vars
<1> QED BY <1>2, <1>3

\* With a single worker the operation queue implements OperationQueue, whatever
\* plans, faults, kills and retry requests do to it: an item is executed by one
\* worker at a time, and neither a finished item nor one a kill left executing
\* is executed again unless a user asked for it (executePlannedActions,
\* ExecuteQueueOperation, RetryFailures, RetryFailureByID).
THEOREM QueueRefined == Workers = {Scheduler} => (Spec => QueueLife)
<1> SUFFICES ASSUME Workers = {Scheduler} PROVE Spec => QueueLife
  OBVIOUS
<1>1. Init => QInv /\ Queue!Init
  BY InitQueue
<1>2. IInv /\ QInv /\ [Next]_vars => QInv' /\ [Queue!Next]_(Queue!queueVars)
  BY NextQueue DEF QueueStep
<1> QED BY <1>1, <1>2, IInvHolds, PTL DEF Spec, QueueLife, Queue!Spec
=============================================================================
