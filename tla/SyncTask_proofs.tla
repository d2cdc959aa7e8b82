--------------------------- MODULE SyncTask_proofs ---------------------------
(***************************************************************************)
(* Type correctness of SyncTask, the consistency of the file index, and    *)
(* what follows from them, for any scenarios: one-way tasks, failed runs,  *)
(* what runs enqueue, and what disappears from either side.                *)
(***************************************************************************)
EXTENDS SyncTask, Planner_proofs

----------------------------------------------------------------------------
(* The file operations keep a tree a tree.                                 *)

LEMMA SmallerTree == ASSUME NEW t, Tree(t), NEW u, DOMAIN u \subseteq DOMAIN t PROVE Tree(u)
BY FS_Subset DEF Tree

LEMMA OverTree == ASSUME NEW u, NEW t, Tree(u), Tree(t) PROVE Tree(Over(u, t))
<1>1. DOMAIN Over(u, t) = DOMAIN u \cup DOMAIN t
  BY DEF Over
<1> QED BY <1>1, FS_Union DEF Tree

LEMMA WithTree == ASSUME NEW t, Tree(t), NEW p, IsSeq(p), NEW node PROVE Tree(With(t, p, node))
<1> DEFINE u == [q \in {p} |-> node]
<1>1. Tree(u)
  BY FS_Singleton DEF Tree
<1> HIDE DEF u
<1>2. Tree(Over(u, t))
  BY <1>1, OverTree
<1> QED BY <1>2, Zenon DEF With, u

LEMMA WithoutTree == ASSUME NEW t, Tree(t), NEW p PROVE Tree(Without(t, p))
<1>1. DOMAIN Without(t, p) \subseteq DOMAIN t
  BY DEF Without
<1> QED BY <1>1, SmallerTree

\* A finite set of paths.
Paths(ps) == IsFiniteSet(ps) /\ \A p \in ps : IsSeq(p)

LEMMA WithDirsTree == ASSUME NEW t, Tree(t), NEW ps, Paths(ps) PROVE Tree(WithDirs(t, ps))
<1> DEFINE u == [q \in ps |-> Dir]
<1>1. Tree(u)
  BY DEF Tree, Paths
<1> HIDE DEF u
<1>2. Tree(Over(t, u))
  BY <1>1, OverTree
<1> QED BY <1>2, Zenon DEF WithDirs, u

\* A part of a sequence.
LEMMA SubSeqIsSeq ==
  ASSUME NEW p, IsSeq(p), NEW m \in Nat \ {0}, NEW n \in Nat, n <= Len(p) PROVE IsSeq(SubSeq(p, m, n))
<1>1. p \in Seq(Range(p)) /\ Len(p) \in Nat
  BY IsSeqDomain
<1>2. \A i \in m..n : p[i] \in Range(p)
  BY <1>1, ElementOfSeq
<1>3. SubSeq(p, m, n) \in Seq(Range(p))
  BY <1>2, SubSeqProperties
<1> QED BY <1>3, SeqIsSeq

LEMMA AncestorsPaths == ASSUME NEW p, IsSeq(p) PROVE Paths(Ancestors(p))
<1>1. Len(p) \in Nat
  BY IsSeqDomain
<1> DEFINE I == 1..(Len(p) - 1)
           f == [i \in I |-> SubSeq(p, 1, i)]
<1>2. IsFiniteSet(I)
  BY <1>1, FS_Interval
<1>3. f \in Surjection(I, Ancestors(p))
  BY DEF Surjection, Ancestors
<1>4. IsFiniteSet(Ancestors(p))
  BY <1>2, <1>3, FS_Surjection
<1>5. \A i \in I : IsSeq(SubSeq(p, 1, i))
  BY <1>1, SubSeqIsSeq
<1> QED BY <1>4, <1>5 DEF Paths, Ancestors

LEMMA SelfAndAncestors == ASSUME NEW p, IsSeq(p) PROVE Paths(Ancestors(p) \cup {p})
BY AncestorsPaths, FS_AddElement DEF Paths

LEMMA SomePaths == ASSUME NEW ps, Paths(ps), NEW qs \in SUBSET ps PROVE Paths(qs)
BY FS_Subset DEF Paths

LEMMA MovedTree == ASSUME NEW t, Tree(t), NEW s, IsSeq(s), NEW d, IsSeq(d) PROVE Tree(Moved(t, s, d))
<1> DEFINE B == {y \in DOMAIN t : Under(s, y)}
           N(x) == d \o SubSeq(x, Len(s) + 1, Len(x))
           f == [x \in B |-> N(x)]
           D == {N(x) : x \in B}
<1>1. IsFiniteSet(B)
  BY FS_Subset DEF Tree
<1>2. \A x \in B : IsSeq(N(x))
  <2> TAKE x \in B
  <2>1. IsSeq(x) /\ Len(x) \in Nat /\ Len(s) \in Nat
    BY IsSeqDomain DEF Tree
  <2>2. IsSeq(SubSeq(x, Len(s) + 1, Len(x)))
    BY <2>1, SubSeqIsSeq
  <2> QED BY <2>2, ConcatIsSeq
<1>3. DOMAIN Moved(t, s, d) = D
  BY DEF Moved
<1> HIDE DEF N
<1>4. f \in Surjection(B, D)
  BY DEF Surjection
<1>5. IsFiniteSet(D)
  BY <1>1, <1>4, FS_Surjection
<1> QED BY <1>2, <1>3, <1>5 DEF Tree

\* The calls on the local side.
LEMMA LocalCalls ==
  ASSUME NEW t, Tree(t), NEW p, IsSeq(p), NEW s, IsSeq(s), NEW c
  PROVE  /\ Tree(osMkdirAll(t, p)) /\ Tree(osCreate(t, p, c)) /\ Tree(osRemoveAll(t, p))
         /\ Tree(osRename(t, s, p)) /\ Tree(osRenameFailed(t, p))
<1>1. Paths(Ancestors(p)) /\ Paths(Ancestors(p) \cup {p})
  BY AncestorsPaths, SelfAndAncestors
<1>2. Tree(WithDirs(t, Ancestors(p))) /\ Tree(WithDirs(t, Ancestors(p) \cup {p}))
  BY <1>1, WithDirsTree
<1>3. Tree(With(WithDirs(t, Ancestors(p)), p, c))
  BY <1>2, WithTree
<1>4. Tree(Over(Moved(t, s, p), Without(WithDirs(t, Ancestors(p)), s)))
  BY <1>2, MovedTree, WithoutTree, OverTree
<1> QED
  BY <1>2, <1>3, <1>4, WithoutTree DEF osMkdirAll, osCreate, osRemoveAll, osRename, osRenameFailed

\* The requests the server carries out.
LEMMA RemoteCalls ==
  ASSUME NEW t, Tree(t), NEW p, IsSeq(p), NEW s, IsSeq(s), NEW c
  PROVE  /\ Tree(davMkcol(t, p)) /\ Tree(davPut(t, p, c)) /\ Tree(davDelete(t, p))
         /\ Tree(davMove(t, s, p))
<1> DEFINE qs == {q \in Ancestors(p) : \A r \in Ancestors(q) \cup {q} : ~IsFile(t, r)}
<1>1. Paths(qs) /\ Paths(Ancestors(p) \cup {p})
  BY AncestorsPaths, SelfAndAncestors, SomePaths
<1>2. Tree(WithDirs(t, qs)) /\ Tree(WithDirs(t, Ancestors(p) \cup {p}))
  BY <1>1, WithDirsTree
<1>3. Tree(Over(Moved(t, s, p), Without(Without(t, s), p)))
  BY MovedTree, WithoutTree, OverTree
<1>4. Tree(davMkcol(t, p))
  BY <1>2 DEF davMkcol
<1> QED
  BY <1>3, <1>4, WithTree, WithoutTree DEF davPut, davDelete, davMove

\* What a listing names is a tree too.
LEMMA ListedTree == ASSUME NEW t, Tree(t), NEW slashed PROVE Tree(Listed(t, slashed))
<1> DEFINE N(p) == IF slashed /\ IsDir(t, p) THEN Append(p, <<>>) ELSE p
           D == {N(p) : p \in DOMAIN t}
           f == [p \in DOMAIN t |-> N(p)]
<1>1. \A p \in DOMAIN t : IsSeq(N(p))
  <2> TAKE p \in DOMAIN t
  <2>1. p \in Seq(Range(p)) /\ IsSeq(p)
    BY IsSeqDomain DEF Tree
  <2> DEFINE S == Range(p) \cup {<<>>}
  <2>2. p \in Seq(S) /\ <<>> \in S
    BY <2>1, SeqMonotonic
  <2> HIDE DEF S
  <2>3. Append(p, <<>>) \in Seq(S)
    BY <2>2, AppendProperties
  <2>4. IsSeq(Append(p, <<>>))
    BY <2>3, SeqIsSeq
  <2> QED BY <2>1, <2>4
<1>2. DOMAIN Listed(t, slashed) = D
  BY DEF Listed
<1> HIDE DEF N
<1>3. f \in Surjection(DOMAIN t, D)
  BY DEF Surjection
<1>4. IsFiniteSet(D)
  BY <1>3, FS_Surjection DEF Tree
<1> QED BY <1>1, <1>2, <1>4 DEF Tree

----------------------------------------------------------------------------
(* Selections from the queue.                                              *)

\* Append, as an operator the SMT encoding of sequences does not see.
Put(s, e) == Append(s, e)

\* The recursive function inside Selected is the one its definition describes.
LEMMA SelectedDef ==
  ASSUME NEW q, Len(q) \in Nat, NEW idx
  PROVE  \E f : /\ f = [n \in 0..Len(q) |-> IF n = 0 THEN <<>>
                         ELSE IF n \in idx THEN Put(f[n - 1], q[n]) ELSE f[n - 1]]
                /\ Selected(q, idx) = f[Len(q)]
<1> DEFINE Rec(f, k) == f = [n \in 0..k |-> IF n = 0 THEN <<>>
                         ELSE IF n \in idx THEN Put(f[n - 1], q[n]) ELSE f[n - 1]]
           T == {k \in Nat : \E f : Rec(f, k)}
<1>1. 0 \in T
  <2> DEFINE f == [n \in 0..0 |-> <<>>]
  <2>1. Rec(f, 0)
    OBVIOUS
  <2> QED BY <2>1
<1>2. ASSUME NEW k \in Nat, k \in T PROVE k + 1 \in T
  <2>1. PICK f : Rec(f, k)
    BY <1>2
  <2> DEFINE g == [n \in 0..(k + 1) |-> IF n <= k THEN f[n]
                     ELSE IF n \in idx THEN Put(f[n - 1], q[n]) ELSE f[n - 1]]
  <2>2. Rec(g, k + 1)
    <3> SUFFICES ASSUME NEW n \in 0..(k + 1)
                 PROVE  g[n] = IF n = 0 THEN <<>>
                               ELSE IF n \in idx THEN Put(g[n - 1], q[n]) ELSE g[n - 1]
      OBVIOUS
    <3>1. CASE n = 0
      BY <2>1, <3>1
    <3>2. CASE n # 0 /\ n <= k
      <4>1. n - 1 \in 0..(k + 1) /\ n - 1 <= k /\ n \in 0..k
        BY <3>2
      <4>2. g[n - 1] = f[n - 1] /\ g[n] = f[n]
        BY <3>2, <4>1
      <4>3. f[n] = IF n \in idx THEN Put(f[n - 1], q[n]) ELSE f[n - 1]
        BY <2>1, <3>2, <4>1
      <4> QED BY <3>2, <4>2, <4>3
    <3>3. CASE n = k + 1
      <4>1. n - 1 \in 0..(k + 1) /\ n - 1 <= k /\ ~(n <= k) /\ n # 0
        BY <3>3
      <4>2. g[n - 1] = f[n - 1]
        BY <4>1
      <4> QED BY <4>1, <4>2
    <3> QED BY <3>1, <3>2, <3>3
  <2> HIDE DEF g
  <2> QED BY <2>2
<1> HIDE DEF T
<1>3. Nat \subseteq T
  BY <1>1, <1>2, NatSetInduction
<1>4. \E f : Rec(f, Len(q))
  BY <1>3 DEF T
<1> DEFINE F == CHOOSE f : Rec(f, Len(q))
<1>5. Rec(F, Len(q))
  BY <1>4, Zenon
<1>6. Selected(q, idx) = F[Len(q)]
  BY Zenon DEF Selected, Put
<1> HIDE DEF F
<1> QED
  BY <1>5, <1>6

\* The positions in q of the rows of sel: each row of q at a position in idx is
\* selected exactly once, and nothing else is.
Places(pos, sel, q, idx) ==
  /\ pos \in [DOMAIN sel -> idx]
  /\ \A k \in DOMAIN sel : sel[k] = q[pos[k]]
  /\ \A k, l \in DOMAIN sel : pos[k] = pos[l] => k = l
  /\ \A i \in idx : \E k \in DOMAIN sel : pos[k] = i

LEMMA SelectedPlaces ==
  ASSUME NEW q, IsSeq(q), NEW idx \in SUBSET DOMAIN q
  PROVE  IsSeq(Selected(q, idx)) /\ \E pos : Places(pos, Selected(q, idx), q, idx)
<1>1. Len(q) \in Nat /\ DOMAIN q = 1..Len(q)
  BY IsSeqDomain
<1>2. PICK f : /\ f = [n \in 0..Len(q) |-> IF n = 0 THEN <<>>
                         ELSE IF n \in idx THEN Put(f[n - 1], q[n]) ELSE f[n - 1]]
               /\ Selected(q, idx) = f[Len(q)]
  BY <1>1, SelectedDef
<1>0. \A i \in idx : i \in Nat /\ 1 <= i /\ i <= Len(q)
  BY <1>1
<1>f. /\ f[0] = <<>>
      /\ \A n \in 1..Len(q) : n \in idx => f[n] = Put(f[n - 1], q[n])
      /\ \A n \in 1..Len(q) : n \notin idx => f[n] = f[n - 1]
  <2>1. 0 \in 0..Len(q) /\ \A n \in 1..Len(q) : n \in 0..Len(q) /\ n # 0
    BY <1>1
  <2>2. \A n \in 0..Len(q) : f[n] = IF n = 0 THEN <<>>
                                   ELSE IF n \in idx THEN Put(f[n - 1], q[n]) ELSE f[n - 1]
    BY <1>2, Zenon
  <2> QED BY <2>1, <2>2, Zenon
<1> DEFINE Upto(n) == {i \in idx : i <= n}
           P(n) == IsSeq(f[n]) /\ \E pos : Places(pos, f[n], q, Upto(n))
           T == {n \in Nat : n \in 0..Len(q) => P(n)}
<1>3. 0 \in T
  <2>1. f[0] = <<>> /\ Upto(0) = {}
    BY <1>0, <1>f
  <2> DEFINE none == [i \in {} |-> 0]
  <2>2. Places(none, <<>>, q, {})
    BY EmptyIsSeq DEF Places
  <2> QED BY <2>1, <2>2, EmptyIsSeq
<1>4. ASSUME NEW n \in Nat, n \in T PROVE n + 1 \in T
  <2> HIDE DEF P
  <2> SUFFICES ASSUME n + 1 \in 0..Len(q) PROVE P(n + 1)
    OBVIOUS
  <2> USE DEF P
  <2>1. n \in 0..Len(q) /\ n + 1 \in DOMAIN q
    BY <1>1
  <2>2. IsSeq(f[n]) /\ \E pos : Places(pos, f[n], q, Upto(n))
    BY <1>4, <2>1
  <2>3. PICK pos : Places(pos, f[n], q, Upto(n))
    BY <2>2
  <2>4. CASE n + 1 \notin idx
    <3>1. f[n + 1] = f[(n + 1) - 1] /\ (n + 1) - 1 = n
      BY <1>1, <1>f, <2>1, <2>4
    <3>2. Upto(n + 1) = Upto(n)
      BY <1>0, <2>4
    <3> QED BY <2>2, <3>1, <3>2
  <2>5. CASE n + 1 \in idx
    <3>0. f[n + 1] = Put(f[(n + 1) - 1], q[n + 1]) /\ (n + 1) - 1 = n
      BY <1>1, <1>f, <2>1, <2>5
    <3>1. f[n + 1] = Append(f[n], q[n + 1])
      BY <3>0, Zenon DEF Put
    <3>2. Upto(n + 1) = Upto(n) \cup {n + 1} /\ n + 1 \notin Upto(n)
      BY <1>0, <2>5
    <3> DEFINE s == f[n]
               m == Len(s) + 1
               t == Append(s, q[n + 1])
               new == [k \in DOMAIN s \cup {m} |-> IF k = m THEN n + 1 ELSE pos[k]]
    <3>3. Len(s) \in Nat /\ DOMAIN s = 1..Len(s) /\ s \in Seq(Range(s))
      BY <2>2, IsSeqDomain
    <3>4. /\ IsSeq(t) /\ DOMAIN t = DOMAIN s \cup {m} /\ m \notin DOMAIN s
          /\ \A k \in DOMAIN s : t[k] = s[k]
          /\ t[m] = q[n + 1]
      <4> DEFINE S == Range(s) \cup {q[n + 1]}
      <4>1. s \in Seq(S)
        BY <3>3, SeqMonotonic
      <4> HIDE DEF s
      <4>2. /\ t \in Seq(S) /\ Len(t) = Len(s) + 1
            /\ \A i \in 1..Len(s) : t[i] = s[i]
            /\ t[Len(s) + 1] = q[n + 1]
        BY <4>1, AppendProperties
      <4>3. IsSeq(t) /\ DOMAIN t = 1..(Len(s) + 1)
        BY <4>2, SeqIsSeq, IsSeqDomain
      <4> QED BY <3>3, <4>2, <4>3
    <3> HIDE DEF s, m, t
    <3>5. Places(new, t, q, Upto(n + 1))
      <4>1. Places(pos, s, q, Upto(n))
        BY <2>3 DEF s
      <4>2. new \in [DOMAIN t -> Upto(n + 1)]
        BY <3>2, <3>4, <4>1 DEF Places
      <4>3. \A k \in DOMAIN t : t[k] = q[new[k]]
        BY <3>2, <3>4, <4>1 DEF Places
      <4>4. \A k, l \in DOMAIN t : new[k] = new[l] => k = l
        BY <3>2, <3>4, <4>1 DEF Places
      <4>5. \A i \in Upto(n + 1) : \E k \in DOMAIN t : new[k] = i
        BY <3>2, <3>4, <4>1 DEF Places
      <4> QED BY <4>2, <4>3, <4>4, <4>5 DEF Places
    <3>6. f[n + 1] = t
      BY <3>1 DEF s, t
    <3> QED BY <3>4, <3>5, <3>6
  <2> QED BY <2>4, <2>5
<1> HIDE DEF T
<1>5. Nat \subseteq T
  BY <1>3, <1>4, NatSetInduction
<1> HIDE DEF P
<1>6. P(Len(q))
  BY <1>1, <1>5 DEF T
<1> USE DEF P
<1>7. Upto(Len(q)) = idx
  BY <1>0
<1> QED BY <1>2, <1>6, <1>7

----------------------------------------------------------------------------
(* The invariant.                                                          *)

\* A row of operation_queue of the task tk, and a sequence of such rows.
Entry(tk, it) ==
  /\ it = [id |-> it.id, act |-> it.act, status |-> it.status, attempt |-> it.attempt]
  /\ ItemOK(it)
  /\ PlannedAct(tk, it.act)
Entries(tk, q) == IsSeq(q) /\ \A i \in DOMAIN q : Entry(tk, q[i])

WorkerOK(tk, k) ==
  /\ k = [pc |-> k.pc, mode |-> k.mode, st |-> k.st, snap |-> k.snap, todo |-> k.todo,
          prev |-> k.prev, src |-> k.src]
  /\ k.pc \in {"idle", "snap", "list", "next"} \cup Handling
  /\ k.mode \in {"run", "ops"}
  /\ k.pc \in Handling => k.todo # <<>>
  /\ k.pc = "snap" => Tree(k.snap)
  /\ Entries(tk, k.todo)
  /\ Lookup(k.prev) /\ Lookup(k.src)

TreesInv   == Tree(local) /\ Tree(remote)
IndexInv   == \A p \in DOMAIN index : Stored(index[p])
QueueInv   == Entries(task, queue)
WorkInv    == work = [w \in Workers |-> work[w]] /\ \A w \in Workers : WorkerOK(task, work[w])
RequestInv == request = [failure |-> request.failure, todo |-> request.todo] /\ Entries(task, request.todo)

\* TypeOK and IndexConsistent, and what makes them inductive: trees are finite,
\* the items come from plans, the snapshot a worker plans from is a tree, and the
\* rows it read from the index were stored there.
IInv ==
  /\ scene \in Scenarios
  /\ TreesInv /\ IndexInv /\ QueueInv /\ WorkInv /\ RequestInv
  /\ status \in Statuses

LEMMA IInvImplies == IInv => TypeOK /\ IndexConsistent
<1> SUFFICES ASSUME IInv PROVE TypeOK /\ IndexConsistent
  OBVIOUS
<1>1. IndexConsistent /\ \A p \in DOMAIN index : index[p] \in Row
  BY DEF IInv, IndexInv, Stored, IndexConsistent
<1>2. \A i \in DOMAIN queue : ItemOK(queue[i])
  BY DEF IInv, QueueInv, Entries, Entry
<1>3. \A i \in DOMAIN request.todo : ItemOK(request.todo[i])
  BY DEF IInv, RequestInv, Entries, Entry
<1>4. ASSUME NEW w \in Workers
      PROVE  /\ work[w].pc \in {"idle", "snap", "list", "next"} \cup Handling
             /\ work[w].mode \in {"run", "ops"}
             /\ work[w].pc \in Handling => work[w].todo # <<>>
             /\ \A i \in DOMAIN work[w].todo : ItemOK(work[w].todo[i])
             /\ {work[w].prev, work[w].src} \subseteq Row
  <2>1. WorkerOK(task, work[w])
    BY DEF IInv, WorkInv
  <2>2. work[w].prev \in Row /\ work[w].src \in Row
    BY <2>1, LookupRow DEF WorkerOK
  <2> QED BY <2>1, <2>2 DEF WorkerOK, Entries, Entry
<1> QED BY <1>1, <1>2, <1>3, <1>4 DEF TypeOK, IInv

----------------------------------------------------------------------------
(* What the operations on the queue preserve.                              *)

LEMMA EmptyEntries == ASSUME NEW tk PROVE Entries(tk, <<>>)
BY EmptyIsSeq DEF Entries

LEMMA SelectedEntries ==
  ASSUME NEW tk, NEW q, Entries(tk, q), NEW idx \in SUBSET DOMAIN q
  PROVE  Entries(tk, Selected(q, idx))
<1>1. IsSeq(Selected(q, idx)) /\ \E pos : Places(pos, Selected(q, idx), q, idx)
  BY SelectedPlaces DEF Entries
<1> QED BY <1>1 DEF Entries, Places

LEMMA TailEntries ==
  ASSUME NEW tk, NEW q, Entries(tk, q), q # <<>>
  PROVE  /\ Entry(tk, Head(q)) /\ Entries(tk, Tail(q))
         /\ 1 \in DOMAIN q /\ Head(q) = q[1]
         /\ \A i \in DOMAIN Tail(q) : i + 1 \in DOMAIN q /\ Tail(q)[i] = q[i + 1]
<1>1. q \in Seq(Range(q)) /\ Len(q) \in Nat /\ DOMAIN q = 1..Len(q) /\ Len(q) # 0
  BY IsSeqDomain, EmptySeq DEF Entries
<1>2. /\ Tail(q) \in Seq(Range(q)) /\ Len(Tail(q)) = Len(q) - 1
      /\ \A i \in 1..Len(Tail(q)) : Tail(q)[i] = q[i + 1]
  BY <1>1, HeadTailProperties
<1>3. IsSeq(Tail(q)) /\ DOMAIN Tail(q) = 1..(Len(q) - 1)
  BY <1>2, SeqIsSeq, IsSeqDomain
<1>4. 1 \in DOMAIN q /\ Head(q) = q[1]
  BY <1>1
<1> DEFINE t == Tail(q)
<1>5. IsSeq(t) /\ \A i \in DOMAIN t : i + 1 \in DOMAIN q /\ t[i] = q[i + 1]
  BY <1>1, <1>2, <1>3
<1> HIDE DEF t
<1>6. Entries(tk, t)
  BY <1>5 DEF Entries
<1> QED BY <1>4, <1>5, <1>6 DEF Entries, t

\* A function on the rows of q that keeps them rows.
LEMMA MappedEntries ==
  ASSUME NEW tk, NEW q, Entries(tk, q), NEW r, DOMAIN r = DOMAIN q, r = [i \in DOMAIN r |-> r[i]],
         \A i \in DOMAIN q : Entry(tk, r[i])
  PROVE  Entries(tk, r)
<1>1. Len(q) \in Nat /\ DOMAIN q = 1..Len(q)
  BY IsSeqDomain DEF Entries
<1> QED BY <1>1, FunctionIsSeq DEF Entries

LEMMA RowUpdate ==
  ASSUME NEW tk, NEW it, Entry(tk, it), NEW s \in ItemStatus, NEW attempt \in 0..MaxAttempts
  PROVE  /\ Entry(tk, [it EXCEPT !.status = s])
         /\ Entry(tk, [it EXCEPT !.status = s, !.attempt = attempt])
         /\ [it EXCEPT !.status = s].id = it.id
         /\ [it EXCEPT !.status = s].status = s
         /\ [it EXCEPT !.status = s, !.attempt = attempt].id = it.id
         /\ [it EXCEPT !.status = s, !.attempt = attempt].status = s
<1> DEFINE a == [it EXCEPT !.status = s]
           b == [it EXCEPT !.status = s, !.attempt = attempt]
<1>1. a = [id |-> it.id, act |-> it.act, status |-> s, attempt |-> it.attempt]
  BY DEF Entry
<1>2. b = [id |-> it.id, act |-> it.act, status |-> s, attempt |-> attempt]
  <2>1. it \in [id : {it.id}, act : {it.act}, status : ItemStatus, attempt : 0..MaxAttempts]
    BY DEF Entry, ItemOK
  <2>2. b \in [id : {it.id}, act : {it.act}, status : {s}, attempt : {attempt}]
    BY <2>1
  <2> HIDE DEF b
  <2> QED BY <2>2
<1> HIDE DEF a, b
<1>3. Entry(tk, a) /\ a.id = it.id /\ a.status = s
  BY <1>1 DEF Entry, ItemOK
<1>4. Entry(tk, b) /\ b.id = it.id /\ b.status = s
  BY <1>2 DEF Entry, ItemOK
<1> QED BY <1>3, <1>4 DEF a, b

LEMMA UpdateEntries ==
  ASSUME NEW tk, NEW q, Entries(tk, q), NEW id, NEW s \in ItemStatus, NEW attempt \in 0..MaxAttempts
  PROVE  Entries(tk, Reschedule(q, id, s, attempt)) /\ Entries(tk, SetStatus(q, id, s))
<1> DEFINE r == Reschedule(q, id, s, attempt)
           u == SetStatus(q, id, s)
<1>1. /\ DOMAIN r = DOMAIN q /\ r = [i \in DOMAIN r |-> r[i]]
      /\ DOMAIN u = DOMAIN q /\ u = [i \in DOMAIN u |-> u[i]]
  BY DEF Reschedule, SetStatus
<1>2. ASSUME NEW i \in DOMAIN q PROVE Entry(tk, r[i]) /\ Entry(tk, u[i])
  <2>1. Entry(tk, q[i])
    BY DEF Entries
  <2>2. r[i] \in {q[i], [q[i] EXCEPT !.status = s, !.attempt = attempt]}
    BY DEF Reschedule
  <2>3. u[i] \in {q[i], [q[i] EXCEPT !.status = s]}
    BY DEF SetStatus
  <2> DEFINE a == [q[i] EXCEPT !.status = s, !.attempt = attempt]
             b == [q[i] EXCEPT !.status = s]
  <2>4. Entry(tk, a) /\ Entry(tk, b)
    BY <2>1, RowUpdate
  <2> HIDE DEF a, b, r, u
  <2>5. r[i] \in {q[i], a} /\ u[i] \in {q[i], b}
    BY <2>2, <2>3 DEF a, b
  <2> QED BY <2>1, <2>4, <2>5
<1> HIDE DEF r, u
<1>3. Entries(tk, r) /\ Entries(tk, u)
  BY <1>1, <1>2, MappedEntries
<1> QED BY <1>3 DEF r, u

\* The smaller of two numbers.
LEMMA MinOfTwo ==
  ASSUME NEW a \in Nat, NEW b \in Nat PROVE Min({a, b}) = IF a <= b THEN a ELSE b
<1> DEFINE m == IF a <= b THEN a ELSE b
<1>1. m \in {a, b} /\ \A y \in {a, b} : m <= y
  OBVIOUS
<1>2. \A x \in {a, b} : (\A y \in {a, b} : x <= y) => x = m
  OBVIOUS
<1> HIDE DEF m
<1>3. Min({a, b}) = m
  BY <1>1, <1>2 DEF Min
<1> QED BY <1>3 DEF m

\* Enqueue appends at most as many rows as there is room for, all of the plan if
\* the bound is not reached, and all of them are rows of the task.
LEMMA EnqueueEntries ==
  ASSUME IInv, NEW plan, PlannedSeq(task, plan)
  PROVE  \E room \in Nat :
           /\ room <= Len(plan) /\ (Len(queue) + room <= scene.queueCap \/ room = 0)
           /\ room = Len(plan) \/ scene.queueCap <= Len(queue) + room
           /\ Enqueue(plan) = queue \o [i \in 1..room |-> Item(FreshId(i), plan[i])]
           /\ Entries(task, Enqueue(plan))
<1>1. scene.queueCap \in Nat
  BY SyncAssumption DEF IInv, Scenario
<1>2. Len(plan) \in Nat /\ DOMAIN plan = 1..Len(plan) /\ Len(queue) \in Nat
  BY IsSeqDomain DEF IInv, QueueInv, Entries, PlannedSeq
<1> DEFINE free == IF Len(queue) < scene.queueCap THEN scene.queueCap - Len(queue) ELSE 0
           room == Min({Len(plan), free})
           new  == [i \in 1..room |-> Item(FreshId(i), plan[i])]
<1>3. free \in Nat
  BY <1>1, <1>2
<1> HIDE DEF free
<1>4. room = IF Len(plan) <= free THEN Len(plan) ELSE free
  BY <1>2, <1>3, MinOfTwo
<1>5. Enqueue(plan) = queue \o new
  BY Zenon DEF Enqueue, free
<1> HIDE DEF room
<1>6. room \in Nat /\ room <= Len(plan) /\ room <= free
  BY <1>2, <1>3, <1>4
<1>7. /\ room <= Len(plan) /\ (Len(queue) + room <= scene.queueCap \/ room = 0)
      /\ room = Len(plan) \/ scene.queueCap <= Len(queue) + room
  <2>1. room <= Len(plan) /\ (Len(queue) + room <= scene.queueCap \/ room = 0)
    BY <1>1, <1>2, <1>6 DEF free
  <2>2. scene.queueCap <= Len(queue) + free
    BY <1>1, <1>2 DEF free
  <2>3. room = Len(plan) \/ room = free
    BY <1>4
  <2> QED BY <2>1, <2>2, <2>3, Zenon
<1>8. IsSeq(new)
  BY <1>6, FunctionIsSeq
<1>9. \A i \in DOMAIN new : Entry(task, new[i])
  <2> TAKE i \in DOMAIN new
  <2>1. i \in DOMAIN plan
    BY <1>2, <1>6
  <2>2. PlannedAct(task, plan[i])
    BY <2>1 DEF PlannedSeq
  <2> DEFINE it == Item(FreshId(i), plan[i])
  <2>3. /\ it = [id |-> it.id, act |-> it.act, status |-> it.status, attempt |-> it.attempt]
        /\ it.act = plan[i] /\ it.status = "queued" /\ it.attempt = 0
    BY DEF Item
  <2>4. new[i] = it
    OBVIOUS
  <2> HIDE DEF it, new
  <2>5. 0 \in 0..MaxAttempts /\ "queued" \in ItemStatus
    BY SyncAssumption DEF ItemStatus, Executable
  <2>6. Entry(task, it)
    BY <2>2, <2>3, <2>5 DEF Entry, ItemOK, PlannedAct
  <2> QED BY <2>4, <2>6
<1> HIDE DEF new
<1>10. Entries(task, queue) /\ Entries(task, new)
  BY <1>8, <1>9 DEF IInv, QueueInv, Entries
<1>11. Entries(task, queue \o new)
  <2> DEFINE c == queue \o new
  <2>1. /\ IsSeq(c)
        /\ \A i \in DOMAIN c : \/ i \in DOMAIN queue /\ c[i] = queue[i]
                               \/ i - Len(queue) \in DOMAIN new /\ c[i] = new[i - Len(queue)]
    BY <1>10, ConcatIsSeq DEF Entries
  <2> HIDE DEF c
  <2>2. Entries(task, c)
    BY <1>10, <2>1 DEF Entries
  <2> QED BY <2>2 DEF c
<1>12. Entries(task, Enqueue(plan))
  BY <1>5, <1>11, Zenon
<1> QED BY <1>5, <1>6, <1>7, <1>12 DEF new


----------------------------------------------------------------------------
(* What the steps of a worker make of its record.                          *)

PCs == {"idle", "snap", "list", "next"} \cup Handling
Record(pc, mode, st, snap, todo, prev, src) ==
  [pc |-> pc, mode |-> mode, st |-> st, snap |-> snap, todo |-> todo, prev |-> prev, src |-> src]

LEMMA RecordOK ==
  ASSUME NEW tk, NEW pc \in PCs, NEW mode \in {"run", "ops"}, NEW st, NEW snap, NEW todo, NEW prev, NEW src,
         Entries(tk, todo), pc \in Handling => todo # <<>>, pc = "snap" => Tree(snap),
         Lookup(prev), Lookup(src)
  PROVE  WorkerOK(tk, Record(pc, mode, st, snap, todo, prev, src))
BY DEF WorkerOK, PCs, Record

LEMMA RecordFields ==
  ASSUME NEW pc, NEW mode, NEW st, NEW snap, NEW todo, NEW prev, NEW src, NEW k,
         k = Record(pc, mode, st, snap, todo, prev, src)
  PROVE  /\ k.pc = pc /\ k.mode = mode /\ k.st = st /\ k.snap = snap /\ k.todo = todo
         /\ k.prev = prev /\ k.src = src
BY DEF Record

\* The record k of a worker, and the two facts the EXCEPT forms below need.
LEMMA WorkerFields ==
  ASSUME NEW tk, NEW k, WorkerOK(tk, k)
  PROVE  /\ k \in [pc : {k.pc}, mode : {k.mode}, st : {k.st}, snap : {k.snap}, todo : {k.todo},
                   prev : {k.prev}, src : {k.src}]
         /\ k.pc \in PCs /\ k.mode \in {"run", "ops"} /\ Entries(tk, k.todo)
         /\ Lookup(k.prev) /\ Lookup(k.src)
BY DEF WorkerOK, PCs

LEMMA NoRowLookup == Lookup(NoRow)
BY DEF Lookup

LEMMA WorkingOK ==
  ASSUME NEW tk, NEW pc \in {"idle", "snap", "next"}, NEW mode \in {"run", "ops"}, NEW st, NEW snap, NEW todo,
         Entries(tk, todo), pc = "snap" => Tree(snap)
  PROVE  /\ WorkerOK(tk, Working(pc, mode, st, snap, todo))
         /\ Working(pc, mode, st, snap, todo) = Record(pc, mode, st, snap, todo, NoRow, NoRow)
<1>1. pc \in PCs /\ pc \notin Handling
  BY DEF PCs, Handling
<1>2. Working(pc, mode, st, snap, todo) = Record(pc, mode, st, snap, todo, NoRow, NoRow)
  BY DEF Working, Record
<1> QED BY <1>1, <1>2, NoRowLookup, RecordOK

LEMMA IdleOK ==
  ASSUME NEW tk
  PROVE  WorkerOK(tk, Idle) /\ Idle = Record("idle", "run", "running", <<>>, <<>>, NoRow, NoRow)
<1>1. Entries(tk, <<>>)
  BY EmptyEntries
<1> QED BY <1>1, WorkingOK DEF Idle

\* The forms of EXCEPT the actions use.
LEMMA StepTo ==
  ASSUME NEW tk, NEW k, WorkerOK(tk, k), NEW pc \in {"dequeue", "exec", "target"}, k.todo # <<>>
  PROVE  /\ WorkerOK(tk, [k EXCEPT !.pc = pc])
         /\ [k EXCEPT !.pc = pc] = Record(pc, k.mode, k.st, k.snap, k.todo, k.prev, k.src)
<1> DEFINE l == [k EXCEPT !.pc = pc]
<1>1. l \in [pc : {pc}, mode : {k.mode}, st : {k.st}, snap : {k.snap}, todo : {k.todo},
            prev : {k.prev}, src : {k.src}]
  BY WorkerFields
<1>2. pc \in PCs /\ pc # "snap"
  BY DEF PCs, Handling
<1> HIDE DEF l
<1>3. l = Record(pc, k.mode, k.st, k.snap, k.todo, k.prev, k.src)
  BY <1>1 DEF Record
<1>4. WorkerOK(tk, Record(pc, k.mode, k.st, k.snap, k.todo, k.prev, k.src))
  BY <1>2, WorkerFields, RecordOK
<1> QED BY <1>3, <1>4 DEF l

LEMMA StepToList ==
  ASSUME NEW tk, NEW k, WorkerOK(tk, k)
  PROVE  /\ WorkerOK(tk, [k EXCEPT !.pc = "list", !.snap = <<>>])
         /\ [k EXCEPT !.pc = "list", !.snap = <<>>] = Record("list", k.mode, k.st, <<>>, k.todo, k.prev, k.src)
<1> DEFINE l == [k EXCEPT !.pc = "list", !.snap = <<>>]
<1>1. l \in [pc : {"list"}, mode : {k.mode}, st : {k.st}, snap : {<<>>}, todo : {k.todo},
            prev : {k.prev}, src : {k.src}]
  BY WorkerFields
<1>2. "list" \in PCs /\ "list" \notin Handling
  BY DEF PCs, Handling
<1> HIDE DEF l
<1>3. l = Record("list", k.mode, k.st, <<>>, k.todo, k.prev, k.src)
  BY <1>1 DEF Record
<1>4. WorkerOK(tk, Record("list", k.mode, k.st, <<>>, k.todo, k.prev, k.src))
  BY <1>2, WorkerFields, RecordOK
<1> QED BY <1>3, <1>4 DEF l

LEMMA StepToNext ==
  ASSUME NEW tk, NEW k, WorkerOK(tk, k), NEW todo, Entries(tk, todo)
  PROVE  /\ WorkerOK(tk, [k EXCEPT !.pc = "next", !.todo = todo])
         /\ [k EXCEPT !.pc = "next", !.todo = todo] = Record("next", k.mode, k.st, k.snap, todo, k.prev, k.src)
<1> DEFINE l == [k EXCEPT !.pc = "next", !.todo = todo]
<1>1. l \in [pc : {"next"}, mode : {k.mode}, st : {k.st}, snap : {k.snap}, todo : {todo},
            prev : {k.prev}, src : {k.src}]
  BY WorkerFields
<1>2. "next" \in PCs /\ "next" \notin Handling
  BY DEF PCs, Handling
<1> HIDE DEF l
<1>3. l = Record("next", k.mode, k.st, k.snap, todo, k.prev, k.src)
  BY <1>1 DEF Record
<1>4. WorkerOK(tk, Record("next", k.mode, k.st, k.snap, todo, k.prev, k.src))
  BY <1>2, WorkerFields, RecordOK
<1> QED BY <1>3, <1>4 DEF l

LEMMA StepWithRows ==
  ASSUME NEW tk, NEW k, WorkerOK(tk, k), NEW pc \in {"write", "dequeue"}, NEW prev, NEW src,
         k.todo # <<>>, Lookup(prev), Lookup(src)
  PROVE  /\ WorkerOK(tk, [k EXCEPT !.pc = pc, !.prev = prev, !.src = src])
         /\ [k EXCEPT !.pc = pc, !.prev = prev, !.src = src] = Record(pc, k.mode, k.st, k.snap, k.todo, prev, src)
<1> DEFINE l == [k EXCEPT !.pc = pc, !.prev = prev, !.src = src]
<1>0. k \in [pc : {k.pc}, mode : {k.mode}, st : {k.st}, snap : {k.snap}, todo : {k.todo},
            prev : {k.prev}, src : {k.src}]
  BY WorkerFields
<1>1. l \in [pc : {pc}, mode : {k.mode}, st : {k.st}, snap : {k.snap}, todo : {k.todo},
            prev : {prev}, src : {src}]
  BY <1>0
<1>2. pc \in PCs /\ pc # "snap"
  BY DEF PCs, Handling
<1> HIDE DEF l
<1>3. l = Record(pc, k.mode, k.st, k.snap, k.todo, prev, src)
  BY <1>1 DEF Record
<1>4. WorkerOK(tk, Record(pc, k.mode, k.st, k.snap, k.todo, prev, src))
  BY <1>2, WorkerFields, RecordOK
<1> QED BY <1>3, <1>4 DEF l

----------------------------------------------------------------------------
(* Every step preserves IInv.                                              *)

\* What an action leaves alone, or writes in good order.
LEMMA Kept ==
  ASSUME IInv, scene' = scene
  PROVE  /\ scene' \in Scenarios /\ task' = task
         /\ local' = local /\ remote' = remote => TreesInv'
         /\ index' = index => IndexInv'
         /\ queue' = queue => QueueInv'
         /\ Entries(task, queue') => QueueInv'
         /\ work' = work => WorkInv'
         /\ request' = request => RequestInv'
         /\ status' = status => status' \in Statuses
<1>1. task' = task
  BY DEF task
<1>2. TreesInv /\ IndexInv /\ QueueInv /\ WorkInv /\ RequestInv /\ status \in Statuses /\ scene \in Scenarios
  BY DEF IInv
<1>3. local' = local /\ remote' = remote => TreesInv'
  BY <1>2 DEF TreesInv
<1>4. index' = index => IndexInv'
  BY <1>2 DEF IndexInv
<1>5. queue' = queue => QueueInv'
  BY <1>1, <1>2 DEF QueueInv
<1>6. Entries(task, queue') => QueueInv'
  BY <1>1 DEF QueueInv
<1>7. work' = work => WorkInv'
  BY <1>1, <1>2 DEF WorkInv
<1>8. request' = request => RequestInv'
  BY <1>1, <1>2 DEF RequestInv
<1> QED BY <1>1, <1>2, <1>3, <1>4, <1>5, <1>6, <1>7, <1>8

\* Worker w goes on with the record k.
LEMMA WorkStep ==
  ASSUME IInv, scene' = scene, NEW w \in Workers, NEW k, WorkerOK(task, k), work' = [work EXCEPT ![w] = k]
  PROVE  WorkInv' /\ work'[w] = k /\ \A v \in Workers \ {w} : work'[v] = work[v]
<1>1. task' = task
  BY DEF task
<1>2. work = [v \in Workers |-> work[v]] /\ \A v \in Workers : WorkerOK(task, work[v])
  BY DEF IInv, WorkInv
<1>3. work'[w] = k /\ \A v \in Workers \ {w} : work'[v] = work[v]
  BY <1>2
<1>4. work' = [v \in Workers |-> work'[v]]
  BY <1>2
<1>5. \A v \in Workers : WorkerOK(task, work'[v])
  BY <1>2, <1>3
<1> QED BY <1>1, <1>3, <1>4, <1>5 DEF WorkInv

\* The record of a worker and the item in its hand.
LEMMA Hand ==
  ASSUME IInv, NEW w \in Workers
  PROVE  /\ WorkerOK(task, work[w])
         /\ work[w].pc \in Handling => work[w].todo # <<>>
         /\ work[w].todo # <<>> => /\ Entry(task, Cur(w)) /\ Entries(task, Tail(work[w].todo))
                                   /\ PlannedAct(task, Cur(w).act)
                                   /\ Cur(w).status \in ItemStatus /\ Cur(w).attempt \in 0..MaxAttempts
<1>1. WorkerOK(task, work[w])
  BY DEF IInv, WorkInv
<1>2. Entries(task, work[w].todo) /\ (work[w].pc \in Handling => work[w].todo # <<>>)
  BY <1>1 DEF WorkerOK
<1>3. work[w].todo # <<>> => Entry(task, Cur(w)) /\ Entries(task, Tail(work[w].todo))
  BY <1>2, TailEntries DEF Cur
<1> QED BY <1>1, <1>2, <1>3 DEF Entry, ItemOK

LEMMA ForgetEntries ==
  ASSUME NEW tk, NEW q, Entries(tk, q), NEW wk PROVE Entries(tk, Forget(q, wk))
<1> DEFINE idx == {i \in DOMAIN q : Unfinished(q[i]) \/ q[i].id \in Held(wk)}
<1>1. idx \in SUBSET DOMAIN q
  OBVIOUS
<1> HIDE DEF idx
<1>2. Entries(tk, Selected(q, idx))
  BY <1>1, SelectedEntries
<1> QED BY <1>2 DEF Forget, idx

LEMMA BumpType == ASSUME NEW n \in 0..MaxAttempts PROVE Bump(n) \in 0..MaxAttempts
<1>1. n + 1 \in Nat /\ MaxAttempts \in Nat
  BY SyncAssumption
<1>2. Bump(n) = IF n + 1 <= MaxAttempts THEN n + 1 ELSE MaxAttempts
  BY <1>1, MinOfTwo DEF Bump
<1> QED BY <1>1, <1>2

\* The rows a worker reads from the index.
LEMMA RowOfLookup == ASSUME IInv, NEW p PROVE Lookup(RowOf(index, p))
BY DEF IInv, IndexInv, RowOf, Lookup

\* The plans of a run.
LEMMA RunPlans ==
  ASSUME IInv, NEW w \in Workers, At(w, "snap"), NEW seen, Tree(seen),
         NEW plan \in PlansFrom(w, seen)
  PROVE  PlannedSeq(task, plan)
<1>1. Tree(work[w].snap) /\ Tree(Listed(seen, scene.slashed))
  BY ListedTree DEF IInv, WorkInv, WorkerOK, At
<1>2. task \in Policy
  BY SyncAssumption DEF IInv, Scenario, task
<1> QED BY <1>1, <1>2, PlansPlanned DEF PlansFrom

LEMMA BeginRunStep ==
  ASSUME IInv, UNCHANGED <<scene, request>>, NEW w \in Workers, BeginRun(w) PROVE IInv'
<1>1. /\ work' = [work EXCEPT ![w] = Working("snap", "run", status, local, <<>>)]
      /\ UNCHANGED <<local, remote, index, queue, status>>
  BY DEF BeginRun, snapshotLocal, trees, tables
<1>2. Tree(local)
  BY DEF IInv, TreesInv
<1>3. WorkerOK(task, Working("snap", "run", status, local, <<>>))
  BY <1>2, EmptyEntries, WorkingOK
<1>4. WorkInv'
  BY <1>1, <1>3, WorkStep
<1> QED BY <1>1, <1>4, Kept DEF IInv

LEMMA PlannedStep ==
  ASSUME IInv, UNCHANGED <<scene, request>>, NEW w \in Workers, At(w, "snap"), NEW seen, Tree(seen),
         Planned(w, seen)
  PROVE  IInv'
<1>1. PICK plan \in PlansFrom(w, seen) : queue' = Enqueue(plan)
  BY DEF Planned
<1>2. /\ work' = [work EXCEPT ![w].pc = "list", ![w].snap = <<>>]
      /\ UNCHANGED <<local, remote, index, status>>
  BY DEF Planned, trees, tables
<1>3. QueueInv'
  <2>1. PlannedSeq(task, plan)
    BY RunPlans
  <2>2. Entries(task, Enqueue(plan))
    BY <2>1, EnqueueEntries
  <2> QED BY <1>1, <2>2, Kept
<1>4. WorkInv'
  <2> DEFINE k == [work[w] EXCEPT !.pc = "list", !.snap = <<>>]
  <2>1. WorkerOK(task, k)
    BY Hand, StepToList
  <2>2. work' = [work EXCEPT ![w] = k]
    BY <1>2 DEF IInv, WorkInv
  <2> HIDE DEF k
  <2> QED BY <2>1, <2>2, WorkStep
<1> QED BY <1>2, <1>3, <1>4, Kept DEF IInv

LEMMA PlanErrorStep ==
  ASSUME IInv, UNCHANGED <<scene, request>>, NEW w \in Workers, PlanError(w) PROVE IInv'
<1>1. /\ work' = [work EXCEPT ![w] = Idle] /\ status' = "failed"
      /\ UNCHANGED <<local, remote, index, queue>>
  BY DEF PlanError, trees
<1>2. WorkInv'
  BY <1>1, IdleOK, WorkStep
<1>3. status' \in Statuses
  BY <1>1 DEF Statuses
<1> QED BY <1>1, <1>2, <1>3, Kept DEF IInv

\* Whatever planning sees of the remote side is a tree.
LEMMA SeenIsTree ==
  ASSUME IInv, NEW w \in Workers, PlanRun(w) \/ PlanBlind(w) \/ PlanMisled(w)
  PROVE  At(w, "snap") /\ \E seen : Tree(seen) /\ Planned(w, seen)
<1>1. Tree(remote)
  BY DEF IInv, TreesInv
<1>2. CASE PlanRun(w)
  BY <1>1, <1>2 DEF PlanRun
<1>3. CASE PlanBlind(w)
  <2>1. PICK p : Planned(w, Unlisted(remote, p))
    BY <1>3 DEF PlanBlind
  <2>2. DOMAIN Unlisted(remote, p) \subseteq DOMAIN remote
    BY DEF Unlisted
  <2>3. Tree(Unlisted(remote, p))
    BY <1>1, <2>2, SmallerTree
  <2> QED BY <1>3, <2>1, <2>3 DEF PlanBlind
<1>4. CASE PlanMisled(w)
  <2>1. PICK p : Planned(w, Misread(remote, p))
    BY <1>4 DEF PlanMisled
  <2>2. DOMAIN Misread(remote, p) \subseteq DOMAIN remote
    BY DEF Misread
  <2>3. Tree(Misread(remote, p))
    BY <1>1, <2>2, SmallerTree
  <2> QED BY <1>4, <2>1, <2>3 DEF PlanMisled
<1> QED BY <1>2, <1>3, <1>4

LEMMA ListStep ==
  ASSUME IInv, UNCHANGED <<scene, request>>, NEW w \in Workers, List(w) \/ ListDue(w) PROVE IInv'
<1>0. UNCHANGED <<local, remote, index, status, queue>>
  BY DEF List, ListDue, trees, tables
<1>1. ListExecutable \in SUBSET DOMAIN queue /\ Entries(task, queue)
  BY DEF ListExecutable, IInv, QueueInv
<1>2. CASE List(w)
  <2> DEFINE k == [work[w] EXCEPT !.pc = "next", !.todo = Selected(queue, ListExecutable)]
  <2>1. Entries(task, Selected(queue, ListExecutable))
    BY <1>1, SelectedEntries
  <2>2. WorkerOK(task, k)
    BY <2>1, Hand, StepToNext
  <2>3. work' = [work EXCEPT ![w] = k]
    BY <1>2 DEF IInv, WorkInv, List
  <2> HIDE DEF k
  <2>4. WorkInv'
    BY <2>2, <2>3, WorkStep
  <2> QED BY <1>0, <2>4, Kept DEF IInv
<1>3. CASE ListDue(w)
  <2>1. PICK due \in SUBSET ListExecutable \ {{}} :
          work' = [work EXCEPT ![w] = Working("next", "ops", "running", <<>>, Selected(queue, due))]
    BY <1>3 DEF ListDue
  <2>2. Entries(task, Selected(queue, due))
    BY <1>1, SelectedEntries
  <2>3. WorkerOK(task, Working("next", "ops", "running", <<>>, Selected(queue, due)))
    BY <2>2, WorkingOK
  <2>4. WorkInv'
    BY <2>1, <2>3, WorkStep
  <2> QED BY <1>0, <2>4, Kept DEF IInv
<1> QED BY <1>2, <1>3

LEMMA SkipStep ==
  ASSUME IInv, UNCHANGED <<scene, request>>, NEW w \in Workers, Skip(w) PROVE IInv'
<1> DEFINE k == [work[w] EXCEPT !.pc = "dequeue"]
<1>1. work[w].todo # <<>> /\ UNCHANGED <<local, remote, index, status, queue>>
  BY DEF Skip, Pending, trees, tables
<1>2. WorkerOK(task, k)
  BY <1>1, Hand, StepTo
<1>3. work' = [work EXCEPT ![w] = k]
  BY DEF Skip, IInv, WorkInv
<1> HIDE DEF k
<1>4. WorkInv'
  BY <1>2, <1>3, WorkStep
<1> QED BY <1>1, <1>4, Kept DEF IInv

LEMMA ClaimStep ==
  ASSUME IInv, UNCHANGED <<scene, request>>, NEW w \in Workers, Claim(w) PROVE IInv'
<1> DEFINE k == [work[w] EXCEPT !.pc = "exec"]
<1>1. work[w].todo # <<>> /\ UNCHANGED <<local, remote, index, status>>
  BY DEF Claim, Pending, trees, tables
<1>2. WorkerOK(task, k)
  BY <1>1, Hand, StepTo
<1>3. work' = [work EXCEPT ![w] = k]
  BY DEF Claim, IInv, WorkInv
<1> HIDE DEF k
<1>4. WorkInv'
  BY <1>2, <1>3, WorkStep
<1>5. QueueInv'
  <2>1. Entries(task, queue) /\ "executing" \in ItemStatus /\ Cur(w).attempt \in 0..MaxAttempts
    BY <1>1, Hand DEF IInv, QueueInv, ItemStatus
  <2>2. Entries(task, Reschedule(queue, Cur(w).id, "executing", Cur(w).attempt))
    BY <2>1, UpdateEntries
  <2> QED BY <2>2, Kept DEF Claim
<1> QED BY <1>1, <1>4, <1>5, Kept DEF IInv

LEMMA LoadedStep ==
  ASSUME IInv, UNCHANGED <<scene, request>>, NEW w \in Workers, At(w, "exec"), Loaded(w) PROVE WorkInv'
<1> DEFINE k == [work[w] EXCEPT !.pc = "write", !.prev = RowOf(index, Cur(w).act.rel),
                                !.src = RowOf(index, Cur(w).act.src)]
<1>1. work[w].todo # <<>>
  BY Hand DEF At, Handling
<1>2. WorkerOK(task, k)
  BY <1>1, Hand, RowOfLookup, StepWithRows
<1>3. work' = [work EXCEPT ![w] = k]
  BY DEF Loaded, IInv, WorkInv
<1> HIDE DEF k
<1> QED BY <1>2, <1>3, WorkStep

\* What an action makes of either tree.
LEMMA EffectTrees ==
  ASSUME IInv, NEW a, PlannedAct(task, a) PROVE Tree(LocalAfter(a)) /\ Tree(RemoteAfter(a))
<1>1. IsSeq(a.lp) /\ IsSeq(a.rp) /\ IsSeq(a.src) /\ IsSeq(Joined(a.rp)) /\ IsSeq(Joined(a.src))
  BY JoinedIsSeq DEF PlannedAct
<1>2. Tree(local) /\ Tree(remote)
  BY DEF IInv, TreesInv
<1> DEFINE got == davGet(remote, a.rp)
           put == local[a.lp]
<1>3. /\ Tree(osMkdirAll(local, a.lp)) /\ Tree(osCreate(local, a.lp, got))
      /\ Tree(osRemoveAll(local, a.lp)) /\ Tree(osRename(local, a.src, a.lp))
  BY <1>1, <1>2, LocalCalls
<1>4. /\ Tree(davMkcol(remote, a.rp)) /\ Tree(davPut(remote, a.rp, put))
      /\ Tree(davDelete(remote, Joined(a.rp))) /\ Tree(davMove(remote, Joined(a.src), a.rp))
  BY <1>1, <1>2, RemoteCalls
<1>5. LocalAfter(a) \in {osMkdirAll(local, a.lp), osCreate(local, a.lp, got), osRemoveAll(local, a.lp),
                         osRename(local, a.src, a.lp), local}
  BY DEF LocalAfter
<1>6. RemoteAfter(a) \in {davMkcol(remote, a.rp), davPut(remote, a.rp, put), davDelete(remote, Joined(a.rp)),
                          davMove(remote, Joined(a.src), a.rp), remote}
  BY DEF RemoteAfter
<1> QED BY <1>2, <1>3, <1>4, <1>5, <1>6

LEMMA EffectStep ==
  ASSUME IInv, UNCHANGED <<scene, request>>, NEW w \in Workers, Effect(w) \/ HttpStatus(w) PROVE IInv'
<1>1. At(w, "exec") /\ Loaded(w) /\ UNCHANGED <<index, status, queue>>
  BY DEF Effect, HttpStatus, tables
<1>2. WorkInv'
  BY <1>1, LoadedStep
<1>3. PlannedAct(task, Cur(w).act) /\ Tree(local) /\ Tree(remote)
  BY <1>1, Hand DEF At, Handling, IInv, TreesInv
<1>4. Tree(local') /\ Tree(remote')
  <2>1. CASE Effect(w)
    BY <1>3, <2>1, EffectTrees DEF Effect
  <2>2. CASE HttpStatus(w)
    <3>1. IsSeq(Cur(w).act.lp)
      BY <1>3 DEF PlannedAct
    <3>2. Tree(osCreate(local, Cur(w).act.lp, ErrBody))
      BY <1>3, <3>1, LocalCalls
    <3>3. local' \in {local, osCreate(local, Cur(w).act.lp, ErrBody)} /\ remote' = remote
      BY <2>2 DEF HttpStatus
    <3> QED BY <1>3, <3>2, <3>3
  <2> QED BY <2>1, <2>2
<1> QED BY <1>1, <1>2, <1>4, Kept DEF IInv, TreesInv

\* A row past the version bound of a one-way task is still in order.
LEMMA CappedStored ==
  ASSUME scene \in Scenarios, NEW row, Stored(row)
  PROVE  /\ Stored(Capped(row))
         /\ task.direction = "bidirectional" => Capped(row) = row
<1>1. scene.versionCap \in Nat \ {0}
  BY SyncAssumption DEF Scenario
<1> DEFINE r == [row EXCEPT !.version = scene.versionCap]
<1>2. row \in Row /\ RowConsistent(row)
  BY DEF Stored
<1>3. r \in Row /\ \A c \in {"state", "local", "remote", "tomb", "conflict", "seen"} : r[c] = row[c]
  BY <1>1, <1>2 DEF Row
<1>4. r.version = scene.versionCap
  BY <1>2 DEF Row
<1> HIDE DEF r
<1>5. /\ r.state = row.state /\ r.local = row.local /\ r.remote = row.remote /\ r.tomb = row.tomb
      /\ r.conflict = row.conflict /\ r.seen = row.seen
  BY <1>3
<1>6. RowConsistent(r)
  BY <1>1, <1>2, <1>4, <1>5 DEF RowConsistent
<1>7. Capped(row) \in {row, r} /\ (task.direction = "bidirectional" => Capped(row) = row)
  BY DEF Capped, r
<1> QED BY <1>2, <1>3, <1>6, <1>7 DEF Stored

LEMMA UpsertStep ==
  ASSUME IInv, NEW p, NEW row, Stored(row), Upsert(p, row)
  PROVE  IndexInv'
<1>1. Stored(Capped(row))
  BY CappedStored DEF IInv
<1>2. index' = [q \in {p} \cup DOMAIN index |-> IF q \in {p} THEN Capped(row) ELSE index[q]]
  BY DEF Upsert, With, Over
<1>3. \A q \in DOMAIN index : Stored(index[q])
  BY DEF IInv, IndexInv
<1>4. \A q \in DOMAIN index' : Stored(index'[q])
  BY <1>1, <1>2, <1>3
<1> QED BY <1>4 DEF IndexInv

\* The worker has written what it read the rows for.
LEMMA WrittenStep ==
  ASSUME IInv, UNCHANGED <<scene, request>>, NEW w \in Workers, work[w].todo # <<>>, work' = Written(w)
  PROVE  WorkInv'
<1> DEFINE k == [work[w] EXCEPT !.pc = "dequeue", !.prev = NoRow, !.src = NoRow]
<1>1. WorkerOK(task, k)
  BY Hand, NoRowLookup, StepWithRows
<1>2. work' = [work EXCEPT ![w] = k]
  BY DEF Written, IInv, WorkInv
<1> HIDE DEF k
<1> QED BY <1>1, <1>2, WorkStep

LEMMA WriteStep ==
  ASSUME IInv, UNCHANGED <<scene, request>>, NEW w \in Workers,
         Write(w) \/ WriteSource(w) \/ WriteTarget(w)
  PROVE  IInv'
<1>1. /\ work[w].pc \in Handling /\ work[w].todo # <<>> /\ PlannedAct(task, Cur(w).act)
      /\ Lookup(work[w].prev) /\ Lookup(work[w].src) /\ WorkerOK(task, work[w])
  BY Hand DEF Write, WriteSource, WriteTarget, At, Handling, WorkerOK
<1>2. UNCHANGED <<local, remote, queue, status>>
  BY DEF Write, WriteSource, WriteTarget, trees
<1>3. CASE Write(w)
  <2> DEFINE row == writeActionResult(work[w].prev, Cur(w).act.op, Cur(w).act.isDir)
  <2>1. Cur(w).act.op \in Ops \ MoveOps /\ Cur(w).act.isDir \in BOOLEAN
    BY <1>1, <1>3 DEF Write, Moving, PlannedAct
  <2>2. Stored(row)
    BY <1>1, <2>1, ActionResultWritten
  <2>3. Upsert(Cur(w).act.rel, row) /\ work' = Written(w)
    BY <1>3 DEF Write
  <2> HIDE DEF row
  <2>4. IndexInv' /\ WorkInv'
    BY <1>1, <2>2, <2>3, UpsertStep, WrittenStep
  <2> QED BY <1>2, <2>4, Kept DEF IInv
<1>4. CASE WriteSource(w)
  <2> DEFINE row == moveSourceRow(work[w].src)
             k == [work[w] EXCEPT !.pc = "target"]
  <2>1. Stored(row)
    BY <1>1, MoveResultWritten
  <2>2. Upsert(Cur(w).act.src, row) /\ work' = [work EXCEPT ![w].pc = "target"]
    BY <1>4 DEF WriteSource
  <2>3. WorkerOK(task, k)
    BY <1>1, StepTo
  <2>4. work' = [work EXCEPT ![w] = k]
    BY <2>2 DEF IInv, WorkInv
  <2> HIDE DEF row, k
  <2>5. IndexInv' /\ WorkInv'
    BY <2>1, <2>2, <2>3, <2>4, UpsertStep, WorkStep
  <2> QED BY <1>2, <2>5, Kept DEF IInv
<1>5. CASE WriteTarget(w)
  <2> DEFINE row == moveDestRow(work[w].src, work[w].prev)
  <2>1. Stored(row)
    BY <1>1, MoveResultWritten
  <2>2. Upsert(Cur(w).act.rel, row) /\ work' = Written(w)
    BY <1>5 DEF WriteTarget
  <2> HIDE DEF row
  <2>3. IndexInv' /\ WorkInv'
    BY <1>1, <2>1, <2>2, UpsertStep, WrittenStep
  <2> QED BY <1>2, <2>3, Kept DEF IInv
<1> QED BY <1>3, <1>4, <1>5

LEMMA DequeueStep ==
  ASSUME IInv, UNCHANGED <<scene, request>>, NEW w \in Workers, Dequeue(w) PROVE IInv'
<1> DEFINE k == [work[w] EXCEPT !.pc = "next", !.todo = Tail(work[w].todo)]
<1>1. work[w].todo # <<>> /\ UNCHANGED <<local, remote, index, status>>
  BY Hand DEF Dequeue, At, Handling, trees, tables
<1>2. WorkerOK(task, k)
  BY <1>1, Hand, StepToNext
<1>3. work' = [work EXCEPT ![w] = k]
  BY DEF Dequeue, IInv, WorkInv
<1> HIDE DEF k
<1>4. WorkInv'
  BY <1>2, <1>3, WorkStep
<1>5. QueueInv'
  <2> DEFINE q == SetStatus(queue, Cur(w).id, "succeeded")
  <2>1. Entries(task, queue) /\ "succeeded" \in ItemStatus /\ Cur(w).attempt \in 0..MaxAttempts
    BY <1>1, Hand DEF IInv, QueueInv, ItemStatus
  <2>2. Entries(task, q)
    BY <2>1, UpdateEntries
  <2>3. queue' = Forget(q, work')
    BY DEF Dequeue
  <2> HIDE DEF q
  <2> QED BY <2>2, <2>3, ForgetEntries, Kept
<1> QED BY <1>1, <1>4, <1>5, Kept DEF IInv

\* The scheduler counts an attempt, or gives the item up.
LEMMA RetriedStep ==
  ASSUME IInv, UNCHANGED <<scene, request>>, NEW w \in Workers, work[w].todo # <<>>, Retried(w)
  PROVE  WorkInv' /\ QueueInv'
<1> DEFINE k == Working("next", work[w].mode, work[w].st, work[w].snap, Tail(work[w].todo))
<1>0. work[w].mode \in {"run", "ops"} /\ Entries(task, Tail(work[w].todo))
  BY Hand, WorkerFields
<1>1. WorkerOK(task, k)
  BY <1>0, WorkingOK
<1>2. work' = [work EXCEPT ![w] = k]
  BY DEF Retried, Skipping, IInv, WorkInv
<1> HIDE DEF k
<1>3. WorkInv'
  BY <1>1, <1>2, WorkStep
<1>4. QueueInv'
  <2> DEFINE it == Cur(w)
             q == SetStatus(queue, it.id, "failed")
             r == Reschedule(queue, it.id, it.status, it.attempt + 1)
  <2>1. Entries(task, queue) /\ "failed" \in ItemStatus /\ it.status \in ItemStatus /\ it.attempt \in 0..MaxAttempts
    BY Hand DEF IInv, QueueInv, ItemStatus
  <2>2. Entries(task, q)
    BY <2>1, UpdateEntries
  <2>3. it.attempt + 1 >= MaxAttempts \/ it.attempt + 1 \in 0..MaxAttempts
    BY <2>1, SyncAssumption
  <2>4. it.attempt + 1 >= MaxAttempts \/ Entries(task, r)
    BY <2>1, <2>3, UpdateEntries
  <2>5. \/ queue' = Forget(q, work')
        \/ ~(it.attempt + 1 >= MaxAttempts) /\ queue' = Forget(r, work')
    BY DEF Retried
  <2> HIDE DEF q, r, it
  <2> QED BY <2>2, <2>4, <2>5, ForgetEntries, Kept
<1> QED BY <1>3, <1>4

LEMMA RefuseStep ==
  ASSUME IInv, UNCHANGED <<scene, request>>, NEW w \in Workers, Refuse(w) PROVE IInv'
<1>1. work[w].todo # <<>> /\ Retried(w) /\ UNCHANGED <<local, remote, index, status>>
  BY DEF Refuse, Pending, trees, tables
<1>2. WorkInv' /\ QueueInv'
  BY <1>1, RetriedStep
<1> QED BY <1>1, <1>2, Kept DEF IInv

LEMMA FailedStep ==
  ASSUME IInv, UNCHANGED <<scene, request>>, NEW w \in Workers, work[w].todo # <<>>, Failed(w),
         Tree(local'), Tree(remote')
  PROVE  IInv'
<1>1. index' = index
  BY DEF Failed
<1>2. CASE FailRun(w)
  <2> DEFINE it == Cur(w)
             n == Bump(it.attempt)
             q == Reschedule(queue, it.id, "retry_wait", n)
  <2>1. Entries(task, queue) /\ "retry_wait" \in ItemStatus /\ it.attempt \in 0..MaxAttempts
    BY Hand DEF IInv, QueueInv, ItemStatus, Executable
  <2>2. n \in 0..MaxAttempts
    BY <2>1, BumpType
  <2> HIDE DEF n
  <2>3. Entries(task, q)
    BY <2>1, <2>2, UpdateEntries
  <2>4. queue' = Forget(q, work') /\ work' = [work EXCEPT ![w] = Idle] /\ status' = "degraded"
    BY <1>2 DEF FailRun, n
  <2> HIDE DEF q
  <2>5. QueueInv'
    BY <2>3, <2>4, ForgetEntries, Kept
  <2>6. WorkInv'
    BY <2>4, IdleOK, WorkStep
  <2>7. status' \in Statuses
    BY <2>4 DEF Statuses
  <2> QED BY <1>1, <2>5, <2>6, <2>7, Kept DEF IInv, TreesInv
<1>3. CASE FailOp(w)
  <2>1. WorkInv' /\ QueueInv' /\ status' = status
    BY <1>3, RetriedStep DEF FailOp
  <2> QED BY <1>1, <2>1, Kept DEF IInv, TreesInv
<1> QED BY <1>2, <1>3 DEF Failed

LEMMA FailingStep ==
  ASSUME IInv, UNCHANGED <<scene, request>>, NEW w \in Workers,
         EffectFails(w) \/ WriteRefused(w) \/ Transport(w) \/ LostReply(w) \/ CutBody(w)
  PROVE  IInv'
<1>1. Failed(w) /\ work[w].pc \in {"exec", "write", "target"}
  BY Zenon DEF EffectFails, WriteRefused, Transport, LostReply, CutBody, At
<1>0. work[w].pc \in Handling
  BY <1>1 DEF Handling
<1>2. work[w].todo # <<>> /\ PlannedAct(task, Cur(w).act) /\ Tree(local) /\ Tree(remote)
  BY <1>0, Hand DEF IInv, TreesInv
<1>3. IsSeq(Cur(w).act.lp)
  BY <1>2 DEF PlannedAct
<1>4. Tree(osRenameFailed(local, Cur(w).act.lp)) /\ Tree(osCreate(local, Cur(w).act.lp, Partial))
  BY <1>2, <1>3, LocalCalls
<1>5. Tree(RemoteAfter(Cur(w).act))
  BY <1>2, EffectTrees
<1>6. /\ local' \in {local, osRenameFailed(local, Cur(w).act.lp), osCreate(local, Cur(w).act.lp, Partial)}
      /\ remote' \in {remote, RemoteAfter(Cur(w).act)}
  BY DEF EffectFails, WriteRefused, Transport, LostReply, CutBody
<1>7. Tree(local') /\ Tree(remote')
  BY <1>2, <1>4, <1>5, <1>6
<1> QED BY <1>1, <1>2, <1>7, FailedStep

LEMMA FinishStep ==
  ASSUME IInv, UNCHANGED <<scene, request>>, NEW w \in Workers, Finish(w) PROVE IInv'
<1>1. /\ work' = [work EXCEPT ![w] = Idle] /\ UNCHANGED <<local, remote, index, queue>>
      /\ status' \in {status, "running"}
  BY DEF Finish, trees
<1>2. WorkInv'
  BY <1>1, IdleOK, WorkStep
<1>3. status' \in Statuses
  BY <1>1 DEF Statuses, IInv
<1> QED BY <1>1, <1>2, <1>3, Kept DEF IInv

LEMMA EditStep ==
  ASSUME IInv, UNCHANGED <<scene, request>>, UserEdit PROVE IInv'
<1>1. UNCHANGED <<index, status, queue, work>>
  BY DEF UserEdit, LocalWrite, RemoteWrite, LocalRemove, RemoteRemove, LocalRename, Edit, tables
<1>2. Tree(local) /\ Tree(remote) /\ \A p \in scene.paths : IsSeq(p)
  BY SyncAssumption DEF IInv, TreesInv, Scenario
<1>3. Tree(local') /\ Tree(remote')
  <2>1. ASSUME NEW p \in scene.paths, NEW c, LocalWrite(p, c) \/ RemoteWrite(p, c)
        PROVE  Tree(local') /\ Tree(remote')
    <3>1. IsSeq(p)
      BY <1>2
    <3>2. Tree(osCreate(local, p, c)) /\ Tree(osCreate(remote, p, c))
      BY <1>2, <3>1, LocalCalls
    <3> QED BY <1>2, <2>1, <3>2 DEF LocalWrite, RemoteWrite
  <2>2. ASSUME NEW p, LocalRemove(p) \/ RemoteRemove(p)
        PROVE  Tree(local') /\ Tree(remote')
    BY <1>2, <2>2, WithoutTree DEF LocalRemove, RemoteRemove, osRemoveAll
  <2>3. ASSUME NEW p \in scene.paths, NEW q \in scene.paths, LocalRename(p, q)
        PROVE  Tree(local') /\ Tree(remote')
    <3>1. IsSeq(p) /\ IsSeq(q)
      BY <1>2
    <3>2. Tree(osRename(local, p, q))
      BY <1>2, <3>1, LocalCalls
    <3> QED BY <1>2, <2>3, <3>2 DEF LocalRename
  <2> QED BY <2>1, <2>2, <2>3 DEF UserEdit
<1> QED BY <1>1, <1>3, Kept DEF IInv, TreesInv

LEMMA StartStep == ASSUME IInv, UNCHANGED <<scene, request>>, Start PROVE IInv'
<1>1. status' \in Statuses /\ UNCHANGED <<local, remote, index, queue, work>>
  BY DEF Start, Statuses, trees
<1> QED BY <1>1, Kept DEF IInv

LEMMA RetryFailuresStep == ASSUME IInv, UNCHANGED <<scene, request>>, RetryFailures PROVE IInv'
<1>1. UNCHANGED <<local, remote, index, status, work>>
  BY DEF RetryFailures, trees, tables
<1> DEFINE q == [i \in DOMAIN queue |-> IF queue[i].status \in {"retry_wait", "executing"}
                                        THEN [queue[i] EXCEPT !.status = "queued"] ELSE queue[i]]
<1>2. Entries(task, queue) /\ "queued" \in ItemStatus /\ 0 \in 0..MaxAttempts
  BY SyncAssumption DEF IInv, QueueInv, ItemStatus, Executable
<1>3. ASSUME NEW i \in DOMAIN queue PROVE Entry(task, q[i])
  <2> DEFINE a == [queue[i] EXCEPT !.status = "queued"]
  <2>1. Entry(task, queue[i])
    BY <1>2 DEF Entries
  <2>2. Entry(task, a)
    BY <1>2, <2>1, RowUpdate
  <2>3. q[i] \in {queue[i], a}
    OBVIOUS
  <2> HIDE DEF a, q
  <2> QED BY <2>1, <2>2, <2>3
<1>4. DOMAIN q = DOMAIN queue /\ q = [i \in DOMAIN q |-> q[i]]
  OBVIOUS
<1>5. queue' = q
  BY DEF RetryFailures
<1> HIDE DEF q
<1>6. Entries(task, q)
  BY <1>2, <1>3, <1>4, MappedEntries
<1> QED BY <1>1, <1>5, <1>6, Kept DEF IInv

LEMMA NoRequestEntries == ASSUME NEW tk PROVE Entries(tk, NoRequest.todo)
BY EmptyEntries DEF NoRequest

LEMMA RetryByIDStep ==
  ASSUME IInv, UNCHANGED scene, NEW f, RetryFailureByID(f) PROVE IInv'
<1> DEFINE idx == {i \in DOMAIN queue : RetryMatch(f, queue[i])}
           todo == Selected(queue, idx)
<1>1. UNCHANGED <<local, remote, index, status, queue, work>> /\ request' = [failure |-> f, todo |-> todo]
  BY DEF RetryFailureByID, trees, tables
<1>2. idx \in SUBSET DOMAIN queue /\ Entries(task, queue)
  BY DEF IInv, QueueInv
<1> HIDE DEF idx
<1>3. Entries(task, todo)
  BY <1>2, SelectedEntries
<1> HIDE DEF todo
<1>4. RequestInv'
  BY <1>1, <1>3, Kept DEF RequestInv
<1> QED BY <1>1, <1>4, Kept DEF IInv

LEMMA RequeueStep ==
  ASSUME IInv, UNCHANGED scene, Requeue PROVE IInv'
<1>1. UNCHANGED <<local, remote, index, status, work>> /\ request.todo # <<>>
  BY DEF Requeue, trees
<1>2. Entries(task, request.todo) /\ Entries(task, queue)
  BY DEF IInv, RequestInv, QueueInv
<1> DEFINE it == Head(request.todo)
<1>3. Entry(task, it) /\ Entries(task, Tail(request.todo))
  BY <1>1, <1>2, TailEntries
<1>4. it.attempt \in 0..MaxAttempts /\ "queued" \in ItemStatus
  BY <1>3 DEF Entry, ItemOK, ItemStatus, Executable
<1>5. queue' = Reschedule(queue, it.id, "queued", it.attempt)
  BY DEF Requeue
<1> HIDE DEF it
<1>6. Entries(task, queue')
  BY <1>2, <1>4, <1>5, UpdateEntries
<1>7. RequestInv'
  <2>1. request' \in {NoRequest, [request EXCEPT !.todo = Tail(request.todo)]}
    BY DEF Requeue
  <2>2. CASE request' = NoRequest
    BY <2>2, NoRequestEntries, Kept DEF RequestInv, NoRequest
  <2>3. CASE request' = [request EXCEPT !.todo = Tail(request.todo)]
    <3> DEFINE rest == Tail(request.todo)
               r == [request EXCEPT !.todo = rest]
    <3> HIDE DEF rest
    <3>1. r = [failure |-> request.failure, todo |-> rest]
      BY DEF IInv, RequestInv
    <3>2. Entries(task, rest)
      BY <1>3 DEF rest
    <3>3. request' = r
      BY <2>3 DEF rest
    <3> HIDE DEF r
    <3> QED BY <3>1, <3>2, <3>3, Kept DEF RequestInv
  <2> QED BY <2>1, <2>2, <2>3
<1> QED BY <1>1, <1>6, <1>7, Kept DEF IInv

LEMMA RestartStep ==
  ASSUME IInv, UNCHANGED scene, NEW q, Entries(task, q), Restart(q), Tree(local') PROVE IInv'
<1> DEFINE idx == {i \in DOMAIN q : Unfinished(q[i])}
<1>1. /\ UNCHANGED <<remote, index, status>> /\ queue' = Selected(q, idx)
      /\ work' = [w \in Workers |-> Idle] /\ request' = NoRequest
  BY DEF Restart, trees, tables
<1>2. idx \in SUBSET DOMAIN q
  OBVIOUS
<1> HIDE DEF idx
<1>3. QueueInv'
  BY <1>1, <1>2, SelectedEntries, Kept
<1>4. RequestInv'
  BY <1>1, NoRequestEntries, Kept DEF RequestInv, NoRequest
<1>5. WorkInv'
  BY <1>1, IdleOK, Kept DEF WorkInv
<1>6. TreesInv'
  BY <1>1 DEF IInv, TreesInv
<1> QED BY <1>1, <1>3, <1>4, <1>5, <1>6, Kept DEF IInv

LEMMA CrashFetchingStep ==
  ASSUME IInv, UNCHANGED scene, NEW w \in Workers, Crash \/ CrashFetching(w) PROVE IInv'
<1>1. Restart(queue) /\ Entries(task, queue) /\ Tree(local)
  BY DEF Crash, CrashFetching, IInv, QueueInv, TreesInv
<1>2. CASE Crash
  BY <1>1, <1>2, RestartStep DEF Crash
<1>3. CASE CrashFetching(w)
  <2>1. IsSeq(Cur(w).act.lp)
    BY <1>3, Hand DEF CrashFetching, At, Handling, PlannedAct
  <2>2. Tree(local')
    BY <1>1, <1>3, <2>1, LocalCalls DEF CrashFetching
  <2> QED BY <1>1, <2>2, RestartStep
<1> QED BY <1>2, <1>3

\* What a kill leaves of a plan is a plan.
LEMMA CrashPlan ==
  ASSUME IInv, NEW w \in Workers, CrashEnqueueing(w)
  PROVE  At(w, "snap") /\ \E first : PlannedSeq(task, first) /\ Restart(Enqueue(first))
<1>1. PICK plan \in PlansFrom(w, remote) :
        \E n \in 1..(Len(plan) - 1) : Restart(Enqueue(SubSeq(plan, 1, n)))
  BY DEF CrashEnqueueing
<1>2. PICK n \in 1..(Len(plan) - 1) : Restart(Enqueue(SubSeq(plan, 1, n)))
  BY <1>1
<1> DEFINE first == SubSeq(plan, 1, n)
<1>3. PlannedSeq(task, plan)
  BY RunPlans DEF CrashEnqueueing, IInv, TreesInv
<1>4. PlannedSeq(task, first)
  <2>1. IsSeq(plan) /\ Len(plan) \in Nat /\ DOMAIN plan = 1..Len(plan) /\ plan \in Seq(Range(plan))
    BY <1>3, IsSeqDomain DEF PlannedSeq
  <2>2. n \in Nat /\ n <= Len(plan)
    BY <2>1
  <2>3. IsSeq(first)
    BY <2>1, <2>2, SubSeqIsSeq
  <2>4. Len(first) = n /\ \A i \in 1..n : first[i] = plan[i]
    BY <2>1, <2>2, SubSeqProperties, ElementOfSeq
  <2>5. DOMAIN first = 1..n
    BY <2>3, <2>4, IsSeqDomain
  <2> HIDE DEF first
  <2>6. \A i \in DOMAIN first : i \in DOMAIN plan /\ first[i] = plan[i]
    BY <2>1, <2>2, <2>4, <2>5
  <2> QED BY <1>3, <2>3, <2>6 DEF PlannedSeq
<1>5. At(w, "snap")
  BY DEF CrashEnqueueing
<1> QED BY <1>2, <1>4, <1>5

LEMMA CrashEnqueueingStep ==
  ASSUME IInv, UNCHANGED scene, NEW w \in Workers, CrashEnqueueing(w) PROVE IInv'
<1>1. PICK first : PlannedSeq(task, first) /\ Restart(Enqueue(first))
  BY CrashPlan
<1>2. Entries(task, Enqueue(first))
  BY <1>1, EnqueueEntries
<1>3. Tree(local')
  BY DEF CrashEnqueueing, IInv, TreesInv
<1> QED BY <1>1, <1>2, <1>3, RestartStep

----------------------------------------------------------------------------
(* The theorems.                                                           *)

LEMMA InitIInv == Init => IInv
<1> SUFFICES ASSUME Init PROVE IInv
  OBVIOUS
<1>1. scene \in Scenarios /\ local \in scene.trees /\ remote \in scene.trees
  BY DEF Init
<1>2. TreesInv
  BY <1>1, SyncAssumption DEF TreesInv, Tree, Scenario
<1>3. IndexInv
  BY EmptyIsSeq DEF IndexInv, Init
<1>4. QueueInv
  BY EmptyEntries DEF QueueInv, Init
<1>5. WorkInv
  BY IdleOK DEF WorkInv, Init
<1>6. RequestInv
  BY NoRequestEntries DEF RequestInv, NoRequest, Init
<1>7. status \in Statuses
  BY DEF Init, Statuses
<1> QED BY <1>1, <1>2, <1>3, <1>4, <1>5, <1>6, <1>7 DEF IInv

LEMMA NextIInv == IInv /\ [Next]_vars => IInv'
<1> SUFFICES ASSUME IInv, [Next]_vars PROVE IInv'
  OBVIOUS
<1>1. CASE UNCHANGED vars
  <2>1. UNCHANGED <<scene, local, remote, index, queue, status, work, request>>
    BY <1>1 DEF vars
  <2> QED BY <2>1, Kept DEF IInv
<1>2. CASE Next
  <2>1. Step /\ UNCHANGED scene
    BY <1>2 DEF Next, Recorded
  <2>2. ASSUME NEW w \in Workers, UNCHANGED <<scene, request>>,
               BeginRun(w) \/ ListDue(w) \/ Progress(w) \/ Faults(w)
        PROVE  IInv'
    <3>1. CASE BeginRun(w)
      BY <2>2, <3>1, BeginRunStep
    <3>2. CASE PlanRun(w) \/ PlanBlind(w) \/ PlanMisled(w)
      BY <2>2, <3>2, SeenIsTree, PlannedStep
    <3>3. CASE PlanFails(w) \/ PlanFault(w)
      BY <2>2, <3>3, PlanErrorStep DEF PlanFails, PlanFault
    <3>4. CASE List(w) \/ ListDue(w)
      BY <2>2, <3>4, ListStep
    <3>5. CASE Skip(w)
      BY <2>2, <3>5, SkipStep
    <3>6. CASE Claim(w)
      BY <2>2, <3>6, ClaimStep
    <3>7. CASE Effect(w) \/ HttpStatus(w)
      BY <2>2, <3>7, EffectStep
    <3>8. CASE EffectFails(w) \/ WriteRefused(w) \/ Transport(w) \/ LostReply(w) \/ CutBody(w)
      BY <2>2, <3>8, FailingStep
    <3>9. CASE Write(w) \/ WriteSource(w) \/ WriteTarget(w)
      BY <2>2, <3>9, WriteStep
    <3>10. CASE Dequeue(w)
      BY <2>2, <3>10, DequeueStep
    <3>11. CASE Refuse(w)
      BY <2>2, <3>11, RefuseStep
    <3>12. CASE Finish(w)
      BY <2>2, <3>12, FinishStep
    <3> QED
      BY <2>2, <3>1, <3>2, <3>3, <3>4, <3>5, <3>6, <3>7, <3>8, <3>9, <3>10, <3>11, <3>12
         DEF Progress, Faults
  <2>3. CASE UserEdit /\ UNCHANGED request
    BY <2>1, <2>3, EditStep
  <2>4. CASE Start /\ UNCHANGED request
    BY <2>1, <2>4, StartStep
  <2>5. CASE RetryFailures /\ UNCHANGED request
    BY <2>1, <2>5, RetryFailuresStep
  <2>6. CASE \E f \in failures : RetryFailureByID(f)
    BY <2>1, <2>6, RetryByIDStep
  <2>7. CASE Requeue
    BY <2>1, <2>7, RequeueStep
  <2>8. CASE \E w \in Workers : Crash \/ CrashFetching(w)
    BY <2>1, <2>8, CrashFetchingStep
  <2>9. CASE \E w \in Workers : CrashEnqueueing(w)
    BY <2>1, <2>9, CrashEnqueueingStep
  <2> QED
    BY <2>1, <2>2, <2>3, <2>4, <2>5, <2>6, <2>7, <2>8, <2>9, SyncAssumption DEF Step
<1> QED BY <1>1, <1>2

LEMMA IInvHolds == Spec => []IInv
BY InitIInv, NextIInv, PTL DEF Spec

\* Rows, items and workers are well formed in every reachable state, for any
\* number of workers, any finite trees and any scenarios.
THEOREM SyncTypeCorrect == Spec => []TypeOK
BY IInvHolds, IInvImplies, PTL

\* However the actions of concurrent workers, retries and kills are mixed, a row
\* of the file index has the sync_state its flags imply, and no tombstone sits on
\* a row that says both sides exist.
THEOREM IndexStaysConsistent == Spec => []IndexConsistent
BY IInvHolds, IInvImplies, PTL

----------------------------------------------------------------------------
(* One-way tasks.                                                          *)

Budgets   == [edits : Nat, faults : Nat, crashes : Nat, retries : Nat]
BudgetInv == budget \in Budgets

\* The budget counts down.
LEMMA BudgetHolds == Spec => []BudgetInv
<1>1. Init => BudgetInv
  BY SyncAssumption DEF Init, Scenario, Budgets, BudgetInv
<1>2. ASSUME budget \in Budgets, [Next]_vars PROVE budget' \in Budgets
  <2>1. /\ budget.faults > 0 => [budget EXCEPT !.faults = budget.faults - 1] \in Budgets
        /\ budget.edits > 0 => [budget EXCEPT !.edits = budget.edits - 1] \in Budgets
        /\ budget.crashes > 0 => [budget EXCEPT !.crashes = budget.crashes - 1] \in Budgets
        /\ budget.retries > 0 => [budget EXCEPT !.retries = budget.retries - 1] \in Budgets
    BY <1>2 DEF Budgets
  <2>2. \/ budget' = budget
        \/ budget.faults > 0 /\ budget' = [budget EXCEPT !.faults = budget.faults - 1]
        \/ budget.edits > 0 /\ budget' = [budget EXCEPT !.edits = budget.edits - 1]
        \/ budget.crashes > 0 /\ budget' = [budget EXCEPT !.crashes = budget.crashes - 1]
        \/ budget.retries > 0 /\ budget' = [budget EXCEPT !.retries = budget.retries - 1]
    <3>1. CASE UNCHANGED vars
      BY <3>1 DEF vars
    <3>2. ASSUME NEW w \in Workers, BeginRun(w) \/ ListDue(w) \/ Progress(w) PROVE budget' = budget
      BY <3>2 DEF BeginRun, ListDue, Progress, PlanRun, PlanFails, List, Skip, Claim, Effect, EffectFails,
                  Write, WriteSource, WriteTarget, WriteRefused, Dequeue, Refuse, Finish
    <3>3. ASSUME NEW w \in Workers, Faults(w) PROVE Spend
      BY <3>3 DEF Faults, PlanFault, PlanBlind, PlanMisled, Transport, LostReply, CutBody, HttpStatus
    <3>4. UserEdit => budget.edits > 0 /\ budget' = [budget EXCEPT !.edits = budget.edits - 1]
      BY DEF UserEdit, LocalWrite, RemoteWrite, LocalRemove, RemoteRemove, LocalRename, Edit
    <3>5. Start \/ Requeue => budget' = budget
      BY DEF Start, Requeue
    <3>6. RetryFailures \/ (\E f \in failures : RetryFailureByID(f)) => Retry
      BY DEF RetryFailures, RetryFailureByID
    <3>7. Crash \/ (\E w \in Workers : CrashEnqueueing(w) \/ CrashFetching(w)) =>
            budget.crashes > 0 /\ budget' = [budget EXCEPT !.crashes = budget.crashes - 1]
      BY DEF Crash, CrashEnqueueing, CrashFetching, Restart
    <3>8. Spend => budget.faults > 0 /\ budget' = [budget EXCEPT !.faults = budget.faults - 1]
      BY DEF Spend
    <3>9. Retry => budget.retries > 0 /\ budget' = [budget EXCEPT !.retries = budget.retries - 1]
      BY DEF Retry
    <3>10. CASE Next
      BY <3>2, <3>3, <3>4, <3>5, <3>6, <3>7, <3>8, <3>9, <3>10 DEF Next, Step
    <3> QED BY <1>2, <3>1, <3>10
  <2> QED BY <1>2, <2>1, <2>2
<1>3. BudgetInv /\ [Next]_vars => BudgetInv'
  BY <1>2 DEF BudgetInv
<1> QED BY <1>1, <1>3, PTL DEF Spec

\* The calls that remove nothing.
LEMMA Growing ==
  ASSUME NEW t, NEW p, NEW c
  PROVE  /\ DOMAIN t \subseteq DOMAIN osMkdirAll(t, p) /\ DOMAIN t \subseteq DOMAIN osCreate(t, p, c)
         /\ DOMAIN t \subseteq DOMAIN davMkcol(t, p) /\ DOMAIN t \subseteq DOMAIN davPut(t, p, c)
<1>1. \A u, q, x : DOMAIN u \subseteq DOMAIN With(u, q, x)
  BY DEF With, Over
<1>2. \A u, ps : DOMAIN u \subseteq DOMAIN WithDirs(u, ps)
  BY DEF WithDirs, Over
<1>3. DOMAIN t \subseteq DOMAIN osMkdirAll(t, p)
  BY <1>2 DEF osMkdirAll
<1>4. DOMAIN t \subseteq DOMAIN osCreate(t, p, c)
  <2> DEFINE u == WithDirs(t, Ancestors(p))
  <2>1. DOMAIN t \subseteq DOMAIN u
    BY <1>2
  <2> HIDE DEF u
  <2>2. DOMAIN u \subseteq DOMAIN With(u, p, c)
    BY <1>1
  <2> QED BY <2>1, <2>2 DEF osCreate, u
<1>5. DOMAIN t \subseteq DOMAIN davMkcol(t, p)
  BY <1>2 DEF davMkcol
<1>6. DOMAIN t \subseteq DOMAIN davPut(t, p, c)
  BY <1>1 DEF davPut
<1> QED BY <1>3, <1>4, <1>5, <1>6

\* What an action of a one-way plan does to the two sides.
LEMMA OneWayAct ==
  ASSUME NEW a, PlannedAct(task, a)
  PROVE  /\ task.direction = "upload" =>
              /\ a.op \notin FetchOps /\ a.op # "move_local" /\ LocalAfter(a) = local
              /\ ~task.mirror => DOMAIN remote \subseteq DOMAIN RemoteAfter(a)
         /\ task.direction = "download" =>
              /\ a.op \notin RemoteOps /\ a.op # "move_local" /\ RemoteAfter(a) = remote
              /\ ~task.mirror => DOMAIN local \subseteq DOMAIN LocalAfter(a)
<1>1. CASE task.direction = "upload"
  <2>1. a.op \in UploadOps /\ (~task.mirror => a.op # "delete_remote")
    BY <1>1 DEF PlannedAct, UploadOps, DeleteOps
  <2>2. a.op \notin FetchOps /\ a.op # "move_local" /\ LocalAfter(a) = local
    BY <2>1 DEF UploadOps, FetchOps, LocalAfter
  <2>3. ~task.mirror => RemoteAfter(a) \in {davMkcol(remote, a.rp), davPut(remote, a.rp, local[a.lp])}
    BY <2>1 DEF UploadOps, RemoteAfter
  <2> DEFINE c == local[a.lp]
  <2>4. DOMAIN remote \subseteq DOMAIN davMkcol(remote, a.rp) /\ DOMAIN remote \subseteq DOMAIN davPut(remote, a.rp, c)
    BY Growing
  <2> QED BY <1>1, <2>2, <2>3, <2>4
<1>2. CASE task.direction = "download"
  <2> DEFINE c == davGet(remote, a.rp)
  <2>1. a.op \in DownloadOps /\ (~task.mirror => a.op # "delete_local")
    BY <1>2 DEF PlannedAct, DownloadOps, DeleteOps
  <2>2. a.op \notin RemoteOps /\ a.op # "move_local" /\ RemoteAfter(a) = remote
    BY <2>1 DEF DownloadOps, RemoteOps, RemoteAfter
  <2>3. ~task.mirror => LocalAfter(a) \in {osMkdirAll(local, a.lp), osCreate(local, a.lp, c)}
    BY <2>1 DEF DownloadOps, LocalAfter
  <2>4. DOMAIN local \subseteq DOMAIN osMkdirAll(local, a.lp) /\ DOMAIN local \subseteq DOMAIN osCreate(local, a.lp, c)
    BY Growing
  <2> QED BY <1>2, <2>2, <2>3, <2>4
<1> QED BY <1>1, <1>2

\* A worker executes an item, or is killed over it.
Executing(w) ==
  Effect(w) \/ EffectFails(w) \/ LostReply(w) \/ CutBody(w) \/ HttpStatus(w) \/ CrashFetching(w)

\* Apart from users, only a worker that executes an item changes the trees.
LEMMA TreeChanges ==
  ASSUME budget \in Budgets, Next, budget'.edits = budget.edits
  PROVE  \/ UNCHANGED <<local, remote>>
         \/ \E w \in Workers : Executing(w)
<1>1. ~UserEdit
  <2>1. [budget EXCEPT !.edits = budget.edits - 1].edits # budget.edits
    BY DEF Budgets
  <2> QED
    BY <2>1 DEF UserEdit, LocalWrite, RemoteWrite, LocalRemove, RemoteRemove, LocalRename, Edit
<1>2. ASSUME NEW w \in Workers,
             \/ BeginRun(w) \/ ListDue(w) \/ PlanRun(w) \/ PlanFails(w) \/ List(w) \/ Skip(w) \/ Claim(w)
             \/ Write(w) \/ WriteSource(w) \/ WriteTarget(w) \/ WriteRefused(w) \/ Dequeue(w) \/ Refuse(w)
             \/ Finish(w) \/ PlanFault(w) \/ PlanBlind(w) \/ PlanMisled(w) \/ Transport(w)
      PROVE  UNCHANGED <<local, remote>>
  BY <1>2 DEF BeginRun, ListDue, PlanRun, PlanFails, List, Skip, Claim, Write, WriteSource, WriteTarget,
              WriteRefused, Dequeue, Refuse, Finish, PlanFault, PlanBlind, PlanMisled, Transport, Planned,
              PlanError, trees
<1>3. ASSUME Start \/ RetryFailures \/ Requeue \/ Crash \/ (\E f \in failures : RetryFailureByID(f))
               \/ (\E w \in Workers : CrashEnqueueing(w))
      PROVE  UNCHANGED <<local, remote>>
  BY <1>3 DEF Start, RetryFailures, Requeue, Crash, RetryFailureByID, CrashEnqueueing, Restart, trees
<1> QED BY <1>1, <1>2, <1>3 DEF Next, Step, Progress, Faults, Executing

\* Only users change the side a one-way task copies from.
LEMMA OneWayNext ==
  ASSUME IInv, budget \in Budgets, Next, budget'.edits = budget.edits PROVE OneWayStep
<1>1. CASE UNCHANGED <<local, remote>>
  BY <1>1 DEF OneWayStep
<1>2. ASSUME NEW w \in Workers,
             Executing(w)
      PROVE  OneWayStep
  <2> DEFINE a == Cur(w).act
  <2>1. PlannedAct(task, a)
    BY <1>2, Hand DEF Executing, Effect, EffectFails, LostReply, CutBody, HttpStatus, CrashFetching, At, Handling
  <2>2. CASE Effect(w)
    BY <2>1, <2>2, OneWayAct DEF Effect, OneWayStep
  <2>3. CASE LostReply(w)
    BY <2>1, <2>3, OneWayAct DEF LostReply, OneWayStep
  <2>4. CASE EffectFails(w)
    <3>1. remote' = remote /\ (a.op # "move_local" => local' = local)
      BY <2>4 DEF EffectFails
    <3> QED BY <2>1, <3>1, OneWayAct DEF OneWayStep
  <2>5. CASE CutBody(w) \/ HttpStatus(w) \/ CrashFetching(w)
    <3>1. remote' = remote
      BY <2>5 DEF CutBody, HttpStatus, CrashFetching, Restart
    <3>2. local' = local \/ (a.op \in FetchOps /\ \E c : local' = osCreate(local, a.lp, c))
      BY <2>5 DEF CutBody, HttpStatus, CrashFetching
    <3>3. DOMAIN local \subseteq DOMAIN local'
      BY <3>2, Growing
    <3>4. task.direction = "upload" => local' = local
      BY <2>1, <3>2, OneWayAct
    <3> QED BY <3>1, <3>3, <3>4 DEF OneWayStep
  <2> QED BY <1>2, <2>2, <2>3, <2>4, <2>5 DEF Executing
<1> QED BY <1>1, <1>2, TreeChanges

\* A one-way task never writes to the side it copies from, and removes nothing
\* from the other side unless it mirrors deletes: for any trees, any number of
\* workers and whatever faults and kills there are.
THEOREM OneWayHolds == Spec => OneWay
<1>1. ASSUME IInv, BudgetInv, [Next]_vars, budget'.edits = budget.edits
      PROVE  OneWayStep
  <2>1. CASE UNCHANGED vars
    BY <2>1 DEF vars, OneWayStep
  <2> QED BY <1>1, <2>1, OneWayNext DEF BudgetInv
<1>2. IInv /\ BudgetInv /\ [Next]_vars =>
        [budget'.edits = budget.edits => OneWayStep]_vars
  BY <1>1
<1> QED BY <1>2, IInvHolds, BudgetHolds, PTL DEF Spec, OneWay

----------------------------------------------------------------------------
(* What each step makes of the worker that takes it.                       *)

\* The worker w is at pc with the items todo.
Stands(wk, w, pc, todo) == wk[w].pc = pc /\ wk[w].todo = todo

LEMMA WorkAfter ==
  ASSUME IInv, UNCHANGED scene, NEW w \in Workers
  PROVE  /\ BeginRun(w) => Stands(work', w, "snap", <<>>)
         /\ (\E seen : Planned(w, seen)) => Stands(work', w, "list", work[w].todo)
         /\ PlanError(w) \/ Finish(w) \/ FailRun(w) => Stands(work', w, "idle", <<>>)
         /\ List(w) => Stands(work', w, "next", Selected(queue, ListExecutable))
         /\ ListDue(w) => \E due \in SUBSET ListExecutable : Stands(work', w, "next", Selected(queue, due))
         /\ Skip(w) => Stands(work', w, "dequeue", work[w].todo)
         /\ Claim(w) => Stands(work', w, "exec", work[w].todo)
         /\ At(w, "exec") /\ Loaded(w) => /\ Stands(work', w, "write", work[w].todo)
                                          /\ work'[w].prev = RowOf(index, Cur(w).act.rel)
                                          /\ work'[w].src = RowOf(index, Cur(w).act.src)
         /\ WriteSource(w) => /\ Stands(work', w, "target", work[w].todo)
                              /\ work'[w].prev = work[w].prev /\ work'[w].src = work[w].src
         /\ Write(w) \/ WriteTarget(w) => Stands(work', w, "dequeue", work[w].todo)
         /\ Dequeue(w) => Stands(work', w, "next", Tail(work[w].todo))
         /\ work[w].todo # <<>> /\ Retried(w) => Stands(work', w, "next", Tail(work[w].todo))
<1>0. /\ work = [v \in Workers |-> work[v]] /\ WorkerOK(task, work[w])
      /\ work[w].pc \in Handling => work[w].todo # <<>>
      /\ work[w].todo # <<>> => Entries(task, Tail(work[w].todo))
      /\ work[w].mode \in {"run", "ops"} /\ Lookup(NoRow) /\ Entries(task, queue) /\ Entries(task, <<>>)
      /\ ListExecutable \in SUBSET DOMAIN queue
  BY Hand, WorkerFields, NoRowLookup, EmptyEntries DEF IInv, WorkInv, QueueInv, ListExecutable
<1>1. BeginRun(w) => Stands(work', w, "snap", <<>>)
  <2> SUFFICES ASSUME BeginRun(w) PROVE Stands(work', w, "snap", <<>>)
    OBVIOUS
  <2>1. work'[w] = Working("snap", "run", status, local, <<>>)
    BY <1>0 DEF BeginRun, snapshotLocal
  <2> QED BY <2>1 DEF Working, Stands
<1>2. (\E seen : Planned(w, seen)) => Stands(work', w, "list", work[w].todo)
  <2> SUFFICES ASSUME NEW seen, Planned(w, seen) PROVE Stands(work', w, "list", work[w].todo)
    OBVIOUS
  <2>1. work'[w] = [work[w] EXCEPT !.pc = "list", !.snap = <<>>]
    BY <1>0 DEF Planned
  <2>2. work'[w] = Record("list", work[w].mode, work[w].st, <<>>, work[w].todo, work[w].prev, work[w].src)
    BY <1>0, <2>1, StepToList
  <2> QED BY <2>2, RecordFields DEF Stands
<1>3. PlanError(w) \/ Finish(w) \/ FailRun(w) => Stands(work', w, "idle", <<>>)
  <2> SUFFICES ASSUME PlanError(w) \/ Finish(w) \/ FailRun(w) PROVE Stands(work', w, "idle", <<>>)
    OBVIOUS
  <2>1. work' = [work EXCEPT ![w] = Idle]
    BY Zenon DEF PlanError, Finish, FailRun
  <2>2. work'[w] = Idle
    BY <1>0, <2>1
  <2> QED BY <2>2 DEF Stands, Idle, Working
<1>4. List(w) => Stands(work', w, "next", Selected(queue, ListExecutable))
  <2> SUFFICES ASSUME List(w) PROVE Stands(work', w, "next", Selected(queue, ListExecutable))
    OBVIOUS
  <2> DEFINE todo == Selected(queue, ListExecutable)
  <2>1. work'[w] = [work[w] EXCEPT !.pc = "next", !.todo = todo]
    BY <1>0 DEF List
  <2>2. Entries(task, todo)
    BY <1>0, SelectedEntries
  <2> HIDE DEF todo
  <2>3. work'[w] = Record("next", work[w].mode, work[w].st, work[w].snap, todo, work[w].prev, work[w].src)
    BY <1>0, <2>1, <2>2, StepToNext
  <2>4. Stands(work', w, "next", todo)
    BY <2>3, RecordFields DEF Stands
  <2> QED BY <2>4 DEF todo
<1>5. ListDue(w) => \E due \in SUBSET ListExecutable : Stands(work', w, "next", Selected(queue, due))
  <2> SUFFICES ASSUME ListDue(w)
               PROVE  \E due \in SUBSET ListExecutable : Stands(work', w, "next", Selected(queue, due))
    OBVIOUS
  <2>1. PICK due \in SUBSET ListExecutable :
          work' = [work EXCEPT ![w] = Working("next", "ops", "running", <<>>, Selected(queue, due))]
    BY DEF ListDue
  <2> DEFINE todo == Selected(queue, due)
  <2>2. work'[w] = Working("next", "ops", "running", <<>>, todo)
    BY <1>0, <2>1
  <2> HIDE DEF todo
  <2>3. Stands(work', w, "next", todo)
    BY <2>2 DEF Stands, Working
  <2> QED BY <2>3 DEF todo
<1>6. Skip(w) => Stands(work', w, "dequeue", work[w].todo)
  <2> SUFFICES ASSUME Skip(w) PROVE Stands(work', w, "dequeue", work[w].todo)
    OBVIOUS
  <2>1. work'[w] = [work[w] EXCEPT !.pc = "dequeue"] /\ work[w].todo # <<>>
    BY <1>0 DEF Skip, Pending
  <2>2. work'[w] = Record("dequeue", work[w].mode, work[w].st, work[w].snap, work[w].todo, work[w].prev, work[w].src)
    BY <1>0, <2>1, StepTo
  <2> QED BY <2>2, RecordFields DEF Stands
<1>7. Claim(w) => Stands(work', w, "exec", work[w].todo)
  <2> SUFFICES ASSUME Claim(w) PROVE Stands(work', w, "exec", work[w].todo)
    OBVIOUS
  <2>1. work'[w] = [work[w] EXCEPT !.pc = "exec"] /\ work[w].todo # <<>>
    BY <1>0 DEF Claim, Pending
  <2>2. work'[w] = Record("exec", work[w].mode, work[w].st, work[w].snap, work[w].todo, work[w].prev, work[w].src)
    BY <1>0, <2>1, StepTo
  <2> QED BY <2>2, RecordFields DEF Stands
<1>8. At(w, "exec") /\ Loaded(w) => /\ Stands(work', w, "write", work[w].todo)
                                    /\ work'[w].prev = RowOf(index, Cur(w).act.rel)
                                    /\ work'[w].src = RowOf(index, Cur(w).act.src)
  <2> SUFFICES ASSUME At(w, "exec"), Loaded(w)
               PROVE  /\ Stands(work', w, "write", work[w].todo)
                      /\ work'[w].prev = RowOf(index, Cur(w).act.rel)
                      /\ work'[w].src = RowOf(index, Cur(w).act.src)
    OBVIOUS
  <2> DEFINE prev == RowOf(index, Cur(w).act.rel)
             src == RowOf(index, Cur(w).act.src)
  <2>1. Lookup(prev) /\ Lookup(src) /\ work[w].todo # <<>>
    BY <1>0, RowOfLookup DEF At, Handling
  <2>2. work' = [work EXCEPT ![w].pc = "write", ![w].prev = prev, ![w].src = src]
    BY DEF Loaded
  <2> HIDE DEF prev, src
  <2>6. work'[w] = [work[w] EXCEPT !.pc = "write", !.prev = prev, !.src = src]
    BY <1>0, <2>2
  <2> HIDE DEF prev, src
  <2>3. work'[w] = Record("write", work[w].mode, work[w].st, work[w].snap, work[w].todo, prev, src)
    <3>1. work[w] \in [pc : {work[w].pc}, mode : {work[w].mode}, st : {work[w].st}, snap : {work[w].snap},
                      todo : {work[w].todo}, prev : {work[w].prev}, src : {work[w].src}]
      BY <1>0, WorkerFields
    <3>2. work'[w] \in [pc : {"write"}, mode : {work[w].mode}, st : {work[w].st}, snap : {work[w].snap},
                       todo : {work[w].todo}, prev : {prev}, src : {src}]
      BY <2>6, <3>1
    <3> QED BY <3>2 DEF Record
  <2>4. Stands(work', w, "write", work[w].todo) /\ work'[w].prev = prev /\ work'[w].src = src
    BY <2>3, RecordFields DEF Stands
  <2> QED BY <2>4 DEF prev, src
<1>9. WriteSource(w) => /\ Stands(work', w, "target", work[w].todo)
                        /\ work'[w].prev = work[w].prev /\ work'[w].src = work[w].src
  <2> SUFFICES ASSUME WriteSource(w)
               PROVE  /\ Stands(work', w, "target", work[w].todo)
                      /\ work'[w].prev = work[w].prev /\ work'[w].src = work[w].src
    OBVIOUS
  <2>1. work'[w] = [work[w] EXCEPT !.pc = "target"] /\ work[w].todo # <<>>
    BY <1>0 DEF WriteSource, At, Handling
  <2>2. work'[w] = Record("target", work[w].mode, work[w].st, work[w].snap, work[w].todo, work[w].prev, work[w].src)
    BY <1>0, <2>1, StepTo
  <2> QED BY <2>2, RecordFields DEF Stands
<1>10. Write(w) \/ WriteTarget(w) => Stands(work', w, "dequeue", work[w].todo)
  <2> SUFFICES ASSUME Write(w) \/ WriteTarget(w) PROVE Stands(work', w, "dequeue", work[w].todo)
    OBVIOUS
  <2>1. work' = Written(w) /\ work[w].todo # <<>>
    BY <1>0 DEF Write, WriteTarget, At, Handling
  <2>2. work'[w] = [work[w] EXCEPT !.pc = "dequeue", !.prev = NoRow, !.src = NoRow]
    BY <1>0, <2>1 DEF Written
  <2>3. work'[w] = Record("dequeue", work[w].mode, work[w].st, work[w].snap, work[w].todo, NoRow, NoRow)
    <3>1. work[w] \in [pc : {work[w].pc}, mode : {work[w].mode}, st : {work[w].st}, snap : {work[w].snap},
                      todo : {work[w].todo}, prev : {work[w].prev}, src : {work[w].src}]
      BY <1>0, WorkerFields
    <3>2. work'[w] \in [pc : {"dequeue"}, mode : {work[w].mode}, st : {work[w].st}, snap : {work[w].snap},
                       todo : {work[w].todo}, prev : {NoRow}, src : {NoRow}]
      BY <2>2, <3>1
    <3> QED BY <3>2 DEF Record
  <2> QED BY <2>3, RecordFields DEF Stands
<1>11. Dequeue(w) => Stands(work', w, "next", Tail(work[w].todo))
  <2> SUFFICES ASSUME Dequeue(w) PROVE Stands(work', w, "next", Tail(work[w].todo))
    OBVIOUS
  <2> DEFINE todo == Tail(work[w].todo)
  <2>1. work'[w] = [work[w] EXCEPT !.pc = "next", !.todo = todo]
    BY <1>0 DEF Dequeue
  <2>2. Entries(task, todo)
    BY <1>0 DEF Dequeue, At, Handling
  <2> HIDE DEF todo
  <2>3. work'[w] = Record("next", work[w].mode, work[w].st, work[w].snap, todo, work[w].prev, work[w].src)
    BY <1>0, <2>1, <2>2, StepToNext
  <2>4. Stands(work', w, "next", todo)
    BY <2>3, RecordFields DEF Stands
  <2> QED BY <2>4 DEF todo
<1>12. work[w].todo # <<>> /\ Retried(w) => Stands(work', w, "next", Tail(work[w].todo))
  <2> SUFFICES ASSUME work[w].todo # <<>>, Retried(w) PROVE Stands(work', w, "next", Tail(work[w].todo))
    OBVIOUS
  <2> DEFINE todo == Tail(work[w].todo)
  <2>1. work'[w] = Working("next", work[w].mode, work[w].st, work[w].snap, todo)
    BY <1>0 DEF Retried, Skipping
  <2> HIDE DEF todo
  <2>2. Stands(work', w, "next", todo)
    BY <2>1 DEF Working, Stands
  <2> QED BY <2>2 DEF todo
<1> QED
  BY <1>1, <1>2, <1>3, <1>4, <1>5, <1>6, <1>7, <1>8, <1>9, <1>10, <1>11, <1>12

\* Users, requests and kills leave the workers alone or idle, and never write
\* the index.
LEMMA EnvironmentWork ==
  ASSUME \/ UserEdit \/ Start \/ RetryFailures \/ (\E f : RetryFailureByID(f)) \/ Requeue \/ Crash
         \/ (\E w \in Workers : CrashEnqueueing(w) \/ CrashFetching(w))
  PROVE  index' = index /\ (work' = work \/ work' = [w \in Workers |-> Idle])
<1>1. CASE UserEdit
  BY <1>1 DEF UserEdit, LocalWrite, RemoteWrite, LocalRemove, RemoteRemove, LocalRename, Edit, tables
<1>2. CASE Start \/ RetryFailures \/ Requeue \/ \E f : RetryFailureByID(f)
  BY <1>2 DEF Start, RetryFailures, Requeue, RetryFailureByID, tables
<1>3. CASE Crash \/ \E w \in Workers : CrashEnqueueing(w) \/ CrashFetching(w)
  BY <1>3 DEF Crash, CrashEnqueueing, CrashFetching, Restart, tables
<1> QED BY <1>1, <1>2, <1>3

----------------------------------------------------------------------------
(* Runs that fail.                                                         *)

\* Planning fails on a file that cannot be read any more, or on a synced directory
\* the listing does not have.
LEMMA PlanFailure ==
  ASSUME NEW tk, NEW snap, NEW loc, NEW rem, NEW idx, PlanMayFail(tk, snap, loc, rem, idx)
  PROVE  \E p \in DOMAIN snap : \/ snap[p] # Dir /\ ~readable(loc, p)
                                \/ snap[p] = Dir /\ ~Has(rem, p) /\ isMoveCandidate(RowOf(idx, p))
<1>1. CASE ~comparesReadable(snap, loc, rem)
  BY <1>1 DEF comparesReadable
<1>2. CASE \E n \in remoteMoveTargets(snap, rem) : ~readable(loc, n)
  BY <1>2 DEF remoteMoveTargets
<1>3. ASSUME NEW r, \E o \in localMoveSources(snap, rem, idx, Matched(r, 2)) : ~readable(loc, o)
      PROVE  \E p \in DOMAIN snap : \/ snap[p] # Dir /\ ~readable(loc, p)
                                    \/ snap[p] = Dir /\ ~Has(rem, p) /\ isMoveCandidate(RowOf(idx, p))
  <2>1. PICK o \in localMoveSources(snap, rem, idx, Matched(r, 2)) : ~readable(loc, o)
    BY <1>3
  <2>2. o \in DOMAIN snap /\ ~Has(rem, o) /\ isMoveCandidate(RowOf(idx, o))
    BY <2>1 DEF localMoveSources, Has
  <2> QED BY <2>1, <2>2
<1> QED BY <1>1, <1>2, <1>3, Zenon DEF PlanMayFail

\* Nothing but planning gives a task the status failed.
LEMMA OnlyPlanFails ==
  ASSUME Next, ~Spend, status' = "failed", status # "failed"
  PROVE  \E w \in Workers : PlanFails(w)
<1>1. ASSUME NEW w \in Workers,
             \/ BeginRun(w) \/ ListDue(w) \/ PlanRun(w) \/ List(w) \/ Skip(w) \/ Claim(w)
             \/ Effect(w) \/ Write(w) \/ WriteSource(w) \/ WriteTarget(w) \/ Dequeue(w) \/ Refuse(w)
             \/ Finish(w)
      PROVE  FALSE
  <2>1. status' = status \/ status' = "running"
    BY <1>1 DEF BeginRun, ListDue, PlanRun, List, Skip, Claim, Effect, Write, WriteSource, WriteTarget,
                Dequeue, Refuse, Finish, Planned, tables
  <2> QED BY <2>1
<1>2. ASSUME NEW w \in Workers, EffectFails(w) \/ WriteRefused(w) PROVE FALSE
  <2>1. status' = "degraded" \/ status' = status
    BY <1>2 DEF EffectFails, WriteRefused, Failed, FailRun, FailOp
  <2> QED BY <2>1
<1>3. \A w \in Workers : ~Faults(w)
  BY DEF Faults, PlanFault, PlanBlind, PlanMisled, Transport, LostReply, CutBody, HttpStatus
<1>4. ~Start
  BY DEF Start
<1>5. ASSUME UserEdit \/ RetryFailures \/ (\E f : RetryFailureByID(f)) PROVE FALSE
  BY <1>5 DEF UserEdit, LocalWrite, RemoteWrite, LocalRemove, RemoteRemove, LocalRename, Edit,
              RetryFailures, RetryFailureByID, tables
<1>6. ~Requeue /\ ~Crash /\ \A w \in Workers : ~CrashEnqueueing(w) /\ ~CrashFetching(w)
  BY DEF Requeue, Crash, CrashEnqueueing, CrashFetching, Restart, tables
<1> QED BY <1>1, <1>2, <1>3, <1>4, <1>5, <1>6 DEF Next, Step, Progress

\* Any number of workers and any edits under their feet: a run that meets no fault
\* fails as a whole only on a file of its snapshot that is no longer one, or on a
\* synced local directory that the listing does not name the way the index does.
THEOREM FailuresAreExplained == Spec => FailuresExplained
<1> DEFINE FailStep ==
             status' = "failed" /\ status # "failed" /\ budget' = budget =>
               \E w \in Workers : \E p \in DOMAIN work[w].snap :
                 Changed(work[w].snap, p) \/ LostDirectory(work[w].snap, p)
<1>1. ASSUME BudgetInv, Next PROVE FailStep
  <2> SUFFICES ASSUME status' = "failed", status # "failed", budget' = budget
               PROVE  \E w \in Workers : \E p \in DOMAIN work[w].snap :
                        Changed(work[w].snap, p) \/ LostDirectory(work[w].snap, p)
    OBVIOUS
  <2>1. ~Spend
    BY <1>1 DEF Spend, BudgetInv, Budgets
  <2>2. PICK w \in Workers : PlanFails(w)
    BY <1>1, <2>1, OnlyPlanFails
  <2> DEFINE snap == work[w].snap
  <2>3. PlanMayFail(task, snap, local, Listing, index)
    BY <2>2 DEF PlanFails, Listing
  <2> HIDE DEF snap
  <2>4. \E p \in DOMAIN snap : \/ snap[p] # Dir /\ ~readable(local, p)
                               \/ snap[p] = Dir /\ ~Has(Listing, p) /\ isMoveCandidate(RowOf(index, p))
    BY <2>3, PlanFailure
  <2>5. \E p \in DOMAIN snap : Changed(snap, p) \/ LostDirectory(snap, p)
    BY <2>4 DEF Changed, LostDirectory
  <2> QED BY <2>5 DEF snap
<1>2. BudgetInv /\ [Next]_vars => [FailStep]_vars
  BY <1>1
<1> QED BY <1>2, BudgetHolds, PTL DEF Spec, FailuresExplained

----------------------------------------------------------------------------
(* What the runs enqueue.                                                  *)

\* The step of one worker leaves the others alone.
LEMMA OtherWorkers ==
  ASSUME IInv, NEW v \in Workers, NEW w \in Workers, v # w,
         BeginRun(v) \/ ListDue(v) \/ Progress(v) \/ Faults(v)
  PROVE  work'[w] = work[w]
<1>0. work = [x \in Workers |-> work[x]]
  BY DEF IInv, WorkInv
<1>1. CASE BeginRun(v) \/ ListDue(v) \/ List(v) \/ Skip(v) \/ Claim(v)
  BY <1>0, <1>1 DEF BeginRun, ListDue, List, Skip, Claim
<1>2. CASE PlanRun(v) \/ PlanBlind(v) \/ PlanMisled(v) \/ PlanFails(v) \/ PlanFault(v)
  BY <1>0, <1>2 DEF PlanRun, PlanBlind, PlanMisled, PlanFails, PlanFault, Planned, PlanError
<1>3. CASE Effect(v) \/ HttpStatus(v) \/ Write(v) \/ WriteSource(v) \/ WriteTarget(v) \/ Dequeue(v) \/ Finish(v)
  BY <1>0, <1>3 DEF Effect, HttpStatus, Loaded, Write, WriteSource, WriteTarget, Written, Dequeue, Finish
<1>4. CASE EffectFails(v) \/ WriteRefused(v) \/ Transport(v) \/ LostReply(v) \/ CutBody(v) \/ Refuse(v)
  <2>1. FailRun(v) \/ Retried(v)
    BY <1>4, Zenon DEF EffectFails, WriteRefused, Transport, LostReply, CutBody, Refuse, Failed, FailOp
  <2> QED BY <1>0, <2>1 DEF FailRun, Retried, Skipping
<1> QED BY <1>1, <1>2, <1>3, <1>4 DEF Progress, Faults

\* A worker goes from its snapshot to the queue by planning, from the remote tree,
\* from a listing with a hole, or with a file misread.
LEMMA OnlyPlan ==
  ASSUME IInv, Next, NEW w \in Workers, At(w, "snap"), work'[w].pc = "list"
  PROVE  PlanRun(w) \/ PlanBlind(w) \/ PlanMisled(w)
<1>0. work = [x \in Workers |-> work[x]]
  BY DEF IInv, WorkInv
<1>1. ASSUME NEW v \in Workers, BeginRun(v) \/ ListDue(v) \/ Progress(v) \/ Faults(v)
      PROVE  PlanRun(w) \/ PlanBlind(w) \/ PlanMisled(w)
  <2>1. v = w
    BY <1>1, OtherWorkers DEF At
  <2>2. ~PlanFails(w) /\ ~PlanFault(w)
    BY <1>0 DEF PlanFails, PlanFault, PlanError, Idle, Working
  <2>3. ~Transport(w) /\ ~LostReply(w) /\ ~CutBody(w) /\ ~HttpStatus(w)
    BY Zenon DEF Transport, LostReply, CutBody, HttpStatus, At
  <2>4. ~BeginRun(w) /\ ~ListDue(w) /\ ~List(w) /\ ~Skip(w) /\ ~Claim(w) /\ ~Effect(w) /\ ~EffectFails(w)
    BY DEF BeginRun, ListDue, List, Skip, Claim, Effect, EffectFails, Pending, At
  <2>5. /\ ~Write(w) /\ ~WriteSource(w) /\ ~WriteTarget(w) /\ ~WriteRefused(w) /\ ~Dequeue(w)
        /\ ~Refuse(w) /\ ~Finish(w)
    BY DEF Write, WriteSource, WriteTarget, WriteRefused, Dequeue, Refuse, Finish, Pending, At
  <2> QED BY <1>1, <2>1, <2>2, <2>3, <2>4, <2>5 DEF Progress, Faults
<1>2. ASSUME work' = work \/ work' = [x \in Workers |-> Idle] PROVE FALSE
  BY <1>2 DEF At, Idle, Working
<1> QED BY <1>1, <1>2, EnvironmentWork DEF Next, Step

\* All but the first are faults, which are paid for.
LEMMA OnlyPlanRun ==
  ASSUME IInv, BudgetInv, Next, NEW w \in Workers, At(w, "snap"), work'[w].pc = "list", budget' = budget
  PROVE  PlanRun(w)
<1>1. ~Spend
  BY DEF Spend, BudgetInv, Budgets
<1> QED BY <1>1, OnlyPlan DEF PlanBlind, PlanMisled

\* The rows a plan adds to the queue hold the actions of the plan, in its order.
LEMMA EnqueuedActs ==
  ASSUME IInv, NEW plan, PlannedSeq(task, plan)
  PROVE  /\ \A i \in DOMAIN Enqueue(plan) \ DOMAIN queue :
              i - Len(queue) \in DOMAIN plan /\ Enqueue(plan)[i].act = plan[i - Len(queue)]
         /\ DOMAIN Enqueue(plan) \subseteq Nat /\ Len(queue) \in Nat
<1>1. PICK room \in Nat :
        /\ room <= Len(plan) /\ (Len(queue) + room <= scene.queueCap \/ room = 0)
        /\ Enqueue(plan) = queue \o [k \in 1..room |-> Item(FreshId(k), plan[k])]
  BY EnqueueEntries
<1>2. Len(plan) \in Nat /\ DOMAIN plan = 1..Len(plan) /\ IsSeq(queue) /\ Len(queue) \in Nat
  BY IsSeqDomain DEF IInv, QueueInv, Entries, PlannedSeq
<1> DEFINE new == [k \in 1..room |-> Item(FreshId(k), plan[k])]
           c == Cat(queue, new)
<1>3. IsSeq(new)
  BY FunctionIsSeq
<1>4. \A k \in DOMAIN new : k \in DOMAIN plan /\ new[k].act = plan[k]
  BY <1>1, <1>2 DEF Item
<1> HIDE DEF new
<1>5. \A n \in DOMAIN c : \/ n \in DOMAIN queue /\ c[n] = queue[n]
                          \/ n - Len(queue) \in DOMAIN new /\ c[n] = new[n - Len(queue)]
  BY <1>2, <1>3, CatIsSeq
<1>6. DOMAIN c \subseteq Nat
  BY <1>2, <1>3, CatIsSeq, IsSeqDomain
<1>7. Enqueue(plan) = c
  BY <1>1, Zenon DEF new, Cat
<1> HIDE DEF c
<1> QED BY <1>2, <1>4, <1>5, <1>6, <1>7

\* Any number of workers, any faults and any edits under their feet: what a run
\* of a bidirectional task enqueues is what its snapshot, the listing and the
\* index justify, so that in a task that keeps both versions and mirrors no
\* deletes no run plans to remove or to write over what it saw.
THEOREM RunsJustified == Spec => PlansJustified
<1> DEFINE JustifiedStep ==
             \A w \in Workers :
               task.direction = "bidirectional" /\ At(w, "snap") /\ work'[w].pc = "list" /\ budget' = budget
                 => \A i \in DOMAIN queue' \ DOMAIN queue :
                      Justified(task, work[w].snap, local, Listing, index, queue'[i].act)
<1>1. ASSUME IInv, BudgetInv, Next PROVE JustifiedStep
  <2> SUFFICES ASSUME NEW w \in Workers, task.direction = "bidirectional", At(w, "snap"),
                      work'[w].pc = "list", budget' = budget, NEW i \in DOMAIN queue' \ DOMAIN queue
               PROVE  Justified(task, work[w].snap, local, Listing, index, queue'[i].act)
    OBVIOUS
  <2>0. Tree(remote)
    BY <1>1 DEF IInv, TreesInv
  <2>1. PICK plan \in PlansFrom(w, remote) : queue' = Enqueue(plan)
    BY <1>1, OnlyPlanRun DEF PlanRun, Planned
  <2>2. /\ Tree(work[w].snap) /\ Tree(Listing) /\ task \in Policy
        /\ plan \in Plans(task, work[w].snap, local, Listing, index)
    BY <1>1, <2>0, SyncAssumption, ListedTree
       DEF IInv, WorkInv, WorkerOK, At, Scenario, task, Listing, PlansFrom
  <2>3. PlannedSeq(task, plan)
    BY <1>1, <2>0, RunPlans
  <2>4. PICK k \in DOMAIN plan : queue'[i].act = plan[k]
    BY <1>1, <2>1, <2>3, EnqueuedActs
  <2>5. Justified(task, work[w].snap, local, Listing, index, plan[k])
    BY <2>2, BidirectionalPlansJustified
  <2> QED BY <2>4, <2>5
<1>2. IInv /\ BudgetInv /\ [Next]_vars => [JustifiedStep]_vars
  BY <1>1
<1> QED BY <1>2, IInvHolds, BudgetHolds, PTL DEF Spec, PlansJustified

\* Any number of workers, any faults and any edits under their feet, whatever the
\* order in which a run walks its maps: no two items it enqueues are about one
\* path, except the two halves of a conflict, the local copy first.
THEOREM RunsApart == Spec => PlansApart
<1> DEFINE ApartStep ==
             \A w \in Workers :
               At(w, "snap") /\ work'[w].pc = "list"
                 => \A i, j \in DOMAIN queue' \ DOMAIN queue :
                      i < j => Apart(queue'[i].act, queue'[j].act)
<1>1. ASSUME IInv, Next PROVE ApartStep
  <2> SUFFICES ASSUME NEW w \in Workers, At(w, "snap"), work'[w].pc = "list",
                      NEW i \in DOMAIN queue' \ DOMAIN queue, NEW j \in DOMAIN queue' \ DOMAIN queue, i < j
               PROVE  Apart(queue'[i].act, queue'[j].act)
    OBVIOUS
  <2>1. PICK seen : Tree(seen) /\ Planned(w, seen)
    BY <1>1, OnlyPlan, SeenIsTree
  <2>2. PICK plan \in PlansFrom(w, seen) : queue' = Enqueue(plan)
    BY <2>1 DEF Planned
  <2> DEFINE rem == Listed(seen, scene.slashed)
  <2>3. /\ Tree(work[w].snap) /\ Tree(rem) /\ task \in Policy
        /\ plan \in Plans(task, work[w].snap, local, rem, index)
    BY <1>1, <2>1, <2>2, SyncAssumption, ListedTree
       DEF IInv, WorkInv, WorkerOK, At, Scenario, task, PlansFrom
  <2> HIDE DEF rem
  <2>4. PlannedSeq(task, plan)
    BY <1>1, <2>1, RunPlans
  <2> DEFINE k == i - Len(queue)
             n == j - Len(queue)
  <2>5. /\ k \in DOMAIN plan /\ queue'[i].act = plan[k]
        /\ n \in DOMAIN plan /\ queue'[j].act = plan[n]
        /\ i \in Nat /\ j \in Nat /\ Len(queue) \in Nat
    BY <1>1, <2>2, <2>4, EnqueuedActs
  <2>6. k < n
    BY <2>5
  <2> HIDE DEF k, n
  <2>7. Apart(plan[k], plan[n])
    BY <2>3, <2>5, <2>6, PathsApart
  <2> QED BY <2>5, <2>7
<1>2. IInv /\ [Next]_vars => [ApartStep]_vars
  BY <1>1
<1> QED BY <1>2, IInvHolds, PTL DEF Spec, PlansApart

\* Below its bound the queue takes every action of a plan.
LEMMA EnqueuedAll ==
  ASSUME IInv, NEW plan, PlannedSeq(task, plan), Len(Enqueue(plan)) < scene.queueCap, NEW k \in DOMAIN plan
  PROVE  \E i \in DOMAIN Enqueue(plan) \ DOMAIN queue : Enqueue(plan)[i].act = plan[k]
<1>1. PICK room \in Nat :
        /\ room = Len(plan) \/ scene.queueCap <= Len(queue) + room
        /\ Enqueue(plan) = queue \o [j \in 1..room |-> Item(FreshId(j), plan[j])]
  BY EnqueueEntries
<1>2. /\ Len(plan) \in Nat /\ DOMAIN plan = 1..Len(plan)
      /\ IsSeq(queue) /\ Len(queue) \in Nat /\ DOMAIN queue = 1..Len(queue)
  BY IsSeqDomain DEF IInv, QueueInv, Entries, PlannedSeq
<1>3. scene.queueCap \in Nat
  BY SyncAssumption DEF IInv, Scenario
<1> DEFINE new == [j \in 1..room |-> Item(FreshId(j), plan[j])]
           c == queue \o new
<1>4. IsSeq(new) /\ Len(new) = room /\ DOMAIN new = 1..room
  BY FunctionIsSeq
<1>5. \A j \in DOMAIN new : new[j].act = plan[j]
  BY DEF Item
<1>6. Enqueue(plan) = c
  BY <1>1
<1> HIDE DEF new
<1>7. /\ Len(c) = Len(queue) + room
      /\ \A j \in DOMAIN new : Len(queue) + j \in DOMAIN c /\ c[Len(queue) + j] = new[j]
  BY <1>2, <1>4, ConcatIsSeq
<1> HIDE DEF c
<1>8. room = Len(plan)
  <2>1. Len(queue) + room < scene.queueCap
    BY <1>6, <1>7, Zenon
  <2>2. ~(scene.queueCap <= Len(queue) + room)
    BY <1>2, <1>3, <2>1
  <2> QED BY <1>1, <2>2, Zenon
<1>9. k \in DOMAIN new /\ Len(queue) + k \notin DOMAIN queue
  BY <1>2, <1>4, <1>8
<1> QED BY <1>5, <1>6, <1>7, <1>9

\* Any number of workers, any faults and any edits under their feet, whatever a run
\* takes for a move: each path that calls for an action when it plans is the path
\* of an item it enqueues.
THEOREM RunsComplete == Spec => PlansComplete
<1> DEFINE CompleteStep ==
             \A w \in Workers :
               At(w, "snap") /\ work'[w].pc = "list" /\ budget' = budget /\ Len(queue') < scene.queueCap
                 => \A p \in DOMAIN work[w].snap \cup DOMAIN Listing :
                      Calls(task, work[w].snap, local, Listing, p)
                        => \E i \in DOMAIN queue' \ DOMAIN queue : p \in Touched(queue'[i].act)
<1>1. ASSUME IInv, BudgetInv, Next PROVE CompleteStep
  <2> SUFFICES ASSUME NEW w \in Workers, At(w, "snap"), work'[w].pc = "list", budget' = budget,
                      Len(queue') < scene.queueCap, NEW p, Calls(task, work[w].snap, local, Listing, p)
               PROVE  \E i \in DOMAIN queue' \ DOMAIN queue : p \in Touched(queue'[i].act)
    OBVIOUS
  <2>0. Tree(remote)
    BY <1>1 DEF IInv, TreesInv
  <2>1. PICK plan \in PlansFrom(w, remote) : queue' = Enqueue(plan)
    BY <1>1, OnlyPlanRun DEF PlanRun, Planned
  <2>2. /\ Tree(work[w].snap) /\ Tree(Listing) /\ task \in Policy
        /\ plan \in Plans(task, work[w].snap, local, Listing, index)
    BY <1>1, <2>0, SyncAssumption, ListedTree
       DEF IInv, WorkInv, WorkerOK, At, Scenario, task, Listing, PlansFrom
  <2>3. PlannedSeq(task, plan)
    BY <1>1, <2>0, RunPlans
  <2>4. PICK k \in DOMAIN plan : p \in Touched(plan[k])
    BY <2>2, PathsCovered
  <2>5. PICK i \in DOMAIN queue' \ DOMAIN queue : queue'[i].act = plan[k]
    BY <1>1, <2>1, <2>3, EnqueuedAll
  <2> QED BY <2>4, <2>5
<1>2. IInv /\ BudgetInv /\ [Next]_vars => [CompleteStep]_vars
  BY <1>1
<1> QED BY <1>2, IInvHolds, BudgetHolds, PTL DEF Spec, PlansComplete

----------------------------------------------------------------------------
(* What the file operations take away.                                     *)

\* p holds in t2 what it holds in t.
Stays(t, t2, p) == Has(t2, p) /\ t2[p] = t[p]

LEMMA GoneIs == ASSUME NEW t, NEW t2, NEW p PROVE p \in Gone(t, t2) <=> p \in DOMAIN t /\ ~Stays(t, t2, p)
BY DEF Gone, Stays

\* New directories change nothing that exists; a file written changes itself; a
\* removal takes what is at and below its path.
LEMMA TreeSteps ==
  ASSUME NEW t, NEW p \in DOMAIN t, NEW q, NEW x, NEW ps
  PROVE  /\ Stays(t, WithDirs(t, ps), p)
         /\ p # q => Stays(t, With(t, q, x), p)
         /\ ~Under(q, p) => Stays(t, Without(t, q), p)
<1>1. Stays(t, WithDirs(t, ps), p)
  BY DEF Stays, Has, WithDirs, Over
<1>2. p # q => Stays(t, With(t, q, x), p)
  BY DEF Stays, Has, With, Over
<1>3. ~Under(q, p) => Stays(t, Without(t, q), p)
  BY DEF Stays, Has, Without
<1> QED BY <1>1, <1>2, <1>3

LEMMA StaysTwice ==
  ASSUME NEW t, NEW u, NEW v, NEW p, Stays(t, u, p), Stays(u, v, p) PROVE Stays(t, v, p)
BY DEF Stays

LEMMA CreateStays ==
  ASSUME NEW t, NEW p \in DOMAIN t, NEW q, NEW x, ~(p = q /\ IsFile(t, p)), ~IsDir(t, q)
  PROVE  Stays(t, osCreate(t, q, x), p)
<1> DEFINE u == WithDirs(t, Ancestors(q))
<1>1. p # q
  BY DEF IsFile, IsDir, Has
<1>2. Stays(t, u, p)
  BY TreeSteps
<1> HIDE DEF u
<1>3. Stays(u, With(u, q, x), p)
  BY <1>1, <1>2, TreeSteps DEF Stays, Has
<1>4. Stays(t, With(u, q, x), p)
  BY <1>2, <1>3, StaysTwice
<1> QED BY <1>4 DEF osCreate, u

LEMMA PutStays ==
  ASSUME NEW t, NEW p \in DOMAIN t, NEW q, NEW x, ~(p = q /\ IsFile(t, p))
  PROVE  Stays(t, davPut(t, q, x), p)
<1>1. CASE ParentIsDir(t, q) /\ ~IsDir(t, q)
  <2>1. p # q
    BY <1>1 DEF IsFile, IsDir, Has
  <2> QED BY <1>1, <2>1, TreeSteps DEF davPut
<1>2. CASE ~(ParentIsDir(t, q) /\ ~IsDir(t, q))
  BY <1>2 DEF davPut, Stays, Has
<1> QED BY <1>1, <1>2

LEMMA DirsStay ==
  ASSUME NEW t, NEW p \in DOMAIN t, NEW q
  PROVE  /\ Stays(t, osMkdirAll(t, q), p) /\ Stays(t, osRenameFailed(t, q), p)
         /\ Stays(t, davMkcol(t, q), p)
<1>1. Stays(t, t, p)
  BY DEF Stays, Has
<1> QED BY <1>1, TreeSteps DEF osMkdirAll, osRenameFailed, davMkcol

\* A path below s is s and the rest of it.
LEMMA PathBelow ==
  ASSUME NEW s, IsSeq(s), NEW p, IsSeq(p), Under(s, p)
  PROVE  /\ IsSeq(SubSeq(p, Len(s) + 1, Len(p)))
         /\ s \o SubSeq(p, Len(s) + 1, Len(p)) = p
<1> DEFINE n == Len(s)
           m == Len(p)
           S == Range(p)
           r == SubSeq(p, n + 1, m)
<1>1. p \in Seq(S) /\ m \in Nat /\ n \in Nat /\ s \in Seq(Range(s))
  BY IsSeqDomain
<1>2. n <= m /\ SubSeq(s, 1, n) = SubSeq(p, 1, n)
  BY DEF Under, IsPrefix
<1>3. SubSeq(s, 1, n) = s /\ SubSeq(p, 1, m) = p
  BY <1>1, SubSeqFull
<1>4. IsSeq(r)
  BY <1>1, SubSeqIsSeq
<1>5. SubSeq(p, 1, n) \o SubSeq(p, n + 1, m) = SubSeq(p, 1, m)
  <2>1. 1 \in 1 .. Len(p) + 1 /\ n \in 1 - 1 .. Len(p) /\ m \in n .. Len(p)
    BY <1>1, <1>2
  <2> QED BY <1>1, <2>1, ConcatAdjacentSubSeq
<1> QED BY <1>2, <1>3, <1>4, <1>5

\* d and a rest is a path below d with that rest.
LEMMA BelowPath ==
  ASSUME NEW d, IsSeq(d), NEW r, IsSeq(r)
  PROVE  Under(d, d \o r) /\ SubSeq(d \o r, Len(d) + 1, Len(d \o r)) = r
<1> DEFINE S == Range(d) \cup Range(r)
           n == Len(d)
           m == Len(r)
           q == d \o r
<1>1. d \in Seq(S) /\ r \in Seq(S) /\ n \in Nat /\ m \in Nat
  BY IsSeqDomain, SeqMonotonic DEF IsSeq
<1>2. q \in Seq(S) /\ Len(q) = n + m /\ \A i \in 1 .. n + m : q[i] = IF i <= n THEN d[i] ELSE r[i - n]
  BY <1>1, ConcatProperties
<1> HIDE DEF S, n, m, q
<1>3. SubSeq(q, 1, n) = d
  <2>1. /\ \A i \in 1 .. n : q[i] \in S
    BY <1>1, <1>2, ElementOfSeq DEF n
  <2>2. /\ SubSeq(q, 1, n) \in Seq(S)
        /\ Len(SubSeq(q, 1, n)) = IF 1 <= n THEN n - 1 + 1 ELSE 0
        /\ \A i \in 1 .. n - 1 + 1 : SubSeq(q, 1, n)[i] = q[1 + i - 1]
    BY <1>1, <2>1, SubSeqProperties
  <2>3. Len(SubSeq(q, 1, n)) = n /\ \A i \in 1 .. n : SubSeq(q, 1, n)[i] = d[i]
    BY <1>1, <1>2, <2>2
  <2> QED BY <1>1, <2>2, <2>3, SeqEqual DEF n
<1>4. SubSeq(q, n + 1, n + m) = r
  <2>1. \A i \in n + 1 .. n + m : q[i] \in S
    BY <1>1, <1>2, ElementOfSeq
  <2>2. /\ SubSeq(q, n + 1, n + m) \in Seq(S)
        /\ Len(SubSeq(q, n + 1, n + m)) = IF n + 1 <= n + m THEN n + m - (n + 1) + 1 ELSE 0
        /\ \A i \in 1 .. n + m - (n + 1) + 1 : SubSeq(q, n + 1, n + m)[i] = q[n + 1 + i - 1]
    BY <1>1, <2>1, SubSeqProperties
  <2>3. Len(SubSeq(q, n + 1, n + m)) = m /\ \A i \in 1 .. m : SubSeq(q, n + 1, n + m)[i] = r[i]
    BY <1>1, <1>2, <2>2
  <2> QED BY <1>1, <2>2, <2>3, SeqEqual DEF m
<1>5. SubSeq(d, 1, n) = d
  BY <1>1, SubSeqFull DEF n
<1>6. Under(d, q)
  BY <1>1, <1>2, <1>3, <1>5 DEF Under, IsPrefix, n
<1> QED BY <1>2, <1>4, <1>6 DEF n, m, q

\* What a move takes along is afterwards where it went, and it takes nothing else
\* but what it finds there.
LEMMA MoveCarries ==
  ASSUME NEW t, Tree(t), NEW s, IsSeq(s), NEW d, IsSeq(d), NEW rest, NEW p \in DOMAIN t, Under(s, p)
  PROVE  Carried(s, d, t, Over(Moved(t, s, d), rest), p)
<1> DEFINE N(x) == d \o SubSeq(x, Len(s) + 1, Len(x))
           r == SubSeq(p, Len(s) + 1, Len(p))
           q == d \o r
           moved == Moved(t, s, d)
<1>1. IsSeq(r) /\ s \o r = p
  BY PathBelow DEF Tree
<1>2. SubSeq(q, Len(d) + 1, Len(q)) = r
  BY <1>1, BelowPath
<1>3. q \in DOMAIN moved /\ moved[q] = t[s \o SubSeq(q, Len(d) + 1, Len(q))]
  <2>1. q = N(p)
    OBVIOUS
  <2>2. q \in {N(x) : x \in {y \in DOMAIN t : Under(s, y)}}
    BY <2>1
  <2> HIDE DEF q
  <2> QED BY <2>2 DEF Moved
<1>4. moved[q] = t[p]
  BY <1>1, <1>2, <1>3
<1> HIDE DEF moved
<1>5. q \in DOMAIN Over(moved, rest) /\ Over(moved, rest)[q] = t[p]
  BY <1>3, <1>4 DEF Over
<1> QED BY <1>5, Zenon DEF Carried, Has, moved, q, r

LEMMA MoveLeaves ==
  ASSUME NEW t, Tree(t), NEW s, IsSeq(s), NEW d, IsSeq(d), NEW rest, NEW p \in DOMAIN t,
         ~Under(d, p), Stays(t, rest, p)
  PROVE  Stays(t, Over(Moved(t, s, d), rest), p)
<1> DEFINE moved == Moved(t, s, d)
<1>1. p \notin DOMAIN moved
  <2> SUFFICES ASSUME p \in DOMAIN moved PROVE FALSE
    OBVIOUS
  <2>1. PICK x \in DOMAIN t : Under(s, x) /\ p = d \o SubSeq(x, Len(s) + 1, Len(x))
    BY DEF Moved
  <2>2. IsSeq(SubSeq(x, Len(s) + 1, Len(x)))
    BY <2>1, PathBelow DEF Tree
  <2> QED BY <2>1, <2>2, BelowPath
<1> HIDE DEF moved
<1>2. Stays(t, Over(moved, rest), p)
  BY <1>1 DEF Stays, Has, Over
<1> QED BY <1>2 DEF moved

LEMMA RenameTakes ==
  ASSUME NEW t, Tree(t), NEW s, IsSeq(s), NEW d, IsSeq(d), NEW p \in DOMAIN t,
         ~Stays(t, osRename(t, s, d), p)
  PROVE  Under(d, p) \/ Carried(s, d, t, osRename(t, s, d), p)
<1> DEFINE u == WithDirs(t, Ancestors(d))
           rest == Without(u, s)
<1>1. osRename(t, s, d) = Over(Moved(t, s, d), rest)
  BY Zenon DEF osRename
<1>2. CASE Under(s, p)
  BY <1>1, <1>2, MoveCarries
<1>3. CASE ~Under(s, p)
  <2>1. Stays(t, u, p)
    BY TreeSteps
  <2> HIDE DEF u
  <2>2. Stays(u, rest, p)
    BY <1>3, <2>1, TreeSteps DEF Stays, Has
  <2>3. Stays(t, rest, p)
    BY <2>1, <2>2, StaysTwice
  <2> HIDE DEF rest
  <2> QED BY <1>1, <2>3, MoveLeaves
<1> QED BY <1>2, <1>3

LEMMA MoveTakes ==
  ASSUME NEW t, Tree(t), NEW s, IsSeq(s), NEW d, IsSeq(d), NEW p \in DOMAIN t,
         ~Stays(t, davMove(t, s, d), p)
  PROVE  Under(d, p) \/ Carried(s, d, t, davMove(t, s, d), p)
<1> DEFINE u == Without(t, s)
           rest == Without(u, d)
<1>1. davMove(t, s, d) = Over(Moved(t, s, d), rest)
  <2>1. Stays(t, t, p)
    BY DEF Stays, Has
  <2> QED BY <2>1 DEF davMove
<1>2. CASE Under(s, p)
  BY <1>1, <1>2, MoveCarries
<1>3. CASE ~Under(s, p) /\ ~Under(d, p)
  <2>1. Stays(t, u, p)
    BY <1>3, TreeSteps
  <2> HIDE DEF u
  <2>2. Stays(u, rest, p)
    BY <1>3, <2>1, TreeSteps DEF Stays, Has
  <2>3. Stays(t, rest, p)
    BY <2>1, <2>2, StaysTwice
  <2> HIDE DEF rest
  <2> QED BY <1>1, <1>3, <2>3, MoveLeaves
<1> QED BY <1>2, <1>3

\* What executing an action may take from the two sides.
LEMMA FetchTakes ==
  ASSUME NEW a, a.op \in FetchOps, EffectOK(a), NEW p \in DOMAIN local, NEW x,
         ~Stays(local, osCreate(local, a.lp, x), p)
  PROVE  TakenLocally(a, p)
<1>1. ~IsDir(local, a.lp)
  BY DEF EffectOK, FetchOps, osCreateOK
<1>2. p = a.lp /\ IsFile(local, p)
  BY <1>1, CreateStays
<1> QED BY <1>2 DEF TakenLocally

LEMMA LocalTaken ==
  ASSUME IInv, NEW a, PlannedAct(task, a), EffectOK(a), local' = LocalAfter(a),
         NEW p \in DOMAIN local, ~Stays(local, local', p)
  PROVE  TakenLocally(a, p)
<1>1. Tree(local) /\ IsSeq(a.lp) /\ IsSeq(a.src)
  BY DEF IInv, TreesInv, PlannedAct
<1>2. CASE a.op = "create_dir_local"
  BY <1>2, DirsStay DEF LocalAfter
<1>3. CASE a.op \in FetchOps
  <2>1. local' = osCreate(local, a.lp, davGet(remote, a.rp))
    BY <1>3 DEF LocalAfter, FetchOps
  <2> QED BY <1>3, <2>1, FetchTakes
<1>4. CASE a.op = "delete_local"
  <2>1. local' = Without(local, a.lp)
    BY <1>4 DEF LocalAfter, osRemoveAll
  <2>2. Under(a.lp, p)
    BY <2>1, TreeSteps
  <2>3. task.mirror
    BY <1>4 DEF PlannedAct, DeleteOps
  <2> QED BY <1>4, <2>2, <2>3 DEF TakenLocally
<1>5. CASE a.op = "move_local"
  <2>1. local' = osRename(local, a.src, a.lp)
    BY <1>5 DEF LocalAfter
  <2>2. Under(a.lp, p) \/ Carried(a.src, a.lp, local, local', p)
    BY <1>1, <2>1, RenameTakes
  <2> QED BY <1>5, <2>2 DEF TakenLocally
<1>6. CASE a.op \notin FetchOps \cup {"create_dir_local", "delete_local", "move_local"}
  <2>1. local' = local
    BY <1>6 DEF LocalAfter, FetchOps
  <2> QED BY <2>1 DEF Stays, Has
<1> QED BY <1>2, <1>3, <1>4, <1>5, <1>6

LEMMA RemoteTaken ==
  ASSUME IInv, NEW a, PlannedAct(task, a), remote' = RemoteAfter(a),
         NEW p \in DOMAIN remote, ~Stays(remote, remote', p)
  PROVE  TakenRemotely(a, p)
<1>1. Tree(remote) /\ IsSeq(a.rp) /\ IsSeq(Joined(a.src))
  BY JoinedIsSeq DEF IInv, TreesInv, PlannedAct
<1>2. CASE a.op = "create_dir_remote"
  BY <1>2, DirsStay DEF RemoteAfter
<1>3. CASE a.op \in {"upload_file", "move_conflict_remote"}
  <2>1. remote' = davPut(remote, a.rp, local[a.lp])
    BY <1>3 DEF RemoteAfter
  <2>2. p = a.rp /\ IsFile(remote, p)
    BY <2>1, PutStays
  <2> QED BY <1>3, <2>2 DEF TakenRemotely
<1>4. CASE a.op = "delete_remote"
  <2>1. remote' = Without(remote, Joined(a.rp))
    BY <1>4 DEF RemoteAfter, davDelete
  <2>2. Under(Joined(a.rp), p)
    BY <2>1, TreeSteps
  <2>3. task.mirror
    BY <1>4 DEF PlannedAct, DeleteOps
  <2> QED BY <1>4, <2>2, <2>3 DEF TakenRemotely
<1>5. CASE a.op = "move_remote"
  <2>1. remote' = davMove(remote, Joined(a.src), a.rp)
    BY <1>5 DEF RemoteAfter
  <2>2. Under(a.rp, p) \/ Carried(Joined(a.src), a.rp, remote, remote', p)
    BY <1>1, <2>1, MoveTakes
  <2> QED BY <1>5, <2>2 DEF TakenRemotely
<1>6. CASE a.op \notin {"create_dir_remote", "upload_file", "move_conflict_remote", "delete_remote",
                        "move_remote"}
  <2>1. remote' = remote
    BY <1>6 DEF RemoteAfter
  <2> QED BY <2>1 DEF Stays, Has
<1> QED BY <1>2, <1>3, <1>4, <1>5, <1>6

\* A step of a worker that executes an item takes only what the item may take.
LEMMA ExecTakes ==
  ASSUME IInv, NEW w \in Workers,
         Executing(w)
  PROVE  /\ At(w, "exec")
         /\ \A p \in Gone(local, local') : TakenLocally(Cur(w).act, p)
         /\ \A p \in Gone(remote, remote') : TakenRemotely(Cur(w).act, p)
<1> DEFINE a == Cur(w).act
<1>1. At(w, "exec")
  BY Zenon DEF Executing, Effect, EffectFails, LostReply, CutBody, HttpStatus, CrashFetching
<1>2. PlannedAct(task, a)
  BY <1>1, Hand DEF At, Handling
<1>3. ASSUME NEW p \in Gone(local, local') PROVE TakenLocally(a, p)
  <2>1. p \in DOMAIN local /\ ~Stays(local, local', p)
    BY <1>3, GoneIs
  <2>2. local' # local
    BY <2>1 DEF Stays, Has
  <2>3. CASE Effect(w)
    BY <1>2, <2>1, <2>3, LocalTaken DEF Effect
  <2>4. CASE CutBody(w) \/ HttpStatus(w) \/ CrashFetching(w)
    <3>1. /\ a.op \in FetchOps /\ EffectOK(a)
          /\ \E x : local' = osCreate(local, a.lp, x)
      BY <2>2, <2>4 DEF CutBody, HttpStatus, CrashFetching
    <3> QED BY <2>1, <3>1, FetchTakes
  <2>5. ~EffectFails(w)
    <3>1. EffectFails(w) => local' \in {local, osRenameFailed(local, a.lp)}
      BY DEF EffectFails
    <3>2. local' # osRenameFailed(local, a.lp)
      BY <2>1, DirsStay
    <3> QED BY <2>2, <3>1, <3>2
  <2>6. ~LostReply(w)
    BY <2>2 DEF LostReply
  <2> QED BY <2>3, <2>4, <2>5, <2>6 DEF Executing
<1>4. ASSUME NEW p \in Gone(remote, remote') PROVE TakenRemotely(a, p)
  <2>1. p \in DOMAIN remote /\ ~Stays(remote, remote', p)
    BY <1>4, GoneIs
  <2>2. remote' # remote
    BY <2>1 DEF Stays, Has
  <2>3. remote' = RemoteAfter(a)
    BY <2>2 DEF Executing, Effect, EffectFails, LostReply, CutBody, HttpStatus, CrashFetching, Restart
  <2> QED BY <1>2, <2>1, <2>3, RemoteTaken
<1> QED BY <1>1, <1>3, <1>4

\* Any scenarios, any number of workers, whatever faults, kills and retries there
\* are: what disappears from a side or is replaced there is what the item in the
\* hand of a worker is about, only a task that mirrors deletes removes anything,
\* and what a move takes along is where it went.
THEOREM LossesAreExplained == Spec => LossesExplained
<1> DEFINE LossStep ==
             /\ \A p \in Gone(local, local') :
                  \E w \in Workers : At(w, "exec") /\ TakenLocally(Cur(w).act, p)
             /\ \A p \in Gone(remote, remote') :
                  \E w \in Workers : At(w, "exec") /\ TakenRemotely(Cur(w).act, p)
<1>1. ASSUME IInv, BudgetInv, Next, budget'.edits = budget.edits PROVE LossStep
  <2>1. CASE UNCHANGED <<local, remote>>
    <3>1. Gone(local, local') = {} /\ Gone(remote, remote') = {}
      BY <2>1 DEF Gone, Has
    <3> QED BY <3>1
  <2>2. CASE \E w \in Workers : Executing(w)
    <3>1. PICK w \in Workers : Executing(w)
      BY <2>2
    <3>2. /\ At(w, "exec")
          /\ \A p \in Gone(local, local') : TakenLocally(Cur(w).act, p)
          /\ \A p \in Gone(remote, remote') : TakenRemotely(Cur(w).act, p)
      BY <1>1, <3>1, ExecTakes
    <3> QED BY <3>2
  <2> QED BY <1>1, <2>1, <2>2, TreeChanges DEF BudgetInv
<1>2. IInv /\ BudgetInv /\ [Next]_vars => [budget'.edits = budget.edits => LossStep]_vars
  BY <1>1
<1> QED BY <1>2, IInvHolds, BudgetHolds, PTL DEF Spec, LossesExplained
=============================================================================
