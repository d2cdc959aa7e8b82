--------------------------- MODULE Planner_proofs ---------------------------
(***************************************************************************)
(* What every plan of BaselineRunner.Plan consists of, whatever the trees, *)
(* the index and the order in which the maps are walked.                   *)
(*                                                                         *)
(* Induction over the naturals is done with sets in the place of           *)
(* predicates (NatSetInduction): a set can be instantiated by the provers, *)
(* an operator cannot.                                                     *)
(***************************************************************************)
EXTENDS Planner, FileIndex_proofs, WellFoundedInduction, SequenceTheorems, FiniteSetTheorems, TLAPS

\* A set of numbers that holds 0 and the successor of each member holds them all.
LEMMA NatSetInduction ==
  ASSUME NEW T, 0 \in T, \A n \in Nat : n \in T => n + 1 \in T
  PROVE  Nat \subseteq T
<1> SUFFICES ASSUME Nat \ T # {} PROVE FALSE
  OBVIOUS
<1> DEFINE Bad == Nat \ T
           Less == {ss \in Nat \X Nat : ss[1] < ss[2]}
<1>0. IsWellFoundedOn(Less, Nat)
  BY NatLessThanWellFounded, Zenon DEF OpToRel
<1>1. PICK x \in Bad : \A y \in Bad : <<y, x>> \notin Less
  BY <1>0, WFMin
<1>2. x \in Nat /\ x # 0 /\ x - 1 \in Nat
  OBVIOUS
<1>3. <<x - 1, x>> \in Less
  BY <1>2
<1> HIDE DEF Less
<1>4. x - 1 \in T
  BY <1>1, <1>2, <1>3
<1> QED
  BY <1>2, <1>4

----------------------------------------------------------------------------
(* Sequences, whatever their elements.                                     *)

\* A sequence over some set is a sequence over its own elements.
LEMMA SeqIsSeq == ASSUME NEW S, NEW q \in Seq(S) PROVE IsSeq(q)
BY SeqOfRange DEF IsSeq

\* The domain of a sequence.
LEMMA IsSeqDomain ==
  ASSUME NEW q, IsSeq(q)
  PROVE  Len(q) \in Nat /\ DOMAIN q = 1..Len(q) /\ q \in Seq(Range(q)) /\ q \in [1..Len(q) -> Range(q)]
BY LenProperties DEF IsSeq

\* A function on 1..n is a sequence of length n.
LEMMA FunctionIsSeq ==
  ASSUME NEW n \in Nat, NEW q, DOMAIN q = 1..n, q = [i \in DOMAIN q |-> q[i]]
  PROVE  IsSeq(q) /\ Len(q) = n
<1>1. q \in [1..n -> Range(q)]
  BY DEF Range
<1>2. q \in Seq(Range(q))
  BY <1>1, SeqDef
<1> QED BY <1>1, <1>2, LenProperties DEF IsSeq

\* The concatenation of two sequences.
LEMMA ConcatIsSeq ==
  ASSUME NEW a, NEW b, IsSeq(a), IsSeq(b)
  PROVE  /\ IsSeq(a \o b) /\ Len(a \o b) = Len(a) + Len(b)
         /\ \A i \in DOMAIN (a \o b) : \/ i \in DOMAIN a /\ (a \o b)[i] = a[i]
                                       \/ i - Len(a) \in DOMAIN b /\ (a \o b)[i] = b[i - Len(a)]
         /\ \A i \in DOMAIN a : i \in DOMAIN (a \o b) /\ (a \o b)[i] = a[i]
         /\ \A i \in DOMAIN b : Len(a) + i \in DOMAIN (a \o b) /\ (a \o b)[Len(a) + i] = b[i]
<1> DEFINE S == Range(a) \cup Range(b)
<1>1. a \in Seq(S) /\ b \in Seq(S)
  BY SeqMonotonic DEF IsSeq
<1>2. /\ a \o b \in Seq(S)
      /\ Len(a \o b) = Len(a) + Len(b)
      /\ \A i \in 1 .. Len(a) + Len(b) : (a \o b)[i] = IF i <= Len(a) THEN a[i] ELSE b[i - Len(a)]
  BY <1>1, ConcatProperties
<1>3. IsSeq(a \o b)
  BY <1>2, SeqIsSeq
<1>4. /\ Len(a) \in Nat /\ Len(b) \in Nat /\ DOMAIN a = 1..Len(a) /\ DOMAIN b = 1..Len(b)
      /\ DOMAIN (a \o b) = 1..(Len(a) + Len(b))
  BY <1>2, <1>3, IsSeqDomain
<1> HIDE DEF S
<1> QED BY <1>2, <1>3, <1>4

\* A sequence of one element.
LEMMA OneIsSeq ==
  ASSUME NEW e PROVE IsSeq(<<e>>) /\ DOMAIN <<e>> = {1} /\ <<e>>[1] = e
<1>1. <<e>> \in Seq({e}) /\ DOMAIN <<e>> = {1} /\ <<e>>[1] = e
  OBVIOUS
<1> QED BY <1>1, SeqIsSeq

\* The empty sequence.
LEMMA EmptyIsSeq == IsSeq(<<>>) /\ DOMAIN <<>> = {} /\ Len(<<>>) = 0
<1>1. <<>> \in Seq({}) /\ Len(<<>>) = 0
  BY EmptySeq
<1>2. IsSeq(<<>>)
  BY <1>1, SeqIsSeq
<1> QED BY <1>1, <1>2, IsSeqDomain

\* Concatenation as an operator the SMT encoding of sequences does not see.
Cat(a, b) == a \o b

LEMMA CatIsSeq ==
  ASSUME NEW a, NEW b, IsSeq(a), IsSeq(b)
  PROVE  /\ IsSeq(Cat(a, b))
         /\ \A i \in DOMAIN Cat(a, b) : \/ i \in DOMAIN a /\ Cat(a, b)[i] = a[i]
                                        \/ i - Len(a) \in DOMAIN b /\ Cat(a, b)[i] = b[i - Len(a)]
BY ConcatIsSeq, ZenonT(60) DEF Cat

\* The recursive function inside FlattenSeq is the one its definition describes.
LEMMA FlattenDef ==
  ASSUME NEW s, Len(s) \in Nat \ {0}
  PROVE  \E f : /\ f = [i \in 1..Len(s) |-> IF i = 1 THEN s[i] ELSE Cat(f[i - 1], s[i])]
                /\ FlattenSeq(s) = f[Len(s)]
<1> DEFINE Rec(f, k) == f = [i \in 1..k |-> IF i = 1 THEN s[i] ELSE Cat(f[i - 1], s[i])]
           T == {k \in Nat : \E f : Rec(f, k)}
<1>1. 0 \in T
  <2> DEFINE f == [i \in 1..0 |-> s[i]]
  <2>1. Rec(f, 0)
    OBVIOUS
  <2> QED BY <2>1
<1>2. ASSUME NEW k \in Nat, k \in T PROVE k + 1 \in T
  <2>1. PICK f : Rec(f, k)
    BY <1>2
  <2> DEFINE g == [i \in 1..(k + 1) |-> IF i <= k THEN f[i]
                                        ELSE IF i = 1 THEN s[i] ELSE Cat(f[i - 1], s[i])]
  <2>2. Rec(g, k + 1)
    <3> SUFFICES ASSUME NEW i \in 1..(k + 1)
                 PROVE  g[i] = IF i = 1 THEN s[i] ELSE Cat(g[i - 1], s[i])
      OBVIOUS
    <3>1. CASE i <= k
      <4>1. f[i] = IF i = 1 THEN s[i] ELSE Cat(f[i - 1], s[i])
        BY <2>1, <3>1
      <4>2. i # 1 => g[i - 1] = f[i - 1]
        BY <3>1
      <4> QED BY <3>1, <4>1, <4>2
    <3>2. CASE i = k + 1 /\ i # 1
      <4>1. i - 1 \in 1..(k + 1) /\ i - 1 <= k
        BY <3>2
      <4>2. g[i - 1] = f[i - 1]
        BY <4>1
      <4> QED BY <3>2, <4>2
    <3>3. CASE i = k + 1 /\ i = 1
      BY <3>3
    <3> QED BY <3>1, <3>2, <3>3
  <2> HIDE DEF g
  <2> QED BY <2>2
<1> HIDE DEF T
<1>3. Nat \subseteq T
  BY <1>1, <1>2, NatSetInduction
<1>4. \E f : Rec(f, Len(s))
  BY <1>3 DEF T
<1> DEFINE F == CHOOSE f : Rec(f, Len(s))
<1>5. Rec(F, Len(s))
  BY <1>4, Zenon
<1>6. Len(s) # 0
  OBVIOUS
<1>7. FlattenSeq(s) = F[Len(s)]
  BY <1>6, Zenon DEF FlattenSeq, Cat
<1> HIDE DEF F
<1> QED
  BY <1>5, <1>7

\* What FlattenSeq returns: a sequence of elements of its argument's elements.
LEMMA FlattenFacts ==
  ASSUME NEW s, IsSeq(s), \A m \in DOMAIN s : IsSeq(s[m])
  PROVE  /\ IsSeq(FlattenSeq(s))
         /\ \A k \in DOMAIN FlattenSeq(s) :
              \E m \in DOMAIN s : \E j \in DOMAIN s[m] : FlattenSeq(s)[k] = s[m][j]
<1>1. Len(s) \in Nat /\ DOMAIN s = 1..Len(s)
  BY IsSeqDomain
<1>2. CASE Len(s) = 0
  <2>1. FlattenSeq(s) = s
    BY <1>2, Zenon DEF FlattenSeq
  <2>2. DOMAIN s = {}
    BY <1>1, <1>2
  <2> QED BY <2>1, <2>2
<1>3. CASE Len(s) # 0
  <2>1. PICK f : /\ f = [i \in 1..Len(s) |-> IF i = 1 THEN s[i] ELSE Cat(f[i - 1], s[i])]
                 /\ FlattenSeq(s) = f[Len(s)]
    BY <1>1, <1>3, FlattenDef
  <2> DEFINE From(q) == \A k \in DOMAIN q : \E m \in DOMAIN s : \E j \in DOMAIN s[m] : q[k] = s[m][j]
             T == {i \in Nat : i \in 1..Len(s) => IsSeq(f[i]) /\ From(f[i])}
  <2>2. 0 \in T
    OBVIOUS
  <2>3. ASSUME NEW i \in Nat, i \in T PROVE i + 1 \in T
    <3> SUFFICES ASSUME i + 1 \in 1..Len(s) PROVE IsSeq(f[i + 1]) /\ From(f[i + 1])
      OBVIOUS
    <3>1. CASE i = 0
      <4>1. f[i + 1] = s[i + 1]
        BY <2>1, <3>1
      <4> QED BY <1>1, <3>1, <4>1
    <3>2. CASE i # 0
      <4>1. f[i + 1] = Cat(f[i], s[i + 1])
        BY <2>1, <3>2
      <4>2. i \in 1..Len(s)
        BY <1>1, <3>2
      <4>3. IsSeq(f[i]) /\ From(f[i]) /\ IsSeq(s[i + 1])
        BY <1>1, <2>3, <4>2
      <4>4. /\ IsSeq(f[i + 1])
            /\ \A k \in DOMAIN f[i + 1] :
                 \/ k \in DOMAIN f[i] /\ f[i + 1][k] = f[i][k]
                 \/ k - Len(f[i]) \in DOMAIN s[i + 1] /\ f[i + 1][k] = s[i + 1][k - Len(f[i])]
        BY <4>1, <4>3, CatIsSeq
      <4>5. From(f[i + 1])
        BY <1>1, <4>3, <4>4
      <4> QED BY <4>4, <4>5
    <3> QED BY <3>1, <3>2
  <2> HIDE DEF T
  <2>4. Nat \subseteq T
    BY <2>2, <2>3, NatSetInduction
  <2>5. Len(s) \in 1..Len(s)
    BY <1>1, <1>3
  <2>6. Len(s) \in T
    BY <1>1, <2>4
  <2>7. IsSeq(f[Len(s)]) /\ From(f[Len(s)])
    BY <2>5, <2>6 DEF T
  <2>8. FlattenSeq(s) = f[Len(s)]
    BY <2>1
  <2> QED BY <2>7, <2>8
<1> QED BY <1>2, <1>3

----------------------------------------------------------------------------
(* Plans.                                                                  *)

\* A file tree: finitely many paths, each a sequence of segments.
Tree(t) == IsFiniteSet(DOMAIN t) /\ \A p \in DOMAIN t : IsSeq(p)

\* A loop over finitely many map keys emits a sequence of what its body emits.
LEMMA EmittedFacts ==
  ASSUME NEW out, IsFiniteSet(DOMAIN out), \A p \in DOMAIN out : IsSeq(out[p]), NEW e \in Emitted(out)
  PROVE  IsSeq(e) /\ \A k \in DOMAIN e : \E p \in DOMAIN out : \E j \in DOMAIN out[p] : e[k] = out[p][j]
<1>0. PICK order \in SetToSeqs(DOMAIN out) : e = FlattenSeq([i \in DOMAIN order |-> out[order[i]]])
  BY Zenon DEF Emitted
<1> DEFINE n == Cardinality(DOMAIN out)
           s == [i \in DOMAIN order |-> out[order[i]]]
<1>1. n \in Nat
  BY FS_CardinalityType
<1>2. order \in [1..n -> DOMAIN out]
  BY DEF SetToSeqs
<1>3. DOMAIN s = 1..n /\ s = [i \in DOMAIN s |-> s[i]]
  BY <1>2
<1>4. IsSeq(s)
  BY <1>1, <1>3, FunctionIsSeq
<1>5. \A m \in DOMAIN s : order[m] \in DOMAIN out /\ s[m] = out[order[m]]
  BY <1>2
<1>6. \A m \in DOMAIN s : IsSeq(s[m])
  BY <1>5
<1>7. e = FlattenSeq(s)
  BY <1>0, Zenon
<1> HIDE DEF s
<1>8. IsSeq(e) /\ \A k \in DOMAIN e : \E m \in DOMAIN s : \E j \in DOMAIN s[m] : e[k] = s[m][j]
  BY <1>4, <1>6, <1>7, FlattenFacts
<1> QED BY <1>5, <1>8

UploadOps   == {"create_dir_remote", "upload_file", "delete_remote"}
DownloadOps == {"create_dir_local", "download_file", "delete_local"}

\* What the executor relies on in an action of a plan.
PlannedAct(task, a) ==
  /\ a.op \in Ops /\ a.isDir \in BOOLEAN
  /\ IsSeq(a.lp) /\ IsSeq(a.rp) /\ IsSeq(a.src)
  /\ a.op \in MoveOps => a.src # a.rel
  /\ a.op \in DeleteOps => task.mirror
  /\ task.direction = "upload" => a.op \in UploadOps
  /\ task.direction = "download" => a.op \in DownloadOps
PlannedSeq(task, s) == IsSeq(s) /\ \A k \in DOMAIN s : PlannedAct(task, s[k])

\* The actions that are about one path.
LEMMA OneAct ==
  ASSUME NEW task, NEW a, PlannedAct(task, a)
  PROVE  PlannedSeq(task, <<a>>)
BY OneIsSeq DEF PlannedSeq

LEMMA TwoActs ==
  ASSUME NEW task, NEW a, NEW b, PlannedAct(task, a), PlannedAct(task, b)
  PROVE  PlannedSeq(task, <<a, b>>)
<1>1. <<a, b>> \in Seq({a, b}) /\ DOMAIN <<a, b>> = {1, 2} /\ <<a, b>>[1] = a /\ <<a, b>>[2] = b
  OBVIOUS
<1>2. IsSeq(<<a, b>>)
  BY <1>1, SeqIsSeq
<1> QED BY <1>1, <1>2 DEF PlannedSeq

\* A path without its trailing slash.
LEMMA JoinedIsSeq == ASSUME NEW p, IsSeq(p) PROVE IsSeq(Joined(p))
<1>1. p \in Seq(Range(p)) /\ Len(p) \in Nat
  BY IsSeqDomain
<1>2. \A i \in 1..(Len(p) - 1) : p[i] \in Range(p)
  BY <1>1, ElementOfSeq
<1>3. CASE p # <<>> /\ Last(p) = <<>>
  <2>1. Front(p) \in Seq(Range(p))
    BY <1>1, <1>2, SubSeqProperties DEF Front
  <2>2. Joined(p) = Front(p)
    BY <1>3, Zenon DEF Joined
  <2> QED BY <2>1, <2>2, SeqIsSeq
<1>4. CASE ~(p # <<>> /\ Last(p) = <<>>)
  <2>1. Joined(p) = p
    BY <1>4, Zenon DEF Joined
  <2> QED BY <2>1
<1> QED BY <1>3, <1>4

LEMMA SimpleActs ==
  ASSUME NEW task \in Policy, NEW p, IsSeq(p), NEW isDir \in BOOLEAN
  PROVE  /\ task.direction # "download" => PlannedAct(task, createDirRemote(p))
         /\ task.direction # "download" => PlannedAct(task, uploadFile(p))
         /\ task.direction # "upload" => PlannedAct(task, createDirLocal(p))
         /\ task.direction # "upload" => PlannedAct(task, downloadFile(p))
         /\ task.direction # "download" /\ task.mirror => PlannedAct(task, deleteRemote(p, isDir))
         /\ task.direction # "upload" /\ task.mirror => PlannedAct(task, deleteLocal(p, isDir))
<1>1. IsSeq(<<>>) /\ IsSeq(Joined(p))
  BY EmptyIsSeq, JoinedIsSeq
<1> QED
  BY <1>1 DEF PlannedAct, createDirRemote, uploadFile, createDirLocal, downloadFile, deleteRemote,
              deleteLocal, Act, Ops, DirOps, FileOps, MoveOps, ConflictOps, DeleteOps, UploadOps,
              DownloadOps

LEMMA MoveActs ==
  ASSUME NEW task, task.direction = "bidirectional", NEW src, NEW p, IsSeq(src), IsSeq(p), src # p
  PROVE  PlannedAct(task, moveRemote(src, p)) /\ PlannedAct(task, moveLocal(src, p))
<1>1. IsSeq(<<>>)
  BY EmptyIsSeq
<1> QED
  BY <1>1 DEF PlannedAct, moveRemote, moveLocal, Act, Ops, MoveOps, DeleteOps

\* The name of a conflict copy is a path.
LEMMA MarkedIsSeq ==
  ASSUME NEW p, IsSeq(p), NEW mark, NEW v PROVE IsSeq(Marked(p, mark, v))
<1>1. p \in Seq(Range(p)) /\ Len(p) \in Nat
  BY IsSeqDomain
<1> DEFINE last == Last(p) \o <<mark, v>>
           S == Range(p) \cup {last}
<1>2. \A i \in 1..(Len(p) - 1) : p[i] \in S
  BY <1>1, ElementOfSeq
<1> HIDE DEF last
<1>3. last \in S
  OBVIOUS
<1> HIDE DEF S
<1>4. Front(p) \in Seq(S)
  BY <1>1, <1>2, SubSeqProperties DEF Front
<1>5. Append(Front(p), last) \in Seq(S)
  BY <1>3, <1>4, AppendProperties
<1>6. Marked(p, mark, v) = Append(Front(p), last)
  BY Zenon DEF Marked, last
<1> QED BY <1>5, <1>6, SeqIsSeq

LEMMA ConflictActs ==
  ASSUME NEW task, task.direction = "bidirectional", NEW p, IsSeq(p), NEW v
  PROVE  PlannedAct(task, moveConflictLocal(p, v)) /\ PlannedAct(task, moveConflictRemote(p, v))
<1>1. IsSeq(<<>>)
  BY EmptyIsSeq
<1>2. IsSeq(conflictLocalPath(p, v)) /\ IsSeq(conflictRemotePath(p, v))
  BY MarkedIsSeq DEF conflictLocalPath, conflictRemotePath
<1> QED
  BY <1>1, <1>2 DEF PlannedAct, moveConflictLocal, moveConflictRemote, Act, Ops, ConflictOps,
                    MoveOps, DeleteOps

LEMMA ConcatMember ==
  ASSUME NEW A, NEW B, NEW c \in Concat(A, B) PROVE \E a \in A, b \in B : c = a \o b
BY DEF Concat

LEMMA PlannedConcat ==
  ASSUME NEW task, NEW a, NEW b, PlannedSeq(task, a), PlannedSeq(task, b)
  PROVE  PlannedSeq(task, a \o b)
<1>1. /\ IsSeq(a \o b)
      /\ \A i \in DOMAIN (a \o b) : \/ i \in DOMAIN a /\ (a \o b)[i] = a[i]
                                    \/ i - Len(a) \in DOMAIN b /\ (a \o b)[i] = b[i - Len(a)]
  BY ConcatIsSeq DEF PlannedSeq
<1> DEFINE c == a \o b
<1>2. /\ IsSeq(c)
      /\ \A i \in DOMAIN c : \/ i \in DOMAIN a /\ c[i] = a[i]
                             \/ i - Len(a) \in DOMAIN b /\ c[i] = b[i - Len(a)]
  BY <1>1
<1> HIDE DEF c
<1>3. PlannedSeq(task, c)
  BY <1>2 DEF PlannedSeq
<1> QED BY <1>3 DEF c

LEMMA EmittedPlanned ==
  ASSUME NEW task, NEW out, IsFiniteSet(DOMAIN out), \A p \in DOMAIN out : PlannedSeq(task, out[p]),
         NEW e \in Emitted(out)
  PROVE  PlannedSeq(task, e)
<1>1. IsSeq(e) /\ \A k \in DOMAIN e : \E p \in DOMAIN out : \E j \in DOMAIN out[p] : e[k] = out[p][j]
  BY EmittedFacts DEF PlannedSeq
<1> QED BY <1>1 DEF PlannedSeq

\* Two phases one after the other.
LEMMA PhasesPlanned ==
  ASSUME NEW task, NEW A, NEW B, \A a \in A : PlannedSeq(task, a), \A b \in B : PlannedSeq(task, b),
         NEW plan \in Concat(A, B)
  PROVE  PlannedSeq(task, plan)
<1>1. PICK a \in A, b \in B : plan = a \o b
  BY ConcatMember
<1>2. PlannedSeq(task, a \o b)
  BY PlannedConcat
<1> QED BY <1>1, <1>2, Zenon

\* A plan of an upload task.
LEMMA UploadPlanned ==
  ASSUME NEW task \in Policy, task.direction = "upload", NEW snap, NEW rem, Tree(snap), Tree(rem),
         NEW plan \in planUpload(task, snap, rem)
  PROVE  PlannedSeq(task, plan)
<1> DEFINE extras == IF task.mirror THEN DOMAIN rem \ DOMAIN snap ELSE {}
           created == [p \in DOMAIN snap |-> IF snap[p] = Dir THEN <<createDirRemote(p)>>
                                                             ELSE <<uploadFile(p)>>]
           deleted == [p \in extras |-> <<deleteRemote(p, rem[p] = Dir)>>]
<1>1. plan \in Concat(Emitted(created), Emitted(deleted))
  BY Zenon DEF planUpload
<1>2. IsFiniteSet(DOMAIN created) /\ IsFiniteSet(DOMAIN deleted)
  BY FS_EmptySet, FS_Difference DEF Tree
<1>3. \A p \in DOMAIN created : PlannedSeq(task, created[p])
  <2> TAKE p \in DOMAIN created
  <2>1. PlannedAct(task, createDirRemote(p)) /\ PlannedAct(task, uploadFile(p))
    BY SimpleActs DEF Tree
  <2> QED BY <2>1, OneAct
<1>4. \A p \in DOMAIN deleted : PlannedSeq(task, deleted[p])
  <2> TAKE p \in DOMAIN deleted
  <2>1. PlannedAct(task, deleteRemote(p, rem[p] = Dir))
    BY SimpleActs DEF Tree
  <2> QED BY <2>1, OneAct
<1> HIDE DEF created, deleted
<1> QED BY <1>1, <1>2, <1>3, <1>4, EmittedPlanned, PhasesPlanned

\* A plan of a download task.
LEMMA DownloadPlanned ==
  ASSUME NEW task \in Policy, task.direction = "download", NEW snap, NEW rem, Tree(snap), Tree(rem),
         NEW plan \in planDownload(task, snap, rem)
  PROVE  PlannedSeq(task, plan)
<1> DEFINE extras == IF task.mirror THEN DOMAIN snap \ DOMAIN rem ELSE {}
           created == [p \in DOMAIN rem |-> IF rem[p] = Dir THEN <<createDirLocal(p)>>
                                                           ELSE <<downloadFile(p)>>]
           deleted == [p \in extras |-> <<deleteLocal(p, snap[p] = Dir)>>]
<1>1. plan \in Concat(Emitted(created), Emitted(deleted))
  BY Zenon DEF planDownload
<1>2. IsFiniteSet(DOMAIN created) /\ IsFiniteSet(DOMAIN deleted)
  BY FS_EmptySet, FS_Difference DEF Tree
<1>3. \A p \in DOMAIN created : PlannedSeq(task, created[p])
  <2> TAKE p \in DOMAIN created
  <2>1. PlannedAct(task, createDirLocal(p)) /\ PlannedAct(task, downloadFile(p))
    BY SimpleActs DEF Tree
  <2> QED BY <2>1, OneAct
<1>4. \A p \in DOMAIN deleted : PlannedSeq(task, deleted[p])
  <2> TAKE p \in DOMAIN deleted
  <2>1. PlannedAct(task, deleteLocal(p, snap[p] = Dir))
    BY SimpleActs DEF Tree
  <2> QED BY <2>1, OneAct
<1> HIDE DEF created, deleted
<1> QED BY <1>1, <1>2, <1>3, <1>4, EmittedPlanned, PhasesPlanned

\* The pairs detectBidirectionalMoves returns go from a path that only one side
\* has to a path that only the other side has.
LEMMA MovesFacts ==
  ASSUME NEW snap, NEW loc, NEW rem, NEW index, Tree(snap), Tree(rem),
         NEW m \in detectBidirectionalMoves(snap, loc, rem, index)
  PROVE  /\ m.remote \subseteq (DOMAIN rem \ DOMAIN snap) \X (DOMAIN snap \ DOMAIN rem)
         /\ m.local \subseteq (DOMAIN snap \ DOMAIN rem) \X (DOMAIN rem \ DOMAIN snap)
         /\ IsFiniteSet(m.remote) /\ IsFiniteSet(m.local)
<1>0. PICK r \in remoteMatchings(snap, loc, rem, index) :
        \E l \in localMatchings(snap, loc, rem, index, r) : m = [remote |-> r, local |-> l]
  BY DEF detectBidirectionalMoves
<1>1. PICK l \in localMatchings(snap, loc, rem, index, r) : m = [remote |-> r, local |-> l]
  BY <1>0
<1>2. m.remote = r /\ m.local = l
  BY <1>1
<1> DEFINE R == DOMAIN rem \ DOMAIN snap
           L == DOMAIN snap \ DOMAIN rem
<1>3. r \subseteq remoteMoveSources(snap, rem, index) \X remoteMoveTargets(snap, rem)
  BY DEF remoteMatchings, MaximalMatchings
<1>4. l \subseteq localMoveSources(snap, rem, index, Matched(r, 2)) \X localMoveTargets(snap, rem, Matched(r, 1))
  BY DEF localMatchings, MaximalMatchings
<1>5. remoteMoveSources(snap, rem, index) \subseteq R /\ remoteMoveTargets(snap, rem) \subseteq L
  BY DEF remoteMoveSources, remoteMoveTargets
<1>6. /\ localMoveSources(snap, rem, index, Matched(r, 2)) \subseteq L
      /\ localMoveTargets(snap, rem, Matched(r, 1)) \subseteq R
  BY DEF localMoveSources, localMoveTargets
<1>7. r \subseteq R \X L /\ l \subseteq L \X R
  BY <1>3, <1>4, <1>5, <1>6
<1>8. IsFiniteSet(R) /\ IsFiniteSet(L)
  BY FS_Difference DEF Tree
<1> HIDE DEF R, L
<1>9. IsFiniteSet(R \X L) /\ IsFiniteSet(L \X R)
  BY <1>8, FS_Product
<1>10. IsFiniteSet(r) /\ IsFiniteSet(l)
  BY <1>7, <1>9, FS_Subset
<1> QED BY <1>2, <1>7, <1>10 DEF R, L

\* What planBidirectional does about one path.
LEMMA LocalPathPlanned ==
  ASSUME NEW task \in Policy, task.direction = "bidirectional", NEW snap, NEW loc, NEW rem, NEW index,
         NEW p, IsSeq(p)
  PROVE  PlannedSeq(task, actionsFromLocal(task, snap, loc, rem, index, p))
<1> DEFINE v == nextConflictVersion(RowOf(index, p))
           del == shouldDeleteFromIndex(RowOf(index, p), task.mirror)
<1>1. /\ PlannedSeq(task, <<createDirRemote(p)>>) /\ PlannedSeq(task, <<uploadFile(p)>>)
      /\ PlannedSeq(task, <<downloadFile(p)>>)
      /\ task.mirror => PlannedSeq(task, <<deleteLocal(p, FALSE)>>)
  BY SimpleActs, OneAct
<1>2. PlannedSeq(task, <<>>)
  BY EmptyIsSeq DEF PlannedSeq
<1>3. PlannedSeq(task, <<moveConflictLocal(p, v), moveConflictRemote(p, v)>>)
  BY ConflictActs, TwoActs
<1>4. PlannedSeq(task, conflictActions(task, p, index))
  <2> HIDE DEF v
  <2>1. \/ conflictActions(task, p, index) = <<downloadFile(p)>>
        \/ conflictActions(task, p, index) = <<uploadFile(p)>>
        \/ conflictActions(task, p, index) = <<moveConflictLocal(p, v), moveConflictRemote(p, v)>>
    BY DEF conflictActions, Policy, v
  <2> QED BY <1>1, <1>3, <2>1
<1>5. del => task.mirror
  BY DEF shouldDeleteFromIndex
<1> HIDE DEF del
<1>6. \/ actionsFromLocal(task, snap, loc, rem, index, p) \in {<<createDirRemote(p)>>, <<uploadFile(p)>>, <<>>,
                                                               conflictActions(task, p, index)}
      \/ del /\ actionsFromLocal(task, snap, loc, rem, index, p) = <<deleteLocal(p, FALSE)>>
  BY DEF actionsFromLocal, Has, IsDir, IsFile, del
<1> QED BY <1>1, <1>2, <1>4, <1>5, <1>6

LEMMA RemotePathPlanned ==
  ASSUME NEW task \in Policy, task.direction = "bidirectional", NEW rem, NEW index, NEW p, IsSeq(p)
  PROVE  PlannedSeq(task, actionsFromRemote(task, rem, index, p))
<1> DEFINE isDir == rem[p] = Dir
           del == shouldDeleteFromIndex(RowOf(index, p), task.mirror)
<1>1. /\ PlannedSeq(task, <<createDirLocal(p)>>) /\ PlannedSeq(task, <<downloadFile(p)>>)
      /\ task.mirror => PlannedSeq(task, <<deleteRemote(p, isDir)>>)
  BY SimpleActs, OneAct
<1>2. del => task.mirror
  BY DEF shouldDeleteFromIndex
<1>3. \/ del /\ actionsFromRemote(task, rem, index, p) = <<deleteRemote(p, isDir)>>
      \/ actionsFromRemote(task, rem, index, p) \in {<<createDirLocal(p)>>, <<downloadFile(p)>>}
  BY DEF actionsFromRemote
<1> QED BY <1>1, <1>2, <1>3

\* A plan of a bidirectional task.
LEMMA BidirectionalPlanned ==
  ASSUME NEW task \in Policy, task.direction = "bidirectional", NEW snap, NEW loc, NEW rem, NEW index,
         Tree(snap), Tree(rem), NEW m \in detectBidirectionalMoves(snap, loc, rem, index),
         NEW plan \in planBidirectional(task, snap, loc, rem, index, m)
  PROVE  PlannedSeq(task, plan)
<1> DEFINE doneLocal  == Matched(m.remote, 2) \cup Matched(m.local, 1)
           doneRemote == Matched(m.remote, 1) \cup Matched(m.local, 2)
           mr == [pr \in m.remote |-> <<moveRemote(pr[1], pr[2])>>]
           ml == [pr \in m.local |-> <<moveLocal(pr[1], pr[2])>>]
           fl == [p \in DOMAIN snap \ doneLocal |-> actionsFromLocal(task, snap, loc, rem, index, p)]
           fr == [p \in (DOMAIN rem \ DOMAIN snap) \ doneRemote |->
                    actionsFromRemote(task, rem, index, p)]
<1>1. plan \in Concat(Concat(Emitted(mr), Emitted(ml)), Concat(Emitted(fl), Emitted(fr)))
  BY Zenon DEF planBidirectional
<1>2. /\ m.remote \subseteq (DOMAIN rem \ DOMAIN snap) \X (DOMAIN snap \ DOMAIN rem)
      /\ m.local \subseteq (DOMAIN snap \ DOMAIN rem) \X (DOMAIN rem \ DOMAIN snap)
      /\ IsFiniteSet(m.remote) /\ IsFiniteSet(m.local)
  BY MovesFacts
<1>3. \A pr \in m.remote \cup m.local : IsSeq(pr[1]) /\ IsSeq(pr[2]) /\ pr[1] # pr[2]
  BY <1>2 DEF Tree
<1>4. IsFiniteSet(DOMAIN mr) /\ \A pr \in DOMAIN mr : PlannedSeq(task, mr[pr])
  BY <1>2, <1>3, MoveActs, OneAct
<1>5. IsFiniteSet(DOMAIN ml) /\ \A pr \in DOMAIN ml : PlannedSeq(task, ml[pr])
  BY <1>2, <1>3, MoveActs, OneAct
<1>6. IsFiniteSet(DOMAIN fl) /\ \A p \in DOMAIN fl : PlannedSeq(task, fl[p])
  <2>1. IsFiniteSet(DOMAIN fl)
    BY FS_Difference DEF Tree
  <2>2. \A p \in DOMAIN fl : PlannedSeq(task, fl[p])
    BY LocalPathPlanned DEF Tree
  <2> QED BY <2>1, <2>2
<1>7. IsFiniteSet(DOMAIN fr) /\ \A p \in DOMAIN fr : PlannedSeq(task, fr[p])
  <2>1. IsFiniteSet(DOMAIN fr)
    BY FS_Difference DEF Tree
  <2>2. \A p \in DOMAIN fr : PlannedSeq(task, fr[p])
    BY RemotePathPlanned DEF Tree
  <2> QED BY <2>1, <2>2
<1> HIDE DEF mr, ml, fl, fr
<1>8. /\ \A e \in Emitted(mr) \cup Emitted(ml) : PlannedSeq(task, e)
      /\ \A e \in Emitted(fl) \cup Emitted(fr) : PlannedSeq(task, e)
  BY <1>4, <1>5, <1>6, <1>7, EmittedPlanned
<1>9. /\ \A e \in Concat(Emitted(mr), Emitted(ml)) : PlannedSeq(task, e)
      /\ \A e \in Concat(Emitted(fl), Emitted(fr)) : PlannedSeq(task, e)
  BY <1>8, PhasesPlanned
<1> QED BY <1>1, <1>9, PhasesPlanned

\* Every plan of every task is a sequence of actions the executor can handle:
\* moves go somewhere else, deletes happen only in a task that mirrors them, and
\* a one-way task plans nothing that would change its source side.
THEOREM PlansPlanned ==
  ASSUME NEW task \in Policy, NEW snap, NEW loc, NEW rem, NEW index, Tree(snap), Tree(rem),
         NEW plan \in Plans(task, snap, loc, rem, index)
  PROVE  PlannedSeq(task, plan)
<1>0. task.direction \in {"upload", "download", "bidirectional"}
  BY DEF Policy
<1>1. CASE task.direction = "upload"
  <2>1. plan \in planUpload(task, snap, rem)
    BY <1>1 DEF Plans
  <2> QED BY <1>1, <2>1, UploadPlanned
<1>2. CASE task.direction = "download"
  <2>1. plan \in planDownload(task, snap, rem)
    BY <1>2 DEF Plans
  <2> QED BY <1>2, <2>1, DownloadPlanned
<1>3. CASE task.direction = "bidirectional"
  <2>1. \E m \in detectBidirectionalMoves(snap, loc, rem, index) :
          plan \in planBidirectional(task, snap, loc, rem, index, m)
    BY <1>3 DEF Plans
  <2> QED BY <1>3, <2>1, BidirectionalPlanned
<1> QED BY <1>0, <1>1, <1>2, <1>3

----------------------------------------------------------------------------
(* What the trees and the index say for each action of a bidirectional     *)
(* plan.                                                                   *)

\* What is in a concatenation comes from one of its parts.
LEMMA ConcatParts ==
  ASSUME NEW A, NEW B, \A a \in A : IsSeq(a), \A b \in B : IsSeq(b), NEW c \in Concat(A, B)
  PROVE  /\ IsSeq(c)
         /\ \A k \in DOMAIN c : \/ \E a \in A : \E i \in DOMAIN a : c[k] = a[i]
                                \/ \E b \in B : \E i \in DOMAIN b : c[k] = b[i]
<1>1. PICK a \in A, b \in B : c = a \o b
  BY ConcatMember
<1>2. /\ IsSeq(a \o b)
      /\ \A i \in DOMAIN (a \o b) : \/ i \in DOMAIN a /\ (a \o b)[i] = a[i]
                                    \/ i - Len(a) \in DOMAIN b /\ (a \o b)[i] = b[i - Len(a)]
  BY ConcatIsSeq
<1>3. /\ IsSeq(c)
      /\ \A i \in DOMAIN c : \/ i \in DOMAIN a /\ c[i] = a[i]
                             \/ i - Len(a) \in DOMAIN b /\ c[i] = b[i - Len(a)]
  BY <1>1, <1>2, Zenon
<1> QED BY <1>3

\* The actions of a bidirectional plan: the moves, then what the two loops emit.
LEMMA BidirectionalParts ==
  ASSUME NEW task \in Policy, task.direction = "bidirectional", NEW snap, NEW loc, NEW rem, NEW index,
         Tree(snap), Tree(rem), NEW m \in detectBidirectionalMoves(snap, loc, rem, index),
         NEW plan \in planBidirectional(task, snap, loc, rem, index, m), NEW k \in DOMAIN plan
  PROVE  \/ \E pr \in m.remote : plan[k] = moveRemote(pr[1], pr[2])
         \/ \E pr \in m.local : plan[k] = moveLocal(pr[1], pr[2])
         \/ \E p \in DOMAIN snap : \E j \in DOMAIN actionsFromLocal(task, snap, loc, rem, index, p) :
              plan[k] = actionsFromLocal(task, snap, loc, rem, index, p)[j]
         \/ \E p \in DOMAIN rem \ DOMAIN snap : \E j \in DOMAIN actionsFromRemote(task, rem, index, p) :
              plan[k] = actionsFromRemote(task, rem, index, p)[j]
<1> DEFINE doneLocal  == Matched(m.remote, 2) \cup Matched(m.local, 1)
           doneRemote == Matched(m.remote, 1) \cup Matched(m.local, 2)
           mr == [pr \in m.remote |-> <<moveRemote(pr[1], pr[2])>>]
           ml == [pr \in m.local |-> <<moveLocal(pr[1], pr[2])>>]
           fl == [p \in DOMAIN snap \ doneLocal |-> actionsFromLocal(task, snap, loc, rem, index, p)]
           fr == [p \in (DOMAIN rem \ DOMAIN snap) \ doneRemote |->
                    actionsFromRemote(task, rem, index, p)]
           From(e, out) == \A i \in DOMAIN e : \E p \in DOMAIN out : \E j \in DOMAIN out[p] : e[i] = out[p][j]
<1>1. plan \in Concat(Concat(Emitted(mr), Emitted(ml)), Concat(Emitted(fl), Emitted(fr)))
  BY Zenon DEF planBidirectional
<1>2. IsFiniteSet(DOMAIN mr) /\ IsFiniteSet(DOMAIN ml) /\ IsFiniteSet(DOMAIN fl) /\ IsFiniteSet(DOMAIN fr)
  BY MovesFacts, FS_Difference DEF Tree
<1>3. /\ \A pr \in DOMAIN mr : IsSeq(mr[pr])
      /\ \A pr \in DOMAIN ml : IsSeq(ml[pr])
  BY OneIsSeq
<1>4. /\ \A p \in DOMAIN fl : IsSeq(fl[p])
      /\ \A p \in DOMAIN fr : IsSeq(fr[p])
  BY LocalPathPlanned, RemotePathPlanned DEF Tree, PlannedSeq
<1>5. \A pr \in DOMAIN mr : DOMAIN mr[pr] = {1} /\ mr[pr][1] = moveRemote(pr[1], pr[2])
  BY OneIsSeq
<1>6. \A pr \in DOMAIN ml : DOMAIN ml[pr] = {1} /\ ml[pr][1] = moveLocal(pr[1], pr[2])
  BY OneIsSeq
<1>7. /\ \A p \in DOMAIN fl : p \in DOMAIN snap /\ fl[p] = actionsFromLocal(task, snap, loc, rem, index, p)
      /\ \A p \in DOMAIN fr : p \in DOMAIN rem \ DOMAIN snap /\ fr[p] = actionsFromRemote(task, rem, index, p)
      /\ DOMAIN mr = m.remote /\ DOMAIN ml = m.local
  OBVIOUS
<1> HIDE DEF mr, ml, fl, fr
<1>8. /\ \A e \in Emitted(mr) : IsSeq(e) /\ From(e, mr)
      /\ \A e \in Emitted(ml) : IsSeq(e) /\ From(e, ml)
      /\ \A e \in Emitted(fl) : IsSeq(e) /\ From(e, fl)
      /\ \A e \in Emitted(fr) : IsSeq(e) /\ From(e, fr)
  BY <1>2, <1>3, <1>4, EmittedFacts
<1> DEFINE Moves == Concat(Emitted(mr), Emitted(ml))
           Rest  == Concat(Emitted(fl), Emitted(fr))
           In(a, out) == \E p \in DOMAIN out : \E j \in DOMAIN out[p] : a = out[p][j]
<1>9. \A e \in Moves : IsSeq(e) /\ \A i \in DOMAIN e : In(e[i], mr) \/ In(e[i], ml)
  <2> TAKE e \in Moves
  <2>1. /\ IsSeq(e)
        /\ \A i \in DOMAIN e : \/ \E a \in Emitted(mr) : \E j \in DOMAIN a : e[i] = a[j]
                               \/ \E b \in Emitted(ml) : \E j \in DOMAIN b : e[i] = b[j]
    BY <1>8, ConcatParts
  <2> QED BY <1>8, <2>1
<1>10. \A e \in Rest : IsSeq(e) /\ \A i \in DOMAIN e : In(e[i], fl) \/ In(e[i], fr)
  <2> TAKE e \in Rest
  <2>1. /\ IsSeq(e)
        /\ \A i \in DOMAIN e : \/ \E a \in Emitted(fl) : \E j \in DOMAIN a : e[i] = a[j]
                               \/ \E b \in Emitted(fr) : \E j \in DOMAIN b : e[i] = b[j]
    BY <1>8, ConcatParts
  <2> QED BY <1>8, <2>1
<1> HIDE DEF Moves, Rest
<1>11. plan \in Concat(Moves, Rest)
  BY <1>1 DEF Moves, Rest
<1>12. \/ \E a \in Moves : \E i \in DOMAIN a : plan[k] = a[i]
       \/ \E b \in Rest : \E i \in DOMAIN b : plan[k] = b[i]
  BY <1>9, <1>10, <1>11, ConcatParts
<1>13. In(plan[k], mr) \/ In(plan[k], ml) \/ In(plan[k], fl) \/ In(plan[k], fr)
  BY <1>9, <1>10, <1>12
<1> QED BY <1>5, <1>6, <1>7, <1>13

\* The loops over the local and over the remote paths.
LEMMA LocalPathJustified ==
  ASSUME NEW task \in Policy, NEW snap, NEW loc, NEW rem, NEW index, NEW p \in DOMAIN snap,
         NEW j \in DOMAIN actionsFromLocal(task, snap, loc, rem, index, p)
  PROVE  Justified(task, snap, loc, rem, index, actionsFromLocal(task, snap, loc, rem, index, p)[j])
<1> DEFINE s == actionsFromLocal(task, snap, loc, rem, index, p)
           J(a) == Justified(task, snap, loc, rem, index, a)
<1> USE DEF Justified, Act, DeleteOps, ConflictOps, MoveOps
<1>1. CASE snap[p] = Dir
  <2>1. s = <<createDirRemote(p)>>
    BY <1>1 DEF actionsFromLocal
  <2>2. J(createDirRemote(p))
    BY DEF createDirRemote
  <2> QED BY <2>1, <2>2, OneIsSeq
<1>2. CASE snap[p] # Dir /\ ~Has(rem, p)
  <2>1. CASE shouldDeleteFromIndex(RowOf(index, p), task.mirror)
    <3>1. s = <<deleteLocal(p, FALSE)>>
      BY <1>2, <2>1 DEF actionsFromLocal, IsFile, IsDir, Has
    <3>2. J(deleteLocal(p, FALSE))
      BY <1>2, <2>1 DEF deleteLocal, shouldDeleteFromIndex
    <3>3. s[j] = deleteLocal(p, FALSE)
      BY <3>1, OneIsSeq, Zenon
    <3> HIDE DEF s
    <3>4. J(s[j])
      BY <3>2, <3>3
    <3> QED BY <3>4 DEF s
  <2>2. CASE ~shouldDeleteFromIndex(RowOf(index, p), task.mirror)
    <3>1. s = <<uploadFile(p)>>
      BY <1>2, <2>2 DEF actionsFromLocal, IsFile, IsDir, Has
    <3>2. J(uploadFile(p))
      BY <1>2 DEF uploadFile
    <3> QED BY <3>1, <3>2, OneIsSeq
  <2> QED BY <2>1, <2>2
<1>3. CASE snap[p] # Dir /\ IsDir(rem, p)
  <2>1. s = <<>>
    BY <1>3 DEF actionsFromLocal, IsFile, IsDir, Has
  <2> QED BY <2>1, EmptyIsSeq
<1>4. CASE snap[p] # Dir /\ IsFile(rem, p)
  <2>0. IsFile(snap, p) /\ Has(rem, p)
    BY <1>4 DEF IsFile, Has
  <2>1. s = IF sameFile(loc, p, rem, p) THEN <<>> ELSE conflictActions(task, p, index)
    BY <1>4 DEF actionsFromLocal, IsFile, IsDir, Has
  <2>2. CASE sameFile(loc, p, rem, p)
    BY <2>1, <2>2, EmptyIsSeq
  <2>3. CASE ~sameFile(loc, p, rem, p)
    <3> DEFINE v == nextConflictVersion(RowOf(index, p))
    <3>1. CASE task.conflict = "prefer_remote"
      <4>1. s = <<downloadFile(p)>>
        BY <2>1, <2>3, <3>1 DEF conflictActions
      <4>2. J(downloadFile(p))
        BY <1>4, <2>0, <2>3, <3>1 DEF downloadFile
      <4> QED BY <4>1, <4>2, OneIsSeq
    <3>2. CASE task.conflict = "prefer_local"
      <4>1. s = <<uploadFile(p)>>
        BY <2>1, <2>3, <3>2 DEF conflictActions
      <4>2. J(uploadFile(p))
        BY <1>4, <2>0, <2>3, <3>2 DEF uploadFile
      <4> QED BY <4>1, <4>2, OneIsSeq
    <3>3. CASE task.conflict = "keep_both"
      <4> HIDE DEF v
      <4>1. s = <<moveConflictLocal(p, v), moveConflictRemote(p, v)>>
        BY <2>1, <2>3, <3>3 DEF conflictActions, v
      <4>2. J(moveConflictLocal(p, v)) /\ J(moveConflictRemote(p, v))
        BY <1>4, <2>0, <2>3, <3>3 DEF moveConflictLocal, moveConflictRemote
      <4>3. j \in {1, 2} /\ s[j] \in {moveConflictLocal(p, v), moveConflictRemote(p, v)}
        BY <4>1
      <4> QED BY <4>2, <4>3
    <3> QED BY <3>1, <3>2, <3>3 DEF Policy
  <2> QED BY <2>2, <2>3
<1> QED BY <1>1, <1>2, <1>3, <1>4 DEF IsDir, IsFile, Has

LEMMA RemotePathJustified ==
  ASSUME NEW task \in Policy, NEW snap, NEW loc, NEW rem, NEW index, NEW p \in DOMAIN rem \ DOMAIN snap,
         NEW j \in DOMAIN actionsFromRemote(task, rem, index, p)
  PROVE  Justified(task, snap, loc, rem, index, actionsFromRemote(task, rem, index, p)[j])
<1> DEFINE isDir == rem[p] = Dir
           s == actionsFromRemote(task, rem, index, p)
           J(a) == Justified(task, snap, loc, rem, index, a)
<1> USE DEF Justified, Act, DeleteOps, ConflictOps, MoveOps
<1>0. ~Has(snap, p)
  BY DEF Has
<1>1. CASE shouldDeleteFromIndex(RowOf(index, p), task.mirror)
  <2>1. s = <<deleteRemote(p, isDir)>>
    BY <1>1 DEF actionsFromRemote
  <2>2. J(deleteRemote(p, isDir))
    BY <1>0, <1>1 DEF deleteRemote, shouldDeleteFromIndex
  <2> HIDE DEF isDir
  <2> QED BY <2>1, <2>2, OneIsSeq
<1>2. CASE ~shouldDeleteFromIndex(RowOf(index, p), task.mirror)
  <2>1. s = <<createDirLocal(p)>> \/ s = <<downloadFile(p)>>
    BY <1>2 DEF actionsFromRemote
  <2>2. J(createDirLocal(p)) /\ J(downloadFile(p))
    BY <1>0 DEF createDirLocal, downloadFile
  <2> QED BY <2>1, <2>2, OneIsSeq
<1> QED BY <1>1, <1>2

\* The moves.
LEMMA MovesJustified ==
  ASSUME NEW task, NEW snap, NEW loc, NEW rem, NEW index,
         NEW m \in detectBidirectionalMoves(snap, loc, rem, index)
  PROVE  /\ \A pr \in m.remote : Justified(task, snap, loc, rem, index, moveRemote(pr[1], pr[2]))
         /\ \A pr \in m.local : Justified(task, snap, loc, rem, index, moveLocal(pr[1], pr[2]))
<1>0. PICK r \in remoteMatchings(snap, loc, rem, index) :
        \E l \in localMatchings(snap, loc, rem, index, r) : m = [remote |-> r, local |-> l]
  BY DEF detectBidirectionalMoves
<1>1. PICK l \in localMatchings(snap, loc, rem, index, r) : m = [remote |-> r, local |-> l]
  BY <1>0
<1>2. m.remote = r /\ m.local = l
  BY <1>1
<1>3. ASSUME NEW pr \in r
      PROVE  /\ pr[1] \in remoteMoveSources(snap, rem, index) /\ pr[2] \in remoteMoveTargets(snap, rem)
             /\ sameFile(loc, pr[2], rem, pr[1])
  BY DEF remoteMatchings, MaximalMatchings
<1>4. ASSUME NEW pr \in l
      PROVE  /\ pr[1] \in localMoveSources(snap, rem, index, Matched(r, 2))
             /\ pr[2] \in localMoveTargets(snap, rem, Matched(r, 1))
             /\ sameFile(loc, pr[1], rem, pr[2])
  BY DEF localMatchings, MaximalMatchings
<1>5. ASSUME NEW pr \in m.remote PROVE Justified(task, snap, loc, rem, index, moveRemote(pr[1], pr[2]))
  <2>1. /\ ~Has(snap, pr[1]) /\ ~Has(rem, pr[2]) /\ isMoveCandidate(RowOf(index, pr[1]))
        /\ sameFile(loc, pr[2], rem, pr[1])
    BY <1>2, <1>3 DEF remoteMoveSources, remoteMoveTargets, Has
  <2> DEFINE s == pr[1]
             d == pr[2]
  <2> HIDE DEF s, d
  <2>2. Justified(task, snap, loc, rem, index, moveRemote(s, d))
    BY <2>1 DEF Justified, moveRemote, Act, DeleteOps, ConflictOps, MoveOps, s, d
  <2> QED BY <2>2 DEF s, d
<1>6. ASSUME NEW pr \in m.local PROVE Justified(task, snap, loc, rem, index, moveLocal(pr[1], pr[2]))
  <2>1. /\ ~Has(rem, pr[1]) /\ ~Has(snap, pr[2]) /\ isMoveCandidate(RowOf(index, pr[1]))
        /\ sameFile(loc, pr[1], rem, pr[2])
    BY <1>2, <1>4 DEF localMoveSources, localMoveTargets, Has
  <2> DEFINE s == pr[1]
             d == pr[2]
  <2> HIDE DEF s, d
  <2>2. Justified(task, snap, loc, rem, index, moveLocal(s, d))
    BY <2>1 DEF Justified, moveLocal, Act, DeleteOps, ConflictOps, MoveOps, s, d
  <2> QED BY <2>2 DEF s, d
<1> QED BY <1>5, <1>6

\* Whatever the trees, the index and the order of the maps: a bidirectional plan
\* deletes, overwrites, copies and moves only what Justified allows.  In
\* particular the plan of a task that keeps both versions and does not mirror
\* deletes never removes a path or writes over a file it saw.
THEOREM BidirectionalPlansJustified ==
  ASSUME NEW task \in Policy, task.direction = "bidirectional", NEW snap, NEW loc, NEW rem, NEW index,
         Tree(snap), Tree(rem), NEW plan \in Plans(task, snap, loc, rem, index), NEW k \in DOMAIN plan
  PROVE  Justified(task, snap, loc, rem, index, plan[k])
<1>1. PICK m \in detectBidirectionalMoves(snap, loc, rem, index) :
        plan \in planBidirectional(task, snap, loc, rem, index, m)
  BY DEF Plans
<1>2. \/ \E pr \in m.remote : plan[k] = moveRemote(pr[1], pr[2])
      \/ \E pr \in m.local : plan[k] = moveLocal(pr[1], pr[2])
      \/ \E p \in DOMAIN snap : \E j \in DOMAIN actionsFromLocal(task, snap, loc, rem, index, p) :
           plan[k] = actionsFromLocal(task, snap, loc, rem, index, p)[j]
      \/ \E p \in DOMAIN rem \ DOMAIN snap : \E j \in DOMAIN actionsFromRemote(task, rem, index, p) :
           plan[k] = actionsFromRemote(task, rem, index, p)[j]
  BY <1>1, BidirectionalParts
<1> QED BY <1>2, MovesJustified, LocalPathJustified, RemotePathJustified

----------------------------------------------------------------------------
(* No two actions of a plan are about one path.                            *)

ApartSeq(s)    == \A i, j \in DOMAIN s : i < j => Apart(s[i], s[j])
AllApart(a, b) == \A i \in DOMAIN a, j \in DOMAIN b : Apart(a[i], b[j])
Within(s, X)   == \A i \in DOMAIN s : Touched(s[i]) \subseteq X

LEMMA WithinApart ==
  ASSUME NEW X, NEW Y, X \cap Y = {}, NEW a, Within(a, X), NEW b, Within(b, Y) PROVE AllApart(a, b)
<1> SUFFICES ASSUME NEW i \in DOMAIN a, NEW j \in DOMAIN b PROVE Apart(a[i], b[j])
  BY DEF AllApart
<1>1. Touched(a[i]) \subseteq X /\ Touched(b[j]) \subseteq Y
  BY DEF Within
<1>2. Touched(a[i]) \cap Touched(b[j]) = {}
  BY <1>1
<1> QED BY <1>2 DEF Apart

LEMMA CatApart ==
  ASSUME NEW a, IsSeq(a), ApartSeq(a), NEW b, IsSeq(b), ApartSeq(b), AllApart(a, b)
  PROVE  ApartSeq(Cat(a, b))
<1> DEFINE c == Cat(a, b)
<1>1. /\ Len(a) \in Nat /\ DOMAIN a = 1..Len(a) /\ Len(b) \in Nat /\ DOMAIN b = 1..Len(b)
  BY IsSeqDomain
<1>2. \A i \in DOMAIN c : \/ i \in DOMAIN a /\ c[i] = a[i]
                          \/ i - Len(a) \in DOMAIN b /\ c[i] = b[i - Len(a)]
  BY CatIsSeq
<1>3. DOMAIN c \subseteq Nat
  BY CatIsSeq, IsSeqDomain
<1> HIDE DEF c
<1>4. ApartSeq(c)
  <2> SUFFICES ASSUME NEW i \in DOMAIN c, NEW j \in DOMAIN c, i < j PROVE Apart(c[i], c[j])
    BY DEF ApartSeq
  <2>1. CASE i \in DOMAIN a /\ c[i] = a[i] /\ j \in DOMAIN a /\ c[j] = a[j]
    BY <2>1 DEF ApartSeq
  <2>2. CASE /\ i \in DOMAIN a /\ c[i] = a[i]
             /\ j - Len(a) \in DOMAIN b /\ c[j] = b[j - Len(a)]
    BY <2>2 DEF AllApart
  <2>3. CASE /\ i - Len(a) \in DOMAIN b /\ c[i] = b[i - Len(a)]
             /\ j - Len(a) \in DOMAIN b /\ c[j] = b[j - Len(a)]
    <3>1. i - Len(a) < j - Len(a)
      BY <1>1, <1>3
    <3> QED BY <2>3, <3>1 DEF ApartSeq
  <2>4. ~(i - Len(a) \in DOMAIN b /\ j \in DOMAIN a)
    BY <1>1, <1>3
  <2> QED BY <1>2, <2>1, <2>2, <2>3, <2>4
<1> QED BY <1>4 DEF c

LEMMA FlattenApart ==
  ASSUME NEW s, IsSeq(s), \A m \in DOMAIN s : IsSeq(s[m]) /\ ApartSeq(s[m]),
         \A m, n \in DOMAIN s : m < n => AllApart(s[m], s[n])
  PROVE  ApartSeq(FlattenSeq(s))
<1>1. Len(s) \in Nat /\ DOMAIN s = 1..Len(s)
  BY IsSeqDomain
<1>2. CASE Len(s) = 0
  <2>1. FlattenSeq(s) = s
    BY <1>2, Zenon DEF FlattenSeq
  <2>2. DOMAIN s = {}
    BY <1>1, <1>2
  <2> QED BY <2>1, <2>2 DEF ApartSeq
<1>3. CASE Len(s) # 0
  <2>1. PICK f : /\ f = [i \in 1..Len(s) |-> IF i = 1 THEN s[i] ELSE Cat(f[i - 1], s[i])]
                 /\ FlattenSeq(s) = f[Len(s)]
    BY <1>1, <1>3, FlattenDef
  <2> DEFINE From(q, i) == \A k \in DOMAIN q : \E m \in 1..i : \E j \in DOMAIN s[m] : q[k] = s[m][j]
             T == {i \in Nat : i \in 1..Len(s) => IsSeq(f[i]) /\ From(f[i], i) /\ ApartSeq(f[i])}
  <2>2. 0 \in T
    OBVIOUS
  <2>3. ASSUME NEW i \in Nat, i \in T PROVE i + 1 \in T
    <3> SUFFICES ASSUME i + 1 \in 1..Len(s)
                 PROVE  IsSeq(f[i + 1]) /\ From(f[i + 1], i + 1) /\ ApartSeq(f[i + 1])
      OBVIOUS
    <3>0. i + 1 \in DOMAIN s /\ IsSeq(s[i + 1]) /\ ApartSeq(s[i + 1])
      BY <1>1
    <3>1. CASE i = 0
      <4>1. f[i + 1] = s[i + 1]
        BY <2>1, <3>1
      <4> QED BY <3>0, <3>1, <4>1
    <3>2. CASE i # 0
      <4>1. f[i + 1] = Cat(f[i], s[i + 1])
        BY <2>1, <3>2
      <4>2. i \in 1..Len(s)
        BY <1>1, <3>2
      <4>3. IsSeq(f[i]) /\ From(f[i], i) /\ ApartSeq(f[i])
        BY <2>3, <4>2
      <4>4. /\ IsSeq(f[i + 1])
            /\ \A k \in DOMAIN f[i + 1] :
                 \/ k \in DOMAIN f[i] /\ f[i + 1][k] = f[i][k]
                 \/ k - Len(f[i]) \in DOMAIN s[i + 1] /\ f[i + 1][k] = s[i + 1][k - Len(f[i])]
        BY <3>0, <4>1, <4>3, CatIsSeq
      <4>5. From(f[i + 1], i + 1)
        BY <4>3, <4>4
      <4>6. AllApart(f[i], s[i + 1])
        <5> SUFFICES ASSUME NEW k \in DOMAIN f[i], NEW j \in DOMAIN s[i + 1]
                     PROVE  Apart(f[i][k], s[i + 1][j])
          BY DEF AllApart
        <5>1. PICK m \in 1..i : \E x \in DOMAIN s[m] : f[i][k] = s[m][x]
          BY <4>3
        <5>2. m \in DOMAIN s /\ m < i + 1
          BY <1>1, <4>2
        <5>3. AllApart(s[m], s[i + 1])
          BY <3>0, <5>2
        <5> QED BY <5>1, <5>3 DEF AllApart
      <4>7. ApartSeq(f[i + 1])
        BY <3>0, <4>1, <4>3, <4>6, CatApart
      <4> QED BY <4>4, <4>5, <4>7
    <3> QED BY <3>1, <3>2
  <2> HIDE DEF T
  <2>4. Nat \subseteq T
    BY <2>2, <2>3, NatSetInduction
  <2>5. Len(s) \in 1..Len(s) /\ Len(s) \in T
    BY <1>1, <1>3, <2>4
  <2>6. ApartSeq(f[Len(s)])
    BY <2>5 DEF T
  <2> QED BY <2>1, <2>6
<1> QED BY <1>2, <1>3

\* A loop whose rounds are apart.
LEMMA EmittedApart ==
  ASSUME NEW out, IsFiniteSet(DOMAIN out), \A p \in DOMAIN out : IsSeq(out[p]) /\ ApartSeq(out[p]),
         \A p, q \in DOMAIN out : p # q => AllApart(out[p], out[q]), NEW e \in Emitted(out)
  PROVE  ApartSeq(e)
<1>0. PICK order \in SetToSeqs(DOMAIN out) : e = FlattenSeq([i \in DOMAIN order |-> out[order[i]]])
  BY Zenon DEF Emitted
<1> DEFINE n == Cardinality(DOMAIN out)
           s == [i \in DOMAIN order |-> out[order[i]]]
<1>1. n \in Nat
  BY FS_CardinalityType
<1>2. order \in [1..n -> DOMAIN out] /\ \A i, j \in 1..n : i # j => order[i] # order[j]
  BY DEF SetToSeqs
<1>3. DOMAIN s = 1..n /\ s = [i \in DOMAIN s |-> s[i]]
  BY <1>2
<1>4. IsSeq(s)
  BY <1>1, <1>3, FunctionIsSeq
<1>5. \A m \in DOMAIN s : order[m] \in DOMAIN out /\ s[m] = out[order[m]]
  BY <1>2
<1>6. \A m \in DOMAIN s : IsSeq(s[m]) /\ ApartSeq(s[m])
  BY <1>5
<1>7. \A m, k \in DOMAIN s : m < k => AllApart(s[m], s[k])
  <2> SUFFICES ASSUME NEW m \in DOMAIN s, NEW k \in DOMAIN s, m < k PROVE AllApart(s[m], s[k])
    OBVIOUS
  <2>1. order[m] # order[k]
    BY <1>1, <1>2, <1>3
  <2> QED BY <1>5, <2>1
<1>8. e = FlattenSeq(s)
  BY <1>0, Zenon
<1> HIDE DEF s
<1> QED BY <1>4, <1>6, <1>7, <1>8, FlattenApart

\* A loop that stays within a set of paths.
LEMMA EmittedWithin ==
  ASSUME NEW out, IsFiniteSet(DOMAIN out), \A p \in DOMAIN out : IsSeq(out[p]),
         NEW X, \A p \in DOMAIN out : Within(out[p], X), NEW e \in Emitted(out)
  PROVE  IsSeq(e) /\ Within(e, X)
<1>1. IsSeq(e) /\ \A k \in DOMAIN e : \E p \in DOMAIN out : \E j \in DOMAIN out[p] : e[k] = out[p][j]
  BY EmittedFacts
<1> QED BY <1>1 DEF Within

\* Two phases that are apart.
LEMMA ConcatApart ==
  ASSUME NEW A, NEW B, NEW X, NEW Y, X \cap Y = {},
         \A a \in A : IsSeq(a) /\ ApartSeq(a) /\ Within(a, X),
         \A b \in B : IsSeq(b) /\ ApartSeq(b) /\ Within(b, Y),
         NEW c \in Concat(A, B)
  PROVE  IsSeq(c) /\ ApartSeq(c) /\ Within(c, X \cup Y)
<1>1. PICK a \in A, b \in B : c = a \o b
  BY ConcatMember
<1>2. AllApart(a, b)
  BY WithinApart
<1>3. ApartSeq(Cat(a, b)) /\ IsSeq(Cat(a, b))
  BY <1>2, CatApart, CatIsSeq
<1>4. c = Cat(a, b)
  BY <1>1, Zenon DEF Cat
<1>5. Within(c, X \cup Y)
  <2>1. \A i \in DOMAIN Cat(a, b) : \/ i \in DOMAIN a /\ Cat(a, b)[i] = a[i]
                                    \/ i - Len(a) \in DOMAIN b /\ Cat(a, b)[i] = b[i - Len(a)]
    BY CatIsSeq
  <2> QED BY <1>4, <2>1 DEF Within
<1> QED BY <1>3, <1>4, <1>5

\* What a loop with one round per path emits.
Round(s, p) == IsSeq(s) /\ ApartSeq(s) /\ Within(s, {p})

LEMMA RoundsApart ==
  ASSUME NEW out, IsFiniteSet(DOMAIN out), \A p \in DOMAIN out : Round(out[p], p), NEW e \in Emitted(out)
  PROVE  IsSeq(e) /\ ApartSeq(e) /\ Within(e, DOMAIN out)
<1>1. \A p, q \in DOMAIN out : p # q => AllApart(out[p], out[q])
  <2> SUFFICES ASSUME NEW p \in DOMAIN out, NEW q \in DOMAIN out, p # q PROVE AllApart(out[p], out[q])
    OBVIOUS
  <2>1. {p} \cap {q} = {}
    OBVIOUS
  <2> QED BY <2>1, WithinApart DEF Round
<1>2. \A p \in DOMAIN out : Within(out[p], DOMAIN out)
  BY DEF Round, Within
<1> QED BY <1>1, <1>2, EmittedApart, EmittedWithin DEF Round

LEMMA OneRound ==
  ASSUME NEW a, NEW X, Touched(a) \subseteq X PROVE IsSeq(<<a>>) /\ ApartSeq(<<a>>) /\ Within(<<a>>, X)
<1>1. IsSeq(<<a>>) /\ DOMAIN <<a>> = {1} /\ <<a>>[1] = a
  BY OneIsSeq
<1> QED BY <1>1 DEF ApartSeq, Within

LEMMA NoRound == ASSUME NEW p PROVE Round(<<>>, p)
BY EmptyIsSeq DEF Round, ApartSeq, Within

LEMMA SimpleRounds ==
  ASSUME NEW p, NEW isDir
  PROVE  /\ Round(<<createDirRemote(p)>>, p) /\ Round(<<createDirLocal(p)>>, p)
         /\ Round(<<uploadFile(p)>>, p) /\ Round(<<downloadFile(p)>>, p)
         /\ Round(<<deleteRemote(p, isDir)>>, p) /\ Round(<<deleteLocal(p, isDir)>>, p)
<1>1. /\ Touched(createDirRemote(p)) = {p} /\ Touched(createDirLocal(p)) = {p}
      /\ Touched(uploadFile(p)) = {p} /\ Touched(downloadFile(p)) = {p}
      /\ Touched(deleteRemote(p, isDir)) = {p} /\ Touched(deleteLocal(p, isDir)) = {p}
  BY DEF Touched, MoveOps, Act, createDirRemote, createDirLocal, uploadFile, downloadFile, deleteRemote,
         deleteLocal
<1> QED BY <1>1, OneRound DEF Round

LEMMA ConflictRound ==
  ASSUME NEW p, NEW v PROVE Round(<<moveConflictLocal(p, v), moveConflictRemote(p, v)>>, p)
<1> DEFINE a == moveConflictLocal(p, v)
           b == moveConflictRemote(p, v)
<1>1. /\ a.op = "move_conflict_local" /\ a.rel = p /\ a.lp = conflictLocalPath(p, v)
      /\ a.cp = conflictRemotePath(p, v)
  BY DEF moveConflictLocal, Act
<1>2. /\ b.op = "move_conflict_remote" /\ b.rel = p /\ b.rp = conflictRemotePath(p, v)
      /\ b.cp = conflictLocalPath(p, v)
  BY DEF moveConflictRemote, Act
<1> HIDE DEF a, b
<1>3. Apart(a, b) /\ Touched(a) = {p} /\ Touched(b) = {p}
  BY <1>1, <1>2 DEF Apart, Touched, MoveOps
<1>4. <<a, b>> \in Seq({a, b}) /\ DOMAIN <<a, b>> = {1, 2} /\ <<a, b>>[1] = a /\ <<a, b>>[2] = b
  OBVIOUS
<1>5. IsSeq(<<a, b>>)
  BY <1>4, SeqIsSeq
<1>6. ApartSeq(<<a, b>>) /\ Within(<<a, b>>, {p})
  BY <1>3, <1>4 DEF ApartSeq, Within
<1>7. Round(<<a, b>>, p)
  BY <1>5, <1>6 DEF Round
<1> QED BY <1>7 DEF a, b

LEMMA UploadApart ==
  ASSUME NEW task, NEW snap, NEW rem, Tree(snap), Tree(rem), NEW plan \in planUpload(task, snap, rem)
  PROVE  ApartSeq(plan)
<1> DEFINE extras == IF task.mirror THEN DOMAIN rem \ DOMAIN snap ELSE {}
           created == [p \in DOMAIN snap |-> IF snap[p] = Dir THEN <<createDirRemote(p)>>
                                                             ELSE <<uploadFile(p)>>]
           deleted == [p \in extras |-> <<deleteRemote(p, rem[p] = Dir)>>]
<1>1. plan \in Concat(Emitted(created), Emitted(deleted))
  BY Zenon DEF planUpload
<1>2. IsFiniteSet(DOMAIN created) /\ IsFiniteSet(DOMAIN deleted) /\ DOMAIN created \cap DOMAIN deleted = {}
  BY FS_EmptySet, FS_Difference DEF Tree
<1>3. /\ \A p \in DOMAIN created : Round(created[p], p)
      /\ \A p \in DOMAIN deleted : Round(deleted[p], p)
  BY SimpleRounds
<1> HIDE DEF created, deleted
<1>4. /\ \A e \in Emitted(created) : IsSeq(e) /\ ApartSeq(e) /\ Within(e, DOMAIN created)
      /\ \A e \in Emitted(deleted) : IsSeq(e) /\ ApartSeq(e) /\ Within(e, DOMAIN deleted)
  BY <1>2, <1>3, RoundsApart
<1> QED BY <1>1, <1>2, <1>4, ConcatApart

LEMMA DownloadApart ==
  ASSUME NEW task, NEW snap, NEW rem, Tree(snap), Tree(rem), NEW plan \in planDownload(task, snap, rem)
  PROVE  ApartSeq(plan)
<1> DEFINE extras == IF task.mirror THEN DOMAIN snap \ DOMAIN rem ELSE {}
           created == [p \in DOMAIN rem |-> IF rem[p] = Dir THEN <<createDirLocal(p)>>
                                                           ELSE <<downloadFile(p)>>]
           deleted == [p \in extras |-> <<deleteLocal(p, snap[p] = Dir)>>]
<1>1. plan \in Concat(Emitted(created), Emitted(deleted))
  BY Zenon DEF planDownload
<1>2. IsFiniteSet(DOMAIN created) /\ IsFiniteSet(DOMAIN deleted) /\ DOMAIN created \cap DOMAIN deleted = {}
  BY FS_EmptySet, FS_Difference DEF Tree
<1>3. /\ \A p \in DOMAIN created : Round(created[p], p)
      /\ \A p \in DOMAIN deleted : Round(deleted[p], p)
  BY SimpleRounds
<1> HIDE DEF created, deleted
<1>4. /\ \A e \in Emitted(created) : IsSeq(e) /\ ApartSeq(e) /\ Within(e, DOMAIN created)
      /\ \A e \in Emitted(deleted) : IsSeq(e) /\ ApartSeq(e) /\ Within(e, DOMAIN deleted)
  BY <1>2, <1>3, RoundsApart
<1> QED BY <1>1, <1>2, <1>4, ConcatApart

\* The bodies of the two loops of planBidirectional.
LEMMA LocalRound ==
  ASSUME NEW task \in Policy, NEW snap, NEW loc, NEW rem, NEW index, NEW p
  PROVE  Round(actionsFromLocal(task, snap, loc, rem, index, p), p)
<1> DEFINE v == nextConflictVersion(RowOf(index, p))
<1>1. Round(<<moveConflictLocal(p, v), moveConflictRemote(p, v)>>, p)
  BY ConflictRound
<1> HIDE DEF v
<1>2. conflictActions(task, p, index) \in {<<downloadFile(p)>>, <<uploadFile(p)>>,
                                           <<moveConflictLocal(p, v), moveConflictRemote(p, v)>>}
  BY DEF conflictActions, Policy, v
<1>3. actionsFromLocal(task, snap, loc, rem, index, p) \in
        {<<createDirRemote(p)>>, <<deleteLocal(p, FALSE)>>, <<uploadFile(p)>>, <<>>,
         conflictActions(task, p, index)}
  BY DEF actionsFromLocal, Has, IsDir, IsFile
<1>4. /\ Round(<<createDirRemote(p)>>, p) /\ Round(<<deleteLocal(p, FALSE)>>, p)
      /\ Round(<<uploadFile(p)>>, p) /\ Round(<<downloadFile(p)>>, p) /\ Round(<<>>, p)
  BY SimpleRounds, NoRound
<1> QED BY <1>1, <1>2, <1>3, <1>4

LEMMA RemoteRound ==
  ASSUME NEW task, NEW rem, NEW index, NEW p
  PROVE  Round(actionsFromRemote(task, rem, index, p), p)
<1> DEFINE isDir == rem[p] = Dir
<1>1. actionsFromRemote(task, rem, index, p) \in
        {<<deleteRemote(p, isDir)>>, <<createDirLocal(p)>>, <<downloadFile(p)>>}
  BY DEF actionsFromRemote
<1>2. /\ Round(<<deleteRemote(p, isDir)>>, p) /\ Round(<<createDirLocal(p)>>, p)
      /\ Round(<<downloadFile(p)>>, p)
  BY SimpleRounds
<1> HIDE DEF isDir
<1> QED BY <1>1, <1>2

\* No path is matched twice, neither as a source nor as a target, nor by both
\* pairs of loops.
LEMMA MatchedOnce ==
  ASSUME NEW snap, NEW loc, NEW rem, NEW index, NEW m \in detectBidirectionalMoves(snap, loc, rem, index)
  PROVE  /\ \A x, y \in m.remote : x[1] = y[1] \/ x[2] = y[2] => x = y
         /\ \A x, y \in m.local : x[1] = y[1] \/ x[2] = y[2] => x = y
         /\ \A x \in m.remote, y \in m.local : y[1] # x[2] /\ y[2] # x[1]
<1>0. PICK r \in remoteMatchings(snap, loc, rem, index) :
        \E l \in localMatchings(snap, loc, rem, index, r) : m = [remote |-> r, local |-> l]
  BY DEF detectBidirectionalMoves
<1>1. PICK l \in localMatchings(snap, loc, rem, index, r) : m = [remote |-> r, local |-> l]
  BY <1>0
<1>2. m.remote = r /\ m.local = l
  BY <1>1
<1>3. \A x, y \in r : x[1] = y[1] \/ x[2] = y[2] => x = y
  BY DEF remoteMatchings, MaximalMatchings
<1>4. \A x, y \in l : x[1] = y[1] \/ x[2] = y[2] => x = y
  BY DEF localMatchings, MaximalMatchings
<1>5. l \subseteq localMoveSources(snap, rem, index, Matched(r, 2)) \X localMoveTargets(snap, rem, Matched(r, 1))
  BY DEF localMatchings, MaximalMatchings
<1>6. ASSUME NEW x \in r, NEW y \in l PROVE y[1] # x[2] /\ y[2] # x[1]
  <2>1. y[1] \notin Matched(r, 2) /\ y[2] \notin Matched(r, 1)
    BY <1>5 DEF localMoveSources, localMoveTargets
  <2> QED BY <2>1 DEF Matched
<1> QED BY <1>2, <1>3, <1>4, <1>6

\* A phase of moves.
LEMMA MovesApart ==
  ASSUME NEW M, IsFiniteSet(M), NEW X, NEW Y, X \cap Y = {}, M \subseteq X \X Y,
         \A x, y \in M : x[1] = y[1] \/ x[2] = y[2] => x = y,
         NEW out, DOMAIN out = M,
         \/ \A pr \in M : out[pr] = <<moveRemote(pr[1], pr[2])>>
         \/ \A pr \in M : out[pr] = <<moveLocal(pr[1], pr[2])>>,
         NEW e \in Emitted(out)
  PROVE  IsSeq(e) /\ ApartSeq(e) /\ Within(e, Matched(M, 1) \cup Matched(M, 2))
<1>1. ASSUME NEW s, NEW d PROVE Touched(moveRemote(s, d)) = {s, d} /\ Touched(moveLocal(s, d)) = {s, d}
  BY DEF Touched, moveRemote, moveLocal, Act, MoveOps
<1>2. ASSUME NEW pr \in M, NEW Z, pr[1] \in Z, pr[2] \in Z
      PROVE  IsSeq(out[pr]) /\ ApartSeq(out[pr]) /\ Within(out[pr], Z)
  <2>1. {pr[1], pr[2]} \subseteq Z
    BY <1>2
  <2>2. PICK a : out[pr] = <<a>> /\ Touched(a) = {pr[1], pr[2]}
    BY <1>1
  <2> QED BY <2>1, <2>2, OneRound
<1>3. \A p, q \in M : p # q => AllApart(out[p], out[q])
  <2> SUFFICES ASSUME NEW p \in M, NEW q \in M, p # q PROVE AllApart(out[p], out[q])
    OBVIOUS
  <2>1. {p[1], p[2]} \cap {q[1], q[2]} = {}
    OBVIOUS
  <2>2. Within(out[p], {p[1], p[2]}) /\ Within(out[q], {q[1], q[2]})
    BY <1>2
  <2> QED BY <2>1, <2>2, WithinApart
<1>4. \A p \in M : IsSeq(out[p]) /\ ApartSeq(out[p]) /\ Within(out[p], Matched(M, 1) \cup Matched(M, 2))
  BY <1>2 DEF Matched
<1> QED BY <1>3, <1>4, EmittedApart, EmittedWithin

LEMMA BidirectionalApart ==
  ASSUME NEW task \in Policy, NEW snap, NEW loc, NEW rem, NEW index, Tree(snap), Tree(rem),
         NEW m \in detectBidirectionalMoves(snap, loc, rem, index),
         NEW plan \in planBidirectional(task, snap, loc, rem, index, m)
  PROVE  ApartSeq(plan)
<1> DEFINE r1 == Matched(m.remote, 1)
           r2 == Matched(m.remote, 2)
           l1 == Matched(m.local, 1)
           l2 == Matched(m.local, 2)
           doneLocal  == r2 \cup l1
           doneRemote == r1 \cup l2
           mr == [pr \in m.remote |-> <<moveRemote(pr[1], pr[2])>>]
           ml == [pr \in m.local |-> <<moveLocal(pr[1], pr[2])>>]
           fl == [p \in DOMAIN snap \ doneLocal |-> actionsFromLocal(task, snap, loc, rem, index, p)]
           fr == [p \in (DOMAIN rem \ DOMAIN snap) \ doneRemote |->
                    actionsFromRemote(task, rem, index, p)]
           R == DOMAIN rem \ DOMAIN snap
           L == DOMAIN snap \ DOMAIN rem
<1>1. plan \in Concat(Concat(Emitted(mr), Emitted(ml)), Concat(Emitted(fl), Emitted(fr)))
  BY Zenon DEF planBidirectional
<1>2. /\ m.remote \subseteq R \X L /\ m.local \subseteq L \X R
      /\ IsFiniteSet(m.remote) /\ IsFiniteSet(m.local)
  BY MovesFacts
<1>3. r1 \subseteq R /\ r2 \subseteq L /\ l1 \subseteq L /\ l2 \subseteq R /\ L \cap R = {}
  BY <1>2 DEF Matched
<1>4. r2 \cap l1 = {} /\ r1 \cap l2 = {}
  BY MatchedOnce DEF Matched
<1>5. DOMAIN mr = m.remote /\ \A pr \in m.remote : mr[pr] = <<moveRemote(pr[1], pr[2])>>
  OBVIOUS
<1>6. DOMAIN ml = m.local /\ \A pr \in m.local : ml[pr] = <<moveLocal(pr[1], pr[2])>>
  OBVIOUS
<1>7. /\ IsFiniteSet(DOMAIN fl) /\ \A p \in DOMAIN fl : Round(fl[p], p)
      /\ IsFiniteSet(DOMAIN fr) /\ \A p \in DOMAIN fr : Round(fr[p], p)
  BY LocalRound, RemoteRound, FS_Difference DEF Tree
<1>8. DOMAIN fl = DOMAIN snap \ doneLocal /\ DOMAIN fr = R \ doneRemote
  OBVIOUS
<1> HIDE DEF mr, ml, fl, fr
<1>9. \A e \in Emitted(mr) : IsSeq(e) /\ ApartSeq(e) /\ Within(e, r1 \cup r2)
  <2> SUFFICES ASSUME NEW e \in Emitted(mr) PROVE IsSeq(e) /\ ApartSeq(e) /\ Within(e, r1 \cup r2)
    OBVIOUS
  <2>1. \A x, y \in m.remote : x[1] = y[1] \/ x[2] = y[2] => x = y
    BY MatchedOnce
  <2>2. R \cap L = {}
    BY <1>3
  <2> HIDE DEF R, L
  <2> QED BY <1>2, <1>5, <2>1, <2>2, MovesApart, Zenon
<1>10. \A e \in Emitted(ml) : IsSeq(e) /\ ApartSeq(e) /\ Within(e, l1 \cup l2)
  <2> SUFFICES ASSUME NEW e \in Emitted(ml) PROVE IsSeq(e) /\ ApartSeq(e) /\ Within(e, l1 \cup l2)
    OBVIOUS
  <2>1. \A x, y \in m.local : x[1] = y[1] \/ x[2] = y[2] => x = y
    BY MatchedOnce
  <2>2. L \cap R = {}
    BY <1>3
  <2> HIDE DEF R, L
  <2> QED BY <1>2, <1>6, <2>1, <2>2, MovesApart, Zenon
<1>11. /\ \A e \in Emitted(fl) : IsSeq(e) /\ ApartSeq(e) /\ Within(e, DOMAIN fl)
       /\ \A e \in Emitted(fr) : IsSeq(e) /\ ApartSeq(e) /\ Within(e, DOMAIN fr)
  BY <1>7, RoundsApart
<1>12. (r1 \cup r2) \cap (l1 \cup l2) = {} /\ DOMAIN fl \cap DOMAIN fr = {}
  BY <1>3, <1>4, <1>8
<1>13. ((r1 \cup r2) \cup (l1 \cup l2)) \cap (DOMAIN fl \cup DOMAIN fr) = {}
  BY <1>3, <1>8
<1> HIDE DEF r1, r2, l1, l2, R, L
<1> DEFINE X == (r1 \cup r2) \cup (l1 \cup l2)
           Y == DOMAIN fl \cup DOMAIN fr
<1>14. \A e \in Concat(Emitted(mr), Emitted(ml)) : IsSeq(e) /\ ApartSeq(e) /\ Within(e, X)
  BY <1>9, <1>10, <1>12, ConcatApart
<1>15. \A e \in Concat(Emitted(fl), Emitted(fr)) : IsSeq(e) /\ ApartSeq(e) /\ Within(e, Y)
  BY <1>11, <1>12, ConcatApart
<1> QED BY <1>1, <1>13, <1>14, <1>15, ConcatApart

\* Whatever the trees, the index, the matching and the order of the maps: no two
\* actions of a plan are about one path, except the two halves of a conflict.
THEOREM PathsApart ==
  ASSUME NEW task \in Policy, NEW snap, NEW loc, NEW rem, NEW index, Tree(snap), Tree(rem),
         NEW plan \in Plans(task, snap, loc, rem, index),
         NEW i \in DOMAIN plan, NEW j \in DOMAIN plan, i < j
  PROVE  Apart(plan[i], plan[j])
<1>0. task.direction \in {"upload", "download", "bidirectional"}
  BY DEF Policy
<1>1. CASE task.direction = "upload"
  <2>1. plan \in planUpload(task, snap, rem)
    BY <1>1 DEF Plans
  <2> QED BY <2>1, UploadApart DEF ApartSeq
<1>2. CASE task.direction = "download"
  <2>1. plan \in planDownload(task, snap, rem)
    BY <1>2 DEF Plans
  <2> QED BY <2>1, DownloadApart DEF ApartSeq
<1>3. CASE task.direction = "bidirectional"
  <2>1. PICK m \in detectBidirectionalMoves(snap, loc, rem, index) :
          plan \in planBidirectional(task, snap, loc, rem, index, m)
    BY <1>3 DEF Plans
  <2>2. ApartSeq(plan)
    BY <2>1, BidirectionalApart
  <2> QED BY <2>2 DEF ApartSeq
<1> QED BY <1>0, <1>1, <1>2, <1>3

----------------------------------------------------------------------------
(* Every path that calls for an action has one.                            *)

Covers(s, p) == \E k \in DOMAIN s : p \in Touched(s[k])

\* Nothing is lost in a concatenation.
LEMMA CatHasBoth ==
  ASSUME NEW a, NEW b, IsSeq(a), IsSeq(b)
  PROVE  /\ IsSeq(Cat(a, b))
         /\ \A i \in DOMAIN a : \E k \in DOMAIN Cat(a, b) : Cat(a, b)[k] = a[i]
         /\ \A i \in DOMAIN b : \E k \in DOMAIN Cat(a, b) : Cat(a, b)[k] = b[i]
<1> DEFINE c == Cat(a, b)
<1>0. c = a \o b
  BY Zenon DEF Cat
<1> HIDE DEF c
<1>1. IsSeq(a \o b)
  BY ConcatIsSeq
<1>2. \A i \in DOMAIN a : i \in DOMAIN (a \o b) /\ (a \o b)[i] = a[i]
  BY ConcatIsSeq
<1>3. \A i \in DOMAIN b : Len(a) + i \in DOMAIN (a \o b) /\ (a \o b)[Len(a) + i] = b[i]
  BY ConcatIsSeq
<1>a. IsSeq(c)
  BY <1>0, <1>1, Zenon
<1>b. \A i \in DOMAIN a : i \in DOMAIN c /\ c[i] = a[i]
  BY <1>0, <1>2, Zenon
<1>c. \A i \in DOMAIN b : Len(a) + i \in DOMAIN c /\ c[Len(a) + i] = b[i]
  BY <1>0, <1>3, Zenon
<1>4. /\ IsSeq(c)
      /\ \A i \in DOMAIN a : \E k \in DOMAIN c : c[k] = a[i]
      /\ \A i \in DOMAIN b : \E k \in DOMAIN c : c[k] = b[i]
  BY <1>a, <1>b, <1>c
<1> QED BY <1>4 DEF c

\* FlattenSeq keeps every element of every element of its argument.
LEMMA FlattenHasAll ==
  ASSUME NEW s, IsSeq(s), \A m \in DOMAIN s : IsSeq(s[m]), NEW m \in DOMAIN s, NEW j \in DOMAIN s[m]
  PROVE  \E k \in DOMAIN FlattenSeq(s) : FlattenSeq(s)[k] = s[m][j]
<1>1. Len(s) \in Nat /\ DOMAIN s = 1..Len(s) /\ Len(s) # 0
  BY IsSeqDomain
<1>2. PICK f : /\ f = [i \in 1..Len(s) |-> IF i = 1 THEN s[i] ELSE Cat(f[i - 1], s[i])]
               /\ FlattenSeq(s) = f[Len(s)]
  BY <1>1, FlattenDef
<1> DEFINE Has2(q, x) == \E k \in DOMAIN q : q[k] = x
           All(q, i)  == \A n \in 1..i : \A x \in DOMAIN s[n] : Has2(q, s[n][x])
           T == {i \in Nat : i \in 1..Len(s) => IsSeq(f[i]) /\ All(f[i], i)}
<1>3. 0 \in T
  OBVIOUS
<1>4. ASSUME NEW i \in Nat, i \in T PROVE i + 1 \in T
  <2> SUFFICES ASSUME i + 1 \in 1..Len(s) PROVE IsSeq(f[i + 1]) /\ All(f[i + 1], i + 1)
    OBVIOUS
  <2>0. i + 1 \in DOMAIN s /\ IsSeq(s[i + 1])
    BY <1>1
  <2>1. CASE i = 0
    <3>1. f[i + 1] = s[i + 1]
      BY <1>2, <2>1
    <3> QED BY <2>0, <2>1, <3>1
  <2>2. CASE i # 0
    <3>1. f[i + 1] = Cat(f[i], s[i + 1])
      BY <1>2, <2>2
    <3>2. i \in 1..Len(s)
      BY <1>1, <2>2
    <3>3. IsSeq(f[i]) /\ All(f[i], i)
      BY <1>4, <3>2
    <3>4. /\ IsSeq(f[i + 1])
          /\ \A x \in DOMAIN f[i] : Has2(f[i + 1], f[i][x])
          /\ \A x \in DOMAIN s[i + 1] : Has2(f[i + 1], s[i + 1][x])
      BY <2>0, <3>1, <3>3, CatHasBoth
    <3>5. ASSUME NEW n \in 1..(i + 1), NEW x \in DOMAIN s[n] PROVE Has2(f[i + 1], s[n][x])
      <4>1. CASE n = i + 1
        BY <3>4, <4>1
      <4>2. CASE n \in 1..i
        <5>1. PICK k \in DOMAIN f[i] : f[i][k] = s[n][x]
          BY <3>3, <4>2
        <5> QED BY <3>4, <5>1
      <4> QED BY <4>1, <4>2
    <3> QED BY <3>4, <3>5
  <2> QED BY <2>1, <2>2
<1> HIDE DEF T
<1>5. Nat \subseteq T
  BY <1>3, <1>4, NatSetInduction
<1>6. Len(s) \in T /\ Len(s) \in 1..Len(s) /\ m \in 1..Len(s)
  BY <1>1, <1>5
<1>7. All(f[Len(s)], Len(s))
  BY <1>6 DEF T
<1>8. Has2(f[Len(s)], s[m][j])
  BY <1>6, <1>7
<1>9. FlattenSeq(s) = f[Len(s)]
  BY <1>2
<1> QED BY <1>8, <1>9

\* A loop over a map emits what it has for every key.
LEMMA EmittedHasAll ==
  ASSUME NEW out, IsFiniteSet(DOMAIN out), \A p \in DOMAIN out : IsSeq(out[p]), NEW e \in Emitted(out),
         NEW p \in DOMAIN out, NEW x, Covers(out[p], x)
  PROVE  Covers(e, x)
<1>0. PICK order \in SetToSeqs(DOMAIN out) : e = FlattenSeq([i \in DOMAIN order |-> out[order[i]]])
  BY Zenon DEF Emitted
<1> DEFINE n == Cardinality(DOMAIN out)
           s == [i \in DOMAIN order |-> out[order[i]]]
<1>1. n \in Nat /\ IsFiniteSet(1..n) /\ Cardinality(1..n) = n
  BY FS_CardinalityType, FS_Interval
<1>2. order \in [1..n -> DOMAIN out] /\ \A i, j \in 1..n : i # j => order[i] # order[j]
  BY DEF SetToSeqs
<1>3. order \in Injection(1..n, DOMAIN out)
  BY <1>2 DEF Injection, IsInjective
<1>4. order \in Surjection(1..n, DOMAIN out)
  BY <1>1, <1>3, FS_Injection
<1>5. PICK m \in 1..n : order[m] = p
  BY <1>4 DEF Surjection
<1>6. DOMAIN s = 1..n /\ s = [i \in DOMAIN s |-> s[i]] /\ s[m] = out[p]
  BY <1>2, <1>5
<1>7. IsSeq(s)
  BY <1>1, <1>6, FunctionIsSeq
<1>8. \A i \in DOMAIN s : IsSeq(s[i])
  BY <1>2
<1>9. e = FlattenSeq(s)
  BY <1>0, Zenon
<1> HIDE DEF s, n
<1>10. PICK j \in DOMAIN s[m] : x \in Touched(s[m][j])
  BY <1>6 DEF Covers
<1>11. m \in DOMAIN s
  BY <1>5, <1>6
<1>12. \E k \in DOMAIN FlattenSeq(s) : FlattenSeq(s)[k] = s[m][j]
  BY <1>7, <1>8, <1>10, <1>11, FlattenHasAll, Zenon
<1> QED BY <1>9, <1>10, <1>12 DEF Covers

\* Neither phase of two is lost.
LEMMA ConcatCovers ==
  ASSUME NEW A, NEW B, \A a \in A : IsSeq(a), \A b \in B : IsSeq(b), NEW x,
         (\A a \in A : Covers(a, x)) \/ (\A b \in B : Covers(b, x)), NEW c \in Concat(A, B)
  PROVE  IsSeq(c) /\ Covers(c, x)
<1>1. PICK a \in A, b \in B : c = a \o b
  BY ConcatMember
<1>2. c = Cat(a, b)
  BY <1>1, Zenon DEF Cat
<1> QED BY <1>2, CatHasBoth DEF Covers

LEMMA PhaseCovers ==
  ASSUME NEW out, IsFiniteSet(DOMAIN out), \A p \in DOMAIN out : IsSeq(out[p]), NEW p \in DOMAIN out, NEW x,
         Covers(out[p], x)
  PROVE  \A e \in Emitted(out) : IsSeq(e) /\ Covers(e, x)
BY EmittedFacts, EmittedHasAll

LEMMA OneCovers == ASSUME NEW a, NEW p, p \in Touched(a) PROVE Covers(<<a>>, p)
BY OneIsSeq DEF Covers

LEMMA SimpleCovers ==
  ASSUME NEW p, NEW isDir
  PROVE  /\ Covers(<<createDirRemote(p)>>, p) /\ Covers(<<createDirLocal(p)>>, p)
         /\ Covers(<<uploadFile(p)>>, p) /\ Covers(<<downloadFile(p)>>, p)
         /\ Covers(<<deleteRemote(p, isDir)>>, p) /\ Covers(<<deleteLocal(p, isDir)>>, p)
<1>1. /\ p \in Touched(createDirRemote(p)) /\ p \in Touched(createDirLocal(p))
      /\ p \in Touched(uploadFile(p)) /\ p \in Touched(downloadFile(p))
      /\ p \in Touched(deleteRemote(p, isDir)) /\ p \in Touched(deleteLocal(p, isDir))
  BY DEF Touched, Act, createDirRemote, createDirLocal, uploadFile, downloadFile, deleteRemote, deleteLocal
<1> QED BY <1>1, OneCovers

LEMMA ConflictCovers ==
  ASSUME NEW p, NEW v PROVE Covers(<<moveConflictLocal(p, v), moveConflictRemote(p, v)>>, p)
<1> DEFINE a == moveConflictLocal(p, v)
           b == moveConflictRemote(p, v)
<1>1. a.rel = p
  BY DEF moveConflictLocal, Act
<1> HIDE DEF a, b
<1>2. 1 \in DOMAIN <<a, b>> /\ <<a, b>>[1] = a
  OBVIOUS
<1>3. Covers(<<a, b>>, p)
  BY <1>1, <1>2 DEF Covers, Touched
<1> QED BY <1>3 DEF a, b

\* The loop over the local paths answers what is missing on the remote side and
\* files that differ, the other loop what it visits.
LEMMA LocalCovers ==
  ASSUME NEW task \in Policy, NEW snap, NEW loc, NEW rem, NEW index, NEW p,
         \/ Has(snap, p) /\ ~Has(rem, p)
         \/ IsFile(snap, p) /\ IsFile(rem, p) /\ ~sameFile(loc, p, rem, p)
  PROVE  Covers(actionsFromLocal(task, snap, loc, rem, index, p), p)
<1> DEFINE v == nextConflictVersion(RowOf(index, p))
<1>1. Covers(<<moveConflictLocal(p, v), moveConflictRemote(p, v)>>, p)
  BY ConflictCovers
<1> HIDE DEF v
<1>2. conflictActions(task, p, index) \in {<<downloadFile(p)>>, <<uploadFile(p)>>,
                                           <<moveConflictLocal(p, v), moveConflictRemote(p, v)>>}
  BY DEF conflictActions, Policy, v
<1>3. actionsFromLocal(task, snap, loc, rem, index, p) \in
        {<<createDirRemote(p)>>, <<deleteLocal(p, FALSE)>>, <<uploadFile(p)>>,
         conflictActions(task, p, index)}
  BY DEF actionsFromLocal, Has, IsDir, IsFile
<1>4. /\ Covers(<<createDirRemote(p)>>, p) /\ Covers(<<deleteLocal(p, FALSE)>>, p)
      /\ Covers(<<uploadFile(p)>>, p) /\ Covers(<<downloadFile(p)>>, p)
  BY SimpleCovers
<1> QED BY <1>1, <1>2, <1>3, <1>4

LEMMA RemoteCovers ==
  ASSUME NEW task, NEW rem, NEW index, NEW p
  PROVE  Covers(actionsFromRemote(task, rem, index, p), p)
<1> DEFINE isDir == rem[p] = Dir
<1>1. actionsFromRemote(task, rem, index, p) \in
        {<<deleteRemote(p, isDir)>>, <<createDirLocal(p)>>, <<downloadFile(p)>>}
  BY DEF actionsFromRemote
<1>2. /\ Covers(<<deleteRemote(p, isDir)>>, p) /\ Covers(<<createDirLocal(p)>>, p)
      /\ Covers(<<downloadFile(p)>>, p)
  BY SimpleCovers
<1> HIDE DEF isDir
<1> QED BY <1>1, <1>2

\* The two phases of a one-way plan.
LEMMA TwoPhases ==
  ASSUME NEW f, NEW g, IsFiniteSet(DOMAIN f), IsFiniteSet(DOMAIN g),
         \A q \in DOMAIN f : IsSeq(f[q]) /\ Covers(f[q], q),
         \A q \in DOMAIN g : IsSeq(g[q]) /\ Covers(g[q], q),
         NEW p \in DOMAIN f \cup DOMAIN g, NEW plan \in Concat(Emitted(f), Emitted(g))
  PROVE  Covers(plan, p)
<1>1. (\A e \in Emitted(f) : IsSeq(e)) /\ (\A e \in Emitted(g) : IsSeq(e))
  BY EmittedFacts
<1>2. (\A e \in Emitted(f) : Covers(e, p)) \/ (\A e \in Emitted(g) : Covers(e, p))
  BY PhaseCovers
<1> QED BY <1>1, <1>2, ConcatCovers

LEMMA UploadCovers ==
  ASSUME NEW task, NEW snap, NEW rem, Tree(snap), Tree(rem), NEW plan \in planUpload(task, snap, rem),
         NEW p, Has(snap, p) \/ (task.mirror /\ Has(rem, p))
  PROVE  Covers(plan, p)
<1> DEFINE extras == IF task.mirror THEN DOMAIN rem \ DOMAIN snap ELSE {}
           created == [q \in DOMAIN snap |-> IF snap[q] = Dir THEN <<createDirRemote(q)>>
                                                             ELSE <<uploadFile(q)>>]
           deleted == [q \in extras |-> <<deleteRemote(q, rem[q] = Dir)>>]
<1>1. plan \in Concat(Emitted(created), Emitted(deleted))
  BY Zenon DEF planUpload
<1>2. IsFiniteSet(DOMAIN created) /\ IsFiniteSet(DOMAIN deleted) /\ p \in DOMAIN created \cup DOMAIN deleted
  BY FS_EmptySet, FS_Difference DEF Tree, Has
<1>3. /\ \A q \in DOMAIN created : IsSeq(created[q]) /\ Covers(created[q], q)
      /\ \A q \in DOMAIN deleted : IsSeq(deleted[q]) /\ Covers(deleted[q], q)
  BY SimpleCovers, OneIsSeq
<1> HIDE DEF created, deleted
<1> QED BY <1>1, <1>2, <1>3, TwoPhases

LEMMA DownloadCovers ==
  ASSUME NEW task, NEW snap, NEW rem, Tree(snap), Tree(rem), NEW plan \in planDownload(task, snap, rem),
         NEW p, Has(rem, p) \/ (task.mirror /\ Has(snap, p))
  PROVE  Covers(plan, p)
<1> DEFINE extras == IF task.mirror THEN DOMAIN snap \ DOMAIN rem ELSE {}
           created == [q \in DOMAIN rem |-> IF rem[q] = Dir THEN <<createDirLocal(q)>>
                                                           ELSE <<downloadFile(q)>>]
           deleted == [q \in extras |-> <<deleteLocal(q, snap[q] = Dir)>>]
<1>1. plan \in Concat(Emitted(created), Emitted(deleted))
  BY Zenon DEF planDownload
<1>2. IsFiniteSet(DOMAIN created) /\ IsFiniteSet(DOMAIN deleted) /\ p \in DOMAIN created \cup DOMAIN deleted
  BY FS_EmptySet, FS_Difference DEF Tree, Has
<1>3. /\ \A q \in DOMAIN created : IsSeq(created[q]) /\ Covers(created[q], q)
      /\ \A q \in DOMAIN deleted : IsSeq(deleted[q]) /\ Covers(deleted[q], q)
  BY SimpleCovers, OneIsSeq
<1> HIDE DEF created, deleted
<1> QED BY <1>1, <1>2, <1>3, TwoPhases

\* A phase of moves is about every path it matched.
LEMMA MovesCover ==
  ASSUME NEW M, IsFiniteSet(M), NEW out, DOMAIN out = M,
         \/ \A pr \in M : out[pr] = <<moveRemote(pr[1], pr[2])>>
         \/ \A pr \in M : out[pr] = <<moveLocal(pr[1], pr[2])>>
  PROVE  /\ \A e \in Emitted(out) : IsSeq(e)
         /\ \A p \in Matched(M, 1) \cup Matched(M, 2) : \A e \in Emitted(out) : Covers(e, p)
<1>1. ASSUME NEW s, NEW d PROVE Touched(moveRemote(s, d)) = {s, d} /\ Touched(moveLocal(s, d)) = {s, d}
  BY DEF Touched, moveRemote, moveLocal, Act, MoveOps
<1>2. ASSUME NEW pr \in M PROVE IsSeq(out[pr]) /\ Covers(out[pr], pr[1]) /\ Covers(out[pr], pr[2])
  <2>1. PICK a : out[pr] = <<a>> /\ Touched(a) = {pr[1], pr[2]}
    BY <1>1
  <2> QED BY <2>1, OneIsSeq, OneCovers
<1>3. \A e \in Emitted(out) : IsSeq(e)
  BY <1>2, EmittedFacts
<1>4. ASSUME NEW p \in Matched(M, 1) \cup Matched(M, 2) PROVE \A e \in Emitted(out) : Covers(e, p)
  <2>1. PICK pr \in M : p = pr[1] \/ p = pr[2]
    BY DEF Matched
  <2>2. Covers(out[pr], p)
    BY <1>2, <2>1
  <2> QED BY <1>2, <2>2, PhaseCovers
<1> QED BY <1>3, <1>4

LEMMA BidirectionalCovers ==
  ASSUME NEW task \in Policy, NEW snap, NEW loc, NEW rem, NEW index, Tree(snap), Tree(rem),
         NEW m \in detectBidirectionalMoves(snap, loc, rem, index),
         NEW plan \in planBidirectional(task, snap, loc, rem, index, m), NEW p,
         \/ Has(snap, p) # Has(rem, p)
         \/ IsFile(snap, p) /\ IsFile(rem, p) /\ ~sameFile(loc, p, rem, p)
  PROVE  Covers(plan, p)
<1> DEFINE doneLocal  == Matched(m.remote, 2) \cup Matched(m.local, 1)
           doneRemote == Matched(m.remote, 1) \cup Matched(m.local, 2)
           mr == [pr \in m.remote |-> <<moveRemote(pr[1], pr[2])>>]
           ml == [pr \in m.local |-> <<moveLocal(pr[1], pr[2])>>]
           fl == [q \in DOMAIN snap \ doneLocal |-> actionsFromLocal(task, snap, loc, rem, index, q)]
           fr == [q \in (DOMAIN rem \ DOMAIN snap) \ doneRemote |->
                    actionsFromRemote(task, rem, index, q)]
           R == DOMAIN rem \ DOMAIN snap
           L == DOMAIN snap \ DOMAIN rem
<1>1. plan \in Concat(Concat(Emitted(mr), Emitted(ml)), Concat(Emitted(fl), Emitted(fr)))
  BY Zenon DEF planBidirectional
<1>2. /\ m.remote \subseteq R \X L /\ m.local \subseteq L \X R
      /\ IsFiniteSet(m.remote) /\ IsFiniteSet(m.local)
  BY MovesFacts
<1>3. doneLocal \subseteq L /\ doneRemote \subseteq R
  BY <1>2 DEF Matched
<1>4. /\ DOMAIN mr = m.remote /\ \A pr \in m.remote : mr[pr] = <<moveRemote(pr[1], pr[2])>>
      /\ DOMAIN ml = m.local /\ \A pr \in m.local : ml[pr] = <<moveLocal(pr[1], pr[2])>>
  OBVIOUS
<1>5. /\ DOMAIN fl = DOMAIN snap \ doneLocal
      /\ \A q \in DOMAIN fl : fl[q] = actionsFromLocal(task, snap, loc, rem, index, q)
      /\ DOMAIN fr = R \ doneRemote
      /\ \A q \in DOMAIN fr : fr[q] = actionsFromRemote(task, rem, index, q)
  OBVIOUS
<1>6. IsFiniteSet(DOMAIN fl) /\ IsFiniteSet(DOMAIN fr)
  BY FS_Difference DEF Tree
<1> HIDE DEF mr, ml, fl, fr
<1>7. (\A q \in DOMAIN fl : IsSeq(fl[q])) /\ (\A q \in DOMAIN fr : IsSeq(fr[q]))
  <2>1. ASSUME NEW q \in DOMAIN fl PROVE IsSeq(fl[q])
    <3>1. Round(actionsFromLocal(task, snap, loc, rem, index, q), q)
      BY LocalRound
    <3> QED BY <1>5, <3>1 DEF Round
  <2>2. ASSUME NEW q \in DOMAIN fr PROVE IsSeq(fr[q])
    <3>1. Round(actionsFromRemote(task, rem, index, q), q)
      BY RemoteRound
    <3> QED BY <1>5, <3>1 DEF Round
  <2> QED BY <2>1, <2>2
<1>8. /\ \A e \in Emitted(mr) : IsSeq(e)
      /\ \A e \in Emitted(ml) : IsSeq(e)
  BY <1>2, <1>4, MovesCover
<1>9. (\A e \in Emitted(fl) : IsSeq(e)) /\ (\A e \in Emitted(fr) : IsSeq(e))
  BY <1>6, <1>7, EmittedFacts
<1> DEFINE Moving  == Concat(Emitted(mr), Emitted(ml))
           Looping == Concat(Emitted(fl), Emitted(fr))
<1>10. /\ \A c \in Moving : IsSeq(c)
       /\ \A c \in Looping : IsSeq(c)
  <2>1. ASSUME NEW A, NEW B, \A a \in A : IsSeq(a), \A b \in B : IsSeq(b), NEW c \in Concat(A, B)
        PROVE  IsSeq(c)
    <3>1. PICK a \in A, b \in B : c = a \o b
      BY ConcatMember
    <3>2. IsSeq(a \o b)
      BY <2>1, ConcatIsSeq
    <3> QED BY <3>1, <3>2
  <2> QED BY <1>8, <1>9, <2>1
<1>11. (\A c \in Moving : Covers(c, p)) \/ (\A c \in Looping : Covers(c, p))
  <2>1. CASE p \in Matched(m.remote, 1) \cup Matched(m.remote, 2)
    <3>1. \A e \in Emitted(mr) : Covers(e, p)
      BY <1>2, <1>4, <2>1, MovesCover
    <3> QED BY <1>8, <3>1, ConcatCovers
  <2>2. CASE p \in Matched(m.local, 1) \cup Matched(m.local, 2)
    <3>1. \A e \in Emitted(ml) : Covers(e, p)
      BY <1>2, <1>4, <2>2, MovesCover
    <3> QED BY <1>8, <3>1, ConcatCovers
  <2>3. CASE p \in DOMAIN fl
    <3>1. Covers(fl[p], p)
      BY <1>5, <2>3, LocalCovers DEF Has
    <3>2. \A e \in Emitted(fl) : Covers(e, p)
      BY <1>6, <1>7, <2>3, <3>1, PhaseCovers
    <3> QED BY <1>9, <3>2, ConcatCovers
  <2>4. CASE p \in DOMAIN fr
    <3>1. Covers(fr[p], p)
      BY <1>5, <2>4, RemoteCovers
    <3>2. \A e \in Emitted(fr) : Covers(e, p)
      BY <1>6, <1>7, <2>4, <3>1, PhaseCovers
    <3> QED BY <1>9, <3>2, ConcatCovers
  <2>5. p \in DOMAIN snap \/ p \in R
    BY DEF Has, IsFile
  <2> QED BY <1>3, <1>5, <2>1, <2>2, <2>3, <2>4, <2>5
<1> HIDE DEF Moving, Looping
<1>12. plan \in Concat(Moving, Looping)
  BY <1>1 DEF Moving, Looping
<1> QED BY <1>10, <1>11, <1>12, ConcatCovers

\* Whatever the trees, the index, the matching and the order of the maps: each
\* path that calls for an action is the path of one, so that no matching of moves
\* and no row of the index makes a run overlook a path.
THEOREM PathsCovered ==
  ASSUME NEW task \in Policy, NEW snap, NEW loc, NEW rem, NEW index, Tree(snap), Tree(rem),
         NEW plan \in Plans(task, snap, loc, rem, index), NEW p, Calls(task, snap, loc, rem, p)
  PROVE  \E k \in DOMAIN plan : p \in Touched(plan[k])
<1>0. task.direction \in {"upload", "download", "bidirectional"}
  BY DEF Policy
<1>1. CASE task.direction = "upload"
  <2>1. plan \in planUpload(task, snap, rem)
    BY <1>1 DEF Plans
  <2>2. Has(snap, p) \/ (task.mirror /\ Has(rem, p))
    BY <1>1 DEF Calls
  <2> QED BY <2>1, <2>2, UploadCovers DEF Covers
<1>2. CASE task.direction = "download"
  <2>1. plan \in planDownload(task, snap, rem)
    BY <1>2 DEF Plans
  <2>2. Has(rem, p) \/ (task.mirror /\ Has(snap, p))
    BY <1>2 DEF Calls
  <2> QED BY <2>1, <2>2, DownloadCovers DEF Covers
<1>3. CASE task.direction = "bidirectional"
  <2>1. PICK m \in detectBidirectionalMoves(snap, loc, rem, index) :
          plan \in planBidirectional(task, snap, loc, rem, index, m)
    BY <1>3 DEF Plans
  <2>2. \/ Has(snap, p) # Has(rem, p)
        \/ IsFile(snap, p) /\ IsFile(rem, p) /\ ~sameFile(loc, p, rem, p)
    BY <1>3, Zenon DEF Calls
  <2>3. Covers(plan, p)
    BY <2>1, <2>2, BidirectionalCovers
  <2> QED BY <2>3 DEF Covers
<1> QED BY <1>0, <1>1, <1>2, <1>3
=============================================================================
