--------------------------- MODULE FileIndex_proofs ---------------------------
(***************************************************************************)
(* What the operators of FileIndex guarantee, for every row and action.    *)
(***************************************************************************)
EXTENDS FileIndex, TLAPS

\* What a lookup may return: a row some action wrote, or the zero entry.
Stored(row) == row \in Row /\ RowConsistent(row)
Lookup(row) == Stored(row) \/ row = NoRow

\* The state syncStateForEntry computes is one of SyncStates.
LEMMA StateType ==
  \A local, remote, tomb, conflict \in BOOLEAN :
    syncStateForEntry(local, remote, tomb, conflict) \in SyncStates
<1> TAKE local, remote, tomb, conflict \in BOOLEAN
<1>1. CASE conflict
  BY <1>1 DEF syncStateForEntry, SyncStates
<1>2. CASE ~conflict /\ local /\ remote
  BY <1>2 DEF syncStateForEntry, SyncStates
<1>3. CASE ~conflict /\ ~(local /\ remote) /\ tomb
  BY <1>3 DEF syncStateForEntry, SyncStates
<1>4. CASE ~conflict /\ ~tomb /\ local # remote
  BY <1>4 DEF syncStateForEntry, SyncStates
<1>5. CASE ~conflict /\ ~tomb /\ ~local /\ ~remote
  BY <1>5 DEF syncStateForEntry, SyncStates
<1> QED
  BY <1>1, <1>2, <1>3, <1>4, <1>5

\* WithState changes the state of a row and nothing else.
LEMMA WithStateFacts ==
  ASSUME NEW row \in Row
  PROVE  LET new == WithState(row)
         IN  /\ new \in Row
             /\ new.state = syncStateForEntry(row.local, row.remote, row.tomb, row.conflict)
             /\ new.type = row.type /\ new.local = row.local /\ new.remote = row.remote
             /\ new.conflict = row.conflict /\ new.tomb = row.tomb
             /\ new.version = row.version /\ new.seen = row.seen
<1> DEFINE st == syncStateForEntry(row.local, row.remote, row.tomb, row.conflict)
<1>1. st \in SyncStates
  BY StateType DEF Row
<1>2. WithState(row) = [row EXCEPT !.state = st]
  BY DEF WithState
<1> HIDE DEF st
<1>3. LET new == [row EXCEPT !.state = st]
      IN  /\ new \in Row /\ new.state = st
          /\ new.type = row.type /\ new.local = row.local /\ new.remote = row.remote
          /\ new.conflict = row.conflict /\ new.tomb = row.tomb
          /\ new.version = row.version /\ new.seen = row.seen
  BY <1>1 DEF Row
<1> QED
  BY <1>2, <1>3 DEF st

\* The columns of a row.
LEMMA Columns ==
  ASSUME NEW row \in Row
  PROVE  /\ row.type \in {"", "file", "dir"} /\ row.state \in SyncStates
         /\ row.local \in BOOLEAN /\ row.remote \in BOOLEAN
         /\ row.tomb \in BOOLEAN /\ row.conflict \in BOOLEAN
         /\ row.version \in Nat /\ row.version + 1 \in Nat
<1>1. /\ row.type \in {"", "file", "dir"} /\ row.state \in SyncStates
      /\ row.local \in BOOLEAN /\ row.remote \in BOOLEAN
      /\ row.tomb \in BOOLEAN /\ row.conflict \in BOOLEAN
  BY DEF Row
<1>2. row.version \in Nat
  BY DEF Row
<1>3. row.version + 1 \in Nat
  BY <1>2
<1> QED
  BY <1>1, <1>2, <1>3

\* The zero entry is a row, so every lookup returns one.
LEMMA LookupRow == ASSUME NEW prev, Lookup(prev) PROVE prev \in Row
<1>1. NoRow \in Row
  BY DEF NoRow, Row, SyncStates
<1> QED
  BY <1>1 DEF Lookup, Stored

\* What BothSides writes.
LEMMA BothSidesFacts ==
  ASSUME NEW prev \in Row, NEW type \in {"file", "dir"}, NEW conflict \in BOOLEAN
  PROVE  LET new == BothSides(prev, type, conflict)
         IN  /\ new \in Row /\ new.type = type /\ new.local = TRUE /\ new.remote = TRUE
             /\ new.conflict = conflict /\ new.tomb = FALSE
             /\ new.version = prev.version + 1 /\ new.seen = TRUE
<1>1. prev.state \in SyncStates /\ prev.version + 1 \in Nat
  BY Columns
<1>2. BothSides(prev, type, conflict) \in Row
  BY <1>1 DEF BothSides, Row
<1> QED
  BY <1>2 DEF BothSides

\* What Deleted writes: the tombstone, and one side cleared.
LEMMA DeletedFacts ==
  ASSUME NEW prev, Lookup(prev), NEW op \in DeleteOps, NEW isDir \in BOOLEAN
  PROVE  LET new == Deleted(prev, op, isDir)
         IN  /\ new \in Row /\ new.tomb = TRUE
             /\ op = "delete_local" => new.local = FALSE /\ new.remote = prev.remote
             /\ op = "delete_remote" => new.remote = FALSE /\ new.local = prev.local
             /\ new.conflict = prev.conflict
             /\ new.version = prev.version + 1 /\ new.seen = TRUE
<1> DEFINE ty  == entryTypeForAction(op, isDir)
           lo  == IF op = "delete_local" THEN FALSE ELSE prev.local
           re  == IF op = "delete_remote" THEN FALSE ELSE prev.remote
           ver == prev.version + 1
<1>1. prev \in Row
  BY LookupRow
<1>2. ty \in {"file", "dir"} /\ lo \in BOOLEAN /\ re \in BOOLEAN /\ ver \in Nat
  BY <1>1, Columns DEF entryTypeForAction
<1>3. Deleted(prev, op, isDir) =
        [prev EXCEPT !.type = ty, !.local = lo, !.remote = re, !.tomb = TRUE, !.version = ver,
                     !.seen = TRUE]
  BY DEF Deleted
<1> HIDE DEF ty, lo, re, ver
<1> DEFINE new == [prev EXCEPT !.type = ty, !.local = lo, !.remote = re, !.tomb = TRUE,
                               !.version = ver, !.seen = TRUE]
<1>4. new \in Row
  BY <1>1, <1>2 DEF Row
<1>5. /\ new.tomb = TRUE /\ new.local = lo /\ new.remote = re /\ new.conflict = prev.conflict
      /\ new.version = ver /\ new.seen = TRUE
  BY <1>1, <1>2 DEF Row
<1> QED
  BY <1>3, <1>4, <1>5 DEF lo, re, ver

----------------------------------------------------------------------------

\* writeActionResult turns whatever the lookup returned into a consistent row
\* with the next version, for every action that is not a move: a delete of one
\* side keeps what the row says of the other, and sync_state is computed from
\* the flags that are written.
THEOREM ActionResultWritten ==
  ASSUME NEW prev, Lookup(prev), NEW op \in Ops \ MoveOps, NEW isDir \in BOOLEAN
  PROVE  /\ Stored(writeActionResult(prev, op, isDir))
         /\ writeActionResult(prev, op, isDir).version = prev.version + 1
<1> DEFINE new == writeActionResult(prev, op, isDir)
<1>1. prev \in Row /\ prev.version \in Nat
  BY LookupRow, Columns
<1>2. ASSUME NEW row \in Row, new = WithState(row), row.seen = TRUE,
             row.version = prev.version + 1, row.tomb => ~(row.local /\ row.remote)
      PROVE  Stored(new) /\ new.version = prev.version + 1
  <2>1. /\ new \in Row /\ new.state = syncStateForEntry(new.local, new.remote, new.tomb, new.conflict)
        /\ new.seen = TRUE /\ new.version = prev.version + 1
        /\ new.tomb => ~(new.local /\ new.remote)
    BY <1>2, WithStateFacts
  <2>2. new.version >= 1
    BY <1>1, <2>1
  <2> QED
    BY <2>1, <2>2 DEF Stored, RowConsistent
<1>3. CASE op \in DeleteOps
  <2> DEFINE row == Deleted(prev, op, isDir)
  <2>1. new = WithState(row)
    BY <1>3 DEF writeActionResult, DirOps, FileOps, ConflictOps, DeleteOps
  <2>2. /\ row \in Row /\ row.seen = TRUE /\ row.version = prev.version + 1
        /\ op = "delete_local" => row.local = FALSE
        /\ op = "delete_remote" => row.remote = FALSE
    BY <1>3, DeletedFacts
  <2>3. ~(row.local /\ row.remote)
    BY <1>3, <2>2 DEF DeleteOps
  <2> QED
    BY <1>2, <2>1, <2>2, <2>3
<1>4. CASE op \notin DeleteOps
  <2>1. \E type \in {"file", "dir"}, conflict \in BOOLEAN :
          new = WithState(BothSides(prev, type, conflict))
    <3>1. \/ new = WithState(BothSides(prev, "dir", FALSE))
          \/ new = WithState(BothSides(prev, "file", FALSE))
          \/ new = WithState(BothSides(prev, "file", TRUE))
      BY <1>4 DEF writeActionResult, Ops, DirOps, FileOps, ConflictOps, DeleteOps, MoveOps
    <3> HIDE DEF new
    <3> QED
      BY <3>1
  <2>2. PICK type \in {"file", "dir"}, conflict \in BOOLEAN :
          new = WithState(BothSides(prev, type, conflict))
    BY <2>1
  <2> DEFINE row == BothSides(prev, type, conflict)
  <2>3. row \in Row
    BY <1>1, BothSidesFacts
  <2>4. row.seen = TRUE /\ row.version = prev.version + 1 /\ row.tomb = FALSE
    BY DEF BothSides
  <2>5. new = WithState(row)
    BY <2>2
  <2> HIDE DEF row
  <2>6. row.tomb => ~(row.local /\ row.remote)
    BY <2>4
  <2> QED
    BY <1>2, <2>3, <2>4, <2>5, <2>6
<1> QED
  BY <1>3, <1>4

\* The two rows a move writes are consistent, and each is newer than the rows
\* that were read: the destination outranks both the source and the row that was
\* there before.
THEOREM MoveResultWritten ==
  ASSUME NEW source, Lookup(source), NEW dest, Lookup(dest)
  PROVE  /\ Stored(moveSourceRow(source)) /\ moveSourceRow(source).version > source.version
         /\ Stored(moveDestRow(source, dest))
         /\ moveDestRow(source, dest).version > source.version
         /\ moveDestRow(source, dest).version > dest.version
<1> DEFINE sv == source.version
           dv == dest.version
           mv == (IF sv > dv THEN sv ELSE dv) + 1
<1>1. sv \in Nat /\ dv \in Nat
  BY LookupRow, Columns
<1>2. sv + 1 \in Nat /\ sv + 1 >= 1 /\ sv + 1 > sv /\ mv \in Nat /\ mv >= 1 /\ mv > sv /\ mv > dv
  BY <1>1
<1>3. Stored(moveSourceRow(source)) /\ moveSourceRow(source).version = sv + 1
  <2> HIDE DEF sv
  <2> DEFINE new == moveSourceRow(source)
  <2>1. new \in Row
    BY <1>2 DEF moveSourceRow, Row, SyncStates, sv
  <2>2. /\ new.local = FALSE /\ new.remote = FALSE /\ new.tomb = FALSE /\ new.conflict = FALSE
        /\ new.state = "missing" /\ new.version = sv + 1 /\ new.seen = TRUE
    BY DEF moveSourceRow, sv
  <2> HIDE DEF new
  <2>3. syncStateForEntry(FALSE, FALSE, FALSE, FALSE) = "missing"
    BY DEF syncStateForEntry
  <2> QED
    BY <1>2, <2>1, <2>2, <2>3 DEF Stored, RowConsistent, new
<1>4. Stored(moveDestRow(source, dest)) /\ moveDestRow(source, dest).version = mv
  <2> HIDE DEF mv
  <2> DEFINE new == moveDestRow(source, dest)
  <2>1. new \in Row
    BY <1>2 DEF moveDestRow, Row, SyncStates, mv
  <2>2. /\ new.local = TRUE /\ new.remote = TRUE /\ new.tomb = FALSE /\ new.conflict = FALSE
        /\ new.state = "synced" /\ new.version = mv /\ new.seen = TRUE
    BY DEF moveDestRow, mv
  <2> HIDE DEF new
  <2>3. syncStateForEntry(TRUE, TRUE, FALSE, FALSE) = "synced"
    BY DEF syncStateForEntry
  <2> QED
    BY <1>2, <2>1, <2>2, <2>3 DEF Stored, RowConsistent, new
<1> QED
  BY <1>2, <1>3, <1>4

\* Retrying an action whose result is already in the index does nothing: the row
\* writeActionResult (writeMoveActionResults) leaves is one that
\* shouldSkipActionExecution recognises, for every action and every row before.
THEOREM AppliedIsSkipped ==
  ASSUME NEW prev, Lookup(prev), NEW source, Lookup(source), NEW isDir \in BOOLEAN,
         NEW attempts \in Nat \ {0}
  PROVE  /\ \A op \in Ops \ MoveOps :
              shouldSkipActionExecution(attempts, op, writeActionResult(prev, op, isDir))
         /\ \A op \in MoveOps :
              shouldSkipActionExecution(attempts, op, moveDestRow(source, prev))
<1>0. prev \in Row /\ attempts > 0
  BY LookupRow
<1>1. ASSUME NEW op \in DeleteOps
      PROVE  shouldSkipActionExecution(attempts, op, writeActionResult(prev, op, isDir))
  <2> DEFINE row == Deleted(prev, op, isDir)
             new == WithState(row)
  <2>1. writeActionResult(prev, op, isDir) = new
    BY <1>1 DEF writeActionResult, DirOps, FileOps, ConflictOps, DeleteOps
  <2>2. /\ row \in Row /\ row.tomb = TRUE /\ row.seen = TRUE
        /\ op = "delete_local" => row.local = FALSE
        /\ op = "delete_remote" => row.remote = FALSE
    BY DeletedFacts
  <2>3. /\ new.tomb = TRUE /\ new.seen = TRUE
        /\ op = "delete_local" => new.local = FALSE
        /\ op = "delete_remote" => new.remote = FALSE
    BY <2>2, WithStateFacts
  <2> QED
    BY <1>0, <1>1, <2>1, <2>3 DEF shouldSkipActionExecution, DeleteOps
<1>2. ASSUME NEW type \in {"file", "dir"}, NEW conflict \in BOOLEAN, NEW new,
             new = WithState(BothSides(prev, type, conflict))
      PROVE  /\ new.type = type /\ new.local = TRUE /\ new.remote = TRUE /\ new.tomb = FALSE
             /\ new.conflict = conflict /\ new.seen = TRUE
             /\ new.state = syncStateForEntry(TRUE, TRUE, FALSE, conflict)
  <2> DEFINE row == BothSides(prev, type, conflict)
  <2>1. /\ row \in Row /\ row.type = type /\ row.local = TRUE /\ row.remote = TRUE
        /\ row.tomb = FALSE /\ row.conflict = conflict /\ row.seen = TRUE
    <3>1. prev \in Row
      BY <1>0
    <3>2. BothSides(prev, type, conflict) \in Row
      BY <3>1, BothSidesFacts
    <3> QED
      BY <3>2 DEF BothSides
  <2>2. /\ new.type = row.type /\ new.local = row.local /\ new.remote = row.remote
        /\ new.conflict = row.conflict /\ new.tomb = row.tomb /\ new.seen = row.seen
        /\ new.state = syncStateForEntry(row.local, row.remote, row.tomb, row.conflict)
    BY <1>2, <2>1, WithStateFacts
  <2> HIDE DEF row
  <2> QED
    BY <2>1, <2>2
<1>3. ASSUME NEW op \in DirOps
      PROVE  shouldSkipActionExecution(attempts, op, writeActionResult(prev, op, isDir))
  <2> DEFINE new == writeActionResult(prev, op, isDir)
  <2>1. new = WithState(BothSides(prev, "dir", FALSE))
    BY <1>3 DEF writeActionResult, DirOps, FileOps, ConflictOps, DeleteOps
  <2>2. /\ new.type = "dir" /\ new.local = TRUE /\ new.remote = TRUE /\ new.tomb = FALSE
        /\ new.conflict = FALSE /\ new.seen = TRUE
    BY <1>2, <2>1
  <2> QED
    BY <1>0, <1>3, <2>2 DEF shouldSkipActionExecution
<1>4. ASSUME NEW op \in FileOps
      PROVE  shouldSkipActionExecution(attempts, op, writeActionResult(prev, op, isDir))
  <2> DEFINE new == writeActionResult(prev, op, isDir)
  <2>1. new = WithState(BothSides(prev, "file", FALSE))
    BY <1>4 DEF writeActionResult, DirOps, FileOps, ConflictOps, DeleteOps
  <2>2. /\ new.type = "file" /\ new.local = TRUE /\ new.remote = TRUE /\ new.tomb = FALSE
        /\ new.conflict = FALSE /\ new.seen = TRUE
        /\ new.state = syncStateForEntry(TRUE, TRUE, FALSE, FALSE)
    BY <1>2, <2>1
  <2>3. new.state = "synced"
    BY <2>2 DEF syncStateForEntry
  <2> QED
    BY <1>0, <1>4, <2>2, <2>3 DEF shouldSkipActionExecution, isMoveCandidate
<1>5. ASSUME NEW op \in ConflictOps
      PROVE  shouldSkipActionExecution(attempts, op, writeActionResult(prev, op, isDir))
  <2> DEFINE new == writeActionResult(prev, op, isDir)
  <2>1. new = WithState(BothSides(prev, "file", TRUE))
    BY <1>5 DEF writeActionResult, DirOps, FileOps, ConflictOps, DeleteOps
  <2>2. new.conflict = TRUE /\ new.seen = TRUE /\ new.state = syncStateForEntry(TRUE, TRUE, FALSE, TRUE)
    BY <1>2, <2>1
  <2>3. new.state = "conflicted"
    BY <2>2 DEF syncStateForEntry
  <2> QED
    BY <1>0, <1>5, <2>2, <2>3 DEF shouldSkipActionExecution
<1>6. ASSUME NEW op \in MoveOps
      PROVE  shouldSkipActionExecution(attempts, op, moveDestRow(source, prev))
  <2> DEFINE new == moveDestRow(source, prev)
  <2>1. /\ new.type = "file" /\ new.local = TRUE /\ new.remote = TRUE /\ new.tomb = FALSE
        /\ new.conflict = FALSE /\ new.seen = TRUE /\ new.state = "synced"
    BY DEF moveDestRow
  <2> HIDE DEF new
  <2>2. shouldSkipActionExecution(attempts, op, new)
    BY <1>0, <1>6, <2>1 DEF shouldSkipActionExecution, isMoveCandidate
  <2> QED
    BY <2>2 DEF new
<1> QED
  BY <1>1, <1>3, <1>4, <1>5, <1>6 DEF Ops
===============================================================================
