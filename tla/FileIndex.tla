----------------------------- MODULE FileIndex -----------------------------
(***************************************************************************)
(* The file_index table of one task: what a row holds, how an executed     *)
(* sync action rewrites it, and the decisions the planner and the queue    *)
(* executor take from it.                                                  *)
(*                                                                         *)
(* A row keeps the columns that some decision reads.  Sizes, mtimes, etag, *)
(* hash and direction are written and never read back, so they are left    *)
(* out.  "seen" stands for a non-zero last_sync_at.                        *)
(***************************************************************************)
EXTENDS Naturals

(* SyncActionType *)
DirOps      == {"create_dir_local", "create_dir_remote"}
FileOps     == {"upload_file", "download_file"}
MoveOps     == {"move_local", "move_remote"}
ConflictOps == {"move_conflict_local", "move_conflict_remote"}
DeleteOps   == {"delete_local", "delete_remote"}
Ops         == DirOps \cup FileOps \cup MoveOps \cup ConflictOps \cup DeleteOps

SyncStates == {"", "conflicted", "synced", "tombstoned", "pending", "missing"}

Row == [type : {"", "file", "dir"}, local : BOOLEAN, remote : BOOLEAN,
        state : SyncStates, conflict : BOOLEAN, tomb : BOOLEAN,
        version : Nat, seen : BOOLEAN]

\* The zero FileIndexEntry a Go map yields for a path with no row.
NoRow == [type |-> "", local |-> FALSE, remote |-> FALSE, state |-> "",
          conflict |-> FALSE, tomb |-> FALSE, version |-> 0, seen |-> FALSE]

syncStateForEntry(local, remote, tomb, conflict) ==
  CASE conflict         -> "conflicted"
    [] ~conflict /\ local /\ remote -> "synced"
    [] ~conflict /\ ~(local /\ remote) /\ tomb -> "tombstoned"
    [] ~conflict /\ ~tomb /\ local # remote -> "pending"
    [] ~conflict /\ ~tomb /\ ~local /\ ~remote -> "missing"

entryTypeForAction(op, isDir) == IF isDir \/ op \in DirOps THEN "dir" ELSE "file"

----------------------------------------------------------------------------
(* What an executed action writes: writeActionResult and, for the two      *)
(* rows of a move, writeMoveActionResults.                                 *)

WithState(row) ==
  [row EXCEPT !.state = syncStateForEntry(row.local, row.remote, row.tomb, row.conflict)]

BothSides(prev, type, conflict) ==
  [type |-> type, local |-> TRUE, remote |-> TRUE, state |-> prev.state,
   conflict |-> conflict, tomb |-> FALSE, version |-> prev.version + 1, seen |-> TRUE]

\* A delete clears one side and sets the tombstone; conflict and the other
\* side are kept from the previous row.
Deleted(prev, op, isDir) ==
  [prev EXCEPT !.type    = entryTypeForAction(op, isDir),
               !.local   = IF op = "delete_local" THEN FALSE ELSE @,
               !.remote  = IF op = "delete_remote" THEN FALSE ELSE @,
               !.tomb    = TRUE,
               !.version = @ + 1,
               !.seen    = TRUE]

writeActionResult(prev, op, isDir) ==
  WithState(CASE op \in DirOps      -> BothSides(prev, "dir", FALSE)
              [] op \in FileOps     -> BothSides(prev, "file", FALSE)
              [] op \in ConflictOps -> BothSides(prev, "file", TRUE)
              [] op \in DeleteOps   -> Deleted(prev, op, isDir))

\* Mutant: the source of a move keeps its remote flag.
MoveLeavesRemote(source) ==
  [type |-> "file", local |-> FALSE, remote |-> source.remote, state |-> "missing",
   conflict |-> FALSE, tomb |-> FALSE, version |-> source.version + 1, seen |-> TRUE]

moveSourceRow(source) ==
  [type |-> "file", local |-> FALSE, remote |-> FALSE, state |-> "missing",
   conflict |-> FALSE, tomb |-> FALSE, version |-> source.version + 1, seen |-> TRUE]

moveDestRow(source, dest) ==
  [type |-> "file", local |-> TRUE, remote |-> TRUE, state |-> "synced",
   conflict |-> FALSE, tomb |-> FALSE,
   version |-> (IF source.version > dest.version THEN source.version ELSE dest.version) + 1,
   seen |-> TRUE]

----------------------------------------------------------------------------
(* Decisions taken from a row.                                             *)

isMoveCandidate(row) ==
  row.local /\ row.remote /\ ~row.tomb /\ ~row.conflict /\ row.state = "synced"

\* Mutant: the evidence that both sides existed is not asked for.
DeleteWithoutEvidence(row, mirror) == mirror /\ ~row.tomb

\* Mutant: the delete policy is not looked at.
DeleteUnasked(row, mirror) == row.local /\ row.remote /\ ~row.tomb

\* shouldDeleteLocalFromIndex and shouldDeleteRemoteFromIndex have one body.
shouldDeleteFromIndex(row, mirror) ==
  mirror /\ row.local /\ row.remote /\ ~row.tomb

nextConflictVersion(row) == row.version + 1

\* Mutant: first attempts may be skipped too.
SkipFirstAttempt(attempts, op, row) ==
  op \in FileOps /\ row.seen /\ row.type = "file" /\ isMoveCandidate(row)

\* shouldSkipActionExecution: a retried item is taken as already applied.
shouldSkipActionExecution(attempts, op, row) ==
  /\ attempts > 0
  /\ row.seen
  /\ \/ op \in DirOps /\ row.type = "dir" /\ row.local /\ row.remote
                      /\ ~row.tomb /\ ~row.conflict
     \/ op \in FileOps \cup MoveOps /\ row.type = "file" /\ isMoveCandidate(row)
     \/ op = "delete_local" /\ ~row.local /\ row.tomb
     \/ op = "delete_remote" /\ ~row.remote /\ row.tomb
     \/ op \in ConflictOps /\ row.conflict /\ row.state = "conflicted"

----------------------------------------------------------------------------
(* A row the executor wrote says of itself what syncStateForEntry says,    *)
(* and never both "tombstone" and "present on both sides".                 *)
RowConsistent(row) ==
  /\ row.state = syncStateForEntry(row.local, row.remote, row.tomb, row.conflict)
  /\ row.tomb => ~(row.local /\ row.remote)
  /\ row.version >= 1 /\ row.seen
=============================================================================
