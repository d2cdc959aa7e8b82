------------------------------ MODULE Planner ------------------------------
(***************************************************************************)
(* BaselineRunner.Plan: the actions a run of a task enqueues, computed     *)
(* from the local snapshot, the remote snapshot and the file index.        *)
(*                                                                         *)
(* The code iterates over Go maps, whose order is random: a plan is a      *)
(* concatenation of phases, each of which may be emitted in any order.     *)
(* Plans(...) is therefore a set of sequences.                             *)
(***************************************************************************)
EXTENDS FileTree, FileIndex, FiniteSetsExt

\* What a plan depends on in the row of the task: its direction, its conflict
\* policy (anything but the two preferences keeps both), and whether its delete
\* policy is "mirror".
Policy == [direction : {"upload", "download", "bidirectional"},
           conflict : {"prefer_local", "prefer_remote", "keep_both"},
           mirror : BOOLEAN]

\* A SyncAction.  lp and rp are the paths handed to the local and the remote
\* side, src the source of a move, cp the conflict path; <<>> where the code
\* leaves a path empty.  A directory the listing names with a trailing slash
\* keeps it in all but the local path.
Act(op, rel, lp, rp, isDir) ==
  [op |-> op, rel |-> rel, lp |-> lp, rp |-> rp, src |-> <<>>, cp |-> <<>>, isDir |-> isDir]

createDirRemote(p)     == Act("create_dir_remote", p, p, p, TRUE)
createDirLocal(p)      == Act("create_dir_local", p, Joined(p), p, TRUE)
uploadFile(p)          == Act("upload_file", p, p, p, FALSE)
downloadFile(p)        == Act("download_file", p, p, p, FALSE)
deleteRemote(p, isDir) == Act("delete_remote", p, <<>>, p, isDir)
deleteLocal(p, isDir)  == Act("delete_local", p, p, <<>>, isDir)
moveRemote(src, p)     == [Act("move_remote", p, p, p, FALSE) EXCEPT !.src = src]
moveLocal(src, p)      == [Act("move_local", p, p, p, FALSE) EXCEPT !.src = src]
\* Mutant: the remote copy is downloaded over the local file.
OverwriteConflict(p, v) ==
  [Act("move_conflict_local", p, p, p, FALSE) EXCEPT !.cp = conflictRemotePath(p, v)]

moveConflictLocal(p, v) ==
  [Act("move_conflict_local", p, conflictLocalPath(p, v), p, FALSE)
     EXCEPT !.cp = conflictRemotePath(p, v)]
moveConflictRemote(p, v) ==
  [Act("move_conflict_remote", p, p, conflictRemotePath(p, v), FALSE)
     EXCEPT !.cp = conflictLocalPath(p, v)]

RowOf(index, p) == IF p \in DOMAIN index THEN index[p] ELSE NoRow

\* Every order in which a loop over the map keys DOMAIN out may emit the
\* sequences out[p].
Emitted(out) ==
  {FlattenSeq([i \in DOMAIN order |-> out[order[i]]]) : order \in SetToSeqs(DOMAIN out)}

Concat(A, B) == {a \o b : a \in A, b \in B}

----------------------------------------------------------------------------
\* Mutant: remote extras are deleted whatever the task says.
UploadAlwaysMirrors(task, snap, rem) ==
  Concat(Emitted([p \in DOMAIN snap |-> IF snap[p] = Dir THEN <<createDirRemote(p)>>
                                                        ELSE <<uploadFile(p)>>]),
         Emitted([p \in DOMAIN rem \ DOMAIN snap |-> <<deleteRemote(p, rem[p] = Dir)>>]))

planUpload(task, snap, rem) ==
  LET extras == IF task.mirror THEN DOMAIN rem \ DOMAIN snap ELSE {}
  IN  Concat(Emitted([p \in DOMAIN snap |-> IF snap[p] = Dir THEN <<createDirRemote(p)>>
                                                            ELSE <<uploadFile(p)>>]),
             Emitted([p \in extras |-> <<deleteRemote(p, rem[p] = Dir)>>]))

\* Mutant: local extras are never deleted.
DownloadKeepsExtras(task, snap, rem) ==
  Emitted([p \in DOMAIN rem |-> IF rem[p] = Dir THEN <<createDirLocal(p)>> ELSE <<downloadFile(p)>>])

planDownload(task, snap, rem) ==
  LET extras == IF task.mirror THEN DOMAIN snap \ DOMAIN rem ELSE {}
  IN  Concat(Emitted([p \in DOMAIN rem |-> IF rem[p] = Dir THEN <<createDirLocal(p)>>
                                                          ELSE <<downloadFile(p)>>]),
             Emitted([p \in extras |-> <<deleteLocal(p, snap[p] = Dir)>>]))

----------------------------------------------------------------------------
(* Moves.  An old path present on one side only, and synced before, is     *)
(* matched with a new path present on the other side only when the two     *)
(* hold the same content.  The nested loops take the first match they meet *)
(* in a random order: the result is any maximal one-to-one matching.       *)

\* One-to-one relations between Old and New inside Same that cannot be extended.
MaximalMatchings(Old, New, Same(_, _)) ==
  LET Pairs == {pr \in Old \X New : Same(pr[1], pr[2])}
      OneToOne(m) == \A x, y \in m : (x[1] = y[1] \/ x[2] = y[2]) => x = y
  IN  {m \in SUBSET Pairs :
         /\ OneToOne(m)
         /\ \A pr \in Pairs \ m : ~OneToOne(m \cup {pr})}

Matched(m, i) == {pr[i] : pr \in m}

remoteMoveSources(snap, rem, index) ==
  {p \in DOMAIN rem \ DOMAIN snap : isMoveCandidate(RowOf(index, p))}
\* Mutant: a path both sides have may be the target of a move.
OccupiedMoveTargets(snap, rem) == {p \in DOMAIN snap : snap[p] # Dir}

remoteMoveTargets(snap, rem) == {p \in DOMAIN snap \ DOMAIN rem : snap[p] # Dir}
\* Mutant: an index row is enough to be a source.
IndexedMoveSources(snap, rem, index, used) ==
  {p \in (DOMAIN index \ DOMAIN rem) \ used : isMoveCandidate(RowOf(index, p))}

localMoveSources(snap, rem, index, used) ==
  {p \in (DOMAIN snap \ DOMAIN rem) \ used : isMoveCandidate(RowOf(index, p))}
localMoveTargets(snap, rem, used) ==
  {p \in (DOMAIN rem \ DOMAIN snap) \ used : rem[p] # Dir}

\* The first pair of loops.  Files are read from the local tree as it is now,
\* not as it was when the snapshot was taken.  A source left unmatched was
\* compared with every free target, so all of those must have been readable.
remoteMatchings(snap, loc, rem, index) ==
  LET Same(o, n) == readable(loc, n) /\ sameFile(loc, n, rem, o)
      Old == remoteMoveSources(snap, rem, index)
      New == remoteMoveTargets(snap, rem)
  IN  {m \in MaximalMatchings(Old, New, Same) :
         Old \subseteq Matched(m, 1) \/ \A n \in New : readable(loc, n)}

\* The second pair, after the first matched r.  A source that cannot be read
\* goes unnoticed only if no target is free any more when its turn comes.
localMatchings(snap, loc, rem, index, r) ==
  LET Same(o, n) == readable(loc, o) /\ sameFile(loc, o, rem, n)
      Old == localMoveSources(snap, rem, index, Matched(r, 2))
      New == localMoveTargets(snap, rem, Matched(r, 1))
  IN  {m \in MaximalMatchings(Old, New, Same) :
         New \subseteq Matched(m, 2) \/ \A o \in Old : readable(loc, o)}

\* detectBidirectionalMoves, as the set of results it can return.
detectBidirectionalMoves(snap, loc, rem, index) ==
  UNION {{[remote |-> r, local |-> l] : l \in localMatchings(snap, loc, rem, index, r)} :
           r \in remoteMatchings(snap, loc, rem, index)}

\* Mutant: the conflict goes on record before the first copy is made.
ConflictRemoteFirst(task, p, index) ==
  LET v == nextConflictVersion(RowOf(index, p))
  IN  <<moveConflictRemote(p, v), moveConflictLocal(p, v)>>

\* The method planBidirectional for the matching m, from here on.
conflictActions(task, p, index) ==
  CASE task.conflict = "prefer_remote" -> <<downloadFile(p)>>
    [] task.conflict = "prefer_local"  -> <<uploadFile(p)>>
    [] task.conflict = "keep_both"     ->
         LET v == nextConflictVersion(RowOf(index, p))
         IN  <<moveConflictLocal(p, v), moveConflictRemote(p, v)>>

\* What the loop over the local paths emits for p, and the one over the paths
\* that are only remote.
actionsFromLocal(task, snap, loc, rem, index, p) ==
  CASE snap[p] = Dir -> <<createDirRemote(p)>>
    [] snap[p] # Dir /\ ~Has(rem, p) ->
         IF shouldDeleteFromIndex(RowOf(index, p), task.mirror)
         THEN <<deleteLocal(p, FALSE)>> ELSE <<uploadFile(p)>>
    [] snap[p] # Dir /\ IsDir(rem, p) -> <<>>
    [] snap[p] # Dir /\ IsFile(rem, p) ->
         IF sameFile(loc, p, rem, p) THEN <<>> ELSE conflictActions(task, p, index)

\* Mutant: a path that was synced is left alone when deletes are not mirrored.
LeavesSynced(task, rem, index, p) ==
  IF RowOf(index, p).local /\ RowOf(index, p).remote
  THEN IF task.mirror THEN <<deleteRemote(p, rem[p] = Dir)>> ELSE <<>>
  ELSE IF rem[p] = Dir THEN <<createDirLocal(p)>> ELSE <<downloadFile(p)>>

actionsFromRemote(task, rem, index, p) ==
  IF shouldDeleteFromIndex(RowOf(index, p), task.mirror)
  THEN <<deleteRemote(p, rem[p] = Dir)>>
  ELSE IF rem[p] = Dir THEN <<createDirLocal(p)>> ELSE <<downloadFile(p)>>

planBidirectional(task, snap, loc, rem, index, m) ==
  LET doneLocal  == Matched(m.remote, 2) \cup Matched(m.local, 1)
      doneRemote == Matched(m.remote, 1) \cup Matched(m.local, 2)
      Moves == Concat(Emitted([pr \in m.remote |-> <<moveRemote(pr[1], pr[2])>>]),
                      Emitted([pr \in m.local |-> <<moveLocal(pr[1], pr[2])>>]))
  IN  Concat(Moves,
        Concat(Emitted([p \in DOMAIN snap \ doneLocal |->
                          actionsFromLocal(task, snap, loc, rem, index, p)]),
               Emitted([p \in (DOMAIN rem \ DOMAIN snap) \ doneRemote |->
                          actionsFromRemote(task, rem, index, p)])))

\* sameFile fails on a local path that is gone or a directory by now.
comparesReadable(snap, loc, rem) ==
  \A p \in DOMAIN snap \cap DOMAIN rem : snap[p] # Dir /\ rem[p] # Dir => readable(loc, p)

----------------------------------------------------------------------------
\* The plans a run can come up with.
Plans(task, snap, loc, rem, index) ==
  CASE task.direction = "upload"        -> planUpload(task, snap, rem)
    [] task.direction = "download"      -> planDownload(task, snap, rem)
    [] task.direction = "bidirectional" ->
         IF comparesReadable(snap, loc, rem)
         THEN UNION {planBidirectional(task, snap, loc, rem, index, m) :
                       m \in detectBidirectionalMoves(snap, loc, rem, index)}
         ELSE {}

\* Planning returns an error when some comparison it may make reads a local
\* path that is gone or is a directory.
PlanMayFail(task, snap, loc, rem, index) ==
  /\ task.direction = "bidirectional"
  /\ \/ ~comparesReadable(snap, loc, rem)
     \/ /\ remoteMoveSources(snap, rem, index) # {}
        /\ \E n \in remoteMoveTargets(snap, rem) : ~readable(loc, n)
     \/ \E r \in remoteMatchings(snap, loc, rem, index) :
          /\ localMoveTargets(snap, rem, Matched(r, 1)) # {}
          /\ \E o \in localMoveSources(snap, rem, index, Matched(r, 2)) : ~readable(loc, o)

----------------------------------------------------------------------------
\* The trees and the index justify an action of a bidirectional plan: a path is
\* deleted only if its row says that both sides had it and one side has lost it,
\* a file is written over only in a conflict and as the policy says, copies are
\* made only of files that differ, and a move starts from a synced path that the
\* other side has lost and ends on a free path that holds there what is moved.
Justified(task, snap, loc, rem, index, a) ==
  LET Free(p, side)  == ~Has(side, p)
      Conflict(kind) == /\ task.conflict = kind /\ IsFile(snap, a.rel) /\ IsFile(rem, a.rel)
                        /\ ~sameFile(loc, a.rel, rem, a.rel)
  IN  /\ a.op \in DeleteOps =>
           /\ task.mirror /\ RowOf(index, a.rel).local /\ RowOf(index, a.rel).remote
           /\ Free(a.rel, IF a.op = "delete_local" THEN rem ELSE snap)
      /\ a.op = "upload_file" => Free(a.rel, rem) \/ Conflict("prefer_local")
      /\ a.op = "download_file" => Free(a.rel, snap) \/ Conflict("prefer_remote")
      /\ a.op \in ConflictOps => Conflict("keep_both")
      /\ a.op \in MoveOps => isMoveCandidate(RowOf(index, a.src))
      /\ a.op = "move_remote" =>
           Free(a.rel, rem) /\ Free(a.src, snap) /\ sameFile(loc, a.rel, rem, a.src)
      /\ a.op = "move_local" =>
           Free(a.rel, snap) /\ Free(a.src, rem) /\ sameFile(loc, a.src, rem, a.rel)

\* The paths an action is about, and the condition for b to come after a in a
\* plan: they have no path in common, or they are the two halves of a conflict,
\* the local copy first, each naming the other's copy.
Touched(a)  == {a.rel} \cup (IF a.op \in MoveOps THEN {a.src} ELSE {})
Apart(a, b) ==
  \/ Touched(a) \cap Touched(b) = {}
  \/ /\ a.op = "move_conflict_local" /\ b.op = "move_conflict_remote"
     /\ a.rel = b.rel /\ a.cp = b.rp /\ b.cp = a.lp

\* The path p asks for an action: a one-way task brings everything over and, when
\* it mirrors, clears away what is only on the other side; a two-way task looks
\* for what is on one side only and for files that differ.  (It has no answer to
\* a local file where the remote side has a directory.)
Calls(task, snap, loc, rem, p) ==
  CASE task.direction = "upload"   -> Has(snap, p) \/ (task.mirror /\ Has(rem, p))
    [] task.direction = "download" -> Has(rem, p) \/ (task.mirror /\ Has(snap, p))
    [] task.direction = "bidirectional" ->
         \/ Has(snap, p) # Has(rem, p)
         \/ IsFile(snap, p) /\ IsFile(rem, p) /\ ~sameFile(loc, p, rem, p)
=============================================================================
