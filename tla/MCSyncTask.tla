----------------------------- MODULE MCSyncTask -----------------------------
(* Small instances of SyncTask. *)
EXTENDS SyncTask

f == <<<<"f">>>>
g == <<<<"g">>>>
d == <<<<"d">>>>
df == <<<<"d">>, <<"f">>>>
d_f == <<<<"d", "_", "f">>>>

FlatTrees == {<<>>, f :> "A"}
DeepTrees == {<<>>, (d :> Dir) @@ (df :> "A")}

OneWorker  == {"scheduler"}
TwoWorkers == {"scheduler", "poller"}

Of(direction, conflict, mirror) == [direction |-> direction, conflict |-> conflict, mirror |-> mirror]
Budget(edits, faults, crashes, retries) ==
  [edits |-> edits, faults |-> faults, crashes |-> crashes, retries |-> retries]

\* Every kind of edit, between runs, of a task that keeps both versions.
KeepBoth ==
  [task |-> Of("bidirectional", "keep_both", FALSE),
   workers |-> OneWorker, slashed |-> FALSE, trees |-> FlatTrees,
   paths |-> {f, g}, contents |-> {"B", "C"}, edits |-> Edits, faults |-> {}, busy |-> FALSE,
   budget |-> Budget(3, 0, 0, 0), queueCap |-> 9, versionCap |-> 4]

\* A task that mirrors deletes, edited while it runs, with every fault that
\* makes an action fail, a crash and a retry request.
MirrorBusy ==
  [task |-> Of("bidirectional", "prefer_local", TRUE),
   workers |-> OneWorker, slashed |-> FALSE, trees |-> FlatTrees,
   paths |-> {f}, contents |-> {"B"}, edits |-> Edits \ {"local_rename"},
   faults |-> Kinds \ {"http_status"}, busy |-> TRUE,
   budget |-> Budget(2, 1, 1, 1), queueCap |-> 3, versionCap |-> 4]

\* A file whose row has the id of another one's, there from the start or after
\* a rename.
SameId ==
  [KeepBoth EXCEPT !.trees = DeepTrees \cup {(d :> Dir) @@ (df :> "A") @@ (d_f :> "B")},
                   !.paths = {df, d_f}, !.edits = {"local_rename"},
                   !.budget = Budget(1, 0, 0, 0)]

\* A directory, or the file in it, disappears on the remote side, and a new file
\* turns up there.
LostDir ==
  [KeepBoth EXCEPT !.trees = DeepTrees, !.paths = {g}, !.edits = {"remote_write", "remote_remove"},
                   !.contents = {"B"}, !.budget = Budget(2, 0, 0, 0), !.queueCap = 6]

\* The same with a server that lists the directory as d/.
LostDirSlashed ==
  [LostDir EXCEPT !.slashed = TRUE, !.budget = Budget(1, 0, 0, 0)]

\* Requests answered with an error status, while planning or executing.
Refusals ==
  [KeepBoth EXCEPT !.contents = {"B"}, !.faults = {"http_status"},
                   !.budget = Budget(2, 1, 0, 0)]

\* Two versions of a file: a request that fails, is refused or is asked for again
\* between the two halves of their conflict, or a kill there.
Conflict ==
  [KeepBoth EXCEPT !.trees = {f :> "A", f :> "B"}, !.paths = {f}, !.contents = {"C"},
                   !.edits = {"local_write", "remote_write"}, !.faults = Kinds \ {"listing", "error_page"},
                   !.budget = Budget(1, 1, 0, 1), !.queueCap = 6]
ConflictCut == [Conflict EXCEPT !.budget = Budget(1, 0, 1, 0), !.queueCap = 4]

\* A move that a kill cuts short.
CutMove ==
  [KeepBoth EXCEPT !.edits = {"local_rename", "local_remove"}, !.faults = {"lost_reply"},
                   !.budget = Budget(2, 1, 1, 0)]

\* Two workers execute the same task.
Shared ==
  [task |-> Of("bidirectional", "prefer_remote", TRUE),
   workers |-> TwoWorkers, slashed |-> FALSE, trees |-> FlatTrees,
   paths |-> {f}, contents |-> {"B"}, edits |-> {"local_remove", "remote_remove"},
   faults |-> {"transport"}, busy |-> TRUE,
   budget |-> Budget(1, 1, 0, 0), queueCap |-> 2, versionCap |-> 2]

\* Two files to upload, one of which is removed while they wait.
UploadTwo ==
  [task |-> Of("upload", "prefer_local", FALSE),
   workers |-> OneWorker, slashed |-> FALSE, trees |-> {<<>>, (f :> "A") @@ (g :> "B")},
   paths |-> {f}, contents |-> {}, edits |-> {"local_remove"}, faults |-> {}, busy |-> TRUE,
   budget |-> Budget(1, 0, 0, 0), queueCap |-> 3, versionCap |-> 1]

\* The one-way tasks, on a file inside a directory.
DownloadDeep ==
  [task |-> Of("download", "prefer_local", TRUE),
   workers |-> OneWorker, slashed |-> FALSE, trees |-> DeepTrees,
   paths |-> {df}, contents |-> {"B"},
   edits |-> {"local_write", "local_remove", "remote_remove"}, faults |-> Kinds \ {"lost_reply"}, busy |-> TRUE,
   budget |-> Budget(1, 1, 1, 0), queueCap |-> 5, versionCap |-> 1]

UploadDeep ==
  [task |-> Of("upload", "prefer_local", TRUE),
   workers |-> OneWorker, slashed |-> FALSE, trees |-> DeepTrees,
   paths |-> {df}, contents |-> {"B"},
   edits |-> {"local_write", "local_remove", "remote_write"},
   faults |-> {"error_page", "http_status"}, busy |-> TRUE,
   budget |-> Budget(1, 1, 1, 0), queueCap |-> 4, versionCap |-> 1]

\* A file is renamed while its upload waits.
UploadRenamed ==
  [UploadDeep EXCEPT !.paths = {df, g}, !.edits = {"local_rename", "remote_remove"},
                     !.faults = {"listing", "transport"}, !.budget = Budget(1, 1, 0, 0)]

\* An upload task that leaves alone what is only on the remote side; somebody asks
\* for retries.
UploadKeeps ==
  [UploadDeep EXCEPT !.task.mirror = FALSE, !.edits = {}, !.faults = {"lost_reply"},
                     !.budget = Budget(0, 1, 1, 1)]

\* Edits on both sides, between runs, of a task that prefers the local version.
PreferLocal ==
  [task |-> Of("bidirectional", "prefer_local", FALSE),
   workers |-> OneWorker, slashed |-> FALSE, trees |-> FlatTrees,
   paths |-> {f, g}, contents |-> {"B"}, edits |-> Edits \ {"remote_remove"},
   faults |-> {"listing", "transport", "lost_reply"}, busy |-> FALSE,
   budget |-> Budget(2, 1, 1, 0), queueCap |-> 4, versionCap |-> 8]

\* A directory that exists on one side only, mirror deletes on.
MirrorDir ==
  [MirrorBusy EXCEPT !.trees = DeepTrees, !.paths = {df}, !.edits = {}, !.faults = {},
                     !.busy = FALSE, !.budget = Budget(0, 0, 0, 0)]

\* A directory both sides have, on a server that lists it as d/.
SlashedMirror ==
  [MirrorDir EXCEPT !.trees = {(d :> Dir) @@ (df :> "A")}, !.slashed = TRUE]

\* One local write and one failed request, both versions kept.
StaleDownload ==
  [KeepBoth EXCEPT !.paths = {f}, !.edits = {"local_write"}, !.faults = {"transport"},
                   !.budget = Budget(1, 1, 0, 0)]

SafetyScenarios    ==
  {KeepBoth, SameId, LostDir, LostDirSlashed, Refusals, Conflict, ConflictCut, CutMove, MirrorBusy, Shared}
BlockedScenarios   == {UploadTwo}
SlashedScenarios   == {SlashedMirror}
ConvergeScenarios  == {DownloadDeep, UploadDeep, UploadRenamed, UploadKeeps, PreferLocal}
MirrorDirScenarios == {MirrorDir}
StaleScenarios     == {StaleDownload}
=============================================================================
