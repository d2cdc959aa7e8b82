------------------------------ MODULE TaskRuns ------------------------------
(***************************************************************************)
(* ExecuteRunningTask and PollRemoteTask as the goroutines that trigger    *)
(* runs see them: a call that may be refused, that clears the timestamps   *)
(* of the runtime row and scans the local tree when it begins, that talks  *)
(* to the server for as long as the server likes, and that sets the        *)
(* timestamps when it succeeds.  The caller waits for it.                  *)
(*                                                                         *)
(* What a run writes to the tables, statement by statement, is             *)
(* TaskControl; what it does to files is SyncTask.                         *)
(***************************************************************************)
EXTENDS Naturals, Sequences, FiniteSets

CONSTANTS Order,         \* the tasks, in the order TaskRepository.List returns them
          Direction      \* [Tasks -> {"upload", "download", "bidirectional"}]

Goroutines == {"scheduler", "poller", "watcher", "handler"}
Tasks == {Order[i] : i \in DOMAIN Order}

ASSUME RunsAssumption ==
  /\ Order \in Seq(Tasks) /\ "none" \notin Tasks
  /\ \A i, j \in DOMAIN Order : Order[i] = Order[j] => i = j
  /\ Direction \in [Tasks -> {"upload", "download", "bidirectional"}]

VARIABLES status,   \* tasks.status
          stamp,    \* last_reconcile_at and last_remote_scan_at: none, less than
                    \* one poll interval old ("fresh"), or older ("old")
          job,      \* the run each goroutine waits for, if any
          dirty     \* history: tasks whose local tree changed since the last
                    \* successful run of them scanned it

Schedulable == {"running", "degraded", "retrying"}
Dormant     == {"paused", "failed"}
NoJob       == [task |-> "none", snap |-> "paused", covers |-> FALSE, hung |-> FALSE]

Busy(g) == job[g].task # "none"

\* GetByID and isSchedulableTaskStatus, then executeTask up to the first request
\* to the server: the runtime row is replaced by one without timestamps and the
\* local tree is scanned.  A refused call returns at once.  The row a poll
\* writes first keeps the stored timestamps.
Call(g, t) ==
  IF status[t] \in Schedulable
  THEN /\ job' = [job EXCEPT ![g] = [task |-> t, snap |-> status[t], covers |-> TRUE,
                                     hung |-> FALSE]]
       /\ stamp' = [stamp EXCEPT ![t] = "none"]
       /\ UNCHANGED <<status, dirty>>
  ELSE UNCHANGED <<status, stamp, job, dirty>>

NoCall == UNCHANGED <<status, stamp, job, dirty>>

\* The local tree of the tasks in S changes; runs under way have scanned it already.
Changed(S) ==
  /\ dirty' = dirty \cup S
  /\ job' = [g \in Goroutines |-> IF job[g].task \in S THEN [job[g] EXCEPT !.covers = FALSE]
                                                       ELSE job[g]]

----------------------------------------------------------------------------
(* The rest of executeTask.                                                *)

Ends(g) == Busy(g) /\ ~job[g].hung /\ job' = [job EXCEPT ![g] = NoJob]

Succeed(g) ==
  LET t == job[g].task
  IN  /\ Ends(g)
      /\ status' = IF job[g].snap = "degraded" THEN [status EXCEPT ![t] = "running"] ELSE status
      /\ stamp' = [stamp EXCEPT ![t] = "fresh"]
      /\ dirty' = IF job[g].covers THEN dirty \ {t} ELSE dirty

\* The row read at the beginning goes back with a new status: degraded, or
\* retrying when another run has counted a failure in the meantime.
Degrade(g) ==
  LET t == job[g].task
  IN  /\ Ends(g)
      /\ \E s \in {"degraded", "retrying"} : status' = [status EXCEPT ![t] = s]
      /\ stamp' = [stamp EXCEPT ![t] = "none"]
      /\ UNCHANGED dirty

Fail(g) ==
  LET t == job[g].task
  IN  /\ Ends(g)
      /\ status' = [status EXCEPT ![t] = "failed"]
      /\ stamp' = [stamp EXCEPT ![t] = "none"]
      /\ UNCHANGED dirty

\* The server has taken the request and never answers: no timeout is set.
Hang(g) ==
  /\ Busy(g) /\ ~job[g].hung
  /\ job' = [job EXCEPT ![g].hung = TRUE]
  /\ UNCHANGED <<status, stamp, dirty>>

\* One poll interval has passed since the timestamps of t were set.
IntervalPasses(t) ==
  /\ stamp[t] = "fresh"
  /\ stamp' = [stamp EXCEPT ![t] = "old"]
  /\ UNCHANGED <<status, job, dirty>>
=============================================================================
