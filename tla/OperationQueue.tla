--------------------------- MODULE OperationQueue ---------------------------
(***************************************************************************)
(* What operation_queue promises to the task that fills it: the life of a  *)
(* planned action, without statuses, attempts, listings and copies.        *)
(*                                                                         *)
(* An action waits, one worker takes it, and it is done, given back or     *)
(* given up.  Once it is finished, or orphaned by a kill of the process,   *)
(* it is executed again only because a user asked for a retry.             *)
(***************************************************************************)
CONSTANT Ids        \* the rows the queue may hold

VARIABLES life,     \* where each row is in its life
          asked     \* the rows a RetryFailureByID has listed and not yet written

queueVars == <<life, asked>>

Lives == {"absent", "waiting", "held", "orphaned", "finished"}
\* A finished row matters only as long as a request remembers it.
Finished(i) == IF i \in asked THEN "finished" ELSE "absent"
Moves(i, from, to) ==
  /\ life[i] = from
  /\ life' = [life EXCEPT ![i] = to]
  /\ UNCHANGED asked

Init == life = [i \in Ids |-> "absent"] /\ asked = {}

\* A plan puts several actions into the queue at once.
Enqueue ==
  /\ life' \in [Ids -> Lives]
  /\ \A i \in Ids : life'[i] = life[i] \/ (life[i] = "absent" /\ life'[i] = "waiting")
  /\ UNCHANGED asked

Take(i)     == (\A j \in Ids : life[j] # "held") /\ Moves(i, "waiting", "held")
Finish(i)   == Moves(i, "held", Finished(i))
GiveBack(i) == Moves(i, "held", "waiting")
\* An action is also given up untried, when the task admits no execution.
GiveUp(i)   == Moves(i, "waiting", Finished(i))

\* A user asks for every action again, or for those of one failure.  The second
\* is not atomic, and writes its rows back whatever has become of them.
RetryAll ==
  /\ life' = [i \in Ids |-> IF life[i] = "orphaned" THEN "waiting" ELSE life[i]]
  /\ UNCHANGED asked
Ask ==
  /\ asked = {}
  /\ asked' \subseteq {i \in Ids : life[i] \in {"waiting", "held", "orphaned"}}
  /\ UNCHANGED life
Answer(i) ==
  /\ i \in asked
  /\ asked' = asked \ {i}
  /\ life' = [life EXCEPT ![i] = IF @ = "held" THEN @ ELSE "waiting"]

\* The process is killed: what it held is stuck, unless a retry came first, and
\* of a plan that was being put into the queue some actions are there.
Killed(i) ==
  CASE life[i] = "held"     -> {"orphaned", "waiting"}
    [] life[i] = "finished" -> {"absent"}
    [] life[i] = "absent"   -> {"absent", "waiting"}
    [] OTHER                -> {life[i]}
Kill ==
  /\ asked' = {}
  /\ life' \in [Ids -> Lives] /\ \A i \in Ids : life'[i] \in Killed(i)

Next ==
  \/ Enqueue \/ RetryAll \/ Ask \/ Kill
  \/ \E i \in Ids : Take(i) \/ Finish(i) \/ GiveBack(i) \/ GiveUp(i) \/ Answer(i)
Spec == Init /\ [][Next]_queueVars
=============================================================================
