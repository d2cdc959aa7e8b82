----------------------------- MODULE MCTriggers -----------------------------
(* Small instances of Triggers. *)
EXTENDS Triggers, TLC

r == <<"r">>
rs == <<"r", "s">>
RootAndSub == {r, rs}

\* Two tasks with the same local_path, and one with a directory below it.
ThreeTasks == <<"t1", "t2", "t3">>
Roots == ("t1" :> r) @@ ("t2" :> r) @@ ("t3" :> rs)
Directions == ("t1" :> "upload") @@ ("t2" :> "bidirectional") @@ ("t3" :> "upload")

StartWith(running, edits, requests, faults) ==
  [status |-> [t \in DOMAIN Roots |-> IF t \in running THEN "running" ELSE "paused"],
   budget |-> [edits |-> edits, requests |-> requests, faults |-> faults]]

\* The upload task alone with two edits and a fault, the bidirectional one alone
\* with an edit and a fault, a Start, a request to either, and both in service;
\* roots one below the other, with a request and a fault.
FewOfEach == {StartWith({"t1"}, 2, 0, 1), StartWith({"t2"}, 1, 0, 1),
              StartWith({}, 1, 1, 0), StartWith({"t1"}, 0, 1, 0),
              StartWith({"t1", "t2"}, 1, 0, 0),
              StartWith({"t1", "t3"}, 0, 1, 1)}

TwoEdits == {StartWith({"t2"}, 2, 0, 0)}
=============================================================================
