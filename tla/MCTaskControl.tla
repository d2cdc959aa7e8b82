--------------------------- MODULE MCTaskControl ---------------------------
(* Small instances of TaskControl. *)
EXTENDS TaskControl, TLC

Budget(requests, errors, crashes) ==
  [requests |-> requests, errors |-> errors, crashes |-> crashes]

\* A request and a failing run, or two failing runs.
RequestOrErrors == {Budget(1, 1, 0), Budget(0, 2, 0)}
TwoRequests == {Budget(2, 1, 0)}
ErrorAndOther == {Budget(1, 1, 0), Budget(0, 1, 1)}
=============================================================================
