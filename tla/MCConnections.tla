--------------------------- MODULE MCConnections ----------------------------
(* Small instances of Connections. *)
EXTENDS Connections, TLC

\* Each of two servers accepts one of two passwords.
OneEach == ("e1" :> {"p1"}) @@ ("e2" :> {"p2"})
SymHandlers == Permutations(Handlers)
=============================================================================
