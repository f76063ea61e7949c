--------------------------- MODULE MCInvocation ---------------------------
(* Model values for TLC: the calls of one kind, the connections and the     *)
(* locks are interchangeable.                                               *)
EXTENDS Invocation, TLC

Symmetry == Permutations(Requests) \cup Permutations(Locks) \cup Permutations(Conns)

=============================================================================
