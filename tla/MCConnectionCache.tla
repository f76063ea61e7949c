------------------------- MODULE MCConnectionCache -------------------------
(* Model values for TLC: threads, connections and locks are                 *)
(* interchangeable.                                                         *)
EXTENDS ConnectionCache, TLC

Symmetry == Permutations(Threads) \cup Permutations(Conns) \cup Permutations(OpeningLocks)

=============================================================================
