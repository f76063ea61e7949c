--------------------------- MODULE MCPOADispatch ---------------------------
(* Instances of POADispatch for TLC.  Threads and requests are              *)
(* interchangeable in safety runs.                                          *)
EXTENDS POADispatch, TLC

Symmetry == Permutations(Threads) \cup Permutations(Requests)
=============================================================================
