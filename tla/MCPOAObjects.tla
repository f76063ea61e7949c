--------------------------- MODULE MCPOAObjects ---------------------------
(* Model values for TLC: ids, servants, requests and application threads    *)
(* are interchangeable in runs without liveness.                            *)
EXTENDS POAObjects, TLC

Symmetry == Permutations(Oids) \cup Permutations(Servants) \cup Permutations(Requests)
            \cup Permutations(Apps)
=============================================================================
