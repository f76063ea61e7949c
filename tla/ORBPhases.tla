----------------------------- MODULE ORBPhases -----------------------------
(* What the life cycle of an ORB promises to the application: it is a       *)
(* client until the root POA makes it a server, a server runs until it is   *)
(* shut down, a shutdown that has begun completes, unless one of its steps  *)
(* fails and hinders it, and the ORB is destroyed as a client or after its  *)
(* shutdown, or, if it may run out of patience, during the shutdown.        *)
CONSTANT Impatient

VARIABLE phase

Phases == {"CLIENT", "RUNNING", "SHUTDOWNING", "SHUTDOWNED", "HINDERED", "DESTROYED"}

Init == phase = "CLIENT"

Start == phase = "CLIENT" /\ phase' = "RUNNING"

Stop == phase = "RUNNING" /\ phase' \in {"SHUTDOWNING", "HINDERED"}

Hinder == phase = "SHUTDOWNING" /\ phase' = "HINDERED"

Complete == phase = "SHUTDOWNING" /\ phase' = "SHUTDOWNED"

CompleteLate == phase = "HINDERED" /\ phase' = "SHUTDOWNED"

Destroy ==
  /\ \/ phase \in {"CLIENT", "SHUTDOWNED"}
     \/ Impatient /\ phase \in {"SHUTDOWNING", "HINDERED"}
  /\ phase' = "DESTROYED"

Next == Start \/ Stop \/ Hinder \/ Complete \/ CompleteLate \/ Destroy

Spec == Init /\ [][Next]_phase

FairSpec == Spec /\ WF_phase(Complete)
=============================================================================
