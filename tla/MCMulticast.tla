---- MODULE MCMulticast ----
EXTENDS Multicast

CONSTANT c1

MCSender == [m \in Messages |-> c1]
====
