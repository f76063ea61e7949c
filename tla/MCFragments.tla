---- MODULE MCFragments ----
EXTENDS Fragments

Msg(c, l, i, t, v, n) ==
  [conn |-> c, life |-> l, id |-> i, type |-> t, minor |-> v, parts |-> n]

MCMode == [c \in Conns |-> IF c = 1 THEN "SERVER" ELSE "CLIENT"]

\* ids grow with the addresses: MessageId::operator< is an order
MCOrdered ==
  {Msg(1, 1, 1, "Request", 2, 3), Msg(1, 1, 2, "Request", 1, 2),
   Msg(1, 2, 1, "Request", 2, 2), Msg(1, 2, 2, "LocateRequest", 2, 2),
   Msg(2, 1, 3, "Reply", 1, 2), Msg(2, 1, 4, "Reply", 2, 2)}

\* two requests whose ids grow against the addresses
MCServers == [c \in Conns |-> "SERVER"]
MCContradictory ==
  {Msg(1, 1, 2, "Request", 2, 3), Msg(2, 1, 1, "Request", 2, 3)}
====
