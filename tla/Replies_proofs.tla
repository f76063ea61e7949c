--------------------------- MODULE Replies_proofs ---------------------------
(***************************************************************************)
(* Theorems about the replies of Invocation: the reply a thread takes out   *)
(* of its lock answers the request it sent last.  They need what the code   *)
(* relies on: an id is not given out twice on one connection.               *)
(*                                                                          *)
(* So they are about connections that do not give out all ids (IdsLast) and *)
(* about calls that ask the connection for their id: a reliable oneway      *)
(* registers its lock under the id 0 and may meet another call there.       *)
(***************************************************************************)
EXTENDS Invocation_proofs

\* No connection has given out its last id but one.  2^32 - 2 requests on one
\* connection make it false in the code.
IdsLast == \A c \in Conns : idCount[c] < ULong - 2

IsAnswer(x, m) == x = [type |-> "reply", msg |-> m] \/ x = [type |-> "addressing", msg |-> m]

\* The messages whose answer is on its way back
Back(c) == {m \in Messages : \E n \in DOMAIN toClient[c] : IsAnswer(toClient[c][n], m)}

\* The messages that are on their way, being executed, or on their way back
Underway(c) == sent[c] \cup inPOA[c] \cup Back(c)

\* Every id in use was given out
IssuedIds ==
  /\ \A c \in Conns : \A m \in Underway(c) : m.id < idCount[c]
  /\ \A k \in Calls : Holds(k) => id[k] < idCount[conn[k]]
  /\ \A l \in Locks : lconn[l] # NULL => lid[l] < idCount[lconn[l]]

\* A message under the id of a call is the message of this call
IdIsCall ==
  \A k \in Calls : Holds(k) =>
    \A m \in Underway(conn[k]) : m.id = id[k] => m.call = k

MyAnswer(x, k) == \E m \in Messages : IsAnswer(x, m) /\ m.call = k /\ m.id = id[k]

\* A lock holds nothing or the answer to its user; if completed, the answer
LockMessages ==
  /\ \A l \in Locks \ created : lmsg[l] = NULL
  /\ \A k \in Calls : Holds(k) => lmsg[lock[k]] = NULL \/ MyAnswer(lmsg[lock[k]], k)
  /\ \A k \in Calls :
       Holds(k) /\ pc[k] # "release" /\ lstate[lock[k]] = "COMPLETED" => lmsg[lock[k]] # NULL

\* A thread has a reply only after is_completed, and then its own
Consumed ==
  \A k \in Calls :
    /\ got[k] # NULL => pc[k] \in {"release", "finish"} \cup Outcomes /\ MyAnswer(got[k], k)
    /\ pc[k] \in {"release", "finish"} => (completed[k] <=> got[k] # NULL)

ReplyInv == IssuedIds /\ IdIsCall /\ LockMessages /\ Consumed /\ NoInternalError

-----------------------------------------------------------------------------
\* Counter::post_inc before the end of the range
LEMMA PostIncNext ==
  ASSUME NEW n \in Ids, n < ULong - 2
  PROVE  PostInc(n) = n + 1
  <1>1. n \in Nat /\ ULong \in Nat /\ n + 1 < ULong BY ParamAssumption DEF Ids
  <1>2. (n + 1) % ULong = n + 1 BY <1>1
  <1>3. QED BY <1>1, <1>2 DEF PostInc

LEMMA AnswerType ==
  ASSUME NEW m \in Messages
  PROVE  /\ [type |-> "reply", msg |-> m] \in Incoming
         /\ [type |-> "addressing", msg |-> m] \in Incoming
  BY DEF Incoming

\* An incoming message that is a reply or asks for another addressing
LEMMA AnswerOf ==
  ASSUME NEW x \in Incoming, x.type \in {"reply", "addressing"}
  PROVE  x.msg \in Messages /\ IsAnswer(x, x.msg)
  BY DEF Incoming, IsAnswer

\* What the client reads is no longer on its way back
LEMMA BackRead ==
  ASSUME TypeOK, NEW c \in Conns, NEW types, CanRead(c, types)
  PROVE  \A d \in Conns : Back(d)' \subseteq Back(d)
  <1> DEFINE s == toClient[c]
  <1>1. s \in Seq(Incoming) /\ s # <<>> BY DEF TypeOK, CanRead
  <1>2. \A n \in DOMAIN Tail(s) : n + 1 \in DOMAIN s /\ Tail(s)[n] = s[n + 1]
    BY <1>1
  <1>3. toClient' = [toClient EXCEPT ![c] = Tail(s)] BY DEF CanRead
  <1>4. ASSUME NEW d \in Conns, NEW m \in Back(d)' PROVE m \in Back(d)
    <2>1. m \in Messages /\ \E n \in DOMAIN toClient'[d] : IsAnswer(toClient'[d][n], m)
      BY DEF Back
    <2>2. CASE d # c BY <2>1, <2>2, <1>3 DEF TypeOK, Back
    <2>3. CASE d = c
      <3>1. toClient'[d] = Tail(s) BY <2>3, <1>3 DEF TypeOK
      <3>2. PICK n \in DOMAIN Tail(s) : IsAnswer(Tail(s)[n], m) BY <2>1, <3>1
      <3>3. n + 1 \in DOMAIN s /\ IsAnswer(s[n + 1], m) BY <3>2, <1>2
      <3>4. QED BY <2>1, <2>3, <3>3 DEF Back
    <2>4. QED BY <2>2, <2>3
  <1>5. QED BY <1>4

\* ... what the server sends is
LEMMA BackPut ==
  ASSUME TypeOK, NEW c \in Conns, NEW x \in Incoming, Put(c, x)
  PROVE  \A d \in Conns : \A m \in Back(d)' : m \in Back(d) \/ (d = c /\ IsAnswer(x, m))
  <1> DEFINE s == toClient[c]
  <1>1. s \in Seq(Incoming) BY DEF TypeOK
  <1>2. \A n \in DOMAIN Append(s, x) : \/ n \in DOMAIN s /\ Append(s, x)[n] = s[n]
                                       \/ Append(s, x)[n] = x
    BY <1>1
  <1>3. SUFFICES ASSUME NEW d \in Conns, NEW m \in Back(d)', m \notin Back(d)
                 PROVE  d = c /\ IsAnswer(x, m)
    OBVIOUS
  <1>4. m \in Messages /\ \E n \in DOMAIN toClient'[d] : IsAnswer(toClient'[d][n], m)
    BY DEF Back
  <1>5. sock[c] /\ d = c BY <1>3, <1>4 DEF TypeOK, Put, Back
  <1>6. toClient'[d] = Append(s, x) BY <1>5 DEF TypeOK, Put
  <1>7. PICK n \in DOMAIN Append(s, x) : IsAnswer(Append(s, x)[n], m) BY <1>4, <1>6
  <1>8. CASE n \in DOMAIN s /\ Append(s, x)[n] = s[n]
    BY <1>3, <1>4, <1>5, <1>7, <1>8 DEF Back
  <1>9. CASE Append(s, x)[n] = x BY <1>5, <1>7, <1>9
  <1>10. QED BY <1>2, <1>7, <1>8, <1>9

\* Only send_message puts a message under way
LEMMA UnderwayConn ==
  ASSUME TypeOK, NEW c \in Conns, Receive(c) \/ Close(c) \/ CloseByManager(c) \/ Server(c)
  PROVE  \A d \in Conns : Underway(d)' \subseteq Underway(d)
  <1>a. ASSUME UNCHANGED <<sent, inPOA, toClient>>
        PROVE  \A d \in Conns : Underway(d)' \subseteq Underway(d)
    BY <1>a DEF Underway, Back
  <1>b. ASSUME UNCHANGED <<sent, inPOA>>, NEW types, CanRead(c, types)
        PROVE  \A d \in Conns : Underway(d)' \subseteq Underway(d)
    <2>1. \A d \in Conns : Back(d)' \subseteq Back(d) BY <1>b, BackRead
    <2>2. QED BY <1>b, <2>1 DEF Underway
  <1>1. CASE Close(c) \/ CloseByManager(c) \/ ReceiveTest(c) \/ ReceiveFails(c)
    <2>1. CASE CloseSocket(c)
      <3>1. toClient' = [toClient EXCEPT ![c] = <<>>] /\ UNCHANGED <<sent, inPOA>>
        BY <2>1 DEF CloseSocket
      <3>2. \A d \in Conns : Back(d)' \subseteq Back(d) BY <3>1 DEF TypeOK, Back
      <3>3. QED BY <3>1, <3>2 DEF Underway
    <2>2. CASE ~CloseSocket(c)
      BY <1>1, <2>2, <1>a DEF Close, LockListSize, CloseWithError, Closing, DestroyLocks,
         CloseByManager, ReceiveTest, ReceiveFails, peerVars
    <2>3. QED BY <2>1, <2>2
  <1>2. CASE ReceiveReply(c) BY <1>2, <1>b DEF ReceiveReply
  <1>3. CASE ReceiveClose(c) BY <1>3, <1>b DEF ReceiveClose
  <1>4. CASE ReceiveBroken(c) BY <1>4, <1>b DEF ReceiveBroken
  <1>5. ASSUME NEW m \in sent[c], ServerExecute(c, m)
        PROVE  \A d \in Conns : Underway(d)' \subseteq Underway(d)
    <2>1. /\ sent' = [sent EXCEPT ![c] = @ \ {m}] /\ inPOA' = [inPOA EXCEPT ![c] = @ \cup {m}]
          /\ toClient' = toClient
      BY <1>5 DEF ServerExecute
    <2>2. \A d \in Conns : sent'[d] \cup inPOA'[d] \subseteq sent[d] \cup inPOA[d]
      BY <2>1 DEF TypeOK
    <2>3. QED BY <2>1, <2>2 DEF Underway, Back
  <1>6. ASSUME NEW m \in sent[c] \cup inPOA[c], NEW x \in Incoming, Put(c, x),
               \A n \in Messages : IsAnswer(x, n) => n = m,
               \A d \in Conns : sent'[d] \cup inPOA'[d] \subseteq sent[d] \cup inPOA[d]
        PROVE  \A d \in Conns : Underway(d)' \subseteq Underway(d)
    <2>1. \A d \in Conns : \A n \in Back(d)' : n \in Back(d) \/ (d = c /\ IsAnswer(x, n))
      BY <1>6, BackPut
    <2>2. \A d \in Conns : \A n \in Back(d)' : n \in Messages BY DEF Back
    <2>3. QED BY <1>6, <2>1, <2>2 DEF Underway
  <1>7. ASSUME NEW m \in sent[c], ServerReaddress(c, m)
        PROVE  \A d \in Conns : Underway(d)' \subseteq Underway(d)
    <2> DEFINE x == [type |-> "addressing", msg |-> m]
    <2>1. m \in Messages /\ x \in Incoming BY <1>7, AnswerType DEF TypeOK
    <2>2. \A n \in Messages : IsAnswer(x, n) => n = m BY DEF IsAnswer
    <2>3. /\ sent' = [sent EXCEPT ![c] = @ \ {m}] /\ inPOA' = inPOA /\ Put(c, x)
      BY <1>7 DEF ServerReaddress
    <2>4. \A d \in Conns : sent'[d] \cup inPOA'[d] \subseteq sent[d] \cup inPOA[d]
      BY <2>3 DEF TypeOK
    <2>5. QED BY <1>7, <2>1, <2>2, <2>3, <2>4, <1>6
  <1>8. ASSUME NEW m \in inPOA[c], ServerReply(c, m)
        PROVE  \A d \in Conns : Underway(d)' \subseteq Underway(d)
    <2> DEFINE x == [type |-> "reply", msg |-> m]
    <2>1. m \in Messages /\ x \in Incoming BY <1>8, AnswerType DEF TypeOK
    <2>2. \A n \in Messages : IsAnswer(x, n) => n = m BY DEF IsAnswer
    <2>3. /\ inPOA' = [inPOA EXCEPT ![c] = @ \ {m}] /\ sent' = sent /\ Put(c, x)
      BY <1>8 DEF ServerReply
    <2>4. \A d \in Conns : sent'[d] \cup inPOA'[d] \subseteq sent[d] \cup inPOA[d]
      BY <2>3 DEF TypeOK
    <2>5. QED BY <1>8, <2>1, <2>2, <2>3, <2>4, <1>6
  <1>9. CASE ServerClose(c)
    <2> DEFINE x == [type |-> "CloseConnection"]
    <2>1. x \in Incoming BY DEF Incoming
    <2>2. \A n \in Messages : ~IsAnswer(x, n) BY DEF IsAnswer
    <2>3. /\ sent' = [sent EXCEPT ![c] = {}] /\ inPOA' = inPOA /\ Put(c, x)
      BY <1>9 DEF ServerClose
    <2>4. \A d \in Conns : \A n \in Back(d)' : n \in Back(d)
      <3>1. \A d \in Conns : \A n \in Back(d)' : n \in Back(d) \/ (d = c /\ IsAnswer(x, n))
        BY <2>1, <2>3, BackPut
      <3>2. \A d \in Conns : \A n \in Back(d)' : n \in Messages BY DEF Back
      <3>3. QED BY <2>2, <3>1, <3>2
    <2>5. QED BY <2>3, <2>4 DEF TypeOK, Underway
  <1>10. CASE NetworkBreak(c)
    <2>1. /\ \A d \in Conns : sent'[d] \subseteq sent[d]
          /\ inPOA' = inPOA
          /\ toClient' = [toClient EXCEPT ![c] = <<[type |-> "broken"]>>]
      BY <1>10 DEF NetworkBreak, TypeOK
    <2>2. \A d \in Conns : Back(d)' \subseteq Back(d)
      <3>1. ASSUME NEW d \in Conns, NEW m \in Back(d)' PROVE m \in Back(d)
        <4>1. m \in Messages /\ \E n \in DOMAIN toClient'[d] : IsAnswer(toClient'[d][n], m)
          BY DEF Back
        <4>2. CASE d = c
          <5>1. toClient'[c] = <<[type |-> "broken"]>> BY <2>1 DEF TypeOK
          <5>2. \A n \in DOMAIN toClient'[c] : toClient'[c][n] = [type |-> "broken"]
            BY <5>1
          <5>3. QED BY <4>1, <4>2, <5>2 DEF IsAnswer
        <4>3. CASE d # c BY <4>1, <4>3, <2>1 DEF TypeOK, Back
        <4>4. QED BY <4>2, <4>3
      <3>2. QED BY <3>1
    <2>3. QED BY <2>1, <2>2 DEF TypeOK, Underway
  <1>11. QED
    BY <1>1, <1>2, <1>3, <1>4, <1>5, <1>7, <1>8, <1>9, <1>10 DEF Receive, Server

\* A step that hands out no id, puts no message under way and gives no lock
\* an answer keeps the invariant, if the replies consumed are in order.
LEMMA Steady ==
  ASSUME TypeOK, ReplyInv,
         idCount' = idCount, created' = created,
         \A c \in Conns : Underway(c)' \subseteq Underway(c),
         \A l \in Locks : lconn'[l] # NULL => lconn'[l] = lconn[l] /\ lid'[l] = lid[l],
         \A l \in Locks : lmsg'[l] = lmsg[l] \/ lmsg'[l] = NULL,
         Connected',
         \A k \in Calls : Holds(k)' =>
           /\ Holds(k)
           /\ lock'[k] = lock[k] /\ conn'[k] = conn[k] /\ id'[k] = id[k] /\ lock[k] \in Locks
           /\ pc'[k] # "release" =>
                /\ pc[k] # "release"
                /\ lmsg'[lock[k]] = lmsg[lock[k]]
                /\ lstate'[lock[k]] = "COMPLETED" => lstate[lock[k]] = "COMPLETED",
         Consumed', NoInternalError'
  PROVE  ReplyInv'
  <1>1. IssuedIds'
    <2>1. \A c \in Conns : \A m \in Underway(c)' : m.id < idCount'[c]
      BY DEF ReplyInv, IssuedIds
    <2>2. \A k \in Calls : Holds(k)' => id'[k] < idCount'[conn'[k]]
      BY DEF ReplyInv, IssuedIds
    <2>3. \A l \in Locks : lconn'[l] # NULL => lid'[l] < idCount'[lconn'[l]]
      BY DEF ReplyInv, IssuedIds
    <2>4. QED BY <2>1, <2>2, <2>3 DEF IssuedIds
  <1>2. IdIsCall'
    <2>1. SUFFICES ASSUME NEW k \in Calls, Holds(k)', NEW m \in Underway(conn[k])', m.id = id[k]
                   PROVE  m.call = k
      BY DEF IdIsCall
    <2>2. conn[k] \in Conns BY <2>1 DEF Connected, Holds
    <2>3. QED BY <2>1, <2>2 DEF ReplyInv, IdIsCall
  <1>3. LockMessages'
    <2>1. \A l \in Locks \ created' : lmsg'[l] = NULL
      BY DEF ReplyInv, LockMessages
    <2>2. \A k \in Calls : Holds(k)' => lmsg'[lock'[k]] = NULL \/ MyAnswer(lmsg[lock[k]], k)'
      BY DEF ReplyInv, LockMessages, MyAnswer
    <2>3. \A k \in Calls :
            Holds(k)' /\ pc'[k] # "release" /\ lstate'[lock'[k]] = "COMPLETED"
              => lmsg'[lock'[k]] # NULL
      BY DEF ReplyInv, LockMessages
    <2>4. QED BY <2>1, <2>2, <2>3 DEF LockMessages
  <1>4. QED BY <1>1, <1>2, <1>3 DEF ReplyInv

-----------------------------------------------------------------------------
\* The steps of an invoking thread that change little but where it is
LEMMA CallSteady ==
  ASSUME LockInv, LockInv', ReplyInv, NEW k \in Calls,
         UNCHANGED <<conn, id, lock, got, completed, idCount, lconn, lid, lmsg, created,
                     sent, inPOA, toClient>>,
         \A l \in Locks : lstate'[l] = "COMPLETED" => lstate[l] = "COMPLETED",
         NEW w, pc' = [pc EXCEPT ![k] = w], pc[k] # "release",
         w \in {"send", "closing", "wait", "waiting", "woken"} => Holds(k),
         w \notin {"release", "finish", "INTERNAL", "MARSHAL"},
         got[k] # NULL => w \in Outcomes
  PROVE  ReplyInv'
  <1>1. \A c \in Conns : Underway(c)' \subseteq Underway(c)
    BY DEF Underway, Back
  <1>2. \A j \in Calls : Holds(j)' => /\ Holds(j) /\ lock[j] \in Locks
                                      /\ pc'[j] # "release" => pc[j] # "release"
    BY DEF LockInv, TypeOK, LockDiscipline, Holds
  <1>3. Consumed'
    BY DEF LockInv, TypeOK, ReplyInv, Consumed, MyAnswer
  <1>4. NoInternalError'
    BY DEF LockInv, TypeOK, ReplyInv, NoInternalError
  <1>5. QED BY <1>1, <1>2, <1>3, <1>4, Steady DEF LockInv

\* activate_lock gives out an id that nothing else has on this connection
LEMMA ActivateReply ==
  ASSUME Oneways = {}, LockInv, LockInv', ReplyInv, IdsLast, NEW k \in Calls, ActivateLock(k)
  PROVE  ReplyInv'
  <1> DEFINE c == conn[k]
             i == idCount[c]
  <1>1. /\ c \in Conns /\ i \in Ids /\ i \in Nat /\ i < ULong - 2 /\ pc[k] = "activate"
        /\ \A d \in Conns : idCount[d] \in Nat
    BY DEF LockInv, TypeOK, Connected, ActivateLock, IdsLast, Ids
  <1>2. /\ idCount' = [idCount EXCEPT ![c] = i + 1]
        /\ id' = [id EXCEPT ![k] = i]
        /\ UNCHANGED <<conn, got, completed, sent, inPOA, toClient>>
    <2>1. PostInc(i) = i + 1 BY <1>1, PostIncNext
    <2>2. QED BY <2>1 DEF ActivateLock, peerVars
  <1>3. \A d \in Conns : idCount[d] <= idCount'[d]
    BY <1>1, <1>2 DEF LockInv, TypeOK
  <1>4. \A d \in Conns : Underway(d)' = Underway(d) /\ Underway(d) \subseteq Messages
    BY <1>2 DEF LockInv, TypeOK, Underway, Back
  <1>5. \A d \in Conns : \A m \in Underway(d)' : m.id < idCount'[d]
    <2>1. SUFFICES ASSUME NEW d \in Conns, NEW m \in Underway(d)
                   PROVE  m.id < idCount'[d]
      BY <1>4
    <2>2. m.id \in Nat /\ m.id < idCount[d] BY <1>4 DEF ReplyInv, IssuedIds, Messages, Ids
    <2>3. idCount[d] \in Nat /\ idCount'[d] \in Nat /\ idCount[d] <= idCount'[d]
      BY <1>1, <1>2, <1>3 DEF LockInv, TypeOK
    <2>4. QED BY <2>2, <2>3
  <1>6. \A l \in Active(c) : lid[l] # i
    <2>1. SUFFICES ASSUME NEW l \in Locks, lconn[l] = c PROVE lid[l] # i
      BY DEF Active
    <2>2. lid[l] < i /\ lid[l] \in Nat
      BY <1>1, <2>1, SetsAssumption DEF ReplyInv, IssuedIds, LockInv, TypeOK, Ids
    <2>3. QED BY <1>1, <2>2
  <1>7. \A l \in Locks : lid[l] \in Nat /\ (lconn[l] # NULL => lid[l] < idCount'[lconn[l]])
    <2>1. SUFFICES ASSUME NEW l \in Locks
                   PROVE  lid[l] \in Nat /\ (lconn[l] # NULL => lid[l] < idCount'[lconn[l]])
      OBVIOUS
    <2>2. lid[l] \in Nat BY DEF LockInv, TypeOK, Ids
    <2>3. ASSUME lconn[l] # NULL PROVE lid[l] < idCount'[lconn[l]]
      <3>1. lconn[l] \in Conns /\ lid[l] < idCount[lconn[l]]
        BY <2>3 DEF LockInv, TypeOK, ReplyInv, IssuedIds
      <3>2. idCount[lconn[l]] <= idCount'[lconn[l]] /\ idCount[lconn[l]] \in Nat
            /\ idCount'[lconn[l]] \in Nat
        BY <1>1, <1>2, <1>3, <3>1 DEF LockInv, TypeOK
      <3>3. QED BY <2>2, <3>1, <3>2
    <2>4. QED BY <2>2, <2>3
  <1>8. got[k] = NULL BY <1>1 DEF ReplyInv, Consumed, Outcomes
  <1>9. ASSUME NEW w \in {"COMM_FAILURE", "send"}, pc' = [pc EXCEPT ![k] = w]
        PROVE  Consumed' /\ NoInternalError'
    <2>1. \A j \in Calls : j # k => pc'[j] = pc[j] /\ id'[j] = id[j]
      BY <1>2, <1>9 DEF LockInv, TypeOK
    <2>2. pc'[k] = w BY <1>9 DEF LockInv, TypeOK
    <2>3. \A j \in Calls :
            /\ got'[j] # NULL => pc'[j] \in {"release", "finish"} \cup Outcomes /\ MyAnswer(got[j], j)'
            /\ pc'[j] \in {"release", "finish"} => (completed'[j] <=> got'[j] # NULL)
      BY <1>2, <1>8, <1>9, <2>1, <2>2 DEF ReplyInv, Consumed, MyAnswer
    <2>4. Consumed' BY <2>3 DEF Consumed
    <2>5. NoInternalError' BY <1>9, <2>1, <2>2 DEF ReplyInv, NoInternalError
    <2>6. QED BY <2>4, <2>5
  <1>10. CASE destroyed[c]
    <2>1. UNCHANGED <<lock, lockVars>> /\ pc' = [pc EXCEPT ![k] = "COMM_FAILURE"]
      BY <1>10 DEF ActivateLock, Goto
    <2>2. Consumed' /\ NoInternalError' BY <2>1, <1>9
    <2>3. \A j \in Calls : Holds(j)' => /\ Holds(j) /\ j # k /\ id'[j] = id[j]
                                        /\ pc'[j] = pc[j] /\ conn[j] \in Conns
      BY <1>2, <2>1 DEF LockInv, TypeOK, Holds, Connected
    <2>4. IssuedIds'
      <3>1. \A j \in Calls : Holds(j)' => id'[j] < idCount'[conn'[j]]
        <4>1. SUFFICES ASSUME NEW j \in Calls, Holds(j)' PROVE id'[j] < idCount'[conn'[j]]
          OBVIOUS
        <4>2. id'[j] = id[j] /\ conn'[j] = conn[j] /\ conn[j] \in Conns /\ id[j] \in Nat
              /\ id[j] < idCount[conn[j]]
          BY <1>2, <4>1, <2>3 DEF LockInv, TypeOK, ReplyInv, IssuedIds, Ids
        <4>3. idCount[conn[j]] <= idCount'[conn[j]] /\ idCount[conn[j]] \in Nat
              /\ idCount'[conn[j]] \in Nat
          BY <1>1, <1>2, <1>3, <4>2 DEF LockInv, TypeOK
        <4>4. QED BY <4>2, <4>3
      <3>2. QED BY <1>5, <1>7, <2>1, <3>1 DEF IssuedIds, lockVars
    <2>5. IdIsCall' BY <1>2, <1>4, <2>3 DEF ReplyInv, IdIsCall
    <2>6. LockMessages'
      BY <2>1, <2>3 DEF ReplyInv, LockMessages, MyAnswer, lockVars
    <2>7. QED BY <2>2, <2>4, <2>5, <2>6 DEF ReplyInv
  <1>11. CASE ~destroyed[c]
    <2>1. PICK l \in (IF pooled = {} THEN Locks \ created ELSE pooled) :
            /\ lock' = [lock EXCEPT ![k] = l]
            /\ lconn' = [lconn EXCEPT ![l] = c]
            /\ lid' = [lid EXCEPT ![l] = i]
            /\ lstate' = [lstate EXCEPT ![l] = "INITIAL"]
            /\ pooled' = pooled \ {l}
            /\ created' = created \cup {l}
            /\ UNCHANGED lmsg
            /\ pc' = [pc EXCEPT ![k] = "send"]
      <3>1. \/ /\ \E l \in Active(c) : lid[l] = i
               /\ Goto(k, "INTERNAL")
               /\ UNCHANGED <<lock, lockVars>>
            \/ \E l \in (IF pooled = {} THEN Locks \ created ELSE pooled) :
                 /\ lock' = [lock EXCEPT ![k] = l]
                 /\ lconn' = [lconn EXCEPT ![l] = c]
                 /\ lid' = [lid EXCEPT ![l] = i]
                 /\ lstate' = [lstate EXCEPT ![l] = "INITIAL"]
                 /\ pooled' = pooled \ {l}
                 /\ created' = created \cup {l}
                 /\ UNCHANGED lmsg
                 /\ pc' = [pc EXCEPT ![k] = "send"]
        BY <1>11 DEF ActivateLock, Goto
      <3>2. QED BY <3>1, <1>6
    <2>2. l \in Locks /\ lconn[l] = NULL /\ lmsg[l] = NULL
      BY <2>1 DEF LockInv, TypeOK, LockDiscipline, Uncreated, ReplyInv, LockMessages
    <2>3. \A j \in Calls : Holds(j) => lock[j] # l /\ lock[j] \in Locks /\ conn[j] \in Conns
      BY <2>2, SetsAssumption DEF LockInv, LockDiscipline, Holds, Connected
    <2>4. \A j \in Calls : j # k => /\ pc'[j] = pc[j] /\ id'[j] = id[j] /\ lock'[j] = lock[j]
                                    /\ conn'[j] = conn[j] /\ Holds(j)' = Holds(j)
      BY <1>2, <2>1 DEF LockInv, TypeOK, Holds
    <2>5. pc'[k] = "send" /\ id'[k] = i /\ lock'[k] = l /\ conn'[k] = c
      BY <1>2, <2>1 DEF LockInv, TypeOK
    <2>6. \A m \in Locks : m # l => /\ lconn'[m] = lconn[m] /\ lid'[m] = lid[m]
                                    /\ lstate'[m] = lstate[m] /\ lmsg'[m] = lmsg[m]
      BY <2>1 DEF LockInv, TypeOK
    <2>7. lconn'[l] = c /\ lid'[l] = i /\ lstate'[l] = "INITIAL" /\ lmsg'[l] = NULL
      BY <2>1, <2>2 DEF LockInv, TypeOK
    <2>8. Consumed' /\ NoInternalError' BY <2>1, <1>9
    <2>9. i < idCount'[c] BY <1>1, <1>2 DEF LockInv, TypeOK
    <2>10. IssuedIds'
      <3>1. \A j \in Calls : Holds(j)' => id'[j] < idCount'[conn'[j]]
        <4>1. SUFFICES ASSUME NEW j \in Calls, Holds(j)', j # k
                       PROVE  id'[j] < idCount'[conn'[j]]
          BY <2>5, <2>9
        <4>2. id'[j] = id[j] /\ conn'[j] = conn[j] /\ conn[j] \in Conns /\ id[j] \in Nat
              /\ id[j] < idCount[conn[j]]
          BY <4>1, <2>3, <2>4 DEF LockInv, TypeOK, ReplyInv, IssuedIds, Ids
        <4>3. idCount[conn[j]] <= idCount'[conn[j]] /\ idCount[conn[j]] \in Nat
              /\ idCount'[conn[j]] \in Nat
          BY <1>1, <1>2, <1>3, <4>2 DEF LockInv, TypeOK
        <4>4. QED BY <4>2, <4>3
      <3>2. \A m \in Locks : lconn'[m] # NULL => lid'[m] < idCount'[lconn'[m]]
        BY <1>7, <2>6, <2>7, <2>9
      <3>3. QED BY <1>5, <3>1, <3>2 DEF IssuedIds
    <2>11. IdIsCall'
      <3>1. SUFFICES ASSUME NEW j \in Calls, Holds(j)', NEW m \in Underway(conn[j])', m.id = id'[j]
                     PROVE  m.call = j
        BY DEF IdIsCall
      <3>2. CASE j = k
        <4>1. m \in Underway(c) BY <3>1, <3>2, <1>1, <1>2, <1>4
        <4>2. m.id < i /\ m.id = i BY <4>1, <3>1, <3>2, <2>5, <1>1 DEF ReplyInv, IssuedIds
        <4>3. QED BY <4>2, <1>1
      <3>3. CASE j # k
        BY <3>1, <3>3, <1>2, <1>4, <2>3, <2>4 DEF ReplyInv, IdIsCall
      <3>4. QED BY <3>2, <3>3
    <2>12. LockMessages'
      <3>1. \A m \in Locks \ created' : lmsg'[m] = NULL
        BY <2>1 DEF ReplyInv, LockMessages
      <3>2. \A j \in Calls : Holds(j)' => lmsg'[lock'[j]] = NULL \/ MyAnswer(lmsg[lock[j]], j)'
        BY <2>3, <2>4, <2>5, <2>6, <2>7 DEF ReplyInv, LockMessages, MyAnswer
      <3>3. \A j \in Calls : Holds(j)' /\ pc'[j] # "release" /\ lstate'[lock'[j]] = "COMPLETED"
              => lmsg'[lock'[j]] # NULL
        BY <2>3, <2>4, <2>5, <2>6, <2>7 DEF ReplyInv, LockMessages
      <3>4. QED BY <3>1, <3>2, <3>3 DEF LockMessages
    <2>13. QED BY <2>8, <2>10, <2>11, <2>12 DEF ReplyInv
  <1>12. QED BY <1>10, <1>11

\* send_message puts a message under way, under the id of its call
LEMMA SendReply ==
  ASSUME LockInv, LockInv', ReplyInv, NEW k \in Calls, SendMessage(k)
  PROVE  ReplyInv'
  <1> DEFINE c == conn[k]
             m == [id |-> id[k], call |-> k, full |-> full[k]]
  <1>1. Holds(k) /\ c \in Conns BY DEF SendMessage, Holds, LockInv, Connected
  <1>2. /\ UNCHANGED <<conn, id, lock, got, completed, idCount, inPOA, toClient>>
        /\ UNCHANGED lockVars
        /\ pc' = [pc EXCEPT ![k] = "wait"] /\ pc[k] = "send"
        /\ sent' = [sent EXCEPT ![c] = @ \cup {m}] \/ sent' = sent
    BY DEF SendMessage, Goto, connVars
  <1>3. \A d \in Conns : \A n \in Underway(d)' : n \in Underway(d) \/ (d = c /\ n = m)
    BY <1>2 DEF LockInv, TypeOK, Underway, Back
  <1>4. \A j \in Calls : Holds(j)' => Holds(j) /\ conn[j] \in Conns /\ lock[j] \in Locks
    BY <1>1, <1>2 DEF LockInv, TypeOK, Holds, Connected, LockDiscipline
  <1>5. IssuedIds'
    BY <1>1, <1>2, <1>3, <1>4 DEF ReplyInv, IssuedIds, lockVars
  <1>6. IdIsCall'
    <2>1. SUFFICES ASSUME NEW j \in Calls, Holds(j)', NEW n \in Underway(conn[j])', n.id = id[j]
                   PROVE  n.call = j
      BY <1>2 DEF IdIsCall
    <2>2. Holds(j) /\ conn[j] \in Conns BY <2>1, <1>4
    <2>3. n \in Underway(conn[j]) \/ (conn[j] = c /\ n = m) BY <2>1, <2>2, <1>2, <1>3
    <2>4. CASE n \in Underway(conn[j]) BY <2>1, <2>2, <2>4 DEF ReplyInv, IdIsCall
    <2>5. CASE conn[j] = c /\ n = m
      <3>1. id[j] = id[k] /\ conn[j] = conn[k] BY <2>1, <2>5
      <3>2. lock[j] = lock[k]
        BY <1>1, <2>2, <3>1, SetsAssumption DEF LockInv, LockDiscipline
      <3>3. j = k BY <1>1, <2>2, <3>2 DEF LockInv, LockDiscipline
      <3>4. QED BY <2>5, <3>3
    <2>6. QED BY <2>3, <2>4, <2>5
  <1>7. LockMessages'
    <2>1. \A j \in Calls : pc'[j] # "release" => pc[j] # "release"
      BY <1>2 DEF LockInv, TypeOK
    <2>2. QED BY <1>2, <1>4, <2>1 DEF ReplyInv, LockMessages, MyAnswer, lockVars
  <1>8. Consumed'
    BY <1>2 DEF LockInv, TypeOK, ReplyInv, Consumed, MyAnswer, Outcomes
  <1>9. NoInternalError'
    BY <1>2 DEF LockInv, TypeOK, ReplyInv, NoInternalError
  <1>10. QED BY <1>5, <1>6, <1>7, <1>8, <1>9 DEF ReplyInv

\* is_completed and consume_reply
LEMMA ConsumeReply ==
  ASSUME LockInv, LockInv', ReplyInv, NEW k \in Calls, IsCompleted(k)
  PROVE  ReplyInv'
  <1> DEFINE l == lock[k]
  <1>1. Holds(k) /\ pc[k] = "woken" /\ l \in Locks
    BY DEF IsCompleted, Holds, LockInv, LockDiscipline
  <1>2. /\ UNCHANGED <<conn, id, lock, idCount, lconn, lid, lstate, created, sent, inPOA, toClient>>
        /\ pc' = [pc EXCEPT ![k] = "release"]
    BY DEF IsCompleted, Goto, connVars, peerVars
  <1>3. \A m \in Locks : lmsg'[m] = lmsg[m] \/ (m = l /\ lmsg'[m] = NULL)
    BY <1>1 DEF LockInv, TypeOK, IsCompleted
  <1>4. \A j \in Calls : Holds(j)' => Holds(j) /\ lock[j] \in Locks
    BY <1>1, <1>2 DEF LockInv, TypeOK, Holds, LockDiscipline
  <1>5. \A j \in Calls : Holds(j) /\ j # k => lock[j] # l
    BY <1>1 DEF LockInv, LockDiscipline
  <1>6. \A j \in Calls : j # k => pc'[j] = pc[j] /\ got'[j] = got[j] /\ completed'[j] = completed[j]
    BY <1>2 DEF LockInv, TypeOK, IsCompleted
  <1>7. pc'[k] = "release" BY <1>2 DEF LockInv, TypeOK
  <1>8. \/ /\ lstate[l] = "COMPLETED" /\ completed'[k] /\ got'[k] = lmsg[l]
        \/ /\ lstate[l] # "COMPLETED" /\ ~completed'[k] /\ got'[k] = got[k]
    <2>1. completed' = [completed EXCEPT ![k] = lstate[l] = "COMPLETED"] BY DEF IsCompleted
    <2>2. completed'[k] = (lstate[l] = "COMPLETED") BY <2>1 DEF LockInv, TypeOK
    <2>3. CASE lstate[l] = "COMPLETED"
      <3>1. got' = [got EXCEPT ![k] = lmsg[l]] BY <2>3 DEF IsCompleted
      <3>2. got'[k] = lmsg[l] BY <3>1 DEF LockInv, TypeOK
      <3>3. QED BY <2>2, <2>3, <3>2
    <2>4. CASE lstate[l] # "COMPLETED" BY <2>2, <2>4 DEF IsCompleted, LockInv, TypeOK
    <2>5. QED BY <2>3, <2>4
  <1>9. got[k] = NULL BY <1>1 DEF ReplyInv, Consumed, Outcomes
  <1>10. Consumed'
    <2>1. \A j \in Calls \ {k} :
            /\ got'[j] # NULL => pc'[j] \in {"release", "finish"} \cup Outcomes /\ MyAnswer(got[j], j)'
            /\ pc'[j] \in {"release", "finish"} => (completed'[j] <=> got'[j] # NULL)
      BY <1>2, <1>6 DEF ReplyInv, Consumed, MyAnswer
    <2>2. completed'[k] <=> got'[k] # NULL
      BY <1>1, <1>8, <1>9 DEF ReplyInv, LockMessages
    <2>3. got'[k] # NULL => MyAnswer(got[k], k)'
      BY <1>1, <1>2, <1>8, <1>9 DEF ReplyInv, LockMessages, MyAnswer
    <2>4. QED BY <1>7, <2>1, <2>2, <2>3 DEF Consumed
  <1>11. NoInternalError' BY <1>6, <1>7 DEF ReplyInv, NoInternalError
  <1>12. \A c \in Conns : Underway(c)' \subseteq Underway(c) BY <1>2 DEF Underway, Back
  <1>13. \A j \in Calls : Holds(j)' =>
           /\ Holds(j)
           /\ lock'[j] = lock[j] /\ conn'[j] = conn[j] /\ id'[j] = id[j] /\ lock[j] \in Locks
           /\ pc'[j] # "release" =>
                /\ pc[j] # "release"
                /\ lmsg'[lock[j]] = lmsg[lock[j]]
                /\ lstate'[lock[j]] = "COMPLETED" => lstate[lock[j]] = "COMPLETED"
    BY <1>2, <1>3, <1>4, <1>5, <1>6, <1>7
  <1>14. QED
    BY <1>2, <1>3, <1>10, <1>11, <1>12, <1>13, Steady DEF LockInv

\* a reply was consumed: it is there and of the right kind
LEMMA FinishWithReply ==
  ASSUME LockInv, LockInv', ReplyInv, NEW k \in Calls, FinishReply(k)
  PROVE  ReplyInv'
  <1>1. pc[k] = "finish" /\ got[k] # NULL /\ MyAnswer(got[k], k)
    BY DEF FinishReply, ReplyInv, Consumed
  <1>2. PICK m \in Messages : IsAnswer(got[k], m) /\ m.call = k /\ m.id = id[k]
    BY <1>1 DEF MyAnswer
  <1>3. got[k].msg = m BY <1>2 DEF IsAnswer
  <1>4. /\ UNCHANGED <<conn, id, lock, completed, connVars, lockVars, peerVars>>
        /\ \/ pc' = [pc EXCEPT ![k] = "verify"] /\ got' = [got EXCEPT ![k] = NULL]
           \/ pc' = [pc EXCEPT ![k] = "reply"] /\ got' = got
    <2>1. UNCHANGED <<conn, id, lock, completed, connVars, lockVars, peerVars>>
      BY DEF FinishReply
    <2> DEFINE same == (got[k].msg.call \in Locates) = (k \in Locates)
               again == /\ got[k] # NULL
                        /\ got[k].msg.call \in Locates <=> k \in Locates
                        /\ got[k].type = "addressing"
    <2>2. same BY <1>2, <1>3
    <2>3. /\ got' = [got EXCEPT ![k] = IF again THEN NULL ELSE got[k]]
          /\ pc' = [pc EXCEPT ![k] = IF got[k] = NULL THEN "INTERNAL"
                                    ELSE IF ~same THEN "MARSHAL"
                                    ELSE IF again THEN "verify" ELSE "reply"]
      BY Zenon DEF FinishReply, Goto
    <2>4. CASE again
      <3> HIDE DEF again, same
      <3>1. QED BY <1>1, <2>1, <2>2, <2>3, <2>4
    <2>5. CASE ~again
      <3>1. got' = [got EXCEPT ![k] = got[k]] /\ pc' = [pc EXCEPT ![k] = "reply"]
        <4> HIDE DEF again, same
        <4>1. QED BY <1>1, <2>2, <2>3, <2>5
      <3>2. got' = got BY <3>1 DEF LockInv, TypeOK
      <3>3. QED BY <2>1, <3>1, <3>2
    <2>6. QED BY <2>4, <2>5
  <1>5. Consumed'
    <2>1. \A j \in Calls : j # k => pc'[j] = pc[j] /\ got'[j] = got[j]
      BY <1>4 DEF LockInv, TypeOK
    <2>2. \/ pc'[k] = "verify" /\ got'[k] = NULL
          \/ pc'[k] = "reply" /\ got'[k] = got[k]
      BY <1>4 DEF LockInv, TypeOK
    <2>3. \A j \in Calls : MyAnswer(got[j], j)' <=> MyAnswer(got'[j], j)
      BY <1>4 DEF MyAnswer
    <2>4. \A j \in Calls :
            /\ got'[j] # NULL => pc'[j] \in {"release", "finish"} \cup Outcomes /\ MyAnswer(got[j], j)'
            /\ pc'[j] \in {"release", "finish"} => (completed'[j] <=> got'[j] # NULL)
      BY <1>1, <1>4, <2>1, <2>2, <2>3 DEF ReplyInv, Consumed, Outcomes
    <2>5. QED BY <2>4 DEF Consumed
  <1>6. NoInternalError' BY <1>4 DEF LockInv, TypeOK, ReplyInv, NoInternalError
  <1>7. \A c \in Conns : Underway(c)' \subseteq Underway(c)
    BY <1>4 DEF Underway, Back, peerVars
  <1>8. \A j \in Calls : Holds(j)' => /\ Holds(j) /\ pc'[j] = pc[j] /\ lock[j] \in Locks
    BY <1>4 DEF LockInv, TypeOK, Holds, LockDiscipline
  <1>9. QED
    BY <1>4, <1>5, <1>6, <1>7, <1>8, Steady DEF LockInv, connVars, lockVars

LEMMA CallReplies ==
  ASSUME Oneways = {}, LockInv, LockInv', ReplyInv, IdsLast, NEW k \in Calls, CallStep(k)
  PROVE  ReplyInv'
  <1>g. got[k] # NULL => pc[k] \in {"release", "finish"} \cup Outcomes
    BY DEF ReplyInv, Consumed
  <1>a. ASSUME UNCHANGED <<id, lock, got, completed, lockVars, peerVars, idCount>>,
               NEW w \in {"verify", "connect"}, pc' = [pc EXCEPT ![k] = w],
               pc[k] \in {"connect", "recover"},
               \A j \in Calls : j # k => conn'[j] = conn[j]
        PROVE  ReplyInv'
    <2>1. \A c \in Conns : Underway(c)' \subseteq Underway(c)
      BY <1>a DEF Underway, Back, peerVars
    <2>2. got[k] = NULL BY <1>a, <1>g DEF Outcomes
    <2>3. \A j \in Calls : Holds(j)' => /\ Holds(j) /\ j # k /\ pc'[j] = pc[j]
                                        /\ conn'[j] = conn[j] /\ lock[j] \in Locks
      BY <1>a DEF LockInv, TypeOK, Holds, LockDiscipline
    <2>4. Consumed'
      BY <1>a, <2>2 DEF LockInv, TypeOK, ReplyInv, Consumed, MyAnswer, Outcomes
    <2>5. NoInternalError' BY <1>a DEF LockInv, TypeOK, ReplyInv, NoInternalError
    <2>6. QED BY <1>a, <2>1, <2>3, <2>4, <2>5, Steady DEF LockInv, lockVars
  <1>1. CASE ReuseConnection(k)
    BY <1>1, <1>a DEF ReuseConnection, Goto, connVars, LockInv, TypeOK
  <1>2. CASE \E c \in Conns : OpenConnection(k, c)
    <2>1. PICK c \in Conns : OpenConnection(k, c) BY <1>2
    <2>2. /\ UNCHANGED <<id, lock, got, completed, idCount, lockVars, created, sent, inPOA, toClient>>
          /\ pc' = [pc EXCEPT ![k] = "verify"] /\ pc[k] = "connect"
          /\ \A j \in Calls : j # k => conn'[j] = conn[j]
      BY <2>1 DEF OpenConnection, Goto, LockInv, TypeOK, lockVars
    <2>3. \A d \in Conns : Underway(d)' \subseteq Underway(d)
      BY <2>2 DEF Underway, Back
    <2>4. got[k] = NULL BY <2>2, <1>g DEF Outcomes
    <2>5. \A j \in Calls : Holds(j)' => /\ Holds(j) /\ j # k /\ pc'[j] = pc[j]
                                        /\ conn'[j] = conn[j] /\ lock[j] \in Locks
      BY <2>2 DEF LockInv, TypeOK, Holds, LockDiscipline
    <2>6. Consumed'
      BY <2>2, <2>4 DEF LockInv, TypeOK, ReplyInv, Consumed, MyAnswer, Outcomes
    <2>7. NoInternalError' BY <2>2 DEF LockInv, TypeOK, ReplyInv, NoInternalError
    <2>8. QED BY <2>2, <2>3, <2>5, <2>6, <2>7, Steady DEF LockInv, lockVars
  <1>3. CASE Recover(k)
    <2>1. /\ UNCHANGED <<id, got, completed, connVars, lockVars, peerVars>>
          /\ pc[k] = "recover"
          /\ \/ /\ pc' = [pc EXCEPT ![k] = "COMM_FAILURE"] /\ UNCHANGED <<conn, lock>>
             \/ /\ pc' = [pc EXCEPT ![k] = "connect"]
                /\ conn' = [conn EXCEPT ![k] = NULL] /\ lock' = [lock EXCEPT ![k] = NULL]
      BY <1>3 DEF Recover, Goto
    <2>2. CASE pc' = [pc EXCEPT ![k] = "COMM_FAILURE"] /\ UNCHANGED <<conn, lock>>
      BY <2>1, <2>2, <1>g, CallSteady DEF connVars, lockVars, peerVars, Outcomes
    <2>3. CASE /\ pc' = [pc EXCEPT ![k] = "connect"]
               /\ conn' = [conn EXCEPT ![k] = NULL] /\ lock' = [lock EXCEPT ![k] = NULL]
      <3>1. \A c \in Conns : Underway(c)' \subseteq Underway(c)
        BY <2>1 DEF Underway, Back, peerVars
      <3>2. got[k] = NULL BY <2>1, <1>g DEF Outcomes
      <3>3. \A j \in Calls : Holds(j)' => /\ Holds(j) /\ j # k /\ pc'[j] = pc[j]
                                          /\ conn'[j] = conn[j] /\ lock'[j] = lock[j]
                                          /\ lock[j] \in Locks
        BY <2>3 DEF LockInv, TypeOK, Holds, LockDiscipline
      <3>4. Consumed'
        BY <2>1, <2>3, <3>2 DEF LockInv, TypeOK, ReplyInv, Consumed, MyAnswer, Outcomes
      <3>5. NoInternalError' BY <2>3 DEF LockInv, TypeOK, ReplyInv, NoInternalError
      <3>6. QED BY <2>1, <3>1, <3>3, <3>4, <3>5, Steady DEF LockInv, connVars, lockVars
    <2>4. QED BY <2>1, <2>2, <2>3
  <1>4. CASE VerifyRequest(k)
    <2>1. PICK w \in {"activate", "recover"} : pc' = [pc EXCEPT ![k] = w]
      BY <1>4 DEF VerifyRequest, Goto
    <2>2. pc[k] = "verify" /\ UNCHANGED <<conn, id, lock, got, completed, connVars, lockVars, peerVars>>
      BY <1>4 DEF VerifyRequest
    <2>3. QED BY <2>1, <2>2, <1>g, CallSteady DEF connVars, lockVars, peerVars, Outcomes
  <1>5. CASE SendFails(k) \/ SendFailed(k)
    <2>1. PICK w \in {"closing", "recover", "COMM_FAILURE"} : pc' = [pc EXCEPT ![k] = w]
      BY <1>5 DEF SendFails, SendFailed, AfterFailure, Goto
    <2>2. /\ pc[k] \in {"send", "closing"}
          /\ UNCHANGED <<conn, id, lock, got, completed, idCount, lockVars, peerVars>>
      BY <1>5 DEF SendFails, SendFailed, connVars
    <2>3. QED BY <2>1, <2>2, <1>g, CallSteady DEF lockVars, peerVars, Outcomes, Holds
  <1>6. CASE WaitForCompletion(k)
    <2>1. PICK w \in {"waiting", "woken"} : pc' = [pc EXCEPT ![k] = w]
      BY <1>6 DEF WaitForCompletion, Goto
    <2>2. /\ pc[k] = "wait"
          /\ UNCHANGED <<conn, id, lock, got, completed, connVars, lconn, lid, lmsg, created, peerVars>>
      BY <1>6 DEF WaitForCompletion
    <2>3. \A l \in Locks : lstate'[l] = "COMPLETED" => lstate[l] = "COMPLETED"
      BY <1>6 DEF WaitForCompletion, LockInv, TypeOK
    <2>4. QED BY <2>1, <2>2, <2>3, <1>g, CallSteady DEF connVars, peerVars, Outcomes, Holds
  <1>7. CASE TimeOut(k)
    <2>1. /\ pc[k] = "waiting" /\ pc' = [pc EXCEPT ![k] = "woken"]
          /\ UNCHANGED <<conn, id, lock, got, completed, connVars, lockVars, sent, inPOA, toClient>>
      BY <1>7 DEF TimeOut, Goto
    <2>2. QED BY <2>1, <1>g, CallSteady DEF connVars, lockVars, Outcomes, Holds
  <1>8. CASE ConnectFails(k)
    <2>1. /\ pc[k] = "connect" /\ pc' = [pc EXCEPT ![k] = "COMM_FAILURE"]
          /\ UNCHANGED <<conn, id, lock, got, completed, connVars, lockVars, peerVars>>
      BY <1>8 DEF ConnectFails, Goto
    <2>2. QED BY <2>1, <1>g, CallSteady DEF connVars, lockVars, peerVars, Outcomes
  <1>9. CASE FinishNoReply(k)
    <2>1. PICK w \in {"lost", "recover", "COMM_FAILURE", "NO_RESPONSE"} :
            pc' = [pc EXCEPT ![k] = w]
      BY <1>9 DEF FinishNoReply, Goto
    <2>2. /\ pc[k] = "finish" /\ ~completed[k]
          /\ UNCHANGED <<conn, id, lock, got, completed, connVars, lockVars, peerVars>>
      BY <1>9 DEF FinishNoReply
    <2>3. got[k] = NULL BY <2>2 DEF ReplyInv, Consumed
    <2>4. QED BY <2>1, <2>2, <2>3, CallSteady DEF connVars, lockVars, peerVars
  <1>10. CASE DeactivateLock(k)
    <2>1. /\ UNCHANGED <<conn, id, got, completed, idCount, lstate, created, sent, inPOA, toClient>>
          /\ pc' = [pc EXCEPT ![k] = "finish"] /\ pc[k] = "release"
          /\ lconn' = [lconn EXCEPT ![lock[k]] = NULL] /\ lid' = [lid EXCEPT ![lock[k]] = 0]
          /\ lmsg' = [lmsg EXCEPT ![lock[k]] = NULL] /\ lock' = [lock EXCEPT ![k] = NULL]
      BY <1>10 DEF DeactivateLock, Goto, connVars, peerVars
    <2>2. Holds(k) /\ lock[k] \in Locks BY <2>1 DEF LockInv, LockDiscipline, Holds
    <2>3. \A j \in Calls : Holds(j)' => /\ Holds(j) /\ j # k /\ lock[j] # lock[k] /\ pc'[j] = pc[j]
                                        /\ lock'[j] = lock[j] /\ lock[j] \in Locks
      BY <2>1, <2>2 DEF LockInv, TypeOK, Holds, LockDiscipline
    <2>4. \A c \in Conns : Underway(c)' \subseteq Underway(c)
      BY <2>1 DEF Underway, Back
    <2>5. Consumed'
      BY <2>1 DEF LockInv, TypeOK, ReplyInv, Consumed, MyAnswer
    <2>6. NoInternalError' BY <2>1 DEF LockInv, TypeOK, ReplyInv, NoInternalError
    <2>7. \A l \in Locks : /\ lconn'[l] # NULL => lconn'[l] = lconn[l] /\ lid'[l] = lid[l]
                           /\ lmsg'[l] = lmsg[l] \/ lmsg'[l] = NULL
                           /\ l # lock[k] => lmsg'[l] = lmsg[l]
      BY <2>1, <2>2 DEF LockInv, TypeOK
    <2>8. QED BY <2>1, <2>3, <2>4, <2>5, <2>6, <2>7, Steady DEF LockInv
  <1>11. QED
    BY <1>1, <1>2, <1>3, <1>4, <1>5, <1>6, <1>7, <1>8, <1>9, <1>10, ActivateReply, SendReply,
       ConsumeReply, FinishWithReply DEF CallStep

\* put_reply gives an answer to the lock whose user waits for it
LEMMA ReceiveReplies ==
  ASSUME LockInv, LockInv', ReplyInv, NEW c \in Conns, ReceiveReply(c)
  PROVE  ReplyInv'
  <1> DEFINE m == Head(toClient[c])
             found == {l \in Active(c) : lid[l] = m.msg.id}
  <1>1. CanRead(c, {"reply", "addressing"}) BY DEF ReceiveReply
  <1>2. m \in Incoming /\ m.type \in {"reply", "addressing"}
    BY <1>1, HeadTail DEF CanRead, LockInv, TypeOK
  <1>3. m.msg \in Messages /\ IsAnswer(m, m.msg) BY <1>2, AnswerOf
  <1>4. m.msg \in Underway(c)
    <2>1. toClient[c] \in Seq(Incoming) /\ toClient[c] # <<>>
      BY <1>1 DEF CanRead, LockInv, TypeOK
    <2>2. 1 \in DOMAIN toClient[c] /\ toClient[c][1] = m BY <2>1
    <2>3. QED BY <1>3, <2>2 DEF Underway, Back
  <1>6. /\ UNCHANGED <<conn, id, lock, got, completed, idCount, lconn, lid, created, sent, inPOA>>
        /\ \A l \in Locks : lmsg'[l] = IF l \in found THEN m ELSE lmsg[l]
        /\ \A l \in Locks : lstate'[l] = IF l \in found THEN "COMPLETED" ELSE lstate[l]
        /\ \A k \in Calls : pc'[k] = pc[k] \/ (pc[k] = "waiting" /\ pc'[k] = "woken")
    BY DEF ReceiveReply, Notify
  <1>7. \A d \in Conns : Underway(d)' \subseteq Underway(d) BY <1>1, BackRead, <1>6 DEF LockInv, Underway
  <1>8. \A k \in Calls : Holds(k)' => Holds(k) /\ conn[k] \in Conns /\ lock[k] \in Locks
    BY <1>6 DEF Holds, LockInv, LockDiscipline, Connected
  <1>9. \A k \in Calls : Holds(k) /\ lock[k] \in found => MyAnswer(m, k)
    <2>1. SUFFICES ASSUME NEW k \in Calls, Holds(k), lock[k] \in found PROVE MyAnswer(m, k)
      OBVIOUS
    <2>2. conn[k] = c /\ id[k] = m.msg.id
      BY <2>1 DEF Active, LockInv, LockDiscipline
    <2>3. m.msg.call = k BY <2>1, <2>2, <1>4 DEF ReplyInv, IdIsCall
    <2>4. QED BY <1>3, <2>2, <2>3 DEF MyAnswer
  <1>10. m # NULL BY <1>2, NullAssumption
  <1>11. IssuedIds' BY <1>6, <1>7, <1>8 DEF ReplyInv, IssuedIds
  <1>12. IdIsCall' BY <1>6, <1>7, <1>8 DEF ReplyInv, IdIsCall
  <1>13. LockMessages'
    <2>1. \A l \in Locks \ created : l \notin found
      BY SetsAssumption DEF LockInv, Uncreated, Active
    <2>2. \A l \in Locks \ created' : lmsg'[l] = NULL
      BY <1>6, <2>1 DEF ReplyInv, LockMessages
    <2>3. \A k \in Calls : Holds(k)' => lmsg'[lock'[k]] = NULL \/ MyAnswer(lmsg[lock[k]], k)'
      BY <1>6, <1>8, <1>9 DEF ReplyInv, LockMessages, MyAnswer
    <2>4. \A k \in Calls : Holds(k)' /\ pc'[k] # "release" /\ lstate'[lock'[k]] = "COMPLETED"
            => lmsg'[lock'[k]] # NULL
      BY <1>6, <1>8, <1>10 DEF ReplyInv, LockMessages
    <2>5. QED BY <2>2, <2>3, <2>4 DEF LockMessages
  <1>14. Consumed' BY <1>6 DEF ReplyInv, Consumed, MyAnswer, Outcomes
  <1>15. NoInternalError' BY <1>6 DEF ReplyInv, NoInternalError
  <1>16. QED BY <1>11, <1>12, <1>13, <1>14, <1>15 DEF ReplyInv

\* the other steps on a connection leave the calls and the locks alone, or
\* wake threads up
LEMMA ConnReplies ==
  ASSUME LockInv, LockInv', ReplyInv, NEW c \in Conns,
         Receive(c) \/ Close(c) \/ CloseByManager(c) \/ Server(c)
  PROVE  ReplyInv'
  <1>1. CASE ReceiveReply(c) BY <1>1, ReceiveReplies
  <1>2. CASE ~ReceiveReply(c)
    <2>1. /\ UNCHANGED <<conn, id, lock, got, completed, idCount, lockVars>>
          /\ \A k \in Calls : pc'[k] = pc[k] \/ (pc[k] = "waiting" /\ pc'[k] = "woken")
      <3>1. CASE DestroyLocks(c) BY <3>1 DEF DestroyLocks, Notify
      <3>2. CASE Receive(c)
        BY <1>2, <3>2 DEF Receive, ReceiveTest, ReceiveClose, ReceiveBroken, ReceiveFails, callVars
      <3>3. CASE (Close(c) /\ ~DestroyLocks(c)) \/ CloseByManager(c)
        BY <3>3 DEF Close, LockListSize, CloseWithError, Closing, CloseSocket,
           CloseByManager, callVars
      <3>4. CASE Server(c)
        BY <3>4 DEF Server, ServerExecute, ServerReaddress, ServerReply, ServerClose,
           NetworkBreak, callVars, connVars
      <3>5. QED BY <3>1, <3>2, <3>3, <3>4
    <2>2. \A d \in Conns : Underway(d)' \subseteq Underway(d) BY UnderwayConn DEF LockInv
    <2>3. \A k \in Calls : Holds(k)' => Holds(k) /\ lock[k] \in Locks
      BY <2>1 DEF Holds, LockInv, LockDiscipline
    <2>4. Consumed' BY <2>1 DEF ReplyInv, Consumed, MyAnswer, Outcomes
    <2>5. NoInternalError' BY <2>1 DEF ReplyInv, NoInternalError
    <2>6. QED BY <2>1, <2>2, <2>3, <2>4, <2>5, Steady DEF LockInv, lockVars
  <1>3. QED BY <1>1, <1>2

LEMMA InitReplies == Init => ReplyInv
  <1> SUFFICES ASSUME Init PROVE ReplyInv
    OBVIOUS
  <1>1. \A c \in Conns : Underway(c) = {} BY DEF Init, Underway, Back
  <1>2. \A k \in Calls : pc[k] = "connect" /\ got[k] = NULL BY DEF Init
  <1>3. IssuedIds BY <1>1, <1>2 DEF Init, IssuedIds, Holds
  <1>4. IdIsCall BY <1>2 DEF IdIsCall, Holds
  <1>5. LockMessages BY <1>2 DEF Init, LockMessages, Holds
  <1>6. Consumed /\ NoInternalError BY <1>2 DEF Consumed, NoInternalError
  <1>7. QED BY <1>3, <1>4, <1>5, <1>6 DEF ReplyInv

LEMMA NextReplies ==
  ASSUME Oneways = {}
  PROVE  LockInv /\ LockInv' /\ ReplyInv /\ IdsLast /\ [Next]_vars => ReplyInv'
  <1> SUFFICES ASSUME LockInv, LockInv', ReplyInv, IdsLast, [Next]_vars PROVE ReplyInv'
    OBVIOUS
  <1>1. ASSUME NEW k \in Calls, CallStep(k) PROVE ReplyInv' BY <1>1, CallReplies
  <1>2. ASSUME NEW c \in Conns, Receive(c) \/ Close(c) \/ CloseByManager(c) \/ Server(c)
        PROVE  ReplyInv'
    BY <1>2, ConnReplies
  <1>3. CASE UNCHANGED vars
    BY <1>3 DEF ReplyInv, IssuedIds, IdIsCall, LockMessages, Consumed, NoInternalError, MyAnswer,
       Underway, Back, Holds, vars, callVars, connVars, lockVars, peerVars
  <1>4. QED BY <1>1, <1>2, <1>3 DEF Next

LEMMA RepliesInvariance ==
  ASSUME Oneways = {}
  PROVE  Spec /\ []IdsLast => []ReplyInv
  <1>1. LockInv /\ LockInv' /\ ReplyInv /\ IdsLast /\ [Next]_vars => ReplyInv'
    BY NextReplies
  <1>2. QED BY <1>1, InitReplies, Invariance, PTL DEF Spec

\* For any number of invocations, connections and locks, with timeouts, broken
\* and closed connections: whatever a thread finds in its lock is the answer
\* to the message it wrote last, and never a late reply to the request it gave
\* up or to the user the lock had before (put_reply, consume_reply,
\* deactivate_lock).  Assumed: no connection gives out all its ids, no
\* reliable oneways.
THEOREM RepliesAreMine ==
  ASSUME Oneways = {}
  PROVE  Spec /\ []IdsLast => []ReplyIsMine
  <1>1. ReplyInv => ReplyIsMine
    <2>1. SUFFICES ASSUME ReplyInv, NEW k \in Calls, got[k] # NULL
                   PROVE  got[k].msg.call = k /\ got[k].msg.id = id[k]
      BY DEF ReplyIsMine
    <2>2. MyAnswer(got[k], k) BY <2>1 DEF ReplyInv, Consumed
    <2>3. QED BY <2>2 DEF MyAnswer, IsAnswer
  <1>2. QED BY <1>1, RepliesInvariance, PTL

\* Under the same assumptions the internal errors of LockList::activate_lock
\* (two locks under one id), of consume_reply (completed without a message) and
\* of IIOPCommLayer (a reply of the wrong kind) are never thrown.
THEOREM NeverInternal ==
  ASSUME Oneways = {}
  PROVE  Spec /\ []IdsLast => []NoInternalError
  <1>1. ReplyInv => NoInternalError BY DEF ReplyInv
  <1>2. QED BY <1>1, RepliesInvariance, PTL

-----------------------------------------------------------------------------
(* At most once.  What a connection that is being closed still carries: the *)
(* requests that the server did not answer before its CloseConnection are   *)
(* those it was executing, and a client that closes by itself either knows  *)
(* that a reply is missing or had no request on the connection.             *)

\* The server has closed c in order
Ordered(c) == ~sOpen[c] /\ sent[c] = {} /\ \A m \in inPOA[c] : m.call \in overtaken

Channel(c) ==
  /\ \A n \in DOMAIN toClient[c] :
       /\ toClient[c][n].type = "CloseConnection" => n = Len(toClient[c]) /\ Ordered(c)
       /\ toClient[c][n].type = "broken" => Len(toClient[c]) = 1 /\ ~sOpen[c]
  /\ ~sock[c] => cstate[c] # "OPEN" /\ toClient[c] = <<>>
  /\ cstate[c] = "none" => ~sock[c] /\ ~sOpen[c]
  /\ closeStep[c] # "no" => cstate[c] \in {"CLOSING", "ERROR"}
  /\ closeStep[c] \in {"size", "error"} => sock[c]
  /\ closeStep[c] \in {"locks", "done"} => ~sock[c]
  /\ destroyed[c] => ~sock[c] /\ cstate[c] \in {"CLOSING", "ERROR"}

Channels == \A c \in Conns : Channel(c)

LEMMA ChannelSame ==
  ASSUME NEW c \in Conns, Channel(c),
         cstate'[c] = cstate[c], closeStep'[c] = closeStep[c], sock'[c] = sock[c],
         destroyed'[c] = destroyed[c], sOpen'[c] = sOpen[c], sent'[c] = sent[c],
         inPOA'[c] = inPOA[c], toClient'[c] = toClient[c], overtaken \subseteq overtaken'
  PROVE  Channel(c)'
  BY DEF Channel, Ordered

\* set_error by the sender or by the receiving thread
LEMMA ChannelError ==
  ASSUME TypeOK, NEW c \in Conns, Channel(c), SetError(c),
         sock'[c] = sock[c], destroyed'[c] = destroyed[c], sOpen'[c] = sOpen[c],
         sent'[c] = sent[c], inPOA'[c] = inPOA[c], overtaken \subseteq overtaken',
         toClient'[c] = toClient[c] \/ toClient'[c] = <<>>
  PROVE  Channel(c)'
  <1>1. cstate'[c] = "ERROR" BY DEF SetError, TypeOK
  <1>2. closeStep'[c] = closeStep[c] \/ closeStep'[c] = "uncache" BY DEF SetError, TypeOK
  <1>3. Ordered(c) => Ordered(c)' BY DEF Ordered
  <1>4. QED BY <1>1, <1>2, <1>3 DEF Channel

\* A request that is overtaken stays so
LEMMA OvertakenGrows == [Next]_vars => overtaken \subseteq overtaken'
  <1> SUFFICES ASSUME [Next]_vars PROVE overtaken \subseteq overtaken'
    OBVIOUS
  <1>1. ASSUME NEW k \in Calls, CallStep(k) PROVE overtaken \subseteq overtaken'
    BY <1>1 DEF CallStep, ReuseConnection, OpenConnection, ConnectFails, VerifyRequest, ActivateLock,
       SendMessage, SendFails, SendFailed, WaitForCompletion, TimeOut, IsCompleted, DeactivateLock,
       FinishReply, FinishNoReply, Recover, peerVars
  <1>2. ASSUME NEW c \in Conns, Receive(c) \/ Close(c) \/ CloseByManager(c) \/ Server(c)
        PROVE  overtaken \subseteq overtaken'
    <2>1. CASE Receive(c)
      BY <2>1 DEF Receive, ReceiveTest, ReceiveReply, ReceiveClose, ReceiveBroken, ReceiveFails, peerVars
    <2>2. CASE Close(c) \/ CloseByManager(c)
      BY <2>2 DEF Close, LockListSize, CloseWithError, Closing, CloseSocket, DestroyLocks,
         CloseByManager, peerVars
    <2>3. CASE Server(c)
      BY <2>3 DEF Server, ServerExecute, ServerReaddress, ServerReply, ServerClose, NetworkBreak
    <2>4. QED BY <1>2, <2>1, <2>2, <2>3
  <1>3. CASE UNCHANGED vars BY <1>3 DEF vars, peerVars
  <1>4. QED BY <1>1, <1>2, <1>3 DEF Next

LEMMA ChannelsCall ==
  ASSUME LockInv, Channels, NEW k \in Calls, CallStep(k)
  PROVE  Channels'
  <1> USE DEF LockInv
  <1>1. CASE \E c \in Conns : OpenConnection(k, c)
    <2>1. PICK c \in Conns : OpenConnection(k, c) BY <1>1
    <2>2. /\ cstate[c] = "none" /\ cstate'[c] = "OPEN" /\ sock'[c] /\ sOpen'[c]
          /\ closeStep'[c] = closeStep[c] /\ destroyed'[c] = destroyed[c]
          /\ toClient'[c] = toClient[c] /\ overtaken' = overtaken
      BY <2>1 DEF OpenConnection, TypeOK
    <2>3. /\ closeStep[c] = "no" /\ ~destroyed[c] /\ toClient[c] = <<>>
      BY <2>2 DEF Channels, Channel
    <2>4. Channel(c)' BY <2>2, <2>3 DEF Channel
    <2>5. \A d \in Conns : d # c => Channel(d)'
      BY <2>1, ChannelSame DEF OpenConnection, TypeOK, Channels
    <2>6. QED BY <2>4, <2>5 DEF Channels
  <1>2. CASE SendMessage(k)
    <2>1. conn[k] \in Conns BY <1>2 DEF SendMessage, Connected
    <2>2. UNCHANGED <<connVars, sOpen, inPOA, toClient>> /\ overtaken \subseteq overtaken'
      BY <1>2 DEF SendMessage
    <2>3. ASSUME NEW d \in Conns PROVE Channel(d)'
      <3>1. CASE sent'[d] = sent[d]
        BY <2>2, <3>1, ChannelSame DEF connVars, Channels
      <3>2. CASE sent'[d] # sent[d]
        <4>1. sOpen[d] BY <1>2, <2>1, <3>2 DEF SendMessage, TypeOK
        <4>2. ~Ordered(d) BY <4>1 DEF Ordered
        <4>3. QED BY <2>2, <4>2 DEF connVars, Channels, Channel
      <3>3. QED BY <3>1, <3>2
    <2>4. QED BY <2>3 DEF Channels
  <1>3. CASE SendFails(k)
    <2>1. PICK c \in Conns : c = conn[k] BY <1>3 DEF SendFails, Connected
    <2>2. SetError(c) /\ UNCHANGED <<sock, destroyed, peerVars>>
      BY <1>3, <2>1 DEF SendFails
    <2>3. Channel(c)' BY <2>2, ChannelError DEF peerVars, Channels
    <2>4. ASSUME NEW d \in Conns, d # c PROVE Channel(d)'
      <3>1. cstate'[d] = cstate[d] /\ closeStep'[d] = closeStep[d]
        BY <2>2, <2>4 DEF SetError, TypeOK
      <3>2. QED BY <2>2, <3>1, ChannelSame DEF peerVars, Channels
    <2>5. QED BY <2>3, <2>4 DEF Channels
  <1>4. CASE ~SendMessage(k) /\ ~SendFails(k) /\ ~\E c \in Conns : OpenConnection(k, c)
    <2>1. UNCHANGED <<cstate, closeStep, sock, destroyed, sOpen, sent, inPOA, toClient>>
          /\ overtaken \subseteq overtaken'
      BY <1>4 DEF peerVars, CallStep, ReuseConnection, ConnectFails, VerifyRequest, ActivateLock, SendFailed,
         WaitForCompletion, TimeOut, IsCompleted, DeactivateLock, FinishReply, FinishNoReply,
         Recover, connVars
    <2>2. QED BY <2>1, ChannelSame DEF Channels
  <1>5. QED BY <1>1, <1>2, <1>3, <1>4

\* The first message and what comes after it
LEMMA ReadHead ==
  ASSUME TypeOK, NEW c \in Conns, NEW types, CanRead(c, types)
  PROVE  /\ toClient[c] \in Seq(Incoming) /\ Len(toClient[c]) \in Nat /\ Len(toClient[c]) > 0
         /\ Head(toClient[c]) = toClient[c][1] /\ 1 \in DOMAIN toClient[c]
         /\ toClient'[c] = Tail(toClient[c])
         /\ Len(Tail(toClient[c])) = Len(toClient[c]) - 1
         /\ \A n \in DOMAIN Tail(toClient[c]) :
              n \in Nat /\ n >= 1 /\ n + 1 \in DOMAIN toClient[c] /\ Tail(toClient[c])[n] = toClient[c][n + 1]
         /\ Len(toClient[c]) = 1 => Tail(toClient[c]) = <<>>
         /\ \A d \in Conns : d # c => toClient'[d] = toClient[d]
  <1> DEFINE s == toClient[c]
  <1>1. s \in Seq(Incoming) /\ s # <<>> BY DEF TypeOK, CanRead
  <1>2. /\ Len(s) \in Nat /\ Len(s) > 0 /\ Head(s) = s[1] /\ 1 \in DOMAIN s
        /\ Tail(s) \in Seq(Incoming) /\ Len(Tail(s)) = Len(s) - 1
        /\ \A n \in DOMAIN Tail(s) : n \in Nat /\ n >= 1 /\ n + 1 \in DOMAIN s /\ Tail(s)[n] = s[n + 1]
    BY <1>1
  <1>3. Len(s) = 1 => Tail(s) = <<>>
    <2>1. \A t \in Seq(Incoming) : Len(t) = 0 => t = <<>> OBVIOUS
    <2>2. QED BY <1>2, <2>1
  <1>4. toClient' = [toClient EXCEPT ![c] = Tail(s)] BY DEF CanRead
  <1>5. QED BY <1>1, <1>2, <1>3, <1>4 DEF TypeOK

LEMMA ChannelsReceive ==
  ASSUME LockInv, Channels, NEW c \in Conns, Receive(c)
  PROVE  Channels'
  <1> USE DEF LockInv
  <1>a. SUFFICES Channel(c)' /\ \A d \in Conns : d # c => Channel(d)'
    BY DEF Channels
  <1>b. ASSUME NEW d \in Conns, d # c PROVE Channel(d)'
    <2>1. /\ cstate'[d] = cstate[d] /\ closeStep'[d] = closeStep[d] /\ toClient'[d] = toClient[d]
          /\ UNCHANGED <<sock, destroyed, sOpen, sent, inPOA, overtaken>>
      BY <1>b DEF Receive, ReceiveTest, ReceiveReply, ReceiveClose, ReceiveBroken, ReceiveFails,
         CanRead, SetError, TypeOK, peerVars
    <2>2. QED BY <2>1, ChannelSame DEF Channels
  <1>c. ASSUME NEW types, CanRead(c, types)
        PROVE  /\ \A n \in DOMAIN toClient'[c] :
                    /\ toClient'[c][n].type = "CloseConnection"
                         => n = Len(toClient'[c]) /\ Ordered(c)
                    /\ toClient'[c][n].type # "broken"
               /\ sock[c]
    <2> DEFINE s == toClient[c]
               t == Tail(s)
    <2>1. /\ Len(s) \in Nat /\ toClient'[c] = t /\ Len(t) = Len(s) - 1
          /\ \A n \in DOMAIN t : n \in Nat /\ n >= 1 /\ n + 1 \in DOMAIN s /\ t[n] = s[n + 1]
      BY <1>c, ReadHead
    <2>2. ASSUME NEW n \in DOMAIN t
          PROVE  /\ t[n].type = "CloseConnection" => n = Len(t) /\ Ordered(c)
                 /\ t[n].type # "broken"
      <3>1. n \in Nat /\ n >= 1 /\ n + 1 \in DOMAIN s /\ t[n] = s[n + 1] BY <2>1
      <3>2. s[n + 1].type = "CloseConnection" => n + 1 = Len(s) /\ Ordered(c)
        BY <3>1 DEF Channels, Channel
      <3>3. s[n + 1].type = "broken" => Len(s) = 1
        BY <3>1 DEF Channels, Channel
      <3>4. s \in Seq(Incoming) /\ n + 1 <= Len(s)
        BY <3>1 DEF TypeOK
      <3>5. QED BY <2>1, <3>1, <3>2, <3>3, <3>4
    <2>3. sock[c] BY <1>c DEF CanRead
    <2>4. QED BY <2>1, <2>2, <2>3
  <1>1. CASE ReceiveTest(c)
    BY <1>1, <1>b, ChannelSame DEF ReceiveTest, peerVars, Channels
  <1>2. CASE ReceiveReply(c)
    <2>1. UNCHANGED <<cstate, closeStep, sock, destroyed, sOpen, sent, inPOA, overtaken>> BY <1>2 DEF ReceiveReply
    <2>2. CanRead(c, {"reply", "addressing"}) BY <1>2 DEF ReceiveReply
    <2>3. Channel(c)' BY <1>c, <2>1, <2>2 DEF Channels, Channel, Ordered
    <2>4. QED BY <2>3, <1>b
  <1>3. CASE ReceiveClose(c)
    <2>1. UNCHANGED <<sock, destroyed, sOpen, sent, inPOA, overtaken>> BY <1>3 DEF ReceiveClose
    <2>2. CanRead(c, {"CloseConnection"}) BY <1>3 DEF ReceiveClose
    <2>3. toClient'[c] = <<>>
      <3>1. /\ Head(toClient[c]) = toClient[c][1] /\ 1 \in DOMAIN toClient[c]
            /\ toClient'[c] = Tail(toClient[c])
            /\ Len(toClient[c]) = 1 => Tail(toClient[c]) = <<>>
        BY <2>2, ReadHead
      <3>2. toClient[c][1].type = "CloseConnection" BY <2>2, <3>1 DEF CanRead
      <3>3. 1 = Len(toClient[c])
        BY <3>1, <3>2 DEF Channels, Channel
      <3>4. QED BY <3>1, <3>3
    <2>4. CASE cstate[c] = "OPEN"
      <3>1. cstate'[c] = "CLOSING" /\ closeStep'[c] = "uncache"
        BY <1>3, <2>4 DEF ReceiveClose, TypeOK
      <3>2. QED BY <1>b, <1>c, <2>1, <2>2, <2>3, <3>1 DEF Channels, Channel, Ordered
    <2>5. CASE cstate[c] # "OPEN"
      <3>1. cstate' = cstate /\ closeStep' = closeStep
        BY <1>3, <2>5 DEF ReceiveClose
      <3>2. QED BY <1>b, <1>c, <2>1, <2>2, <2>3, <3>1 DEF Channels, Channel, Ordered
    <2>6. QED BY <2>4, <2>5
  <1>4. CASE ReceiveBroken(c)
    <2>1. UNCHANGED <<sock, destroyed, sOpen, sent, inPOA, overtaken>> /\ SetError(c) BY <1>4 DEF ReceiveBroken
    <2>2. CanRead(c, {"broken"}) BY <1>4 DEF ReceiveBroken
    <2>3. toClient'[c] = <<>>
      <3>1. /\ Head(toClient[c]) = toClient[c][1] /\ 1 \in DOMAIN toClient[c]
            /\ toClient'[c] = Tail(toClient[c])
            /\ Len(toClient[c]) = 1 => Tail(toClient[c]) = <<>>
        BY <2>2, ReadHead
      <3>2. toClient[c][1].type = "broken" BY <2>2, <3>1 DEF CanRead
      <3>3. 1 = Len(toClient[c])
        BY <3>1, <3>2 DEF Channels, Channel
      <3>4. QED BY <3>1, <3>3
    <2>4. Channel(c)' BY <2>1, <2>3, ChannelError DEF Channels
    <2>5. QED BY <2>4, <1>b
  <1>5. CASE ReceiveFails(c)
    <2>1. UNCHANGED <<sock, destroyed, peerVars>> /\ SetError(c) BY <1>5 DEF ReceiveFails
    <2>2. Channel(c)' BY <2>1, ChannelError DEF Channels, peerVars
    <2>3. QED BY <2>2, <1>b
  <1>6. QED BY <1>1, <1>2, <1>3, <1>4, <1>5 DEF Receive

LEMMA ChannelsClose ==
  ASSUME LockInv, Channels, NEW c \in Conns, Close(c) \/ CloseByManager(c)
  PROVE  Channels'
  <1> USE DEF LockInv
  <1>a. ASSUME NEW d \in Conns, d # c PROVE Channel(d)'
    <2>1. /\ cstate'[d] = cstate[d] /\ closeStep'[d] = closeStep[d] /\ sock'[d] = sock[d]
          /\ destroyed'[d] = destroyed[d] /\ toClient'[d] = toClient[d]
          /\ UNCHANGED <<sOpen, sent, inPOA, overtaken>>
      BY <1>a DEF Close, LockListSize, CloseWithError, Closing, CloseSocket, DestroyLocks,
         CloseByManager, TypeOK, peerVars
    <2>2. QED BY <2>1, ChannelSame DEF Channels
  <1>1. CASE LockListSize(c) \/ Closing(c)
    <2>1. /\ closeStep[c] # "no" /\ closeStep'[c] \in {"socket", "error"}
          /\ closeStep'[c] = "error" => closeStep[c] = "size"
          /\ UNCHANGED <<cstate, sock, destroyed, peerVars>>
      BY <1>1 DEF LockListSize, Closing, TypeOK
    <2>2. Channel(c)' BY <2>1 DEF Channels, Channel, Ordered, peerVars
    <2>3. QED BY <2>2, <1>a DEF Channels
  <1>2. CASE CloseWithError(c)
    <2>1. /\ closeStep[c] # "no" /\ closeStep'[c] = "socket" /\ cstate'[c] = "ERROR"
          /\ UNCHANGED <<sock, destroyed, peerVars>>
      BY <1>2 DEF CloseWithError, TypeOK
    <2>2. Channel(c)' BY <2>1 DEF Channels, Channel, Ordered, peerVars
    <2>3. QED BY <2>2, <1>a DEF Channels
  <1>3. CASE CloseSocket(c)
    <2>1. /\ closeStep[c] # "no" /\ closeStep'[c] = "locks" /\ ~sock'[c] /\ toClient'[c] = <<>>
          /\ UNCHANGED <<cstate, destroyed, sOpen, sent, inPOA, overtaken>>
      BY <1>3 DEF CloseSocket, TypeOK
    <2>2. Channel(c)' BY <2>1 DEF Channels, Channel, Ordered
    <2>3. QED BY <2>2, <1>a DEF Channels
  <1>4. CASE DestroyLocks(c)
    <2>1. /\ closeStep[c] = "locks" /\ closeStep'[c] = "done"
          /\ UNCHANGED <<cstate, sock, peerVars>>
      BY <1>4 DEF DestroyLocks, TypeOK
    <2>2. Channel(c)' BY <2>1 DEF Channels, Channel, Ordered, peerVars
    <2>3. QED BY <2>2, <1>a DEF Channels
  <1>5. CASE CloseByManager(c)
    <2>1. /\ \/ cstate[c] = "OPEN" /\ cstate'[c] = "CLOSING" /\ closeStep'[c] = "size"
             \/ cstate'[c] = cstate[c] /\ closeStep'[c] = closeStep[c]
          /\ UNCHANGED <<sock, destroyed, peerVars>>
      BY <1>5 DEF CloseByManager, TypeOK
    <2>2. Channel(c)' BY <2>1 DEF Channels, Channel, Ordered, peerVars
    <2>3. QED BY <2>2, <1>a DEF Channels
  <1>6. QED BY <1>1, <1>2, <1>3, <1>4, <1>5 DEF Close

\* What is put behind the other messages
LEMMA PutLast ==
  ASSUME TypeOK, NEW c \in Conns, NEW x \in Incoming, Put(c, x)
  PROVE  /\ \A d \in Conns : d # c \/ ~sock[c] => toClient'[d] = toClient[d]
         /\ sock[c] =>
              /\ Len(toClient[c]) \in Nat /\ Len(toClient'[c]) = Len(toClient[c]) + 1
              /\ toClient'[c] = Append(toClient[c], x)
              /\ toClient'[c] # <<>>
              /\ toClient'[c][Len(toClient[c]) + 1] = x
              /\ Len(toClient[c]) + 1 \in DOMAIN toClient'[c]
              /\ \A n \in DOMAIN toClient[c] :
                   n \in DOMAIN toClient'[c] /\ toClient'[c][n] = toClient[c][n]
              /\ \A n \in DOMAIN toClient'[c] :
                   \/ n \in DOMAIN toClient[c] /\ toClient'[c][n] = toClient[c][n]
                   \/ n = Len(toClient[c]) + 1 /\ toClient'[c][n] = x
  <1> DEFINE s == toClient[c]
  <1>1. s \in Seq(Incoming) BY DEF TypeOK
  <1>2. /\ Len(s) \in Nat /\ Len(Append(s, x)) = Len(s) + 1
        /\ Append(s, x)[Len(s) + 1] = x
        /\ Len(s) + 1 \in DOMAIN Append(s, x)
        /\ \A n \in DOMAIN s : n \in DOMAIN Append(s, x) /\ Append(s, x)[n] = s[n]
        /\ \A n \in DOMAIN Append(s, x) :
             (n \in DOMAIN s /\ Append(s, x)[n] = s[n]) \/ (n = Len(s) + 1 /\ Append(s, x)[n] = x)
    BY <1>1
  <1>3. Append(s, x) # <<>> BY <1>1
  <1>4. CASE sock[c]
    <2>1. toClient' = [toClient EXCEPT ![c] = Append(s, x)] BY <1>4 DEF Put
    <2>2. toClient'[c] = Append(s, x) /\ \A d \in Conns : d # c => toClient'[d] = toClient[d]
      BY <2>1 DEF TypeOK
    <2>3. QED BY <1>2, <1>3, <1>4, <2>2
  <1>5. CASE ~sock[c] BY <1>5 DEF Put
  <1>6. QED BY <1>4, <1>5

LEMMA ChannelsServer ==
  ASSUME LockInv, Channels, NEW c \in Conns, Server(c)
  PROVE  Channels'
  <1> USE DEF LockInv
  <1>a. UNCHANGED connVars
    BY DEF Server, ServerExecute, ServerReaddress, ServerReply, ServerClose, NetworkBreak
  <1>g. overtaken \subseteq overtaken'
    BY DEF Server, ServerExecute, ServerReaddress, ServerReply, ServerClose, NetworkBreak
  <1>b. ASSUME NEW d \in Conns, d # c PROVE Channel(d)'
    <2>1. sOpen'[d] = sOpen[d] /\ sent'[d] = sent[d] /\ inPOA'[d] = inPOA[d]
      <3>1. ASSUME NEW m, ServerExecute(c, m) \/ ServerReaddress(c, m) \/ ServerReply(c, m)
            PROVE  sOpen'[d] = sOpen[d] /\ sent'[d] = sent[d] /\ inPOA'[d] = inPOA[d]
        BY <3>1, <1>b DEF ServerExecute, ServerReaddress, ServerReply, TypeOK
      <3>2. CASE ServerClose(c) \/ NetworkBreak(c)
        BY <3>2, <1>b DEF ServerClose, NetworkBreak, TypeOK
      <3>3. QED BY <3>1, <3>2 DEF Server
    <2>2. toClient'[d] = toClient[d]
      <3>1. ASSUME NEW x, Put(c, x) PROVE toClient'[d] = toClient[d]
        BY <3>1, <1>b DEF Put, TypeOK
      <3>2. CASE toClient' = toClient BY <3>2
      <3>3. CASE \E x : toClient' = [toClient EXCEPT ![c] = x] BY <3>3, <1>b DEF TypeOK
      <3>4. QED
        BY <3>1, <3>2, <3>3 DEF Server, ServerExecute, ServerReaddress, ServerReply, ServerClose,
           NetworkBreak
    <2>3. QED BY <1>a, <1>g, <2>1, <2>2, ChannelSame DEF Channels, connVars
  <1>d. ASSUME sOpen[c] \/ sent[c] # {}
        PROVE  \A n \in DOMAIN toClient[c] : toClient[c][n].type # "CloseConnection"
    BY <1>d DEF Channels, Channel, Ordered
  <1>e. ASSUME sOpen[c]
        PROVE  \A n \in DOMAIN toClient[c] : toClient[c][n].type \notin {"CloseConnection", "broken"}
    BY <1>e DEF Channels, Channel, Ordered
  <1>1. ASSUME NEW m \in sent[c], ServerExecute(c, m) PROVE Channel(c)'
    <2>1. UNCHANGED <<sOpen, toClient>> BY <1>1 DEF ServerExecute
    <2>2. \A n \in DOMAIN toClient[c] : toClient[c][n].type # "CloseConnection" BY <1>1, <1>d
    <2>3. QED BY <1>a, <2>1, <2>2 DEF Channels, Channel, connVars
  <1>2. ASSUME NEW x \in Incoming, x.type \notin {"CloseConnection", "broken"}, Put(c, x),
               sOpen' = sOpen, sOpen[c]
        PROVE  Channel(c)'
    <2>1. \A n \in DOMAIN toClient'[c] : toClient'[c][n].type \notin {"CloseConnection", "broken"}
      BY <1>2, <1>e, PutLast
    <2>2. ~sock[c] => toClient'[c] = toClient[c] BY <1>2, PutLast
    <2>3. QED BY <1>2, <1>a, <2>1, <2>2 DEF Channels, Channel, connVars
  <1>3. ASSUME NEW m \in sent[c], ServerReaddress(c, m) PROVE Channel(c)'
    <2>1. [type |-> "addressing", msg |-> m] \in Incoming BY AnswerType DEF TypeOK
    <2>2. QED BY <1>3, <2>1, <1>2 DEF ServerReaddress
  <1>4. ASSUME NEW m \in inPOA[c], ServerReply(c, m) PROVE Channel(c)'
    <2>1. [type |-> "reply", msg |-> m] \in Incoming BY AnswerType DEF TypeOK
    <2>2. QED BY <1>4, <2>1, <1>2 DEF ServerReply
  <1>5. ASSUME ServerClose(c) PROVE Channel(c)'
    <2> DEFINE x == [type |-> "CloseConnection"]
    <2>1. x \in Incoming /\ x.type = "CloseConnection" BY DEF Incoming
    <2>2. /\ Put(c, x) /\ sock[c] /\ sOpen[c] /\ inPOA' = inPOA
          /\ ~sOpen'[c] /\ sent'[c] = {}
          /\ \A m \in inPOA[c] : m.call \in overtaken'
      BY <1>5 DEF ServerClose, TypeOK
    <2>3. \A n \in DOMAIN toClient'[c] :
            /\ toClient'[c][n].type = "CloseConnection" => n = Len(toClient'[c])
            /\ toClient'[c][n].type # "broken"
      BY <1>e, <2>1, <2>2, PutLast
    <2>4. Ordered(c)' BY <2>2 DEF Ordered
    <2>5. QED BY <1>a, <2>2, <2>3, <2>4 DEF Channels, Channel, connVars
  <1>6. ASSUME NetworkBreak(c) PROVE Channel(c)'
    <2>1. /\ sock[c] /\ ~sOpen'[c]
          /\ toClient'[c] = <<[type |-> "broken"]>>
      BY <1>6 DEF NetworkBreak, TypeOK
    <2>2. \A n \in DOMAIN toClient'[c] :
            toClient'[c][n].type = "broken" /\ Len(toClient'[c]) = 1
      BY <2>1
    <2>3. QED BY <1>a, <2>1, <2>2 DEF Channels, Channel, connVars
  <1>7. Channel(c)' BY <1>1, <1>3, <1>4, <1>5, <1>6 DEF Server
  <1>8. QED BY <1>7, <1>b DEF Channels

LEMMA InitChannels == Init => Channels
  BY DEF Init, Channels, Channel

LEMMA NextChannels == LockInv /\ Channels /\ [Next]_vars => Channels'
  <1> SUFFICES ASSUME LockInv, Channels, [Next]_vars PROVE Channels'
    OBVIOUS
  <1>2. CASE UNCHANGED vars
    BY <1>2 DEF Channels, Channel, Ordered, vars, connVars, peerVars
  <1>3. QED
    BY <1>2, ChannelsCall, ChannelsReceive, ChannelsClose, ChannelsServer DEF Next

-----------------------------------------------------------------------------
(* What is known of a call k that is not overtaken                          *)

\* The server has not executed k and nothing that is on its way will make it
Unsent(k) == executed[k] = 0 /\ \A c \in Conns : \A m \in sent[c] : m.call # k

\* A call about to be sent is unsent; at most one message of it is on its way
SentOnce(k) ==
  /\ executed[k] <= 1
  /\ pc[k] \in {"connect", "verify", "activate", "send", "closing", "recover"} => Unsent(k)
  /\ \A c \in Conns : \A m \in sent[c] :
       m.call = k => /\ executed[k] = 0 /\ conn[k] = c /\ m.id = id[k]
                     /\ \A n \in sent[c] : n.call = k => n = m

\* Nothing has its id before it is sent
Fresh(k) ==
  pc[k] \in {"send", "closing"} =>
    lmsg[lock[k]] = NULL /\ \A m \in Underway(conn[k]) : m.id # id[k]

\* The server asks for another addressing of a request it has not executed
Addressing(m) == [type |-> "addressing", msg |-> m]

AskedAgain(k) ==
  \E m \in Messages :
    /\ m.call = k /\ m.id = id[k]
    /\ \/ lmsg[lock[k]] = Addressing(m)
       \/ \E n \in DOMAIN toClient[conn[k]] : toClient[conn[k]][n] = Addressing(m)

Readdressed(k) ==
  /\ Holds(k) /\ AskedAgain(k) => Unsent(k)
  /\ pc[k] \in {"release", "finish"} /\ got[k] # NULL /\ got[k].type = "addressing" => Unsent(k)

\* What is on its way to the client is lost
Broken(c) == cstate[c] = "ERROR" \/ toClient[c] = <<[type |-> "broken"]>>

\* The reply to an executed call is not lost unless the connection is broken
InServer(k) == \E m \in inPOA[conn[k]] \cup Back(conn[k]) : m.call = k /\ m.id = id[k]

Answered(k) ==
  pc[k] \in {"wait", "waiting", "woken"} /\ executed[k] # 0 =>
    InServer(k) \/ lstate[lock[k]] = "COMPLETED" \/ Broken(conn[k])

\* A connection on which k waits is closed by the server, which has answered k or
\* never read it, or by the manager, which will find the lock of k
Drained(k) ==
  pc[k] \in {"wait", "waiting", "woken"} /\ cstate[conn[k]] = "CLOSING" =>
    \/ closeStep[conn[k]] \in {"size", "error"}
    \/ Ordered(conn[k]) /\ toClient[conn[k]] = <<>>

\* A thread is woken by its reply or by LockList::destroy
Woken(k) ==
  /\ pc[k] \in {"send", "closing", "wait"} => lstate[lock[k]] # "WAITING"
  /\ pc[k] = "woken" /\ lstate[lock[k]] # "COMPLETED" => destroyed[conn[k]]

Unanswered(k) ==
  pc[k] \in {"release", "finish"} /\ ~completed[k] => Unsent(k) \/ cstate[conn[k]] = "ERROR"

Once(k) ==
  /\ SentOnce(k) /\ Fresh(k) /\ Readdressed(k)
  /\ Answered(k) /\ Drained(k) /\ Woken(k) /\ Unanswered(k)

OnceInv == \A k \in Calls \ overtaken : Once(k)

-----------------------------------------------------------------------------
\* A step that leaves the call k where it is, or wakes it up, loses nothing of
\* it and does not execute it
LEMMA OnceFrame ==
  ASSUME LockInv, LockInv', NEW k \in Calls, Once(k),
         conn'[k] = conn[k], id'[k] = id[k], lock'[k] = lock[k], got'[k] = got[k],
         completed'[k] = completed[k], executed'[k] = executed[k],
         \/ pc'[k] = pc[k]
         \/ /\ pc[k] = "waiting" /\ pc'[k] = "woken"
            /\ destroyed'[conn[k]] \/ lstate'[lock[k]] = "COMPLETED",
         \A c \in Conns : \A m \in sent'[c] : m.call = k => m \in sent[c],
         pc[k] \in {"send", "closing"} =>
           /\ lmsg'[lock[k]] = lmsg[lock[k]]
           /\ \A m \in Underway(conn[k])' : m \in Underway(conn[k]) \/ m.id # id[k],
         Holds(k) => lstate'[lock[k]] \in {lstate[lock[k]], "COMPLETED"},
         Holds(k) /\ AskedAgain(k)' => AskedAgain(k) \/ Unsent(k)',
         \A c \in Conns : destroyed[c] => destroyed'[c],
         \A c \in Conns : cstate[c] = "ERROR" => cstate'[c] = "ERROR",
         pc[k] \in {"wait", "waiting", "woken"} /\ Broken(conn[k]) => Broken(conn[k])',
         Drained(k)',
         pc[k] \in {"wait", "waiting", "woken"} /\ InServer(k) =>
           InServer(k)' \/ lstate'[lock[k]] = "COMPLETED" \/ Broken(conn[k])'
  PROVE  Once(k)'
  <1>1. Unsent(k) => Unsent(k)' BY DEF Unsent
  <1>2. /\ Holds(k)' => Holds(k) /\ conn[k] \in Conns /\ lock[k] \in Locks
        /\ pc'[k] \in {"connect", "verify", "activate", "recover", "send", "closing", "wait", "release",
                       "finish"}
             => pc[k] = pc'[k]
    BY DEF Holds, LockInv, Connected, LockDiscipline
  <1>3. SentOnce(k)' BY <1>1, <1>2 DEF Once, SentOnce
  <1>4. Fresh(k)' BY <1>2 DEF Once, Fresh
  <1>5. Readdressed(k)' BY <1>1, <1>2 DEF Once, Readdressed
  <1>6. Answered(k)'
    <2>1. SUFFICES ASSUME pc'[k] \in {"wait", "waiting", "woken"}, executed'[k] # 0
                   PROVE  InServer(k)' \/ lstate'[lock[k]] = "COMPLETED" \/ Broken(conn[k])'
      BY DEF Answered
    <2>2. /\ pc[k] \in {"wait", "waiting", "woken"} /\ executed[k] # 0 /\ Holds(k)
          /\ conn[k] \in Conns
      BY <2>1, <1>2 DEF Holds, LockInv, Connected
    <2>3. InServer(k) \/ lstate[lock[k]] = "COMPLETED" \/ Broken(conn[k])
      BY <2>2 DEF Once, Answered
    <2>4. CASE InServer(k) BY <2>2, <2>4
    <2>5. CASE lstate[lock[k]] = "COMPLETED" BY <2>2, <2>5
    <2>6. CASE Broken(conn[k])
      <3>1. Broken(conn[k])' BY <2>2, <2>6
      <3>2. QED BY <3>1
    <2>7. QED BY <2>3, <2>4, <2>5, <2>6
  <1>7. Woken(k)' BY <1>2 DEF Once, Woken, Holds, LockInv, Connected
  <1>8. Unanswered(k)' BY <1>1, <1>2 DEF Once, Unanswered, LockInv, Connected
  <1>9. QED BY <1>3, <1>4, <1>5, <1>6, <1>7, <1>8 DEF Once

\* What is destroyed or in error stays so, and what is broken until it is closed
LEMMA StaysBroken ==
  ASSUME LockInv, Channels, NEW d \in Conns,
         \/ \E k \in Calls : CallStep(k)
         \/ \E c \in Conns : Receive(c) \/ Close(c) \/ CloseByManager(c) \/ Server(c)
  PROVE  /\ destroyed[d] => destroyed'[d]
         /\ cstate[d] = "ERROR" => cstate'[d] = "ERROR"
         /\ Broken(d) => Broken(d)' \/ (CloseSocket(d) /\ toClient[d] # <<>>)
  <1> USE DEF LockInv
  <1>1. ASSUME NEW k \in Calls, CallStep(k)
        PROVE  /\ destroyed' = destroyed /\ toClient' = toClient
               /\ cstate[d] = "ERROR" => cstate'[d] = "ERROR"
    <2>1. CASE \E c \in Conns : OpenConnection(k, c)
      BY <2>1 DEF OpenConnection, TypeOK
    <2>2. CASE SendFails(k)
      BY <2>2 DEF SendFails, SetError, TypeOK, peerVars
    <2>3. CASE ~SendFails(k) /\ ~\E c \in Conns : OpenConnection(k, c)
      BY <1>1, <2>3 DEF CallStep, ReuseConnection, ConnectFails, VerifyRequest, ActivateLock,
         SendMessage, SendFailed, WaitForCompletion, TimeOut, IsCompleted, DeactivateLock,
         FinishReply, FinishNoReply, Recover, connVars, peerVars
    <2>4. QED BY <2>1, <2>2, <2>3
  <1>2. ASSUME NEW c \in Conns, Receive(c) \/ Close(c) \/ CloseByManager(c) \/ Server(c)
        PROVE  /\ destroyed[d] => destroyed'[d]
               /\ cstate[d] = "ERROR" => cstate'[d] = "ERROR"
               /\ toClient[d] = <<[type |-> "broken"]>> => Broken(d)' \/ (CloseSocket(d) /\ toClient[d] # <<>>)
    <2>a. (destroyed[d] => destroyed'[d]) /\ (cstate[d] = "ERROR" => cstate'[d] = "ERROR")
      <3>1. CASE Receive(c)
        BY <3>1 DEF Receive, ReceiveTest, ReceiveReply, ReceiveClose, ReceiveBroken, ReceiveFails,
           SetError, TypeOK
      <3>2. CASE Close(c)
        BY <3>2 DEF Close, LockListSize, CloseWithError, Closing, CloseSocket, DestroyLocks, TypeOK
      <3>3. CASE CloseByManager(c) BY <3>3 DEF CloseByManager, TypeOK
      <3>4. CASE Server(c)
        BY <3>4 DEF Server, ServerExecute, ServerReaddress, ServerReply, ServerClose, NetworkBreak,
           connVars
      <3>5. QED BY <1>2, <3>1, <3>2, <3>3, <3>4
    <2>b. ASSUME toClient[d] = <<[type |-> "broken"]>>, c = d PROVE Broken(d)' \/ (CloseSocket(d) /\ toClient[d] # <<>>)
      <3>1. /\ toClient[d][1].type = "broken" /\ 1 \in DOMAIN toClient[d]
            /\ Head(toClient[d]) = toClient[d][1] /\ toClient[d] # <<>>
        BY <2>b
      <3>2. ~sOpen[d] /\ sock[d]
        BY <3>1 DEF Channels, Channel
      <3>3. \A types : CanRead(c, types) => "broken" \in types BY <2>b, <3>1 DEF CanRead
      <3>4. CASE ReceiveBroken(c)
        BY <2>b, <3>4 DEF ReceiveBroken, SetError, Broken, TypeOK
      <3>5. CASE CloseSocket(c) BY <2>b, <3>1, <3>5
      <3>6. CASE Server(c)
        <4>1. toClient' = toClient
          BY <2>b, <3>2, <3>6 DEF Server, ServerExecute, ServerReaddress, ServerReply, ServerClose, NetworkBreak
        <4>2. QED BY <2>b, <4>1 DEF Broken
      <3>7. CASE ReceiveReply(c) \/ ReceiveClose(c)
        BY <3>3, <3>7 DEF ReceiveReply, ReceiveClose
      <3>8. CASE \/ ReceiveTest(c) \/ ReceiveFails(c) \/ LockListSize(c) \/ CloseWithError(c)
                 \/ Closing(c) \/ DestroyLocks(c) \/ CloseByManager(c)
        BY <2>b, <3>8 DEF ReceiveTest, ReceiveFails, LockListSize, CloseWithError, Closing, DestroyLocks,
           CloseByManager, Broken, peerVars
      <3>9. QED BY <1>2, <3>4, <3>5, <3>6, <3>7, <3>8 DEF Receive, Close
    <2>c. ASSUME toClient[d] = <<[type |-> "broken"]>>, c # d PROVE Broken(d)'
      <3>1. toClient'[d] = toClient[d]
        <4>1. ASSUME NEW x, Put(c, x) PROVE toClient'[d] = toClient[d]
          BY <4>1, <2>c DEF Put, TypeOK
        <4>2. CASE toClient' = toClient BY <4>2
        <4>3. CASE \E x : toClient' = [toClient EXCEPT ![c] = x] BY <4>3, <2>c DEF TypeOK
        <4>4. CASE Receive(c)
          BY <4>2, <4>3, <4>4 DEF Receive, ReceiveTest, ReceiveReply, ReceiveClose, ReceiveBroken,
             ReceiveFails, CanRead, peerVars
        <4>5. CASE Close(c) \/ CloseByManager(c)
          BY <4>2, <4>3, <4>5 DEF Close, LockListSize, CloseWithError, Closing, CloseSocket,
             DestroyLocks, CloseByManager, peerVars
        <4>6. CASE Server(c)
          BY <4>1, <4>2, <4>3, <4>6 DEF Server, ServerExecute, ServerReaddress, ServerReply,
             ServerClose, NetworkBreak
        <4>7. QED BY <1>2, <4>4, <4>5, <4>6
      <3>2. QED BY <2>c, <3>1 DEF Broken
    <2>4. QED BY <2>a, <2>b, <2>c
  <1>3. CASE \E k \in Calls : CallStep(k) BY <1>1, <1>3 DEF Broken
  <1>4. CASE \E c \in Conns : Receive(c) \/ Close(c) \/ CloseByManager(c) \/ Server(c)
    BY <1>2, <1>4 DEF Broken
  <1>5. QED BY <1>3, <1>4

\* While k waits
LEMMA BrokenWait ==
  ASSUME LockInv, Channels, NEW k \in Calls, Once(k), pc[k] \in {"wait", "waiting", "woken"},
         Broken(conn[k]),
         \/ \E j \in Calls : CallStep(j)
         \/ \E c \in Conns : Receive(c) \/ Close(c) \/ CloseByManager(c) \/ Server(c)
  PROVE  /\ cstate'[conn[k]] = "ERROR" \/ toClient'[conn[k]] = <<[type |-> "broken"]>>
  <1>1. PICK c \in Conns : c = conn[k] BY DEF LockInv, Connected
  <1>2. CASE Broken(c)' BY <1>1, <1>2 DEF Broken
  <1>3. CASE CloseSocket(c) /\ toClient[c] # <<>>
    <2>1. /\ closeStep[c] = "socket" /\ cstate' = cstate /\ cstate[c] \in {"CLOSING", "ERROR"}
      BY <1>3 DEF CloseSocket, Channels, Channel
    <2>2. cstate[c] # "CLOSING" BY <1>1, <1>3, <2>1 DEF Once, Drained
    <2>3. QED BY <1>1, <2>1, <2>2
  <1>4. QED BY <1>1, <1>2, <1>3, StaysBroken

\* What the server has closed in order stays so, and so does what was read to the end
LEMMA StaysOrdered ==
  ASSUME LockInv, NEW d \in Conns, Ordered(d), cstate[d] # "none", [Next]_vars,
         \/ \E k \in Calls : CallStep(k)
         \/ \E c \in Conns : Receive(c) \/ Close(c) \/ CloseByManager(c) \/ Server(c)
  PROVE  Ordered(d)' /\ (toClient[d] = <<>> => toClient'[d] = <<>>)
  <1> USE DEF LockInv
  <1>1. overtaken \subseteq overtaken' BY OvertakenGrows
  <1>a. ASSUME sOpen'[d] = sOpen[d], sent'[d] = sent[d], inPOA'[d] = inPOA[d]
        PROVE  Ordered(d)'
    BY <1>1, <1>a DEF Ordered
  <1>2. ASSUME NEW k \in Calls, CallStep(k)
        PROVE  Ordered(d)' /\ toClient' = toClient
    <2>1. CASE \E c \in Conns : OpenConnection(k, c)
      <3>1. PICK c \in Conns : OpenConnection(k, c) BY <2>1
      <3>2. c # d BY <3>1 DEF OpenConnection
      <3>3. sOpen'[d] = sOpen[d] BY <3>1, <3>2 DEF OpenConnection, TypeOK
      <3>4. UNCHANGED <<sent, inPOA, toClient>> BY <3>1 DEF OpenConnection
      <3>5. QED BY <1>a, <3>3, <3>4
    <2>2. CASE SendMessage(k)
      <3>1. sent'[d] = sent[d] BY <2>2 DEF SendMessage, Ordered, TypeOK
      <3>2. QED BY <1>a, <2>2, <3>1 DEF SendMessage
    <2>3. CASE ~SendMessage(k) /\ ~\E c \in Conns : OpenConnection(k, c)
      <3>1. UNCHANGED <<sOpen, sent, inPOA, toClient>>
        BY <1>2, <2>3 DEF CallStep, ReuseConnection, ConnectFails, VerifyRequest, ActivateLock,
           SendFails, SendFailed, WaitForCompletion, TimeOut, IsCompleted, DeactivateLock,
           FinishReply, FinishNoReply, Recover, peerVars
      <3>2. QED BY <1>a, <3>1
    <2>4. QED BY <2>1, <2>2, <2>3
  <1>3. ASSUME NEW c \in Conns, Receive(c) \/ Close(c) \/ CloseByManager(c)
        PROVE  Ordered(d)' /\ (toClient[d] = <<>> => toClient'[d] = <<>>)
    <2>1. UNCHANGED <<sOpen, sent, inPOA>>
      BY <1>3 DEF Receive, ReceiveTest, ReceiveReply, ReceiveClose, ReceiveBroken, ReceiveFails,
         Close, LockListSize, CloseWithError, Closing, CloseSocket, DestroyLocks, CloseByManager, peerVars
    <2>2. \/ toClient' = toClient
          \/ toClient[c] # <<>> /\ \E t : toClient' = [toClient EXCEPT ![c] = t]
          \/ toClient' = [toClient EXCEPT ![c] = <<>>]
      BY <1>3 DEF Receive, ReceiveTest, ReceiveReply, ReceiveClose, ReceiveBroken, ReceiveFails, CanRead,
         Close, LockListSize, CloseWithError, Closing, CloseSocket, DestroyLocks, CloseByManager, peerVars
    <2>3. toClient[d] = <<>> => toClient'[d] = <<>> BY <2>2 DEF TypeOK
    <2>4. QED BY <1>a, <2>1, <2>3
  <1>4. ASSUME NEW c \in Conns, Server(c)
        PROVE  Ordered(d)' /\ (toClient[d] = <<>> => toClient'[d] = <<>>)
    <2>1. c # d
      BY <1>4 DEF Server, ServerExecute, ServerReaddress, ServerReply, ServerClose, NetworkBreak, Ordered
    <2>2. sOpen'[d] = sOpen[d] /\ sent'[d] = sent[d] /\ inPOA'[d] = inPOA[d]
      <3>1. ASSUME NEW m, ServerExecute(c, m) \/ ServerReaddress(c, m) \/ ServerReply(c, m)
            PROVE  sOpen'[d] = sOpen[d] /\ sent'[d] = sent[d] /\ inPOA'[d] = inPOA[d]
        BY <3>1, <2>1 DEF ServerExecute, ServerReaddress, ServerReply, TypeOK
      <3>2. CASE ServerClose(c) \/ NetworkBreak(c)
        BY <3>2, <2>1 DEF ServerClose, NetworkBreak, TypeOK
      <3>3. QED BY <1>4, <3>1, <3>2 DEF Server
    <2>3. toClient'[d] = toClient[d]
      <3>1. toClient' = toClient \/ \E x : toClient' = [toClient EXCEPT ![c] = x]
        BY <1>4 DEF Server, ServerExecute, ServerReaddress, ServerReply, ServerClose, NetworkBreak, Put
      <3>2. QED BY <2>1, <3>1 DEF TypeOK
    <2>4. QED BY <1>a, <2>2, <2>3
  <1>5. QED BY <1>2, <1>3, <1>4

\* ... so that k finds the connection drained whoever closes it
LEMMA DrainedStays ==
  ASSUME LockInv, LockInv', Channels, NEW k \in Calls, Once(k), [Next]_vars,
         \/ \E j \in Calls \ {k} : CallStep(j)
         \/ \E c \in Conns : Receive(c) \/ Close(c) \/ CloseByManager(c) \/ Server(c),
         conn'[k] = conn[k],
         pc'[k] = pc[k] \/ (pc[k] = "waiting" /\ pc'[k] = "woken")
  PROVE  Drained(k)'
  <1> USE DEF LockInv
  <1>1. SUFFICES ASSUME NEW c \in Conns, c = conn[k], pc[k] \in {"wait", "waiting", "woken"},
                        cstate'[c] = "CLOSING"
                 PROVE  closeStep'[c] \in {"size", "error"} \/ (Ordered(c)' /\ toClient'[c] = <<>>)
    <2>1. conn[k] \in Conns \/ conn[k] = NULL BY DEF TypeOK
    <2>2. pc[k] \in {"wait", "waiting", "woken"} => conn[k] \in Conns BY DEF Connected
    <2>3. SUFFICES ASSUME pc'[k] \in {"wait", "waiting", "woken"}, cstate'[conn[k]] = "CLOSING"
                   PROVE  closeStep'[conn[k]] \in {"size", "error"} \/ (Ordered(conn[k])' /\ toClient'[conn[k]] = <<>>)
      BY DEF Drained
    <2>4. PICK c \in Conns : c = conn[k] BY <2>2, <2>3
    <2>5. closeStep'[c] \in {"size", "error"} \/ (Ordered(c)' /\ toClient'[c] = <<>>)
      BY <1>1, <2>3, <2>4
    <2>6. Ordered(c)' => Ordered(conn[k])' BY <2>4 DEF Ordered
    <2>7. QED BY <2>4, <2>5, <2>6
  <1>2. lconn[lock[k]] = c /\ lock[k] \in Locks
    BY <1>1 DEF LockDiscipline, Holds
  <1>3. CASE cstate[c] = "CLOSING" /\ Ordered(c) /\ toClient[c] = <<>>
    BY <1>3, StaysOrdered
  <1>4. CASE cstate[c] = "CLOSING" /\ closeStep[c] \in {"size", "error"}
    <2>1. ASSUME NEW j \in Calls, CallStep(j) PROVE closeStep'[c] = closeStep[c]
      <3>1. CASE SendFails(j)
        BY <1>4, <3>1 DEF SendFails, SetError, TypeOK, Connected
      <3>2. CASE ~SendFails(j)
        BY <2>1, <3>2 DEF CallStep, ReuseConnection, OpenConnection, ConnectFails, VerifyRequest,
           ActivateLock, SendMessage, SendFailed, WaitForCompletion, TimeOut, IsCompleted,
           DeactivateLock, FinishReply, FinishNoReply, Recover, connVars
      <3>3. QED BY <3>1, <3>2
    <2>2. ASSUME NEW d \in Conns, Receive(d) \/ CloseByManager(d) \/ Server(d)
          PROVE  closeStep'[c] = closeStep[c]
      <3>1. CASE Receive(d)
        BY <1>4, <3>1 DEF Receive, ReceiveTest, ReceiveReply, ReceiveClose, ReceiveBroken, ReceiveFails,
           SetError, TypeOK
      <3>2. CASE CloseByManager(d) BY <1>4, <3>2 DEF CloseByManager, TypeOK
      <3>3. CASE Server(d)
        BY <3>3 DEF Server, ServerExecute, ServerReaddress, ServerReply, ServerClose, NetworkBreak, connVars
      <3>4. QED BY <2>2, <3>1, <3>2, <3>3
    <2>3. ASSUME NEW d \in Conns, Close(d) PROVE closeStep'[c] \in {"size", "error"}
      <3>1. CASE d # c
        BY <1>4, <2>3, <3>1 DEF Close, LockListSize, CloseWithError, Closing, CloseSocket, DestroyLocks, TypeOK
      <3>2. CASE d = c /\ LockListSize(d)
        <4>1. lock[k] \in Active(c) BY <1>2 DEF Active
        <4>2. QED BY <3>2, <4>1 DEF LockListSize, TypeOK
      <3>3. CASE d = c /\ CloseWithError(d) BY <1>1, <3>3 DEF CloseWithError, TypeOK
      <3>4. CASE d = c /\ (Closing(d) \/ CloseSocket(d) \/ DestroyLocks(d))
        BY <1>4, <3>4 DEF Closing, CloseSocket, DestroyLocks
      <3>5. QED BY <2>3, <3>1, <3>2, <3>3, <3>4 DEF Close
    <2>4. QED BY <1>4, <2>1, <2>2, <2>3
  <1>5. CASE cstate[c] # "CLOSING"
    <2>1. ReceiveClose(c) \/ CloseByManager(c)
      <3>1. ASSUME NEW j \in Calls, CallStep(j) PROVE FALSE
        <4>1. CASE SendFails(j) BY <1>1, <1>5, <4>1 DEF SendFails, SetError, TypeOK, Connected
        <4>2. CASE \E d \in Conns : OpenConnection(j, d) BY <1>1, <1>5, <4>2 DEF OpenConnection, TypeOK
        <4>3. CASE ~SendFails(j) /\ ~\E d \in Conns : OpenConnection(j, d)
          BY <1>1, <1>5, <3>1, <4>3 DEF CallStep, ReuseConnection, ConnectFails, VerifyRequest,
             ActivateLock, SendMessage, SendFailed, WaitForCompletion, TimeOut, IsCompleted,
             DeactivateLock, FinishReply, FinishNoReply, Recover, connVars
        <4>4. QED BY <4>1, <4>2, <4>3
      <3>2. ASSUME NEW d \in Conns, Receive(d) PROVE ReceiveClose(c)
        <4>1. CASE ReceiveTest(d) \/ ReceiveReply(d)
          BY <1>1, <1>5, <4>1 DEF ReceiveTest, ReceiveReply
        <4>2. CASE ReceiveClose(d) /\ d # c
          BY <1>1, <1>5, <4>2 DEF ReceiveClose, TypeOK
        <4>3. CASE ReceiveBroken(d) \/ ReceiveFails(d)
          BY <1>1, <1>5, <4>3 DEF ReceiveBroken, ReceiveFails, SetError, TypeOK
        <4>4. QED BY <3>2, <4>1, <4>2, <4>3 DEF Receive
      <3>3. ASSUME NEW d \in Conns, Close(d) \/ Server(d) PROVE FALSE
        <4>1. CASE CloseWithError(d) BY <1>1, <1>5, <4>1 DEF CloseWithError, TypeOK
        <4>2. CASE Close(d) /\ ~CloseWithError(d)
          BY <1>1, <1>5, <4>2 DEF Close, LockListSize, Closing, CloseSocket, DestroyLocks
        <4>3. CASE Server(d)
          BY <1>1, <1>5, <4>3 DEF Server, ServerExecute, ServerReaddress, ServerReply, ServerClose,
             NetworkBreak, connVars
        <4>4. QED BY <3>3, <4>1, <4>2, <4>3
      <3>4. ASSUME NEW d \in Conns, CloseByManager(d) PROVE CloseByManager(c)
        BY <1>1, <1>5, <3>4 DEF CloseByManager, TypeOK
      <3>5. QED BY <3>1, <3>2, <3>3, <3>4
    <2>2. CASE CloseByManager(c) BY <1>1, <1>5, <2>2 DEF CloseByManager, TypeOK
    <2>3. CASE ReceiveClose(c)
      <3>1. CanRead(c, {"CloseConnection"}) BY <2>3 DEF ReceiveClose
      <3>2. /\ Head(toClient[c]) = toClient[c][1] /\ 1 \in DOMAIN toClient[c]
            /\ toClient'[c] = Tail(toClient[c])
            /\ Len(toClient[c]) = 1 => Tail(toClient[c]) = <<>>
        BY <3>1, ReadHead
      <3>3. toClient[c][1].type = "CloseConnection" BY <3>1, <3>2 DEF CanRead
      <3>4. Ordered(c) /\ Len(toClient[c]) = 1 BY <3>2, <3>3 DEF Channels, Channel
      <3>5. cstate[c] # "none" BY <3>1 DEF CanRead, Channels, Channel
      <3>6. QED BY <2>3, <3>2, <3>4, <3>5, StaysOrdered
    <2>4. QED BY <2>1, <2>2, <2>3
  <1>6. QED BY <1>1, <1>3, <1>4, <1>5 DEF Once, Drained

\* The steps of another thread
LEMMA OthersOnce ==
  ASSUME LockInv, LockInv', Channels, NEW k \in Calls, Once(k),
         [Next]_vars, NEW j \in Calls, j # k, CallStep(j)
  PROVE  Once(k)'
  <1> USE DEF LockInv
  <1>1. /\ pc'[k] = pc[k] /\ conn'[k] = conn[k] /\ id'[k] = id[k] /\ lock'[k] = lock[k]
        /\ got'[k] = got[k] /\ completed'[k] = completed[k]
    <2>1. CASE ActivateLock(j)
      <3>1. /\ pc'[k] = pc[k] /\ id'[k] = id[k]
            /\ UNCHANGED <<conn, got, completed>>
        BY <2>1 DEF ActivateLock, Goto, TypeOK
      <3>2. lock'[k] = lock[k]
        <4>1. lock' = lock \/ \E l : lock' = [lock EXCEPT ![j] = l]
          BY <2>1 DEF ActivateLock
        <4>2. QED BY <4>1 DEF TypeOK
      <3>3. QED BY <3>1, <3>2
    <2>2. CASE ~ActivateLock(j)
      <3>1. CASE FinishReply(j) BY <3>1 DEF FinishReply, Goto, TypeOK
      <3>2. CASE IsCompleted(j)
        <4>1. /\ UNCHANGED <<conn, id, lock>> /\ pc' = [pc EXCEPT ![j] = "release"]
              /\ completed' = [completed EXCEPT ![j] = lstate[lock[j]] = "COMPLETED"]
          BY <3>2 DEF IsCompleted, Goto
        <4>2. got' = got \/ got' = [got EXCEPT ![j] = lmsg[lock[j]]]
          BY <3>2 DEF IsCompleted
        <4>3. QED BY <4>1, <4>2 DEF TypeOK
      <3>3. CASE Recover(j) BY <3>3 DEF Recover, Goto, TypeOK
      <3>4. CASE ReuseConnection(j) \/ \E c \in Conns : OpenConnection(j, c)
        BY <3>4 DEF ReuseConnection, OpenConnection, Goto, TypeOK
      <3>5. CASE WaitForCompletion(j) BY <3>5 DEF WaitForCompletion, Goto, TypeOK
      <3>6. CASE DeactivateLock(j) BY <3>6 DEF DeactivateLock, Goto, TypeOK
      <3>7. CASE \/ ConnectFails(j) \/ VerifyRequest(j) \/ SendMessage(j) \/ SendFails(j)
                 \/ SendFailed(j) \/ TimeOut(j) \/ FinishNoReply(j)
        BY <3>7 DEF ConnectFails, VerifyRequest, SendMessage, SendFails, SendFailed, TimeOut,
           FinishNoReply, Goto, TypeOK
      <3>8. QED BY <2>2, <3>1, <3>2, <3>3, <3>4, <3>5, <3>6, <3>7 DEF CallStep
    <2>3. QED BY <2>1, <2>2
  <1>2. UNCHANGED <<executed, inPOA, toClient>>
    BY DEF CallStep, ReuseConnection, OpenConnection, ConnectFails, VerifyRequest, ActivateLock,
       SendMessage, SendFails, SendFailed, WaitForCompletion, TimeOut, IsCompleted, DeactivateLock,
       FinishReply, FinishNoReply, Recover, peerVars
  <1>3. \A c \in Conns : \A m \in sent'[c] :
          \/ m \in sent[c]
          \/ m.call = j /\ Holds(j) /\ conn[j] = c /\ m.id = id[j]
    <2>1. CASE SendMessage(j) BY <2>1 DEF SendMessage, TypeOK, Holds
    <2>2. CASE ~SendMessage(j)
      <3>1. sent' = sent
        BY <2>2 DEF CallStep, ReuseConnection, OpenConnection, ConnectFails, VerifyRequest, ActivateLock,
           SendFails, SendFailed, WaitForCompletion, TimeOut, IsCompleted, DeactivateLock,
           FinishReply, FinishNoReply, Recover, peerVars
      <3>2. QED BY <3>1
    <2>3. QED BY <2>1, <2>2
  <1>4. ASSUME Holds(k)
        PROVE  lmsg'[lock[k]] = lmsg[lock[k]] /\ lstate'[lock[k]] = lstate[lock[k]]
    <2>1. /\ lock[k] \in Locks /\ lconn[lock[k]] \in Conns
          /\ Holds(j) => lock[j] # lock[k]
      BY <1>4 DEF Holds, LockDiscipline, Connected
    <2>2. CASE ActivateLock(j)
      <3>1. CASE UNCHANGED lockVars BY <3>1 DEF lockVars
      <3>2. CASE ~UNCHANGED lockVars
        <4>1. PICK l \in (IF pooled = {} THEN Locks \ created ELSE pooled) :
                lstate' = [lstate EXCEPT ![l] = "INITIAL"]
          BY <2>2, <3>2 DEF ActivateLock
        <4>2. lconn[l] = NULL BY <4>1 DEF TypeOK, LockDiscipline, Uncreated
        <4>3. lmsg' = lmsg BY <2>2, <3>2 DEF ActivateLock
        <4>4. QED BY <4>1, <4>2, <4>3, <2>1, SetsAssumption DEF TypeOK
      <3>3. QED BY <3>1, <3>2
    <2>3. CASE WaitForCompletion(j)
      BY <2>1, <2>3 DEF WaitForCompletion, Holds, TypeOK
    <2>4. CASE IsCompleted(j) BY <2>1, <2>4 DEF IsCompleted, Holds, TypeOK
    <2>5. CASE DeactivateLock(j) BY <2>1, <2>5 DEF DeactivateLock, Holds, TypeOK
    <2>6. CASE ~ActivateLock(j) /\ ~WaitForCompletion(j) /\ ~IsCompleted(j) /\ ~DeactivateLock(j)
      BY <2>6 DEF CallStep, ReuseConnection, OpenConnection, ConnectFails, VerifyRequest, SendMessage,
         SendFails, SendFailed, TimeOut, FinishReply, FinishNoReply, Recover, lockVars
    <2>7. QED BY <2>2, <2>3, <2>4, <2>5, <2>6
  <1>5. \A c \in Conns : (destroyed[c] => destroyed'[c]) /\ (cstate[c] = "ERROR" => cstate'[c] = "ERROR")
    BY StaysBroken
  <1>6. ASSUME pc[k] \in {"send", "closing"}
        PROVE  \A m \in Underway(conn[k])' : m \in Underway(conn[k]) \/ m.id # id[k]
    <2>1. Holds(k) /\ conn[k] \in Conns BY <1>6 DEF Holds, Connected
    <2>2. ASSUME NEW m \in sent'[conn[k]], m \notin sent[conn[k]] PROVE m.id # id[k]
      <3>1. Holds(j) /\ conn[j] = conn[k] /\ m.id = id[j] BY <1>3, <2>1, <2>2
      <3>2. lock[j] # lock[k] BY <2>1, <3>1 DEF LockDiscipline
      <3>3. id[j] # id[k] BY <2>1, <3>1, <3>2, SetsAssumption DEF LockDiscipline
      <3>4. QED BY <3>1, <3>3
    <2>3. Back(conn[k])' = Back(conn[k]) BY <1>1, <1>2 DEF Back
    <2>4. QED BY <1>1, <1>2, <2>2, <2>3 DEF Underway
  <1>7. Holds(k) /\ AskedAgain(k)' => AskedAgain(k)
    BY <1>1, <1>2, <1>4 DEF AskedAgain
  <1>8. InServer(k) => InServer(k)' BY <1>1, <1>2 DEF InServer, Back
  <1>9. \A c \in Conns : \A m \in sent'[c] : m.call = k => m \in sent[c]
    BY <1>3
  <1>10. pc[k] \in {"wait", "waiting", "woken"} /\ Broken(conn[k]) => Broken(conn[k])'
    BY <1>1, BrokenWait DEF Broken
  <1>11. Drained(k)' BY <1>1, DrainedStays
  <1>12. QED BY <1>1, <1>2, <1>4, <1>5, <1>6, <1>7, <1>8, <1>9, <1>10, <1>11, OnceFrame DEF Holds

\* A call that is unsent
LEMMA UnsentOnce ==
  ASSUME NEW k \in Calls, Unsent(k)', Fresh(k)', Woken(k)', pc'[k] \notin {"wait", "waiting", "woken"}
  PROVE  Once(k)'
  BY DEF Once, SentOnce, Readdressed, Answered, Drained, Unanswered, Unsent

\* A call that has ended
LEMMA EndedOnce ==
  ASSUME LockInv, NEW k \in Calls, Once(k), NEW w \in Outcomes, pc' = [pc EXCEPT ![k] = w],
         UNCHANGED <<conn, id, executed, sent>>
  PROVE  Once(k)'
  <1>1. pc'[k] = w BY DEF LockInv, TypeOK
  <1>2. /\ pc'[k] \notin {"connect", "verify", "activate", "send", "closing", "recover", "wait",
                          "waiting", "woken", "release", "finish"}
        /\ ~Holds(k)'
    BY <1>1 DEF Outcomes, Holds
  <1>3. SentOnce(k)' BY <1>2 DEF Once, SentOnce
  <1>4. QED BY <1>2, <1>3 DEF Once, Fresh, Readdressed, Answered, Drained, Woken, Unanswered

\* Before the lock is activated
LEMMA BeforeOnce ==
  ASSUME LockInv, NEW k \in Calls, Unsent(k), UNCHANGED <<executed, sent>>,
         NEW w \in {"connect", "verify", "activate", "recover"}, pc' = [pc EXCEPT ![k] = w]
  PROVE  Once(k)'
  <1>1. pc'[k] = w BY DEF LockInv, TypeOK
  <1>2. Unsent(k)' BY DEF Unsent
  <1>3. Fresh(k)' /\ Woken(k)' BY <1>1 DEF Fresh, Woken
  <1>4. QED BY <1>1, <1>2, <1>3, UnsentOnce

LEMMA ActivateOnce ==
  ASSUME Oneways = {}, LockInv, ReplyInv, NEW k \in Calls, Once(k), ActivateLock(k)
  PROVE  Once(k)'
  <1> DEFINE c == conn[k]
             i == idCount[c]
  <1>1. c \in Conns /\ i \in Nat /\ pc[k] = "activate" /\ Unsent(k)
    BY DEF LockInv, TypeOK, Connected, ActivateLock, Ids, Once, SentOnce
  <1>2. /\ id' = [id EXCEPT ![k] = i]
        /\ UNCHANGED <<conn, executed, sent, inPOA, toClient>>
    BY DEF ActivateLock, peerVars
  <1>3. Unsent(k)' BY <1>1, <1>2 DEF Unsent
  <1>4. CASE pc'[k] \in Outcomes
    BY <1>3, <1>4, UnsentOnce DEF Fresh, Woken, Outcomes
  <1>5. CASE \E l \in (IF pooled = {} THEN Locks \ created ELSE pooled) :
               /\ lock' = [lock EXCEPT ![k] = l]
               /\ lstate' = [lstate EXCEPT ![l] = "INITIAL"]
               /\ lmsg' = lmsg
               /\ pc' = [pc EXCEPT ![k] = "send"]
    <2>1. PICK l \in (IF pooled = {} THEN Locks \ created ELSE pooled) :
             /\ lock' = [lock EXCEPT ![k] = l]
             /\ lstate' = [lstate EXCEPT ![l] = "INITIAL"]
             /\ lmsg' = lmsg
             /\ pc' = [pc EXCEPT ![k] = "send"]
      BY <1>5
    <2>2. l \in Locks /\ lmsg[l] = NULL
      BY <2>1 DEF LockInv, TypeOK, LockDiscipline, ReplyInv, LockMessages
    <2>3. lock'[k] = l /\ lstate'[l] = "INITIAL" /\ lmsg'[l] = NULL /\ pc'[k] = "send"
          /\ id'[k] = i /\ conn'[k] = c
      BY <1>2, <2>1, <2>2 DEF LockInv, TypeOK
    <2>4. \A m \in Underway(c)' : m.id # i
      <3>1. Underway(c)' = Underway(c) BY <1>2 DEF Underway, Back
      <3>2. ASSUME NEW m \in Underway(c) PROVE m.id # i
        <4>1. m.id < i /\ m.id \in Nat
          BY <1>1 DEF ReplyInv, IssuedIds, Underway, Back, LockInv, TypeOK, Messages, Ids
        <4>2. QED BY <4>1, <1>1
      <3>3. QED BY <3>1, <3>2
    <2>5. Fresh(k)'
      <3>1. \A m \in Underway(conn[k])' : m.id # id'[k] BY <2>3, <2>4, <1>2
      <3>2. QED BY <2>3, <3>1 DEF Fresh
    <2>6. Woken(k)' BY <2>3 DEF Woken
    <2>7. QED BY <1>3, <2>3, <2>5, <2>6, UnsentOnce
  <1>6. QED
    <2>1. \/ pc' = [pc EXCEPT ![k] = "COMM_FAILURE"]
          \/ pc' = [pc EXCEPT ![k] = "INTERNAL"]
          \/ \E l \in (IF pooled = {} THEN Locks \ created ELSE pooled) :
               /\ lock' = [lock EXCEPT ![k] = l]
               /\ lstate' = [lstate EXCEPT ![l] = "INITIAL"]
               /\ lmsg' = lmsg
               /\ pc' = [pc EXCEPT ![k] = "send"]
      BY DEF ActivateLock, Goto
    <2>2. QED BY <1>4, <1>5, <2>1 DEF LockInv, TypeOK, Outcomes

LEMMA SendOnce ==
  ASSUME LockInv, NEW k \in Calls, Once(k), SendMessage(k), k \notin overtaken'
  PROVE  Once(k)'
  <1> DEFINE c == conn[k]
             m == [id |-> id[k], call |-> k, full |-> full[k]]
  <1>1. c \in Conns /\ Holds(k) /\ pc[k] = "send" /\ lock[k] \in Locks
    BY DEF LockInv, LockDiscipline, Connected, SendMessage, Holds
  <1>2. /\ UNCHANGED <<conn, id, lock, lmsg, lstate, executed, toClient>>
        /\ pc'[k] = "wait"
        /\ sent' = [sent EXCEPT ![c] = @ \cup {m}] \/ sent' = sent
    BY DEF SendMessage, Goto, LockInv, TypeOK, lockVars
  <1>3. Unsent(k) /\ Fresh(k) /\ lstate[lock[k]] # "WAITING"
    BY <1>1 DEF Once, SentOnce, Woken
  <1>4. \A d \in Conns : \A n \in sent'[d] : n.call = k => d = c /\ n = m
    BY <1>2, <1>3 DEF Unsent, LockInv, TypeOK
  <1>5. SentOnce(k)' BY <1>2, <1>3, <1>4 DEF SentOnce, Unsent
  <1>6. ~AskedAgain(k)'
    <2>1. SUFFICES ASSUME NEW n \in Messages, n.id = id[k],
                          \/ lmsg[lock[k]] = Addressing(n)
                          \/ \E p \in DOMAIN toClient[c] : toClient[c][p] = Addressing(n)
                   PROVE  FALSE
      BY <1>2 DEF AskedAgain
    <2>2. Addressing(n) # NULL BY NullAssumption, AnswerType DEF Addressing
    <2>3. lmsg[lock[k]] = NULL BY <1>1, <1>3 DEF Fresh
    <2>4. n \in Underway(c) BY <2>1, <2>2, <2>3 DEF Underway, Back, IsAnswer, Addressing
    <2>5. QED BY <1>1, <1>3, <2>1, <2>4 DEF Fresh
  <1>7. Drained(k)'
    <2>1. cstate[c] # "CLOSING" /\ cstate' = cstate BY DEF SendMessage, connVars
    <2>2. QED BY <1>2, <2>1 DEF Drained
  <1>8. QED
    BY <1>2, <1>3, <1>5, <1>6, <1>7 DEF Once, Fresh, Readdressed, Answered, Woken, Unanswered, Unsent

LEMMA WaitOnce ==
  ASSUME LockInv, NEW k \in Calls, Once(k), WaitForCompletion(k)
  PROVE  Once(k)'
  <1>1. Holds(k) /\ pc[k] = "wait" /\ lock[k] \in Locks
    BY DEF LockInv, LockDiscipline, WaitForCompletion, Holds
  <1>2. UNCHANGED <<conn, id, lock, got, completed, lmsg, cstate, closeStep, destroyed, peerVars>>
    BY DEF WaitForCompletion, connVars
  <1>3. \/ /\ lstate[lock[k]] = "INITIAL" /\ lstate'[lock[k]] = "WAITING" /\ pc'[k] = "waiting"
        \/ /\ lstate[lock[k]] = "COMPLETED" /\ lstate'[lock[k]] = "COMPLETED" /\ pc'[k] = "woken"
    <2>1. lstate[lock[k]] \in {"INITIAL", "COMPLETED"}
      BY <1>1 DEF Once, Woken, LockInv, TypeOK
    <2>2. CASE lstate[lock[k]] = "INITIAL"
      <3>1. lstate' = [lstate EXCEPT ![lock[k]] = "WAITING"] /\ pc' = [pc EXCEPT ![k] = "waiting"]
        BY <2>2 DEF WaitForCompletion, Goto
      <3>2. QED BY <1>1, <2>2, <3>1 DEF LockInv, TypeOK
    <2>3. CASE lstate[lock[k]] = "COMPLETED"
      <3>1. lstate' = lstate /\ pc' = [pc EXCEPT ![k] = "woken"]
        BY <2>3 DEF WaitForCompletion, Goto
      <3>2. QED BY <1>1, <2>3, <3>1 DEF LockInv, TypeOK
    <2>4. QED BY <2>1, <2>2, <2>3
  <1>4. SentOnce(k)' BY <1>2, <1>3 DEF Once, SentOnce, peerVars
  <1>5. Fresh(k)' /\ Woken(k)' /\ Unanswered(k)' BY <1>2, <1>3 DEF Fresh, Woken, Unanswered, peerVars
  <1>6. Readdressed(k)'
    <2>1. AskedAgain(k)' => AskedAgain(k) BY <1>2 DEF AskedAgain, peerVars
    <2>2. Unsent(k) => Unsent(k)' BY <1>2 DEF Unsent, peerVars
    <2>3. QED BY <1>1, <1>3, <2>1, <2>2 DEF Once, Readdressed
  <1>7. Answered(k)'
    <2>1. InServer(k)' = InServer(k) BY <1>2 DEF InServer, Back, peerVars
    <2>2. Broken(conn[k])' = Broken(conn[k]) BY <1>2 DEF Broken, peerVars
    <2>3. QED BY <1>1, <1>2, <1>3, <2>1, <2>2 DEF Once, Answered, peerVars
  <1>8. Drained(k)'
    <2>1. Ordered(conn[k]) => Ordered(conn[k])' BY <1>2 DEF Ordered, peerVars
    <2>2. QED BY <1>1, <1>2, <2>1 DEF Once, Drained, peerVars
  <1>9. QED BY <1>4, <1>5, <1>6, <1>7, <1>8 DEF Once

\* a thread that is woken without a reply finds the connection in error or
\* was never executed
LEMMA ConsumeOnce ==
  ASSUME LockInv, ReplyInv, Channels, NEW k \in Calls \ overtaken, Once(k), IsCompleted(k)
  PROVE  Once(k)'
  <1> DEFINE c == conn[k]
             l == lock[k]
  <1>1. Holds(k) /\ pc[k] = "woken" /\ l \in Locks /\ c \in Conns
    BY DEF LockInv, LockDiscipline, Connected, IsCompleted, Holds
  <1>2. /\ UNCHANGED <<conn, id, lock, lstate, cstate, destroyed, executed, sent, inPOA, toClient>>
        /\ pc'[k] = "release"
    BY DEF IsCompleted, Goto, connVars, peerVars, LockInv, TypeOK
  <1>3. Unsent(k) => Unsent(k)' BY <1>2 DEF Unsent
  <1>4. SentOnce(k)' BY <1>2 DEF Once, SentOnce
  <1>5. Fresh(k)' /\ Answered(k)' /\ Drained(k)' /\ Woken(k)' BY <1>2 DEF Fresh, Answered, Drained, Woken
  <1>6. got[k] = NULL BY <1>1 DEF ReplyInv, Consumed, Outcomes
  <1>7. CASE lstate[l] = "COMPLETED"
    <2>1. got'[k] = lmsg[l] /\ lmsg'[l] = NULL
      <3>1. got' = [got EXCEPT ![k] = lmsg[l]] /\ lmsg' = [lmsg EXCEPT ![l] = NULL]
        BY <1>7 DEF IsCompleted
      <3>2. QED BY <1>1, <3>1 DEF LockInv, TypeOK
    <2>2. completed'[k]
      <3>1. completed' = [completed EXCEPT ![k] = lstate[l] = "COMPLETED"] BY DEF IsCompleted
      <3>2. QED BY <1>7, <3>1 DEF LockInv, TypeOK
    <2>3. AskedAgain(k)' => AskedAgain(k)
      <3>1. \A m \in Messages : Addressing(m) # NULL BY NullAssumption, AnswerType DEF Addressing
      <3>2. QED BY <1>2, <2>1, <3>1 DEF AskedAgain
    <2>4. got'[k] # NULL /\ got'[k].type = "addressing" => AskedAgain(k)
      <3>1. SUFFICES ASSUME lmsg[l] # NULL, lmsg[l].type = "addressing" PROVE AskedAgain(k)
        BY <2>1
      <3>2. MyAnswer(lmsg[l], k) BY <1>1, <3>1 DEF ReplyInv, LockMessages
      <3>3. PICK m \in Messages : IsAnswer(lmsg[l], m) /\ m.call = k /\ m.id = id[k]
        BY <3>2 DEF MyAnswer
      <3>4. lmsg[l] = Addressing(m) BY <3>1, <3>3 DEF IsAnswer, Addressing
      <3>5. QED BY <3>3, <3>4 DEF AskedAgain
    <2>5. Readdressed(k)' BY <1>1, <1>3, <2>3, <2>4 DEF Once, Readdressed
    <2>6. Unanswered(k)' BY <2>2 DEF Unanswered
    <2>7. QED BY <1>4, <1>5, <2>5, <2>6 DEF Once
  <1>8. CASE lstate[l] # "COMPLETED"
    <2>1. got' = got /\ lmsg' = lmsg BY <1>8 DEF IsCompleted
    <2>2. Readdressed(k)'
      <3>1. AskedAgain(k)' => AskedAgain(k) BY <1>2, <2>1 DEF AskedAgain
      <3>2. QED BY <1>1, <1>3, <1>6, <2>1, <3>1 DEF Once, Readdressed
    <2>3. Unsent(k) \/ cstate[c] = "ERROR"
      <3>1. destroyed[c] BY <1>1, <1>8 DEF Once, Woken
      <3>2. cstate[c] \in {"CLOSING", "ERROR"} /\ toClient[c] = <<>>
        BY <1>1, <3>1 DEF Channels, Channel
      <3>3. SUFFICES ASSUME cstate[c] = "CLOSING" PROVE Unsent(k)
        BY <3>2
      <3>4. (\A m \in inPOA[c] : m.call # k) /\ sent[c] = {}
        <4>1. closeStep[c] \notin {"size", "error"} BY <1>1, <3>1 DEF Channels, Channel
        <4>2. Ordered(c) BY <1>1, <3>3, <4>1 DEF Once, Drained
        <4>3. QED BY <4>2 DEF Ordered
      <3>5. Back(c) = {} BY <3>2 DEF Back
      <3>6. ~InServer(k) BY <3>4, <3>5 DEF InServer
      <3>7. ~Broken(c) BY <3>2, <3>3 DEF Broken
      <3>8. executed[k] = 0 BY <1>1, <1>8, <3>6, <3>7 DEF Once, Answered
      <3>9. \A d \in Conns : \A m \in sent[d] : m.call # k
        BY <3>4 DEF Once, SentOnce
      <3>10. QED BY <3>8, <3>9 DEF Unsent
    <2>4. Unanswered(k)' BY <1>2, <1>3, <2>3 DEF Unanswered
    <2>5. QED BY <1>4, <1>5, <2>2, <2>4 DEF Once
  <1>9. QED BY <1>7, <1>8

LEMMA FinishOnce ==
  ASSUME LockInv, ReplyInv, NEW k \in Calls, Once(k), FinishReply(k)
  PROVE  Once(k)'
  <1>1. pc[k] = "finish" /\ got[k] # NULL /\ MyAnswer(got[k], k)
    BY DEF FinishReply, ReplyInv, Consumed
  <1>2. UNCHANGED <<conn, id, executed, sent>> BY DEF FinishReply, peerVars
  <1> DEFINE same == (got[k].msg.call \in Locates) = (k \in Locates)
             again == /\ got[k] # NULL
                      /\ got[k].msg.call \in Locates <=> k \in Locates
                      /\ got[k].type = "addressing"
  <1>3. pc' = [pc EXCEPT ![k] = IF got[k] = NULL THEN "INTERNAL"
                                  ELSE IF ~same THEN "MARSHAL"
                                  ELSE IF again THEN "verify" ELSE "reply"]
    BY Zenon DEF FinishReply, Goto
  <1>4. CASE again
    <2>1. Unsent(k) BY <1>1, <1>4 DEF Once, Readdressed
    <2>2. pc' = [pc EXCEPT ![k] = "verify"] \/ pc' = [pc EXCEPT ![k] = "MARSHAL"]
      <3> HIDE DEF again, same
      <3>1. QED BY <1>1, <1>3, <1>4
    <2>3. QED BY <1>2, <2>1, <2>2, BeforeOnce, EndedOnce DEF Outcomes
  <1>5. CASE ~again
    <2>1. PICK w \in {"INTERNAL", "MARSHAL", "reply"} : pc' = [pc EXCEPT ![k] = w]
      <3> HIDE DEF again, same
      <3>1. QED BY <1>3, <1>5
    <2>2. QED BY <1>2, <2>1, EndedOnce DEF Outcomes
  <1>6. QED BY <1>4, <1>5

LEMMA OwnOnce ==
  ASSUME Oneways = {}, LockInv, ReplyInv, Channels,
         NEW k \in Calls \ overtaken, Once(k), CallStep(k), k \notin overtaken'
  PROVE  Once(k)'
  <1>u. pc[k] \in {"connect", "verify", "activate", "send", "closing", "recover"} => Unsent(k)
    BY DEF Once, SentOnce
  <1>1. CASE ReuseConnection(k) \/ \E c \in Conns : OpenConnection(k, c)
    <2>1. /\ pc[k] = "connect" /\ pc' = [pc EXCEPT ![k] = "verify"]
          /\ UNCHANGED <<executed, sent>>
      BY <1>1 DEF ReuseConnection, OpenConnection, Goto, peerVars
    <2>2. QED BY <1>u, <2>1, BeforeOnce
  <1>2. CASE ConnectFails(k)
    <2>1. pc' = [pc EXCEPT ![k] = "COMM_FAILURE"] /\ UNCHANGED <<conn, id, executed, sent>>
      BY <1>2 DEF ConnectFails, Goto, peerVars
    <2>2. QED BY <2>1, EndedOnce DEF Outcomes
  <1>3. CASE VerifyRequest(k)
    <2>1. pc[k] = "verify" /\ UNCHANGED <<executed, sent>> BY <1>3 DEF VerifyRequest, peerVars
    <2>2. PICK w \in {"activate", "recover"} : pc' = [pc EXCEPT ![k] = w]
      BY <1>3 DEF VerifyRequest, Goto
    <2>3. QED BY <1>u, <2>1, <2>2, BeforeOnce
  <1>4. CASE SendFails(k)
    <2>1. /\ pc[k] = "send"
          /\ UNCHANGED <<conn, id, lock, lmsg, lstate, executed, sent, inPOA, toClient>>
      BY <1>4 DEF SendFails, lockVars, peerVars
    <2>2. PICK w \in {"closing", "recover", "COMM_FAILURE"} : pc' = [pc EXCEPT ![k] = w]
      BY <1>4 DEF SendFails, AfterFailure, Goto
    <2>3. CASE w = "closing"
      <3>1. pc'[k] = "closing" BY <2>2, <2>3 DEF LockInv, TypeOK
      <3>2. Unsent(k)' BY <1>u, <2>1 DEF Unsent
      <3>3. Fresh(k)'
        <4>1. Underway(conn[k])' = Underway(conn[k]) BY <2>1 DEF Underway, Back
        <4>2. QED BY <2>1, <3>1, <4>1 DEF Once, Fresh
      <3>4. Woken(k)' BY <2>1, <3>1 DEF Once, Woken
      <3>5. QED BY <3>1, <3>2, <3>3, <3>4, UnsentOnce
    <2>4. CASE w = "recover" BY <1>u, <2>1, <2>2, <2>4, BeforeOnce
    <2>5. CASE w = "COMM_FAILURE" BY <2>1, <2>2, <2>5, EndedOnce DEF Outcomes
    <2>6. QED BY <2>3, <2>4, <2>5
  <1>5. CASE SendFailed(k)
    <2>1. pc[k] = "closing" /\ UNCHANGED <<conn, id, executed, sent>>
      BY <1>5 DEF SendFailed, peerVars
    <2>2. \/ pc' = [pc EXCEPT ![k] = "recover"]
          \/ pc' = [pc EXCEPT ![k] = "COMM_FAILURE"]
      BY <1>5 DEF SendFailed, AfterFailure, Goto
    <2>3. QED BY <1>u, <2>1, <2>2, BeforeOnce, EndedOnce DEF Outcomes
  <1>6. CASE TimeOut(k) BY <1>6 DEF TimeOut
  <1>7. CASE DeactivateLock(k)
    <2>1. /\ UNCHANGED <<conn, id, got, completed, cstate, executed, sent>>
          /\ pc[k] = "release" /\ pc'[k] = "finish"
      BY <1>7 DEF DeactivateLock, Goto, connVars, peerVars, LockInv, TypeOK
    <2>2. Unsent(k) => Unsent(k)' BY <2>1 DEF Unsent
    <2>3. SentOnce(k)' BY <2>1 DEF Once, SentOnce
    <2>4. Readdressed(k)' BY <2>1, <2>2 DEF Once, Readdressed, Holds
    <2>5. Unanswered(k)' BY <2>1, <2>2 DEF Once, Unanswered
    <2>6. Fresh(k)' /\ Answered(k)' /\ Drained(k)' /\ Woken(k)' BY <2>1 DEF Fresh, Answered, Drained, Woken
    <2>7. QED BY <2>3, <2>4, <2>5, <2>6 DEF Once
  <1>8. CASE FinishNoReply(k)
    <2>1. /\ pc[k] = "finish" /\ ~completed[k] /\ UNCHANGED <<conn, id, executed, sent>>
      BY <1>8 DEF FinishNoReply, peerVars
    <2>2. \/ pc' = [pc EXCEPT ![k] = "recover"] /\ cstate[conn[k]] = "CLOSING"
          \/ pc' = [pc EXCEPT ![k] = "COMM_FAILURE"]
          \/ pc' = [pc EXCEPT ![k] = "NO_RESPONSE"]
          \/ pc' = [pc EXCEPT ![k] = "lost"]
      BY <1>8 DEF FinishNoReply, Goto
    <2>3. cstate[conn[k]] = "CLOSING" => Unsent(k) BY <2>1 DEF Once, Unanswered
    <2>4. QED BY <2>1, <2>2, <2>3, BeforeOnce, EndedOnce DEF Outcomes
  <1>9. CASE Recover(k)
    <2>1. pc[k] = "recover" /\ UNCHANGED <<id, executed, sent>> BY <1>9 DEF Recover, peerVars
    <2>2. \/ pc' = [pc EXCEPT ![k] = "connect"]
          \/ pc' = [pc EXCEPT ![k] = "COMM_FAILURE"] /\ conn' = conn
      BY <1>9 DEF Recover, Goto
    <2>3. QED BY <1>u, <2>1, <2>2, BeforeOnce, EndedOnce DEF Outcomes
  <1>10. QED
    BY <1>1, <1>2, <1>3, <1>4, <1>5, <1>6, <1>7, <1>8, <1>9, ActivateOnce, SendOnce, WaitOnce,
       ConsumeOnce, FinishOnce DEF CallStep

\* Only the message read is taken from what is on its way back
LEMMA BackLeft ==
  ASSUME TypeOK, NEW c \in Conns, NEW types, CanRead(c, types), NEW m \in Back(c)
  PROVE  m \in Back(c)' \/ IsAnswer(Head(toClient[c]), m)
  <1> DEFINE s == toClient[c]
  <1>1. m \in Messages /\ \E n \in DOMAIN s : IsAnswer(s[n], m) BY DEF Back
  <1>2. PICK n \in DOMAIN s : IsAnswer(s[n], m) BY <1>1
  <1>3. /\ s \in Seq(Incoming) /\ s # <<>> /\ toClient'[c] = Tail(s) /\ Head(s) = s[1]
    BY ReadHead DEF CanRead
  <1>4. CASE n = 1 BY <1>2, <1>3, <1>4
  <1>5. CASE n # 1
    <2>1. n - 1 \in DOMAIN Tail(s) /\ Tail(s)[n - 1] = s[n] BY <1>3, <1>5
    <2>2. QED BY <1>1, <1>2, <1>3, <2>1 DEF Back
  <1>6. QED BY <1>4, <1>5

\* ... and what is put there does not take anything away
LEMMA BackMore ==
  ASSUME TypeOK, NEW c \in Conns, NEW x \in Incoming, Put(c, x), NEW m \in Messages
  PROVE  /\ \A d \in Conns : m \in Back(d) => m \in Back(d)'
         /\ sock[c] /\ IsAnswer(x, m) => m \in Back(c)'
  <1>1. \A d \in Conns : d # c \/ ~sock[c] => toClient'[d] = toClient[d] BY PutLast
  <1>2. ASSUME sock[c], m \in Back(c) PROVE m \in Back(c)'
    <2>1. PICK n \in DOMAIN toClient[c] : IsAnswer(toClient[c][n], m) BY <1>2 DEF Back
    <2>2. n \in DOMAIN toClient'[c] /\ toClient'[c][n] = toClient[c][n] BY <1>2, PutLast
    <2>3. IsAnswer(toClient'[c][n], m) BY <2>1, <2>2
    <2>4. QED BY <2>2, <2>3 DEF Back
  <1>3. ASSUME sock[c], IsAnswer(x, m) PROVE m \in Back(c)'
    <2>1. PICK n \in DOMAIN toClient'[c] : toClient'[c][n] = x BY <1>3, PutLast
    <2>2. QED BY <1>3, <2>1 DEF Back
  <1>4. QED BY <1>1, <1>2, <1>3 DEF Back

LEMMA ReceiveOnce ==
  ASSUME LockInv, LockInv', ReplyInv, Channels, NEW k \in Calls, Once(k),
         [Next]_vars, NEW c \in Conns, Receive(c)
  PROVE  Once(k)'
  <1> DEFINE h == Head(toClient[c])
             found == {l \in Active(c) : lid[l] = h.msg.id}
  <1>1. /\ UNCHANGED <<conn, id, lock, got, completed, executed, sent, inPOA>>
    BY DEF Receive, ReceiveTest, ReceiveReply, ReceiveClose, ReceiveBroken, ReceiveFails, callVars,
       peerVars
  <1>2. /\ \A d \in Conns : Underway(d)' \subseteq Underway(d)
        /\ \A d \in Conns : (destroyed[d] => destroyed'[d]) /\ (cstate[d] = "ERROR" => cstate'[d] = "ERROR")
    BY UnderwayConn, StaysBroken DEF LockInv
  <1>w. pc[k] \in {"wait", "waiting", "woken"} /\ Broken(conn[k]) => Broken(conn[k])'
    BY <1>1, BrokenWait DEF Broken
  <1>3. Holds(k) => lock[k] \in Locks /\ conn[k] \in Conns /\ lconn[lock[k]] = conn[k] /\ lid[lock[k]] = id[k]
    BY DEF LockInv, LockDiscipline, Connected, Holds
  <1>4. pc[k] \in {"send", "closing", "wait", "waiting", "woken"} => Holds(k) BY DEF Holds
  <1>a. ASSUME NEW types, CanRead(c, types), NEW m \in Messages, m.call = k, m.id = id[k], Holds(k),
               \E n \in DOMAIN toClient'[conn[k]] : toClient'[conn[k]][n] = Addressing(m)
        PROVE  AskedAgain(k)
    <2>1. CASE conn[k] # c
      BY <1>1, <1>3, <1>a, <2>1, ReadHead DEF AskedAgain, LockInv
    <2>2. CASE conn[k] = c
      <3>1. PICK n \in DOMAIN toClient'[c] : toClient'[c][n] = Addressing(m) BY <1>a, <2>2
      <3>2. n + 1 \in DOMAIN toClient[c] /\ toClient[c][n + 1] = Addressing(m)
        BY <1>a, <3>1, ReadHead DEF LockInv
      <3>3. QED BY <1>a, <2>2, <3>2 DEF AskedAgain
    <2>3. QED BY <2>1, <2>2
  <1>b. ASSUME NEW types, CanRead(c, types), InServer(k), conn[k] \in Conns
        PROVE  InServer(k)' \/ (conn[k] = c /\ \E m \in Messages : IsAnswer(h, m) /\ m.call = k /\ m.id = id[k])
    <2>1. PICK m \in inPOA[conn[k]] \cup Back(conn[k]) : m.call = k /\ m.id = id[k]
      BY <1>b DEF InServer
    <2>2. CASE m \in inPOA[conn[k]] BY <1>1, <2>1, <2>2 DEF InServer
    <2>3. CASE m \in Back(conn[k]) /\ conn[k] # c
      <3>1. toClient'[conn[k]] = toClient[conn[k]] BY <1>b, <2>3, ReadHead DEF LockInv
      <3>2. m \in Back(conn[k])' BY <1>1, <2>3, <3>1 DEF Back
      <3>3. QED BY <1>1, <2>1, <3>2 DEF InServer
    <2>4. CASE m \in Back(conn[k]) /\ conn[k] = c
      <3>1. m \in Back(c)' \/ IsAnswer(h, m) BY <1>b, <2>4, BackLeft DEF LockInv
      <3>2. CASE m \in Back(c)' BY <1>1, <2>1, <2>4, <3>2 DEF InServer
      <3>3. CASE IsAnswer(h, m) BY <2>1, <2>4, <3>3 DEF Back
      <3>4. QED BY <3>1, <3>2, <3>3
    <2>5. QED BY <2>1, <2>2, <2>3, <2>4
  <1>5. CASE ReceiveReply(c)
    <2>1. CanRead(c, {"reply", "addressing"}) BY <1>5 DEF ReceiveReply
    <2>2. /\ \A l \in Locks : lmsg'[l] = IF l \in found THEN h ELSE lmsg[l]
          /\ \A l \in Locks : lstate'[l] = IF l \in found THEN "COMPLETED" ELSE lstate[l]
          /\ Notify({l \in found : lstate[l] = "WAITING"})
      BY <1>5 DEF ReceiveReply
    <2>3. h.msg \in Messages /\ IsAnswer(h, h.msg) /\ h.msg \in Underway(c)
      <3>1. h \in Incoming /\ h.type \in {"reply", "addressing"}
        BY <2>1, HeadTail DEF CanRead, LockInv, TypeOK
      <3>2. h.msg \in Messages /\ IsAnswer(h, h.msg) BY <3>1, AnswerOf
      <3>3. 1 \in DOMAIN toClient[c] /\ toClient[c][1] = h BY <2>1, ReadHead DEF LockInv
      <3>4. QED BY <3>2, <3>3 DEF Underway, Back
    <2>4. \/ pc'[k] = pc[k]
          \/ pc[k] = "waiting" /\ pc'[k] = "woken" /\ lstate'[lock[k]] = "COMPLETED"
      BY <1>3, <1>4, <2>2 DEF Notify
    <2>5. Holds(k) /\ lock[k] \in found => conn[k] = c /\ h.msg.id = id[k] /\ h.msg.call = k
      <3>1. SUFFICES ASSUME Holds(k), lock[k] \in found
                     PROVE  conn[k] = c /\ h.msg.id = id[k] /\ h.msg.call = k
        OBVIOUS
      <3>2. conn[k] = c /\ h.msg.id = id[k] BY <1>3, <3>1 DEF Active
      <3>3. QED BY <2>3, <3>1, <3>2 DEF ReplyInv, IdIsCall
    <2>6. pc[k] \in {"send", "closing"} =>
            /\ lmsg'[lock[k]] = lmsg[lock[k]]
            /\ \A m \in Underway(conn[k])' : m \in Underway(conn[k]) \/ m.id # id[k]
      <3>1. SUFFICES ASSUME pc[k] \in {"send", "closing"}
                     PROVE  /\ lmsg'[lock[k]] = lmsg[lock[k]]
                            /\ \A m \in Underway(conn[k])' : m \in Underway(conn[k])
        OBVIOUS
      <3>2. lock[k] \notin found
        BY <1>4, <2>3, <2>5, <3>1 DEF Once, Fresh
      <3>3. QED BY <1>1, <1>2, <1>3, <1>4, <2>2, <3>1, <3>2
    <2>7. Holds(k) /\ AskedAgain(k)' => AskedAgain(k)
      <3>1. SUFFICES ASSUME Holds(k), AskedAgain(k)' PROVE AskedAgain(k)
        OBVIOUS
      <3>2. PICK m \in Messages :
              /\ m.call = k /\ m.id = id[k]
              /\ \/ lmsg'[lock[k]] = Addressing(m)
                 \/ \E n \in DOMAIN toClient'[conn[k]] : toClient'[conn[k]][n] = Addressing(m)
        BY <1>1, <3>1 DEF AskedAgain
      <3>3. CASE lmsg'[lock[k]] = Addressing(m) /\ lock[k] \in found
        <4>1. h = Addressing(m) /\ conn[k] = c BY <1>3, <2>2, <2>5, <3>1, <3>3
        <4>2. 1 \in DOMAIN toClient[c] /\ toClient[c][1] = h BY <2>1, ReadHead DEF LockInv
        <4>3. QED BY <3>2, <4>1, <4>2 DEF AskedAgain
      <3>4. CASE lmsg'[lock[k]] = Addressing(m) /\ lock[k] \notin found
        BY <1>3, <2>2, <3>1, <3>2, <3>4 DEF AskedAgain
      <3>5. CASE \E n \in DOMAIN toClient'[conn[k]] : toClient'[conn[k]][n] = Addressing(m)
        BY <1>a, <2>1, <3>1, <3>2, <3>5
      <3>6. QED BY <3>2, <3>3, <3>4, <3>5
    <2>8. pc[k] \in {"wait", "waiting", "woken"} /\ InServer(k) =>
            InServer(k)' \/ lstate'[lock[k]] = "COMPLETED"
      <3>1. SUFFICES ASSUME Holds(k), conn[k] = c,
                            NEW m \in Messages, IsAnswer(h, m), m.id = id[k]
                     PROVE  lstate'[lock[k]] = "COMPLETED"
        BY <1>b, <1>3, <1>4, <2>1
      <3>2. h.msg = m BY <3>1 DEF IsAnswer
      <3>3. lock[k] \in found BY <1>3, <3>1, <3>2 DEF Active
      <3>4. QED BY <1>3, <2>2, <3>1, <3>3
    <2>9. Holds(k) => lstate'[lock[k]] \in {lstate[lock[k]], "COMPLETED"} BY <1>3, <2>2
    <2>10. Drained(k)' BY <1>1, <2>4, DrainedStays
    <2>11. QED BY <1>1, <1>2, <1>w, <2>10, <2>4, <2>6, <2>7, <2>8, <2>9, OnceFrame
  <1>6. CASE ~ReceiveReply(c)
    <2>1. UNCHANGED <<callVars, lockVars>>
      BY <1>6 DEF Receive, ReceiveTest, ReceiveClose, ReceiveBroken, ReceiveFails
    <2>2. Holds(k) /\ AskedAgain(k)' => AskedAgain(k)
      <3>1. CASE toClient' = toClient BY <2>1, <3>1 DEF AskedAgain, callVars, lockVars
      <3>2. ASSUME NEW types, CanRead(c, types), Holds(k), AskedAgain(k)' PROVE AskedAgain(k)
        <4>1. PICK m \in Messages :
                /\ m.call = k /\ m.id = id[k]
                /\ \/ lmsg[lock[k]] = Addressing(m)
                   \/ \E n \in DOMAIN toClient'[conn[k]] : toClient'[conn[k]][n] = Addressing(m)
          BY <2>1, <3>2 DEF AskedAgain, callVars, lockVars
        <4>2. QED BY <1>a, <3>2, <4>1 DEF AskedAgain
      <3>3. QED
        BY <1>6, <3>1, <3>2 DEF Receive, ReceiveTest, ReceiveClose, ReceiveBroken, ReceiveFails, peerVars
    <2>3. pc[k] \in {"wait", "waiting", "woken"} /\ InServer(k) => InServer(k)' \/ Broken(conn[k])'
      <3>1. SUFFICES ASSUME InServer(k), Holds(k), conn[k] \in Conns PROVE InServer(k)' \/ Broken(conn[k])'
        BY <1>3, <1>4
      <3>2. CASE toClient' = toClient BY <1>1, <3>1, <3>2 DEF InServer, Back
      <3>3. CASE ReceiveClose(c)
        <4>1. CanRead(c, {"CloseConnection"}) BY <3>3 DEF ReceiveClose
        <4>2. \A m : ~IsAnswer(h, m) BY <4>1 DEF CanRead, IsAnswer
        <4>3. QED BY <1>b, <3>1, <4>1, <4>2
      <3>4. CASE ReceiveBroken(c)
        <4>1. CanRead(c, {"broken"}) BY <3>4 DEF ReceiveBroken
        <4>2. \A m : ~IsAnswer(h, m) BY <4>1 DEF CanRead, IsAnswer
        <4>3. QED BY <1>b, <3>1, <4>1, <4>2
      <3>5. QED
        BY <1>6, <3>2, <3>3, <3>4 DEF Receive, ReceiveTest, ReceiveFails, peerVars
    <2>4. pc[k] \in {"send", "closing"} =>
            /\ lmsg'[lock[k]] = lmsg[lock[k]]
            /\ \A m \in Underway(conn[k])' : m \in Underway(conn[k]) \/ m.id # id[k]
      <3>1. pc[k] \in {"send", "closing"} => conn[k] \in Conns BY <1>3, <1>4
      <3>2. QED BY <1>1, <1>2, <2>1, <3>1 DEF lockVars
    <2>5. pc'[k] = pc[k] /\ lstate'[lock[k]] = lstate[lock[k]] BY <2>1 DEF callVars, lockVars
    <2>6. Drained(k)' BY <1>1, <2>5, DrainedStays
    <2>7. QED BY <1>1, <1>2, <1>w, <2>2, <2>3, <2>4, <2>5, <2>6, OnceFrame
  <1>7. QED BY <1>5, <1>6

LEMMA CloseOnce ==
  ASSUME LockInv, LockInv', Channels, NEW k \in Calls, Once(k), [Next]_vars,
         NEW c \in Conns, Close(c) \/ CloseByManager(c)
  PROVE  Once(k)'
  <1>1. UNCHANGED <<conn, id, lock, got, completed, executed, sent, inPOA, lockVars>>
    BY DEF Close, LockListSize, CloseWithError, Closing, CloseSocket, DestroyLocks, CloseByManager,
       callVars, peerVars
  <1>2. /\ \A d \in Conns : Underway(d)' \subseteq Underway(d)
        /\ \A d \in Conns : (destroyed[d] => destroyed'[d]) /\ (cstate[d] = "ERROR" => cstate'[d] = "ERROR")
    BY UnderwayConn, StaysBroken DEF LockInv
  <1>w. pc[k] \in {"wait", "waiting", "woken"} /\ Broken(conn[k]) => Broken(conn[k])'
    BY <1>1, BrokenWait DEF Broken
  <1>3. Holds(k) => lock[k] \in Locks /\ conn[k] \in Conns /\ lconn[lock[k]] = conn[k]
    BY DEF LockInv, LockDiscipline, Connected, Holds
  <1>4. pc[k] \in {"send", "closing", "wait", "waiting", "woken"} => Holds(k) BY DEF Holds
  <1>5. \/ pc'[k] = pc[k]
        \/ pc[k] = "waiting" /\ pc'[k] = "woken" /\ destroyed'[conn[k]]
    <2>1. CASE DestroyLocks(c)
      <3>1. destroyed'[c] BY <2>1 DEF DestroyLocks, LockInv, TypeOK
      <3>2. Notify(Active(c)) BY <2>1 DEF DestroyLocks
      <3>3. pc'[k] = IF pc[k] = "waiting" /\ lock[k] \in Active(c) THEN "woken" ELSE pc[k]
        BY <3>2 DEF Notify
      <3>4. QED BY <1>3, <1>4, <3>1, <3>3 DEF Active
    <2>2. CASE ~DestroyLocks(c)
      BY <2>2 DEF Close, LockListSize, CloseWithError, Closing, CloseSocket, CloseByManager, callVars
    <2>3. QED BY <2>1, <2>2
  <1>6. \A d \in Conns : toClient'[d] = toClient[d] \/ toClient'[d] = <<>>
    BY DEF Close, LockListSize, CloseWithError, Closing, CloseSocket, DestroyLocks, CloseByManager, peerVars,
       LockInv, TypeOK
  <1>7. Holds(k) /\ AskedAgain(k)' => AskedAgain(k)
    BY <1>1, <1>3, <1>6 DEF AskedAgain, lockVars
  <1>8. pc[k] \in {"wait", "waiting", "woken"} /\ InServer(k) => InServer(k)' \/ Broken(conn[k])'
    <2>1. SUFFICES ASSUME InServer(k), NEW d \in Conns, d = conn[k], pc[k] \in {"wait", "waiting", "woken"}
                   PROVE  InServer(k)' \/ Broken(d)'
      BY <1>1, <1>3, <1>4
    <2>2. CASE toClient'[d] = toClient[d] BY <1>1, <2>1, <2>2 DEF InServer, Back
    <2>3. CASE toClient'[d] # toClient[d]
      <3>1. CloseSocket(c) /\ c = d
        <4>1. CloseSocket(c) \/ toClient' = toClient
          BY DEF Close, LockListSize, CloseWithError, Closing, DestroyLocks, CloseByManager, peerVars
        <4>2. CloseSocket(c) => toClient' = [toClient EXCEPT ![c] = <<>>] BY DEF CloseSocket
        <4>3. QED BY <2>3, <4>1, <4>2 DEF LockInv, TypeOK
      <3>2. closeStep[d] = "socket" /\ cstate' = cstate BY <3>1 DEF CloseSocket
      <3>3. cstate[d] = "CLOSING" => toClient[d] = <<>> BY <2>1, <3>2 DEF Once, Drained
      <3>4. cstate[d] = "ERROR" BY <1>6, <2>3, <3>2, <3>3 DEF Channels, Channel
      <3>5. QED BY <3>2, <3>4 DEF Broken
    <2>4. QED BY <2>2, <2>3
  <1>9. pc[k] \in {"send", "closing"} =>
          /\ lmsg'[lock[k]] = lmsg[lock[k]]
          /\ \A m \in Underway(conn[k])' : m \in Underway(conn[k]) \/ m.id # id[k]
    BY <1>1, <1>2, <1>3, <1>4 DEF lockVars
  <1>10. lstate'[lock[k]] = lstate[lock[k]] BY <1>1 DEF lockVars
  <1>11. Drained(k)' BY <1>1, <1>5, DrainedStays
  <1>12. QED BY <1>1, <1>2, <1>w, <1>11, <1>5, <1>7, <1>8, <1>9, <1>10, OnceFrame

\* the server executes the call itself
LEMMA ExecuteOnce ==
  ASSUME LockInv, NEW k \in Calls, Once(k), Drained(k)',
         NEW c \in Conns, NEW m \in sent[c], m.call = k, ServerExecute(c, m)
  PROVE  Once(k)'
  <1>1. /\ executed[k] = 0 /\ conn[k] = c /\ m.id = id[k] /\ ~Unsent(k)
        /\ \A n \in sent[c] : n.call = k => n = m
    BY DEF Once, SentOnce, Unsent
  <1>2. /\ UNCHANGED <<callVars, connVars, lockVars, toClient>>
        /\ sent' = [sent EXCEPT ![c] = @ \ {m}] /\ m \in inPOA'[c] /\ executed'[k] = 1
    BY <1>1 DEF ServerExecute, LockInv, TypeOK
  <1>3. pc[k] \notin {"connect", "verify", "activate", "send", "closing", "recover"}
    BY <1>1 DEF Once, SentOnce
  <1>4. \A d \in Conns : \A n \in sent'[d] : n.call # k
    BY <1>1, <1>2 DEF Once, SentOnce, LockInv, TypeOK
  <1>5. SentOnce(k)' BY <1>2, <1>3, <1>4 DEF SentOnce, callVars
  <1>6. Fresh(k)' BY <1>2, <1>3 DEF Fresh, callVars
  <1>7. Readdressed(k)'
    <2>1. AskedAgain(k)' => AskedAgain(k) BY <1>2 DEF AskedAgain, callVars, lockVars
    <2>2. QED BY <1>1, <1>2, <2>1 DEF Once, Readdressed, Holds, callVars
  <1>8. Answered(k)' BY <1>1, <1>2 DEF Answered, InServer, callVars
  <1>9. Woken(k)' BY <1>2 DEF Once, Woken, callVars, connVars, lockVars
  <1>10. Unanswered(k)' BY <1>1, <1>2 DEF Once, Unanswered, callVars, connVars
  <1>11. QED BY <1>5, <1>6, <1>7, <1>8, <1>9, <1>10 DEF Once

LEMMA ServerOnce ==
  ASSUME LockInv, LockInv', Channels, NEW k \in Calls \ overtaken, Once(k),
         [Next]_vars, NEW c \in Conns, Server(c)
  PROVE  Once(k)'
  <1>1. UNCHANGED <<callVars, connVars, lockVars>>
    BY DEF Server, ServerExecute, ServerReaddress, ServerReply, ServerClose, NetworkBreak
  <1>2. /\ \A d \in Conns : Underway(d)' \subseteq Underway(d)
    BY UnderwayConn DEF LockInv
  <1>w. pc[k] \in {"wait", "waiting", "woken"} /\ Broken(conn[k]) => Broken(conn[k])'
    BY <1>1, BrokenWait DEF Broken, callVars
  <1>d. Drained(k)' BY <1>1, DrainedStays DEF callVars
  <1>3. Holds(k) => conn[k] \in Conns BY DEF LockInv, Connected, Holds
  <1>4. pc[k] \in {"send", "closing", "wait", "waiting", "woken"} => Holds(k) BY DEF Holds
  <1>a. ASSUME executed'[k] = executed[k],
               \A d \in Conns : sent'[d] \subseteq sent[d],
               Holds(k) /\ AskedAgain(k)' => AskedAgain(k) \/ Unsent(k)',
               pc[k] \in {"wait", "waiting", "woken"} /\ InServer(k) => InServer(k)' \/ Broken(conn[k])'
        PROVE  Once(k)'
    <2>1. pc[k] \in {"send", "closing"} =>
            /\ lmsg'[lock[k]] = lmsg[lock[k]]
            /\ \A m \in Underway(conn[k])' : m \in Underway(conn[k]) \/ m.id # id[k]
      <3>1. pc[k] \in {"send", "closing"} => conn[k] \in Conns BY <1>3, <1>4
      <3>2. QED BY <1>1, <1>2, <3>1 DEF callVars, lockVars
    <2>2. pc[k] \in {"wait", "waiting", "woken"} => conn[k] \in Conns BY <1>3, <1>4
    <2>3. QED BY <1>1, <1>2, <1>w, <1>d, <1>a, <2>1, <2>2, OnceFrame DEF callVars, connVars, lockVars
  <1>b. ASSUME NEW x \in Incoming, Put(c, x), \A m : x # Addressing(m)
        PROVE  AskedAgain(k)' => AskedAgain(k)
    <2>1. ASSUME NEW m \in Messages,
                 \E n \in DOMAIN toClient'[conn[k]] : toClient'[conn[k]][n] = Addressing(m)
          PROVE  \E n \in DOMAIN toClient[conn[k]] : toClient[conn[k]][n] = Addressing(m)
      <3>1. PICK n \in DOMAIN toClient'[conn[k]] : toClient'[conn[k]][n] = Addressing(m) BY <2>1
      <3>2. CASE conn[k] = c /\ sock[c]
        BY <1>b, <3>1, <3>2, PutLast DEF LockInv
      <3>3. CASE ~(conn[k] = c /\ sock[c])
        <4>1. toClient'[conn[k]] = toClient[conn[k]]
          <5>1. CASE ~sock[c] BY <1>b, <5>1 DEF Put
          <5>2. CASE sock[c]
            <6>1. toClient' = [toClient EXCEPT ![c] = Append(toClient[c], x)] BY <1>b, <5>2 DEF Put
            <6>2. QED BY <3>3, <5>2, <6>1 DEF LockInv, TypeOK
          <5>3. QED BY <5>1, <5>2
        <4>2. QED BY <2>1, <4>1
      <3>4. QED BY <3>2, <3>3
    <2>2. QED BY <1>1, <2>1 DEF AskedAgain, callVars, lockVars
  <1>5. ASSUME NEW m \in sent[c], ServerExecute(c, m) PROVE Once(k)'
    <2>1. CASE m.call = k BY <1>5, <1>d, <2>1, ExecuteOnce
    <2>2. CASE m.call # k
      <3>1. /\ executed'[k] = executed[k] /\ toClient' = toClient
            /\ \A d \in Conns : sent'[d] \subseteq sent[d] /\ inPOA[d] \subseteq inPOA'[d]
        <4>1. m.call \in Calls BY <1>5 DEF LockInv, TypeOK, Messages
        <4>2. QED BY <1>5, <2>2, <4>1 DEF ServerExecute, LockInv, TypeOK
      <3>2. AskedAgain(k)' => AskedAgain(k)
        BY <1>1, <3>1 DEF AskedAgain, callVars, lockVars
      <3>3. pc[k] \in {"wait", "waiting", "woken"} /\ InServer(k) => InServer(k)'
        <4>1. SUFFICES ASSUME pc[k] \in {"wait", "waiting", "woken"}, InServer(k) PROVE InServer(k)'
          OBVIOUS
        <4>2. conn[k] \in Conns BY <1>3, <1>4, <4>1
        <4>3. inPOA[conn[k]] \subseteq inPOA'[conn[k]] BY <3>1, <4>2
        <4>4. Back(conn[k])' = Back(conn[k]) BY <1>1, <3>1 DEF Back, callVars
        <4>5. QED BY <1>1, <4>1, <4>3, <4>4 DEF InServer, callVars
      <3>4. QED BY <1>a, <3>1, <3>2, <3>3
    <2>3. QED BY <2>1, <2>2
  <1>6. ASSUME NEW m \in sent[c], ServerReaddress(c, m) PROVE Once(k)'
    <2>1. /\ Put(c, Addressing(m)) /\ Addressing(m) \in Incoming
          /\ sent' = [sent EXCEPT ![c] = @ \ {m}] /\ inPOA' = inPOA /\ executed' = executed
      BY <1>6, AnswerType DEF ServerReaddress, Addressing, LockInv, TypeOK
    <2>2. \A d \in Conns : sent'[d] \subseteq sent[d] BY <2>1 DEF LockInv, TypeOK
    <2>3. pc[k] \in {"wait", "waiting", "woken"} /\ InServer(k) => InServer(k)'
      <3>1. SUFFICES ASSUME conn[k] \in Conns, InServer(k) PROVE InServer(k)'
        BY <1>3, <1>4
      <3>2. PICK n \in inPOA[conn[k]] \cup Back(conn[k]) : n.call = k /\ n.id = id[k]
        BY <3>1 DEF InServer
      <3>3. n \in Messages BY <3>1 DEF Back, LockInv, TypeOK
      <3>4. n \in Back(conn[k]) => n \in Back(conn[k])'
        BY <1>1, <2>1, <3>1, <3>3, BackMore DEF LockInv, callVars
      <3>5. QED BY <1>1, <2>1, <3>2, <3>4 DEF InServer, callVars
    <2>4. Holds(k) /\ AskedAgain(k)' => AskedAgain(k) \/ Unsent(k)'
      <3>1. CASE m.call = k
        <4>1. executed[k] = 0 /\ \A d \in Conns : \A n \in sent[d] : n.call = k => d = c /\ n = m
          BY <3>1 DEF Once, SentOnce
        <4>2. Unsent(k)' BY <2>1, <4>1 DEF Unsent, LockInv, TypeOK
        <4>3. QED BY <4>2
      <3>2. CASE m.call # k
        <4>1. SUFFICES ASSUME Holds(k), AskedAgain(k)' PROVE AskedAgain(k)
          OBVIOUS
        <4>2. PICK n \in Messages :
                /\ n.call = k /\ n.id = id[k]
                /\ \/ lmsg[lock[k]] = Addressing(n)
                   \/ \E p \in DOMAIN toClient'[conn[k]] : toClient'[conn[k]][p] = Addressing(n)
          BY <1>1, <4>1 DEF AskedAgain, callVars, lockVars
        <4>3. Addressing(m) # Addressing(n) BY <3>2, <4>2 DEF Addressing
        <4>4. CASE lmsg[lock[k]] = Addressing(n) BY <4>2, <4>4 DEF AskedAgain
        <4>5. ASSUME NEW p \in DOMAIN toClient'[conn[k]], toClient'[conn[k]][p] = Addressing(n)
              PROVE  AskedAgain(k)
          <5>1. p \in DOMAIN toClient[conn[k]] /\ toClient[conn[k]][p] = Addressing(n)
            BY <1>3, <2>1, <4>1, <4>3, <4>5, PutLast DEF LockInv
          <5>2. QED BY <4>2, <5>1 DEF AskedAgain
        <4>6. QED BY <4>2, <4>4, <4>5
      <3>3. QED BY <3>1, <3>2
    <2>5. QED BY <1>a, <2>1, <2>2, <2>3, <2>4
  <1>7. ASSUME NEW m \in inPOA[c], ServerReply(c, m) PROVE Once(k)'
    <2> DEFINE x == [type |-> "reply", msg |-> m]
    <2>1. /\ Put(c, x) /\ x \in Incoming /\ m \in Messages
          /\ inPOA' = [inPOA EXCEPT ![c] = @ \ {m}] /\ sent' = sent /\ executed' = executed
          /\ sOpen[c]
      BY <1>7, AnswerType DEF ServerReply, LockInv, TypeOK
    <2>2. \A n : x # Addressing(n) BY DEF Addressing
    <2>3. pc[k] \in {"wait", "waiting", "woken"} /\ InServer(k) => InServer(k)' \/ Broken(conn[k])'
      <3>1. SUFFICES ASSUME NEW d \in Conns, d = conn[k], InServer(k), ~Broken(d)',
                            pc[k] \in {"wait", "waiting", "woken"}
                     PROVE  InServer(k)'
        BY <1>1, <1>3, <1>4 DEF callVars
      <3>2. PICK n \in inPOA[d] \cup Back(d) : n.call = k /\ n.id = id[k]
        BY <3>1 DEF InServer
      <3>3. n \in Messages BY <3>1 DEF Back, LockInv, TypeOK
      <3>4. CASE n \in Back(d)
        <4>1. n \in Back(d)' BY <2>1, <3>3, <3>4, BackMore DEF LockInv
        <4>2. QED BY <1>1, <3>1, <3>2, <4>1 DEF InServer, callVars
      <3>5. CASE n \in inPOA[d] /\ (d # c \/ n # m)
        <4>1. n \in inPOA'[d] BY <2>1, <3>5 DEF LockInv, TypeOK
        <4>2. QED BY <1>1, <3>1, <3>2, <4>1 DEF InServer, callVars
      <3>6. CASE d = c /\ n = m
        <4>1. sock[c]
          <5>1. ~sock[c] => cstate[c] = "ERROR"
            BY <2>1, <3>1, <3>6 DEF Channels, Channel, Ordered, Once, Drained, LockInv, TypeOK
          <5>2. QED BY <1>1, <3>1, <3>6, <5>1 DEF Broken, connVars
        <4>2. IsAnswer(x, m) BY DEF IsAnswer
        <4>3. m \in Back(c)' BY <2>1, <4>1, <4>2, BackMore DEF LockInv
        <4>4. QED BY <1>1, <3>1, <3>2, <3>6, <4>3 DEF InServer, callVars
      <3>7. QED BY <3>4, <3>5, <3>6
    <2>4. AskedAgain(k)' => AskedAgain(k) BY <1>b, <2>1, <2>2
    <2>5. QED BY <1>a, <2>1, <2>3, <2>4
  <1>8. CASE ServerClose(c)
    <2> DEFINE x == [type |-> "CloseConnection"]
    <2>1. /\ Put(c, x) /\ x \in Incoming /\ sent' = [sent EXCEPT ![c] = {}]
          /\ inPOA' = inPOA /\ executed' = executed
      BY <1>8 DEF ServerClose, Incoming
    <2>2. \A n : x # Addressing(n)
      <3>1. \A n : Addressing(n).type = "addressing" /\ x.type = "CloseConnection" BY DEF Addressing
      <3>2. QED BY <3>1
    <2>3. pc[k] \in {"wait", "waiting", "woken"} /\ InServer(k) => InServer(k)'
      <3>1. SUFFICES ASSUME conn[k] \in Conns, InServer(k) PROVE InServer(k)'
        BY <1>3, <1>4
      <3>2. PICK n \in inPOA[conn[k]] \cup Back(conn[k]) : n.call = k /\ n.id = id[k]
        BY <3>1 DEF InServer
      <3>3. n \in Messages BY <3>1 DEF Back, LockInv, TypeOK
      <3>4. n \in Back(conn[k]) => n \in Back(conn[k])'
        BY <1>1, <2>1, <3>1, <3>3, BackMore DEF LockInv, callVars
      <3>5. QED BY <1>1, <2>1, <3>2, <3>4 DEF InServer, callVars
    <2>4. AskedAgain(k)' => AskedAgain(k) BY <1>b, <2>1, <2>2
    <2>5. \A d \in Conns : sent'[d] \subseteq sent[d] BY <2>1 DEF LockInv, TypeOK
    <2>6. QED BY <1>a, <2>1, <2>3, <2>4, <2>5
  <1>9. CASE NetworkBreak(c)
    <2>1. /\ toClient' = [toClient EXCEPT ![c] = <<[type |-> "broken"]>>]
          /\ inPOA' = inPOA /\ executed' = executed
      BY <1>9 DEF NetworkBreak
    <2>2. \A d \in Conns : sent'[d] \subseteq sent[d] BY <1>9 DEF NetworkBreak, LockInv, TypeOK
    <2>3. pc[k] \in {"wait", "waiting", "woken"} /\ InServer(k) => InServer(k)' \/ Broken(conn[k])'
      <3>1. SUFFICES ASSUME NEW d \in Conns, d = conn[k], InServer(k) PROVE InServer(k)' \/ Broken(d)'
        BY <1>1, <1>3, <1>4 DEF callVars
      <3>2. CASE d = c BY <2>1, <3>2 DEF Broken, LockInv, TypeOK
      <3>3. CASE d # c
        <4>1. toClient'[d] = toClient[d] BY <2>1, <3>3 DEF LockInv, TypeOK
        <4>2. QED BY <1>1, <2>1, <3>1, <4>1 DEF InServer, Back, callVars
      <3>4. QED BY <3>2, <3>3
    <2>4. Holds(k) /\ AskedAgain(k)' => AskedAgain(k)
      <3>1. SUFFICES ASSUME NEW m \in Messages, NEW d \in Conns, d = conn[k],
                            NEW n \in DOMAIN toClient'[d], toClient'[d][n] = Addressing(m)
                     PROVE  n \in DOMAIN toClient[d] /\ toClient[d][n] = Addressing(m)
        BY <1>1, <1>3 DEF AskedAgain, callVars, lockVars
      <3>2. CASE d = c
        <4>1. toClient'[c] = <<[type |-> "broken"]>> BY <2>1 DEF LockInv, TypeOK
        <4>2. toClient'[d][n] = [type |-> "broken"] BY <3>1, <3>2, <4>1
        <4>3. Addressing(m).type = "addressing" BY DEF Addressing
        <4>4. QED BY <3>1, <4>2, <4>3
      <3>3. CASE d # c BY <2>1, <3>1, <3>3 DEF LockInv, TypeOK
      <3>4. QED BY <3>2, <3>3
    <2>5. QED BY <1>a, <2>1, <2>2, <2>3, <2>4
  <1>10. QED BY <1>5, <1>6, <1>7, <1>8, <1>9 DEF Server

-----------------------------------------------------------------------------
LEMMA InitOnce == Init => OnceInv
  <1> SUFFICES ASSUME Init, NEW k \in Calls PROVE Once(k)
    BY DEF OnceInv
  <1>1. pc[k] = "connect" /\ Unsent(k) BY DEF Init, Unsent
  <1>2. QED
    BY <1>1 DEF Once, SentOnce, Fresh, Readdressed, Answered, Drained, Woken, Unanswered, Unsent, Holds

LEMMA NextOnce ==
  ASSUME Oneways = {}
  PROVE  LockInv /\ LockInv' /\ ReplyInv /\ Channels /\ OnceInv /\ [Next]_vars => OnceInv'
  <1> SUFFICES ASSUME LockInv, LockInv', ReplyInv, Channels, OnceInv, [Next]_vars,
                      NEW k \in Calls, k \notin overtaken'
               PROVE  Once(k)'
    BY DEF OnceInv
  <1>0. k \notin overtaken /\ Once(k) BY OvertakenGrows DEF OnceInv
  <1>1. ASSUME NEW j \in Calls, CallStep(j) PROVE Once(k)'
    BY <1>0, <1>1, OwnOnce, OthersOnce
  <1>2. ASSUME NEW c \in Conns, Receive(c) \/ Close(c) \/ CloseByManager(c) \/ Server(c)
        PROVE  Once(k)'
    BY <1>0, <1>2, ReceiveOnce, CloseOnce, ServerOnce
  <1>3. CASE UNCHANGED vars
    BY <1>0, <1>3 DEF Once, SentOnce, Fresh, Readdressed, Answered, Drained, Ordered, Woken, Unanswered,
       Unsent, AskedAgain, InServer, Broken, Underway, Back, Holds, vars, callVars, connVars, lockVars,
       peerVars
  <1>4. QED BY <1>1, <1>2, <1>3 DEF Next

\* For any number of invocations, connections and locks, with a network that
\* breaks, a server that closes the connection at any moment and asks for another
\* addressing, and a client that closes it too: the recovery loop sends a request
\* again only if it was not executed (send_request, verify_request, FinishNoReply
\* in CLOSING), unless the request is overtaken.  Assumed: no connection gives out
\* all its ids, and there are no reliable oneways.
THEOREM ExecutedOnce ==
  ASSUME Oneways = {}
  PROVE  Spec /\ []IdsLast => []AtMostOnce
  <1>1. LockInv /\ Channels /\ [Next]_vars => Channels' BY NextChannels
  <1>2. LockInv /\ LockInv' /\ ReplyInv /\ Channels /\ OnceInv /\ [Next]_vars => OnceInv'
    BY NextOnce
  <1>3. Spec /\ []IdsLast => []ReplyInv BY RepliesInvariance
  <1>4. OnceInv => AtMostOnce BY DEF OnceInv, Once, SentOnce, AtMostOnce
  <1>5. QED BY <1>1, <1>2, <1>3, <1>4, Invariance, InitChannels, InitOnce, PTL DEF Spec

=============================================================================
