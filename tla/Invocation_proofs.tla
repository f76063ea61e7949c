------------------------- MODULE Invocation_proofs -------------------------
(***************************************************************************)
(* Theorems about Invocation.  The locks of the LockPool, which all         *)
(* connections share, are used by one invocation at a time.  The inductive  *)
(* invariant adds what LockDiscipline does not say: a thread past           *)
(* getClientConnection has a connection, and a Lock that was never created  *)
(* is nowhere.                                                              *)
(***************************************************************************)
EXTENDS Invocation, TLAPS

\* past getClientConnection
Connected ==
  \A k \in Calls :
    pc[k] \in {"verify", "activate", "send", "closing", "wait", "waiting", "woken",
               "release", "finish"}
      => conn[k] \in Conns

Uncreated == \A l \in Locks \ created : lconn[l] = NULL

LockInv == TypeOK /\ Connected /\ Uncreated /\ LockDiscipline

-----------------------------------------------------------------------------
LEMMA HeadTail ==
  ASSUME NEW S, NEW s \in Seq(S), s # <<>>
  PROVE  Head(s) \in S /\ Tail(s) \in Seq(S)
  OBVIOUS

LEMMA PostIncType == \A n \in Ids : PostInc(n) \in Ids
  BY ParamAssumption DEF PostInc, Ids

LEMMA InitType == Init => TypeOK
  BY ParamAssumption DEF Init, TypeOK, Locations, Ids, Incoming

\* Types are kept: the actions of the invoking threads
LEMMA CallTypes ==
  ASSUME LockInv, NEW k \in Calls, CallStep(k)
  PROVE  TypeOK'
  <1> USE DEF LockInv
  <1>1. CASE ReuseConnection(k)
    BY <1>1 DEF TypeOK, ReuseConnection, Goto, Locations, connVars, lockVars, peerVars
  <1>2. CASE \E c \in Conns : OpenConnection(k, c)
    BY <1>2 DEF TypeOK, OpenConnection, Goto, Locations, lockVars
  <1>3. CASE VerifyRequest(k)
    BY <1>3 DEF TypeOK, VerifyRequest, Goto, Locations, connVars, lockVars, peerVars
  <1>4. CASE ActivateLock(k)
    <2>1. conn[k] \in Conns BY <1>4 DEF Connected, ActivateLock
    <2> DEFINE i == IF k \in Oneways THEN 0 ELSE idCount[conn[k]]
    <2>2. /\ idCount' \in [Conns -> Ids] /\ id' \in [Calls -> Ids]
      <3>1. idCount[conn[k]] \in Ids /\ PostInc(idCount[conn[k]]) \in Ids /\ 0 \in Ids
        BY <2>1, PostIncType, ParamAssumption DEF TypeOK, Ids
      <3>2. id' = [id EXCEPT ![k] = i]
        BY <1>4 DEF ActivateLock
      <3>3. \/ idCount' = idCount
            \/ idCount' = [idCount EXCEPT ![conn[k]] = PostInc(idCount[conn[k]])]
        BY <1>4 DEF ActivateLock
      <3>4. QED BY <3>1, <3>2, <3>3 DEF TypeOK
    <2>3. /\ pc' \in [Calls -> Locations] /\ lock' \in [Calls -> Locks \cup {NULL}]
          /\ lconn' \in [Locks -> Conns \cup {NULL}] /\ lid' \in [Locks -> Ids]
          /\ lstate' \in [Locks -> {"INITIAL", "WAITING", "COMPLETED"}]
          /\ lmsg' = lmsg /\ pooled' \subseteq Locks /\ created' \subseteq Locks
      <3>1. CASE destroyed[conn[k]]
        BY <1>4, <3>1 DEF TypeOK, ActivateLock, Goto, Locations, Outcomes, lockVars
      <3>2. CASE ~destroyed[conn[k]] /\ \E l \in Active(conn[k]) : lid[l] = i
        <4>1. pc' = [pc EXCEPT ![k] = "INTERNAL"] /\ UNCHANGED <<lock, lockVars>>
          <5> HIDE DEF i
          <5>1. \A l \in Active(conn[k]) : lid[l] # i => ~(lid[l] = i) OBVIOUS
          <5>2. QED BY <1>4, <3>2, <5>1 DEF ActivateLock, Goto, i
        <4>2. QED BY <4>1 DEF TypeOK, Locations, Outcomes, lockVars
      <3>3. CASE ~destroyed[conn[k]] /\ \A l \in Active(conn[k]) : lid[l] # i
        <4>1. i \in Ids BY <2>1, ParamAssumption DEF TypeOK, Ids
        <4>2. PICK l \in (IF pooled = {} THEN Locks \ created ELSE pooled) :
                /\ lock' = [lock EXCEPT ![k] = l]
                /\ lconn' = [lconn EXCEPT ![l] = conn[k]]
                /\ lid' = [lid EXCEPT ![l] = i]
                /\ lstate' = [lstate EXCEPT ![l] = "INITIAL"]
                /\ pooled' = pooled \ {l}
                /\ created' = created \cup {l}
          BY <1>4, <3>3 DEF ActivateLock
        <4>3. l \in Locks BY <4>2 DEF TypeOK
        <4>4. lmsg' = lmsg /\ pc' = [pc EXCEPT ![k] = "send"]
          BY <1>4, <3>3 DEF ActivateLock, Goto
        <4>5. QED BY <4>1, <4>2, <4>3, <4>4, <2>1 DEF TypeOK, Locations
      <3>4. QED BY <3>1, <3>2, <3>3
    <2>4. QED BY <1>4, <2>2, <2>3 DEF TypeOK, ActivateLock, peerVars
  <1>5. CASE SendMessage(k)
    <2> DEFINE m == [id |-> id[k], call |-> k, full |-> full[k]]
    <2>1. conn[k] \in Conns BY <1>5 DEF Connected, SendMessage
    <2>2. m \in Messages BY DEF TypeOK, Messages
    <2>3. sent' \in [Conns -> SUBSET Messages]
      BY <1>5, <2>1, <2>2 DEF TypeOK, SendMessage
    <2>4. QED BY <1>5, <2>3 DEF TypeOK, SendMessage, Goto, Locations, connVars, lockVars
  <1>6. CASE SendFails(k)
    BY <1>6 DEF TypeOK, SendFails, SetError, AfterFailure, Goto, Locations, Outcomes,
                lockVars, peerVars
  <1>7. CASE SendFailed(k)
    BY <1>7 DEF TypeOK, SendFailed, AfterFailure, Goto, Locations, Outcomes, connVars,
                lockVars, peerVars
  <1>8. CASE WaitForCompletion(k)
    <2>1. CASE lstate[lock[k]] = "INITIAL"
      <3>1. /\ lstate' = [lstate EXCEPT ![lock[k]] = "WAITING"]
            /\ pc' = [pc EXCEPT ![k] = "waiting"]
        BY <1>8, <2>1 DEF WaitForCompletion, Goto
      <3>2. QED
        BY <1>8, <3>1 DEF TypeOK, WaitForCompletion, Locations, connVars, peerVars
    <2>2. CASE lstate[lock[k]] # "INITIAL"
      <3>1. lstate' = lstate /\ pc' = [pc EXCEPT ![k] = "woken"]
        BY <1>8, <2>2 DEF WaitForCompletion, Goto
      <3>2. QED
        BY <1>8, <3>1 DEF TypeOK, WaitForCompletion, Locations, connVars, peerVars
    <2>3. QED BY <2>1, <2>2
  <1>9. CASE TimeOut(k)
    BY <1>9 DEF TypeOK, TimeOut, Goto, Locations, connVars, lockVars, peerVars
  <1>10. CASE IsCompleted(k)
    <2>1. lock[k] \in Locks BY <1>10 DEF LockDiscipline, Holds, IsCompleted
    <2>2. completed' \in [Calls -> BOOLEAN]
      <3>1. completed' = [completed EXCEPT ![k] = lstate[lock[k]] = "COMPLETED"]
        BY <1>10 DEF IsCompleted
      <3>2. (lstate[lock[k]] = "COMPLETED") \in BOOLEAN OBVIOUS
      <3>3. QED BY <3>1, <3>2, Zenon DEF TypeOK
    <2>3. got' \in [Calls -> Incoming \cup {NULL}] /\ lmsg' \in [Locks -> Incoming \cup {NULL}]
      <3>1. CASE lstate[lock[k]] = "COMPLETED"
        <4>1. /\ got' = [got EXCEPT ![k] = lmsg[lock[k]]]
              /\ lmsg' = [lmsg EXCEPT ![lock[k]] = NULL]
          BY <1>10, <3>1 DEF IsCompleted
        <4>2. lmsg[lock[k]] \in Incoming \cup {NULL} BY <2>1 DEF TypeOK
        <4>3. QED BY <4>1, <4>2 DEF TypeOK
      <3>2. CASE lstate[lock[k]] # "COMPLETED"
        BY <1>10, <3>2 DEF TypeOK, IsCompleted
      <3>3. QED BY <3>1, <3>2
    <2>4. QED
      BY <1>10, <2>2, <2>3 DEF TypeOK, IsCompleted, Goto, Locations, connVars, peerVars
  <1>11. CASE DeactivateLock(k)
    <2>1. lock[k] \in Locks BY <1>11 DEF LockDiscipline, Holds, DeactivateLock
    <2>2. 0 \in Ids BY ParamAssumption DEF Ids
    <2>3. QED
      BY <1>11, <2>1, <2>2 DEF TypeOK, DeactivateLock, Goto, Locations, connVars, peerVars
  <1>12. CASE FinishReply(k)
    BY <1>12 DEF TypeOK, FinishReply, Goto, Locations, Outcomes, connVars, lockVars, peerVars
  <1>13. CASE FinishNoReply(k)
    BY <1>13 DEF TypeOK, FinishNoReply, Goto, Locations, Outcomes, connVars, lockVars, peerVars
  <1>14. CASE Recover(k)
    <2>1. recover' \in [Calls -> Int] /\ recover[k] \in Int
      BY <1>14 DEF TypeOK, Recover
    <2>2. CASE recover[k] - 1 <= 0
      BY <1>14, <2>1, <2>2 DEF TypeOK, Recover, Goto, Locations, Outcomes, connVars, lockVars,
                               peerVars
    <2>3. CASE recover[k] - 1 > 0
      <3>1. /\ pc' = [pc EXCEPT ![k] = "connect"] /\ conn' = [conn EXCEPT ![k] = NULL]
            /\ lock' = [lock EXCEPT ![k] = NULL] /\ full' = [full EXCEPT ![k] = FALSE]
        BY <1>14, <2>1, <2>3 DEF Recover, Goto
      <3>2. QED
        BY <1>14, <2>1, <3>1 DEF TypeOK, Recover, Locations, connVars, lockVars, peerVars
    <2>4. QED BY <2>1, <2>2, <2>3
  <1>15. CASE ConnectFails(k)
    BY <1>15 DEF TypeOK, ConnectFails, Goto, Locations, Outcomes, connVars, lockVars, peerVars
  <1>16. QED
    BY <1>1, <1>2, <1>3, <1>4, <1>5, <1>6, <1>7, <1>8, <1>9, <1>10, <1>11, <1>12, <1>13,
       <1>14, <1>15 DEF CallStep

\* Types are kept: the receiving thread, the closing thread, the server
LEMMA ConnTypes ==
  ASSUME LockInv, NEW c \in Conns, Receive(c) \/ Close(c) \/ CloseByManager(c) \/ Server(c)
  PROVE  TypeOK'
  <1> USE DEF LockInv
  <1> DEFINE h == Head(toClient[c])
  <1>a. ASSUME NEW types, CanRead(c, types)
        PROVE  h \in Incoming /\ toClient' \in [Conns -> Seq(Incoming)]
    <2>1. toClient[c] \in Seq(Incoming) /\ toClient[c] # <<>>
      BY <1>a DEF TypeOK, CanRead
    <2>2. h \in Incoming /\ Tail(toClient[c]) \in Seq(Incoming)
      BY <2>1, HeadTail
    <2>3. QED BY <1>a, <2>2 DEF TypeOK, CanRead
  <1>b. ASSUME NEW m \in Incoming, Put(c, m)
        PROVE  toClient' \in [Conns -> Seq(Incoming)]
    BY <1>b DEF TypeOK, Put
  <1>c. ASSUME NEW S, Notify(S)
        PROVE  pc' \in [Calls -> Locations]
    BY <1>c DEF TypeOK, Notify, Locations
  <1>1. CASE ReceiveTest(c)
    BY <1>1 DEF TypeOK, ReceiveTest, callVars, lockVars, peerVars
  <1>2. CASE ReceiveReply(c)
    <2>1. CanRead(c, {"reply", "addressing"}) BY <1>2 DEF ReceiveReply
    <2>2. h \in Incoming /\ toClient' \in [Conns -> Seq(Incoming)] BY <2>1, <1>a
    <2>3. pc' \in [Calls -> Locations] BY <1>2, <1>c DEF ReceiveReply
    <2>4. lmsg' \in [Locks -> Incoming \cup {NULL}]
      BY <1>2, <2>2 DEF TypeOK, ReceiveReply
    <2>5. lstate' \in [Locks -> {"INITIAL", "WAITING", "COMPLETED"}]
      BY <1>2 DEF TypeOK, ReceiveReply
    <2>6. QED BY <1>2, <2>2, <2>3, <2>4, <2>5 DEF TypeOK, ReceiveReply
  <1>3. CASE ReceiveClose(c)
    <2>1. toClient' \in [Conns -> Seq(Incoming)]
      BY <1>3, <1>a DEF ReceiveClose
    <2>2. QED BY <1>3, <2>1 DEF TypeOK, ReceiveClose, callVars, lockVars
  <1>4. CASE ReceiveBroken(c)
    <2>1. toClient' \in [Conns -> Seq(Incoming)]
      BY <1>4, <1>a DEF ReceiveBroken
    <2>2. QED BY <1>4, <2>1 DEF TypeOK, ReceiveBroken, SetError, callVars, lockVars
  <1>5. CASE ReceiveFails(c)
    BY <1>5 DEF TypeOK, ReceiveFails, SetError, callVars, lockVars, peerVars
  <1>6. CASE CloseByManager(c)
    BY <1>6 DEF TypeOK, CloseByManager, Uncached, callVars, lockVars, peerVars
  <1>7. CASE LockListSize(c)
    BY <1>7 DEF TypeOK, LockListSize, callVars, lockVars, peerVars
  <1>8. CASE CloseWithError(c)
    BY <1>8 DEF TypeOK, CloseWithError, callVars, lockVars, peerVars
  <1>9. CASE Closing(c)
    BY <1>9 DEF TypeOK, Closing, Uncached, callVars, lockVars, peerVars
  <1>10. CASE CloseSocket(c)
    BY <1>10 DEF TypeOK, CloseSocket, callVars, lockVars
  <1>11. CASE DestroyLocks(c)
    <2>1. pc' \in [Calls -> Locations] BY <1>11, <1>c DEF DestroyLocks
    <2>2. QED BY <1>11, <2>1 DEF TypeOK, DestroyLocks, lockVars, peerVars
  <1>12. ASSUME NEW m \in sent[c], ServerExecute(c, m)
         PROVE  TypeOK'
    <2>1. m \in Messages /\ m.call \in Calls BY <1>12 DEF TypeOK, Messages
    <2>2. executed' \in [Calls -> Nat] BY <1>12, <2>1 DEF TypeOK, ServerExecute
    <2>3. QED
      BY <1>12, <2>1, <2>2 DEF TypeOK, ServerExecute, callVars, connVars, lockVars
  <1>13. ASSUME NEW m \in sent[c], ServerReaddress(c, m)
         PROVE  TypeOK'
    <2>1. [type |-> "addressing", msg |-> m] \in Incoming BY <1>13 DEF TypeOK, Incoming
    <2>2. toClient' \in [Conns -> Seq(Incoming)] BY <1>13, <2>1, <1>b DEF ServerReaddress
    <2>3. QED
      BY <1>13, <2>2 DEF TypeOK, ServerReaddress, callVars, connVars, lockVars
  <1>14. ASSUME NEW m \in inPOA[c], ServerReply(c, m)
         PROVE  TypeOK'
    <2>1. [type |-> "reply", msg |-> m] \in Incoming BY <1>14 DEF TypeOK, Incoming
    <2>2. toClient' \in [Conns -> Seq(Incoming)] BY <1>14, <2>1, <1>b DEF ServerReply
    <2>3. QED BY <1>14, <2>2 DEF TypeOK, ServerReply, callVars, connVars, lockVars
  <1>15. CASE ServerClose(c)
    <2>1. [type |-> "CloseConnection"] \in Incoming BY DEF Incoming
    <2>2. toClient' \in [Conns -> Seq(Incoming)] BY <1>15, <2>1, <1>b DEF ServerClose
    <2>3. overtaken' \subseteq Calls
      <3>1. \A m \in inPOA[c] : m.call \in Calls BY DEF TypeOK, Messages
      <3>2. QED BY <1>15, <3>1 DEF TypeOK, ServerClose
    <2>4. QED BY <1>15, <2>2, <2>3 DEF TypeOK, ServerClose, callVars, connVars, lockVars
  <1>16. CASE NetworkBreak(c)
    <2>1. [type |-> "broken"] \in Incoming BY DEF Incoming
    <2>2. toClient' \in [Conns -> Seq(Incoming)]
      BY <1>16, <2>1 DEF TypeOK, NetworkBreak
    <2>3. QED BY <1>16, <2>2 DEF TypeOK, NetworkBreak, callVars, connVars, lockVars
  <1>17. QED
    BY <1>1, <1>2, <1>3, <1>4, <1>5, <1>6, <1>7, <1>8, <1>9, <1>10, <1>11, <1>12, <1>13,
       <1>14, <1>15, <1>16 DEF Receive, Close, Server

-----------------------------------------------------------------------------
\* A step that leaves the lists and the pool alone, and after which no thread
\* holds a lock it did not hold before, keeps the discipline.
LEMMA Quiet ==
  ASSUME LockInv,
         lconn' = lconn, lid' = lid, pooled' = pooled, created' = created,
         \A l \in pooled : lmsg'[l] = lmsg[l],
         \A k \in Calls : Holds(k)' => /\ Holds(k)
                                       /\ lock'[k] = lock[k] /\ conn'[k] = conn[k] /\ id'[k] = id[k],
         Connected'
  PROVE  (Connected /\ Uncreated /\ LockDiscipline)'
  <1>1. Uncreated' BY DEF LockInv, Uncreated
  <1>2. LockDiscipline' BY DEF LockInv, LockDiscipline
  <1>3. QED BY <1>1, <1>2

\* activate_lock: the lock comes from the pool or is new, so nobody has it
LEMMA Activate ==
  ASSUME LockInv, NEW k \in Calls, ActivateLock(k)
  PROVE  (Connected /\ Uncreated /\ LockDiscipline)'
  <1> USE DEF LockInv
  <1> DEFINE i == IF k \in Oneways THEN 0 ELSE idCount[conn[k]]
  <1>1. conn[k] \in Conns /\ pc[k] = "activate" BY DEF Connected, ActivateLock
  <1>2. id' = [id EXCEPT ![k] = i] /\ conn' = conn BY DEF ActivateLock
  <1>3. CASE UNCHANGED <<lock, lockVars>> /\ pc' \in {[pc EXCEPT ![k] = "COMM_FAILURE"], [pc EXCEPT ![k] = "INTERNAL"]}
    <2>1. \A j \in Calls : Holds(j)' => Holds(j) /\ j # k
      BY <1>3 DEF TypeOK, Holds
    <2>2. \A j \in Calls : j # k => id'[j] = id[j] BY <1>2 DEF TypeOK
    <2>3. Connected' BY <1>2, <1>3 DEF TypeOK, Connected
    <2>4. QED BY <1>2, <1>3, <2>1, <2>2, <2>3, Quiet DEF lockVars
  <1>4. CASE /\ \A l \in Active(conn[k]) : lid[l] # i
             /\ \E l \in (IF pooled = {} THEN Locks \ created ELSE pooled) :
                  /\ lock' = [lock EXCEPT ![k] = l]
                  /\ lconn' = [lconn EXCEPT ![l] = conn[k]]
                  /\ lid' = [lid EXCEPT ![l] = i]
                  /\ lstate' = [lstate EXCEPT ![l] = "INITIAL"]
                  /\ pooled' = pooled \ {l}
                  /\ created' = created \cup {l}
             /\ UNCHANGED lmsg
             /\ pc' = [pc EXCEPT ![k] = "send"]
    <2> HIDE DEF i
    <2>1. PICK l \in (IF pooled = {} THEN Locks \ created ELSE pooled) :
            /\ lock' = [lock EXCEPT ![k] = l]
            /\ lconn' = [lconn EXCEPT ![l] = conn[k]]
            /\ lid' = [lid EXCEPT ![l] = i]
            /\ pooled' = pooled \ {l}
            /\ created' = created \cup {l}
      BY <1>4
    <2>2. l \in Locks /\ lconn[l] = NULL
      BY <2>1 DEF TypeOK, LockDiscipline, Uncreated
    <2>3. \A j \in Calls : Holds(j) => lock[j] # l /\ j # k
      BY <1>1, <2>2, SetsAssumption DEF LockDiscipline, Holds, Connected
    <2>4. \A j \in Calls : j # k =>
             /\ Holds(j)' = Holds(j)
             /\ lock'[j] = lock[j] /\ id'[j] = id[j] /\ conn'[j] = conn[j]
      BY <1>2, <1>4, <2>1 DEF TypeOK, Holds
    <2>5. \A m \in Locks : m # l => lconn'[m] = lconn[m] /\ lid'[m] = lid[m]
      BY <2>1, <2>2 DEF TypeOK
    <2>6. lconn'[l] = conn[k] /\ lid'[l] = i /\ lock'[k] = l /\ id'[k] = i
      BY <1>2, <2>1, <2>2 DEF TypeOK
    <2>7. Connected'
      BY <1>1, <1>2, <1>4 DEF TypeOK, Connected
    <2>8. Uncreated'
      BY <2>1, <2>5 DEF TypeOK, Uncreated
    <2>9. \A m \in pooled' : lconn'[m] = NULL /\ lmsg'[m] = NULL
      BY <1>4, <2>1, <2>5 DEF TypeOK, LockDiscipline
    <2>10. \A m, n \in Locks :
              lconn'[m] # NULL /\ lconn'[m] = lconn'[n] /\ lid'[m] = lid'[n] => m = n
      <3>1. \A m \in Locks : m # l /\ lconn[m] = conn[k] => lid[m] # i
        BY <1>4 DEF Active
      <3>2. QED BY <3>1, <2>2, <2>5, <2>6 DEF LockDiscipline
    <2>11. \A j \in Calls : Holds(j)' => /\ lock'[j] \in Locks
                                         /\ lconn'[lock'[j]] = conn'[j] /\ lid'[lock'[j]] = id'[j]
      <3> SUFFICES ASSUME NEW j \in Calls, Holds(j)'
                   PROVE  /\ lock'[j] \in Locks
                          /\ lconn'[lock'[j]] = conn'[j] /\ lid'[lock'[j]] = id'[j]
        OBVIOUS
      <3>2. CASE j = k BY <3>2, <1>2, <2>2, <2>6
      <3>3. CASE j # k
        <4>1. Holds(j) BY <3>3, <2>4
        <4>2. lock[j] \in Locks /\ lock[j] # l /\ lconn[lock[j]] = conn[j] /\ lid[lock[j]] = id[j]
          BY <4>1, <2>3 DEF LockDiscipline
        <4>3. QED BY <3>3, <4>2, <2>4, <2>5
      <3>4. QED BY <3>2, <3>3
    <2>12. \A j, n \in Calls : Holds(j)' /\ Holds(n)' /\ lock'[j] = lock'[n] => j = n
      BY <2>3, <2>4, <2>6 DEF LockDiscipline
    <2>13. QED BY <2>7, <2>8, <2>9, <2>10, <2>11, <2>12 DEF LockDiscipline
  <1>5. QED
    BY <1>3, <1>4 DEF ActivateLock, Goto

\* deactivate_lock: nobody else has the lock that goes to the pool
LEMMA Deactivate ==
  ASSUME LockInv, NEW k \in Calls, DeactivateLock(k)
  PROVE  (Connected /\ Uncreated /\ LockDiscipline)'
  <1> USE DEF LockInv
  <1> DEFINE l == lock[k]
  <1>1. Holds(k) /\ l \in Locks BY DEF LockDiscipline, Holds, DeactivateLock
  <1>2. /\ lconn' = [lconn EXCEPT ![l] = NULL] /\ lid' = [lid EXCEPT ![l] = 0]
        /\ lmsg' = [lmsg EXCEPT ![l] = NULL] /\ pooled' = pooled \cup {l}
        /\ lock' = [lock EXCEPT ![k] = NULL] /\ pc' = [pc EXCEPT ![k] = "finish"]
        /\ conn' = conn /\ id' = id /\ created' = created
    BY DEF DeactivateLock, Goto
  <1>3. \A j \in Calls : Holds(j)' => /\ Holds(j) /\ j # k /\ lock[j] # l
                                      /\ lock'[j] = lock[j]
    BY <1>1, <1>2 DEF TypeOK, LockDiscipline, Holds
  <1>4. \A m \in Locks : m # l => lconn'[m] = lconn[m] /\ lid'[m] = lid[m] /\ lmsg'[m] = lmsg[m]
    BY <1>1, <1>2 DEF TypeOK
  <1>5. lconn'[l] = NULL /\ lmsg'[l] = NULL BY <1>1, <1>2 DEF TypeOK
  <1>6. Connected'
    BY <1>1, <1>2 DEF TypeOK, Connected, Holds
  <1>7. Uncreated' BY <1>2, <1>4, <1>5 DEF Uncreated
  <1>8. LockDiscipline'
    <2>1. \A m \in pooled' : lconn'[m] = NULL /\ lmsg'[m] = NULL
      BY <1>2, <1>4, <1>5 DEF TypeOK, LockDiscipline
    <2>2. \A m, n \in Locks :
             lconn'[m] # NULL /\ lconn'[m] = lconn'[n] /\ lid'[m] = lid'[n] => m = n
      BY <1>4, <1>5 DEF LockDiscipline
    <2>3. \A j \in Calls : Holds(j)' => /\ lock'[j] \in Locks
                                        /\ lconn'[lock'[j]] = conn'[j] /\ lid'[lock'[j]] = id'[j]
      BY <1>2, <1>3, <1>4 DEF LockDiscipline
    <2>4. \A j, n \in Calls : Holds(j)' /\ Holds(n)' /\ lock'[j] = lock'[n] => j = n
      BY <1>3 DEF LockDiscipline
    <2>5. QED BY <2>1, <2>2, <2>3, <2>4 DEF LockDiscipline
  <1>9. QED BY <1>6, <1>7, <1>8

\* the other steps of an invoking thread
LEMMA CallQuiet ==
  ASSUME LockInv, NEW k \in Calls, CallStep(k), ~ActivateLock(k), ~DeactivateLock(k)
  PROVE  (Connected /\ Uncreated /\ LockDiscipline)'
  <1> USE DEF LockInv
  <1>a. ASSUME lconn' = lconn, lid' = lid, pooled' = pooled, created' = created, lmsg' = lmsg,
               conn' = conn, lock' = lock, id' = id, NEW w, pc' = [pc EXCEPT ![k] = w],
               w \in {"send", "closing", "wait", "waiting", "woken", "release"} => Holds(k),
               w \in {"verify", "activate", "finish"} => conn[k] \in Conns
        PROVE  (Connected /\ Uncreated /\ LockDiscipline)'
    <2>1. \A j \in Calls : Holds(j)' => Holds(j)
      BY <1>a DEF TypeOK, Holds
    <2>2. Connected'
      BY <1>a DEF TypeOK, Connected, Holds
    <2>3. QED BY <1>a, <2>1, <2>2, Quiet
  <1>1. CASE ReuseConnection(k)
    <2>1. /\ pc' = [pc EXCEPT ![k] = "verify"] /\ conn' = [conn EXCEPT ![k] = cached]
          /\ cached \in Conns /\ UNCHANGED <<id, lock, lconn, lid, lmsg, pooled, created>>
      BY <1>1 DEF TypeOK, ReuseConnection, Goto, lockVars
    <2>2. \A j \in Calls : Holds(j)' => Holds(j) /\ conn'[j] = conn[j]
      BY <2>1 DEF TypeOK, Holds
    <2>3. Connected' BY <2>1 DEF TypeOK, Connected
    <2>4. QED BY <2>1, <2>2, <2>3, Quiet
  <1>2. ASSUME NEW c \in Conns, OpenConnection(k, c)
        PROVE  (Connected /\ Uncreated /\ LockDiscipline)'
    <2>1. /\ pc' = [pc EXCEPT ![k] = "verify"] /\ conn' = [conn EXCEPT ![k] = c]
          /\ UNCHANGED <<id, lock, lconn, lid, lmsg, pooled, created>>
      BY <1>2 DEF OpenConnection, Goto, lockVars
    <2>2. \A j \in Calls : Holds(j)' => Holds(j) /\ conn'[j] = conn[j]
      BY <2>1 DEF TypeOK, Holds
    <2>3. Connected' BY <2>1 DEF TypeOK, Connected
    <2>4. QED BY <2>1, <2>2, <2>3, Quiet
  <1>3. CASE VerifyRequest(k)
    BY <1>3, <1>a DEF VerifyRequest, Goto, Connected, lockVars
  <1>4. CASE SendMessage(k)
    BY <1>4, <1>a DEF SendMessage, Goto, Holds, lockVars
  <1>5. CASE SendFails(k)
    BY <1>5, <1>a DEF SendFails, AfterFailure, Goto, Holds, lockVars
  <1>6. CASE SendFailed(k)
    BY <1>6, <1>a DEF SendFailed, AfterFailure, Goto, Holds, lockVars
  <1>7. CASE WaitForCompletion(k)
    BY <1>7, <1>a DEF WaitForCompletion, Goto, Holds
  <1>8. CASE TimeOut(k)
    BY <1>8, <1>a DEF TimeOut, Goto, Holds, lockVars
  <1>9. CASE IsCompleted(k)
    <2>1. Holds(k) /\ lock[k] \in Locks /\ lock[k] \notin pooled
      BY <1>9, SetsAssumption DEF IsCompleted, Holds, LockDiscipline, Connected
    <2>2. /\ lconn' = lconn /\ lid' = lid /\ pooled' = pooled /\ created' = created
          /\ conn' = conn /\ lock' = lock /\ id' = id /\ pc' = [pc EXCEPT ![k] = "release"]
      BY <1>9 DEF IsCompleted, Goto
    <2>3. \A l \in pooled : lmsg'[l] = lmsg[l]
      BY <1>9, <2>1 DEF TypeOK, IsCompleted
    <2>4. \A j \in Calls : Holds(j)' => Holds(j) BY <2>1, <2>2 DEF TypeOK, Holds
    <2>5. Connected' BY <2>1, <2>2 DEF TypeOK, Connected, Holds
    <2>6. QED BY <2>2, <2>3, <2>4, <2>5, Quiet
  <1>10. CASE FinishReply(k)
    BY <1>10, <1>a DEF FinishReply, Goto, Connected, lockVars
  <1>11. CASE FinishNoReply(k)
    <2>1. PICK w \in {"lost", "recover", "COMM_FAILURE", "NO_RESPONSE"} :
            pc' = [pc EXCEPT ![k] = w]
      BY <1>11 DEF FinishNoReply, Goto
    <2>2. QED BY <1>11, <2>1, <1>a DEF FinishNoReply, lockVars
  <1>12. CASE Recover(k)
    <2>1. CASE recover[k] - 1 <= 0
      BY <1>12, <2>1, <1>a DEF Recover, Goto, lockVars
    <2>2. CASE ~(recover[k] - 1 <= 0)
      <3>1. /\ pc' = [pc EXCEPT ![k] = "connect"] /\ conn' = [conn EXCEPT ![k] = NULL]
            /\ lock' = [lock EXCEPT ![k] = NULL]
            /\ UNCHANGED <<id, lconn, lid, lmsg, pooled, created>>
        BY <1>12, <2>2 DEF Recover, Goto, lockVars
      <3>2. \A j \in Calls : Holds(j)' => /\ Holds(j) /\ conn'[j] = conn[j]
                                          /\ lock'[j] = lock[j]
        BY <3>1 DEF TypeOK, Holds
      <3>3. Connected' BY <3>1 DEF TypeOK, Connected
      <3>4. QED BY <3>1, <3>2, <3>3, Quiet
    <2>3. QED BY <2>1, <2>2
  <1>13. CASE ConnectFails(k)
    BY <1>13, <1>a DEF ConnectFails, Goto, lockVars
  <1>14. QED
    BY <1>1, <1>2, <1>3, <1>4, <1>5, <1>6, <1>7, <1>8, <1>9, <1>10, <1>11, <1>12, <1>13
       DEF CallStep

\* the receiving thread, the closing thread, the server
LEMMA ConnQuiet ==
  ASSUME LockInv, NEW c \in Conns, Receive(c) \/ Close(c) \/ CloseByManager(c) \/ Server(c)
  PROVE  (Connected /\ Uncreated /\ LockDiscipline)'
  <1> USE DEF LockInv
  <1>a. ASSUME UNCHANGED <<callVars, lockVars>>
        PROVE  (Connected /\ Uncreated /\ LockDiscipline)'
    <2>1. UNCHANGED <<pc, conn, id, lock, lconn, lid, lmsg, pooled, created>>
      BY <1>a DEF callVars, lockVars
    <2>2. Connected' /\ \A k \in Calls : Holds(k)' => Holds(k)
      BY <2>1 DEF Connected, Holds
    <2>3. QED BY <2>1, <2>2, Quiet
  <1>b. ASSUME NEW S, Notify(S), UNCHANGED <<conn, id, lock, lconn, lid, pooled, created>>,
               \A l \in pooled : lmsg'[l] = lmsg[l]
        PROVE  (Connected /\ Uncreated /\ LockDiscipline)'
    <2>1. \A k \in Calls : pc'[k] = pc[k] \/ (pc[k] = "waiting" /\ pc'[k] = "woken")
      BY <1>b DEF Notify
    <2>2. Connected' /\ \A k \in Calls : Holds(k)' => Holds(k)
      BY <1>b, <2>1 DEF Connected, Holds
    <2>3. QED BY <1>b, <2>2, Quiet
  <1>1. CASE ReceiveReply(c)
    <2>1. \A l \in pooled : lmsg'[l] = lmsg[l]
      <3>1. \A l \in pooled : l \in Locks /\ l \notin Active(c)
        BY SetsAssumption DEF TypeOK, LockDiscipline, Active
      <3>2. QED BY <1>1, <3>1 DEF ReceiveReply
    <2>2. QED BY <1>1, <2>1, <1>b DEF ReceiveReply
  <1>2. CASE DestroyLocks(c)
    BY <1>2, <1>b DEF DestroyLocks, lockVars
  <1>3. CASE ReceiveTest(c) \/ ReceiveClose(c) \/ ReceiveBroken(c) \/ ReceiveFails(c)
    BY <1>3, <1>a DEF ReceiveTest, ReceiveClose, ReceiveBroken, ReceiveFails
  <1>4. CASE \/ LockListSize(c) \/ CloseWithError(c) \/ Closing(c) \/ CloseSocket(c)
             \/ CloseByManager(c)
    BY <1>4, <1>a DEF LockListSize, CloseWithError, Closing, CloseSocket, CloseByManager
  <1>5. CASE Server(c)
    BY <1>5, <1>a DEF Server, ServerExecute, ServerReaddress, ServerReply, ServerClose,
                      NetworkBreak
  <1>6. QED BY <1>1, <1>2, <1>3, <1>4, <1>5 DEF Receive, Close

LEMMA InitInv == Init => LockInv
  <1> SUFFICES ASSUME Init PROVE LockInv
    OBVIOUS
  <1>1. TypeOK BY InitType
  <1>2. Connected /\ Uncreated BY DEF Init, Connected, Uncreated
  <1>3. LockDiscipline BY DEF Init, LockDiscipline, Holds
  <1>4. QED BY <1>1, <1>2, <1>3 DEF LockInv

LEMMA NextInv == LockInv /\ [Next]_vars => LockInv'
  <1> SUFFICES ASSUME LockInv, [Next]_vars PROVE LockInv'
    OBVIOUS
  <1>1. ASSUME NEW k \in Calls, CallStep(k) PROVE LockInv'
    <2>1. TypeOK' BY <1>1, CallTypes
    <2>2. (Connected /\ Uncreated /\ LockDiscipline)'
      BY <1>1, Activate, Deactivate, CallQuiet
    <2>3. QED BY <2>1, <2>2 DEF LockInv
  <1>2. ASSUME NEW c \in Conns,
               Receive(c) \/ Close(c) \/ CloseByManager(c) \/ Server(c)
        PROVE  LockInv'
    BY <1>2, ConnTypes, ConnQuiet DEF LockInv
  <1>3. CASE UNCHANGED vars
    BY <1>3 DEF LockInv, TypeOK, Connected, Uncreated, LockDiscipline, Holds, vars, callVars,
                connVars, lockVars, peerVars
  <1>4. QED BY <1>1, <1>2, <1>3 DEF Next

LEMMA Invariance == Spec => []LockInv
  <1>1. QED BY InitInv, NextInv, PTL DEF Spec

\* The types hold for any number of invocations, connections and locks: in
\* particular the ids that generateId() gives out never leave CORBA::ULong.
THEOREM TypeCorrect == Spec => []TypeOK
  <1>1. LockInv => TypeOK BY DEF LockInv
  <1>2. QED BY <1>1, Invariance, PTL

\* For any number of invocations, connections and locks, with timeouts,
\* broken and closed connections and ids that wrap around: a Lock is never
\* both in the LockPool and in a LockList, never has two users and never
\* carries a message back to the pool (activate_lock, put_reply,
\* deactivate_lock, destroy).
THEOREM LocksAreExclusive == Spec => []LockDiscipline
  <1>1. LockInv => LockDiscipline BY DEF LockInv
  <1>2. QED BY <1>1, Invariance, PTL

=============================================================================
