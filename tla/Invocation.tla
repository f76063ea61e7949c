----------------------------- MODULE Invocation -----------------------------
(***************************************************************************)
(* The client side of an invocation over IIOP: the recovery loop of         *)
(* IIOPCommLayer, the Connection that writes the request, the LockList in   *)
(* which the invoking thread waits for the reply, the LockPool all          *)
(* connections of an ORB share, the receiving thread of the connection and  *)
(* the four ways a connection is closed.  The other side is a TIDorb server *)
(* connection, of which only what the client can notice is modelled.        *)
(*                                                                          *)
(* All invocations go to one listen point; getClientConnection is one step  *)
(* here (module ConnectionCache opens it up).  A section under one monitor  *)
(* is one action.  Closing a connection is done by the thread that moved    *)
(* the state away from OPEN, step by step (closeStep).                      *)
(***************************************************************************)
EXTENDS Integers, FiniteSets, Sequences

CONSTANTS
  Requests,       \* invocations with a response: Connection::send_request
  Locates,        \* locate requests: Connection::send_locate_request
  Oneways,        \* reliable oneways: Connection::send_oneway_request_sync
  Conns,          \* the Connection objects that may be created
  Locks,          \* the Lock objects that may be created
  NULL,           \* no connection, no lock, no message
  MaxRecover,     \* max_comm_recovering_times
  Timed,          \* the calls whose wait for a reply has a time limit (max_blocked_time, or a policy)
  ManagerCloses,  \* may the client's ConnectionManager close a connection
  NetworkBreaks,  \* may the network break
  Readdresses,    \* may the server answer NEEDS_ADDRESSING_MODE
  ULong           \* number of values of CORBA::ULong, 2^32 in the code

Calls == Requests \cup Locates \cup Oneways

ASSUME SetsAssumption ==
  /\ NULL \notin Calls /\ NULL \notin Conns /\ NULL \notin Locks
  /\ Requests \cap Locates = {} /\ Requests \cap Oneways = {} /\ Locates \cap Oneways = {}

ASSUME ParamAssumption ==
  /\ MaxRecover \in Nat
  /\ Timed \subseteq Calls
  /\ {ManagerCloses, NetworkBreaks, Readdresses} \subseteq BOOLEAN
  /\ ULong \in Nat /\ ULong > 2

Ids == 0..(ULong - 1)

\* A GIOP request and the reply to it.  full: sent with the whole IOR as the
\* address, because the server asked for it.
Messages == [id : Ids, call : Calls, full : BOOLEAN]

\* What the receiving thread can read
Incoming == [type : {"reply", "addressing"}, msg : Messages]
            \cup [type : {"CloseConnection", "broken"}]

ASSUME NullAssumption == NULL \notin Incoming

VARIABLES
  pc,        \* where each invoking thread is
  conn,      \* the connection it uses
  id,        \* its request id
  lock,      \* its Lock
  full,      \* addressing disposition of its request
  recover,   \* recover_count
  got,       \* the reply it consumed
  completed, \* what is_completed() returned
  cached,    \* client_connections[listen_point]
  cstate,    \* ConnectionState of each connection; "none" if not created
  closeStep, \* what the thread that closes the connection does next
  addresses, \* does the connection still know its listen point
  sock,      \* is the client's socket open
  destroyed, \* LockList::destroyed of each connection
  idCount,   \* id_count of each connection
  recv,      \* the receiving thread of each connection
  lconn,     \* the LockList each lock is active in
  lid,       \* ... under this request id
  lstate,    \* OperationCompletion::m_state of each lock
  lmsg,      \* the message of each lock
  pooled,    \* the locks in the LockPool
  created,   \* the locks that exist
  sOpen,     \* is the server's end open
  sent,      \* requests on their way to the server
  inPOA,     \* requests the server executes
  toClient,  \* what the server sent back
  executed,  \* how often each call was executed
  overtaken  \* calls whose request crossed the end of its connection or of its wait

callVars == <<pc, conn, id, lock, full, recover, got, completed>>
connVars == <<cached, cstate, closeStep, addresses, sock, destroyed, idCount, recv>>
lockVars == <<lconn, lid, lstate, lmsg, pooled, created>>
peerVars == <<sOpen, sent, inPOA, toClient, executed, overtaken>>
vars == <<callVars, connVars, lockVars, peerVars>>

Outcomes == {"reply", "COMM_FAILURE", "NO_RESPONSE", "MARSHAL", "INTERNAL", "lost"}

Locations ==
  { "connect",  \* about to ask for a connection
    "verify",   \* about to call verify_request
    "activate", \* about to call activate_lock
    "send",     \* about to write the request
    "closing",  \* the write failed, the thread closes the connection
    "wait",     \* about to call wait_for_completion
    "waiting",  \* in wait(timeout)
    "woken",    \* wait_for_completion is over
    "release",  \* about to call deactivate_lock
    "finish",   \* about to look at the reply or at the state
    "recover" } \* RECOVERABLE_COMM_FAILURE caught
  \cup Outcomes

TypeOK ==
  /\ pc \in [Calls -> Locations]
  /\ conn \in [Calls -> Conns \cup {NULL}]
  /\ id \in [Calls -> Ids]
  /\ lock \in [Calls -> Locks \cup {NULL}]
  /\ full \in [Calls -> BOOLEAN]
  /\ recover \in [Calls -> Int]
  /\ got \in [Calls -> Incoming \cup {NULL}]
  /\ completed \in [Calls -> BOOLEAN]
  /\ cached \in Conns \cup {NULL}
  /\ cstate \in [Conns -> {"none", "OPEN", "CLOSING", "ERROR"}]
  /\ closeStep \in [Conns -> {"no", "uncache", "size", "error", "socket", "locks", "done"}]
  /\ addresses \in [Conns -> BOOLEAN]
  /\ sock \in [Conns -> BOOLEAN]
  /\ destroyed \in [Conns -> BOOLEAN]
  /\ idCount \in [Conns -> Ids]
  /\ recv \in [Conns -> {"none", "test", "read", "end"}]
  /\ lconn \in [Locks -> Conns \cup {NULL}]
  /\ lid \in [Locks -> Ids]
  /\ lstate \in [Locks -> {"INITIAL", "WAITING", "COMPLETED"}]
  /\ lmsg \in [Locks -> Incoming \cup {NULL}]
  /\ pooled \subseteq Locks
  /\ created \subseteq Locks
  /\ sOpen \in [Conns -> BOOLEAN]
  /\ sent \in [Conns -> SUBSET Messages]
  /\ inPOA \in [Conns -> SUBSET Messages]
  /\ toClient \in [Conns -> Seq(Incoming)]
  /\ executed \in [Calls -> Nat]
  /\ overtaken \subseteq Calls

Init ==
  /\ pc = [k \in Calls |-> "connect"]
  /\ conn = [k \in Calls |-> NULL]
  /\ id = [k \in Calls |-> 0]
  /\ lock = [k \in Calls |-> NULL]
  /\ full = [k \in Calls |-> FALSE]
  /\ recover = [k \in Calls |-> MaxRecover]
  /\ got = [k \in Calls |-> NULL]
  /\ completed = [k \in Calls |-> FALSE]
  /\ cached = NULL
  /\ cstate = [c \in Conns |-> "none"]
  /\ closeStep = [c \in Conns |-> "no"]
  /\ addresses = [c \in Conns |-> FALSE]
  /\ sock = [c \in Conns |-> FALSE]
  /\ destroyed = [c \in Conns |-> FALSE]
  /\ idCount = [c \in Conns |-> 0]
  /\ recv = [c \in Conns |-> "none"]
  /\ lconn = [l \in Locks |-> NULL]
  /\ lid = [l \in Locks |-> 0]
  /\ lstate = [l \in Locks |-> "INITIAL"]
  /\ lmsg = [l \in Locks |-> NULL]
  /\ pooled = {}
  /\ created = {}
  /\ sOpen = [c \in Conns |-> FALSE]
  /\ sent = [c \in Conns |-> {}]
  /\ inPOA = [c \in Conns |-> {}]
  /\ toClient = [c \in Conns |-> <<>>]
  /\ executed = [k \in Calls |-> 0]
  /\ overtaken = {}

Goto(k, where) == pc' = [pc EXCEPT ![k] = where]

-----------------------------------------------------------------------------
(* The invoking thread: IIOPCommLayer::send_request, object_exists and      *)
(* reliable_oneway_run, Connection::send_request and its siblings           *)

\* getClientConnection finds a connection
ReuseConnection(k) ==
  /\ pc[k] = "connect"
  /\ cached # NULL
  /\ conn' = [conn EXCEPT ![k] = cached]
  /\ Goto(k, "verify")
  /\ UNCHANGED <<id, lock, full, recover, got, completed, connVars, lockVars, peerVars>>

\* getClientConnection opens one and starts its receiving thread
OpenConnection(k, c) ==
  /\ pc[k] = "connect"
  /\ cached = NULL
  /\ cstate[c] = "none"
  /\ cached' = c
  /\ cstate' = [cstate EXCEPT ![c] = "OPEN"]
  /\ addresses' = [addresses EXCEPT ![c] = TRUE]
  /\ sock' = [sock EXCEPT ![c] = TRUE]
  /\ recv' = [recv EXCEPT ![c] = "test"]
  /\ sOpen' = [sOpen EXCEPT ![c] = TRUE]
  /\ conn' = [conn EXCEPT ![k] = c]
  /\ Goto(k, "verify")
  /\ UNCHANGED <<id, lock, full, recover, got, completed, closeStep, destroyed,
                 idCount, lockVars, sent, inPOA, toClient, executed, overtaken>>

\* getClientConnection cannot open one, or the opener it waits for could not:
\* COMM_FAILURE or TRANSIENT, which the recovery loop passes on
ConnectFails(k) ==
  /\ NetworkBreaks
  /\ pc[k] = "connect"
  /\ cached = NULL
  /\ Goto(k, "COMM_FAILURE")
  /\ UNCHANGED <<conn, id, lock, full, recover, got, completed, connVars,
                 lockVars, peerVars>>

VerifyRequest(k) ==
  /\ pc[k] = "verify"
  /\ Goto(k, IF cstate[conn[k]] = "OPEN" THEN "activate" ELSE "recover")
  /\ UNCHANGED <<conn, id, lock, full, recover, got, completed, connVars,
                 lockVars, peerVars>>

\* Mutant: the counter does not wrap
PostInc_NoWrap(n) == LET m == n + 1
              IN  IF m = ULong - 1 THEN m + 1 ELSE m

\* Counter::post_inc, which leaves out RESERVED
PostInc(n) == LET m == (n + 1) % ULong
              IN  IF m = ULong - 1 THEN (m + 1) % ULong ELSE m

Active(c) == {l \in Locks : lconn[l] = c}

\* Mutant: the state of a lock from the pool is not reset
ActivateLock_NotRecycled(k) ==
  LET c == conn[k]
      i == IF k \in Oneways THEN 0 ELSE idCount[c]
  IN
  /\ pc[k] = "activate"
  /\ idCount' = IF k \in Oneways THEN idCount
                ELSE [idCount EXCEPT ![c] = PostInc(@)]
  /\ id' = [id EXCEPT ![k] = i]
  /\ \/ /\ destroyed[c]
        /\ Goto(k, "COMM_FAILURE")
        /\ UNCHANGED <<lock, lockVars>>
     \/ /\ ~destroyed[c]
        /\ \E l \in Active(c) : lid[l] = i
        /\ Goto(k, "INTERNAL")
        /\ UNCHANGED <<lock, lockVars>>
     \/ /\ ~destroyed[c]
        /\ \A l \in Active(c) : lid[l] # i
        /\ \E l \in (IF pooled = {} THEN Locks \ created ELSE pooled) :
             /\ lock' = [lock EXCEPT ![k] = l]
             /\ lconn' = [lconn EXCEPT ![l] = c]
             /\ lid' = [lid EXCEPT ![l] = i]
             /\ pooled' = pooled \ {l}
             /\ created' = created \cup {l}
        /\ UNCHANGED <<lmsg, lstate>>
        /\ Goto(k, "send")
  /\ UNCHANGED <<conn, full, recover, got, completed, cached, cstate,
                 closeStep, addresses, sock, destroyed, recv, peerVars>>

\* LockList::activate_lock: the next id of the connection, but for a oneway
\* the id the request was created with, 0
ActivateLock(k) ==
  LET c == conn[k]
      i == IF k \in Oneways THEN 0 ELSE idCount[c]
  IN
  /\ pc[k] = "activate"
  /\ idCount' = IF k \in Oneways THEN idCount
                ELSE [idCount EXCEPT ![c] = PostInc(@)]
  /\ id' = [id EXCEPT ![k] = i]
  /\ \/ /\ destroyed[c]
        /\ Goto(k, "COMM_FAILURE")
        /\ UNCHANGED <<lock, lockVars>>
     \/ /\ ~destroyed[c]
        /\ \E l \in Active(c) : lid[l] = i
        /\ Goto(k, "INTERNAL")
        /\ UNCHANGED <<lock, lockVars>>
     \/ /\ ~destroyed[c]
        /\ \A l \in Active(c) : lid[l] # i
        /\ \E l \in (IF pooled = {} THEN Locks \ created ELSE pooled) :
             /\ lock' = [lock EXCEPT ![k] = l]
             /\ lconn' = [lconn EXCEPT ![l] = c]
             /\ lid' = [lid EXCEPT ![l] = i]
             /\ lstate' = [lstate EXCEPT ![l] = "INITIAL"]
             /\ pooled' = pooled \ {l}
             /\ created' = created \cup {l}
        /\ UNCHANGED lmsg
        /\ Goto(k, "send")
  /\ UNCHANGED <<conn, full, recover, got, completed, cached, cstate,
                 closeStep, addresses, sock, destroyed, recv, peerVars>>

\* the write succeeds; it may still be in vain if the server's end is closed.
\* verify_request, activate_lock and the write are steps of their own: the
\* connection may be CLOSING by now, and its lock list already counted.
SendMessage(k) ==
  LET c == conn[k]
      m == [id |-> id[k], call |-> k, full |-> full[k]]
  IN
  /\ pc[k] = "send"
  /\ sock[c]
  /\ sent' = IF sOpen[c] THEN [sent EXCEPT ![c] = @ \cup {m}] ELSE sent
  /\ overtaken' = IF cstate[c] = "CLOSING" THEN overtaken \cup {k} ELSE overtaken
  /\ Goto(k, "wait")
  /\ UNCHANGED <<conn, id, lock, full, recover, got, completed, connVars,
                 lockVars, sOpen, inPOA, toClient, executed>>

\* ConnectionState::set_error: the state of c and whether the caller closes it
SetError(c) ==
  /\ cstate' = [cstate EXCEPT ![c] = "ERROR"]
  /\ closeStep' = IF cstate[c] = "OPEN" THEN [closeStep EXCEPT ![c] = "uncache"]
                  ELSE closeStep

\* a COMM_FAILURE while sending is made recoverable by send_request and
\* send_oneway_request_sync, not by send_locate_request
AfterFailure(k) == IF k \in Locates THEN "COMM_FAILURE" ELSE "recover"

\* the write fails: close_by_broken_connection, then COMM_FAILURE
SendFails(k) ==
  LET c == conn[k] IN
  /\ pc[k] = "send"
  /\ ~sock[c] \/ ~sOpen[c]
  /\ SetError(c)
  /\ Goto(k, IF cstate[c] = "OPEN" THEN "closing" ELSE AfterFailure(k))
  /\ UNCHANGED <<conn, id, lock, full, recover, got, completed, cached,
                 addresses, sock, destroyed, idCount, recv, lockVars, peerVars>>

SendFailed(k) ==
  /\ pc[k] = "closing"
  /\ closeStep[conn[k]] = "done"
  /\ Goto(k, AfterFailure(k))
  /\ UNCHANGED <<conn, id, lock, full, recover, got, completed, connVars,
                 lockVars, peerVars>>

\* OperationCompletion::wait_for_completion
WaitForCompletion(k) ==
  LET l == lock[k] IN
  /\ pc[k] = "wait"
  /\ IF lstate[l] = "INITIAL"
       THEN /\ lstate' = [lstate EXCEPT ![l] = "WAITING"]
            /\ Goto(k, "waiting")
       ELSE Goto(k, "woken") /\ UNCHANGED lstate
  /\ UNCHANGED <<conn, id, lock, full, recover, got, completed, connVars,
                 lconn, lid, lmsg, pooled, created, peerVars>>

\* Mutant: the test for the timed wait is inverted
TimeOut_Inverted(k) ==
  /\ k \notin Timed
  /\ pc[k] = "waiting"
  /\ overtaken' = overtaken \cup {k}
  /\ Goto(k, "woken")
  /\ UNCHANGED <<conn, id, lock, full, recover, got, completed, connVars, lockVars,
                 sOpen, sent, inPOA, toClient, executed>>

TimeOut(k) ==
  /\ k \in Timed
  /\ pc[k] = "waiting"
  /\ overtaken' = overtaken \cup {k}
  /\ Goto(k, "woken")
  /\ UNCHANGED <<conn, id, lock, full, recover, got, completed, connVars, lockVars,
                 sOpen, sent, inPOA, toClient, executed>>

\* is_completed and, if so, consume_reply
IsCompleted(k) ==
  LET l == lock[k] IN
  /\ pc[k] = "woken"
  /\ completed' = [completed EXCEPT ![k] = lstate[l] = "COMPLETED"]
  /\ IF lstate[l] = "COMPLETED"
       THEN /\ got' = [got EXCEPT ![k] = lmsg[l]]
            /\ lmsg' = [lmsg EXCEPT ![l] = NULL]
       ELSE UNCHANGED <<got, lmsg>>
  /\ Goto(k, "release")
  /\ UNCHANGED <<conn, id, lock, full, recover, connVars, lconn, lid, lstate,
                 pooled, created, peerVars>>

\* Mutant: the lock goes to the pool and stays in the list
DeactivateLock_StaysActive(k) ==
  LET l == lock[k] IN
  /\ pc[k] = "release"
  /\ lmsg' = [lmsg EXCEPT ![l] = NULL]
  /\ pooled' = pooled \cup {l}
  /\ lock' = [lock EXCEPT ![k] = NULL]
  /\ Goto(k, "finish")
  /\ UNCHANGED <<conn, id, full, recover, got, completed, connVars, lconn, lid,
                 lstate, created, peerVars>>

\* LockList::deactivate_lock and LockPool::put_lock
DeactivateLock(k) ==
  LET l == lock[k] IN
  /\ pc[k] = "release"
  /\ lconn' = [lconn EXCEPT ![l] = NULL]
  /\ lid' = [lid EXCEPT ![l] = 0]
  /\ lmsg' = [lmsg EXCEPT ![l] = NULL]
  /\ pooled' = pooled \cup {l}
  /\ lock' = [lock EXCEPT ![k] = NULL]
  /\ Goto(k, "finish")
  /\ UNCHANGED <<conn, id, full, recover, got, completed, connVars,
                 lstate, created, peerVars>>

\* a reply was there: the result, or a new request with the other addressing;
\* a LocateReply is no answer to a request, nor a Reply to a locate request
FinishReply(k) ==
  LET m == got[k]
      again == /\ m # NULL
               /\ m.msg.call \in Locates <=> k \in Locates
               /\ m.type = "addressing"
  IN
  /\ pc[k] = "finish"
  /\ completed[k]
  /\ got' = [got EXCEPT ![k] = IF again THEN NULL ELSE m]
  /\ full' = [full EXCEPT ![k] = again]
  /\ Goto(k, IF m = NULL THEN "INTERNAL"
              ELSE IF (m.msg.call \in Locates) # (k \in Locates) THEN "MARSHAL"
              ELSE IF again THEN "verify" ELSE "reply")
  /\ UNCHANGED <<conn, id, lock, recover, completed, connVars, lockVars, peerVars>>

\* Mutant: an invocation in a broken connection is sent again
FinishNoReply_RetryError(k) ==
  /\ pc[k] = "finish"
  /\ ~completed[k]
  /\ Goto(k, IF k \in Oneways THEN "lost"
              ELSE IF cstate[conn[k]] = "CLOSING" THEN "recover"
              ELSE IF cstate[conn[k]] = "ERROR" THEN "recover"
              ELSE "NO_RESPONSE")
  /\ UNCHANGED <<conn, id, lock, full, recover, got, completed, connVars,
                 lockVars, peerVars>>

\* no reply: the state of the connection decides
FinishNoReply(k) ==
  /\ pc[k] = "finish"
  /\ ~completed[k]
  /\ Goto(k, IF k \in Oneways THEN "lost"
              ELSE IF cstate[conn[k]] = "CLOSING" THEN "recover"
              ELSE IF cstate[conn[k]] = "ERROR" THEN "COMM_FAILURE"
              ELSE "NO_RESPONSE")
  /\ UNCHANGED <<conn, id, lock, full, recover, got, completed, connVars,
                 lockVars, peerVars>>

\* the recovery loop: give up or sleep and start again
Recover(k) ==
  /\ pc[k] = "recover"
  /\ recover' = [recover EXCEPT ![k] = @ - 1]
  /\ IF recover[k] - 1 <= 0
       THEN Goto(k, "COMM_FAILURE") /\ UNCHANGED <<conn, lock, full>>
       ELSE /\ Goto(k, "connect")
            /\ conn' = [conn EXCEPT ![k] = NULL]
            /\ lock' = [lock EXCEPT ![k] = NULL]
            /\ full' = [full EXCEPT ![k] = FALSE]
  /\ UNCHANGED <<id, got, completed, connVars, lockVars, peerVars>>

-----------------------------------------------------------------------------
(* The receiving thread: Connection::receive_message                        *)

\* head of the loop
ReceiveTest(c) ==
  /\ recv[c] = "test"
  /\ recv' = [recv EXCEPT ![c] = IF cstate[c] = "OPEN" THEN "read" ELSE "end"]
  /\ UNCHANGED <<callVars, cached, cstate, closeStep, addresses, sock, destroyed,
                 idCount, lockVars, peerVars>>

CanRead(c, types) ==
  /\ recv[c] = "read"
  /\ sock[c]
  /\ toClient[c] # <<>>
  /\ Head(toClient[c]).type \in types
  /\ toClient' = [toClient EXCEPT ![c] = Tail(@)]

\* threads in wait() on a lock of S wake up
Notify(S) ==
  pc' = [k \in Calls |-> IF pc[k] = "waiting" /\ lock[k] \in S THEN "woken" ELSE pc[k]]

\* Mutant: the request id of the reply is not looked at
ReceiveReply_AnyLock(c) ==
  LET m == Head(toClient[c])
      found == Active(c)
  IN
  /\ CanRead(c, {"reply", "addressing"})
  /\ lmsg' = [l \in Locks |-> IF l \in found THEN m ELSE lmsg[l]]
  /\ lstate' = [l \in Locks |-> IF l \in found THEN "COMPLETED" ELSE lstate[l]]
  /\ Notify({l \in found : lstate[l] = "WAITING"})
  /\ recv' = [recv EXCEPT ![c] = "test"]
  /\ UNCHANGED <<conn, id, lock, full, recover, got, completed, cached, cstate,
                 closeStep, addresses, sock, destroyed, idCount, lconn, lid, pooled,
                 created, sOpen, sent, inPOA, executed, overtaken>>

\* a reply, handed to the lock that is active under its id, if there is one
ReceiveReply(c) ==
  LET m == Head(toClient[c])
      found == {l \in Active(c) : lid[l] = m.msg.id}
  IN
  /\ CanRead(c, {"reply", "addressing"})
  /\ lmsg' = [l \in Locks |-> IF l \in found THEN m ELSE lmsg[l]]
  /\ lstate' = [l \in Locks |-> IF l \in found THEN "COMPLETED" ELSE lstate[l]]
  /\ Notify({l \in found : lstate[l] = "WAITING"})
  /\ recv' = [recv EXCEPT ![c] = "test"]
  /\ UNCHANGED <<conn, id, lock, full, recover, got, completed, cached, cstate,
                 closeStep, addresses, sock, destroyed, idCount, lconn, lid, pooled,
                 created, sOpen, sent, inPOA, executed, overtaken>>

\* CloseConnection: close_by_pair
ReceiveClose(c) ==
  /\ CanRead(c, {"CloseConnection"})
  /\ IF cstate[c] = "OPEN"
       THEN /\ cstate' = [cstate EXCEPT ![c] = "CLOSING"]
            /\ closeStep' = [closeStep EXCEPT ![c] = "uncache"]
       ELSE UNCHANGED <<cstate, closeStep>>
  /\ recv' = [recv EXCEPT ![c] = "end"]
  /\ UNCHANGED <<callVars, cached, addresses, sock, destroyed, idCount, lockVars, sOpen,
                 sent, inPOA, executed, overtaken>>

\* end of file: close_by_error
ReceiveBroken(c) ==
  /\ CanRead(c, {"broken"})
  /\ SetError(c)
  /\ recv' = [recv EXCEPT ![c] = "end"]
  /\ UNCHANGED <<callVars, cached, addresses, sock, destroyed, idCount, lockVars, sOpen,
                 sent, inPOA, executed, overtaken>>

\* somebody closed the socket under the receiving thread
ReceiveFails(c) ==
  /\ recv[c] = "read"
  /\ ~sock[c]
  /\ SetError(c)
  /\ recv' = [recv EXCEPT ![c] = "end"]
  /\ UNCHANGED <<callVars, cached, addresses, sock, destroyed, idCount, lockVars, peerVars>>

-----------------------------------------------------------------------------
(* Closing a connection                                                     *)

\* the listen points of the connection leave client_connections
Uncached(c) == IF addresses[c] THEN NULL ELSE cached

\* ConnectionManager::close_connection and Connection::close_by_manager
CloseByManager(c) ==
  /\ ManagerCloses
  /\ cached = c
  /\ cached' = Uncached(c)
  /\ IF cstate[c] = "OPEN"
       THEN /\ cstate' = [cstate EXCEPT ![c] = "CLOSING"]
            /\ closeStep' = [closeStep EXCEPT ![c] = "size"]
       ELSE UNCHANGED <<cstate, closeStep>>
  /\ UNCHANGED <<callVars, addresses, sock, destroyed, idCount, recv, lockVars, peerVars>>

\* ... if requests wait for their reply the connection is in error
LockListSize(c) ==
  /\ closeStep[c] = "size"
  /\ closeStep' = [closeStep EXCEPT ![c] = IF Active(c) = {} THEN "socket" ELSE "error"]
  /\ UNCHANGED <<callVars, cached, cstate, addresses, sock, destroyed, idCount, recv,
                 lockVars, peerVars>>

CloseWithError(c) ==
  /\ closeStep[c] = "error"
  /\ cstate' = [cstate EXCEPT ![c] = "ERROR"]
  /\ closeStep' = [closeStep EXCEPT ![c] = "socket"]
  /\ UNCHANGED <<callVars, cached, addresses, sock, destroyed, idCount, recv, lockVars,
                 peerVars>>

\* ConnectionManager::closing
Closing(c) ==
  /\ closeStep[c] = "uncache"
  /\ cached' = Uncached(c)
  /\ closeStep' = [closeStep EXCEPT ![c] = "socket"]
  /\ UNCHANGED <<callVars, cstate, addresses, sock, destroyed, idCount, recv, lockVars,
                 peerVars>>

\* TCPConnection::close; what was not read yet is lost
CloseSocket(c) ==
  /\ closeStep[c] = "socket"
  /\ sock' = [sock EXCEPT ![c] = FALSE]
  /\ toClient' = [toClient EXCEPT ![c] = <<>>]
  /\ closeStep' = [closeStep EXCEPT ![c] = "locks"]
  /\ UNCHANGED <<callVars, cached, cstate, addresses, destroyed, idCount, recv, lockVars,
                 sOpen, sent, inPOA, executed, overtaken>>

\* LockList::destroy, which notifies and does not wait, and addresses.clear()
DestroyLocks(c) ==
  /\ closeStep[c] = "locks"
  /\ destroyed' = [destroyed EXCEPT ![c] = TRUE]
  /\ Notify(Active(c))
  /\ addresses' = [addresses EXCEPT ![c] = FALSE]
  /\ closeStep' = [closeStep EXCEPT ![c] = "done"]
  /\ UNCHANGED <<conn, id, lock, full, recover, got, completed, cached, cstate,
                 sock, idCount, recv, lockVars, peerVars>>

-----------------------------------------------------------------------------
(* The server's end.  Once the client has closed its socket the server may  *)
(* still execute what it has received, but nothing else it does is noticed. *)

\* something reaches the client
Put(c, m) == toClient' = IF sock[c] THEN [toClient EXCEPT ![c] = Append(@, m)] ELSE toClient

\* The ExecThread has seen the connection open and executes the request.  Before
\* that a request is still in sent, whether the server has read it, counted it in
\* requests_in_POA and queued it or not: if the connection is closed first, the
\* ExecThread discards it.  A network that breaks is noticed later, so that the
\* requests read by then are executed.
ServerExecute(c, m) ==
  /\ m \in sent[c]
  /\ sent' = [sent EXCEPT ![c] = @ \ {m}]
  /\ inPOA' = [inPOA EXCEPT ![c] = @ \cup {m}]
  /\ executed' = [executed EXCEPT ![m.call] = @ + 1]
  /\ UNCHANGED <<callVars, connVars, lockVars, sOpen, toClient, overtaken>>

\* a request that is not addressed as the server wants it is not executed
ServerReaddress(c, m) ==
  /\ Readdresses
  /\ sOpen[c]
  /\ m \in sent[c]
  /\ ~m.full
  /\ sent' = [sent EXCEPT ![c] = @ \ {m}]
  /\ Put(c, [type |-> "addressing", msg |-> m])
  /\ UNCHANGED <<callVars, connVars, lockVars, sOpen, inPOA, executed, overtaken>>

\* Connection::send_reply of the server: verify_reply finds the connection open
\* and the reply is written.  Its request was taken off requests_in_POA before.
ServerReply(c, m) ==
  /\ sOpen[c]
  /\ m \in inPOA[c]
  /\ inPOA' = [inPOA EXCEPT ![c] = @ \ {m}]
  /\ Put(c, [type |-> "reply", msg |-> m])
  /\ UNCHANGED <<callVars, connVars, lockVars, sOpen, sent, executed, overtaken>>

\* close_by_manager of the server: CloseConnection, then the socket.  Before an
\* eviction has_pending_requests looks at requests_in_POA, but its answer may be
\* any: the constructor does not set the counter, readers and ExecThreads change
\* it without a lock, it goes up after the request is read and down before the
\* reply is verified and written; ConnectionManager::destroy does not ask at all.
\* The replies of requests in execution are refused from now on.
ServerClose(c) ==
  /\ sOpen[c] /\ sock[c]
  /\ sOpen' = [sOpen EXCEPT ![c] = FALSE]
  /\ sent' = [sent EXCEPT ![c] = {}]
  /\ overtaken' = overtaken \cup {m.call : m \in inPOA[c]}
  /\ Put(c, [type |-> "CloseConnection"])
  /\ UNCHANGED <<callVars, connVars, lockVars, inPOA, executed>>

\* the server's machine or the network fails: replies under way are lost, and
\* the requests the server has not read
NetworkBreak(c) ==
  /\ NetworkBreaks
  /\ sOpen[c] /\ sock[c]
  /\ sOpen' = [sOpen EXCEPT ![c] = FALSE]
  /\ \E read \in SUBSET sent[c] : sent' = [sent EXCEPT ![c] = read]
  /\ toClient' = [toClient EXCEPT ![c] = <<[type |-> "broken"]>>]
  /\ UNCHANGED <<callVars, connVars, lockVars, inPOA, executed, overtaken>>

-----------------------------------------------------------------------------
CallStep(k) ==
  \/ ReuseConnection(k) \/ (\E c \in Conns : OpenConnection(k, c)) \/ ConnectFails(k)
  \/ VerifyRequest(k) \/ ActivateLock(k)
  \/ SendMessage(k) \/ SendFails(k) \/ SendFailed(k)
  \/ WaitForCompletion(k) \/ TimeOut(k)
  \/ IsCompleted(k) \/ DeactivateLock(k)
  \/ FinishReply(k) \/ FinishNoReply(k) \/ Recover(k)

Receive(c) ==
  \/ ReceiveTest(c) \/ ReceiveReply(c) \/ ReceiveClose(c) \/ ReceiveBroken(c)
  \/ ReceiveFails(c)

Close(c) ==
  \/ LockListSize(c) \/ CloseWithError(c) \/ Closing(c) \/ CloseSocket(c)
  \/ DestroyLocks(c)

Server(c) ==
  \/ \E m \in sent[c] : ServerExecute(c, m) \/ ServerReaddress(c, m)
  \/ \E m \in inPOA[c] : ServerReply(c, m)
  \/ ServerClose(c) \/ NetworkBreak(c)

Next ==
  \/ \E k \in Calls : CallStep(k)
  \/ \E c \in Conns : Receive(c) \/ Close(c) \/ CloseByManager(c) \/ Server(c)

Spec == Init /\ [][Next]_vars

\* The client's threads keep running and timed waits end.  Nothing is assumed
\* of the server, the network or the ConnectionManager.
Fairness ==
  /\ \A k \in Calls : WF_vars(CallStep(k))
  /\ \A c \in Conns : WF_vars(Receive(c)) /\ WF_vars(Close(c))

FairSpec == Spec /\ Fairness

-----------------------------------------------------------------------------
(* Properties                                                               *)

Ended(k) == pc[k] \in Outcomes

\* A thread that takes a reply out of its lock takes the reply to the request
\* it sent last, although locks go round through the shared LockPool and a
\* reply may come after the timeout.
ReplyIsMine ==
  \A k \in Calls : got[k] # NULL => got[k].msg.call = k /\ got[k].msg.id = id[k]

\* The thread has a lock of its own from activate_lock to deactivate_lock
Holds(k) == pc[k] \in {"send", "closing", "wait", "waiting", "woken", "release"}

\* A lock is used by one thread at a time: it is in the LockPool, without a
\* message, or active in one LockList under one id, never both; two threads
\* never hold the same lock; the lock a thread holds is active in the
\* LockList of its connection under its id.
LockDiscipline ==
  /\ \A l \in pooled : lconn[l] = NULL /\ lmsg[l] = NULL
  /\ \A l, m \in Locks :
       lconn[l] # NULL /\ lconn[l] = lconn[m] /\ lid[l] = lid[m] => l = m
  /\ \A k \in Calls :
       Holds(k) => /\ lock[k] \in Locks
                   /\ lconn[lock[k]] = conn[k] /\ lid[lock[k]] = id[k]
  /\ \A j, k \in Calls : Holds(j) /\ Holds(k) /\ lock[j] = lock[k] => j = k

\* is_completed() is true only with a reply to hand over: no invocation ends
\* in INTERNAL("No Reply message") or INTERNAL("Cannot activate twice ..."), nor
\* in MARSHAL because of the reply to another request.
NoInternalError == \A k \in Calls : pc[k] \notin {"INTERNAL", "MARSHAL"}

\* The recovery loop sends a request again, and yet it is executed at most once:
\* whoever finds its connection in CLOSING has read all replies, and a connection
\* in ERROR ends the invocation.  Not promised to a request that crossed the end:
\* its wait timed out, the server closed the connection while it executed it, or
\* it was written when the connection was already being closed.
AtMostOnce == \A k \in Calls \ overtaken : executed[k] <= 1

\* Every invocation with a time limit ends, whatever the server, the network and
\* the other invocations do.
EveryCallEnds == \A k \in Timed : <>Ended(k)

=============================================================================
