-------------------------- MODULE ConnectionCache --------------------------
(***************************************************************************)
(* ConnectionManager: the connections a client reuses.  Threads ask for a   *)
(* connection with a listen point (getClientConnection); one of them opens  *)
(* it while the others wait on its OpeningLock; connections are closed by   *)
(* their receiving thread, by the manager when the UseTable is full, and by *)
(* destroy().                                                               *)
(*                                                                          *)
(* A section under the monitor of the ConnectionManager is one action.  The *)
(* order in which the UseTable ages its entries is abstracted: Victims      *)
(* gives every set of connections removeOldObjects() may return.            *)
(***************************************************************************)
EXTENDS Integers, FiniteSets

CONSTANTS
  Threads,        \* the invoking threads
  Points,         \* listen points
  Conns,          \* the Connection objects that may be created
  OpeningLocks,   \* the OpeningLock objects that may be created
  NULL,
  MaxConnections, \* max_connections
  ConnectTimeout, \* socket_connect_timeout; 0 waits for ever
  SslPoints,      \* the listen points of getSSLClientConnection
  Garbage,        \* what an uninitialised requests_invoked may hold
  ULong,          \* number of values of unsigned long
  MaxCalls        \* bound: calls per thread

ASSUME SetsAssumption == NULL \notin Threads \cup Points \cup Conns \cup OpeningLocks

ASSUME ParamAssumption ==
  /\ MaxConnections \in Nat /\ ConnectTimeout \in Nat /\ MaxCalls \in Nat
  /\ SslPoints \subseteq Points
  /\ ULong \in Nat \ {0} /\ Garbage \subseteq 0..(ULong - 1)

VARIABLES
  pc,        \* where each thread is
  point,     \* the listen point it asked for
  conn,      \* the connection it opens or uses
  olock,     \* its opening_lock
  calls,     \* how often it called getClientConnection
  reg,       \* requests_invoked as the thread has loaded it
  cached,    \* client_connections, or ssl_client_connections
  opening,   \* connections_opening
  table,     \* the connections in the UseTable
  destroyed, \* ConnectionManager::destroyed
  ostatus,   \* OpeningLock::status
  oconn,     \* OpeningLock::opened_connection
  cstate,    \* how far the connection is closed
  addresses, \* the listen points of the connection
  invoked,   \* requests_invoked
  \* what has gone wrong so far, for the properties only
  abandoned,  \* locks whose opener left without unlocking them
  disturbed,  \* listen points whose opening was erased under way, or whose
              \* connection the manager threw out while it was closing
  early,      \* connections that were through closing() before registered
  miscounted  \* connections whose count began as garbage or lost an update

threadVars == <<pc, point, conn, olock, calls, reg>>
managerVars == <<cached, opening, table, destroyed, disturbed>>
olockVars == <<ostatus, oconn, abandoned>>
countVars == <<invoked, miscounted>>
connVars == <<cstate, addresses, early, countVars>>
vars == <<threadVars, managerVars, olockVars, connVars>>

Locations ==
  { "idle",
    "open",      \* in open_client_connection, without the monitor
    "failed",    \* which raised COMM_FAILURE
    "register",  \* has a connection, about to check it in
    "wait",      \* in wait_opening
    "erase",     \* wait_opening raised COMM_FAILURE
    "raw",       \* getClientConnection returned a plain pointer
    "got",       \* ... of which a Connection_ref is made
    "inc",       \* has sent its request, in requests_invoked++
    "invoked",   \* waits for a reply
    "dec" }      \* in requests_invoked--

TypeOK ==
  /\ pc \in [Threads -> Locations]
  /\ point \in [Threads -> Points \cup {NULL}]
  /\ conn \in [Threads -> Conns \cup {NULL}]
  /\ olock \in [Threads -> OpeningLocks \cup {NULL}]
  /\ calls \in [Threads -> 0..MaxCalls]
  /\ reg \in [Threads -> 0..(ULong - 1)]
  /\ cached \in [Points -> Conns \cup {NULL}]
  /\ opening \in [Points -> OpeningLocks \cup {NULL}]
  /\ table \subseteq Conns
  /\ destroyed \in BOOLEAN
  /\ ostatus \in [OpeningLocks -> {"none", "OPENING", "OPENED", "ERROR"}]
  /\ oconn \in [OpeningLocks -> Conns \cup {NULL}]
  /\ cstate \in [Conns -> {"none", "OPEN", "CLOSING", "CLOSE", "CLOSED"}]
  /\ addresses \in [Conns -> SUBSET Points]
  /\ invoked \in [Conns -> 0..(ULong - 1)]
  /\ abandoned \subseteq OpeningLocks /\ disturbed \subseteq Points
  /\ early \subseteq Conns /\ miscounted \subseteq Conns

Init ==
  /\ pc = [t \in Threads |-> "idle"]
  /\ point = [t \in Threads |-> NULL]
  /\ conn = [t \in Threads |-> NULL]
  /\ olock = [t \in Threads |-> NULL]
  /\ calls = [t \in Threads |-> 0]
  /\ reg = [t \in Threads |-> 0]
  /\ cached = [p \in Points |-> NULL]
  /\ opening = [p \in Points |-> NULL]
  /\ table = {}
  /\ destroyed = FALSE
  /\ ostatus = [l \in OpeningLocks |-> "none"]
  /\ oconn = [l \in OpeningLocks |-> NULL]
  /\ cstate = [c \in Conns |-> "none"]
  /\ addresses = [c \in Conns |-> {}]
  /\ invoked \in [Conns -> Garbage]
  /\ abandoned = {} /\ disturbed = {} /\ early = {}
  /\ miscounted = {c \in Conns : invoked[c] # 0}

Goto(t, where) == pc' = [pc EXCEPT ![t] = where]

\* the call is over: its locals are gone
Return(t) ==
  /\ Goto(t, "idle")
  /\ point' = [point EXCEPT ![t] = NULL]
  /\ conn' = [conn EXCEPT ![t] = NULL]
  /\ olock' = [olock EXCEPT ![t] = NULL]

-----------------------------------------------------------------------------
(* getClientConnection, first section                                       *)

Call(t, p) ==
  /\ pc[t] = "idle"
  /\ calls[t] < MaxCalls
  /\ calls' = [calls EXCEPT ![t] = @ + 1]
  /\ point' = [point EXCEPT ![t] = p]

\* the manager is destroyed: TRANSIENT
CallDestroyed(t) ==
  /\ destroyed
  /\ pc[t] = "idle"
  /\ calls[t] < MaxCalls
  /\ calls' = [calls EXCEPT ![t] = @ + 1]
  /\ UNCHANGED <<reg, pc, point, conn, olock, managerVars, olockVars, connVars>>

CallFound(t, p) ==
  /\ Call(t, p)
  /\ ~destroyed
  /\ cached[p] # NULL
  /\ conn' = [conn EXCEPT ![t] = cached[p]]
  /\ Goto(t, "raw")
  /\ UNCHANGED <<reg, olock, managerVars, olockVars, connVars>>

CallOpens(t, p, l) ==
  /\ Call(t, p)
  /\ ~destroyed
  /\ cached[p] = NULL
  /\ opening[p] = NULL
  /\ ostatus[l] = "none"
  /\ ostatus' = [ostatus EXCEPT ![l] = "OPENING"]
  /\ opening' = [opening EXCEPT ![p] = l]
  /\ olock' = [olock EXCEPT ![t] = l]
  /\ Goto(t, "open")
  /\ UNCHANGED <<reg, conn, cached, table, destroyed, disturbed, oconn, abandoned, connVars>>

CallWaits(t, p) ==
  /\ Call(t, p)
  /\ ~destroyed
  /\ cached[p] = NULL
  /\ opening[p] # NULL
  /\ olock' = [olock EXCEPT ![t] = opening[p]]
  /\ Goto(t, "wait")
  /\ UNCHANGED <<reg, conn, managerVars, olockVars, connVars>>

-----------------------------------------------------------------------------
(* The thread that opens                                                    *)

\* TCPConnection::client_connection: the receiving thread runs from here on
OpenSucceeds(t, c) ==
  /\ pc[t] = "open"
  /\ cstate[c] = "none"
  /\ cstate' = [cstate EXCEPT ![c] = "OPEN"]
  /\ addresses' = [addresses EXCEPT ![c] = {point[t]}]
  /\ conn' = [conn EXCEPT ![t] = c]
  /\ Goto(t, "register")
  /\ UNCHANGED <<reg, point, olock, calls, managerVars, olockVars, early, countVars>>

OpenFails(t) ==
  /\ pc[t] = "open"
  /\ Goto(t, "failed")
  /\ UNCHANGED <<reg, point, conn, olock, calls, managerVars, olockVars, connVars>>

\* Mutant: the OpeningLock is not told
OpenFailed_Silent(t) ==
  /\ pc[t] = "failed"
  /\ ostatus' = ostatus
  /\ opening' = [opening EXCEPT ![point[t]] = NULL]
  /\ Return(t)
  /\ UNCHANGED <<reg, calls, cached, table, destroyed, disturbed, oconn, abandoned, connVars>>

\* ... and the section in which it is caught
OpenFailed(t) ==
  /\ pc[t] = "failed"
  /\ ostatus' = [ostatus EXCEPT ![olock[t]] = "ERROR"]
  /\ opening' = [opening EXCEPT ![point[t]] = NULL]
  /\ Return(t)
  /\ UNCHANGED <<reg, calls, cached, table, destroyed, disturbed, oconn, abandoned, connVars>>

\* TRANSIENT for an unknown host or a refused connection is not caught
OpenThrows(t) ==
  /\ pc[t] = "open"
  /\ abandoned' = abandoned \cup {olock[t]}
  /\ Return(t)
  /\ UNCHANGED <<reg, calls, managerVars, ostatus, oconn, connVars>>

\* Mutant: pending requests are not looked at
CanBeRemoved_Always(c) == c \in Conns

CanBeRemoved(c) == invoked[c] = 0

\* the sets of connections UseTable::removeOldObjects may return
Victims ==
  IF 10 * Cardinality(table) > 8 * MaxConnections
    THEN {V \in SUBSET {c \in table : CanBeRemoved(c)} :
            \/ 10 * Cardinality(table \ V) < 8 * MaxConnections
            \/ \A c \in table \ V : ~CanBeRemoved(c)}
    ELSE {{}}

\* remove_listen_points of the connections in S: whatever is registered under
\* their listen points goes, but nothing of ssl_client_connections does
Uncached(S) ==
  [p \in Points |->
     IF p \in (UNION {addresses[c] : c \in S}) \ SslPoints THEN NULL ELSE cached[p]]

\* close_connection of the connections in S; one that is being closed already
\* is left to whoever closes it
CloseConnections(S) ==
  /\ cstate' = [c \in Conns |-> IF c \in S /\ cstate[c] = "OPEN" THEN "CLOSED" ELSE cstate[c]]
  /\ addresses' = [c \in Conns |-> IF c \in S /\ cstate[c] = "OPEN" THEN {} ELSE addresses[c]]

\* The listen points of the connections in S whose own close is still to come:
\* it will take away what is registered there by then
StillClosing(S) == UNION {addresses[c] : c \in {d \in S : cstate[d] = "CLOSING"}}

\* Mutant: the new connection is not put into client_connections
Register_NotCached(t, V) ==
  LET c == conn[t] IN
  /\ pc[t] = "register"
  /\ V \in Victims
  /\ Cardinality(table \ V) # MaxConnections
  /\ table' = (table \ V) \cup {c}
  /\ cached' = Uncached(V)
  /\ CloseConnections(V)
  /\ ostatus' = [ostatus EXCEPT ![olock[t]] = "OPENED"]
  /\ oconn' = [oconn EXCEPT ![olock[t]] = c]
  /\ opening' = [opening EXCEPT ![point[t]] = NULL]
  /\ disturbed' = disturbed \cup StillClosing(V)
  /\ Goto(t, "raw")
  /\ UNCHANGED <<reg, point, conn, olock, calls, destroyed, abandoned, early, countVars>>

\* the second section: new_connection, client_connections and set_opened
Register(t, V) ==
  LET c == conn[t] IN
  /\ pc[t] = "register"
  /\ V \in Victims
  /\ Cardinality(table \ V) # MaxConnections
  /\ table' = (table \ V) \cup {c}
  /\ cached' = [Uncached(V) EXCEPT ![point[t]] = c]
  /\ CloseConnections(V)
  /\ ostatus' = [ostatus EXCEPT ![olock[t]] = "OPENED"]
  /\ oconn' = [oconn EXCEPT ![olock[t]] = c]
  /\ opening' = [opening EXCEPT ![point[t]] = NULL]
  /\ disturbed' = disturbed \cup StillClosing(V)
  /\ Goto(t, "raw")
  /\ UNCHANGED <<reg, point, conn, olock, calls, destroyed, abandoned, early, countVars>>

\* no room: the new connection is closed and TRANSIENT raised
RegisterFull(t) ==
  LET c == conn[t] IN
  /\ pc[t] = "register"
  /\ {} \in Victims
  /\ Cardinality(table) = MaxConnections
  /\ CloseConnections({c})
  /\ abandoned' = abandoned \cup {olock[t]}
  /\ disturbed' = disturbed \cup StillClosing({c})
  /\ Return(t)
  /\ UNCHANGED <<reg, calls, cached, opening, table, destroyed, ostatus, oconn, early, countVars>>

-----------------------------------------------------------------------------
(* The threads that wait: OpeningLock::wait_opening                         *)

WaitOpened(t) ==
  /\ pc[t] = "wait"
  /\ ostatus[olock[t]] = "OPENED"
  /\ conn' = [conn EXCEPT ![t] = oconn[olock[t]]]
  /\ Goto(t, "raw")
  /\ UNCHANGED <<reg, point, olock, calls, managerVars, olockVars, connVars>>

\* Mutant: the timeout is not used
WaitFails_NoTimeout(t) ==
  /\ pc[t] = "wait"
  /\ \/ ostatus[olock[t]] = "ERROR"
     \/ ostatus[olock[t]] = "OPENING" /\ ConnectTimeout = 0
  /\ Goto(t, "erase")
  /\ UNCHANGED <<reg, point, conn, olock, calls, managerVars, olockVars, connVars>>

\* the error of the opener, or the timeout
WaitFails(t) ==
  /\ pc[t] = "wait"
  /\ \/ ostatus[olock[t]] = "ERROR"
     \/ ostatus[olock[t]] = "OPENING" /\ ConnectTimeout # 0
  /\ Goto(t, "erase")
  /\ UNCHANGED <<reg, point, conn, olock, calls, managerVars, olockVars, connVars>>

\* ... caught in a section of its own; TRANSIENT
EraseOpening(t) ==
  /\ pc[t] = "erase"
  /\ opening' = [opening EXCEPT ![point[t]] = NULL]
  /\ disturbed' = IF opening[point[t]] \in abandoned \cup {NULL} THEN disturbed
                  ELSE disturbed \cup {point[t]}
  /\ Return(t)
  /\ UNCHANGED <<reg, calls, cached, table, destroyed, olockVars, connVars>>

-----------------------------------------------------------------------------
(* The connection in use                                                    *)

\* IIOPCommLayer: conn = connection_manager->getClientConnection(...)
TakeReference(t) ==
  /\ pc[t] = "raw"
  /\ Goto(t, "got")
  /\ UNCHANGED <<reg, point, conn, olock, calls, managerVars, olockVars, connVars>>

\* Connection::send_request up to the load of requests_invoked++
SendRequest(t) ==
  /\ pc[t] = "got"
  /\ cstate[conn[t]] = "OPEN"
  /\ reg' = [reg EXCEPT ![t] = invoked[conn[t]]]
  /\ Goto(t, "inc")
  /\ UNCHANGED <<point, conn, olock, calls, managerVars, olockVars, connVars>>

\* The store of an update: it loses those that came after its load
Store(t, n) ==
  /\ invoked' = [invoked EXCEPT ![conn[t]] = n]
  /\ miscounted' = IF reg[t] = invoked[conn[t]] THEN miscounted
                   ELSE miscounted \cup {conn[t]}

\* ... its store, then wait_for_completion
CountRequest(t) ==
  /\ pc[t] = "inc"
  /\ Store(t, (reg[t] + 1) % ULong)
  /\ reg' = [reg EXCEPT ![t] = 0]
  /\ Goto(t, "invoked")
  /\ UNCHANGED <<point, conn, olock, calls, managerVars, olockVars, cstate, addresses, early>>

\* Mutant: requests_invoked-- also when the request was not sent
SendRefused_Decrements(t) ==
  /\ pc[t] = "got"
  /\ cstate[conn[t]] # "OPEN"
  /\ invoked' = [invoked EXCEPT ![conn[t]] = @ - 1]
  /\ Return(t)
  /\ UNCHANGED <<reg, calls, managerVars, olockVars, cstate, addresses, early, miscounted>>

\* ... or a RECOVERABLE_COMM_FAILURE; the next call is the retry
SendRefused(t) ==
  /\ pc[t] = "got"
  /\ cstate[conn[t]] # "OPEN"
  /\ Return(t)
  /\ UNCHANGED <<reg, calls, managerVars, olockVars, connVars>>

\* the wait is over: the load of requests_invoked--
WaitEnds(t) ==
  /\ pc[t] = "invoked"
  /\ reg' = [reg EXCEPT ![t] = invoked[conn[t]]]
  /\ Goto(t, "dec")
  /\ UNCHANGED <<point, conn, olock, calls, managerVars, olockVars, connVars>>

\* ... and its store
RequestEnds(t) ==
  /\ pc[t] = "dec"
  /\ Store(t, (reg[t] + ULong - 1) % ULong)
  /\ reg' = [reg EXCEPT ![t] = 0]
  /\ Return(t)
  /\ UNCHANGED <<calls, managerVars, olockVars, cstate, addresses, early>>

-----------------------------------------------------------------------------
(* Closing                                                                  *)

\* No thread is about to register the connection
Registered(c) == \A t \in Threads : pc[t] = "register" => conn[t] # c

\* close_by_pair or close_by_error moves the state away from OPEN
CloseBegins(c) ==
  /\ cstate[c] = "OPEN"
  /\ cstate' = [cstate EXCEPT ![c] = "CLOSING"]
  /\ UNCHANGED <<threadVars, managerVars, olockVars, addresses, early, countVars>>

\* Mutant: remove_listen_points is not called
Closing_KeepsPoints(c) ==
  /\ cstate[c] = "CLOSING"
  /\ cstate' = [cstate EXCEPT ![c] = "CLOSE"]
  /\ IF destroyed THEN UNCHANGED <<cached, table>>
     ELSE cached' = cached /\ table' = table \ {c}
  /\ early' = IF Registered(c) THEN early ELSE early \cup {c}
  /\ UNCHANGED <<threadVars, opening, destroyed, disturbed, olockVars, addresses, countVars>>

\* ConnectionManager::closing
Closing(c) ==
  /\ cstate[c] = "CLOSING"
  /\ cstate' = [cstate EXCEPT ![c] = "CLOSE"]
  /\ IF destroyed THEN UNCHANGED <<cached, table>>
     ELSE cached' = Uncached({c}) /\ table' = table \ {c}
  /\ early' = IF Registered(c) THEN early ELSE early \cup {c}
  /\ UNCHANGED <<threadVars, opening, destroyed, disturbed, olockVars, addresses, countVars>>

\* TCPConnection::close
CloseEnds(c) ==
  /\ cstate[c] = "CLOSE"
  /\ cstate' = [cstate EXCEPT ![c] = "CLOSED"]
  /\ addresses' = [addresses EXCEPT ![c] = {}]
  /\ UNCHANGED <<threadVars, managerVars, olockVars, early, countVars>>

\* ConnectionManager::destroy
Destroy ==
  /\ ~destroyed
  /\ destroyed' = TRUE
  /\ table' = {}
  /\ cached' = Uncached(table)
  /\ CloseConnections(table)
  /\ UNCHANGED <<threadVars, opening, disturbed, olockVars, early, countVars>>

-----------------------------------------------------------------------------
ThreadStep(t) ==
  \/ CallDestroyed(t)
  \/ \E p \in Points : CallFound(t, p) \/ CallWaits(t, p)
  \/ \E p \in Points, l \in OpeningLocks : CallOpens(t, p, l)
  \/ (\E c \in Conns : OpenSucceeds(t, c)) \/ OpenFails(t) \/ OpenFailed(t) \/ OpenThrows(t)
  \/ (\E V \in SUBSET table : Register(t, V)) \/ RegisterFull(t)
  \/ WaitOpened(t) \/ WaitFails(t) \/ EraseOpening(t)
  \/ TakeReference(t) \/ SendRequest(t) \/ CountRequest(t) \/ SendRefused(t)
  \/ WaitEnds(t) \/ RequestEnds(t)

CloseStep(c) == CloseBegins(c) \/ Closing(c) \/ CloseEnds(c)

Next ==
  \/ \E t \in Threads : ThreadStep(t)
  \/ \E c \in Conns : CloseStep(c)
  \/ Destroy

Spec == Init /\ [][Next]_vars

\* Threads run on; opening a socket and waiting for a reply end some time.
Fairness == \A t \in Threads : WF_vars(ThreadStep(t))

FairSpec == Spec /\ Fairness

-----------------------------------------------------------------------------
(* Properties                                                               *)

\* A connection that is closed for good is not in client_connections, where
\* every later invocation would find it again, unless it was closed before it
\* was registered.  Nothing takes a connection out of ssl_client_connections,
\* nor out of a destroyed manager.
CacheIsFresh ==
  ~destroyed => \A p \in Points \ SslPoints :
    cached[p] # NULL /\ cached[p] \notin early => cstate[cached[p]] # "CLOSED"

\* A registered open connection is found under its listen point, so that there
\* are no two open connections with one listen point, unless a waiter erased an
\* opening that was under way or an old connection was evicted while it closed.
Findable ==
  \A c \in table : cstate[c] = "OPEN" =>
    \A p \in addresses[c] \ disturbed : cached[p] = c

HasOpener(l) == \E t \in Threads : pc[t] \in {"open", "failed", "register"} /\ olock[t] = l

\* An OpeningLock that callers find in connections_opening, or on which one of
\* them still waits, has its opener at work, whoever erased which listen point
\* in between; only TRANSIENT leaves one behind.
OpenerUnlocks ==
  /\ \A p \in Points : opening[p] \notin abandoned \cup {NULL} => HasOpener(opening[p])
  /\ \A t \in Threads :
       pc[t] = "wait" /\ ostatus[olock[t]] = "OPENING" /\ olock[t] \notin abandoned =>
         HasOpener(olock[t])

\* The manager does not close a connection in which a thread waits for its
\* reply, unless the ORB is destroyed or its count of requests is wrong: it
\* began as garbage or lost an update.
EvictionSparesPending ==
  [][\A c \in Conns \ miscounted :
       /\ cstate[c] = "OPEN" /\ cstate'[c] = "CLOSED"
       /\ destroyed' = destroyed
       => \A t \in Threads : pc[t] = "invoked" => conn[t] # c]_vars

\* Every call of getClientConnection returns.
EveryCallReturns ==
  \A t \in Threads : pc[t] \in {"open", "failed", "register", "wait", "erase"}
                       ~> pc[t] \in {"idle", "raw"}

=============================================================================
