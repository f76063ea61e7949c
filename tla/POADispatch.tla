---------------------------- MODULE POADispatch ----------------------------
(***************************************************************************)
(* How one POAManager dispatches requests: the bounded RequestQueue, the    *)
(* ThreadPool that decides when a reader thread is created and when it may  *)
(* die, the loop of every ExecThread, and the four states of the manager.   *)
(*                                                                          *)
(* A section protected by one monitor is one action.  Three sections that   *)
(* others can see half-done are split:                                      *)
(*   - RequestQueue::add reads the thread counters without the lock of the  *)
(*     pool before it asks the pool for a reader: PutAccept and PutNotify,  *)
(*     with the monitor of the queue held in between (adding);              *)
(*   - POAManagerImpl::deactivate switches the pool, the queue and the      *)
(*     state off one after the other, holding stateMutex (deactStep);       *)
(*   - the counters _active and _actuallyUsed are updated without a lock    *)
(*     by setActive and setInactive: each update is a load and a store, so  *)
(*     that concurrent updates can be lost.                                 *)
(* The order in which get() serves the queue does not matter here and is    *)
(* left open.                                                               *)
(***************************************************************************)
EXTENDS Integers, FiniteSets, Sequences

CONSTANTS
  Requests,          \* the requests clients may send
  Threads,           \* identities of the ExecThreads that may exist at once
  NULL,              \* no request, no thread
  MinThreads,        \* initial poa_min_threads
  MaxThreads,        \* initial poa_max_threads
  MaxQueuedRequests, \* poa_max_queued_requests
  StarvingTime,      \* poa_starving_time; 0 waits for ever
  StartMayFail,      \* may Thread::start fail
  MinThreadsChoices, \* arguments of set_min_threads
  MaxThreadsChoices, \* arguments of set_max_threads
  Comparators,       \* arguments of setComparator
  ULong              \* number of values of CORBA::ULong, 2^32 in the code

ASSUME SetAssumption ==
  /\ NULL \notin Requests
  /\ NULL \notin Threads
  /\ IsFiniteSet(Threads)

ASSUME ConfAssumption ==
  /\ ULong \in Nat \ {0}
  /\ MinThreads \in 0..(ULong - 1)
  /\ MaxThreads \in 1..(ULong - 1)
  /\ MaxQueuedRequests \in Nat
  /\ StarvingTime \in Nat
  /\ StartMayFail \in BOOLEAN
  /\ MinThreadsChoices \subseteq 0..(ULong - 1)
  /\ MaxThreadsChoices \subseteq 0..(ULong - 1)

VARIABLES
  mstate,       \* _state of the POAManager
  deactStep,    \* how far the deactivate() that holds stateMutex has got
  queue,        \* the requests in the RequestQueue
  comparator,   \* _comparator_type
  queueOff,     \* RequestQueue::_deactivation
  adding,       \* the request whose add() holds the queue, or NULL
  used,         \* _used
  actuallyUsed, \* _actuallyUsed
  active,       \* _active
  poolOff,      \* ThreadPool::_deactivated
  minThreads,   \* _minThreads
  maxThreads,   \* _maxThreads
  pool,         \* the list _pool; NULL stands for a thread that never started
  poolLock,     \* the thread that holds the mutex of the pool, or NULL
  pc,           \* where each ExecThread is
  req,          \* thisRequest of each ExecThread
  firstTime,    \* _firstTime of each ExecThread
  regA,         \* value of _active each thread has loaded and not stored yet
  regU,         \* the same for _actuallyUsed
  fresh,        \* requests that were not sent yet
  done,         \* how often each request was answered (or finished, if oneway)
  bypassed,     \* requests handed over to another POAManager
  dropped       \* requests discardAll() took out of the queue

mgrVars   == <<mstate, deactStep>>
queueVars == <<queue, comparator, queueOff, adding>>
countVars == <<actuallyUsed, active>>
poolVars  == <<used, poolOff, minThreads, maxThreads, pool, poolLock>>
regVars   == <<regA, regU>>
thrVars   == <<pc, req, firstTime, regVars>>
fateVars  == <<fresh, done, bypassed, dropped>>
vars == <<mgrVars, queueVars, countVars, poolVars, thrVars, fateVars>>

States == {"HOLDING", "ACTIVE", "DISCARDING", "INACTIVE"}

Locations ==
  { "none",    \* no such thread
    "loop",    \* head of the loop of run()
    "dec",     \* in setInactive, counter loaded
    "get",     \* about to call get()
    "wait",    \* waiting in get()
    "woken",   \* notified or timed out in get(), monitor not yet reacquired
    "got",     \* get() returned, setActive not called yet
    "inc",     \* in setActive, counters loaded
    "branch",  \* after setActive
    "check",   \* in checkState, about to look at the state
    "hold",    \* waiting for a change of state in checkState
    "exec",    \* executing the request
    "die",     \* out of the loop
    "dying" }  \* in threadHasDied, counters loaded

\* _maxAvailableRequests, computed once by the constructor of RequestQueue
maxAvailableRequests == (MaxQueuedRequests + MaxThreads) % ULong

\* The values and the unsigned arithmetic of CORBA::ULong
ULongs      == 0..(ULong - 1)
Plus(x, n)  == (x + n) % ULong
\* (mutant) signed arithmetic
Minus_Signed(x, n) == x - n
Minus(x, n) == (x - n) % ULong

Live == {t \in Threads : pc[t] # "none"}
Free == {t \in Threads : pc[t] = "none"}

\* list::remove for a value that occurs at most once
Without(s, x) ==
  IF \E i \in 1..Len(s) : s[i] = x
    THEN LET i == CHOOSE i \in 1..Len(s) : s[i] = x
         IN  SubSeq(s, 1, i - 1) \o SubSeq(s, i + 1, Len(s))
    ELSE s

TypeOK ==
  /\ mstate \in States
  /\ deactStep \in {"no", "pool", "queue"}
  /\ queue \subseteq Requests
  /\ comparator \in Comparators
  /\ queueOff \in BOOLEAN
  /\ adding \in Requests \cup {NULL}
  /\ used \in ULongs
  /\ actuallyUsed \in ULongs
  /\ active \in ULongs
  /\ poolOff \in BOOLEAN
  /\ minThreads \in ULongs
  /\ maxThreads \in ULongs
  /\ pool \in Seq(Threads \cup {NULL})
  /\ poolLock \in Threads \cup {NULL}
  /\ pc \in [Threads -> Locations]
  /\ req \in [Threads -> Requests \cup {NULL}]
  /\ firstTime \in [Threads -> BOOLEAN]
  /\ regA \in [Threads -> ULongs]
  /\ regU \in [Threads -> ULongs]
  /\ fresh \subseteq Requests
  /\ done \in [Requests -> Nat]
  /\ bypassed \subseteq Requests
  /\ dropped \subseteq Requests

\* A thread holds a request from get() to the end of processRequest, at most
ReqMatchesPc ==
  \A t \in Threads :
    /\ pc[t] \in {"check", "hold", "exec"} => req[t] # NULL
    /\ pc[t] \in {"none", "loop", "dec", "get", "wait", "woken", "die", "dying"}
         => req[t] = NULL

-----------------------------------------------------------------------------
(* Construction: the manager is HOLDING and minThreadsHasChanged has        *)
(* started the minimum number of threads.                                   *)

Init ==
  /\ mstate = "HOLDING"
  /\ deactStep = "no"
  /\ queue = {}
  /\ comparator \in Comparators
  /\ queueOff = FALSE
  /\ adding = NULL
  /\ used = MinThreads
  /\ actuallyUsed = 0
  /\ active = 0
  /\ poolOff = FALSE
  /\ minThreads = MinThreads
  /\ maxThreads = MaxThreads
  /\ poolLock = NULL
  /\ pc \in [Threads -> {"none", "loop"}]
  /\ Cardinality(Live) = MinThreads
  /\ pool \in [1..MinThreads -> Live]
  /\ \A i, j \in 1..MinThreads : pool[i] = pool[j] => i = j
  /\ req = [t \in Threads |-> NULL]
  /\ firstTime = [t \in Threads |-> TRUE]
  /\ regA = [t \in Threads |-> 0]
  /\ regU = [t \in Threads |-> 0]
  /\ fresh = Requests
  /\ done = [r \in Requests |-> 0]
  /\ bypassed = {}
  /\ dropped = {}

-----------------------------------------------------------------------------
(* RequestQueue and ThreadPool, the side that puts requests in              *)

\* The request is answered, or finished if nobody waits for an answer
Finish(r) == done' = [done EXCEPT ![r] = @ + 1]

QueueFull == Cardinality(queue) >= Minus(maxAvailableRequests, active)

\* add() refuses: it returns TRANSIENT and destroys the request
PutReject(r) ==
  /\ adding = NULL
  /\ r \in fresh
  /\ queueOff \/ QueueFull
  /\ fresh' = fresh \ {r}
  /\ Finish(r)
  /\ UNCHANGED <<mgrVars, queueVars, countVars, poolVars, thrVars, bypassed, dropped>>

\* (mutant) add() does not look at _deactivation
PutAccept_WhenOff(r) ==
  /\ adding = NULL
  /\ r \in fresh
  /\ ~QueueFull
  /\ fresh' = fresh \ {r}
  /\ queue' = queue \cup {r}
  /\ adding' = r
  /\ UNCHANGED <<mgrVars, comparator, queueOff, countVars, poolVars, thrVars,
                 done, bypassed, dropped>>

\* add() pushes the request and goes on to ask for a reader
PutAccept(r) ==
  /\ adding = NULL
  /\ r \in fresh
  /\ ~queueOff
  /\ ~QueueFull
  /\ fresh' = fresh \ {r}
  /\ queue' = queue \cup {r}
  /\ adding' = r
  /\ UNCHANGED <<mgrVars, comparator, queueOff, countVars, poolVars, thrVars,
                 done, bypassed, dropped>>

\* the loaded counters of t are no longer used
Forget(t) == /\ regA' = [regA EXCEPT ![t] = 0]
             /\ regU' = [regU EXCEPT ![t] = 0]

\* (mutant) one thread too many
ReaderNeeded_OffByOne == used <= maxThreads /\ actuallyUsed = active

ReaderNeeded == used < maxThreads /\ actuallyUsed = active

\* createThread() starts a thread on a free identity
CreateThread(t) ==
  /\ pc[t] = "none"
  /\ pc' = [pc EXCEPT ![t] = "loop"]
  /\ req' = [req EXCEPT ![t] = NULL]
  /\ firstTime' = [firstTime EXCEPT ![t] = TRUE]
  /\ Forget(t)
  /\ pool' = Append(pool, t)
  /\ used' = Plus(used, 1)

\* createThread() catches the exception of a start() that fails: the thread
\* stays in _pool, _used is not incremented
CreateThreadFails ==
  /\ StartMayFail
  /\ pool' = Append(pool, NULL)
  /\ UNCHANGED <<used, thrVars>>

\* createNewReader() returned true: add() returns without notify()
PutCreate ==
  /\ adding # NULL
  /\ poolLock = NULL
  /\ ReaderNeeded
  /\ (\E t \in Threads : CreateThread(t)) \/ CreateThreadFails
  /\ adding' = NULL
  /\ UNCHANGED <<mgrVars, queue, comparator, queueOff, countVars, poolOff, minThreads,
                 maxThreads, poolLock, fateVars>>

\* (mutant) add() forgets the notify()
PutNotify_Silent ==
  /\ adding # NULL
  /\ poolLock = NULL
  /\ ~ReaderNeeded
  /\ adding' = NULL
  /\ UNCHANGED <<mgrVars, queue, comparator, queueOff, countVars, poolVars, thrVars,
                 fateVars>>

\* createNewReader() returned false: notify() wakes one waiting thread, if any
PutNotify ==
  /\ adding # NULL
  /\ poolLock = NULL
  /\ ~ReaderNeeded
  /\ IF \E t \in Threads : pc[t] = "wait"
       THEN \E t \in Threads :
              pc[t] = "wait" /\ pc' = [pc EXCEPT ![t] = "woken"]
       ELSE UNCHANGED pc
  /\ adding' = NULL
  /\ UNCHANGED <<mgrVars, queue, comparator, queueOff, countVars, poolVars, req,
                 firstTime, regVars, fateVars>>

\* setComparator() with another type: discardAll() marks the queued requests
\* and pops them, nothing else happens to them
SetComparator(c) ==
  /\ adding = NULL
  /\ c # comparator
  /\ comparator' = c
  /\ dropped' = dropped \cup queue
  /\ queue' = {}
  /\ UNCHANGED <<mgrVars, queueOff, adding, countVars, poolVars, thrVars,
                 fresh, done, bypassed>>

-----------------------------------------------------------------------------
(* POAManagerConf and the listeners in ThreadPool                           *)

\* set_min_threads: minThreadsHasChanged() starts the missing threads
SetMinThreads(n) ==
  /\ poolLock = NULL
  /\ n <= maxThreads
  /\ minThreads' = n
  /\ \E S \in SUBSET Free :
       /\ Cardinality(S) = (IF used < n THEN n - used ELSE 0)
       /\ pc' = [t \in Threads |-> IF t \in S THEN "loop" ELSE pc[t]]
       /\ req' = [t \in Threads |-> IF t \in S THEN NULL ELSE req[t]]
       /\ firstTime' = [t \in Threads |-> IF t \in S THEN TRUE ELSE firstTime[t]]
       /\ regA' = [t \in Threads |-> IF t \in S THEN 0 ELSE regA[t]]
       /\ regU' = [t \in Threads |-> IF t \in S THEN 0 ELSE regU[t]]
       /\ \E new \in [1..Cardinality(S) -> S] :
            /\ \A t \in S : \E i \in DOMAIN new : new[i] = t
            /\ pool' = pool \o new
  /\ used' = IF used < n THEN n ELSE used
  /\ UNCHANGED <<mgrVars, queueVars, countVars, poolOff, maxThreads, poolLock, fateVars>>

\* set_max_threads: maxThreadsHasChanged() calls threadHasDied for threads at
\* the front of _pool, which go on running
SetMaxThreads(n) ==
  /\ poolLock = NULL
  /\ n >= minThreads
  /\ maxThreads' = n
  /\ \E k \in 0..used :
       /\ k = IF used <= n THEN 0
              ELSE IF used - n <= Len(pool) THEN used - n
              ELSE Len(pool)
       /\ pool' = SubSeq(pool, k + 1, Len(pool))
       /\ used' = used - k
       /\ actuallyUsed' = Minus(actuallyUsed, k)
       /\ active' = Minus(active, k)
  /\ UNCHANGED <<mgrVars, queueVars, poolOff, minThreads, poolLock, thrVars, fateVars>>

-----------------------------------------------------------------------------
(* ExecThread::run                                                          *)

\* head of the loop; setInactive loads _active unless this is the first time
Loop(t) ==
  /\ pc[t] = "loop"
  /\ IF firstTime[t]
       THEN pc' = [pc EXCEPT ![t] = "get"] /\ UNCHANGED regVars
       ELSE /\ pc' = [pc EXCEPT ![t] = "dec"]
            /\ regA' = [regA EXCEPT ![t] = active] /\ UNCHANGED regU
  /\ UNCHANGED <<mgrVars, queueVars, countVars, poolVars, req, firstTime, fateVars>>

SetInactive(t) ==
  /\ pc[t] = "dec"
  /\ active' = Minus(regA[t], 1)
  /\ Forget(t)
  /\ pc' = [pc EXCEPT ![t] = "get"]
  /\ UNCHANGED <<mgrVars, queueVars, actuallyUsed, poolVars, req, firstTime, fateVars>>

\* (mutant) get() returns the front without popping it
GetRequest_NoPop(t) ==
  /\ pc[t] \in {"get", "woken"}
  /\ adding = NULL
  /\ \E r \in queue : req' = [req EXCEPT ![t] = r]
  /\ pc' = [pc EXCEPT ![t] = "got"]
  /\ UNCHANGED <<mgrVars, queueVars, countVars, poolVars, firstTime, regVars, fateVars>>

\* get() finds a request, on entry or after its wait
GetRequest(t) ==
  /\ pc[t] \in {"get", "woken"}
  /\ adding = NULL
  /\ \E r \in queue :
       /\ queue' = queue \ {r}
       /\ req' = [req EXCEPT ![t] = r]
  /\ pc' = [pc EXCEPT ![t] = "got"]
  /\ UNCHANGED <<mgrVars, comparator, queueOff, adding, countVars, poolVars, firstTime,
                 regVars, fateVars>>

\* get() finds the queue empty and returns NULL, at once if the queue is off
GetNull(t) ==
  /\ pc[t] = "woken" \/ (pc[t] = "get" /\ queueOff)
  /\ adding = NULL
  /\ queue = {}
  /\ pc' = [pc EXCEPT ![t] = "got"]
  /\ UNCHANGED <<mgrVars, queueVars, countVars, poolVars, req, firstTime, regVars, fateVars>>

GetWait(t) ==
  /\ pc[t] = "get"
  /\ adding = NULL
  /\ queue = {}
  /\ ~queueOff
  /\ pc' = [pc EXCEPT ![t] = "wait"]
  /\ UNCHANGED <<mgrVars, queueVars, countVars, poolVars, req, firstTime, regVars, fateVars>>

\* wait(_starving_time) ends without a notification
Starve(t) ==
  /\ StarvingTime # 0
  /\ pc[t] = "wait"
  /\ pc' = [pc EXCEPT ![t] = "woken"]
  /\ UNCHANGED <<mgrVars, queueVars, countVars, poolVars, req, firstTime, regVars, fateVars>>

\* setActive loads the counters, then stores them
SetActiveLoad(t) ==
  /\ pc[t] = "got"
  /\ regA' = [regA EXCEPT ![t] = active]
  /\ regU' = [regU EXCEPT ![t] = actuallyUsed]
  /\ pc' = [pc EXCEPT ![t] = "inc"]
  /\ UNCHANGED <<mgrVars, queueVars, countVars, poolVars, req, firstTime, fateVars>>

SetActive(t) ==
  /\ pc[t] = "inc"
  /\ active' = Plus(regA[t], 1)
  /\ actuallyUsed' = IF firstTime[t] THEN Plus(regU[t], 1) ELSE actuallyUsed
  /\ Forget(t)
  /\ pc' = [pc EXCEPT ![t] = "branch"]
  /\ UNCHANGED <<mgrVars, queueVars, poolVars, req, firstTime, fateVars>>

ProcessRequest(t) ==
  /\ pc[t] = "branch"
  /\ req[t] # NULL
  /\ pc' = [pc EXCEPT ![t] = "check"]
  /\ UNCHANGED <<mgrVars, queueVars, countVars, poolVars, req, firstTime, regVars, fateVars>>

\* no request: threadCanDie() decides between the end and another round
ThreadCanDie(t) ==
  /\ pc[t] = "branch"
  /\ req[t] = NULL
  /\ poolLock = NULL
  /\ pc' = [pc EXCEPT ![t] = IF poolOff \/ used > minThreads THEN "die" ELSE "loop"]
  /\ UNCHANGED <<mgrVars, queueVars, countVars, poolVars, req, firstTime, regVars, fateVars>>

\* threadHasDied takes the mutex of the pool, loads the counters ...
ThreadHasDiedLoad(t) ==
  /\ pc[t] = "die"
  /\ poolLock = NULL
  /\ poolLock' = t
  /\ regA' = [regA EXCEPT ![t] = active]
  /\ regU' = [regU EXCEPT ![t] = actuallyUsed]
  /\ pc' = [pc EXCEPT ![t] = "dying"]
  /\ UNCHANGED <<mgrVars, queueVars, countVars, used, poolOff, minThreads, maxThreads,
                 pool, req, firstTime, fateVars>>

\* ... stores them and lets the mutex go; the thread ends
ThreadHasDied(t) ==
  /\ pc[t] = "dying"
  /\ poolLock' = NULL
  /\ used' = Minus(used, 1)
  /\ actuallyUsed' = Minus(regU[t], 1)
  /\ active' = Minus(regA[t], 1)
  /\ pool' = Without(pool, t)
  /\ Forget(t)
  /\ pc' = [pc EXCEPT ![t] = "none"]
  /\ UNCHANGED <<mgrVars, queueVars, poolOff, minThreads, maxThreads, req, firstTime,
                 fateVars>>

-----------------------------------------------------------------------------
(* ExecThread::processRequest                                               *)

\* the thread is through with its request and goes back to the loop
Release(t) ==
  /\ req' = [req EXCEPT ![t] = NULL]
  /\ firstTime' = [firstTime EXCEPT ![t] = FALSE]
  /\ pc' = [pc EXCEPT ![t] = "loop"]

\* checkState, under stateMutex
CheckExecute(t) ==
  /\ pc[t] = "check"
  /\ deactStep = "no"
  /\ mstate = "ACTIVE"
  /\ pc' = [pc EXCEPT ![t] = "exec"]
  /\ UNCHANGED <<mgrVars, queueVars, countVars, poolVars, req, firstTime, regVars, fateVars>>

CheckHold(t) ==
  /\ pc[t] = "check"
  /\ deactStep = "no"
  /\ mstate = "HOLDING"
  /\ pc' = [pc EXCEPT ![t] = "hold"]
  /\ UNCHANGED <<mgrVars, queueVars, countVars, poolVars, req, firstTime, regVars, fateVars>>

CheckRefuse(t) ==
  /\ pc[t] = "check"
  /\ deactStep = "no"
  /\ mstate \in {"DISCARDING", "INACTIVE"}
  /\ Finish(req[t])
  /\ Release(t)
  /\ UNCHANGED <<mgrVars, queueVars, countVars, poolVars, regVars, fresh, bypassed, dropped>>

\* execute() ends with an answer, normal or not
Execute(t) ==
  /\ pc[t] = "exec"
  /\ Finish(req[t])
  /\ Release(t)
  /\ UNCHANGED <<mgrVars, queueVars, countVars, poolVars, regVars, fresh, bypassed, dropped>>

\* findPOA meets a POA of another manager and puts the request there
Bypass(t) ==
  /\ pc[t] = "exec"
  /\ bypassed' = bypassed \cup {req[t]}
  /\ Release(t)
  /\ UNCHANGED <<mgrVars, queueVars, countVars, poolVars, regVars, fresh, done, dropped>>

-----------------------------------------------------------------------------
(* POAManagerImpl, the state changes                                        *)

\* (mutant) a change of state without notifyAll()
ChangeState_NoNotify(s) ==
  /\ deactStep = "no"
  /\ mstate \notin {"INACTIVE", s}
  /\ mstate' = s
  /\ UNCHANGED <<deactStep, queueVars, countVars, poolVars, thrVars, fateVars>>

\* activate, hold_requests and discard_requests set another state and wake
\* the threads that wait for it
ChangeState(s) ==
  /\ deactStep = "no"
  /\ mstate \notin {"INACTIVE", s}
  /\ mstate' = s
  /\ pc' = [t \in Threads |-> IF pc[t] = "hold" THEN "check" ELSE pc[t]]
  /\ UNCHANGED <<deactStep, queueVars, countVars, poolVars, req, firstTime, regVars, fateVars>>

Activate        == ChangeState("ACTIVE")
HoldRequests    == ChangeState("HOLDING")
DiscardRequests == ChangeState("DISCARDING")

\* deactivate: first the pool, then the queue, then the state; nobody who
\* waits for a change of state is notified
DeactivatePool ==
  /\ deactStep = "no"
  /\ mstate # "INACTIVE"
  /\ poolLock = NULL
  /\ poolOff' = TRUE
  /\ deactStep' = "pool"
  /\ UNCHANGED <<mstate, queueVars, countVars, used, minThreads, maxThreads, pool,
                 poolLock, thrVars, fateVars>>

DeactivateQueue ==
  /\ deactStep = "pool"
  /\ adding = NULL
  /\ queueOff' = TRUE
  /\ pc' = [t \in Threads |-> IF pc[t] = "wait" THEN "woken" ELSE pc[t]]
  /\ deactStep' = "queue"
  /\ UNCHANGED <<mstate, queue, comparator, adding, countVars, poolVars, req,
                 firstTime, regVars, fateVars>>

DeactivateState ==
  /\ deactStep = "queue"
  /\ mstate' = "INACTIVE"
  /\ deactStep' = "no"
  /\ UNCHANGED <<queueVars, countVars, poolVars, thrVars, fateVars>>

-----------------------------------------------------------------------------
Put == PutCreate \/ PutNotify \/ \E r \in Requests : PutReject(r) \/ PutAccept(r)

ThreadStep(t) ==
  \/ Loop(t) \/ SetInactive(t)
  \/ GetRequest(t) \/ GetNull(t) \/ GetWait(t) \/ Starve(t)
  \/ SetActiveLoad(t) \/ SetActive(t)
  \/ ProcessRequest(t) \/ ThreadCanDie(t)
  \/ CheckExecute(t) \/ CheckHold(t) \/ CheckRefuse(t)
  \/ Execute(t) \/ Bypass(t)
  \/ ThreadHasDiedLoad(t) \/ ThreadHasDied(t)

Deactivate == DeactivatePool \/ DeactivateQueue \/ DeactivateState

Manager ==
  \/ Activate \/ HoldRequests \/ DiscardRequests \/ Deactivate
  \/ \E c \in Comparators : SetComparator(c)
  \/ \E n \in MinThreadsChoices : SetMinThreads(n)
  \/ \E n \in MaxThreadsChoices : SetMaxThreads(n)

Next == Put \/ Manager \/ \E t \in Threads : ThreadStep(t)

Spec == Init /\ [][Next]_vars

\* The threads of the process keep running, a timed wait ends, and a caller
\* inside add() or deactivate() goes on.  Nothing obliges a client to send or
\* an application to change the state.
Fairness ==
  /\ \A t \in Threads : WF_vars(ThreadStep(t))
  /\ WF_vars(PutCreate \/ PutNotify)
  /\ WF_vars(DeactivateQueue \/ DeactivateState)

FairSpec == Spec /\ Fairness

-----------------------------------------------------------------------------
(* Properties                                                               *)

Held(r) == {t \in Threads : req[t] = r}

\* A request that was sent is in exactly one place (queued, held by one
\* ExecThread, or out of the manager for one reason) and is answered at most
\* once, whatever the interleaving of add(), get(), setComparator() and the
\* threads: no request is executed twice or vanishes.
OnePlace ==
  \A r \in Requests :
    /\ r \in fresh => r \notin queue /\ Held(r) = {} /\ done[r] = 0
    /\ r \in queue => Held(r) = {} /\ done[r] = 0
    /\ \A t, u \in Held(r) : t = u
    /\ Held(r) # {} => done[r] = 0
    /\ r \in bypassed \cup dropped =>
         r \notin fresh \cup queue /\ Held(r) = {} /\ done[r] = 0
    /\ bypassed \cap dropped = {}
    /\ done[r] <= 1
    /\ r \in fresh \cup queue \cup bypassed \cup dropped \/ Held(r) # {} \/ done[r] = 1

\* The thread got no request and may be on its way out of the pool
Leaving(t) == \/ pc[t] \in {"got", "inc", "branch"} /\ req[t] = NULL
              \/ pc[t] \in {"die", "dying"}

\* Whenever requests are queued and no add() is in progress, some thread is
\* awake and will call get() again before it can end: no wakeup is lost
\* between add() (create a reader or notify one) and get() (wait).
NoStranded ==
  queue # {} /\ adding = NULL =>
    \E t \in Live : pc[t] # "wait" /\ ~Leaving(t)

\* Why NoStranded holds while threads only end by deactivation.  Until the
\* queue is off some thread is ready (a), and if the queue is empty not all
\* ready threads are in the middle of a wakeup that will find nothing (b);
\* a pool without threads never had one (c), so that add() creates one.
Ready == {t \in Live : ~Leaving(t)}

ReaderInv ==
  /\ ~queueOff =>
       /\ Live # {} => Ready # {}                                   \* (a)
       /\ Live # {} /\ queue = {} => \E t \in Ready : pc[t] # "woken" \* (b)
       /\ Live = {} => used = 0 /\ active = 0 /\ actuallyUsed = 0    \* (c)
  /\ adding # NULL => ~queueOff /\ adding \in queue
  /\ maxThreads >= 1
  /\ NoStranded

\* _used is the number of threads that exist: createThread and threadHasDied
\* keep it, so that its comparisons with the configured limits mean something.
UsedCountsThreads == used = Cardinality(Live)

\* The pool never runs more threads than poa_max_threads, although readers
\* are created by any thread that calls add().
ThreadLimit == Cardinality(Live) <= maxThreads

\* The pool counts its threads and keeps its limit.  Each needs the other, as
\* createNewReader compares _used with the limit.
PoolInv == UsedCountsThreads /\ ThreadLimit

\* Once the manager is INACTIVE it stays so, no request enters the queue and
\* no thread starts to execute one, however the three steps of deactivate()
\* interleave with add() and checkState().
InactiveIsFinal ==
  [][mstate = "INACTIVE" =>
       /\ mstate' = "INACTIVE"
       /\ queue' \subseteq queue
       /\ \A t \in Threads : pc'[t] = "exec" => pc[t] = "exec"]_vars

\* deactivate() has closed the queue before the state says so
ClosedBeforeInactive ==
  /\ mstate = "INACTIVE" => deactStep = "no"
  /\ mstate = "INACTIVE" \/ deactStep = "queue" => queueOff

Settled(r) == r \in bypassed \cup dropped \/ done[r] = 1

\* If the manager ends up ACTIVE for good, every request that was sent is
\* eventually dealt with.
EveryRequestSettled ==
  <>[](mstate = "ACTIVE" /\ deactStep = "no") =>
    \A r \in Requests : [](r \notin fresh => <>Settled(r))

=============================================================================
