------------------------ MODULE POADispatch_proofs ------------------------
(***************************************************************************)
(* Proofs about POADispatch, for any numbers of threads and requests and    *)
(* any limits.                                                              *)
(***************************************************************************)
EXTENDS POADispatch, FiniteSetTheorems, SequenceTheorems, TLAPS

\* Unsigned arithmetic stays in the range of CORBA::ULong.
LEMMA ULongType ==
  ASSUME NEW x \in Int, NEW n \in Int
  PROVE  Plus(x, n) \in ULongs /\ Minus(x, n) \in ULongs
BY ConfAssumption DEF Plus, Minus, ULongs

\* A part of a sequence is a sequence over the same set.
LEMMA SubSeqType ==
  ASSUME NEW S, NEW s \in Seq(S), NEW m \in Nat \ {0}, NEW n \in 0..Len(s)
  PROVE  SubSeq(s, m, n) \in Seq(S)
<1>1. \A i \in m..n : s[i] \in S
  BY LenProperties
<1> QED
  BY <1>1, SubSeqProperties, LenProperties

\* A function over 1..n is a sequence.
LEMMA FunctionIsSeq ==
  ASSUME NEW T, NEW S \in SUBSET T, NEW n \in Nat, NEW f \in [1..n -> S]
  PROVE  f \in Seq(T)
<1>1. f \in [1..n -> T]
  OBVIOUS
<1> QED
  BY <1>1

\* Removing a thread from the list _pool leaves a list of the same type.
LEMMA WithoutType ==
  ASSUME NEW S, NEW s \in Seq(S), NEW x
  PROVE  Without(s, x) \in Seq(S)
<1>1. CASE \E i \in 1..Len(s) : s[i] = x
  <2> DEFINE i == CHOOSE i \in 1..Len(s) : s[i] = x
  <2>1. i \in 1..Len(s)
    BY <1>1
  <2>2. Without(s, x) = SubSeq(s, 1, i - 1) \o SubSeq(s, i + 1, Len(s))
    BY <1>1 DEF Without
  <2> HIDE DEF i
  <2>3. SubSeq(s, 1, i - 1) \in Seq(S) /\ SubSeq(s, i + 1, Len(s)) \in Seq(S)
    BY <2>1, SubSeqType, LenProperties
  <2> QED
    BY <2>2, <2>3, ConcatProperties
<1>2. CASE ~\E i \in 1..Len(s) : s[i] = x
  BY <1>2 DEF Without
<1> QED
  BY <1>1, <1>2

-----------------------------------------------------------------------------

\* What the type proof keeps: the types, and the request a thread holds.
TypeInv == TypeOK /\ ReqMatchesPc

\* The values of CORBA::ULong, and the constants that are among them.
LEMMA ULongFacts ==
  /\ ULongs \subseteq Nat
  /\ 0 \in ULongs
  /\ MinThreads \in ULongs
  /\ MaxThreads \in ULongs
  /\ MinThreadsChoices \subseteq ULongs
  /\ MaxThreadsChoices \subseteq ULongs
  /\ \A x \in ULongs : \A k \in 0..x : x - k \in ULongs
BY ConfAssumption DEF ULongs

\* Updating a loaded counter gives a CORBA::ULong.
LEMMA RegType ==
  ASSUME TypeOK, NEW t \in Threads
  PROVE  /\ Plus(regA[t], 1) \in ULongs /\ Minus(regA[t], 1) \in ULongs
         /\ Plus(regU[t], 1) \in ULongs /\ Minus(regU[t], 1) \in ULongs
<1>1. regA[t] \in ULongs /\ regU[t] \in ULongs
  BY DEF TypeOK
<1>2. regA[t] \in Int /\ regU[t] \in Int
  BY <1>1, ConfAssumption DEF ULongs
<1> QED
  BY <1>2, ULongType

\* Init establishes the type invariant.
LEMMA TypeInit == Init => TypeInv
<1> SUFFICES ASSUME Init PROVE TypeInv
  OBVIOUS
<1>1. pool \in Seq(Threads \cup {NULL})
  BY ConfAssumption DEF Init, Live
<1>3. TypeOK
  BY <1>1, ULongFacts DEF Init, TypeOK, States, Locations
<1>4. ReqMatchesPc
  BY DEF Init, ReqMatchesPc
<1> QED
  BY <1>3, <1>4 DEF TypeInv

\* Every step keeps the type invariant.
LEMMA TypeStep == TypeInv /\ [Next]_vars => TypeInv'
<1> SUFFICES ASSUME TypeInv, [Next]_vars PROVE TypeInv'
  OBVIOUS
<1> USE DEF TypeInv, TypeOK, ReqMatchesPc, States, Locations,
           mgrVars, queueVars, countVars, poolVars, thrVars, regVars, fateVars, Forget
<1>0. 0 \in ULongs
  BY ULongFacts
<1>1. ASSUME NEW r \in Requests, PutReject(r) PROVE TypeInv'
  BY <1>1 DEF PutReject, Finish
<1>2. ASSUME NEW r \in Requests, PutAccept(r) PROVE TypeInv'
  BY <1>2 DEF PutAccept
<1>3. CASE PutCreate
  <2>1. ASSUME NEW t \in Threads, CreateThread(t) PROVE TypeInv'
    <3>1. used' \in ULongs
      BY <2>1, ULongType, ULongFacts DEF CreateThread
    <3>2. pool' \in Seq(Threads \cup {NULL})
      BY <2>1, AppendProperties DEF CreateThread
    <3> QED
      BY <1>0, <1>3, <2>1, <3>1, <3>2 DEF PutCreate, CreateThread
  <2>2. CASE CreateThreadFails
    <3>1. pool' \in Seq(Threads \cup {NULL})
      BY <2>2, AppendProperties DEF CreateThreadFails
    <3> QED
      BY <1>3, <2>2, <3>1 DEF PutCreate, CreateThreadFails
  <2> QED
    BY <1>3, <2>1, <2>2 DEF PutCreate
<1>4. CASE PutNotify
  BY <1>4 DEF PutNotify
<1>5. ASSUME NEW c \in Comparators, SetComparator(c) PROVE TypeInv'
  BY <1>5 DEF SetComparator
<1>6. ASSUME NEW n \in MinThreadsChoices, SetMinThreads(n) PROVE TypeInv'
  <2>1. PICK S \in SUBSET Free :
          /\ pc' = [t \in Threads |-> IF t \in S THEN "loop" ELSE pc[t]]
          /\ req' = [t \in Threads |-> IF t \in S THEN NULL ELSE req[t]]
          /\ firstTime' = [t \in Threads |-> IF t \in S THEN TRUE ELSE firstTime[t]]
          /\ regA' = [t \in Threads |-> IF t \in S THEN 0 ELSE regA[t]]
          /\ regU' = [t \in Threads |-> IF t \in S THEN 0 ELSE regU[t]]
          /\ \E new \in [1..Cardinality(S) -> S] : pool' = pool \o new
    BY <1>6 DEF SetMinThreads
  <2>2. pool' \in Seq(Threads \cup {NULL})
    <3>1. PICK new \in [1..Cardinality(S) -> S] : pool' = pool \o new
      BY <2>1
    <3>2. Cardinality(S) \in Nat
      BY SetAssumption, FS_Subset, FS_CardinalityType DEF Free
    <3>3. S \in SUBSET (Threads \cup {NULL})
      BY DEF Free
    <3>4. new \in Seq(Threads \cup {NULL})
      BY <3>2, <3>3, FunctionIsSeq
    <3> QED
      BY <3>1, <3>4, ConcatProperties
  <2>3. used' \in ULongs /\ minThreads' \in ULongs
    BY <1>6, ULongFacts DEF SetMinThreads
  <2> QED
    BY <1>0, <1>6, <2>1, <2>2, <2>3 DEF SetMinThreads
<1>7. ASSUME NEW n \in MaxThreadsChoices, SetMaxThreads(n) PROVE TypeInv'
  <2>1. PICK k \in 0..used :
          /\ pool' = SubSeq(pool, k + 1, Len(pool))
          /\ used' = used - k
          /\ actuallyUsed' = Minus(actuallyUsed, k)
          /\ active' = Minus(active, k)
    BY <1>7 DEF SetMaxThreads
  <2>2. k \in Nat /\ k + 1 \in Nat \ {0}
    BY ULongFacts
  <2>3. pool' \in Seq(Threads \cup {NULL})
    BY <2>1, <2>2, SubSeqType, LenProperties
  <2>4. actuallyUsed' \in ULongs /\ active' \in ULongs
    BY <2>1, <2>2, ULongType, ULongFacts
  <2>5. used' \in ULongs /\ maxThreads' \in ULongs
    BY <1>7, <2>1, ULongFacts DEF SetMaxThreads
  <2> QED
    BY <1>7, <2>3, <2>4, <2>5 DEF SetMaxThreads
<1>8. ASSUME NEW t \in Threads, ThreadStep(t) PROVE TypeInv'
  <2>0. /\ Plus(regA[t], 1) \in ULongs /\ Minus(regA[t], 1) \in ULongs
        /\ Plus(regU[t], 1) \in ULongs /\ Minus(regU[t], 1) \in ULongs
    BY RegType
  <2>1. CASE Loop(t)
    BY <2>1 DEF Loop
  <2>2. CASE SetInactive(t)
    <3>1. active' \in ULongs
      BY <2>0, <2>2 DEF SetInactive
    <3> QED
      BY <1>0, <2>2, <3>1 DEF SetInactive
  <2>3. CASE GetRequest(t)
    <3>1. PICK r \in queue : queue' = queue \ {r} /\ req' = [req EXCEPT ![t] = r]
      BY <2>3 DEF GetRequest
    <3> QED
      BY <2>3, <3>1 DEF GetRequest
  <2>4. CASE GetNull(t) \/ GetWait(t) \/ Starve(t)
    BY <2>4 DEF GetNull, GetWait, Starve
  <2>5. CASE SetActiveLoad(t)
    BY <2>5 DEF SetActiveLoad
  <2>6. CASE SetActive(t)
    <3>1. active' \in ULongs /\ actuallyUsed' \in ULongs
      BY <2>0, <2>6 DEF SetActive
    <3> QED
      BY <1>0, <2>6, <3>1 DEF SetActive
  <2>7. CASE ProcessRequest(t) \/ ThreadCanDie(t) \/ CheckExecute(t) \/ CheckHold(t)
    BY <2>7 DEF ProcessRequest, ThreadCanDie, CheckExecute, CheckHold
  <2>8. CASE CheckRefuse(t) \/ Execute(t)
    <3>1. done' \in [Requests -> Nat]
      BY <2>8 DEF CheckRefuse, Execute, Finish
    <3> QED
      BY <2>8, <3>1 DEF CheckRefuse, Execute, Release
  <2>9. CASE Bypass(t)
    BY <2>9 DEF Bypass, Release
  <2>10. CASE ThreadHasDiedLoad(t)
    BY <2>10 DEF ThreadHasDiedLoad
  <2>11. CASE ThreadHasDied(t)
    <3>1. pool' \in Seq(Threads \cup {NULL})
      BY <2>11, WithoutType DEF ThreadHasDied
    <3>2. used' \in ULongs /\ actuallyUsed' \in ULongs /\ active' \in ULongs
      BY <2>0, <2>11, ULongType, ULongFacts DEF ThreadHasDied
    <3> QED
      BY <1>0, <2>11, <3>1, <3>2 DEF ThreadHasDied
  <2> QED
    BY <1>8, <2>1, <2>2, <2>3, <2>4, <2>5, <2>6, <2>7, <2>8, <2>9, <2>10, <2>11
       DEF ThreadStep
<1>9. CASE Activate \/ HoldRequests \/ DiscardRequests
  BY <1>9 DEF Activate, HoldRequests, DiscardRequests, ChangeState
<1>10. CASE Deactivate
  BY <1>10 DEF Deactivate, DeactivatePool, DeactivateQueue, DeactivateState
<1>11. CASE UNCHANGED vars
  BY <1>11 DEF vars
<1> QED
  BY <1>1, <1>2, <1>3, <1>4, <1>5, <1>6, <1>7, <1>8, <1>9, <1>10, <1>11
     DEF Next, Put, Manager

\* Every variable keeps its type: in particular the three counters of the
\* pool stay CORBA::ULong values although two of them are updated without a
\* lock, and a thread that executes always holds a request.
THEOREM TypeCorrect == Spec => []TypeOK
<1>1. Spec => []TypeInv
  BY TypeInit, TypeStep, PTL DEF Spec
<1>2. TypeInv => TypeOK
  BY DEF TypeInv
<1> QED
  BY <1>1, <1>2, PTL

-----------------------------------------------------------------------------
(* No lost wakeups.  The hypotheses exclude what the code does not survive: *)
(* a starving time, a start() that fails, a change of comparator, and a     *)
(* maximum of no threads.                                                   *)

\* Init establishes the invariant behind NoStranded.
LEMMA ReaderInit == Init => ReaderInv
<1> SUFFICES ASSUME Init PROVE ReaderInv
  OBVIOUS
<1>1. Live = {} => MinThreads = 0
  BY FS_EmptySet DEF Init
<1>2. \A t \in Live : t \in Ready /\ pc[t] # "woken"
  BY DEF Init, Live, Ready, Leaving
<1> QED
  BY <1>1, <1>2, ConfAssumption DEF Init, ReaderInv, NoStranded

\* Every step keeps it.
LEMMA ReaderStep ==
  ASSUME StarvingTime = 0, StartMayFail = FALSE,
         \A c, d \in Comparators : c = d,
         0 \notin MaxThreadsChoices,
         TypeInv, TypeInv', ReaderInv, [Next]_vars
  PROVE  ReaderInv'
<1> USE DEF TypeInv, TypeOK, ReqMatchesPc,
            ReaderInv, NoStranded, Ready, Leaving, Live,
            mgrVars, queueVars, countVars, poolVars, thrVars, regVars, fateVars
<1>1. ASSUME NEW r \in Requests, PutReject(r) PROVE ReaderInv'
  BY <1>1 DEF PutReject, Finish
<1>2. ASSUME NEW r \in Requests, PutAccept(r) PROVE ReaderInv'
  BY <1>2, SetAssumption DEF PutAccept
<1>3. CASE PutCreate
  <2>1. PICK t \in Threads : CreateThread(t)
    BY <1>3 DEF PutCreate, CreateThreadFails
  <2> QED
    BY <1>3, <2>1 DEF PutCreate, CreateThread
<1>4. CASE PutNotify
  <2>1. CASE \E t \in Threads : pc[t] = "wait"
    <3>1. PICK t \in Threads : pc[t] = "wait" /\ pc' = [pc EXCEPT ![t] = "woken"]
      BY <1>4, <2>1 DEF PutNotify
    <3>2. /\ pc'[t] = "woken"
          /\ \A u \in Threads : u # t => pc'[u] = pc[u]
      BY <3>1
    <3>3. queue' = queue /\ UNCHANGED <<req, used, active, actuallyUsed, maxThreads, queueOff>>
      BY <1>4 DEF PutNotify
    <3>4. t \in Ready /\ t \in Ready'
      BY <3>1, <3>2
    <3>5. queue # {}
      BY <1>4 DEF PutNotify
    <3> QED
      BY <1>4, <3>1, <3>2, <3>3, <3>4 DEF PutNotify
  <2>2. CASE ~\E t \in Threads : pc[t] = "wait"
    <3>1. Live # {}
      BY <1>4, ConfAssumption DEF PutNotify, ReaderNeeded, ULongs
    <3> QED
      BY <1>4, <2>2, <3>1 DEF PutNotify
  <2> QED
    BY <2>1, <2>2
<1>5. ASSUME NEW c \in Comparators, SetComparator(c) PROVE ReaderInv'
  BY <1>5 DEF SetComparator
<1>6. ASSUME NEW n \in MinThreadsChoices, SetMinThreads(n) PROVE ReaderInv'
  <2>1. PICK S \in SUBSET Free :
          /\ Cardinality(S) = (IF used < n THEN n - used ELSE 0)
          /\ pc' = [t \in Threads |-> IF t \in S THEN "loop" ELSE pc[t]]
          /\ req' = [t \in Threads |-> IF t \in S THEN NULL ELSE req[t]]
    BY <1>6 DEF SetMinThreads
  <2>2. S = {} => used' = used
    <3>1. S = {} => Cardinality(S) = 0
      BY FS_EmptySet
    <3>2. n \in Nat /\ used \in Nat
      BY ConfAssumption DEF ULongs
    <3> QED
      BY <1>6, <2>1, <3>1, <3>2 DEF SetMinThreads
  <2> QED
    <3>1. \A t \in Threads : IF t \in S THEN pc'[t] = "loop" /\ pc[t] = "none"
                              ELSE pc'[t] = pc[t] /\ req'[t] = req[t]
      BY <2>1 DEF Free
    <3>2. UNCHANGED <<queue, queueOff, adding, active, actuallyUsed, maxThreads>>
      BY <1>6 DEF SetMinThreads
    <3>3. CASE S = {}
      BY <2>2, <3>1, <3>2, <3>3
    <3>4. CASE S # {}
      BY <3>1, <3>2, <3>4 DEF Free
    <3> QED
      BY <3>3, <3>4
<1>7. ASSUME NEW n \in MaxThreadsChoices, SetMaxThreads(n) PROVE ReaderInv'
  <2>1. n >= 1
    BY ConfAssumption
  <2>2. used = 0 /\ active = 0 /\ actuallyUsed = 0 =>
          used' = 0 /\ active' = 0 /\ actuallyUsed' = 0
    <3> SUFFICES ASSUME used = 0, active = 0, actuallyUsed = 0
                 PROVE  used' = 0 /\ active' = 0 /\ actuallyUsed' = 0
      OBVIOUS
    <3>1. used' = 0 /\ active' = Minus(0, 0) /\ actuallyUsed' = Minus(0, 0)
      <4>1. PICK k \in 0..used :
              /\ used' = used - k
              /\ actuallyUsed' = Minus(actuallyUsed, k)
              /\ active' = Minus(active, k)
        BY <1>7 DEF SetMaxThreads
      <4>2. k = 0
        OBVIOUS
      <4> QED
        BY <4>1, <4>2
    <3>2. Minus(0, 0) = 0
      BY ConfAssumption DEF Minus
    <3> QED
      BY <3>1, <3>2
  <2> QED
    BY <1>7, <2>1, <2>2 DEF SetMaxThreads
<1>8. ASSUME NEW t \in Threads, ThreadStep(t) PROVE ReaderInv'
  <2>1. CASE Loop(t)
    <3>1. /\ pc'[t] \in {"get", "dec"}
          /\ \A u \in Threads : u # t => pc'[u] = pc[u]
      BY <2>1 DEF Loop
    <3> QED
      BY <2>1, <3>1 DEF Loop
  <2>2. CASE SetInactive(t)
    BY <2>2 DEF SetInactive
  <2>3. CASE GetRequest(t)
    <3>1. PICK r \in queue : queue' = queue \ {r} /\ req' = [req EXCEPT ![t] = r]
      BY <2>3 DEF GetRequest
    <3> QED
      BY <2>3, <3>1, SetAssumption DEF GetRequest
  <2>4. CASE GetNull(t)
    BY <2>4 DEF GetNull
  <2>5. CASE GetWait(t)
    BY <2>5 DEF GetWait
  <2>6. CASE Starve(t)
    BY <2>6 DEF Starve
  <2>7. CASE SetActiveLoad(t)
    BY <2>7 DEF SetActiveLoad
  <2>8. CASE SetActive(t)
    BY <2>8 DEF SetActive
  <2>9. CASE ProcessRequest(t)
    BY <2>9 DEF ProcessRequest
  <2>10. CASE ThreadCanDie(t)
    BY <2>10 DEF ThreadCanDie
  <2>11. CASE CheckExecute(t) \/ CheckHold(t)
    BY <2>11 DEF CheckExecute, CheckHold
  <2>12. CASE CheckRefuse(t) \/ Execute(t) \/ Bypass(t)
    BY <2>12 DEF CheckRefuse, Execute, Bypass, Release
  <2>13. CASE ThreadHasDiedLoad(t)
    BY <2>13 DEF ThreadHasDiedLoad
  <2>14. CASE ThreadHasDied(t)
    BY <2>14 DEF ThreadHasDied
  <2> QED
    BY <1>8, <2>1, <2>2, <2>3, <2>4, <2>5, <2>6, <2>7, <2>8, <2>9, <2>10, <2>11,
       <2>12, <2>13, <2>14 DEF ThreadStep
<1>9. CASE Activate \/ HoldRequests \/ DiscardRequests
  BY <1>9 DEF Activate, HoldRequests, DiscardRequests, ChangeState
<1>10. CASE Deactivate
  BY <1>10 DEF Deactivate, DeactivatePool, DeactivateQueue, DeactivateState
<1>11. CASE UNCHANGED vars
  BY <1>11 DEF vars
<1> QED
  BY <1>1, <1>2, <1>3, <1>4, <1>5, <1>6, <1>7, <1>8, <1>9, <1>10, <1>11
     DEF Next, Put, Manager

\* Requests never sit in the queue while every thread sleeps or leaves: the
\* choice of add() between a new reader and notify(), made on counters that
\* are updated without a lock, never loses a wakeup when poa_starving_time
\* is 0 (the default).
THEOREM NoStrandedRequests ==
  ASSUME StarvingTime = 0, StartMayFail = FALSE,
         \A c, d \in Comparators : c = d,
         0 \notin MaxThreadsChoices
  PROVE  Spec => []NoStranded
<1>1. Init => TypeInv /\ ReaderInv
  BY TypeInit, ReaderInit
<1>2. TypeInv /\ ReaderInv /\ [Next]_vars => (TypeInv /\ ReaderInv)'
  BY TypeStep, ReaderStep
<1>3. TypeInv /\ ReaderInv => NoStranded
  BY DEF ReaderInv
<1> QED
  BY <1>1, <1>2, <1>3, PTL DEF Spec

-----------------------------------------------------------------------------
(* Every request is in one place                                            *)

\* Every step keeps each request in one place.
LEMMA OnePlaceStep ==
  ASSUME TypeInv, OnePlace, [Next]_vars
  PROVE  OnePlace'
<1> USE DEF TypeInv, TypeOK, ReqMatchesPc, OnePlace, Held,
            mgrVars, queueVars, countVars, poolVars, thrVars, regVars, fateVars
<1>1. ASSUME NEW r \in Requests, PutReject(r) PROVE OnePlace'
  BY <1>1 DEF PutReject, Finish
<1>2. ASSUME NEW r \in Requests, PutAccept(r) PROVE OnePlace'
  BY <1>2 DEF PutAccept
<1>3. CASE PutCreate
  BY <1>3, SetAssumption DEF PutCreate, CreateThread, CreateThreadFails
<1>4. CASE PutNotify
  BY <1>4 DEF PutNotify
<1>5. ASSUME NEW c \in Comparators, SetComparator(c) PROVE OnePlace'
  BY <1>5 DEF SetComparator
<1>6. ASSUME NEW n \in MinThreadsChoices, SetMinThreads(n) PROVE OnePlace'
  <2>1. PICK S \in SUBSET Free :
          req' = [t \in Threads |-> IF t \in S THEN NULL ELSE req[t]]
    BY <1>6 DEF SetMinThreads
  <2>2. \A t \in S : req[t] = NULL
    BY DEF Free
  <2>3. \A t \in Threads : req'[t] = req[t]
    BY <2>1, <2>2
  <2>4. UNCHANGED <<queue, fresh, done, bypassed, dropped>>
    BY <1>6 DEF SetMinThreads
  <2> QED
    BY <2>3, <2>4
<1>7. ASSUME NEW n \in MaxThreadsChoices, SetMaxThreads(n) PROVE OnePlace'
  BY <1>7 DEF SetMaxThreads
<1>8. ASSUME NEW t \in Threads, ThreadStep(t) PROVE OnePlace'
  <2>1. CASE GetRequest(t)
    <3>1. PICK r \in queue : queue' = queue \ {r} /\ req' = [req EXCEPT ![t] = r]
      BY <2>1 DEF GetRequest
    <3> QED
      BY <2>1, <3>1, SetAssumption DEF GetRequest
  <2>2. CASE CheckRefuse(t) \/ Execute(t)
    <3> DEFINE r == req[t]
    <3>1. r \in Requests /\ t \in Held(r)
      BY <2>2 DEF CheckRefuse, Execute
    <3>2. /\ done' = [done EXCEPT ![r] = @ + 1]
          /\ req' = [req EXCEPT ![t] = NULL]
          /\ UNCHANGED <<queue, fresh, bypassed, dropped>>
      BY <2>2 DEF CheckRefuse, Execute, Finish, Release
    <3>3. done[r] = 0 /\ (\A u \in Threads : req[u] = r => u = t)
      BY <3>1
    <3>4. r \notin fresh \cup queue \cup bypassed \cup dropped
      BY <3>1
    <3> HIDE DEF r
    <3>5. \A q \in Requests : done'[q] = IF q = r THEN 1 ELSE done[q]
      BY <3>1, <3>2, <3>3
    <3>6. \A u \in Threads : req'[u] = IF u = t THEN NULL ELSE req[u]
      BY <3>2
    <3>7. req[t] = r /\ NULL \notin Requests
      BY SetAssumption DEF r
    <3> QED
      BY <3>1, <3>2, <3>3, <3>4, <3>5, <3>6, <3>7
  <2>3. CASE Bypass(t)
    BY <2>3, SetAssumption DEF Bypass, Release
  <2>4. CASE \/ Loop(t) \/ SetInactive(t) \/ GetNull(t) \/ GetWait(t) \/ Starve(t)
             \/ SetActiveLoad(t) \/ SetActive(t)
    BY <2>4 DEF Loop, SetInactive, GetNull, GetWait, Starve, SetActiveLoad, SetActive
  <2>5. CASE \/ ProcessRequest(t) \/ ThreadCanDie(t) \/ CheckExecute(t) \/ CheckHold(t)
             \/ ThreadHasDiedLoad(t) \/ ThreadHasDied(t)
    BY <2>5 DEF ProcessRequest, ThreadCanDie, CheckExecute, CheckHold,
                ThreadHasDiedLoad, ThreadHasDied
  <2> QED
    BY <1>8, <2>1, <2>2, <2>3, <2>4, <2>5 DEF ThreadStep
<1>9. CASE Activate \/ HoldRequests \/ DiscardRequests
  BY <1>9 DEF Activate, HoldRequests, DiscardRequests, ChangeState
<1>10. CASE Deactivate
  BY <1>10 DEF Deactivate, DeactivatePool, DeactivateQueue, DeactivateState
<1>11. CASE UNCHANGED vars
  BY <1>11 DEF vars
<1> QED
  BY <1>1, <1>2, <1>3, <1>4, <1>5, <1>6, <1>7, <1>8, <1>9, <1>10, <1>11
     DEF Next, Put, Manager

\* However many threads serve the queue and whatever the configuration, no
\* request is served by two threads or answered twice, and none disappears
\* other than by discardAll().
THEOREM EveryRequestInOnePlace == Spec => []OnePlace
<1>1. Init => TypeInv /\ OnePlace
  <2>1. Init => OnePlace
    BY SetAssumption DEF Init, OnePlace, Held
  <2> QED
    BY <2>1, TypeInit
<1>2. TypeInv /\ OnePlace /\ [Next]_vars => (TypeInv /\ OnePlace)'
  BY TypeStep, OnePlaceStep
<1> QED
  BY <1>1, <1>2, PTL DEF Spec

-----------------------------------------------------------------------------
(* An INACTIVE manager stays closed                                         *)

\* Every step keeps the order in which deactivate() closes the manager.
LEMMA ClosedStep ==
  ASSUME ClosedBeforeInactive, [Next]_vars
  PROVE  ClosedBeforeInactive'
<1> USE DEF ClosedBeforeInactive, mgrVars, queueVars
<1>1. CASE Put
  BY <1>1 DEF Put, PutReject, PutAccept, PutCreate, PutNotify
<1>2. ASSUME NEW t \in Threads, ThreadStep(t) PROVE ClosedBeforeInactive'
  BY <1>2 DEF ThreadStep, Loop, SetInactive, GetRequest, GetNull, GetWait, Starve,
     SetActiveLoad, SetActive, ProcessRequest, ThreadCanDie, CheckExecute, CheckHold,
     CheckRefuse, Execute, Bypass, ThreadHasDiedLoad, ThreadHasDied
<1>3. CASE Activate \/ HoldRequests \/ DiscardRequests
  BY <1>3 DEF Activate, HoldRequests, DiscardRequests, ChangeState
<1>4. CASE Deactivate
  BY <1>4 DEF Deactivate, DeactivatePool, DeactivateQueue, DeactivateState
<1>5. CASE \/ \E c \in Comparators : SetComparator(c)
           \/ \E n \in MinThreadsChoices : SetMinThreads(n)
           \/ \E n \in MaxThreadsChoices : SetMaxThreads(n)
  BY <1>5 DEF SetComparator, SetMinThreads, SetMaxThreads
<1>6. CASE UNCHANGED vars
  BY <1>6 DEF vars
<1> QED
  BY <1>1, <1>2, <1>3, <1>4, <1>5, <1>6 DEF Next, Manager

\* A step of a closed manager opens nothing.
LEMMA FinalStep ==
  ASSUME TypeInv, ClosedBeforeInactive, [Next]_vars, mstate = "INACTIVE"
  PROVE  /\ mstate' = "INACTIVE"
         /\ queue' \subseteq queue
         /\ \A t \in Threads : pc'[t] = "exec" => pc[t] = "exec"
<1> DEFINE Q == /\ mstate' = "INACTIVE"
                /\ queue' \subseteq queue
                /\ \A t \in Threads : pc'[t] = "exec" => pc[t] = "exec"
<1> USE DEF TypeInv, TypeOK, ClosedBeforeInactive, mgrVars, queueVars, thrVars
<1>1. CASE Put
  <2>1. CASE PutCreate
    BY <1>1, <2>1 DEF PutCreate, CreateThread, CreateThreadFails
  <2>2. CASE PutNotify
    BY <1>1, <2>2 DEF PutNotify
  <2>3. CASE \E r \in Requests : PutReject(r) \/ PutAccept(r)
    BY <2>3 DEF PutReject, PutAccept
  <2> QED
    BY <1>1, <2>1, <2>2, <2>3 DEF Put
<1>2. ASSUME NEW t \in Threads, ThreadStep(t) PROVE Q
  <2>1. CASE \/ Loop(t) \/ SetInactive(t) \/ GetNull(t) \/ GetWait(t) \/ Starve(t)
             \/ SetActiveLoad(t) \/ SetActive(t)
    BY <2>1 DEF Loop, SetInactive, GetNull, GetWait, Starve, SetActiveLoad, SetActive
  <2>2. CASE \/ ProcessRequest(t) \/ ThreadCanDie(t) \/ CheckExecute(t) \/ CheckHold(t)
             \/ ThreadHasDiedLoad(t) \/ ThreadHasDied(t)
    BY <2>2 DEF ProcessRequest, ThreadCanDie, CheckExecute, CheckHold,
                ThreadHasDiedLoad, ThreadHasDied
  <2>3. CASE CheckRefuse(t) \/ Execute(t) \/ Bypass(t) \/ GetRequest(t)
    BY <2>3 DEF CheckRefuse, Execute, Bypass, Release, GetRequest
  <2> QED
    BY <1>2, <2>1, <2>2, <2>3 DEF ThreadStep
<1>3. CASE Activate \/ HoldRequests \/ DiscardRequests \/ Deactivate
  BY <1>3 DEF Activate, HoldRequests, DiscardRequests, ChangeState,
     Deactivate, DeactivatePool, DeactivateQueue, DeactivateState
<1>4. CASE \/ \E c \in Comparators : SetComparator(c)
           \/ \E n \in MaxThreadsChoices : SetMaxThreads(n)
  BY <1>4 DEF SetComparator, SetMaxThreads
<1>5. ASSUME NEW n \in MinThreadsChoices, SetMinThreads(n) PROVE Q
  <2>1. PICK S \in SUBSET Free :
          pc' = [t \in Threads |-> IF t \in S THEN "loop" ELSE pc[t]]
    BY <1>5 DEF SetMinThreads
  <2> QED
    BY <1>5, <2>1 DEF SetMinThreads
<1>6. CASE UNCHANGED vars
  BY <1>6 DEF vars
<1> QED
  BY <1>1, <1>2, <1>3, <1>4, <1>5, <1>6 DEF Next, Manager

\* After deactivate() nothing is accepted and nothing starts to execute.
THEOREM InactiveStaysInactive == Spec => InactiveIsFinal
<1>1. Init => TypeInv /\ ClosedBeforeInactive
  BY TypeInit DEF Init, ClosedBeforeInactive
<1>2. TypeInv /\ ClosedBeforeInactive /\ [Next]_vars
        => (TypeInv /\ ClosedBeforeInactive)'
  BY TypeStep, ClosedStep
<1>3. TypeInv /\ ClosedBeforeInactive /\ [Next]_vars =>
        [mstate = "INACTIVE" =>
           /\ mstate' = "INACTIVE"
           /\ queue' \subseteq queue
           /\ \A t \in Threads : pc'[t] = "exec" => pc[t] = "exec"]_vars
  BY FinalStep
<1> QED
  BY <1>1, <1>2, <1>3, PTL DEF Spec, InactiveIsFinal

-----------------------------------------------------------------------------
(* The pool counts its threads                                              *)

\* Any set of threads is finite.
LEMMA ThreadsFinite ==
  ASSUME NEW S \in SUBSET Threads
  PROVE  IsFiniteSet(S) /\ Cardinality(S) \in Nat /\ Cardinality(S) <= Cardinality(Threads)
BY SetAssumption, FS_Subset, FS_CardinalityType

\* Every step keeps the count and the limit, as long as set_max_threads is
\* not asked for less than the threads there are.
LEMMA PoolStep ==
  ASSUME \A n \in MaxThreadsChoices : n >= Cardinality(Threads),
         TypeInv, TypeInv', PoolInv, [Next]_vars
  PROVE  PoolInv'
<1> USE DEF PoolInv, UsedCountsThreads, ThreadLimit,
            mgrVars, queueVars, countVars, poolVars, thrVars, regVars, fateVars
<1>0. /\ used \in Nat /\ maxThreads \in Nat /\ used < ULong /\ maxThreads < ULong
      /\ ULong \in Nat
  BY ConfAssumption DEF TypeInv, TypeOK, ULongs
<1>00. ASSUME Live' = Live, UNCHANGED <<used, maxThreads>> PROVE PoolInv'
  BY <1>00
<1>1. ASSUME NEW r \in Requests, PutReject(r) \/ PutAccept(r) PROVE PoolInv'
  BY <1>1, <1>00 DEF PutReject, PutAccept, Live
<1>2. CASE PutCreate
  <2>1. ASSUME NEW t \in Threads, CreateThread(t) PROVE PoolInv'
    <3>1. t \notin Live /\ Live' = Live \cup {t}
      BY <2>1 DEF CreateThread, Live, TypeInv, TypeOK
    <3>2. IsFiniteSet(Live)
      BY ThreadsFinite DEF Live
    <3>3. Cardinality(Live') = used + 1
      BY <3>1, <3>2, FS_AddElement
    <3>4. used < maxThreads /\ used' = Plus(used, 1) /\ maxThreads' = maxThreads
      BY <1>2, <2>1 DEF PutCreate, ReaderNeeded, CreateThread
    <3>5. used' = used + 1
      BY <1>0, <3>4 DEF Plus
    <3> QED
      BY <1>0, <3>3, <3>4, <3>5
  <2>2. CASE CreateThreadFails
    BY <1>2, <2>2, <1>00 DEF PutCreate, CreateThreadFails, Live
  <2> QED
    BY <1>2, <2>1, <2>2 DEF PutCreate
<1>3. CASE PutNotify
  <2>1. Live' = Live
    BY <1>3 DEF PutNotify, Live, TypeInv, TypeOK
  <2> QED
    BY <1>3, <2>1, <1>00 DEF PutNotify
<1>4. ASSUME NEW n \in MinThreadsChoices, SetMinThreads(n) PROVE PoolInv'
  <2>1. PICK S \in SUBSET Free :
          /\ Cardinality(S) = (IF used < n THEN n - used ELSE 0)
          /\ pc' = [t \in Threads |-> IF t \in S THEN "loop" ELSE pc[t]]
    BY <1>4 DEF SetMinThreads
  <2>2. Live' = Live \cup S /\ Live \cap S = {}
    BY <2>1 DEF Live, Free
  <2>3. /\ IsFiniteSet(Live) /\ IsFiniteSet(S)
        /\ Cardinality(Live) \in Nat /\ Cardinality(S) \in Nat
    BY ThreadsFinite DEF Live, Free
  <2>4. Cardinality(Live') = Cardinality(Live) + Cardinality(S)
    BY <2>2, <2>3, FS_Union, FS_EmptySet
  <2>5. n \in Nat /\ n <= maxThreads /\ maxThreads' = maxThreads
    BY <1>4, ConfAssumption DEF SetMinThreads
  <2>6. used' = IF used < n THEN n ELSE used
    BY <1>4 DEF SetMinThreads
  <2> QED
    BY <1>0, <2>1, <2>3, <2>4, <2>5, <2>6
<1>5. ASSUME NEW n \in MaxThreadsChoices, SetMaxThreads(n) PROVE PoolInv'
  <2>1. Live' = Live
    BY <1>5 DEF SetMaxThreads, Live
  <2>2. Cardinality(Live) <= Cardinality(Threads) /\ Cardinality(Threads) \in Nat
    BY ThreadsFinite DEF Live
  <2>3. n \in Nat
    BY ConfAssumption
  <2>30. used <= n
    BY <1>0, <2>2, <2>3
  <2>4. used' = used /\ maxThreads' = n
    <3>1. PICK k \in 0..used :
            /\ k = IF used <= n THEN 0
                   ELSE IF used - n <= Len(pool) THEN used - n
                   ELSE Len(pool)
            /\ used' = used - k
      BY <1>5 DEF SetMaxThreads
    <3> QED
      BY <1>0, <1>5, <2>3, <2>30, <3>1 DEF SetMaxThreads
  <2> QED
    BY <2>1, <2>30, <2>4
<1>6. ASSUME NEW t \in Threads, ThreadStep(t) PROVE PoolInv'
  <2>1. CASE ThreadHasDied(t)
    <3>1. t \in Live /\ Live' = Live \ {t}
      BY <2>1 DEF ThreadHasDied, Live, TypeInv, TypeOK
    <3>2. IsFiniteSet(Live) /\ Cardinality(Live) \in Nat
      BY ThreadsFinite DEF Live
    <3>3. Cardinality(Live') = used - 1
      BY <3>1, <3>2, FS_RemoveElement
    <3>4. used # 0
      BY <3>1, <3>2, FS_EmptySet
    <3>5. used' = Minus(used, 1) /\ maxThreads' = maxThreads
      BY <2>1 DEF ThreadHasDied
    <3>6. used' = used - 1
      BY <1>0, <3>4, <3>5 DEF Minus
    <3> QED
      BY <1>0, <3>3, <3>5, <3>6
  <2>2. CASE \/ Loop(t) \/ SetInactive(t) \/ GetNull(t) \/ GetWait(t) \/ Starve(t)
             \/ SetActiveLoad(t) \/ SetActive(t)
    <3>1. Live' = Live
      BY <2>2 DEF Loop, SetInactive, GetNull, GetWait, Starve, SetActiveLoad,
         SetActive, Live, TypeInv, TypeOK
    <3> QED
      BY <1>00, <2>2, <3>1 DEF Loop, SetInactive, GetNull, GetWait, Starve,
         SetActiveLoad, SetActive
  <2>3. CASE \/ ProcessRequest(t) \/ ThreadCanDie(t) \/ CheckExecute(t) \/ CheckHold(t)
             \/ ThreadHasDiedLoad(t) \/ GetRequest(t)
    <3>1. Live' = Live
      BY <2>3 DEF ProcessRequest, ThreadCanDie, CheckExecute, CheckHold,
         ThreadHasDiedLoad, GetRequest, Live, TypeInv, TypeOK
    <3> QED
      BY <1>00, <2>3, <3>1 DEF ProcessRequest, ThreadCanDie, CheckExecute, CheckHold,
         ThreadHasDiedLoad, GetRequest
  <2>4. CASE CheckRefuse(t) \/ Execute(t) \/ Bypass(t)
    <3>1. Live' = Live
      BY <2>4 DEF CheckRefuse, Execute, Bypass, Release, Live, TypeInv, TypeOK
    <3> QED
      BY <1>00, <2>4, <3>1 DEF CheckRefuse, Execute, Bypass
  <2> QED
    BY <1>6, <2>1, <2>2, <2>3, <2>4 DEF ThreadStep
<1>7. CASE Activate \/ HoldRequests \/ DiscardRequests
  <2>1. Live' = Live
    BY <1>7 DEF Activate, HoldRequests, DiscardRequests, ChangeState, Live
  <2> QED
    BY <1>00, <1>7, <2>1 DEF Activate, HoldRequests, DiscardRequests, ChangeState
<1>8. CASE Deactivate
  <2>1. Live' = Live
    BY <1>8 DEF Deactivate, DeactivatePool, DeactivateQueue, DeactivateState, Live
  <2> QED
    BY <1>00, <1>8, <2>1 DEF Deactivate, DeactivatePool, DeactivateQueue, DeactivateState
<1>9. CASE \E c \in Comparators : SetComparator(c)
  BY <1>9, <1>00 DEF SetComparator, Live
<1>10. CASE UNCHANGED vars
  BY <1>10, <1>00 DEF vars, Live
<1> QED
  BY <1>1, <1>2, <1>3, <1>4, <1>5, <1>6, <1>7, <1>8, <1>9, <1>10
     DEF Next, Put, Manager

\* _used is the number of live threads and stays within poa_max_threads,
\* whichever threads call add() and die at the same time, unless
\* set_max_threads is called with fewer threads than there may be.
THEOREM PoolCountsItsThreads ==
  ASSUME MinThreads <= MaxThreads,
         \A n \in MaxThreadsChoices : n >= Cardinality(Threads)
  PROVE  Spec => []PoolInv
<1>1. Init => TypeInv /\ PoolInv
  <2>1. Init => PoolInv
    BY DEF Init, PoolInv, UsedCountsThreads, ThreadLimit
  <2> QED
    BY <2>1, TypeInit
<1>2. TypeInv /\ PoolInv /\ [Next]_vars => (TypeInv /\ PoolInv)'
  BY TypeStep, PoolStep
<1> QED
  BY <1>1, <1>2, PTL DEF Spec
=============================================================================
