---------------------- MODULE ConnectionCache_proofs ----------------------
(***************************************************************************)
(* Theorems about ConnectionCache, for every order of openings, failures,   *)
(* timeouts, evictions, closes and destroy().  What the defects of the      *)
(* ConnectionManager spoil is named by the history variables of the model.  *)
(***************************************************************************)
EXTENDS ConnectionCache, FiniteSetTheorems, TLAPS

Openers == {"open", "failed", "register"}

\* The thread has a connection in hand
Holding == {"register", "raw", "got", "inc", "invoked", "dec"}

\* What the locals of getClientConnection hold at each place
PlacesOK ==
  /\ \A t \in Threads :
       /\ pc[t] \in Openers \cup {"wait", "erase"} =>
            point[t] \in Points /\ olock[t] \in OpeningLocks
       /\ pc[t] \in Holding => conn[t] \in Conns
       /\ pc[t] \notin Holding => conn[t] = NULL
  /\ \A l \in OpeningLocks : ostatus[l] = "OPENED" => oconn[l] \in Conns

TypeInv == TypeOK /\ PlacesOK

-----------------------------------------------------------------------------
(* Types and places                                                         *)

LEMMA CountType ==
  ASSUME NEW n \in 0..(ULong - 1)
  PROVE  (n + 1) % ULong \in 0..(ULong - 1) /\ (n + ULong - 1) % ULong \in 0..(ULong - 1)
BY ParamAssumption

LEMMA InitTypes == Init => TypeInv
<1> SUFFICES ASSUME Init  PROVE TypeInv
  OBVIOUS
<1>1. TypeOK
  <2>1. /\ 0 \in 0..MaxCalls /\ 0 \in 0..(ULong - 1) /\ Garbage \subseteq 0..(ULong - 1)
    BY ParamAssumption
  <2>2. invoked \in [Conns -> 0..(ULong - 1)]
    BY <2>1 DEF Init
  <2> QED  BY <2>1, <2>2 DEF Init, TypeOK, Locations
<1>2. PlacesOK
  BY DEF Init, PlacesOK, Openers, Holding
<1> QED  BY <1>1, <1>2 DEF TypeInv

\* Where a call that ends leaves its thread
LEMMA ReturnTypes ==
  ASSUME TypeInv, NEW t \in Threads, Return(t), UNCHANGED <<ostatus, oconn>>
  PROVE  /\ pc' \in [Threads -> Locations]
         /\ point' \in [Threads -> Points \cup {NULL}]
         /\ conn' \in [Threads -> Conns \cup {NULL}]
         /\ olock' \in [Threads -> OpeningLocks \cup {NULL}]
         /\ PlacesOK'
BY DEF TypeInv, TypeOK, Return, Goto, Locations, PlacesOK, Openers, Holding

\* Closing connections only moves states and empties listen points
LEMMA CloseTypes ==
  ASSUME TypeOK, NEW S, CloseConnections(S)
  PROVE  /\ cstate' \in [Conns -> {"none", "OPEN", "CLOSING", "CLOSE", "CLOSED"}]
         /\ addresses' \in [Conns -> SUBSET Points]
BY DEF TypeOK, CloseConnections

LEMMA StillClosingType ==
  ASSUME TypeOK, NEW S \in SUBSET Conns
  PROVE  StillClosing(S) \subseteq Points
BY DEF TypeOK, StillClosing

LEMMA UncachedType ==
  ASSUME TypeOK, NEW S
  PROVE  Uncached(S) \in [Points -> Conns \cup {NULL}]
BY DEF TypeOK, Uncached

\* getClientConnection, first section
LEMMA CallTypes ==
  ASSUME TypeInv, NEW t \in Threads,
         \/ CallDestroyed(t)
         \/ \E p \in Points : CallFound(t, p) \/ CallWaits(t, p)
         \/ \E p \in Points, l \in OpeningLocks : CallOpens(t, p, l)
  PROVE  TypeInv'
<1> USE DEF TypeInv, vars, threadVars, managerVars, olockVars, connVars, countVars
<1>0. calls[t] < MaxCalls => calls[t] + 1 \in 0..MaxCalls
  BY ParamAssumption DEF TypeOK
<1>1. CASE CallDestroyed(t)
  BY <1>0, <1>1 DEF CallDestroyed, TypeOK, PlacesOK
<1>2. ASSUME NEW p \in Points, CallFound(t, p)
      PROVE  TypeInv'
  <2>1. cached[p] \in Conns
    BY <1>2 DEF CallFound, TypeOK
  <2>2. TypeOK'
    BY <1>0, <1>2, <2>1 DEF CallFound, Call, Goto, TypeOK, Locations
  <2>3. PlacesOK'
    BY <1>2, <2>1 DEF CallFound, Call, Goto, TypeOK, PlacesOK, Openers, Holding
  <2> QED  BY <2>2, <2>3
<1>3. ASSUME NEW p \in Points, CallWaits(t, p)
      PROVE  TypeInv'
  <2>1. opening[p] \in OpeningLocks
    BY <1>3 DEF CallWaits, TypeOK
  <2>2. TypeOK'
    BY <1>0, <1>3, <2>1 DEF CallWaits, Call, Goto, TypeOK, Locations
  <2>3. PlacesOK'
    BY <1>3, <2>1 DEF CallWaits, Call, Goto, TypeOK, PlacesOK, Openers, Holding
  <2> QED  BY <2>2, <2>3
<1>4. ASSUME NEW p \in Points, NEW l \in OpeningLocks, CallOpens(t, p, l)
      PROVE  TypeInv'
  <2>2. TypeOK'
    BY <1>0, <1>4 DEF CallOpens, Call, Goto, TypeOK, Locations
  <2>3. PlacesOK'
    BY <1>4 DEF CallOpens, Call, Goto, TypeOK, PlacesOK, Openers, Holding
  <2> QED  BY <2>2, <2>3
<1> QED  BY <1>1, <1>2, <1>3, <1>4

\* The thread that opens
LEMMA OpenTypes ==
  ASSUME TypeInv, NEW t \in Threads,
         \/ \E c \in Conns : OpenSucceeds(t, c)
         \/ OpenFails(t) \/ OpenFailed(t) \/ OpenThrows(t)
  PROVE  TypeInv'
<1> USE DEF TypeInv, vars, threadVars, managerVars, olockVars, connVars, countVars
<1>0. pc[t] \in Openers => point[t] \in Points /\ olock[t] \in OpeningLocks
  BY DEF PlacesOK
<1>1. ASSUME NEW c \in Conns, OpenSucceeds(t, c)
      PROVE  TypeInv'
  <2>1. {point[t]} \subseteq Points
    BY <1>0, <1>1 DEF OpenSucceeds, Openers
  <2>2. TypeOK'
    BY <1>1, <2>1 DEF OpenSucceeds, Goto, TypeOK, Locations
  <2>3. PlacesOK'
    BY <1>0, <1>1 DEF OpenSucceeds, Goto, TypeOK, PlacesOK, Openers, Holding
  <2> QED  BY <2>2, <2>3
<1>2. CASE OpenFails(t)
  <2>1. TypeOK'
    BY <1>2 DEF OpenFails, Goto, TypeOK, Locations
  <2>2. PlacesOK'
    BY <1>2 DEF OpenFails, Goto, TypeOK, PlacesOK, Openers, Holding
  <2> QED  BY <2>1, <2>2
<1>3. CASE OpenFailed(t)
  <2>1. TypeOK'
    BY <1>3 DEF OpenFailed, Return, Goto, TypeOK, Locations
  <2>2. PlacesOK'
    BY <1>3 DEF OpenFailed, Return, Goto, TypeOK, PlacesOK, Openers, Holding
  <2> QED  BY <2>1, <2>2
<1>4. CASE OpenThrows(t)
  <2>1. TypeOK'
    BY <1>0, <1>4, ReturnTypes DEF OpenThrows, TypeOK, Openers
  <2>2. PlacesOK'
    BY <1>4, ReturnTypes DEF OpenThrows
  <2> QED  BY <2>1, <2>2
<1> QED  BY <1>1, <1>2, <1>3, <1>4

LEMMA RegisterTypes ==
  ASSUME TypeInv, NEW t \in Threads,
         (\E V \in SUBSET table : Register(t, V)) \/ RegisterFull(t)
  PROVE  TypeInv'
<1> USE DEF TypeInv, vars, threadVars, managerVars, olockVars, connVars, countVars
<1>0. pc[t] = "register" /\ conn[t] \in Conns /\ point[t] \in Points /\ olock[t] \in OpeningLocks
  BY DEF Register, RegisterFull, PlacesOK, Openers, Holding
<1>1. ASSUME NEW V \in SUBSET table, Register(t, V)
      PROVE  TypeInv'
  <2>1. cached' \in [Points -> Conns \cup {NULL}]
    BY <1>0, <1>1, UncachedType DEF Register
  <2>2. /\ cstate' \in [Conns -> {"none", "OPEN", "CLOSING", "CLOSE", "CLOSED"}]
        /\ addresses' \in [Conns -> SUBSET Points]
    BY <1>1, CloseTypes DEF Register
  <2>5. disturbed' \subseteq Points
    BY <1>1, StillClosingType DEF Register, TypeOK
  <2>3. TypeOK'
    BY <1>0, <1>1, <2>1, <2>2, <2>5 DEF Register, Goto, TypeOK, Locations
  <2>4. PlacesOK'
    BY <1>0, <1>1 DEF Register, Goto, TypeOK, PlacesOK, Openers, Holding
  <2> QED  BY <2>3, <2>4
<1>2. CASE RegisterFull(t)
  <2>1. /\ cstate' \in [Conns -> {"none", "OPEN", "CLOSING", "CLOSE", "CLOSED"}]
        /\ addresses' \in [Conns -> SUBSET Points]
    BY <1>2, CloseTypes DEF RegisterFull
  <2>2. /\ Return(t)
        /\ UNCHANGED <<reg, calls, cached, opening, table, destroyed, ostatus, oconn, early, countVars>>
        /\ abandoned' = abandoned \cup {olock[t]}
    BY <1>2 DEF RegisterFull
  <2>4. disturbed' \subseteq Points
    BY <1>0, <1>2, StillClosingType DEF RegisterFull, TypeOK
  <2>3. TypeOK'
    BY <1>0, <2>1, <2>2, <2>4, ReturnTypes DEF TypeOK
  <2> QED  BY <2>2, <2>3, ReturnTypes
<1> QED  BY <1>1, <1>2

\* The threads that wait
LEMMA WaitTypes ==
  ASSUME TypeInv, NEW t \in Threads, WaitOpened(t) \/ WaitFails(t) \/ EraseOpening(t)
  PROVE  TypeInv'
<1> USE DEF TypeInv, vars, threadVars, managerVars, olockVars, connVars, countVars
<1>0. pc[t] \in {"wait", "erase"} /\ point[t] \in Points /\ olock[t] \in OpeningLocks
  BY DEF WaitOpened, WaitFails, EraseOpening, PlacesOK
<1>1. CASE WaitOpened(t)
  <2>1. oconn[olock[t]] \in Conns
    BY <1>0, <1>1 DEF WaitOpened, PlacesOK
  <2>2. TypeOK'
    BY <1>1, <2>1 DEF WaitOpened, Goto, TypeOK, Locations
  <2>3. PlacesOK'
    BY <1>1, <2>1 DEF WaitOpened, Goto, TypeOK, PlacesOK, Openers, Holding
  <2> QED  BY <2>2, <2>3
<1>2. CASE WaitFails(t)
  <2>1. TypeOK'
    BY <1>2 DEF WaitFails, Goto, TypeOK, Locations
  <2>2. PlacesOK'
    BY <1>0, <1>2 DEF WaitFails, Goto, TypeOK, PlacesOK, Openers, Holding
  <2> QED  BY <2>1, <2>2
<1>3. CASE EraseOpening(t)
  <2>1. Return(t) /\ UNCHANGED <<reg, calls, cached, table, destroyed, olockVars, connVars>>
    BY <1>3 DEF EraseOpening
  <2>2. opening' \in [Points -> OpeningLocks \cup {NULL}] /\ disturbed' \subseteq Points
    BY <1>0, <1>3 DEF EraseOpening, TypeOK
  <2>3. TypeOK'
    BY <2>1, <2>2, ReturnTypes DEF TypeOK
  <2> QED  BY <2>1, <2>3, ReturnTypes
<1> QED  BY <1>1, <1>2, <1>3

\* The connection in use
LEMMA UseTypes ==
  ASSUME TypeInv, NEW t \in Threads,
         \/ TakeReference(t) \/ SendRequest(t) \/ CountRequest(t) \/ SendRefused(t)
         \/ WaitEnds(t) \/ RequestEnds(t)
  PROVE  TypeInv'
<1> USE DEF TypeInv, vars, threadVars, managerVars, olockVars, connVars, countVars
<1>0. /\ pc[t] \in {"raw", "got", "inc", "invoked", "dec"} /\ conn[t] \in Conns
      /\ invoked[conn[t]] \in 0..(ULong - 1)
      /\ 0 \in 0..(ULong - 1)
      /\ (reg[t] + 1) % ULong \in 0..(ULong - 1)
      /\ (reg[t] + ULong - 1) % ULong \in 0..(ULong - 1)
  <2>1. pc[t] \in {"raw", "got", "inc", "invoked", "dec"}
    BY DEF TakeReference, SendRequest, CountRequest, SendRefused, WaitEnds, RequestEnds
  <2>2. conn[t] \in Conns
    BY <2>1 DEF PlacesOK, Holding
  <2>3. reg[t] \in 0..(ULong - 1) /\ 0 \in 0..(ULong - 1)
    BY ParamAssumption DEF TypeOK
  <2> QED  BY <2>1, <2>2, <2>3, CountType DEF TypeOK
<1>1. CASE TakeReference(t) \/ SendRequest(t) \/ WaitEnds(t) \/ CountRequest(t)
  <2>1. TypeOK'
    BY <1>0, <1>1 DEF TakeReference, SendRequest, WaitEnds, CountRequest, Store, Goto, TypeOK,
                      Locations
  <2>2. PlacesOK'
    BY <1>0, <1>1 DEF TakeReference, SendRequest, WaitEnds, CountRequest, Goto, TypeOK,
                      PlacesOK, Openers, Holding
  <2> QED  BY <2>1, <2>2
<1>2. CASE SendRefused(t) \/ RequestEnds(t)
  <2>1. /\ Return(t) /\ UNCHANGED <<calls, managerVars, olockVars, cstate, addresses, early>>
        /\ reg' = [reg EXCEPT ![t] = 0] \/ reg' = reg
        /\ \/ invoked' = invoked
           \/ invoked' = [invoked EXCEPT ![conn[t]] = (reg[t] + ULong - 1) % ULong]
        /\ miscounted' \subseteq miscounted \cup {conn[t]}
    BY <1>2 DEF SendRefused, RequestEnds, Store
  <2>2. TypeOK'
    BY <1>0, <2>1, ReturnTypes DEF TypeOK
  <2> QED  BY <2>1, <2>2, ReturnTypes
<1> QED  BY <1>1, <1>2

\* Closing, and ConnectionManager::destroy
LEMMA CloseStepTypes ==
  ASSUME TypeInv, (\E c \in Conns : CloseStep(c)) \/ Destroy
  PROVE  TypeInv'
<1> USE DEF TypeInv, vars, threadVars, managerVars, olockVars, connVars, countVars
<1>1. /\ UNCHANGED <<threadVars, opening, disturbed, olockVars, countVars>>
      /\ early' \subseteq Conns
  BY DEF CloseStep, CloseBegins, Closing, CloseEnds, Destroy, TypeOK
<1>2. PlacesOK'
  BY <1>1 DEF PlacesOK
<1>3. cached' \in [Points -> Conns \cup {NULL}]
  <2>1. \/ cached' = cached
        \/ cached' = Uncached(table)
        \/ \E c \in Conns : cached' = Uncached({c})
    BY DEF CloseStep, CloseBegins, Closing, CloseEnds, Destroy
  <2>2. Uncached(table) \in [Points -> Conns \cup {NULL}]
    BY UncachedType
  <2>3. \A c \in Conns : Uncached({c}) \in [Points -> Conns \cup {NULL}]
    BY UncachedType
  <2> QED  BY <2>1, <2>2, <2>3 DEF TypeOK
<1>4. table' \subseteq Conns /\ destroyed' \in BOOLEAN
  BY DEF CloseStep, CloseBegins, Closing, CloseEnds, Destroy, TypeOK
<1>5. /\ cstate' \in [Conns -> {"none", "OPEN", "CLOSING", "CLOSE", "CLOSED"}]
      /\ addresses' \in [Conns -> SUBSET Points]
  BY CloseTypes DEF CloseStep, CloseBegins, Closing, CloseEnds, Destroy, TypeOK
<1>6. TypeOK'
  BY <1>1, <1>3, <1>4, <1>5 DEF TypeOK
<1> QED  BY <1>2, <1>6

LEMMA NextTypes == TypeInv /\ [Next]_vars => TypeInv'
<1> SUFFICES ASSUME TypeInv, [Next]_vars  PROVE TypeInv'
  OBVIOUS
<1>1. ASSUME NEW t \in Threads, ThreadStep(t)  PROVE TypeInv'
  BY <1>1, CallTypes, OpenTypes, RegisterTypes, WaitTypes, UseTypes DEF ThreadStep
<1>2. CASE (\E c \in Conns : CloseStep(c)) \/ Destroy
  BY <1>2, CloseStepTypes
<1>3. CASE UNCHANGED vars
  BY <1>3 DEF vars, threadVars, managerVars, olockVars, connVars, countVars, TypeInv, TypeOK,
              PlacesOK
<1> QED  BY <1>1, <1>2, <1>3 DEF Next

LEMMA TypeInvariance == Spec => []TypeInv
  BY InitTypes, NextTypes, PTL DEF Spec

\* Every variable keeps its type for any threads, listen points and
\* connections: requests_invoked stays an unsigned long however its unlocked
\* updates overlap, and set_opened always hands a connection to those who wait.
THEOREM TypeCorrect == Spec => []TypeOK
<1>1. TypeInv => TypeOK
  BY DEF TypeInv
<1> QED  BY TypeInvariance, <1>1, PTL

-----------------------------------------------------------------------------
(* Openers                                                                  *)

Opens(t, l) == pc[t] \in Openers /\ olock[t] = l

\* Every opener has a lock of its own, OPENING and not abandoned
OwnLocksOK ==
  /\ \A t, u \in Threads : Opens(t, olock[u]) /\ pc[u] \in Openers => t = u
  /\ \A t \in Threads : pc[t] \in Openers =>
       ostatus[olock[t]] = "OPENING" /\ olock[t] \notin abandoned
  /\ \A l \in abandoned : ostatus[l] = "OPENING"

\* Every lock that is OPENING has its opener, and the opener of a lock in
\* connections_opening opens this listen point
LocksServed ==
  /\ \A l \in OpeningLocks \ abandoned :
       ostatus[l] = "OPENING" => \E t \in Threads : Opens(t, l)
  /\ \A p \in Points : opening[p] \notin abandoned \cup {NULL} =>
       \E t \in Threads : Opens(t, opening[p]) /\ point[t] = p

LockInv == OwnLocksOK /\ LocksServed

\* A step of thread t that changes nobody's opening, but may erase one
LEMMA QuietLocks ==
  ASSUME TypeInv, LockInv, NEW t \in Threads,
         \A u \in Threads \ {t} : pc'[u] = pc[u] /\ olock'[u] = olock[u] /\ point'[u] = point[u],
         pc'[t] \in Openers <=> pc[t] \in Openers,
         pc[t] \in Openers => olock'[t] = olock[t] /\ point'[t] = point[t],
         UNCHANGED <<ostatus, abandoned>>,
         \A p \in Points : opening'[p] \in {opening[p], NULL}
  PROVE  LockInv'
<1>1. \A u \in Threads : /\ pc'[u] \in Openers <=> pc[u] \in Openers
                         /\ pc[u] \in Openers => olock'[u] = olock[u] /\ point'[u] = point[u]
  OBVIOUS
<1>2. OwnLocksOK'
  BY <1>1 DEF LockInv, OwnLocksOK, Opens
<1>3. LocksServed'
  BY <1>1 DEF LockInv, LocksServed, Opens
<1> QED  BY <1>2, <1>3 DEF LockInv

LEMMA CallOpensLocks ==
  ASSUME TypeInv, LockInv, NEW t \in Threads, NEW p \in Points, NEW l \in OpeningLocks,
         CallOpens(t, p, l)
  PROVE  LockInv'
<1>1. /\ pc[t] = "idle" /\ pc'[t] = "open" /\ olock'[t] = l /\ point'[t] = p
      /\ \A u \in Threads \ {t} :
           pc'[u] = pc[u] /\ olock'[u] = olock[u] /\ point'[u] = point[u]
      /\ ostatus[l] = "none" /\ ostatus'[l] = "OPENING" /\ abandoned' = abandoned
      /\ \A k \in OpeningLocks \ {l} : ostatus'[k] = ostatus[k]
      /\ opening'[p] = l /\ \A q \in Points \ {p} : opening'[q] = opening[q]
  BY DEF CallOpens, Call, Goto, TypeInv, TypeOK
<1>2. l \notin abandoned /\ \A u \in Threads : pc[u] \in Openers => olock[u] # l
  BY <1>1 DEF LockInv, OwnLocksOK
<1>3. \A u \in Threads \ {t} : pc[u] \in Openers => olock[u] \in OpeningLocks \ {l}
  BY <1>2 DEF TypeInv, PlacesOK
<1>4. OwnLocksOK'
  <2>1. \A u, v \in Threads : Opens(u, olock[v])' /\ pc'[v] \in Openers => u = v
    BY <1>1, <1>2 DEF LockInv, OwnLocksOK, Opens, Openers
  <2>2. \A u \in Threads : pc'[u] \in Openers =>
          ostatus'[olock'[u]] = "OPENING" /\ olock'[u] \notin abandoned
    BY <1>1, <1>2, <1>3 DEF LockInv, OwnLocksOK
  <2>3. \A k \in abandoned' : ostatus'[k] = "OPENING"
    BY <1>1, <1>2 DEF LockInv, OwnLocksOK, TypeInv, TypeOK
  <2> QED  BY <1>1, <2>1, <2>2, <2>3 DEF OwnLocksOK, Opens
<1>5. \A k : \A u \in Threads : Opens(u, k) => Opens(u, k)' /\ point'[u] = point[u]
  BY <1>1 DEF Opens, Openers
<1>6. Opens(t, l)' /\ point'[t] = p
  BY <1>1 DEF Opens, Openers
<1>7. LocksServed'
  <2>1. ASSUME NEW k \in OpeningLocks \ abandoned', ostatus'[k] = "OPENING"
        PROVE  \E u \in Threads : Opens(u, k)'
    BY <1>1, <1>5, <1>6, <2>1 DEF LockInv, LocksServed
  <2>2. ASSUME NEW q \in Points, opening'[q] \notin abandoned' \cup {NULL}
        PROVE  \E u \in Threads : Opens(u, opening[q])' /\ point'[u] = q
    <3>1. CASE q = p
      BY <1>1, <3>1 DEF Opens, Openers
    <3>2. CASE q # p
      <4>1. PICK u \in Threads : Opens(u, opening[q]) /\ point[u] = q
        BY <1>1, <2>2, <3>2 DEF LockInv, LocksServed
      <4>2. pc'[u] \in Openers /\ olock'[u] = opening'[q] /\ point'[u] = q
        BY <1>1, <1>5, <3>2, <4>1 DEF Opens
      <4> QED  BY <4>2 DEF Opens
    <3> QED  BY <3>1, <3>2
  <2> QED  BY <2>1, <2>2 DEF LocksServed, Opens
<1> QED  BY <1>4, <1>7 DEF LockInv

\* An opener that leaves has unlocked its OpeningLock and erased it, or
\* abandoned it
LEMMA LeaveLocks ==
  ASSUME TypeInv, LockInv, NEW t \in Threads, pc[t] \in Openers, pc'[t] \notin Openers,
         \A u \in Threads \ {t} : pc'[u] = pc[u] /\ olock'[u] = olock[u] /\ point'[u] = point[u],
         \/ /\ \E s \in {"OPENED", "ERROR"} : ostatus' = [ostatus EXCEPT ![olock[t]] = s]
            /\ opening' = [opening EXCEPT ![point[t]] = NULL]
            /\ abandoned' = abandoned
         \/ UNCHANGED <<ostatus, opening>> /\ abandoned' = abandoned \cup {olock[t]}
  PROVE  LockInv'
<1>1. PICK l \in OpeningLocks, p \in Points : l = olock[t] /\ p = point[t]
  BY DEF TypeInv, PlacesOK
<1>2. \A u \in Threads : pc'[u] \in Openers => u # t /\ pc[u] \in Openers
  OBVIOUS
<1>3. \A u \in Threads : u # t /\ pc[u] \in Openers => olock[u] \in OpeningLocks \ {l}
  BY <1>1 DEF LockInv, OwnLocksOK, Opens, TypeInv, PlacesOK
<1>4. \A k \in OpeningLocks \ {l} :
        ostatus'[k] = ostatus[k] /\ (k \in abandoned' <=> k \in abandoned)
  BY <1>1 DEF TypeInv, TypeOK
<1>5. ostatus[l] = "OPENING" /\ l \notin abandoned
  BY <1>1 DEF LockInv, OwnLocksOK
<1>6. OwnLocksOK'
  <2>1. \A u, v \in Threads : Opens(u, olock[v])' /\ pc'[v] \in Openers => u = v
    BY <1>2 DEF LockInv, OwnLocksOK, Opens
  <2>2. \A u \in Threads : pc'[u] \in Openers =>
          ostatus'[olock'[u]] = "OPENING" /\ olock'[u] \notin abandoned'
    BY <1>2, <1>3, <1>4 DEF LockInv, OwnLocksOK
  <2>3. \A k \in abandoned' : ostatus'[k] = "OPENING"
    BY <1>1, <1>4, <1>5 DEF LockInv, OwnLocksOK, TypeInv, TypeOK
  <2> QED  BY <2>1, <2>2, <2>3 DEF OwnLocksOK, Opens
<1>7. LocksServed'
  <2>1. ASSUME NEW k \in OpeningLocks \ abandoned', ostatus'[k] = "OPENING"
        PROVE  \E u \in Threads : Opens(u, k)'
    <3>1. k # l
      BY <1>1, <2>1 DEF TypeInv, TypeOK
    <3>2. PICK u \in Threads : Opens(u, k)
      BY <1>4, <2>1, <3>1 DEF LockInv, LocksServed
    <3> QED  BY <1>1, <3>1, <3>2 DEF Opens
  <2>2. ASSUME NEW q \in Points, opening'[q] \notin abandoned' \cup {NULL}
        PROVE  \E u \in Threads : pc'[u] \in Openers /\ olock'[u] = opening'[q] /\ point'[u] = q
    <3>1. opening'[q] = opening[q] /\ opening[q] \in OpeningLocks \ abandoned
      BY <1>1, <2>2 DEF TypeInv, TypeOK
    <3>2. PICK u \in Threads : pc[u] \in Openers /\ olock[u] = opening[q] /\ point[u] = q
      BY <3>1, SetsAssumption DEF LockInv, LocksServed, Opens
    <3>3. u # t
      BY <1>1, <2>2, <3>1, <3>2, SetsAssumption DEF TypeInv, TypeOK
    <3> QED  BY <3>1, <3>2, <3>3
  <2> QED  BY <2>1, <2>2 DEF LocksServed, Opens
<1> QED  BY <1>6, <1>7 DEF LockInv

LEMMA NextLocks == TypeInv /\ LockInv /\ [Next]_vars => LockInv'
<1> SUFFICES ASSUME TypeInv, LockInv, [Next]_vars  PROVE LockInv'
  OBVIOUS
<1> USE DEF TypeInv, threadVars, managerVars, olockVars, connVars
<1>1. ASSUME NEW t \in Threads,
             \/ CallDestroyed(t)
             \/ \E p \in Points : CallFound(t, p) \/ CallWaits(t, p)
             \/ \E c \in Conns : OpenSucceeds(t, c)
             \/ OpenFails(t) \/ WaitOpened(t) \/ WaitFails(t) \/ EraseOpening(t)
             \/ TakeReference(t) \/ SendRequest(t) \/ CountRequest(t) \/ SendRefused(t)
             \/ WaitEnds(t) \/ RequestEnds(t)
      PROVE  LockInv'
  <2>1. /\ \A u \in Threads \ {t} :
             pc'[u] = pc[u] /\ olock'[u] = olock[u] /\ point'[u] = point[u]
        /\ UNCHANGED <<ostatus, abandoned>>
    BY <1>1 DEF CallDestroyed, CallFound, CallWaits, Call, OpenSucceeds, OpenFails, WaitOpened,
                WaitFails, EraseOpening, TakeReference, SendRequest, CountRequest, SendRefused,
                WaitEnds, RequestEnds, Return, Goto, TypeOK
  <2>2. /\ pc'[t] \in Openers <=> pc[t] \in Openers
        /\ pc[t] \in Openers => olock'[t] = olock[t] /\ point'[t] = point[t]
    BY <1>1 DEF CallDestroyed, CallFound, CallWaits, Call, OpenSucceeds, OpenFails, WaitOpened,
                WaitFails, EraseOpening, TakeReference, SendRequest, CountRequest, SendRefused,
                WaitEnds, RequestEnds, Return, Goto, TypeOK, Openers
  <2>3. \A p \in Points : opening'[p] \in {opening[p], NULL}
    BY <1>1 DEF CallDestroyed, CallFound, CallWaits, Call, OpenSucceeds, OpenFails, WaitOpened,
                WaitFails, EraseOpening, TakeReference, SendRequest, CountRequest, SendRefused,
                WaitEnds, RequestEnds, TypeOK
  <2> QED  BY <2>1, <2>2, <2>3, QuietLocks
<1>2. ASSUME NEW t \in Threads, NEW p \in Points, NEW l \in OpeningLocks, CallOpens(t, p, l)
      PROVE  LockInv'
  BY <1>2, CallOpensLocks
<1>3. ASSUME NEW t \in Threads,
             OpenFailed(t) \/ OpenThrows(t) \/ (\E V \in SUBSET table : Register(t, V)) \/ RegisterFull(t)
      PROVE  LockInv'
  <2>1. /\ pc[t] \in Openers /\ pc'[t] \notin Openers
        /\ \A u \in Threads \ {t} :
             pc'[u] = pc[u] /\ olock'[u] = olock[u] /\ point'[u] = point[u]
    BY <1>3 DEF OpenFailed, OpenThrows, Register, RegisterFull, Return, Goto, TypeOK, Openers
  <2>2. \/ /\ \E s \in {"OPENED", "ERROR"} : ostatus' = [ostatus EXCEPT ![olock[t]] = s]
           /\ opening' = [opening EXCEPT ![point[t]] = NULL]
           /\ abandoned' = abandoned
        \/ UNCHANGED <<ostatus, opening>> /\ abandoned' = abandoned \cup {olock[t]}
    BY <1>3 DEF OpenFailed, OpenThrows, Register, RegisterFull
  <2> QED  BY <2>1, <2>2, LeaveLocks
<1>4. CASE (\E c \in Conns : CloseStep(c)) \/ Destroy \/ UNCHANGED vars
  <2>1. UNCHANGED <<pc, olock, point, opening, ostatus, abandoned>>
    BY <1>4 DEF CloseStep, CloseBegins, Closing, CloseEnds, Destroy, vars
  <2> QED  BY <2>1 DEF LockInv, OwnLocksOK, LocksServed, Opens
<1> QED  BY <1>1, <1>2, <1>3, <1>4 DEF Next, ThreadStep

LEMMA InitLocks == Init => LockInv
BY DEF Init, LockInv, OwnLocksOK, LocksServed, Opens, Openers

LEMMA LockInvariance == Spec => []LockInv
  BY InitLocks, NextLocks, TypeInvariance, PTL DEF Spec

\* Every OpeningLock that can be found or waited on has its opener at work, or
\* was abandoned by an opening that raised TRANSIENT: with any failures,
\* timeouts and erased openings, nobody waits for another thread that is gone.
THEOREM OpenersAreThere == Spec => []OpenerUnlocks
<1>1. TypeInv /\ LockInv => OpenerUnlocks
  BY DEF TypeInv, PlacesOK, LockInv, LocksServed, OpenerUnlocks, HasOpener, Opens, Openers
<1> QED  BY <1>1, LockInvariance, TypeInvariance, PTL

-----------------------------------------------------------------------------
(* Open connections are found                                               *)

\* At a listen point that is not disturbed, whoever opens has his lock in
\* connections_opening, and nothing is cached meanwhile
OpeningOK ==
  /\ \A t \in Threads : pc[t] \in Openers /\ point[t] \notin disturbed =>
       opening[point[t]] = olock[t]
  /\ \A p \in Points \ disturbed : opening[p] # NULL => cached[p] = NULL

\* Connections before their registration are their openers' own
NewConnsOK ==
  /\ \A c \in Conns : cstate[c] = "none" => c \notin table /\ addresses[c] = {}
  /\ \A t \in Threads : pc[t] = "register" =>
       /\ conn[t] \notin table /\ addresses[conn[t]] \subseteq {point[t]}
       /\ cstate[conn[t]] # "none"
  /\ \A t, u \in Threads :
       pc[t] = "register" /\ pc[u] = "register" /\ conn[t] = conn[u] => t = u

TableOK == \A c \in table : \A p \in addresses[c] \ disturbed : cached[p] = c

\* A connection outside the table whose close is still to come is about to be
\* registered
UnregisteredOK ==
  ~destroyed => \A c \in Conns : cstate[c] \in {"OPEN", "CLOSING"} /\ c \notin table =>
    \A p \in addresses[c] \ disturbed :
      \E t \in Threads : pc[t] = "register" /\ conn[t] = c /\ point[t] = p

FindInv == OpeningOK /\ NewConnsOK /\ TableOK /\ UnregisteredOK

\* There is one opener at a listen point that is not disturbed
LEMMA OneOpener ==
  ASSUME TypeInv, LockInv, OpeningOK, NEW t \in Threads, NEW u \in Threads,
         pc[t] \in Openers, pc[u] \in Openers, point[t] = point[u], point[t] \notin disturbed
  PROVE  t = u
BY DEF OpeningOK, LockInv, OwnLocksOK, Opens

\* A step of thread t that touches neither openings nor connections
LEMMA QuietFind ==
  ASSUME TypeInv, FindInv, NEW t \in Threads,
         UNCHANGED <<managerVars, cstate, addresses>>,
         \A u \in Threads \ {t} :
           pc'[u] = pc[u] /\ conn'[u] = conn[u] /\ point'[u] = point[u] /\ olock'[u] = olock[u],
         \/ pc[t] # "register" /\ pc'[t] \notin Openers
         \/ pc[t] = "open" /\ pc'[t] = "failed" /\ UNCHANGED <<olock, point>>
  PROVE  FindInv'
<1> USE DEF FindInv, managerVars
<1>1. \A u \in Threads : /\ pc'[u] = "register" => u # t
                         /\ pc[u] = "register" => u # t
                         /\ pc'[u] \in Openers => pc[u] \in Openers /\ olock'[u] = olock[u] /\ point'[u] = point[u]
  BY DEF Openers
<1>2. OpeningOK'
  BY <1>1 DEF OpeningOK
<1>3. NewConnsOK'
  BY <1>1 DEF NewConnsOK
<1>4. TableOK'
  BY DEF TableOK
<1>5. UnregisteredOK'
  BY <1>1 DEF UnregisteredOK
<1> QED  BY <1>2, <1>3, <1>4, <1>5

LEMMA CallOpensFind ==
  ASSUME TypeInv, LockInv, FindInv, NEW t \in Threads, NEW p \in Points, NEW l \in OpeningLocks,
         CallOpens(t, p, l)
  PROVE  FindInv'
<1> USE DEF TypeInv, FindInv
<1>1. /\ pc[t] = "idle" /\ pc'[t] = "open" /\ point'[t] = p /\ olock'[t] = l /\ opening'[p] = l
      /\ opening[p] = NULL /\ cached[p] = NULL
      /\ \A q \in Points \ {p} : opening'[q] = opening[q]
      /\ \A u \in Threads \ {t} : pc'[u] = pc[u] /\ point'[u] = point[u] /\ olock'[u] = olock[u]
      /\ UNCHANGED <<conn, cached, table, destroyed, disturbed, cstate, addresses>>
  BY DEF CallOpens, Call, Goto, TypeOK, connVars
<1>2. \A u \in Threads \ {t} : pc[u] \in Openers /\ point[u] \notin disturbed =>
        point[u] # p /\ point[u] \in Points
  BY <1>1, SetsAssumption DEF OpeningOK, PlacesOK
<1>3. OpeningOK'
  BY <1>1, <1>2 DEF OpeningOK
<1>4. NewConnsOK'
  BY <1>1 DEF NewConnsOK
<1>5. TableOK'
  BY <1>1 DEF TableOK
<1>6. UnregisteredOK'
  BY <1>1 DEF UnregisteredOK
<1> QED  BY <1>3, <1>4, <1>5, <1>6

LEMMA OpenSucceedsFind ==
  ASSUME TypeInv, FindInv, NEW t \in Threads, NEW c \in Conns, OpenSucceeds(t, c)
  PROVE  FindInv'
<1> USE DEF TypeInv, FindInv
<1>1. PICK p \in Points : p = point[t]
  BY DEF OpenSucceeds, PlacesOK, Openers
<1>2. /\ pc[t] = "open" /\ pc'[t] = "register" /\ conn'[t] = c
      /\ \A u \in Threads \ {t} : pc'[u] = pc[u] /\ conn'[u] = conn[u]
      /\ cstate[c] = "none" /\ cstate'[c] = "OPEN" /\ addresses'[c] = {p}
      /\ \A d \in Conns \ {c} : cstate'[d] = cstate[d] /\ addresses'[d] = addresses[d]
      /\ UNCHANGED <<point, olock, managerVars>>
  BY <1>1 DEF OpenSucceeds, Goto, TypeOK
<1>3. OpeningOK'
  BY <1>2 DEF OpeningOK, Openers, managerVars
<1>4. NewConnsOK'
  <2>1. \A u \in Threads : pc[u] = "register" => u # t /\ conn[u] # c /\ conn[u] \in Conns
    BY <1>2 DEF NewConnsOK, PlacesOK, Holding
  <2>2. c \notin table
    BY <1>2 DEF NewConnsOK
  <2> QED  BY <1>1, <1>2, <2>1, <2>2 DEF NewConnsOK, managerVars
<1>5. TableOK'
  <2>1. c \notin table /\ table \subseteq Conns
    BY <1>2 DEF NewConnsOK, TypeOK
  <2> QED  BY <1>2, <2>1 DEF TableOK, managerVars
<1>6. UnregisteredOK'
  <2> SUFFICES ASSUME ~destroyed, NEW d \in Conns, cstate'[d] \in {"OPEN", "CLOSING"},
                      d \notin table, NEW q \in addresses'[d] \ disturbed
               PROVE  \E u \in Threads : pc'[u] = "register" /\ conn'[u] = d /\ point[u] = q
    BY <1>2 DEF UnregisteredOK, managerVars
  <2>1. CASE d = c
    BY <1>1, <1>2, <2>1
  <2>2. CASE d # c
    BY <1>2, <2>2 DEF UnregisteredOK
  <2> QED  BY <2>1, <2>2
<1> QED  BY <1>3, <1>4, <1>5, <1>6

\* An opener that gives up, or a waiter: an opening is erased.  If it was
\* another's and still under way, the listen point is disturbed.
LEMMA EraseFind ==
  ASSUME TypeInv, LockInv, FindInv, NEW t \in Threads, OpenFailed(t) \/ EraseOpening(t)
  PROVE  FindInv'
<1> USE DEF TypeInv, FindInv
<1>1. PICK p \in Points : p = point[t]
  BY DEF OpenFailed, EraseOpening, PlacesOK, Openers
<1>2. /\ pc[t] # "register" /\ pc'[t] = "idle"
      /\ \A u \in Threads \ {t} :
           pc'[u] = pc[u] /\ conn'[u] = conn[u] /\ point'[u] = point[u] /\ olock'[u] = olock[u]
      /\ UNCHANGED <<cached, table, destroyed, cstate, addresses>>
      /\ opening'[p] = NULL /\ \A q \in Points \ {p} : opening'[q] = opening[q]
      /\ disturbed \subseteq disturbed'
  BY <1>1 DEF OpenFailed, EraseOpening, Return, Goto, TypeOK, connVars
<1>3. \A u \in Threads : pc'[u] \in Openers => u # t /\ pc[u] \in Openers
  BY <1>2 DEF Openers
<1>4. \A u \in Threads : pc'[u] \in Openers /\ point[u] \notin disturbed' =>
        point[u] # p /\ point[u] \in Points
  <2> SUFFICES ASSUME NEW u \in Threads, pc'[u] \in Openers, point[u] = p, p \notin disturbed'
               PROVE  FALSE
    BY <1>3 DEF PlacesOK
  <2>1. /\ u # t /\ pc[u] \in Openers /\ p \notin disturbed
        /\ opening[p] = olock[u] /\ olock[u] \notin abandoned \cup {NULL}
    <3>1. u # t /\ pc[u] \in Openers /\ p \notin disturbed
      BY <1>2, <1>3
    <3>2. olock[u] \in OpeningLocks \ abandoned
      BY <3>1 DEF PlacesOK, LockInv, OwnLocksOK
    <3> QED  BY <3>1, <3>2, SetsAssumption DEF OpeningOK
  <2>2. CASE OpenFailed(t)
    <3>1. pc[t] \in Openers
      BY <2>2 DEF OpenFailed, Openers
    <3> QED  BY <1>1, <2>1, <3>1, OneOpener
  <2>3. CASE EraseOpening(t)
    BY <1>1, <2>1, <2>3 DEF EraseOpening
  <2> QED  BY <2>2, <2>3
<1>5. OpeningOK'
  BY <1>2, <1>3, <1>4 DEF OpeningOK
<1>6. NewConnsOK'
  BY <1>2, <1>3 DEF NewConnsOK, Openers
<1>7. TableOK'
  BY <1>2 DEF TableOK
<1>8. UnregisteredOK'
  BY <1>2 DEF UnregisteredOK
<1> QED  BY <1>5, <1>6, <1>7, <1>8

\* TRANSIENT leaves the opening as it is
LEMMA OpenThrowsFind ==
  ASSUME TypeInv, FindInv, NEW t \in Threads, OpenThrows(t)
  PROVE  FindInv'
<1>1. /\ UNCHANGED <<managerVars, cstate, addresses>> /\ pc[t] = "open" /\ pc'[t] = "idle"
      /\ \A u \in Threads \ {t} :
           pc'[u] = pc[u] /\ conn'[u] = conn[u] /\ point'[u] = point[u] /\ olock'[u] = olock[u]
  BY DEF OpenThrows, Return, Goto, TypeInv, TypeOK, connVars
<1> QED  BY <1>1, QuietFind DEF Openers

\* remove_listen_points, for one listen point
LEMMA UncachedAt ==
  ASSUME NEW S, NEW p \in Points
  PROVE  Uncached(S)[p] = IF \E d \in S : p \in addresses[d] \ SslPoints THEN NULL ELSE cached[p]
<1>1. p \in (UNION {addresses[c] : c \in S}) \ SslPoints <=> \E d \in S : p \in addresses[d] \ SslPoints
  <2>1. p \in UNION {addresses[c] : c \in S} <=> \E A \in {addresses[c] : c \in S} : p \in A
    BY Zenon
  <2>2. \A A : A \in {addresses[c] : c \in S} <=> \E c \in S : A = addresses[c]
    OBVIOUS
  <2>3. p \in UNION {addresses[c] : c \in S} <=> \E d \in S : p \in addresses[d]
    BY <2>1, <2>2, Zenon
  <2> QED  BY <2>3
<1>2. Uncached(S)[p] = IF p \in (UNION {addresses[c] : c \in S}) \ SslPoints THEN NULL ELSE cached[p]
  BY DEF Uncached
<1> QED  BY <1>1, <1>2

\* What closing the connections of S does to each connection
LEMMA CloseEach ==
  ASSUME TypeOK, NEW S, CloseConnections(S), NEW d \in Conns
  PROVE  /\ addresses'[d] \subseteq addresses[d]
         /\ d \notin S \/ cstate[d] # "OPEN" =>
              cstate'[d] = cstate[d] /\ addresses'[d] = addresses[d]
         /\ d \in S /\ cstate[d] = "OPEN" => cstate'[d] = "CLOSED" /\ addresses'[d] = {}
         /\ cstate'[d] = "none" <=> cstate[d] = "none"
BY DEF TypeOK, CloseConnections

LEMMA StillClosingEach ==
  ASSUME NEW S, NEW d \in S, cstate[d] = "CLOSING"
  PROVE  addresses[d] \subseteq StillClosing(S)
<1>1. addresses[d] \in {addresses[c] : c \in {e \in S : cstate[e] = "CLOSING"}}
  OBVIOUS
<1> QED  BY <1>1, Zenon DEF StillClosing

LEMMA RegisterFind ==
  ASSUME TypeInv, LockInv, FindInv, NEW t \in Threads, NEW V \in SUBSET table, Register(t, V)
  PROVE  FindInv'
<1> USE DEF TypeInv, FindInv
<1>1. PICK p \in Points, c \in Conns : p = point[t] /\ c = conn[t]
  BY DEF Register, PlacesOK, Openers, Holding
<1>2. /\ pc[t] = "register" /\ pc'[t] = "raw"
      /\ \A u \in Threads \ {t} : pc'[u] = pc[u]
      /\ UNCHANGED <<point, conn, olock, destroyed>>
      /\ table' = (table \ V) \cup {c}
      /\ opening'[p] = NULL /\ \A q \in Points \ {p} : opening'[q] = opening[q]
      /\ CloseConnections(V)
      /\ disturbed' = disturbed \cup StillClosing(V)
  BY <1>1 DEF Register, Goto, TypeOK
<1>3. /\ cached'[p] = c
      /\ \A q \in Points \ {p} :
           cached'[q] = IF \E d \in V : q \in addresses[d] \ SslPoints THEN NULL ELSE cached[q]
  <2>1. cached' = [Uncached(V) EXCEPT ![p] = c] /\ Uncached(V) \in [Points -> Conns \cup {NULL}]
    BY <1>1, UncachedType DEF Register
  <2> QED  BY <2>1, UncachedAt
<1>4. /\ c \notin table /\ addresses[c] \subseteq {p} /\ cstate[c] # "none"
      /\ p \notin disturbed => cached[p] = NULL
  <2>1. c \notin table /\ addresses[c] \subseteq {p} /\ cstate[c] # "none"
    BY <1>1, <1>2 DEF NewConnsOK
  <2>2. olock[t] # NULL
    BY <1>2, SetsAssumption DEF PlacesOK, Openers
  <2> QED  BY <1>1, <1>2, <2>1, <2>2 DEF OpeningOK, Openers
<1>5. \A u \in Threads : pc'[u] \in Openers => u # t /\ pc[u] \in Openers
  BY <1>2 DEF Openers
<1>6. OpeningOK'
  <2>1. \A q \in Points \ disturbed' : opening'[q] # NULL => cached'[q] = NULL
    BY <1>2, <1>3 DEF OpeningOK
  <2>2. \A u \in Threads : pc'[u] \in Openers /\ point[u] \notin disturbed =>
          point[u] # p /\ point[u] \in Points
    <3>1. pc[t] \in Openers
      BY <1>2 DEF Openers
    <3> QED  BY <1>1, <1>5, <3>1, OneOpener DEF PlacesOK
  <2> QED  BY <1>2, <1>5, <2>1, <2>2 DEF OpeningOK
<1>7. NewConnsOK'
  <2>1. \A d \in Conns : /\ addresses'[d] \subseteq addresses[d]
                         /\ cstate'[d] = "none" <=> cstate[d] = "none"
    BY <1>2, CloseEach
  <2>2. \A u \in Threads : pc'[u] = "register" =>
          u # t /\ pc[u] = "register" /\ conn[u] # c /\ conn[u] \in Conns
    BY <1>1, <1>2 DEF NewConnsOK, PlacesOK, Holding
  <2>3. \A d \in Conns : cstate'[d] = "none" => d \notin table' /\ addresses'[d] = {}
    BY <1>2, <1>4, <2>1 DEF NewConnsOK
  <2>4. \A u \in Threads : pc'[u] = "register" =>
          /\ conn'[u] \notin table' /\ addresses'[conn'[u]] \subseteq {point'[u]}
          /\ cstate'[conn'[u]] # "none"
    BY <1>2, <2>1, <2>2 DEF NewConnsOK
  <2> QED  BY <1>2, <2>2, <2>3, <2>4 DEF NewConnsOK
<1>8. TableOK'
  <2> SUFFICES ASSUME NEW d \in table', NEW q \in addresses'[d] \ disturbed'
               PROVE  cached'[q] = d
    BY DEF TableOK
  <2>1. d \in Conns /\ q \in addresses[d] /\ q \in Points /\ q \notin disturbed
    <3>1. d \in Conns
      BY <1>2 DEF TypeOK
    <3> QED  BY <1>2, <3>1, CloseEach DEF TypeOK
  <2>2. CASE d = c
    BY <1>3, <1>4, <2>1, <2>2
  <2>3. CASE d # c
    <3>1. d \in table \ V /\ cached[q] = d
      BY <1>2, <2>1, <2>3 DEF TableOK
    <3>2. q # p
      BY <1>4, <2>1, <3>1, SetsAssumption
    <3>3. \A e \in V : q \notin addresses[e]
      BY <2>1, <3>1 DEF TableOK
    <3> QED  BY <1>3, <2>1, <3>1, <3>2, <3>3
  <2> QED  BY <2>2, <2>3
<1>9. UnregisteredOK'
  <2> SUFFICES ASSUME ~destroyed, NEW d \in Conns, cstate'[d] \in {"OPEN", "CLOSING"},
                      d \notin table', NEW q \in addresses'[d] \ disturbed'
               PROVE  \E u \in Threads : pc'[u] = "register" /\ conn[u] = d /\ point[u] = q
    BY <1>2 DEF UnregisteredOK
  <2>1. d \notin V \/ cstate[d] # "OPEN"
    BY <1>2, CloseEach
  <2>2. cstate'[d] = cstate[d] /\ addresses'[d] = addresses[d]
    BY <1>2, <2>1, CloseEach
  <2>3. d \notin V
    BY <1>2, <2>1, <2>2, StillClosingEach
  <2>4. d \notin table /\ d # c /\ q \notin disturbed
    BY <1>2, <2>3
  <2> QED  BY <1>1, <1>2, <2>2, <2>4 DEF UnregisteredOK
<1> QED  BY <1>6, <1>7, <1>8, <1>9

LEMMA RegisterFullFind ==
  ASSUME TypeInv, LockInv, FindInv, NEW t \in Threads, RegisterFull(t)
  PROVE  FindInv'
<1> USE DEF TypeInv, FindInv
<1>1. PICK c \in Conns : c = conn[t]
  BY DEF RegisterFull, PlacesOK, Holding
<1>2. /\ pc[t] = "register" /\ pc'[t] = "idle"
      /\ \A u \in Threads \ {t} :
           pc'[u] = pc[u] /\ conn'[u] = conn[u] /\ point'[u] = point[u] /\ olock'[u] = olock[u]
      /\ UNCHANGED <<cached, opening, table, destroyed>>
      /\ CloseConnections({c}) /\ disturbed' = disturbed \cup StillClosing({c})
  BY <1>1 DEF RegisterFull, Return, Goto, TypeOK
<1>3. \A u \in Threads : pc'[u] \in Openers => u # t /\ pc[u] \in Openers
  BY <1>2 DEF Openers
<1>4. OpeningOK'
  BY <1>2, <1>3 DEF OpeningOK
<1>5. \A d \in Conns : /\ addresses'[d] \subseteq addresses[d]
                       /\ cstate'[d] = "none" <=> cstate[d] = "none"
                       /\ cstate'[d] \in {"OPEN", "CLOSING"} => cstate'[d] = cstate[d]
  BY <1>2, CloseEach DEF TypeOK
<1>6. NewConnsOK'
  <2>1. \A u \in Threads : pc'[u] = "register" => u # t /\ pc[u] = "register" /\ conn[u] \in Conns
    BY <1>2 DEF PlacesOK, Holding
  <2>2. \A d \in Conns : cstate'[d] = "none" => d \notin table' /\ addresses'[d] = {}
    BY <1>2, <1>5 DEF NewConnsOK
  <2> QED  BY <1>2, <1>5, <2>1, <2>2 DEF NewConnsOK
<1>7. TableOK'
  BY <1>2, <1>5 DEF TableOK, TypeOK
<1>8. UnregisteredOK'
  <2> SUFFICES ASSUME ~destroyed, NEW d \in Conns, cstate'[d] \in {"OPEN", "CLOSING"},
                      d \notin table, NEW q \in addresses'[d] \ disturbed'
               PROVE  \E u \in Threads : pc'[u] = "register" /\ conn'[u] = d /\ point'[u] = q
    BY <1>2 DEF UnregisteredOK
  <2>1. cstate[d] = cstate'[d] /\ q \in addresses[d] \ disturbed
    BY <1>2, <1>5
  <2>2. d # c
    <3>1. d = c => cstate[d] # "OPEN"
      BY <1>2, CloseEach
    <3>2. d = c /\ cstate[d] = "CLOSING" => q \in disturbed'
      BY <1>2, <2>1, StillClosingEach
    <3> QED  BY <2>1, <3>1, <3>2
  <2>3. PICK u \in Threads : pc[u] = "register" /\ conn[u] = d /\ point[u] = q
    BY <2>1 DEF UnregisteredOK
  <2> QED  BY <1>1, <1>2, <2>2, <2>3
<1> QED  BY <1>4, <1>6, <1>7, <1>8

LEMMA ClosingFind ==
  ASSUME TypeInv, FindInv, NEW c \in Conns, Closing(c)
  PROVE  FindInv'
<1> USE DEF TypeInv, FindInv
<1>1. /\ UNCHANGED <<pc, point, conn, olock, opening, destroyed, disturbed, addresses>>
      /\ cstate[c] = "CLOSING" /\ cstate'[c] = "CLOSE"
      /\ \A d \in Conns \ {c} : cstate'[d] = cstate[d]
      /\ destroyed => UNCHANGED <<cached, table>>
      /\ ~destroyed =>
           /\ table' = table \ {c}
           /\ \A q \in Points : cached'[q] = IF q \in addresses[c] \ SslPoints THEN NULL
                                             ELSE cached[q]
  <2>1. /\ UNCHANGED <<pc, point, conn, olock, opening, destroyed, disturbed, addresses>>
        /\ cstate[c] = "CLOSING" /\ cstate'[c] = "CLOSE"
        /\ \A d \in Conns \ {c} : cstate'[d] = cstate[d]
        /\ destroyed => UNCHANGED <<cached, table>>
        /\ ~destroyed => table' = table \ {c} /\ cached' = Uncached({c})
    BY DEF Closing, threadVars, TypeOK
  <2>2. \A q \in Points : Uncached({c})[q] = IF q \in addresses[c] \ SslPoints THEN NULL ELSE cached[q]
    BY UncachedAt
  <2> QED  BY <2>1, <2>2
<1>2. OpeningOK'
  BY <1>1 DEF OpeningOK
<1>3. NewConnsOK'
  BY <1>1 DEF NewConnsOK, PlacesOK, Holding
<1>4. TableOK'
  <2>1. CASE destroyed
    BY <1>1, <2>1 DEF TableOK
  <2>2. CASE ~destroyed
    <3> SUFFICES ASSUME NEW d \in table \ {c}, NEW q \in addresses[d] \ disturbed
                 PROVE  cached'[q] = d
      BY <1>1, <2>2 DEF TableOK
    <3>1. cached[q] = d /\ d # c /\ d # NULL /\ q \in Points
      BY SetsAssumption DEF TableOK, TypeOK
    <3>2. q \notin addresses[c]
      <4>1. CASE c \in table
        BY <3>1, <4>1 DEF TableOK
      <4>2. CASE c \notin table
        <5> SUFFICES ASSUME q \in addresses[c]  PROVE FALSE
          OBVIOUS
        <5>1. PICK t \in Threads : pc[t] = "register" /\ point[t] = q
          BY <1>1, <2>2, <4>2 DEF UnregisteredOK
        <5>2. opening[q] = olock[t] /\ olock[t] # NULL
          BY <5>1, SetsAssumption DEF OpeningOK, PlacesOK, Openers
        <5> QED  BY <3>1, <5>2 DEF OpeningOK
      <4> QED  BY <4>1, <4>2
    <3> QED  BY <1>1, <2>2, <3>1, <3>2
  <2> QED  BY <2>1, <2>2
<1>5. UnregisteredOK'
  BY <1>1 DEF UnregisteredOK
<1> QED  BY <1>2, <1>3, <1>4, <1>5

LEMMA CloseFind ==
  ASSUME TypeInv, FindInv, NEW c \in Conns, CloseBegins(c) \/ CloseEnds(c)
  PROVE  FindInv'
<1> USE DEF TypeInv, FindInv
<1>1. /\ UNCHANGED <<pc, point, conn, olock, cached, opening, table, destroyed, disturbed>>
      /\ \A d \in Conns :
           /\ addresses'[d] \subseteq addresses[d]
           /\ cstate'[d] = "none" <=> cstate[d] = "none"
           /\ cstate'[d] \in {"OPEN", "CLOSING"} => cstate[d] \in {"OPEN", "CLOSING"}
  BY DEF CloseBegins, CloseEnds, threadVars, managerVars, TypeOK
<1>2. OpeningOK'
  BY <1>1 DEF OpeningOK
<1>3. NewConnsOK'
  <2>1. \A d \in Conns : cstate'[d] = "none" => d \notin table' /\ addresses'[d] = {}
    BY <1>1 DEF NewConnsOK
  <2> QED  BY <1>1, <2>1 DEF NewConnsOK, PlacesOK, Holding
<1>4. TableOK'
  BY <1>1 DEF TableOK, TypeOK
<1>5. UnregisteredOK'
  BY <1>1 DEF UnregisteredOK
<1> QED  BY <1>2, <1>3, <1>4, <1>5

LEMMA DestroyFind ==
  ASSUME TypeInv, FindInv, Destroy
  PROVE  FindInv'
<1> USE DEF TypeInv, FindInv
<1>1. /\ UNCHANGED <<pc, point, conn, olock, opening, disturbed>> /\ destroyed' /\ table' = {}
      /\ CloseConnections(table)
      /\ \A q \in Points : cached'[q] \in {cached[q], NULL}
  BY DEF Destroy, Uncached, threadVars, TypeOK
<1>2. OpeningOK' /\ TableOK' /\ UnregisteredOK'
  BY <1>1 DEF OpeningOK, TableOK, UnregisteredOK
<1>3. \A d \in Conns : /\ addresses'[d] \subseteq addresses[d]
                       /\ cstate'[d] = "none" <=> cstate[d] = "none"
  BY <1>1, CloseEach
<1>4. NewConnsOK'
  <2>1. \A d \in Conns : cstate'[d] = "none" => d \notin table' /\ addresses'[d] = {}
    BY <1>1, <1>3 DEF NewConnsOK
  <2> QED  BY <1>1, <1>3, <2>1 DEF NewConnsOK, PlacesOK, Holding
<1> QED  BY <1>2, <1>4

LEMMA NextFind ==
  ASSUME TypeInv, LockInv, FindInv, [Next]_vars
  PROVE  FindInv'
<1> USE DEF TypeInv
<1>1. ASSUME NEW t \in Threads,
             \/ CallDestroyed(t)
             \/ \E p \in Points : CallFound(t, p) \/ CallWaits(t, p)
             \/ OpenFails(t) \/ WaitOpened(t) \/ WaitFails(t) \/ TakeReference(t) \/ SendRequest(t)
             \/ CountRequest(t) \/ SendRefused(t) \/ WaitEnds(t) \/ RequestEnds(t)
      PROVE  FindInv'
  <2>1. UNCHANGED <<managerVars, cstate, addresses>>
    BY <1>1 DEF CallDestroyed, CallFound, CallWaits, OpenFails, WaitOpened, WaitFails,
                TakeReference, SendRequest, CountRequest, SendRefused, WaitEnds, RequestEnds, connVars
  <2>2. \A u \in Threads \ {t} :
          pc'[u] = pc[u] /\ conn'[u] = conn[u] /\ point'[u] = point[u] /\ olock'[u] = olock[u]
    BY <1>1 DEF CallDestroyed, CallFound, CallWaits, Call, OpenFails, WaitOpened, WaitFails,
                TakeReference, SendRequest, CountRequest, SendRefused, WaitEnds, RequestEnds,
                Return, Goto, TypeOK
  <2>3. \/ pc[t] # "register" /\ pc'[t] \notin Openers
        \/ pc[t] = "open" /\ pc'[t] = "failed" /\ UNCHANGED <<olock, point>>
    BY <1>1 DEF CallDestroyed, CallFound, CallWaits, Call, OpenFails, WaitOpened, WaitFails,
                TakeReference, SendRequest, CountRequest, SendRefused, WaitEnds, RequestEnds,
                Return, Goto, TypeOK, Openers
  <2> QED  BY <2>1, <2>2, <2>3, QuietFind
<1>2. ASSUME NEW t \in Threads,
             \/ \E p \in Points, l \in OpeningLocks : CallOpens(t, p, l)
             \/ \E c \in Conns : OpenSucceeds(t, c)
             \/ \E V \in SUBSET table : Register(t, V)
             \/ RegisterFull(t)
      PROVE  FindInv'
  BY <1>2, CallOpensFind, OpenSucceedsFind, RegisterFind, RegisterFullFind
<1>3. ASSUME NEW t \in Threads, OpenFailed(t) \/ EraseOpening(t) \/ OpenThrows(t)
      PROVE  FindInv'
  BY <1>3, EraseFind, OpenThrowsFind
<1>4. ASSUME NEW c \in Conns, CloseStep(c)  PROVE FindInv'
  BY <1>4, ClosingFind, CloseFind DEF CloseStep
<1>5. CASE Destroy
  BY <1>5, DestroyFind
<1>6. CASE UNCHANGED vars
  <2>1. UNCHANGED <<pc, point, conn, olock, cached, opening, table, destroyed, disturbed, cstate,
                    addresses>>
    BY <1>6 DEF vars, threadVars, managerVars, connVars
  <2>2. OpeningOK' /\ TableOK' /\ UnregisteredOK'
    BY <2>1 DEF FindInv, OpeningOK, TableOK, UnregisteredOK
  <2>3. NewConnsOK'
    BY <2>1 DEF FindInv, NewConnsOK
  <2> QED  BY <2>2, <2>3 DEF FindInv
<1> QED  BY <1>1, <1>2, <1>3, <1>4, <1>5, <1>6 DEF Next, ThreadStep

LEMMA InitFind == Init => FindInv
BY DEF Init, FindInv, OpeningOK, NewConnsOK, TableOK, UnregisteredOK, Openers

\* A registered open connection is found under its listen points, whatever
\* openings fail, whatever connections close before or after they are
\* registered, are evicted or refused, with SSL and with destroy(), as long as
\* no waiter erases an opening that is under way there and no connection of
\* this listen point is evicted while it closes.
THEOREM OpenIsFound == Spec => []Findable
<1>1. TypeInv /\ LockInv /\ FindInv /\ [Next]_vars => FindInv'
  BY NextFind
<1>2. FindInv => Findable
  BY DEF FindInv, TableOK, Findable
<1> QED  BY InitFind, <1>1, <1>2, TypeInvariance, LockInvariance, PTL DEF Spec

-----------------------------------------------------------------------------
(* Closed connections leave client_connections                              *)

\* What is about to be registered, and was not closed too early, has its close
\* still to come
ReadyOK ==
  /\ \A c \in early : cstate[c] \in {"CLOSE", "CLOSED"}
  /\ \A t \in Threads : pc[t] = "register" /\ conn[t] \notin early =>
       cstate[conn[t]] \in {"OPEN", "CLOSING"} /\ point[t] \in addresses[conn[t]]

\* ... and so has what is cached, which is registered under its own listen point
CachedOK ==
  ~destroyed => \A p \in Points \ SslPoints : cached[p] \notin early \cup {NULL} =>
    /\ cached[p] \in table /\ p \in addresses[cached[p]]
    /\ cstate[cached[p]] \in {"OPEN", "CLOSING"}

FreshInv == ReadyOK /\ CachedOK

LEMMA QuietFresh ==
  ASSUME FreshInv, NEW t \in Threads, pc'[t] # "register",
         UNCHANGED <<cached, table, destroyed, cstate, addresses, early>>,
         \A u \in Threads \ {t} : pc'[u] = pc[u] /\ conn'[u] = conn[u] /\ point'[u] = point[u]
  PROVE  FreshInv'
<1>1. ReadyOK'
  BY DEF FreshInv, ReadyOK
<1>2. CachedOK'
  BY DEF FreshInv, CachedOK
<1> QED  BY <1>1, <1>2 DEF FreshInv

LEMMA OpenSucceedsFresh ==
  ASSUME TypeInv, FindInv, FreshInv, NEW t \in Threads, NEW c \in Conns, OpenSucceeds(t, c)
  PROVE  FreshInv'
<1> USE DEF TypeInv, FreshInv
<1>1. /\ pc'[t] = "register" /\ conn'[t] = c
      /\ \A u \in Threads \ {t} : pc'[u] = pc[u] /\ conn'[u] = conn[u]
      /\ cstate[c] = "none" /\ cstate'[c] = "OPEN" /\ addresses'[c] = {point[t]}
      /\ \A d \in Conns \ {c} : cstate'[d] = cstate[d] /\ addresses'[d] = addresses[d]
      /\ UNCHANGED <<point, cached, table, destroyed, early>>
  BY DEF OpenSucceeds, Goto, TypeOK, managerVars
<1>2. c \notin table /\ c \notin early
  BY <1>1 DEF FindInv, NewConnsOK, ReadyOK
<1>3. \A u \in Threads \ {t} : pc[u] = "register" => conn[u] \in Conns \ {c}
  BY <1>1 DEF FindInv, NewConnsOK, PlacesOK, Holding
<1>4. ReadyOK'
  BY <1>1, <1>2, <1>3 DEF ReadyOK, TypeOK
<1>5. CachedOK'
  BY <1>1, <1>2 DEF CachedOK, TypeOK
<1> QED  BY <1>4, <1>5

LEMMA RegisterFresh ==
  ASSUME TypeInv, FindInv, FreshInv, NEW t \in Threads, NEW V \in SUBSET table, Register(t, V)
  PROVE  FreshInv'
<1> USE DEF TypeInv, FreshInv
<1>1. PICK p \in Points, c \in Conns : p = point[t] /\ c = conn[t]
  BY DEF Register, PlacesOK, Openers, Holding
<1>2. /\ pc[t] = "register" /\ pc'[t] = "raw"
      /\ \A u \in Threads \ {t} : pc'[u] = pc[u]
      /\ UNCHANGED <<point, conn, destroyed, early>>
      /\ table' = (table \ V) \cup {c} /\ CloseConnections(V)
  BY <1>1 DEF Register, Goto, TypeOK
<1>3. /\ cached'[p] = c
      /\ \A q \in Points \ {p} :
           cached'[q] = IF \E d \in V : q \in addresses[d] \ SslPoints THEN NULL ELSE cached[q]
  <2>1. cached' = [Uncached(V) EXCEPT ![p] = c] /\ Uncached(V) \in [Points -> Conns \cup {NULL}]
    BY <1>1, UncachedType DEF Register
  <2> QED  BY <2>1, UncachedAt
<1>4. \A d \in Conns : d \notin V \/ cstate[d] # "OPEN" =>
        cstate'[d] = cstate[d] /\ addresses'[d] = addresses[d]
  BY <1>2, CloseEach
<1>5. \A u \in Threads : pc[u] = "register" => conn[u] \in Conns \ V
  BY DEF FindInv, NewConnsOK, PlacesOK, Holding
<1>6. ReadyOK'
  <2>1. \A d \in early' : cstate'[d] \in {"CLOSE", "CLOSED"}
    BY <1>2, <1>4 DEF ReadyOK, TypeOK
  <2>2. \A u \in Threads : pc'[u] = "register" => pc[u] = "register"
    BY <1>2
  <2> QED  BY <1>2, <1>4, <1>5, <2>1, <2>2 DEF ReadyOK
<1>7. CachedOK'
  <2> SUFFICES ASSUME ~destroyed, NEW q \in Points \ SslPoints, cached'[q] \notin early \cup {NULL}
               PROVE  /\ cached'[q] \in table' /\ q \in addresses'[cached'[q]]
                      /\ cstate'[cached'[q]] \in {"OPEN", "CLOSING"}
    BY <1>2 DEF CachedOK
  <2>1. CASE q = p
    <3>1. c \in Conns \ V /\ cstate[c] \in {"OPEN", "CLOSING"} /\ p \in addresses[c]
      BY <1>1, <1>2, <1>3, <1>5, <2>1 DEF ReadyOK
    <3> QED  BY <1>2, <1>3, <1>4, <2>1, <3>1
  <2>2. CASE q # p
    <3>1. cached'[q] = cached[q] /\ \A d \in V : q \notin addresses[d]
      BY <1>3, <2>2
    <3>2. /\ cached[q] \in Conns \ V /\ cached[q] \in table /\ q \in addresses[cached[q]]
          /\ cstate[cached[q]] \in {"OPEN", "CLOSING"}
      BY <3>1 DEF CachedOK, TypeOK
    <3> QED  BY <1>2, <1>4, <3>1, <3>2
  <2> QED  BY <2>1, <2>2
<1> QED  BY <1>6, <1>7

LEMMA RegisterFullFresh ==
  ASSUME TypeInv, FindInv, FreshInv, NEW t \in Threads, RegisterFull(t)
  PROVE  FreshInv'
<1> USE DEF TypeInv, FreshInv
<1>1. PICK c \in Conns : c = conn[t]
  BY DEF RegisterFull, PlacesOK, Holding
<1>2. /\ pc[t] = "register" /\ pc'[t] = "idle"
      /\ \A u \in Threads \ {t} : pc'[u] = pc[u] /\ conn'[u] = conn[u] /\ point'[u] = point[u]
      /\ UNCHANGED <<cached, table, destroyed, early>>
      /\ CloseConnections({c})
  BY <1>1 DEF RegisterFull, Return, Goto, TypeOK
<1>3. \A d \in Conns : d # c \/ cstate[d] # "OPEN" =>
        cstate'[d] = cstate[d] /\ addresses'[d] = addresses[d]
  BY <1>2, CloseEach
<1>4. \A u \in Threads : pc'[u] = "register" =>
        u # t /\ pc[u] = "register" /\ conn[u] \in Conns \ {c}
  BY <1>1, <1>2 DEF FindInv, NewConnsOK, PlacesOK, Holding
<1>5. ReadyOK'
  <2>1. \A d \in early' : cstate'[d] \in {"CLOSE", "CLOSED"}
    BY <1>2, <1>3 DEF ReadyOK, TypeOK
  <2> QED  BY <1>2, <1>3, <1>4, <2>1 DEF ReadyOK
<1>6. CachedOK'
  <2>1. c \notin table
    BY <1>1, <1>2 DEF FindInv, NewConnsOK
  <2> QED  BY <1>2, <1>3, <2>1 DEF CachedOK, TypeOK
<1> QED  BY <1>5, <1>6

LEMMA CloseFresh ==
  ASSUME TypeInv, FreshInv, NEW c \in Conns, CloseStep(c)
  PROVE  FreshInv'
<1> USE DEF TypeInv, FreshInv
<1>1. UNCHANGED <<pc, point, conn, destroyed>>
  BY DEF CloseStep, CloseBegins, Closing, CloseEnds, threadVars, managerVars
<1>2. CASE CloseBegins(c)
  <2>1. /\ UNCHANGED <<cached, table, addresses, early>>
        /\ cstate[c] = "OPEN" /\ cstate'[c] = "CLOSING"
        /\ \A d \in Conns \ {c} : cstate'[d] = cstate[d]
    BY <1>2 DEF CloseBegins, managerVars, TypeOK
  <2>2. ReadyOK'
    BY <1>1, <2>1 DEF ReadyOK, TypeOK, PlacesOK, Holding
  <2>3. CachedOK'
    BY <1>1, <2>1 DEF CachedOK, TypeOK
  <2> QED  BY <2>2, <2>3
<1>3. CASE Closing(c)
  <2>1. /\ UNCHANGED addresses
        /\ cstate[c] = "CLOSING" /\ cstate'[c] = "CLOSE"
        /\ \A d \in Conns \ {c} : cstate'[d] = cstate[d]
        /\ early \subseteq early' /\ early' \subseteq early \cup {c}
        /\ \A t \in Threads : pc[t] = "register" /\ conn[t] = c => c \in early'
        /\ ~destroyed => table' = table \ {c} /\ cached' = Uncached({c})
    BY <1>3 DEF Closing, Registered, TypeOK
  <2>2. ~destroyed => \A p \in Points :
          cached'[p] = IF p \in addresses[c] \ SslPoints THEN NULL ELSE cached[p]
    BY <2>1, UncachedAt
  <2>3. ReadyOK'
    <3>1. \A d \in early' : cstate'[d] \in {"CLOSE", "CLOSED"}
      BY <2>1 DEF ReadyOK, TypeOK
    <3>2. ASSUME NEW t \in Threads, pc[t] = "register", conn[t] \notin early'
          PROVE  cstate'[conn[t]] \in {"OPEN", "CLOSING"} /\ point[t] \in addresses[conn[t]]
      <4>1. conn[t] \in Conns \ {c}
        BY <2>1, <3>2 DEF PlacesOK, Holding
      <4> QED  BY <2>1, <3>2, <4>1 DEF ReadyOK
    <3> QED  BY <1>1, <2>1, <3>1, <3>2 DEF ReadyOK
  <2>4. CachedOK'
    <3> SUFFICES ASSUME ~destroyed, NEW p \in Points \ SslPoints, cached'[p] \notin early' \cup {NULL}
                 PROVE  /\ cached'[p] \in table' /\ p \in addresses'[cached'[p]]
                        /\ cstate'[cached'[p]] \in {"OPEN", "CLOSING"}
      BY <1>1 DEF CachedOK
    <3>1. /\ cached'[p] = cached[p] /\ p \notin addresses[c]
          /\ cached[p] \in table /\ p \in addresses[cached[p]]
          /\ cstate[cached[p]] \in {"OPEN", "CLOSING"}
      BY <2>1, <2>2 DEF CachedOK
    <3> QED  BY <2>1, <3>1 DEF TypeOK
  <2> QED  BY <2>3, <2>4
<1>4. CASE CloseEnds(c)
  <2>1. /\ UNCHANGED <<cached, table, early>> /\ cstate[c] = "CLOSE" /\ cstate'[c] = "CLOSED"
        /\ \A d \in Conns \ {c} : cstate'[d] = cstate[d] /\ addresses'[d] = addresses[d]
    BY <1>4 DEF CloseEnds, managerVars, TypeOK
  <2>2. ReadyOK'
    BY <1>1, <2>1 DEF ReadyOK, TypeOK, PlacesOK, Holding
  <2>3. CachedOK'
    BY <1>1, <2>1 DEF CachedOK, TypeOK
  <2> QED  BY <2>2, <2>3
<1> QED  BY <1>2, <1>3, <1>4 DEF CloseStep

\* destroy() closes what is registered only; nothing is looked up any more
LEMMA DestroyFresh ==
  ASSUME TypeInv, FindInv, FreshInv, Destroy
  PROVE  FreshInv'
<1> USE DEF TypeInv, FreshInv
<1>1. UNCHANGED <<pc, conn, point, early>> /\ destroyed' /\ CloseConnections(table)
  BY DEF Destroy, threadVars
<1>2. \A d \in Conns : d \notin table \/ cstate[d] # "OPEN" =>
        cstate'[d] = cstate[d] /\ addresses'[d] = addresses[d]
  BY <1>1, CloseEach
<1>3. \A t \in Threads : pc[t] = "register" => conn[t] \in Conns \ table
  BY DEF FindInv, NewConnsOK, PlacesOK, Holding
<1>4. \A d \in early' : cstate'[d] \in {"CLOSE", "CLOSED"}
  BY <1>1, <1>2 DEF ReadyOK, TypeOK
<1>5. ReadyOK'
  BY <1>1, <1>2, <1>3, <1>4 DEF ReadyOK
<1>6. CachedOK'
  BY <1>1 DEF CachedOK
<1> QED  BY <1>5, <1>6

LEMMA NextFresh ==
  ASSUME TypeInv, FindInv, FreshInv, [Next]_vars
  PROVE  FreshInv'
<1> USE DEF TypeInv
<1>1. ASSUME NEW t \in Threads, ThreadStep(t),
             ~\E c \in Conns : OpenSucceeds(t, c),
             ~\E V \in SUBSET table : Register(t, V), ~RegisterFull(t)
      PROVE  FreshInv'
  <2>1. UNCHANGED <<cached, table, destroyed, cstate, addresses, early>>
    BY <1>1 DEF ThreadStep, CallDestroyed, CallFound, CallWaits, CallOpens, OpenFails,
       OpenFailed, OpenThrows, WaitOpened, WaitFails, EraseOpening, TakeReference, SendRequest,
       CountRequest, SendRefused, WaitEnds, RequestEnds, managerVars, connVars
  <2>2. \A u \in Threads \ {t} :
          pc'[u] = pc[u] /\ conn'[u] = conn[u] /\ point'[u] = point[u]
    BY <1>1 DEF ThreadStep, CallDestroyed, CallFound, CallWaits, CallOpens, Call, OpenFails,
       OpenFailed, OpenThrows, WaitOpened, WaitFails, EraseOpening, TakeReference, SendRequest,
       CountRequest, SendRefused, WaitEnds, RequestEnds, Return, Goto, TypeOK
  <2>3. pc'[t] # "register"
    BY <1>1 DEF ThreadStep, CallDestroyed, CallFound, CallWaits, CallOpens, Call, OpenFails,
       OpenFailed, OpenThrows, WaitOpened, WaitFails, EraseOpening, TakeReference, SendRequest,
       CountRequest, SendRefused, WaitEnds, RequestEnds, Return, Goto, TypeOK
  <2> QED  BY <2>1, <2>2, <2>3, QuietFresh
<1>2. ASSUME NEW t \in Threads,
             \/ \E c \in Conns : OpenSucceeds(t, c)
             \/ \E V \in SUBSET table : Register(t, V)
             \/ RegisterFull(t)
      PROVE  FreshInv'
  BY <1>2, OpenSucceedsFresh, RegisterFresh, RegisterFullFresh
<1>3. ASSUME NEW c \in Conns, CloseStep(c)  PROVE FreshInv'
  BY <1>3, CloseFresh
<1>4. CASE Destroy
  BY <1>4, DestroyFresh
<1>5. CASE UNCHANGED vars
  BY <1>5 DEF FreshInv, ReadyOK, CachedOK, vars, threadVars, managerVars, connVars
<1> QED  BY <1>1, <1>2, <1>3, <1>4, <1>5 DEF Next

\* Until the ORB is destroyed, a connection that is closed for good is never
\* found in client_connections, whatever fails, is given up, evicted and closed
\* at once, unless it was closed before it was registered.
THEOREM ClosedIsForgotten == Spec => []CacheIsFresh
<1>1. TypeInv /\ LockInv /\ FindInv /\ [Next]_vars => FindInv'
  BY NextFind
<1>2. TypeInv /\ FindInv /\ FreshInv /\ [Next]_vars => FreshInv'
  BY NextFresh
<1>3. Init => FreshInv
  BY DEF Init, FreshInv, ReadyOK, CachedOK
<1>4. FreshInv => CacheIsFresh
  BY DEF FreshInv, CachedOK, CacheIsFresh
<1> QED  BY InitFind, <1>1, <1>2, <1>3, <1>4, TypeInvariance, LockInvariance, PTL DEF Spec

-----------------------------------------------------------------------------
(* Pending requests are counted                                             *)

Pending(c) == {t \in Threads : conn[t] = c /\ pc[t] \in {"invoked", "dec"}}

\* requests_invoked, if it began at 0 and no update of it was lost
CountOK == \A c \in Conns \ miscounted : invoked[c] = Cardinality(Pending(c))

\* Nobody but t has connection c, nor can find it
Own(t, c) ==
  /\ \A u \in Threads \ {t} : conn[u] # c
  /\ \A p \in Points : cached[p] # c
  /\ \A l \in OpeningLocks : oconn[l] # c

\* A connection that does not exist is nowhere, one that is about to be
\* registered is with its opener only
OwnOK ==
  /\ \A c \in Conns : cstate[c] = "none" => \A t \in Threads : conn[t] # c /\ Own(t, c)
  /\ \A t \in Threads : pc[t] = "register" => cstate[conn[t]] # "none" /\ Own(t, conn[t])

PendingInv == CountOK /\ OwnOK

LEMMA FinitePending ==
  ASSUME IsFiniteSet(Threads), NEW c
  PROVE  /\ IsFiniteSet(Pending(c)) /\ Cardinality(Pending(c)) \in Nat
         /\ Cardinality(Pending(c)) <= Cardinality(Threads)
<1>1. Pending(c) \in SUBSET Threads
  BY DEF Pending
<1> QED  BY <1>1, FS_Subset, FS_CardinalityType

\* A step that counts nothing
LEMMA QuietCount ==
  ASSUME CountOK, UNCHANGED countVars, \A c \in Conns : Pending(c)' = Pending(c)
  PROVE  CountOK'
BY DEF CountOK, countVars

\* requests_invoked++ counts one request more: there are fewer threads than
\* values of an unsigned long
LEMMA StoreInc ==
  ASSUME IsFiniteSet(Threads), Cardinality(Threads) < ULong,
         TypeInv, CountOK, NEW t \in Threads, CountRequest(t)
  PROVE  CountOK'
<1>1. PICK c \in Conns : c = conn[t]
  BY DEF TypeInv, PlacesOK, Holding, CountRequest
<1>2. PICK n \in Nat : n = Cardinality(Pending(c))
  BY FinitePending
<1>3. /\ pc[t] = "inc" /\ pc'[t] = "invoked"
      /\ \A u \in Threads \ {t} : pc'[u] = pc[u]
      /\ UNCHANGED conn
      /\ invoked'[c] = (reg[t] + 1) % ULong /\ \A d \in Conns \ {c} : invoked'[d] = invoked[d]
      /\ miscounted \subseteq miscounted'
      /\ c \notin miscounted' => reg[t] = n
  BY <1>1, <1>2 DEF CountRequest, Store, Goto, TypeInv, TypeOK, CountOK
<1>4. Pending(c)' = Pending(c) \cup {t} /\ t \notin Pending(c)
  BY <1>1, <1>3 DEF Pending
<1>5. \A d \in Conns \ {c} : Pending(d)' = Pending(d)
  BY <1>1, <1>3 DEF Pending
<1>6. Cardinality(Pending(c)') = n + 1 /\ n + 1 < ULong
  <2>1. Cardinality(Pending(c)') = n + 1
    BY <1>2, <1>4, FinitePending, FS_AddElement
  <2>2. Pending(c)' \in SUBSET Threads
    BY DEF Pending
  <2>3. Cardinality(Pending(c)') <= Cardinality(Threads) /\ Cardinality(Threads) \in Nat
    BY <2>2, FS_Subset, FS_CardinalityType
  <2> QED  BY <2>1, <2>3, ParamAssumption
<1>7. (n + 1) % ULong = n + 1
  BY <1>6, ParamAssumption
<1> QED  BY <1>3, <1>5, <1>6, <1>7 DEF CountOK

\* ... and requests_invoked-- one less: it was counted
LEMMA StoreDec ==
  ASSUME IsFiniteSet(Threads), Cardinality(Threads) < ULong,
         TypeInv, CountOK, NEW t \in Threads, RequestEnds(t)
  PROVE  CountOK'
<1>1. PICK c \in Conns : c = conn[t]
  BY DEF TypeInv, PlacesOK, Holding, RequestEnds
<1>2. PICK n \in Nat : n = Cardinality(Pending(c)) /\ n < ULong
  <2>1. Cardinality(Threads) \in Nat
    BY FS_CardinalityType
  <2> QED  BY <2>1, FinitePending, ParamAssumption
<1>3. /\ pc[t] = "dec" /\ pc'[t] = "idle" /\ conn'[t] = NULL
      /\ \A u \in Threads \ {t} : pc'[u] = pc[u] /\ conn'[u] = conn[u]
      /\ invoked'[c] = (reg[t] + ULong - 1) % ULong
      /\ \A d \in Conns \ {c} : invoked'[d] = invoked[d]
      /\ miscounted \subseteq miscounted'
      /\ c \notin miscounted' => reg[t] = n
  BY <1>1, <1>2 DEF RequestEnds, Store, Return, Goto, TypeInv, TypeOK, CountOK
<1>4. Pending(c)' = Pending(c) \ {t} /\ t \in Pending(c)
  BY <1>1, <1>3 DEF Pending
<1>5. \A d \in Conns \ {c} : Pending(d)' = Pending(d)
  BY <1>1, <1>3 DEF Pending
<1>6. Cardinality(Pending(c)') = n - 1 /\ n # 0
  BY <1>2, <1>4, FinitePending, FS_RemoveElement, FS_EmptySet
<1>7. (n + ULong - 1) % ULong = n - 1
  <2>1. n - 1 \in 0..(ULong - 1)
    BY <1>2, <1>6, ParamAssumption
  <2>2. n + ULong - 1 = (n - 1) + ULong
    BY <1>2, ParamAssumption
  <2> QED  BY <2>1, <2>2, ParamAssumption
<1> QED  BY <1>3, <1>5, <1>6, <1>7 DEF CountOK

LEMMA NextCount ==
  ASSUME IsFiniteSet(Threads), Cardinality(Threads) < ULong,
         TypeInv, CountOK, [Next]_vars
  PROVE  CountOK'
<1>1. ASSUME NEW t \in Threads, ThreadStep(t), ~CountRequest(t), ~RequestEnds(t)
      PROVE  CountOK'
  <2>1. /\ \A u \in Threads \ {t} : pc'[u] = pc[u] /\ conn'[u] = conn[u]
        /\ \/ /\ pc[t] \notin {"invoked", "dec"} /\ pc'[t] \notin {"invoked", "dec"}
           \/ pc[t] = "invoked" /\ pc'[t] = "dec" /\ conn'[t] = conn[t]
    BY <1>1 DEF ThreadStep, CallDestroyed, CallFound, CallWaits, CallOpens, Call, OpenSucceeds,
       OpenFails, OpenFailed, OpenThrows, Register, RegisterFull, WaitOpened, WaitFails,
       EraseOpening, TakeReference, SendRequest, SendRefused, WaitEnds, Return, Goto, TypeInv,
       TypeOK
  <2>2. UNCHANGED countVars
    BY <1>1 DEF ThreadStep, CallDestroyed, CallFound, CallWaits, CallOpens, OpenSucceeds,
       OpenFails, OpenFailed, OpenThrows, Register, RegisterFull, WaitOpened, WaitFails,
       EraseOpening, TakeReference, SendRequest, SendRefused, WaitEnds, connVars
  <2>3. \A c \in Conns : Pending(c)' = Pending(c)
    BY <2>1 DEF Pending
  <2> QED  BY <2>2, <2>3, QuietCount
<1>2. ASSUME NEW t \in Threads, CountRequest(t) \/ RequestEnds(t)
      PROVE  CountOK'
  BY <1>2, StoreInc, StoreDec
<1>3. CASE (\E c \in Conns : CloseStep(c)) \/ Destroy \/ UNCHANGED vars
  <2>1. UNCHANGED <<pc, conn, countVars>>
    BY <1>3 DEF CloseStep, CloseBegins, Closing, CloseEnds, Destroy, vars, threadVars, connVars
  <2>2. \A c \in Conns : Pending(c)' = Pending(c)
    BY <2>1 DEF Pending
  <2> QED  BY <2>1, <2>2, QuietCount
<1> QED  BY <1>1, <1>2, <1>3 DEF Next

\* A step that hands out only what could be found before
LEMMA QuietOwn ==
  ASSUME TypeInv, OwnOK, NEW t \in Threads, pc'[t] # "register",
         \A u \in Threads \ {t} : pc'[u] = pc[u] /\ conn'[u] = conn[u],
         \/ conn'[t] = conn[t] /\ pc[t] # "register"
         \/ conn'[t] = NULL
         \/ \E p \in Points : conn'[t] = cached[p]
         \/ \E l \in OpeningLocks : conn'[t] = oconn[l],
         UNCHANGED <<cached, oconn>>,
         \A c \in Conns : cstate'[c] = "none" <=> cstate[c] = "none"
  PROVE  OwnOK'
<1>1. ASSUME NEW c \in Conns, cstate'[c] = "none", NEW u \in Threads
      PROVE  conn'[u] # c /\ Own(u, c)'
  BY <1>1, SetsAssumption DEF OwnOK, Own
<1>2. ASSUME NEW u \in Threads, pc'[u] = "register"
      PROVE  cstate'[conn'[u]] # "none" /\ Own(u, conn[u])'
  <2>1. PICK c \in Conns : c = conn[u] /\ c = conn'[u]
    BY <1>2 DEF TypeInv, PlacesOK, Holding
  <2>2. u # t /\ cstate[c] # "none" /\ Own(u, c)
    BY <1>2, <2>1 DEF OwnOK
  <2>3. conn'[t] # c
    BY <2>1, <2>2, SetsAssumption DEF Own
  <2>4. Own(u, c)'
    BY <2>2, <2>3 DEF Own
  <2> QED  BY <2>1, <2>2, <2>4 DEF Own
<1> QED  BY <1>1, <1>2 DEF OwnOK

LEMMA OpenSucceedsOwn ==
  ASSUME TypeInv, OwnOK, NEW t \in Threads, NEW c \in Conns, OpenSucceeds(t, c)
  PROVE  OwnOK'
<1>1. /\ pc'[t] = "register" /\ conn'[t] = c /\ conn[t] = NULL
      /\ \A u \in Threads \ {t} : pc'[u] = pc[u] /\ conn'[u] = conn[u]
      /\ cstate[c] = "none" /\ cstate'[c] = "OPEN"
      /\ \A d \in Conns \ {c} : cstate'[d] = cstate[d]
      /\ UNCHANGED <<cached, oconn>>
  BY DEF OpenSucceeds, Goto, TypeInv, TypeOK, PlacesOK, Holding, managerVars, olockVars
<1>2. \A u \in Threads : conn[u] # c /\ Own(u, c)
  BY <1>1 DEF OwnOK
<1>3. ASSUME NEW d \in Conns, cstate'[d] = "none", NEW u \in Threads
      PROVE  conn'[u] # d /\ Own(u, d)'
  BY <1>1, <1>3 DEF OwnOK, Own
<1>4. Own(t, c)'
  BY <1>1, <1>2 DEF Own
<1>5. ASSUME NEW u \in Threads \ {t}, pc'[u] = "register"
      PROVE  cstate'[conn'[u]] # "none" /\ Own(u, conn[u])'
  <2>1. PICK d \in Conns : d = conn[u] /\ d = conn'[u]
    BY <1>1, <1>5 DEF TypeInv, PlacesOK, Holding
  <2>2. cstate[d] # "none" /\ Own(u, d) /\ d # c
    BY <1>1, <1>2, <1>5, <2>1 DEF OwnOK
  <2>3. Own(u, d)'
    BY <1>1, <2>2 DEF Own
  <2> QED  BY <1>1, <2>1, <2>2, <2>3 DEF Own
<1>6. cstate'[conn'[t]] # "none" /\ Own(t, conn[t])'
  BY <1>1, <1>4 DEF Own
<1> QED  BY <1>3, <1>5, <1>6 DEF OwnOK

LEMMA RegisterOwn ==
  ASSUME TypeInv, OwnOK, NEW t \in Threads, NEW V \in SUBSET table, Register(t, V)
  PROVE  OwnOK'
<1>1. PICK c \in Conns : c = conn[t]
  BY DEF Register, TypeInv, PlacesOK, Holding
<1>2. /\ pc[t] = "register" /\ pc'[t] = "raw" /\ conn' = conn
      /\ \A u \in Threads \ {t} : pc'[u] = pc[u]
      /\ CloseConnections(V)
      /\ \A l \in OpeningLocks : oconn'[l] \in {oconn[l], c}
  BY <1>1 DEF Register, Goto, TypeInv, TypeOK
<1>3. \A q \in Points : cached'[q] \in {cached[q], c, NULL}
  BY <1>1, UncachedType, UncachedAt DEF Register, TypeInv
<1>4. \A d \in Conns : cstate'[d] = "none" <=> cstate[d] = "none"
  BY <1>2, CloseEach DEF TypeInv
<1>5. cstate[c] # "none"
  BY <1>1, <1>2 DEF OwnOK
<1>6. ASSUME NEW d \in Conns, cstate'[d] = "none", NEW u \in Threads
      PROVE  conn'[u] # d /\ Own(u, d)'
  BY <1>2, <1>3, <1>4, <1>5, <1>6, SetsAssumption DEF OwnOK, Own
<1>7. ASSUME NEW u \in Threads, pc'[u] = "register"
      PROVE  cstate'[conn'[u]] # "none" /\ Own(u, conn[u])'
  <2>1. PICK d \in Conns : d = conn[u] /\ d = conn'[u]
    BY <1>2, <1>7 DEF TypeInv, PlacesOK, Holding
  <2>2. u # t /\ cstate[d] # "none" /\ Own(u, d)
    BY <1>2, <1>7, <2>1 DEF OwnOK
  <2>3. d # c
    BY <1>1, <2>2 DEF Own
  <2>4. Own(u, d)'
    BY <1>2, <1>3, <2>2, <2>3, SetsAssumption DEF Own
  <2> QED  BY <1>4, <2>1, <2>2, <2>4 DEF Own
<1> QED  BY <1>6, <1>7 DEF OwnOK

LEMMA NextOwn == TypeInv /\ OwnOK /\ [Next]_vars => OwnOK'
<1> SUFFICES ASSUME TypeInv, OwnOK, [Next]_vars  PROVE OwnOK'
  OBVIOUS
<1>1. ASSUME NEW t \in Threads, ThreadStep(t),
             ~\E c \in Conns : OpenSucceeds(t, c),
             ~\E V \in SUBSET table : Register(t, V)
      PROVE  OwnOK'
  <2>1. UNCHANGED <<cached, oconn>>
    BY <1>1 DEF ThreadStep, CallDestroyed, CallFound, CallWaits, CallOpens, OpenFails,
       OpenFailed, OpenThrows, RegisterFull, WaitOpened, WaitFails, EraseOpening,
       TakeReference, SendRequest, CountRequest, SendRefused, WaitEnds, RequestEnds,
       managerVars, olockVars
  <2>2. \A c \in Conns : cstate'[c] = "none" <=> cstate[c] = "none"
    <3>1. CASE RegisterFull(t)
      BY <3>1, CloseEach DEF RegisterFull, TypeInv
    <3>2. CASE ~RegisterFull(t)
      BY <1>1, <3>2 DEF ThreadStep, CallDestroyed, CallFound, CallWaits, CallOpens, OpenFails,
         OpenFailed, OpenThrows, WaitOpened, WaitFails, EraseOpening,
         TakeReference, SendRequest, CountRequest, SendRefused, WaitEnds, RequestEnds, connVars
    <3> QED  BY <3>1, <3>2
  <2>3. /\ \A u \in Threads \ {t} : pc'[u] = pc[u] /\ conn'[u] = conn[u]
        /\ pc'[t] # "register"
    BY <1>1 DEF ThreadStep, CallDestroyed, CallFound, CallWaits, CallOpens, Call, OpenFails,
       OpenFailed, OpenThrows, RegisterFull, WaitOpened, WaitFails, EraseOpening,
       TakeReference, SendRequest, CountRequest, SendRefused, WaitEnds, RequestEnds,
       Return, Goto, TypeInv, TypeOK
  <2>4. \/ conn'[t] = conn[t] /\ pc[t] # "register"
        \/ conn'[t] = NULL
        \/ \E p \in Points : conn'[t] = cached[p]
        \/ \E l \in OpeningLocks : conn'[t] = oconn[l]
    <3>1. CASE WaitOpened(t)
      BY <3>1 DEF WaitOpened, TypeInv, TypeOK, PlacesOK
    <3>2. CASE ~WaitOpened(t)
      BY <1>1, <3>2 DEF ThreadStep, CallDestroyed, CallFound, CallWaits, CallOpens, Call,
         OpenFails, OpenFailed, OpenThrows, RegisterFull, WaitFails, EraseOpening,
         TakeReference, SendRequest, CountRequest, SendRefused, WaitEnds, RequestEnds,
         Return, Goto, TypeInv, TypeOK
    <3> QED  BY <3>1, <3>2
  <2> QED  BY <2>1, <2>2, <2>3, <2>4, QuietOwn
<1>2. ASSUME NEW t \in Threads,
             \/ \E c \in Conns : OpenSucceeds(t, c)
             \/ \E V \in SUBSET table : Register(t, V)
      PROVE  OwnOK'
  BY <1>2, OpenSucceedsOwn, RegisterOwn
<1>3. CASE (\E c \in Conns : CloseStep(c)) \/ Destroy \/ UNCHANGED vars
  <2>1. UNCHANGED <<pc, conn, oconn>>
    BY <1>3 DEF CloseStep, CloseBegins, Closing, CloseEnds, Destroy, vars, threadVars, olockVars
  <2>2. \A p \in Points : cached'[p] \in {cached[p], NULL}
    <3>1. \/ cached' = cached
          \/ cached' = Uncached(table)
          \/ \E c \in Conns : cached' = Uncached({c})
      BY <1>3 DEF CloseStep, CloseBegins, Closing, CloseEnds, Destroy, vars, managerVars
    <3>2. \A p \in Points : Uncached(table)[p] \in {cached[p], NULL}
      BY UncachedAt
    <3>3. \A p \in Points, c \in Conns : Uncached({c})[p] \in {cached[p], NULL}
      BY UncachedAt
    <3> QED  BY <3>1, <3>2, <3>3
  <2>3. \A c \in Conns : cstate'[c] = "none" <=> cstate[c] = "none"
    <3>1. CASE Destroy
      BY <3>1, CloseEach DEF Destroy, TypeInv
    <3>2. CASE ~Destroy
      BY <1>3, <3>2 DEF CloseStep, CloseBegins, Closing, CloseEnds, vars, connVars,
                        TypeInv, TypeOK
    <3> QED  BY <3>1, <3>2
  <2>4. \A c \in Conns, u \in Threads : Own(u, c) => Own(u, c)'
    BY <2>1, <2>2, SetsAssumption DEF Own
  <2>5. ASSUME NEW u \in Threads, pc[u] = "register"
        PROVE  cstate'[conn[u]] # "none" /\ Own(u, conn[u])'
    <3>1. PICK c \in Conns : c = conn[u]
      BY <2>5 DEF TypeInv, PlacesOK, Holding
    <3>2. cstate[c] # "none" /\ Own(u, c)'
      BY <2>4, <2>5, <3>1 DEF OwnOK
    <3> QED  BY <2>1, <2>3, <3>1, <3>2 DEF Own
  <2>6. \A c \in Conns : cstate'[c] = "none" => \A u \in Threads : conn'[u] # c /\ Own(u, c)'
    BY <2>1, <2>3, <2>4 DEF OwnOK
  <2> QED  BY <2>1, <2>5, <2>6 DEF OwnOK
<1> QED  BY <1>1, <1>2, <1>3 DEF Next

LEMMA InitPending == Init => PendingInv
<1> SUFFICES ASSUME Init  PROVE PendingInv
  OBVIOUS
<1>1. \A c \in Conns : Pending(c) = {}
  BY DEF Init, Pending
<1>2. \A c \in Conns \ miscounted : invoked[c] = 0
  BY DEF Init
<1>3. CountOK
  BY <1>1, <1>2, FS_EmptySet DEF CountOK
<1>4. OwnOK
  BY SetsAssumption DEF Init, OwnOK, Own
<1> QED  BY <1>3, <1>4 DEF PendingInv

\* What a step may close that it found open
Spares ==
  \A c \in Conns \ miscounted :
    cstate[c] = "OPEN" /\ cstate'[c] = "CLOSED" /\ destroyed' = destroyed =>
      \A t \in Threads : pc[t] = "invoked" => conn[t] # c

LEMMA StepSpares ==
  ASSUME IsFiniteSet(Threads), TypeInv, PendingInv, [Next]_vars
  PROVE  [Spares]_vars
<1> SUFFICES ASSUME NEW c \in Conns \ miscounted, cstate[c] = "OPEN", cstate'[c] = "CLOSED",
                    destroyed' = destroyed, NEW t \in Threads, pc[t] = "invoked"
             PROVE  conn[t] # c
  BY DEF Spares
<1>1. ASSUME NEW u \in Threads, NEW V \in SUBSET table, Register(u, V)
      PROVE  conn[t] # c
  <2>1. c \in V /\ V \in Victims
    BY <1>1, CloseEach DEF Register, TypeInv
  <2>2. invoked[c] = 0
    BY <2>1 DEF Victims, CanBeRemoved
  <2>3. Pending(c) = {}
    BY <2>2, FinitePending, FS_EmptySet DEF PendingInv, CountOK
  <2> QED  BY <2>3 DEF Pending
<1>2. ASSUME NEW u \in Threads, RegisterFull(u)
      PROVE  conn[t] # c
  <2>1. c = conn[u] /\ pc[u] = "register"
    BY <1>2, CloseEach DEF RegisterFull, TypeInv
  <2> QED  BY <2>1 DEF PendingInv, OwnOK, Own
<1>3. ASSUME NEW u \in Threads, ThreadStep(u), ~RegisterFull(u),
             ~\E V \in SUBSET table : Register(u, V)
      PROVE  FALSE
  <2>1. cstate' = cstate \/ \E d \in Conns : cstate' = [cstate EXCEPT ![d] = "OPEN"]
    BY <1>3 DEF ThreadStep, CallDestroyed, CallFound, CallWaits, CallOpens, OpenSucceeds,
       OpenFails, OpenFailed, OpenThrows, WaitOpened, WaitFails, EraseOpening,
       TakeReference, SendRequest, CountRequest, SendRefused, WaitEnds, RequestEnds, connVars
  <2> QED  BY <2>1 DEF TypeInv, TypeOK
<1>4. ASSUME (\E d \in Conns : CloseStep(d)) \/ Destroy \/ UNCHANGED vars
      PROVE  FALSE
  BY <1>4 DEF CloseStep, CloseBegins, Closing, CloseEnds, Destroy, vars, connVars,
              TypeInv, TypeOK
<1> QED  BY <1>1, <1>2, <1>3, <1>4 DEF Next

\* With fewer threads than values of an unsigned long, the manager never closes
\* a connection in which a thread waits for its reply, as long as its count
\* began at 0 and lost no update: the count is the number of the threads that
\* wait, and a connection that is closed because there is no room for it is
\* known to its opener only.
THEOREM PendingAreSpared ==
  ASSUME IsFiniteSet(Threads), Cardinality(Threads) < ULong
  PROVE  Spec => EvictionSparesPending
<1>1. Init => PendingInv
  BY InitPending
<1>2. TypeInv /\ PendingInv /\ [Next]_vars => PendingInv'
  BY NextCount, NextOwn DEF PendingInv
<1>3. TypeInv /\ PendingInv /\ [Next]_vars =>
        [\A c \in Conns \ miscounted :
           /\ cstate[c] = "OPEN" /\ cstate'[c] = "CLOSED"
           /\ destroyed' = destroyed
           => \A t \in Threads : pc[t] = "invoked" => conn[t] # c]_vars
  BY StepSpares DEF Spares
<1> QED  BY <1>1, <1>2, <1>3, TypeInvariance, PTL DEF Spec, EvictionSparesPending

=============================================================================
