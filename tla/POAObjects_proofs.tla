------------------------- MODULE POAObjects_proofs -------------------------
(***************************************************************************)
(* Theorems about POAObjects, whatever overlaps.  The CompletionWaiters     *)
(* cover the requests in execution, and no counter goes below zero.  The    *)
(* users of an object are counted exactly and a servant in use stays in the *)
(* map, unless somebody who was not counted interferes; and a POA is        *)
(* destroyed only when none of its requests executes, but those that come   *)
(* when destroy has waited already.                                         *)
(***************************************************************************)
EXTENDS POAObjects, FiniteSetTheorems, TLAPS

\* Where the threads of the application and the requests can be; a request
\* that has left the queue knows its object
PlacesOK ==
  /\ \A a \in Apps : pc[a] \in {"idle", "activating", "reactivating", "dangling", "destroying",
                                "completing", "completed", "draining", "deactivating"}
  /\ \A r \in Requests :
       /\ pc[r] \in {"idle", "taken", "found", "executing", "ended", "done", "crashed",
                     "activating", "reactivating", "dangling", "destroying"}
       /\ pc[r] \notin {"idle", "taken"} => oid[r] \in Oids

CountInv == TypeOK /\ PlacesOK /\ CompletionCovers

-----------------------------------------------------------------------------
(* The operators                                                            *)

\* Requests in flight can be counted
LEMMA FiniteFlight ==
  /\ IsFiniteSet(Executing) /\ Cardinality(Executing) \in Nat
  /\ IsFiniteSet(Executing \cup Ended) /\ Cardinality(Executing \cup Ended) \in Nat
  /\ Cardinality(Executing) <= Cardinality(Executing \cup Ended)
<1>1. Executing \cup Ended \in SUBSET Requests
  BY DEF Executing, Ended
<1>2. IsFiniteSet(Executing \cup Ended)
  BY <1>1, RequestsAssumption, FS_Subset
<1>3. Executing \in SUBSET (Executing \cup Ended)
  OBVIOUS
<1> QED  BY <1>2, <1>3, FS_Subset, FS_CardinalityType

\* endRequest counts one request less, and wakes at most one thread
LEMMA EndRequestCounts ==
  ASSUME NEW w \in Waiters, w.requests # 0, NEW v \in EndRequest(w)
  PROVE  v \in Waiters /\ v.requests = w.requests - 1 /\ v.stop = w.stop
<1> DEFINE d == [w EXCEPT !.requests = @ - 1]
<1>1. d \in Waiters /\ d.requests = w.requests - 1 /\ d.stop = w.stop
  BY DEF Waiters
<1>2. CASE v = d
  BY <1>1, <1>2
<1>3. CASE \E a \in w.asleep : v = [d EXCEPT !.asleep = @ \ {a}]
  BY <1>1, <1>3 DEF Waiters
<1> QED  BY <1>2, <1>3 DEF EndRequest

\* Only put makes elements, and it gives them the next incarnation number
LEMMA PutType ==
  ASSUME TypeOK, NEW o \in Oids, NEW s \in Servants, CanPut(o, s), put(o, s)
  PROVE  /\ table' \in [Oids -> Elements \cup {NULL}]
         /\ incarnations' \in 0..MaxIncarnations
<1>1. NewElement(s) \in Elements /\ incarnations + 1 \in 0..MaxIncarnations
  BY IncarnationsAssumption DEF TypeOK, CanPut, NewElement, Elements, Incarnations
<1> QED  BY <1>1 DEF put, TypeOK

\* The count of an object that loses a user stays a number
LEMMA TryType ==
  ASSUME NEW t \in [Oids -> Elements \cup {NULL}], NEW o \in Oids
  PROVE  tryToRemoveObject(t, o) \in [Oids -> Elements \cup {NULL}]
<1>1. CASE t[o] = NULL
  BY <1>1 DEF tryToRemoveObject
<1>2. CASE t[o] # NULL /\ t[o].users <= 1
  BY <1>2 DEF tryToRemoveObject
<1>3. CASE t[o] # NULL /\ ~(t[o].users <= 1)
  <2>1. [t[o] EXCEPT !.users = @ - 1] \in Elements
    BY <1>3 DEF Elements
  <2> QED  BY <1>3, <2>1 DEF tryToRemoveObject
<1> QED  BY <1>1, <1>2, <1>3

-----------------------------------------------------------------------------
(* Types and places                                                         *)

LEMMA InitCount == Init => CountInv
<1> SUFFICES ASSUME Init  PROVE CountInv
  OBVIOUS
<1> DEFINE w == [requests |-> 0, stop |-> FALSE, asleep |-> {}]
<1>1. TypeOK
  <2>1. poa \in [destroying : BOOLEAN, destroyed : BOOLEAN,
                 processing : Policies, unique : BOOLEAN]
    BY UniquenessAssumption DEF Init
  <2>2. w \in Waiters
    BY DEF Waiters
  <2>3. completion \in [{"poa", "manager"} -> Waiters]
    BY <2>2 DEF Init
  <2>4. manager \in [state : States, ether : {"no", "waits", "runs", "done"}]
    BY DEF Init, States
  <2>5. pc \in [Callers -> Places]
    BY DEF Init, Places
  <2> QED  BY <2>1, <2>3, <2>4, <2>5, IncarnationsAssumption DEF Init, TypeOK
<1>2. PlacesOK
  BY DEF Init, PlacesOK, Callers
<1>3. CompletionCovers
  <2>1. Executing = {} /\ Executing \cup Ended = {}
    BY DEF Init, Executing, Ended, Callers
  <2>2. completion["poa"] = w /\ completion["manager"] = w
    BY DEF Init
  <2> QED  BY <2>1, <2>2, FS_EmptySet DEF CompletionCovers
<1> QED  BY <1>1, <1>2, <1>3 DEF CountInv

LEMMA TakeTypes ==
  ASSUME TypeOK, PlacesOK, NEW r \in Requests, Take(r)
  PROVE  TypeOK' /\ PlacesOK'
<1>1. r \in Callers /\ r \notin Apps
  BY CallersAssumption DEF Callers
<1>2. TypeOK'
  BY <1>1 DEF Take, TypeOK, Places, history
<1>3. PlacesOK'
  BY <1>1 DEF Take, PlacesOK, TypeOK, Callers
<1> QED  BY <1>2, <1>3

LEMMA FindTypes ==
  ASSUME TypeOK, PlacesOK, NEW r \in Requests, Find(r)
  PROVE  TypeOK' /\ PlacesOK'
<1>1. PICK o \in Oids, next \in {"found", "done"} : find_servant(r, o, next)
  BY DEF Find
<1>2. /\ oid' = [oid EXCEPT ![r] = o]
      /\ pc' = [pc EXCEPT ![r] = "done"] \/ pc' = [pc EXCEPT ![r] = next]
      /\ UNCHANGED <<mutex, poa, manager, completion, counted, robbed, late>>
  BY <1>1 DEF find_servant, history
<1>3. /\ table' \in [Oids -> Elements \cup {NULL}]
      /\ incarnations' \in 0..MaxIncarnations
  <2>1. CASE UNCHANGED <<table, incarnations>>
    BY <2>1 DEF TypeOK
  <2>2. CASE \E s \in Servants : CanPut(o, s) /\ put(o, s)
    BY <2>2, PutType
  <2> QED  BY <1>1, <2>1, <2>2 DEF find_servant
<1>4. r \in Callers /\ r \notin Apps
  BY CallersAssumption DEF Callers
<1>5. TypeOK'
  BY <1>2, <1>3, <1>4 DEF TypeOK, Places
<1>6. PlacesOK'
  BY <1>2, <1>4 DEF PlacesOK, TypeOK, Callers
<1> QED  BY <1>5, <1>6

LEMMA AddUserTypes ==
  ASSUME TypeOK, PlacesOK, NEW r \in Requests, AddUser(r)
  PROVE  TypeOK' /\ PlacesOK'
<1>1. r \in Callers /\ r \notin Apps /\ oid[r] \in Oids
  BY CallersAssumption DEF Callers, PlacesOK, AddUser
<1>2. /\ pc' = [pc EXCEPT ![r] = "crashed"] \/ pc' = [pc EXCEPT ![r] = "executing"]
      /\ UNCHANGED <<mutex, poa, manager, oid, incarnations, robbed>>
      /\ late' \subseteq Requests
  BY DEF AddUser, TypeOK
<1>3. /\ table' \in [Oids -> Elements \cup {NULL}]
      /\ counted' \in [Requests -> 0..MaxIncarnations]
  <2>1. CASE UNCHANGED <<table, counted>>
    BY <2>1 DEF TypeOK
  <2>2. CASE /\ isActive(oid[r])
             /\ table' = [table EXCEPT ![oid[r]].users = @ + 1]
             /\ counted' = [counted EXCEPT ![r] = table[oid[r]].inc]
    <3>1. table[oid[r]] \in Elements
      BY <1>1, <2>2 DEF TypeOK, isActive
    <3>2. /\ [table[oid[r]] EXCEPT !.users = @ + 1] \in Elements
          /\ table[oid[r]].inc \in 0..MaxIncarnations
      BY <3>1, IncarnationsAssumption DEF Elements, Incarnations
    <3> QED  BY <1>1, <2>2, <3>2 DEF TypeOK
  <2> QED  BY <2>1, <2>2 DEF AddUser
<1>4. completion' \in [{"poa", "manager"} -> Waiters]
  <2>1. \A w \in Waiters : beginRequest(w) \in Waiters
    BY DEF beginRequest, Waiters
  <2> QED  BY <2>1 DEF AddUser, TypeOK
<1>5. TypeOK'
  BY <1>1, <1>2, <1>3, <1>4 DEF TypeOK, Places
<1>6. PlacesOK'
  BY <1>1, <1>2 DEF PlacesOK, TypeOK, Callers, AddUser
<1> QED  BY <1>5, <1>6

LEMMA EndInvocationTypes ==
  ASSUME CountInv, NEW r \in Requests, EndInvocation(r)
  PROVE  TypeOK' /\ PlacesOK'
<1>1. r \in Callers /\ r \notin Apps
  BY CallersAssumption DEF Callers
<1>2. completion["poa"] \in Waiters /\ completion["poa"].requests # 0
  <2>1. r \in Executing
    BY DEF EndInvocation, Executing
  <2> QED  BY <2>1, FiniteFlight, FS_EmptySet DEF CountInv, CompletionCovers, TypeOK
<1>3. completion' \in [{"poa", "manager"} -> Waiters]
  BY <1>2, EndRequestCounts DEF EndInvocation, CountInv, TypeOK
<1>4. TypeOK'
  BY <1>1, <1>3 DEF CountInv, TypeOK, EndInvocation, Places, history
<1>5. PlacesOK'
  BY <1>1 DEF CountInv, PlacesOK, TypeOK, Callers, EndInvocation
<1> QED  BY <1>4, <1>5

LEMMA RemoveUserTypes ==
  ASSUME CountInv, NEW r \in Requests, RemoveUser(r)
  PROVE  TypeOK' /\ PlacesOK'
<1>1. r \in Callers /\ r \notin Apps /\ oid[r] \in Oids
  BY CallersAssumption DEF Callers, CountInv, PlacesOK, RemoveUser
<1>2. completion' \in [{"poa", "manager"} -> Waiters]
  <2>1. CASE UNCHANGED completion
    BY <2>1 DEF CountInv, TypeOK
  <2>2. CASE /\ ~poa.destroyed
             /\ \E w \in EndRequest(completion["manager"]) :
                  completion' = [completion EXCEPT !["manager"] = w]
    <3>1. r \in Executing \cup Ended
      BY DEF RemoveUser, Ended
    <3>2. completion["manager"] \in Waiters /\ completion["manager"].requests # 0
      BY <2>2, <3>1, FiniteFlight, FS_EmptySet DEF CountInv, CompletionCovers, TypeOK
    <3> QED  BY <2>2, <3>2, EndRequestCounts DEF CountInv, TypeOK
  <2> QED  BY <2>1, <2>2 DEF RemoveUser
<1>3. /\ table' \in [Oids -> Elements \cup {NULL}]
      /\ poa' \in [destroying : BOOLEAN, destroyed : BOOLEAN,
                   processing : Policies, unique : BOOLEAN]
  <2>1. CASE UNCHANGED <<table, poa>>
    BY <2>1 DEF CountInv, TypeOK
  <2>2. CASE trueDestroy
    BY <2>2 DEF trueDestroy, CountInv, TypeOK
  <2>3. CASE table' = tryToRemoveObject(table, oid[r]) /\ UNCHANGED poa
    BY <1>1, <2>3, TryType DEF CountInv, TypeOK
  <2> QED  BY <2>1, <2>2, <2>3 DEF RemoveUser
<1>6. robbed' \subseteq Incarnations
  <2>1. Strangers(r) \subseteq Incarnations
    BY DEF Strangers, isActive, CountInv, TypeOK, Elements
  <2> QED  BY <2>1 DEF RemoveUser, CountInv, TypeOK
<1>4. TypeOK'
  BY <1>1, <1>2, <1>3, <1>6 DEF CountInv, TypeOK, RemoveUser, Places
<1>5. PlacesOK'
  BY <1>1 DEF CountInv, PlacesOK, TypeOK, Callers, RemoveUser
<1> QED  BY <1>4, <1>5

LEMMA ActivateTypes ==
  ASSUME TypeOK, PlacesOK, NEW c \in Callers, Activate(c)
  PROVE  TypeOK' /\ PlacesOK'
<1>1. c \in Requests => c \notin Apps /\ pc[c] \notin {"idle", "taken"}
  BY CallersAssumption DEF Activate, MayCall
<1>2. TypeOK'
  BY DEF Activate, TypeOK, Places, history
<1>3. PlacesOK'
  BY <1>1 DEF Activate, PlacesOK, TypeOK, Callers
<1> QED  BY <1>2, <1>3

LEMMA FinishActivateTypes ==
  ASSUME TypeOK, PlacesOK, NEW c \in Callers, FinishActivate(c)
  PROVE  TypeOK' /\ PlacesOK'
<1>1. PICK p \in {"dangling", "reactivating", Resumed(c)} : pc' = [pc EXCEPT ![c] = p]
  BY DEF FinishActivate
<1>2. /\ table' \in [Oids -> Elements \cup {NULL}]
      /\ incarnations' \in 0..MaxIncarnations
  <2>1. CASE UNCHANGED <<table, incarnations>>
    BY <2>1 DEF TypeOK
  <2>2. CASE \E o \in Oids, s \in Servants : CanPut(o, s) /\ put(o, s)
    BY <2>2, PutType
  <2> QED  BY <2>1, <2>2 DEF FinishActivate
<1>3. /\ UNCHANGED <<poa, manager, completion, oid, counted, robbed, late>>
      /\ mutex' \in {mutex, c}
  BY DEF FinishActivate, history
<1>4. TypeOK'
  BY <1>1, <1>2, <1>3 DEF TypeOK, Places, Resumed
<1>5. PlacesOK'
  <2>1. c \in Requests => c \notin Apps /\ pc[c] \notin {"idle", "taken"}
    BY CallersAssumption DEF FinishActivate
  <2> QED  BY <1>1, <1>3, <2>1 DEF PlacesOK, TypeOK, Callers, Resumed
<1> QED  BY <1>4, <1>5

LEMMA DeactivateTypes ==
  ASSUME TypeOK, PlacesOK, NEW c \in Callers, Deactivate(c)
  PROVE  TypeOK' /\ PlacesOK'
<1>1. PICK o \in Oids :
        /\ isActive(o)
        /\ table' = tryToRemoveObject([table EXCEPT ![o].destroying = TRUE], o)
  BY DEF Deactivate
<1>2. [table EXCEPT ![o].destroying = TRUE] \in [Oids -> Elements \cup {NULL}]
  <2>1. table[o] \in Elements
    BY <1>1 DEF TypeOK, isActive
  <2>2. [table[o] EXCEPT !.destroying = TRUE] \in Elements
    BY <2>1 DEF Elements
  <2> QED  BY <2>2 DEF TypeOK
<1>3. table' \in [Oids -> Elements \cup {NULL}]
  BY <1>1, <1>2, TryType
<1> QED  BY <1>3 DEF Deactivate, TypeOK, PlacesOK, history

LEMMA DestroyTypes ==
  ASSUME TypeOK, PlacesOK, NEW c \in Callers, Destroy(c)
  PROVE  TypeOK' /\ PlacesOK'
<1>1. PICK wait \in BOOLEAN :
        pc' = [pc EXCEPT ![c] = IF ~wait THEN "destroying"
                                ELSE IF c \in Apps THEN "completing" ELSE "executing"]
  BY DEF Destroy
<1>2. c \in Requests => c \notin Apps /\ pc[c] \notin {"idle", "taken"}
  BY CallersAssumption DEF Destroy, MayCall
<1>3. TypeOK'
  BY <1>1 DEF Destroy, TypeOK, Places, history
<1>4. PlacesOK'
  BY <1>1, <1>2 DEF Destroy, PlacesOK, TypeOK, Callers
<1> QED  BY <1>3, <1>4

LEMMA FinishDestroyTypes ==
  ASSUME TypeOK, PlacesOK, NEW c \in Callers, FinishDestroy(c)
  PROVE  TypeOK' /\ PlacesOK'
<1>1. c \in Requests => c \notin Apps /\ pc[c] \notin {"idle", "taken"}
  BY CallersAssumption DEF FinishDestroy
<1>2. UNCHANGED <<table, poa>> \/ trueDestroy
  BY DEF FinishDestroy
<1>3. TypeOK'
  <2>1. /\ table' \in [Oids -> Elements \cup {NULL}]
        /\ poa' \in [destroying : BOOLEAN, destroyed : BOOLEAN,
                     processing : Policies, unique : BOOLEAN]
    BY <1>2 DEF trueDestroy, TypeOK
  <2> QED  BY <2>1 DEF FinishDestroy, Resumed, TypeOK, Places, history
<1>4. PlacesOK'
  BY <1>1 DEF FinishDestroy, Resumed, PlacesOK, TypeOK, Callers
<1> QED  BY <1>3, <1>4

LEMMA ManagerTypes ==
  ASSUME TypeOK, PlacesOK, NEW c \in Callers, ChangeState(c) \/ DeactivateManager(c)
  PROVE  TypeOK' /\ PlacesOK'
<1>1. /\ completion["manager"] \in Waiters
      /\ stopWaiting(completion["manager"]) \in Waiters
  BY DEF TypeOK, stopWaiting, Waiters
<1>2. completion' \in [{"poa", "manager"} -> Waiters]
  BY <1>1 DEF ChangeState, DeactivateManager, TypeOK
<1>3. manager' \in [state : States, ether : {"no", "waits", "runs", "done"}]
  BY DEF ChangeState, DeactivateManager, TypeOK, States
<1>4. \/ pc' = pc
      \/ c \in Apps /\ pc' = [pc EXCEPT ![c] = "draining"]
      \/ c \in Apps /\ pc' = [pc EXCEPT ![c] = "deactivating"]
  BY DEF ChangeState, DeactivateManager
<1>5. UNCHANGED <<table, mutex, poa, oid, counted, incarnations, robbed, late>>
  BY DEF ChangeState, DeactivateManager, history
<1>6. TypeOK'
  BY <1>2, <1>3, <1>4, <1>5 DEF TypeOK, Places
<1>7. PlacesOK'
  BY <1>4, <1>5, CallersAssumption DEF PlacesOK, TypeOK, Callers
<1> QED  BY <1>6, <1>7

LEMMA WaitTypes ==
  ASSUME TypeOK, PlacesOK, NEW a \in Apps, WaitForCompletion(a)
  PROVE  TypeOK' /\ PlacesOK'
<1> DEFINE w == WaitsOn(a)
<1>1. w \in {"poa", "manager"} /\ completion[w] \in Waiters
  BY DEF WaitsOn, TypeOK
<1>2. Sleep(completion[w], a) \in Waiters /\ Completed(completion[w]) \in Waiters
  BY <1>1 DEF Sleep, Completed, Waiters
<1>3. completion' \in [{"poa", "manager"} -> Waiters]
  BY <1>1, <1>2 DEF WaitForCompletion, TypeOK
<1>4. manager' \in [state : States, ether : {"no", "waits", "runs", "done"}]
  BY DEF WaitForCompletion, TypeOK
<1>5. \/ pc' = pc
      \/ pc' = [pc EXCEPT ![a] = "completed"]
      \/ pc' = [pc EXCEPT ![a] = "idle"]
  BY DEF WaitForCompletion
<1>6. UNCHANGED <<table, mutex, poa, oid, counted, incarnations, robbed, late>>
  BY DEF WaitForCompletion, history
<1>7. TypeOK'
  BY <1>3, <1>4, <1>5, <1>6 DEF TypeOK, Places
<1>8. PlacesOK'
  BY <1>5, <1>6, CallersAssumption DEF PlacesOK, TypeOK, Callers
<1> QED  BY <1>7, <1>8

LEMMA EtherealizeTypes ==
  ASSUME TypeOK, PlacesOK, EtherealizeAllObjects
  PROVE  TypeOK' /\ PlacesOK'
<1>1. table' \in [Oids -> Elements \cup {NULL}]
  BY DEF EtherealizeAllObjects, TypeOK
<1>2. manager' \in [state : States, ether : {"no", "waits", "runs", "done"}]
  BY DEF EtherealizeAllObjects, TypeOK
<1>3. robbed' \subseteq Incarnations
  BY DEF EtherealizeAllObjects, TypeOK, isActive, Elements
<1> QED  BY <1>1, <1>2, <1>3 DEF EtherealizeAllObjects, TypeOK, PlacesOK

-----------------------------------------------------------------------------
(* The counts of the CompletionWaiters                                      *)

\* A step that neither begins nor ends a request
LEMMA QuietCovers ==
  ASSUME CompletionCovers, Executing' = Executing, Ended' = Ended,
         completion["poa"].requests' = completion["poa"].requests,
         completion["manager"].requests' = completion["manager"].requests,
         poa.destroyed => poa'.destroyed
  PROVE  CompletionCovers'
BY DEF CompletionCovers

LEMMA AddUserCovers ==
  ASSUME CountInv, NEW r \in Requests, AddUser(r)
  PROVE  CompletionCovers'
<1>1. r \in Callers /\ pc[r] = "found"
  BY DEF AddUser, Callers
<1>2. CASE poa.destroyed
  <2>1. Executing' = Executing /\ Ended' = Ended
    BY <1>1, <1>2 DEF AddUser, Executing, Ended, CountInv, TypeOK, Callers
  <2> QED  BY <1>2, <2>1, QuietCovers DEF AddUser, CountInv
<1>3. CASE ~poa.destroyed
  <2>1. /\ Executing' = Executing \cup {r}
        /\ (Executing \cup Ended)' = (Executing \cup Ended) \cup {r}
        /\ r \notin Executing \cup Ended
    BY <1>1, <1>3 DEF AddUser, Executing, Ended, CountInv, TypeOK, Callers
  <2>2. /\ Cardinality(Executing') = Cardinality(Executing) + 1
        /\ Cardinality((Executing \cup Ended)') = Cardinality(Executing \cup Ended) + 1
    BY <2>1, FiniteFlight, FS_AddElement
  <2>3. \A w \in {"poa", "manager"} :
          completion'[w].requests = completion[w].requests + 1
    BY <1>3 DEF AddUser, beginRequest, CountInv, TypeOK, Waiters
  <2>4. poa' = poa /\ \A w \in {"poa", "manager"} : completion[w].requests \in Nat
    BY DEF AddUser, CountInv, TypeOK, Waiters
  <2> QED  BY <2>2, <2>3, <2>4, FiniteFlight DEF CountInv, CompletionCovers
<1> QED  BY <1>2, <1>3

LEMMA EndInvocationCovers ==
  ASSUME CountInv, NEW r \in Requests, EndInvocation(r)
  PROVE  CompletionCovers'
<1>1. r \in Callers /\ pc[r] = "executing"
  BY DEF EndInvocation, Callers
<1>2. /\ Executing' = Executing \ {r} /\ r \in Executing
      /\ (Executing \cup Ended)' = Executing \cup Ended
  BY <1>1 DEF EndInvocation, Executing, Ended, CountInv, TypeOK, Callers
<1>3. Cardinality(Executing') = Cardinality(Executing) - 1 /\ Cardinality(Executing) # 0
  BY <1>2, FiniteFlight, FS_RemoveElement, FS_EmptySet
<1>4. PICK w \in EndRequest(completion["poa"]) : completion' = [completion EXCEPT !["poa"] = w]
  BY DEF EndInvocation
<1>5. w.requests = completion["poa"].requests - 1
  BY <1>3, EndRequestCounts DEF CountInv, CompletionCovers, TypeOK
<1>6. /\ completion'["poa"] = w /\ completion'["manager"] = completion["manager"]
      /\ poa' = poa /\ completion["manager"].requests \in Nat
  BY <1>4 DEF CountInv, TypeOK, EndInvocation, Waiters
<1>7. completion'["poa"].requests = Cardinality(Executing')
  BY <1>3, <1>5, <1>6 DEF CountInv, CompletionCovers
<1>8. completion'["manager"].requests >= Cardinality(Executing')
  BY <1>3, <1>6, FiniteFlight DEF CountInv, CompletionCovers
<1>9. ~poa'.destroyed =>
        completion'["manager"].requests = Cardinality((Executing \cup Ended)')
  BY <1>2, <1>6 DEF CountInv, CompletionCovers
<1> QED  BY <1>7, <1>8, <1>9 DEF CompletionCovers

LEMMA RemoveUserCovers ==
  ASSUME CountInv, NEW r \in Requests, RemoveUser(r)
  PROVE  CompletionCovers'
<1>1. r \in Callers /\ pc[r] = "ended"
  BY DEF RemoveUser, Callers
<1>2. /\ Executing' = Executing /\ r \notin Executing
      /\ (Executing \cup Ended)' = (Executing \cup Ended) \ {r} /\ r \in Executing \cup Ended
  BY <1>1 DEF RemoveUser, Executing, Ended, CountInv, TypeOK, Callers
<1>3. /\ Cardinality((Executing \cup Ended)') = Cardinality(Executing \cup Ended) - 1
      /\ Cardinality(Executing \cup Ended) # 0
      /\ Cardinality(Executing) <= Cardinality(Executing \cup Ended) - 1
  <2>1. Executing \in SUBSET ((Executing \cup Ended) \ {r})
    BY <1>2
  <2> DEFINE S == Executing \cup Ended
  <2>2. IsFiniteSet(S) /\ r \in S /\ Cardinality(S) \in Nat
    BY <1>2, FiniteFlight
  <2> HIDE DEF S
  <2>3. Cardinality(S \ {r}) = Cardinality(S) - 1 /\ IsFiniteSet(S \ {r})
    BY <2>2, FS_RemoveElement
  <2>4. Cardinality(S) # 0
    BY <2>2, FS_EmptySet
  <2>5. Cardinality(Executing) <= Cardinality(S \ {r})
    BY <2>1, <2>3, FS_Subset DEF S
  <2> QED  BY <1>2, <2>3, <2>4, <2>5 DEF S
<1>4. CASE poa.destroyed
  BY <1>2, <1>4 DEF RemoveUser, CountInv, CompletionCovers
<1>5. CASE ~poa.destroyed
  <2>1. PICK w \in EndRequest(completion["manager"]) :
          completion' = [completion EXCEPT !["manager"] = w]
    BY <1>5 DEF RemoveUser
  <2>2. w.requests = completion["manager"].requests - 1
    BY <1>3, <1>5, EndRequestCounts DEF CountInv, CompletionCovers, TypeOK
  <2>3. completion'["poa"] = completion["poa"] /\ completion'["manager"] = w
    BY <2>1 DEF CountInv, TypeOK
  <2> QED  BY <1>2, <1>3, <1>5, <2>2, <2>3, FiniteFlight DEF CountInv, CompletionCovers
<1> QED  BY <1>4, <1>5

\* The operations of the POA and of its manager leave the requests alone: the
\* servant that calls them goes on executing
LEMMA CallerQuiet ==
  ASSUME CountInv, NEW c \in Callers,
         \/ Activate(c) \/ FinishActivate(c) \/ Deactivate(c) \/ Destroy(c) \/ FinishDestroy(c)
         \/ ChangeState(c) \/ DeactivateManager(c)
  PROVE  /\ Executing' = Executing /\ Ended' = Ended
         /\ \A w \in {"poa", "manager"} : completion[w].requests' = completion[w].requests
         /\ poa.destroyed => poa'.destroyed
<1>1. ASSUME c \in Apps
      PROVE  Executing' = Executing /\ Ended' = Ended
  <2>1. \A r \in Requests : pc'[r] = pc[r]
    <3>1. c \notin Requests
      BY <1>1, CallersAssumption
    <3>2. \E p \in Places : pc' = pc \/ pc' = [pc EXCEPT ![c] = p]
      BY DEF Activate, FinishActivate, Deactivate, Destroy, FinishDestroy, Resumed, ChangeState,
             DeactivateManager, Places
    <3> QED  BY <3>1, <3>2 DEF CountInv, TypeOK, Callers
  <2> QED  BY <2>1 DEF Executing, Ended
<1>2. ASSUME c \in Requests
      PROVE  Executing' = Executing /\ Ended' = Ended
  <2>1. c \notin Apps
    BY <1>2, CallersAssumption
  <2>2. /\ pc[c] \in {"executing", "destroying", "activating"}
        /\ \E p \in {"executing", "destroying", "activating", "reactivating", "dangling"} :
             pc' = pc \/ pc' = [pc EXCEPT ![c] = p]
    BY <1>2, <2>1 DEF Activate, FinishActivate, Deactivate, Destroy, FinishDestroy, Resumed, ChangeState,
           DeactivateManager, MayCall, CountInv, PlacesOK
  <2> QED  BY <1>2, <2>2 DEF Executing, Ended, CountInv, TypeOK, Callers
<1>3. \A w \in {"poa", "manager"} : completion[w].requests' = completion[w].requests
  <2>1. \/ completion' = completion
        \/ completion' = [completion EXCEPT !["manager"] = stopWaiting(@)]
    BY DEF Activate, FinishActivate, Deactivate, Destroy, FinishDestroy, ChangeState, DeactivateManager
  <2>2. stopWaiting(completion["manager"]).requests = completion["manager"].requests
    BY DEF stopWaiting, CountInv, TypeOK, Waiters
  <2> QED  BY <2>1, <2>2 DEF CountInv, TypeOK
<1>4. poa.destroyed => poa'.destroyed
  BY DEF Activate, FinishActivate, Deactivate, Destroy, FinishDestroy, trueDestroy, ChangeState,
         DeactivateManager, CountInv, TypeOK
<1> QED  BY <1>1, <1>2, <1>3, <1>4 DEF Callers

\* ... and so do those who wait
LEMMA WaitQuiet ==
  ASSUME CountInv, NEW a \in Apps, WaitForCompletion(a)
  PROVE  /\ Executing' = Executing /\ Ended' = Ended
         /\ \A w \in {"poa", "manager"} : completion[w].requests' = completion[w].requests
         /\ poa' = poa
<1>1. \A r \in Requests : pc'[r] = pc[r]
  BY CallersAssumption DEF WaitForCompletion, CountInv, TypeOK, Callers
<1> DEFINE v == WaitsOn(a)
<1>2. \/ completion' = [completion EXCEPT ![v] = Sleep(@, a)]
      \/ completion' = [completion EXCEPT ![v] = Completed(@)]
  BY DEF WaitForCompletion
<1>3. /\ v \in {"poa", "manager"}
      /\ Sleep(completion[v], a).requests = completion[v].requests
      /\ Completed(completion[v]).requests = completion[v].requests
  BY DEF WaitsOn, Sleep, Completed, CountInv, TypeOK, Waiters
<1>4. \A w \in {"poa", "manager"} : completion[w].requests' = completion[w].requests
  BY <1>2, <1>3 DEF CountInv, TypeOK
<1> QED  BY <1>1, <1>4 DEF Executing, Ended, WaitForCompletion

LEMMA NextCount == CountInv /\ [Next]_vars => CountInv'
<1> SUFFICES ASSUME CountInv, [Next]_vars  PROVE CountInv'
  OBVIOUS
<1> USE DEF CountInv
<1>1. ASSUME NEW r \in Requests, Find(r)  PROVE CountInv'
  <2>1. Executing' = Executing /\ Ended' = Ended
    <3>1. PICK p \in {"found", "done"} : pc' = [pc EXCEPT ![r] = p] /\ pc[r] = "taken"
      BY <1>1 DEF Find, find_servant
    <3> QED  BY <3>1 DEF Executing, Ended, TypeOK, Callers
  <2>2. UNCHANGED <<completion, poa>>
    BY <1>1 DEF Find, find_servant
  <2> QED  BY <1>1, <2>1, <2>2, FindTypes, QuietCovers
<1>0. ASSUME NEW r \in Requests, Take(r)  PROVE CountInv'
  <2>1. Executing' = Executing /\ Ended' = Ended
    BY <1>0 DEF Take, Executing, Ended, TypeOK, Callers
  <2>2. UNCHANGED <<completion, poa>>
    BY <1>0 DEF Take
  <2> QED  BY <1>0, <2>1, <2>2, TakeTypes, QuietCovers
<1>2. ASSUME NEW r \in Requests, AddUser(r)  PROVE CountInv'
  BY <1>2, AddUserTypes, AddUserCovers
<1>3. ASSUME NEW r \in Requests, EndInvocation(r)  PROVE CountInv'
  BY <1>3, EndInvocationTypes, EndInvocationCovers
<1>4. ASSUME NEW r \in Requests, RemoveUser(r)  PROVE CountInv'
  BY <1>4, RemoveUserTypes, RemoveUserCovers
<1>5. ASSUME NEW c \in Callers,
             \/ Activate(c) \/ FinishActivate(c) \/ Deactivate(c) \/ Destroy(c) \/ FinishDestroy(c)
             \/ ChangeState(c) \/ DeactivateManager(c)
      PROVE  CountInv'
  <2>1. CompletionCovers'
    BY <1>5, CallerQuiet, QuietCovers
  <2> QED  BY <1>5, <2>1, ActivateTypes, FinishActivateTypes, DeactivateTypes, DestroyTypes, FinishDestroyTypes,
              ManagerTypes
<1>6. ASSUME NEW a \in Apps, WaitForCompletion(a)  PROVE CountInv'
  <2>1. CompletionCovers'
    BY <1>6, WaitQuiet, QuietCovers
  <2> QED  BY <1>6, <2>1, WaitTypes
<1>7. CASE EtherealizeAllObjects
  <2>1. CompletionCovers'
    BY <1>7, QuietCovers DEF EtherealizeAllObjects, Executing, Ended
  <2> QED  BY <1>7, <2>1, EtherealizeTypes
<1>8. CASE UNCHANGED vars
  BY <1>8 DEF vars, history, TypeOK, PlacesOK, CompletionCovers, Executing, Ended
<1> QED  BY <1>0, <1>1, <1>2, <1>3, <1>4, <1>5, <1>6, <1>7, <1>8 DEF Next

LEMMA CountInvariance == Spec => []CountInv
  BY InitCount, NextCount, PTL DEF Spec

\* Every variable keeps its type for any number of requests, threads and
\* objects: no count of users or of requests in execution goes below zero,
\* although endRequest and removeUser never look before they decrement.
THEOREM TypeCorrect == Spec => []TypeOK
<1>1. CountInv => TypeOK
  BY DEF CountInv
<1> QED  BY CountInvariance, <1>1, PTL

\* Whatever threads overlap, the POA's CompletionWaiter counts exactly the
\* requests in execution, and the manager's at least these.
THEOREM WaitersCover == Spec => []CompletionCovers
<1>1. CountInv => CompletionCovers
  BY DEF CountInv
<1> QED  BY CountInvariance, <1>1, PTL

-----------------------------------------------------------------------------
(* Objects and requests                                                     *)

\* Nobody stops the wait of destroy; whoever is in destroy has announced it;
\* once the wait is over only requests that are counted then execute
DestroyOK ==
  /\ ~completion["poa"].stop
  /\ poa.destroyed => poa.destroying
  /\ \A c \in Callers : pc[c] \in {"destroying", "completing", "completed"} => poa.destroying
  /\ \A a \in Apps : pc[a] = "completed" => Executing \subseteq late
  /\ DestroyedIdle

\* Where a request is before it is counted
Early == {"idle", "taken", "found"}

\* Incarnations are told apart by their numbers, and a request is counted for
\* one that exists or has existed
IncOK ==
  /\ \A o \in Oids : isActive(o) => table[o].inc <= incarnations
  /\ \A o, p \in Oids :
       isActive(o) /\ isActive(p) /\ table[o].inc = table[p].inc => o = p
  /\ \A r \in Requests :
       /\ counted[r] <= incarnations
       /\ pc[r] \in Early => counted[r] = 0

\* The incarnation that a request was counted for is there, unless a stranger
\* has taken it away
UseOK ==
  \A r \in Executing \cup Ended :
     counted[r] \notin robbed \cup {0} /\ ~poa.destroyed =>
        isActive(oid[r]) /\ table[oid[r]].inc = counted[r]

ObjectInv == CountInv /\ DestroyOK /\ IncOK /\ UseOK /\ UsersAreCounted

\* The users of an incarnation can be counted
LEMMA FiniteUsers ==
  ASSUME NEW i
  PROVE  IsFiniteSet(Users(i)) /\ Cardinality(Users(i)) \in Nat
<1>1. Users(i) \in SUBSET (Executing \cup Ended)
  BY DEF Users
<1> QED  BY <1>1, FiniteFlight, FS_Subset, FS_CardinalityType

\* What an element holds
LEMMA ElementFields ==
  ASSUME TypeOK, NEW o \in Oids, isActive(o)
  PROVE  /\ table[o] \in Elements
         /\ table[o].users \in Nat /\ table[o].destroying \in BOOLEAN
         /\ table[o].inc \in Nat /\ table[o].inc # 0
<1>1. table[o] \in Elements
  BY DEF TypeOK, isActive
<1> QED  BY <1>1, IncarnationsAssumption DEF Elements, Incarnations

LEMMA InitObject == Init => ObjectInv
<1> SUFFICES ASSUME Init  PROVE ObjectInv
  OBVIOUS
<1>1. Executing = {} /\ Ended = {}
  BY DEF Init, Executing, Ended, Callers
<1>2. \A o \in Oids : ~isActive(o)
  BY DEF Init, isActive
<1>3. DestroyOK
  <2>1. ~completion["poa"].stop
    BY DEF Init
  <2>2. \A c \in Callers : pc[c] = "idle"
    BY DEF Init
  <2>3. ~poa.destroyed /\ ~poa.destroying
    BY DEF Init
  <2> QED  BY <1>1, <2>1, <2>2, <2>3 DEF DestroyOK, DestroyedIdle, Callers
<1>4. IncOK
  BY <1>2 DEF Init, IncOK, Early
<1>5. UseOK /\ UsersAreCounted
  BY <1>1, <1>2 DEF UseOK, UsersAreCounted
<1> QED  BY InitCount, <1>3, <1>4, <1>5 DEF ObjectInv

\* A step that leaves the objects and the requests that use them alone
LEMMA QuietObjects ==
  ASSUME ObjectInv, Executing' = Executing, Ended' = Ended,
         UNCHANGED <<table, counted, incarnations, robbed>>,
         \A r \in Executing \cup Ended : oid'[r] = oid[r],
         \A r \in Requests : pc'[r] \in Early => pc[r] \in Early,
         poa.destroying => poa'.destroying, poa.destroyed => poa'.destroyed
  PROVE  IncOK' /\ UseOK' /\ UsersAreCounted'
<1>1. IncOK'
  BY DEF ObjectInv, IncOK, isActive
<1>2. UseOK'
  BY DEF ObjectInv, UseOK, isActive
<1>3. UsersAreCounted'
  <2>1. \A i : Users(i)' = Users(i)
    BY DEF Users
  <2>2. \A o \in Oids : /\ isActive(o)' <=> isActive(o)
                        /\ CountOf(o)' = CountOf(o)
    BY <2>1 DEF isActive, isDestroying, CountOf
  <2> QED  BY <2>2 DEF ObjectInv, UsersAreCounted
<1> QED  BY <1>1, <1>2, <1>3

\* A new incarnation
LEMMA PutObjects ==
  ASSUME ObjectInv, NEW o \in Oids, NEW s \in Servants, CanPut(o, s), put(o, s),
         Executing' = Executing, Ended' = Ended, UNCHANGED <<counted, poa, robbed>>,
         \A r \in Requests : pc'[r] \in Early => pc[r] \in Early,
         \A r \in Executing \cup Ended : oid'[r] = oid[r] /\ oid[r] \in Oids
  PROVE  IncOK' /\ UseOK' /\ UsersAreCounted'
<1> USE DEF ObjectInv, CountInv
<1>1. /\ table' = [table EXCEPT ![o] = NewElement(s)]
      /\ incarnations' = incarnations + 1 /\ incarnations \in Nat
      /\ table \in [Oids -> Elements \cup {NULL}]
  BY DEF put, TypeOK
<1>2. /\ table'[o] = NewElement(s) /\ table'[o] # NULL
      /\ table'[o].inc = incarnations + 1 /\ table'[o].users = 1 /\ ~table'[o].destroying
  <2>1. NewElement(s) \in Elements
    BY IncarnationsAssumption DEF TypeOK, CanPut, NewElement, Elements, Incarnations
  <2>2. table'[o] = NewElement(s)
    BY <1>1
  <2>3. table'[o] # NULL
    BY <2>1, <2>2, NullAssumption
  <2>4. /\ NewElement(s).inc = incarnations + 1 /\ NewElement(s).users = 1
        /\ NewElement(s).destroying = FALSE
    BY DEF NewElement
  <2> QED  BY <2>2, <2>3, <2>4
<1>3. \A p \in Oids \ {o} : table'[p] = table[p]
  BY <1>1
<1>4. IncOK'
  <2>1. \A p \in Oids : isActive(p)' => table'[p].inc <= incarnations'
    <3> SUFFICES ASSUME NEW p \in Oids, isActive(p)'  PROVE table'[p].inc <= incarnations'
      OBVIOUS
    <3>1. CASE p = o
      BY <1>1, <1>2, <3>1
    <3>2. CASE p # o
      <4>1. isActive(p) /\ table'[p] = table[p]
        BY <1>3, <3>2 DEF isActive
      <4> QED  BY <1>1, <4>1, ElementFields DEF IncOK
    <3> QED  BY <3>1, <3>2
  <2>2. \A p \in Oids \ {o} : isActive(p)' => table'[p].inc # incarnations + 1
    <3> SUFFICES ASSUME NEW p \in Oids \ {o}, isActive(p)'
                 PROVE  table'[p].inc # incarnations + 1
      OBVIOUS
    <3>1. isActive(p) /\ table'[p] = table[p]
      BY <1>3 DEF isActive
    <3>2. table[p].inc <= incarnations /\ table[p].inc \in Nat
      BY <3>1, ElementFields DEF IncOK
    <3> QED  BY <1>1, <3>1, <3>2
  <2>3. \A p, q \in Oids :
          isActive(p)' /\ isActive(q)' /\ table'[p].inc = table'[q].inc => p = q
    BY <1>2, <1>3, <2>2 DEF IncOK, isActive
  <2>4. \A r \in Requests : counted[r] <= incarnations' /\ counted[r] \in Nat
    BY <1>1, IncarnationsAssumption DEF IncOK, TypeOK
  <2> QED  BY <2>1, <2>3, <2>4 DEF IncOK
<1>5. UseOK'
  <2>1. ~isActive(o)
    BY DEF CanPut
  <2>2. \A p \in Oids : isActive(p) => p # o /\ isActive(p)' /\ table'[p] = table[p]
    BY <1>3, <2>1 DEF isActive
  <2> QED  BY <2>2 DEF UseOK
<1>6. UsersAreCounted'
  <2>1. \A i : Users(i)' = Users(i)
    BY DEF Users
  <2>2. \A p \in Oids \ {o} : /\ isActive(p)' <=> isActive(p)
                              /\ CountOf(p)' = CountOf(p)
    BY <1>3, <2>1 DEF isActive, isDestroying, CountOf
  <2>3. CountOf(o)' = 1
    <3>1. Users(incarnations + 1) = {}
      BY <1>1, IncarnationsAssumption DEF Users, IncOK, TypeOK, Executing, Ended
    <3> QED  BY <1>2, <2>1, <3>1, FS_EmptySet DEF CountOf, isActive, isDestroying
  <2> QED  BY <1>2, <1>3, <2>2, <2>3 DEF UsersAreCounted
<1> QED  BY <1>4, <1>5, <1>6

\* The destruction of the POA leaves no object behind
LEMMA TrueDestroyObjects ==
  ASSUME ObjectInv, trueDestroy, UNCHANGED <<counted, incarnations>>,
         \A r \in Requests : pc'[r] \in Early => pc[r] \in Early
  PROVE  IncOK' /\ UseOK' /\ UsersAreCounted'
<1> USE DEF ObjectInv, CountInv
<1>1. \A o \in Oids : ~isActive(o)'
  BY DEF trueDestroy, isActive
<1>2. poa'.destroyed
  BY DEF trueDestroy, TypeOK
<1> QED  BY <1>1, <1>2 DEF IncOK, UseOK, UsersAreCounted

LEMMA TakeObjects ==
  ASSUME ObjectInv, NEW r \in Requests, Take(r)
  PROVE  DestroyOK' /\ IncOK' /\ UseOK' /\ UsersAreCounted'
<1> USE DEF ObjectInv, CountInv
<1>1. /\ pc' = [pc EXCEPT ![r] = "taken"] /\ pc[r] = "idle" /\ r \in Callers /\ r \notin Apps
      /\ UNCHANGED <<table, poa, completion, oid, counted, incarnations, robbed, late>>
  BY CallersAssumption DEF Take, Callers, history
<1>2. /\ Executing' = Executing /\ Ended' = Ended
      /\ \A q \in Requests : pc'[q] \in Early => pc[q] \in Early
  BY <1>1 DEF Executing, Ended, Early, TypeOK
<1>3. DestroyOK'
  <2>1. \A c \in Callers : pc'[c] # "taken" => pc'[c] = pc[c]
    BY <1>1 DEF TypeOK
  <2> QED  BY <1>1, <1>2, <2>1 DEF DestroyOK, DestroyedIdle, Callers
<1> QED  BY <1>1, <1>2, <1>3, QuietObjects

LEMMA FindObjects ==
  ASSUME ObjectInv, NEW r \in Requests, Find(r)
  PROVE  DestroyOK' /\ IncOK' /\ UseOK' /\ UsersAreCounted'
<1> USE DEF ObjectInv, CountInv
<1>1. PICK o \in Oids, next \in {"found", "done"} : find_servant(r, o, next)
  BY DEF Find
<1>2. /\ oid' = [oid EXCEPT ![r] = o] /\ pc[r] = "taken"
      /\ pc' = [pc EXCEPT ![r] = "done"] \/ pc' = [pc EXCEPT ![r] = next]
      /\ UNCHANGED <<mutex, poa, manager, completion, counted, robbed, late>>
  BY <1>1 DEF Find, find_servant, history
<1>3. /\ Executing' = Executing /\ Ended' = Ended
      /\ \A q \in Requests : pc'[q] \in Early => pc[q] \in Early
      /\ \A q \in Executing \cup Ended : oid'[q] = oid[q] /\ oid[q] \in Oids
  BY <1>2 DEF Executing, Ended, Early, TypeOK, PlacesOK, Callers
<1>4. DestroyOK'
  <2>1. \A c \in Callers : pc'[c] \in {"destroying", "completing", "completed"} => pc'[c] = pc[c]
    BY <1>2 DEF TypeOK
  <2>2. \A a \in Apps : pc'[a] = pc[a]
    BY <1>2, CallersAssumption DEF TypeOK, Callers
  <2> QED  BY <1>2, <1>3, <2>1, <2>2 DEF DestroyOK, DestroyedIdle, Callers
<1>5. CASE UNCHANGED <<table, incarnations>>
  BY <1>2, <1>3, <1>4, <1>5, QuietObjects
<1>6. ASSUME NEW s \in Servants, CanPut(o, s), put(o, s)
      PROVE  IncOK' /\ UseOK' /\ UsersAreCounted'
  BY <1>2, <1>3, <1>6, PutObjects
<1> QED  BY <1>1, <1>4, <1>5, <1>6 DEF find_servant

LEMMA AddUserObjects ==
  ASSUME ObjectInv, NEW r \in Requests, AddUser(r)
  PROVE  DestroyOK' /\ IncOK' /\ UseOK' /\ UsersAreCounted'
<1> USE DEF ObjectInv, CountInv
<1>0. PICK q \in Oids : q = oid[r]
  BY DEF AddUser, PlacesOK
<1>1. /\ pc[r] = "found" /\ counted[r] = 0 /\ r \in Callers /\ r \notin Apps
      /\ r \notin Executing \cup Ended
      /\ UNCHANGED <<poa, oid, incarnations, robbed>>
  BY CallersAssumption DEF AddUser, IncOK, Early, Executing, Ended, Callers
<1>2. CASE poa.destroyed
  <2>1. /\ pc' = [pc EXCEPT ![r] = "crashed"]
        /\ UNCHANGED <<table, completion, counted, late>>
    BY <1>2 DEF AddUser
  <2>2. /\ Executing' = Executing /\ Ended' = Ended
        /\ \A p \in Requests : pc'[p] \in Early => pc[p] \in Early
    BY <1>1, <2>1 DEF Executing, Ended, Early, TypeOK
  <2>3. DestroyOK'
    <3>1. \A c \in Callers : pc'[c] # "crashed" => pc'[c] = pc[c]
      BY <2>1 DEF TypeOK
    <3> QED  BY <1>1, <2>1, <2>2, <3>1 DEF DestroyOK, DestroyedIdle, Callers
  <2> QED  BY <1>1, <2>1, <2>2, <2>3, QuietObjects
<1>3. CASE ~poa.destroyed
  <2>1. /\ pc' = [pc EXCEPT ![r] = "executing"]
        /\ late' = IF \E a \in Apps : pc[a] = "completed" THEN late \cup {r} ELSE late
    BY <1>3 DEF AddUser
  <2>2. /\ Executing' = Executing \cup {r} /\ Ended' = Ended
        /\ pc'[r] = "executing" /\ \A p \in Requests \ {r} : pc'[p] = pc[p]
    BY <1>1, <2>1 DEF Executing, Ended, TypeOK
  <2>3. DestroyOK'
    <3>1. completion'["poa"].stop = completion["poa"].stop
      BY <1>3 DEF AddUser, beginRequest, TypeOK, Waiters
    <3>2. \A c \in Callers : pc'[c] # "executing" => pc'[c] = pc[c]
      BY <2>1 DEF TypeOK
    <3>3. \A a \in Apps : pc'[a] = "completed" => Executing' \subseteq late'
      <4> SUFFICES ASSUME NEW a \in Apps, pc'[a] = "completed"  PROVE Executing' \subseteq late'
        OBVIOUS
      <4>1. pc[a] = "completed"
        BY <3>2 DEF Callers
      <4> QED  BY <2>1, <2>2, <4>1 DEF DestroyOK
    <3> QED  BY <1>1, <1>3, <3>1, <3>2, <3>3 DEF DestroyOK, DestroyedIdle, Callers
  <2>4. CASE isActive(q)
    <3>0. PICK i \in Nat : i = table[q].inc
      BY <2>4, ElementFields
    <3>1. /\ table' = [table EXCEPT ![q].users = @ + 1]
          /\ counted' = [counted EXCEPT ![r] = i]
      BY <1>0, <1>3, <2>4, <3>0 DEF AddUser
    <3>2. /\ table[q] \in Elements /\ table[q].users \in Nat /\ i # 0
          /\ table[q].inc <= incarnations
      BY <2>4, <3>0, ElementFields DEF IncOK
    <3>3. /\ table'[q] = [table[q] EXCEPT !.users = @ + 1]
          /\ \A p \in Oids \ {q} : table'[p] = table[p]
      BY <3>1 DEF TypeOK
    <3>4. /\ table'[q].users = table[q].users + 1 /\ table'[q].inc = i
          /\ table'[q].destroying = table[q].destroying
          /\ table'[q] \in Elements
      BY <3>0, <3>2, <3>3 DEF Elements
    <3>5. \A p \in Oids : /\ isActive(p)' <=> isActive(p)
                          /\ isDestroying(p)' <=> isDestroying(p)
                          /\ table'[p].inc = table[p].inc
      BY <2>4, <3>0, <3>2, <3>3, <3>4, NullAssumption DEF isActive, isDestroying
    <3>6. counted'[r] = i /\ \A s \in Requests \ {r} : counted'[s] = counted[s]
      BY <3>1 DEF TypeOK
    <3>7. IncOK'
      <4>1. \A s \in Requests : counted'[s] <= incarnations
        BY <3>0, <3>2, <3>6 DEF IncOK
      <4> QED  BY <1>1, <2>2, <3>5, <3>6, <4>1 DEF IncOK, Early
    <3>8. UseOK'
      <4>1. isActive(oid[r])' /\ table'[oid'[r]].inc = counted'[r]
        BY <1>0, <1>1, <2>4, <3>4, <3>5, <3>6
      <4>2. \A s \in (Executing \cup Ended)' \ {r} :
              /\ s \in Executing \cup Ended /\ oid'[s] = oid[s] /\ oid[s] \in Oids
              /\ counted'[s] = counted[s]
        BY <1>1, <2>2, <3>6 DEF PlacesOK, Executing, Ended
      <4> QED  BY <1>1, <3>5, <4>1, <4>2 DEF UseOK
    <3>9. UsersAreCounted'
      <4>1. Users(i)' = Users(i) \cup {r} /\ r \notin Users(i)
        BY <1>1, <2>2, <3>6 DEF Users, Executing, Ended
      <4>2. \A j : j # i /\ j # 0 => Users(j)' = Users(j)
        BY <1>1, <2>2, <3>6 DEF Users, Executing, Ended
      <4>3. Cardinality(Users(i)') = Cardinality(Users(i)) + 1 /\ Cardinality(Users(i)) \in Nat
        BY <4>1, FiniteUsers, FS_AddElement
      <4>4. CountOf(q)' = CountOf(q) + 1 /\ CountOf(q) \in Nat
        BY <3>0, <3>4, <3>5, <4>3 DEF CountOf
      <4>5. \A p \in Oids \ {q} : isActive(p) => CountOf(p)' = CountOf(p)
        <5> SUFFICES ASSUME NEW p \in Oids \ {q}, isActive(p)  PROVE CountOf(p)' = CountOf(p)
          OBVIOUS
        <5>1. table[p].inc # i /\ table[p].inc # 0
          BY <2>4, <3>0, ElementFields DEF IncOK
        <5> QED  BY <3>5, <4>2, <5>1 DEF CountOf
      <4>6. table'[q].inc \notin robbed =>
              /\ table'[q].users >= CountOf(q)'
              /\ ~poa.destroying => table'[q].users = CountOf(q)'
        BY <2>4, <3>0, <3>2, <3>4, <4>4 DEF UsersAreCounted
      <4>7. \A p \in Oids \ {q} : isActive(p)' /\ table'[p].inc \notin robbed =>
              /\ table'[p].users >= CountOf(p)'
              /\ ~poa.destroying => table'[p].users = CountOf(p)'
        BY <3>3, <3>5, <4>5 DEF UsersAreCounted
      <4> QED  BY <1>1, <4>6, <4>7 DEF UsersAreCounted
    <3> QED  BY <2>3, <3>7, <3>8, <3>9
  <2>5. CASE ~isActive(q)
    <3>1. UNCHANGED <<table, counted>>
      BY <1>0, <1>3, <2>5 DEF AddUser
    <3>2. IncOK'
      BY <1>1, <2>2, <3>1 DEF IncOK, isActive, Early
    <3>3. UseOK'
      BY <1>1, <2>2, <3>1 DEF UseOK, isActive
    <3>4. UsersAreCounted'
      <4>1. \A j : j # 0 => Users(j)' = Users(j)
        BY <1>1, <2>2, <3>1 DEF Users
      <4>2. \A p \in Oids : isActive(p) => CountOf(p)' = CountOf(p)
        <5> SUFFICES ASSUME NEW p \in Oids, isActive(p)  PROVE CountOf(p)' = CountOf(p)
          OBVIOUS
        <5>1. table[p].inc # 0
          BY ElementFields
        <5> QED  BY <3>1, <4>1, <5>1 DEF CountOf, isDestroying, isActive
      <4> QED  BY <1>1, <3>1, <4>2 DEF UsersAreCounted, isActive
    <3> QED  BY <2>3, <3>2, <3>3, <3>4
  <2> QED  BY <2>4, <2>5
<1> QED  BY <1>2, <1>3

LEMMA EndInvocationObjects ==
  ASSUME ObjectInv, NEW r \in Requests, EndInvocation(r)
  PROVE  DestroyOK' /\ IncOK' /\ UseOK' /\ UsersAreCounted'
<1> USE DEF ObjectInv, CountInv
<1>1. /\ r \in Callers /\ r \notin Apps /\ r \in Executing
      /\ pc' = [pc EXCEPT ![r] = "ended"]
      /\ UNCHANGED <<table, poa, oid, counted, incarnations, robbed, late>>
  BY CallersAssumption DEF EndInvocation, history, Callers, Executing
<1>2. /\ Executing' = Executing \ {r}
      /\ Executing' \cup Ended' = Executing \cup Ended
  BY <1>1 DEF EndInvocation, Executing, Ended, TypeOK
<1>3. DestroyOK'
  <2>1. completion'["poa"].stop = completion["poa"].stop
    <3>1. PICK w \in EndRequest(completion["poa"]) : completion' = [completion EXCEPT !["poa"] = w]
      BY DEF EndInvocation
    <3>2. completion["poa"].requests # 0
      BY <1>1, FiniteFlight, FS_EmptySet DEF CompletionCovers
    <3> QED  BY <3>1, <3>2, EndRequestCounts DEF TypeOK
  <2>2. \A c \in Callers : pc'[c] \in {"destroying", "completing", "completed"} => pc'[c] = pc[c]
    BY <1>1 DEF TypeOK
  <2>3. \A a \in Apps : pc'[a] = pc[a]
    BY <1>1 DEF TypeOK, Callers
  <2> QED  BY <1>1, <1>2, <2>1, <2>2, <2>3 DEF DestroyOK, DestroyedIdle, Callers
<1>4. IncOK'
  <2>1. \A q \in Requests : pc'[q] \in Early => pc'[q] = pc[q]
    BY <1>1 DEF TypeOK, Callers, Early
  <2> QED  BY <1>1, <2>1 DEF IncOK, isActive, Early
<1>5. UseOK'
  BY <1>1, <1>2 DEF UseOK, isActive, isDestroying
<1>6. UsersAreCounted'
  <2>1. \A i : Users(i)' = Users(i)
    BY <1>1, <1>2 DEF Users
  <2>2. \A p \in Oids : /\ isActive(p)' <=> isActive(p)
                        /\ CountOf(p)' = CountOf(p)
    BY <1>1, <2>1 DEF isActive, isDestroying, CountOf
  <2> QED  BY <1>1, <2>2 DEF UsersAreCounted
<1> QED  BY <1>3, <1>4, <1>5, <1>6

\* Taking a user away from q can only be felt at q
LEMMA TryElement ==
  ASSUME NEW t \in [Oids -> Elements \cup {NULL}], NEW q \in Oids, t[q] \in Elements
  PROVE  LET u == tryToRemoveObject(t, q) IN
         /\ \A p \in Oids \ {q} : u[p] = t[p]
         /\ t[q].users <= 1 => u[q] = NULL
         /\ ~(t[q].users <= 1) =>
              /\ u[q] \in Elements /\ u[q] # NULL
              /\ u[q].users = t[q].users - 1
              /\ u[q].inc = t[q].inc /\ u[q].destroying = t[q].destroying
<1>1. t[q] # NULL
  BY NullAssumption
<1>2. CASE t[q].users <= 1
  BY <1>1, <1>2 DEF tryToRemoveObject
<1>3. CASE ~(t[q].users <= 1)
  <2>1. PICK e \in Elements : e = t[q]
    OBVIOUS
  <2>2. /\ [e EXCEPT !.users = @ - 1] \in Elements
        /\ [e EXCEPT !.users = @ - 1].users = e.users - 1
        /\ [e EXCEPT !.users = @ - 1].inc = e.inc
        /\ [e EXCEPT !.users = @ - 1].destroying = e.destroying
    <3>1. e.users - 1 \in Nat
      BY <1>3, <2>1 DEF Elements
    <3> QED  BY <3>1 DEF Elements
  <2>3. tryToRemoveObject(t, q) = [t EXCEPT ![q].users = @ - 1]
    BY <1>1, <1>3 DEF tryToRemoveObject
  <2> QED  BY <1>3, <2>1, <2>2, <2>3, NullAssumption
<1> QED  BY <1>2, <1>3

\* The end of a request takes an object out of the map only if it was
\* deactivated and nobody else uses it, or if the request is a stranger
LEMMA RemoveUserObjects ==
  ASSUME ObjectInv, NEW r \in Requests, RemoveUser(r)
  PROVE  DestroyOK' /\ IncOK' /\ UseOK' /\ UsersAreCounted'
<1> USE DEF ObjectInv, CountInv
<1>1. /\ r \in Callers /\ r \notin Apps /\ r \in Ended
      /\ pc' = [pc EXCEPT ![r] = "done"]
      /\ UNCHANGED <<oid, counted, incarnations, late>>
  BY CallersAssumption DEF RemoveUser, Callers, Ended
<1>2. /\ Executing' = Executing /\ Ended' = Ended \ {r} /\ r \notin Executing
      /\ \A q \in Requests : pc'[q] \in Early => pc[q] \in Early
  BY <1>1 DEF RemoveUser, Executing, Ended, Early, TypeOK
<1>3. /\ poa'.destroying = poa.destroying
      /\ \/ poa' = poa
         \/ poa.destroying /\ trueDestroy /\ Executing = {}
  <2>1. \/ poa' = poa
        \/ poa.destroying /\ trueDestroy /\ completion["poa"].requests = 0
    BY DEF RemoveUser
  <2>2. completion["poa"].requests = 0 => Executing = {}
    BY FiniteFlight, FS_EmptySet DEF CompletionCovers
  <2>3. trueDestroy => poa'.destroying = poa.destroying
    BY DEF trueDestroy, TypeOK
  <2> QED  BY <2>1, <2>2, <2>3
<1>4. DestroyOK'
  <2>1. completion'["poa"] = completion["poa"]
    BY DEF RemoveUser, TypeOK
  <2>2. \A c \in Callers : pc'[c] # "done" => pc'[c] = pc[c]
    BY <1>1 DEF TypeOK
  <2>3. \A a \in Apps : pc'[a] = pc[a]
    BY <1>1 DEF TypeOK, Callers
  <2> QED  BY <1>1, <1>2, <1>3, <2>1, <2>2, <2>3 DEF DestroyOK, DestroyedIdle, Callers
<1>5. CASE trueDestroy
  BY <1>1, <1>2, <1>4, <1>5, TrueDestroyObjects
<1>6. ASSUME UNCHANGED <<poa, table, robbed>>,
             poa.destroying \/ counted[r] \in robbed \cup {0}
      PROVE  IncOK' /\ UseOK' /\ UsersAreCounted'
  <2>1. IncOK'
    BY <1>1, <1>2, <1>6 DEF IncOK, isActive
  <2>2. UseOK'
    BY <1>1, <1>2, <1>6 DEF UseOK, isActive
  <2>3. UsersAreCounted'
    <3> SUFFICES ASSUME NEW p \in Oids, isActive(p)', table'[p].inc \notin robbed'
                 PROVE  /\ table'[p].users >= CountOf(p)'
                        /\ ~poa'.destroying => table'[p].users = CountOf(p)'
      BY DEF UsersAreCounted
    <3>1. PICK i \in Nat : /\ i = table[p].inc /\ i \notin robbed \cup {0}
                           /\ isActive(p) /\ table[p].users \in Nat
      BY <1>6, ElementFields DEF isActive
    <3>2. Users(i)' = Users(i) \ {r} /\ (counted[r] # i => Users(i)' = Users(i))
      BY <1>1, <1>2, <3>1 DEF Users
    <3>3. /\ Cardinality(Users(i)') <= Cardinality(Users(i))
          /\ Cardinality(Users(i)) \in Nat /\ Cardinality(Users(i)') \in Nat
      <4>1. Users(i)' \in SUBSET Users(i)
        BY <3>2
      <4> QED  BY <4>1, FiniteUsers, FS_Subset, FS_CardinalityType
    <3>4. isDestroying(p)' <=> isDestroying(p)
      BY <1>6 DEF isDestroying, isActive
    <3>5. /\ CountOf(p)' <= CountOf(p) /\ CountOf(p) \in Nat /\ CountOf(p)' \in Nat
          /\ counted[r] # i => CountOf(p)' = CountOf(p)
      BY <1>6, <3>1, <3>2, <3>3, <3>4 DEF CountOf
    <3> QED  BY <1>6, <3>1, <3>5 DEF UsersAreCounted
  <2> QED  BY <2>1, <2>2, <2>3
<1>7. ASSUME ~poa.destroying, poa' = poa, table' = tryToRemoveObject(table, oid[r]),
             robbed' = robbed \cup Strangers(r)
      PROVE  IncOK' /\ UseOK' /\ UsersAreCounted'
  <2>1. PICK q \in Oids : q = oid[r]
    BY DEF RemoveUser, PlacesOK
  <2>2. counted[r] \notin robbed \cup {0} => isActive(q) /\ table[q].inc = counted[r]
    BY <1>1, <1>7, <2>1 DEF UseOK, DestroyOK
  <2>3. CASE ~isActive(q)
    <3>1. table' = table /\ Strangers(r) = {}
      BY <1>7, <2>1, <2>3 DEF tryToRemoveObject, isActive, Strangers
    <3> QED  BY <1>6, <1>7, <2>2, <2>3, <3>1
  <2>4. CASE isActive(q)
    <3>1. PICK i \in Nat : i = table[q].inc /\ i # 0 /\ table[q].users \in Nat
                           /\ table[q] \in Elements
      BY <2>4, ElementFields
    <3>2. /\ \A p \in Oids \ {q} : table'[p] = table[p]
          /\ table[q].users <= 1 => table'[q] = NULL
          /\ ~(table[q].users <= 1) =>
               /\ table'[q] # NULL /\ table'[q].inc = i
               /\ table'[q].users = table[q].users - 1
               /\ table'[q].destroying = table[q].destroying
      <4>1. table \in [Oids -> Elements \cup {NULL}] /\ table' = tryToRemoveObject(table, q)
        BY <1>7, <2>1 DEF TypeOK
      <4> QED  BY <3>1, <4>1, TryElement
    <3>20. \A p \in Oids \ {q} : /\ isActive(p)' <=> isActive(p)
                                 /\ isDestroying(p)' <=> isDestroying(p)
      BY <3>2 DEF isActive, isDestroying
    <3>21. table[q].users <= 1 => ~isActive(q)'
      BY <3>2 DEF isActive
    <3>22. ~(table[q].users <= 1) => isActive(q)' /\ (isDestroying(q)' <=> isDestroying(q))
      BY <2>4, <3>2 DEF isActive, isDestroying
    <3>3. robbed \subseteq robbed' /\ (i # counted[r] => i \in robbed')
      BY <1>7, <2>1, <2>4, <3>1 DEF Strangers
    <3>4. Users(counted[r])' = Users(counted[r]) \ {r} /\ r \in Users(counted[r])
      BY <1>1, <1>2 DEF Users
    <3>5. \A j : j # counted[r] => Users(j)' = Users(j)
      BY <1>1, <1>2 DEF Users
    <3>6. IncOK'
      <4>1. \A p \in Oids : isActive(p)' => isActive(p) /\ table'[p].inc = table[p].inc
        BY <2>4, <3>1, <3>2, <3>20, <3>21
      <4> QED  BY <1>1, <1>2, <4>1 DEF IncOK
    <3>7. \A p \in Oids \ {q} : isActive(p)' /\ table'[p].inc \notin robbed' =>
            /\ table'[p].users >= CountOf(p)'
            /\ ~poa'.destroying => table'[p].users = CountOf(p)'
      <4> SUFFICES ASSUME NEW p \in Oids \ {q}, isActive(p)', table'[p].inc \notin robbed'
                   PROVE  /\ table'[p].users >= CountOf(p)'
                          /\ ~poa'.destroying => table'[p].users = CountOf(p)'
        OBVIOUS
      <4>1. table'[p] = table[p] /\ isActive(p) /\ (isDestroying(p)' <=> isDestroying(p))
        BY <3>2, <3>20
      <4>2. table[p].inc \notin robbed \cup {0} /\ table[p].inc # i
        BY <2>4, <3>1, <3>3, <4>1, ElementFields DEF IncOK
      <4>3. table[p].inc # counted[r]
        BY <2>2, <3>1, <4>2
      <4>4. CountOf(p)' = CountOf(p)
        BY <3>5, <4>1, <4>3 DEF CountOf
      <4> QED  BY <1>7, <4>1, <4>2, <4>4 DEF UsersAreCounted
    <3>8. \A s \in (Executing \cup Ended) \ {r} :
            /\ oid[s] \in Oids /\ oid'[s] = oid[s] /\ counted'[s] = counted[s]
            /\ counted[s] \notin robbed' \cup {0} =>
                 isActive(oid[s]) /\ table[oid[s]].inc = counted[s]
      BY <1>1, <1>7, <3>3 DEF UseOK, DestroyOK, PlacesOK, Executing, Ended
    <3>9. CASE i \in robbed'
      <4>1. \A s \in (Executing \cup Ended) \ {r} :
              counted[s] \notin robbed' \cup {0} => oid[s] # q
        BY <3>1, <3>8, <3>9
      <4>2. UseOK'
        BY <1>1, <1>2, <3>2, <3>20, <3>8, <4>1 DEF UseOK
      <4>3. UsersAreCounted'
        BY <3>2, <3>7, <3>9, <3>21, <3>22 DEF UsersAreCounted
      <4> QED  BY <3>6, <4>2, <4>3
    <3>10. CASE i \notin robbed'
      <4>1. i = counted[r] /\ i \notin robbed
        BY <3>3, <3>10
      <4>2. table[q].users = Cardinality(Users(i)) + IF isDestroying(q) THEN 0 ELSE 1
        BY <1>7, <2>4, <3>1, <4>1 DEF UsersAreCounted, CountOf
      <4>3. /\ Cardinality(Users(i)) \in Nat /\ Cardinality(Users(i)) >= 1
            /\ Cardinality(Users(i)) = 1 => Users(i) = {r}
            /\ Cardinality(Users(i)') = Cardinality(Users(i)) - 1
        <5>1. Cardinality(Users(i)) # 0
          BY <3>4, <4>1, FiniteUsers, FS_EmptySet
        <5>2. Cardinality(Users(i)) = 1 => \E x : Users(i) = {x}
          BY FiniteUsers, FS_Singleton
        <5>3. Users(i)' = Users(i) \ {r} /\ r \in Users(i)
          BY <1>1, <1>2, <4>1 DEF Users
        <5>4. Cardinality(Users(i)) = 1 => Users(i) = {r}
          BY <5>2, <5>3
        <5>5. Cardinality(Users(i) \ {r}) = Cardinality(Users(i)) - 1
          BY <5>3, FiniteUsers, FS_RemoveElement
        <5>6. Cardinality(Users(i)) \in Nat
          BY FiniteUsers
        <5> QED  BY <5>1, <5>3, <5>4, <5>5, <5>6
      <4>4. CASE table[q].users <= 1
        <5>1. Users(i) = {r}
          BY <4>2, <4>3, <4>4
        <5>2. \A s \in (Executing \cup Ended) \ {r} :
                counted[s] \notin robbed' \cup {0} => oid[s] # q
          BY <3>1, <3>8, <5>1 DEF Users
        <5>3. UseOK'
          BY <1>1, <1>2, <3>2, <3>20, <3>8, <5>2 DEF UseOK
        <5>4. UsersAreCounted'
          BY <3>7, <3>21, <4>4 DEF UsersAreCounted
        <5> QED  BY <3>6, <5>3, <5>4
      <4>5. CASE ~(table[q].users <= 1)
        <5>1. UseOK'
          BY <1>1, <1>2, <3>1, <3>2, <3>20, <3>22, <3>8, <4>5 DEF UseOK
        <5>2. CountOf(q)' = Cardinality(Users(i)) - 1 + IF isDestroying(q) THEN 0 ELSE 1
          <6>1. table'[q].inc = i /\ (isDestroying(q)' <=> isDestroying(q))
            BY <3>2, <3>22, <4>5
          <6>2. CountOf(q)' = Cardinality(Users(i)') + IF isDestroying(q) THEN 0 ELSE 1
            BY <6>1 DEF CountOf
          <6> QED  BY <4>3, <6>2
        <5>3. table'[q].users = CountOf(q)' /\ table'[q].users \in Nat
          BY <3>1, <3>2, <4>2, <4>3, <4>5, <5>2
        <5>4. UsersAreCounted'
          BY <3>7, <5>3 DEF UsersAreCounted
        <5> QED  BY <3>6, <5>1, <5>4
      <4> QED  BY <4>4, <4>5
    <3> QED  BY <3>9, <3>10
  <2> QED  BY <2>3, <2>4
<1>8. \/ UNCHANGED <<table, poa, robbed>> /\ poa.destroying
      \/ trueDestroy
      \/ /\ ~poa.destroying /\ poa' = poa /\ table' = tryToRemoveObject(table, oid[r])
         /\ robbed' = robbed \cup Strangers(r)
  BY DEF RemoveUser, DestroyOK
<1> QED  BY <1>4, <1>5, <1>6, <1>7, <1>8

\* A step of a thread that keeps the wait of destroy as it is
LEMMA QuietDestroy ==
  ASSUME ObjectInv, Executing' = Executing, late' = late,
         ~completion'["poa"].stop, poa' = poa,
         \A c \in Callers : pc'[c] \in {"destroying", "completing"} => pc'[c] = pc[c],
         \A a \in Apps : pc'[a] = "completed" =>
            poa.destroying /\ Executing \subseteq late,
         \A r \in Requests : pc'[r] # "completed"
  PROVE  DestroyOK'
BY DEF ObjectInv, DestroyOK, DestroyedIdle, Callers

LEMMA ActivateObjects ==
  ASSUME ObjectInv, NEW c \in Callers, Activate(c) \/ FinishActivate(c)
  PROVE  DestroyOK' /\ IncOK' /\ UseOK' /\ UsersAreCounted'
<1> USE DEF ObjectInv, CountInv
<1>1. /\ Executing' = Executing /\ Ended' = Ended
      /\ UNCHANGED <<poa, completion, oid, counted, robbed, late>>
  BY CallerQuiet DEF Activate, FinishActivate, history
<1>2. PICK p \in {"activating", "dangling", "reactivating", Resumed(c)} : pc' = [pc EXCEPT ![c] = p]
  BY DEF Activate, FinishActivate
<1>3. \A b \in Callers : pc'[b] = pc[b] \/ pc'[b] \in {"activating", "dangling", "reactivating",
                                                      "idle", "executing"}
  BY <1>2 DEF TypeOK, Resumed
<1>4. \A r \in Requests : pc'[r] \in Early => pc[r] \in Early
  BY <1>2, CallersAssumption DEF TypeOK, Callers, Resumed, Early
<1>5. DestroyOK'
  <2>1. \A r \in Requests : pc[r] # "completed"
    BY DEF PlacesOK
  <2> QED  BY <1>1, <1>3, <2>1, QuietDestroy DEF DestroyOK, Callers
<1>6. CASE UNCHANGED <<table, incarnations>>
  BY <1>1, <1>4, <1>5, <1>6, QuietObjects
<1>7. ASSUME NEW o \in Oids, NEW s \in Servants, CanPut(o, s), put(o, s)
      PROVE  IncOK' /\ UseOK' /\ UsersAreCounted'
  <2>1. \A r \in Executing \cup Ended : oid[r] \in Oids
    BY DEF PlacesOK, Executing, Ended
  <2> QED  BY <1>1, <1>4, <1>7, <2>1, PutObjects
<1>8. UNCHANGED <<table, incarnations>> \/ \E o \in Oids, s \in Servants : CanPut(o, s) /\ put(o, s)
  BY DEF Activate, FinishActivate
<1> QED  BY <1>5, <1>6, <1>7, <1>8

\* deactivate_object takes an element out only if no request uses it
LEMMA DeactivateObjects ==
  ASSUME ObjectInv, NEW c \in Callers, Deactivate(c)
  PROVE  DestroyOK' /\ IncOK' /\ UseOK' /\ UsersAreCounted'
<1> USE DEF ObjectInv, CountInv
<1>1. /\ Executing' = Executing /\ Ended' = Ended
      /\ UNCHANGED <<poa, completion, pc, oid, counted, incarnations, robbed, late>>
      /\ ~poa.destroyed
  BY CallerQuiet DEF Deactivate, history
<1>2. PICK o \in Oids :
        /\ isActive(o) /\ ~isDestroying(o)
        /\ table' = tryToRemoveObject([table EXCEPT ![o].destroying = TRUE], o)
  BY DEF Deactivate
<1>3. DestroyOK'
  BY <1>1 DEF DestroyOK, DestroyedIdle
<1> DEFINE t == [table EXCEPT ![o].destroying = TRUE]
<1>4. PICK i \in Nat : i = table[o].inc /\ i # 0
  BY <1>2, ElementFields
<1>5. /\ table[o].users \in Nat
      /\ t \in [Oids -> Elements \cup {NULL}]
      /\ t[o] \in Elements /\ t[o].users = table[o].users
      /\ t[o].inc = table[o].inc /\ t[o].destroying
      /\ \A p \in Oids \ {o} : t[p] = table[p]
  <2>1. PICK e \in Elements : e = table[o]
    BY <1>2, ElementFields
  <2>2. /\ [e EXCEPT !.destroying = TRUE] \in Elements
        /\ [e EXCEPT !.destroying = TRUE].users = e.users
        /\ [e EXCEPT !.destroying = TRUE].inc = e.inc
        /\ [e EXCEPT !.destroying = TRUE].destroying
    BY DEF Elements
  <2>3. t[o] = [e EXCEPT !.destroying = TRUE] /\ \A p \in Oids \ {o} : t[p] = table[p]
    BY <2>1 DEF TypeOK
  <2>4. t \in [Oids -> Elements \cup {NULL}]
    BY <2>1, <2>2 DEF TypeOK
  <2> QED  BY <1>2, <2>1, <2>2, <2>3, <2>4, ElementFields
<1>6. /\ \A p \in Oids \ {o} : table'[p] = table[p]
      /\ table[o].users <= 1 => table'[o] = NULL
      /\ ~(table[o].users <= 1) =>
           /\ table'[o] # NULL /\ table'[o].inc = i
           /\ table'[o].users = table[o].users - 1
           /\ table'[o].destroying
  <2> HIDE DEF t
  <2>1. table' = tryToRemoveObject(t, o)
    BY <1>2 DEF t
  <2> QED  BY <1>4, <1>5, <2>1, TryElement
<1>60. \A p \in Oids \ {o} : /\ isActive(p)' <=> isActive(p)
                             /\ isDestroying(p)' <=> isDestroying(p)
  BY <1>6 DEF isActive, isDestroying
<1>61. table[o].users <= 1 => ~isActive(o)'
  BY <1>6 DEF isActive
<1>62. ~(table[o].users <= 1) => isActive(o)' /\ isDestroying(o)'
  BY <1>6 DEF isActive, isDestroying
<1>7. \A j : Users(j)' = Users(j)
  BY <1>1 DEF Users
<1>8. \A p \in Oids \ {o} : isActive(p)' /\ table'[p].inc \notin robbed' =>
        /\ table'[p].users >= CountOf(p)'
        /\ ~poa'.destroying => table'[p].users = CountOf(p)'
  <2>1. \A p \in Oids \ {o} : CountOf(p)' = CountOf(p)
    BY <1>6, <1>60, <1>7 DEF CountOf
  <2> QED  BY <1>1, <1>6, <1>60, <2>1 DEF UsersAreCounted
<1>9. i \notin robbed =>
        /\ Cardinality(Users(i)) \in Nat
        /\ table[o].users >= Cardinality(Users(i)) + 1
        /\ ~poa.destroying => table[o].users = Cardinality(Users(i)) + 1
  BY <1>2, <1>4, FiniteUsers DEF UsersAreCounted, CountOf
<1>10. \A r \in Executing \cup Ended :
         /\ oid[r] \in Oids
         /\ counted[r] \notin robbed \cup {0} =>
              /\ isActive(oid[r]) /\ table[oid[r]].inc = counted[r]
              /\ oid[r] = o => r \in Users(i) /\ i \notin robbed
  BY <1>1, <1>4 DEF UseOK, Users, PlacesOK, Executing, Ended
<1>11. IncOK'
  <2>1. \A p \in Oids : isActive(p)' => isActive(p) /\ table'[p].inc = table[p].inc
    BY <1>2, <1>4, <1>6, <1>60, <1>61
  <2> QED  BY <1>1, <2>1 DEF IncOK
<1>12. CASE table[o].users <= 1
  <2>1. i \notin robbed => Users(i) = {}
    BY <1>5, <1>9, <1>12, FiniteUsers, FS_EmptySet
  <2>2. UseOK'
    BY <1>1, <1>6, <1>60, <1>10, <2>1 DEF UseOK
  <2>3. UsersAreCounted'
    BY <1>61, <1>8, <1>12 DEF UsersAreCounted
  <2> QED  BY <1>3, <1>11, <2>2, <2>3
<1>13. CASE ~(table[o].users <= 1)
  <2>1. UseOK'
    BY <1>1, <1>4, <1>6, <1>60, <1>62, <1>10, <1>13 DEF UseOK
  <2>2. CountOf(o)' = Cardinality(Users(i)) + 0
    BY <1>6, <1>62, <1>7, <1>13 DEF CountOf
  <2>3. i \notin robbed =>
          /\ table'[o].users >= CountOf(o)'
          /\ ~poa'.destroying => table'[o].users = CountOf(o)'
    BY <1>1, <1>5, <1>6, <1>9, <1>13, <2>2
  <2>4. UsersAreCounted'
    BY <1>1, <1>6, <1>8, <1>13, <2>3 DEF UsersAreCounted
  <2> QED  BY <1>3, <1>11, <2>1, <2>4
<1> QED  BY <1>12, <1>13

LEMMA DestroyObjects ==
  ASSUME ObjectInv, NEW c \in Callers, Destroy(c)
  PROVE  DestroyOK' /\ IncOK' /\ UseOK' /\ UsersAreCounted'
<1> USE DEF ObjectInv, CountInv
<1>1. /\ Executing' = Executing /\ Ended' = Ended
      /\ UNCHANGED <<table, completion, oid, counted, incarnations, robbed, late>>
  BY CallerQuiet DEF Destroy, history
<1>2. poa'.destroying /\ poa'.destroyed = poa.destroyed
  BY DEF Destroy, TypeOK
<1>3. PICK p \in {"destroying", "completing", "executing"} : pc' = [pc EXCEPT ![c] = p]
  BY DEF Destroy
<1>4. \A r \in Requests : pc'[r] \in Early => pc[r] \in Early
  BY <1>3 DEF TypeOK, Callers, Early
<1>5. DestroyOK'
  <2>1. \A a \in Apps : pc'[a] = "completed" => pc[a] = "completed"
    BY <1>3 DEF TypeOK, Callers
  <2> QED  BY <1>1, <1>2, <2>1 DEF DestroyOK, DestroyedIdle
<1> QED  BY <1>1, <1>2, <1>4, <1>5, QuietObjects

LEMMA FinishDestroyObjects ==
  ASSUME ObjectInv, NEW c \in Callers, FinishDestroy(c)
  PROVE  DestroyOK' /\ IncOK' /\ UseOK' /\ UsersAreCounted'
<1> USE DEF ObjectInv, CountInv
<1>1. /\ Executing' = Executing /\ Ended' = Ended
      /\ UNCHANGED <<completion, oid, counted, incarnations, robbed, late>>
      /\ pc' = [pc EXCEPT ![c] = Resumed(c)]
  BY CallerQuiet DEF FinishDestroy, history
<1>2. poa.destroying
  BY DEF FinishDestroy, DestroyOK
<1>3. c \in Requests => c \notin Apps /\ pc[c] = "destroying"
  BY CallersAssumption DEF FinishDestroy, PlacesOK
<1>4. /\ \A r \in Requests : pc'[r] \in Early => pc[r] \in Early
      /\ \A a \in Apps : pc'[a] = "completed" => pc[a] = "completed"
  BY <1>1, <1>3 DEF TypeOK, Callers, Resumed, Early
<1>5. completion["poa"].requests = 0 => Executing = {}
  BY FiniteFlight, FS_EmptySet DEF CompletionCovers
<1>6. pc[c] = "completed" => Executing \subseteq late
  BY <1>3 DEF DestroyOK, Callers
<1>7. UNCHANGED <<table, poa>> \/ (trueDestroy /\ Executing \subseteq late)
  BY <1>5, <1>6 DEF FinishDestroy
<1>8. /\ poa'.destroying
      /\ poa.destroyed => poa'.destroyed
      /\ poa'.destroyed => Executing \subseteq late
  BY <1>2, <1>7 DEF trueDestroy, TypeOK, DestroyOK, DestroyedIdle
<1>9. DestroyOK'
  BY <1>1, <1>2, <1>4, <1>8 DEF DestroyOK, DestroyedIdle
<1>10. CASE UNCHANGED <<table, poa>>
  BY <1>1, <1>4, <1>8, <1>9, <1>10, QuietObjects
<1>11. CASE trueDestroy
  BY <1>1, <1>4, <1>9, <1>11, TrueDestroyObjects
<1> QED  BY <1>7, <1>10, <1>11

LEMMA ManagerObjects ==
  ASSUME ObjectInv, NEW c \in Callers, ChangeState(c) \/ DeactivateManager(c)
  PROVE  DestroyOK' /\ IncOK' /\ UseOK' /\ UsersAreCounted'
<1> USE DEF ObjectInv, CountInv
<1>1. /\ Executing' = Executing /\ Ended' = Ended
      /\ UNCHANGED <<table, poa, oid, counted, incarnations, robbed, late>>
  BY CallerQuiet DEF ChangeState, DeactivateManager, history
<1>2. completion'["poa"] = completion["poa"]
  BY DEF ChangeState, DeactivateManager, TypeOK
<1>3. pc' = pc \/ \E p \in {"draining", "deactivating"} : pc' = [pc EXCEPT ![c] = p]
  BY DEF ChangeState, DeactivateManager
<1>4. \A b \in Callers : pc'[b] \notin {"draining", "deactivating"} => pc'[b] = pc[b]
  BY <1>3 DEF TypeOK
<1>5. DestroyOK'
  <2>1. \A r \in Requests : pc[r] # "completed"
    BY DEF PlacesOK
  <2> QED  BY <1>1, <1>2, <1>4, <2>1, QuietDestroy DEF DestroyOK, Callers
<1>6. \A r \in Requests : pc'[r] \in Early => pc[r] \in Early
  BY <1>4 DEF Callers, Early
<1> QED  BY <1>1, <1>5, <1>6, QuietObjects

\* The wait of destroy ends only when no request executes: nobody stops it
LEMMA WaitObjects ==
  ASSUME ObjectInv, NEW a \in Apps, WaitForCompletion(a)
  PROVE  DestroyOK' /\ IncOK' /\ UseOK' /\ UsersAreCounted'
<1> USE DEF ObjectInv, CountInv
<1>1. /\ Executing' = Executing /\ Ended' = Ended /\ poa' = poa
      /\ UNCHANGED <<table, oid, counted, incarnations, robbed, late>>
  BY WaitQuiet DEF WaitForCompletion, history
<1>2. a \in Callers /\ a \notin Requests
  BY CallersAssumption DEF Callers
<1>3. ~completion'["poa"].stop
  <2> DEFINE w == WaitsOn(a)
  <2>1. w \in {"poa", "manager"}
    BY DEF WaitsOn
  <2>2. \/ completion' = [completion EXCEPT ![w] = Sleep(@, a)]
        \/ completion' = [completion EXCEPT ![w] = Completed(@)]
    BY DEF WaitForCompletion
  <2>3. /\ Sleep(completion["poa"], a).stop = completion["poa"].stop
        /\ Completed(completion["poa"]).stop = FALSE
    BY DEF Sleep, Completed, TypeOK, Waiters
  <2>4. completion'["poa"] \in {completion["poa"], Sleep(completion["poa"], a),
                                 Completed(completion["poa"])}
    BY <2>1, <2>2 DEF TypeOK
  <2> QED  BY <2>3, <2>4 DEF DestroyOK
<1>4. \/ pc' = pc
      \/ pc' = [pc EXCEPT ![a] = "idle"]
      \/ /\ pc[a] = "completing" /\ ~MustWait(completion["poa"])
         /\ pc' = [pc EXCEPT ![a] = "completed"]
  BY DEF WaitForCompletion, WaitsOn
<1>5. pc[a] = "completing" /\ ~MustWait(completion["poa"]) => poa.destroying /\ Executing = {}
  BY <1>2, FiniteFlight, FS_EmptySet DEF DestroyOK, MustWait, CompletionCovers
<1>6. DestroyOK'
  <2>1. \A b \in Callers : pc'[b] \in {"destroying", "completing"} => pc'[b] = pc[b]
    BY <1>2, <1>4 DEF TypeOK
  <2>2. \A b \in Apps : pc'[b] = "completed" => poa.destroying /\ Executing \subseteq late
    BY <1>2, <1>4, <1>5 DEF TypeOK, Callers, DestroyOK
  <2>3. \A r \in Requests : pc'[r] # "completed"
    BY <1>2, <1>4 DEF PlacesOK, TypeOK, Callers
  <2> QED  BY <1>1, <1>3, <2>1, <2>2, <2>3, QuietDestroy
<1>7. \A r \in Requests : pc'[r] \in Early => pc[r] \in Early
  BY <1>2, <1>4 DEF TypeOK, Callers
<1> QED  BY <1>1, <1>6, <1>7, QuietObjects

\* Etherealization takes everything out, and remembers whose place it was
LEMMA EtherealizeObjects ==
  ASSUME ObjectInv, EtherealizeAllObjects
  PROVE  DestroyOK' /\ IncOK' /\ UseOK' /\ UsersAreCounted'
<1> USE DEF ObjectInv, CountInv
<1>1. /\ UNCHANGED <<poa, completion, pc, oid, counted, incarnations, late>>
      /\ \/ UNCHANGED <<table, robbed>>
         \/ /\ table' = [o \in Oids |-> NULL]
            /\ robbed' = robbed \cup {table[o].inc : o \in {n \in Oids : isActive(n)}}
  BY DEF EtherealizeAllObjects
<1>2. Executing' = Executing /\ Ended' = Ended
  BY <1>1 DEF Executing, Ended
<1>3. DestroyOK'
  BY <1>1, <1>2 DEF DestroyOK, DestroyedIdle
<1>4. CASE UNCHANGED <<table, robbed>>
  BY <1>1, <1>2, <1>3, <1>4, QuietObjects
<1>5. CASE /\ table' = [o \in Oids |-> NULL]
           /\ robbed' = robbed \cup {table[o].inc : o \in {n \in Oids : isActive(n)}}
  <2>1. \A o \in Oids : ~isActive(o)'
    BY <1>5 DEF isActive
  <2>2. IncOK'
    BY <1>1, <2>1 DEF IncOK
  <2>3. \A o \in Oids : isActive(o) => table[o].inc \in robbed'
    BY <1>5
  <2>4. \A r \in Executing \cup Ended :
          ~poa.destroyed => counted[r] \in robbed' \cup {0}
    BY <1>5, <2>3 DEF UseOK, PlacesOK, Executing, Ended
  <2>5. UseOK'
    BY <1>1, <1>2, <2>4 DEF UseOK
  <2> QED  BY <1>3, <2>1, <2>2, <2>5 DEF UsersAreCounted
<1> QED  BY <1>1, <1>4, <1>5

LEMMA NextObject == ObjectInv /\ [Next]_vars => ObjectInv'
<1> SUFFICES ASSUME ObjectInv, [Next]_vars
             PROVE  DestroyOK' /\ IncOK' /\ UseOK' /\ UsersAreCounted'
  BY NextCount DEF ObjectInv
<1>1. ASSUME NEW r \in Requests,
             Take(r) \/ Find(r) \/ AddUser(r) \/ EndInvocation(r) \/ RemoveUser(r)
      PROVE  DestroyOK' /\ IncOK' /\ UseOK' /\ UsersAreCounted'
  BY <1>1, TakeObjects, FindObjects, AddUserObjects, EndInvocationObjects, RemoveUserObjects
<1>2. ASSUME NEW c \in Callers,
             \/ Activate(c) \/ FinishActivate(c) \/ Deactivate(c)
             \/ Destroy(c) \/ FinishDestroy(c)
             \/ ChangeState(c) \/ DeactivateManager(c)
      PROVE  DestroyOK' /\ IncOK' /\ UseOK' /\ UsersAreCounted'
  BY <1>2, ActivateObjects, DeactivateObjects, DestroyObjects, FinishDestroyObjects,
     ManagerObjects
<1>3. ASSUME NEW a \in Apps, WaitForCompletion(a)
      PROVE  DestroyOK' /\ IncOK' /\ UseOK' /\ UsersAreCounted'
  BY <1>3, WaitObjects
<1>4. CASE EtherealizeAllObjects
  BY <1>4, EtherealizeObjects
<1>5. CASE UNCHANGED vars
  <2>1. Executing' = Executing /\ Ended' = Ended
    BY <1>5 DEF vars, Executing, Ended
  <2>2. DestroyOK'
    BY <1>5, <2>1 DEF vars, history, ObjectInv, DestroyOK, DestroyedIdle
  <2> QED  BY <1>5, <2>1, <2>2, QuietObjects DEF vars, history
<1> QED  BY <1>1, <1>2, <1>3, <1>4, <1>5 DEF Next

LEMMA ObjectInvariance == Spec => []ObjectInv
  BY InitObject, NextObject, PTL DEF Spec

\* Whatever changes the object or the POA between find_servant and addUser, the
\* users of an object are exactly the requests that addUser counted for it and
\* its activation, for any number of requests and objects, as long as no request
\* ends here that was counted for another incarnation or for none.
THEOREM UsersCounted == Spec => []UsersAreCounted
<1>1. ObjectInv => UsersAreCounted
  BY DEF ObjectInv
<1> QED  BY ObjectInvariance, <1>1, PTL

\* A servant that executes a counted request is still in the map, under the id
\* of the request and in the incarnation that was counted: only a request that
\* was not counted for it, an etherealization, or a destroy that had stopped
\* waiting before the request was counted takes it out.
THEOREM ServantStays == Spec => []ServantKept
<1>1. ObjectInv => ServantKept
  BY DEF ObjectInv, DestroyOK, DestroyedIdle, UseOK, ServantKept
<1> QED  BY ObjectInvariance, <1>1, PTL

\* POA::destroy, called with or without a wait, by any number of application
\* threads and servants, destroys the POA only when no request executes but
\* those that are counted between the end of its wait and the destruction.
THEOREM DestroyWaits == Spec => []DestroyedIdle
<1>1. ObjectInv => DestroyedIdle
  BY DEF ObjectInv, DestroyOK
<1> QED  BY ObjectInvariance, <1>1, PTL

=============================================================================
