----------------------------- MODULE POAObjects -----------------------------
(* The objects of one POA with the RETAIN policy and the requests that use  *)
(* them: the active object map with its user counts, the activation and the *)
(* deactivation of objects, the destruction of the POA, and the two         *)
(* CompletionWaiters (the POA's and its POAManager's) that count the        *)
(* requests in execution and that destroy, hold_requests, discard_requests  *)
(* and deactivate wait on.                                                  *)
(*                                                                          *)
(* A request is executed by an ExecThread: find_servant, addUser, the       *)
(* invocation, and removeUser, in critical sections of their own.  The      *)
(* application calls the operations of the POA from its own threads (Apps)  *)
(* or from the servant that executes a request.                             *)
EXTENDS Naturals, FiniteSets

CONSTANTS
  Oids, Servants, Requests,
  Apps,             \* threads of the application
  Destroyers,       \* the threads of Apps that may call POA::destroy
  Policies,         \* RequestProcessingPolicy: "map", "activator" or "default"
  Uniqueness,       \* IdUniquenessPolicy: TRUE is UNIQUE_ID, FALSE MULTIPLE_ID
  MaxIncarnations,  \* bound: activations in a behaviour
  NULL

ASSUME RequestsAssumption == IsFiniteSet(Requests)
ASSUME IncarnationsAssumption == MaxIncarnations \in Nat
ASSUME DestroyersAssumption == Destroyers \subseteq Apps
ASSUME CallersAssumption == Apps \cap Requests = {} /\ NULL \notin Apps \cup Requests
ASSUME PoliciesAssumption == Policies \subseteq {"map", "activator", "default"}
ASSUME UniquenessAssumption == Uniqueness \subseteq BOOLEAN

VARIABLES
  table,         \* ActiveObjectMap::_table: the element of each id, or NULL
  mutex,         \* who sleeps with recursive_mutex locked, or NULL
  poa,           \* _destroying, _destroyed, and the policies the POA is created with
  manager,       \* the POAManager's state, and its etherealization
  completion,    \* the CompletionWaiters of the POA and of the manager
  pc,            \* where each application thread and each request is
  oid,           \* the object a request is for
  counted,       \* the incarnation whose users a request has incremented, or 0
  incarnations,  \* number of elements ever put in the table
  robbed,        \* history: incarnations that lost a user, or their place in the
                 \*   table, to somebody who was not counted for them
  late           \* history: requests counted after destroy has waited for all

history == <<robbed, late>>
vars == <<table, mutex, poa, manager, completion, pc, oid, counted, incarnations, history>>

Callers == Apps \cup Requests
Incarnations == 1 .. MaxIncarnations

Elements == [servant : Servants, users : Nat, destroying : BOOLEAN, inc : Incarnations]

ASSUME NullAssumption == NULL \notin Elements

Waiters == [requests : Nat, stop : BOOLEAN, asleep : SUBSET Apps]

States == {"ACTIVE", "HOLDING", "DISCARDING", "INACTIVE"}

-----------------------------------------------------------------------------
(* CompletionWaiter.                                                        *)

(* Mutant: the request is not counted.                                      *)
beginRequest_Lost(w) == w

beginRequest(w) == [w EXCEPT !.requests = @ + 1]

(* Mutant: endRequest does not notify.                                      *)
EndRequest_Silent(w) == {[w EXCEPT !.requests = @ - 1]}

(* endRequest wakes one waiter when it ends the last request; _active_requests *)
(* is an unsigned long, so that <= 0 is = 0.                                *)
EndRequest(w) ==
  LET d == [w EXCEPT !.requests = @ - 1]
  IN IF d.requests = 0 /\ w.asleep # {}
     THEN {[d EXCEPT !.asleep = @ \ {a}] : a \in w.asleep}
     ELSE {d}

stopWaiting(w) == [w EXCEPT !.stop = TRUE, !.asleep = {}]

MustWait(w) == w.requests # 0 /\ ~w.stop

(* One pass of waitForCompletion's loop by thread a, the loop's test first. *)
Sleep(w, a) == [w EXCEPT !.asleep = @ \cup {a}]
Completed(w) == [w EXCEPT !.stop = FALSE]

-----------------------------------------------------------------------------
(* ActiveObjectMap.                                                         *)

isActive(o) == table[o] # NULL
isDestroying(o) == isActive(o) /\ table[o].destroying
contains(s) == \E o \in Oids : isActive(o) /\ table[o].servant = s

NewElement(s) == [servant |-> s, users |-> 1, destroying |-> FALSE, inc |-> incarnations + 1]

(* put raises ServantAlreadyActive or ObjectAlreadyActive otherwise.        *)
CanPut(o, s) == ~isActive(o) /\ ~(poa.unique /\ contains(s)) /\ incarnations < MaxIncarnations

put(o, s) ==
  /\ table' = [table EXCEPT ![o] = NewElement(s)]
  /\ incarnations' = incarnations + 1

(* Mutant: a deactivated object is removed though it has users.             *)
tryToRemoveObject_Eager(t, o) ==
  IF t[o] = NULL THEN t
  ELSE IF t[o].users <= 1 \/ t[o].destroying THEN [t EXCEPT ![o] = NULL]
  ELSE [t EXCEPT ![o].users = @ - 1]

(* Mutant: the count is only read.                                          *)
tryToRemoveObject_Reads(t, o) ==
  IF t[o] # NULL /\ t[o].users <= 1 THEN [t EXCEPT ![o] = NULL] ELSE t

(* removeUser_if_Active, and trueRemoveObject when nobody uses o any more.  *)
tryToRemoveObject(t, o) ==
  IF t[o] = NULL THEN t
  ELSE IF t[o].users <= 1 THEN [t EXCEPT ![o] = NULL]
  ELSE [t EXCEPT ![o].users = @ - 1]

-----------------------------------------------------------------------------
(* The requests in flight.  One that executes may be in a call of the POA.  *)

Executing == {r \in Requests : pc[r] \in {"executing", "destroying", "activating",
                                          "reactivating", "dangling"}}
Ended == {r \in Requests : pc[r] = "ended"}
Users(i) == {r \in Executing \cup Ended : counted[r] = i}

Init ==
  /\ table = [o \in Oids |-> NULL]
  /\ mutex = NULL
  /\ poa \in [destroying : {FALSE}, destroyed : {FALSE}, processing : Policies, unique : Uniqueness]
  /\ manager = [state |-> "HOLDING", ether |-> "no"]
  /\ completion = [w \in {"poa", "manager"} |->
                     [requests |-> 0, stop |-> FALSE, asleep |-> {}]]
  /\ pc = [c \in Callers |-> "idle"]
  /\ oid = [r \in Requests |-> NULL]
  /\ counted = [r \in Requests |-> 0]
  /\ incarnations = 0
  /\ robbed = {} /\ late = {}

(* recursive_mutex is free.                                                 *)
Unlocked == mutex = NULL

-----------------------------------------------------------------------------
(* Requests.                                                                *)

(* id_to_servant, and for a POA with a ServantActivator the incarnation of  *)
(* an object that is not active; next is where the request goes if there is *)
(* a servant.  incarnate may raise an exception or return NULL.             *)
find_servant(r, o, next) ==
  /\ oid' = [oid EXCEPT ![r] = o]
  /\ \/ /\ poa.destroyed \/ (~isActive(o) /\ poa.processing # "default")
        /\ pc' = [pc EXCEPT ![r] = "done"]
        /\ UNCHANGED <<table, incarnations>>
     \/ /\ ~poa.destroyed
        /\ isActive(o) \/ poa.processing = "default"
        /\ pc' = [pc EXCEPT ![r] = next]
        /\ UNCHANGED <<table, incarnations>>
     \/ /\ ~poa.destroyed /\ poa.processing = "activator"
        /\ \E s \in Servants : CanPut(o, s) /\ put(o, s)
        /\ pc' = [pc EXCEPT ![r] = next]
  /\ UNCHANGED <<mutex, poa, manager, completion, counted, history>>

(* The ExecThread takes a request only while the manager is ACTIVE ...       *)
Take(r) ==
  /\ pc[r] = "idle" /\ manager.state = "ACTIVE"
  /\ pc' = [pc EXCEPT ![r] = "taken"]
  /\ UNCHANGED <<table, mutex, poa, manager, completion, oid, counted, incarnations, history>>

(* ... and looks its servant up; this is all a LocateRequest does.           *)
Find(r) ==
  /\ pc[r] = "taken" /\ Unlocked
  /\ \E o \in Oids, next \in {"found", "done"} : find_servant(r, o, next)

(* addUser neither checks _destroyed nor reports an object that is no longer *)
(* active: the first dereferences a null _POAManager.                       *)
AddUser(r) ==
  /\ pc[r] = "found" /\ Unlocked
  /\ IF poa.destroyed
     THEN /\ pc' = [pc EXCEPT ![r] = "crashed"]
          /\ UNCHANGED <<table, completion, counted, late>>
     ELSE /\ pc' = [pc EXCEPT ![r] = "executing"]
          /\ IF isActive(oid[r])
             THEN /\ table' = [table EXCEPT ![oid[r]].users = @ + 1]
                  /\ counted' = [counted EXCEPT ![r] = table[oid[r]].inc]
             ELSE UNCHANGED <<table, counted>>
          /\ completion' = [w \in {"poa", "manager"} |-> beginRequest(completion[w])]
          /\ late' = IF \E a \in Apps : pc[a] = "completed" THEN late \cup {r} ELSE late
  /\ UNCHANGED <<mutex, poa, manager, oid, incarnations, robbed>>

(* Mutant: the manager's count is decremented with the POA's, and again.    *)
EndInvocation_Both(r) ==
  /\ pc[r] = "executing"
  /\ pc' = [pc EXCEPT ![r] = "ended"]
  /\ \E v \in EndRequest(completion["poa"]), w \in EndRequest(completion["manager"]) :
       completion' = [poa |-> v, manager |-> w]
  /\ UNCHANGED <<table, mutex, poa, manager, oid, counted, incarnations, history>>

(* removeUser: the POA's count first, without recursive_mutex.              *)
EndInvocation(r) ==
  /\ pc[r] = "executing"
  /\ pc' = [pc EXCEPT ![r] = "ended"]
  /\ \E w \in EndRequest(completion["poa"]) : completion' = [completion EXCEPT !["poa"] = w]
  /\ UNCHANGED <<table, mutex, poa, manager, oid, counted, incarnations, history>>

trueDestroy ==
  /\ table' = [o \in Oids |-> NULL]
  /\ poa' = [poa EXCEPT !.destroyed = TRUE]

(* Who a request takes a user away from without having been counted for it. *)
Strangers(r) ==
  {table[o].inc : o \in {n \in Oids : n = oid[r] /\ isActive(n) /\ table[n].inc # counted[r]}}

(* removeUser, under recursive_mutex: a destroyed POA has no manager left   *)
(* to tell.                                                                 *)
RemoveUser(r) ==
  /\ pc[r] = "ended" /\ Unlocked
  /\ pc' = [pc EXCEPT ![r] = "done"]
  /\ \/ /\ poa.destroyed
        /\ UNCHANGED <<table, poa, completion, robbed>>
     \/ /\ ~poa.destroyed
        /\ \E w \in EndRequest(completion["manager"]) :
             completion' = [completion EXCEPT !["manager"] = w]
        /\ \/ /\ poa.destroying /\ completion["poa"].requests = 0
              /\ trueDestroy
              /\ UNCHANGED robbed
           \/ /\ poa.destroying /\ completion["poa"].requests # 0
              /\ UNCHANGED <<table, poa, robbed>>
           \/ /\ ~poa.destroying
              /\ table' = tryToRemoveObject(table, oid[r])
              /\ robbed' = robbed \cup Strangers(r)
              /\ UNCHANGED poa
  /\ UNCHANGED <<mutex, manager, oid, counted, incarnations, late>>

-----------------------------------------------------------------------------
(* The operations of the POA.  The servant of a request calls them while    *)
(* the request executes.                                                    *)

MayCall(c) == IF c \in Apps THEN pc[c] = "idle" ELSE pc[c] = "executing"
Resumed(c) == IF c \in Apps THEN "idle" ELSE "executing"

(* activate_object_with_id looks at _destroyed before it locks anything.    *)
Activate(c) ==
  /\ MayCall(c) /\ ~poa.destroyed
  /\ pc' = [pc EXCEPT ![c] = "activating"]
  /\ UNCHANGED <<table, mutex, poa, manager, completion, oid, counted, incarnations, history>>

(* ... and uses the active object map, which the destruction deletes.  For a *)
(* deactivation it waits with recursive_mutex locked; nobody notifies the   *)
(* element it waits on, because the only notification is made by a          *)
(* deactivate_object, under recursive_mutex.                                *)
FinishActivate(c) ==
  /\ pc[c] = "activating" /\ Unlocked
  /\ \/ /\ poa.destroyed
        /\ pc' = [pc EXCEPT ![c] = "dangling"]
        /\ UNCHANGED <<table, mutex, incarnations>>
     \/ /\ ~poa.destroyed
        /\ \E o \in Oids : isDestroying(o)
        /\ mutex' = c
        /\ pc' = [pc EXCEPT ![c] = "reactivating"]
        /\ UNCHANGED <<table, incarnations>>
     \/ /\ ~poa.destroyed
        /\ \E o \in Oids, s \in Servants :
             /\ ~isDestroying(o)
             /\ IF CanPut(o, s) THEN put(o, s) ELSE UNCHANGED <<table, incarnations>>
        /\ pc' = [pc EXCEPT ![c] = Resumed(c)]
        /\ UNCHANGED mutex
  /\ UNCHANGED <<poa, manager, completion, oid, counted, history>>

(* Mutant: the activation stays a user of the object.                       *)
Deactivate_KeepsUser(c) ==
  /\ MayCall(c) /\ Unlocked /\ ~poa.destroyed
  /\ \E o \in Oids :
       /\ isActive(o) /\ ~isDestroying(o)
       /\ table' = [table EXCEPT ![o].destroying = TRUE]
  /\ UNCHANGED <<mutex, poa, manager, completion, pc, oid, counted, incarnations, history>>

Deactivate(c) ==
  /\ MayCall(c) /\ Unlocked /\ ~poa.destroyed
  /\ \E o \in Oids :
       /\ isActive(o) /\ ~isDestroying(o)
       /\ table' = tryToRemoveObject([table EXCEPT ![o].destroying = TRUE], o)
  /\ UNCHANGED <<mutex, poa, manager, completion, pc, oid, counted, incarnations, history>>

(* destroy, first critical section.  With wait_for_completion, a thread that *)
(* executes a request gets BAD_INV_ORDER, after _destroying has been set.   *)
Destroy(c) ==
  /\ c \in Destroyers \cup Requests
  /\ MayCall(c) /\ Unlocked
  /\ poa' = [poa EXCEPT !.destroying = TRUE]
  /\ \E wait \in BOOLEAN :
       pc' = [pc EXCEPT ![c] = IF ~wait THEN "destroying"
                               ELSE IF c \in Apps THEN "completing" ELSE "executing"]
  /\ UNCHANGED <<table, mutex, manager, completion, oid, counted, incarnations, history>>

(* Mutant: destroy(.., FALSE) does not look at the count.                   *)
FinishDestroy_Blind(c) ==
  /\ pc[c] \in {"destroying", "completed"} /\ Unlocked
  /\ trueDestroy
  /\ pc' = [pc EXCEPT ![c] = Resumed(c)]
  /\ UNCHANGED <<mutex, manager, completion, oid, counted, incarnations, history>>

(* destroy, last critical section.  After a wait the count is not read again. *)
FinishDestroy(c) ==
  /\ pc[c] \in {"destroying", "completed"} /\ Unlocked
  /\ IF pc[c] = "completed" \/ completion["poa"].requests = 0
     THEN trueDestroy
     ELSE UNCHANGED <<table, poa>>
  /\ pc' = [pc EXCEPT ![c] = Resumed(c)]
  /\ UNCHANGED <<mutex, manager, completion, oid, counted, incarnations, history>>

-----------------------------------------------------------------------------
(* The POAManager: a change of state stops those who wait, and leaves the   *)
(* flag for whoever waits next.                                             *)

ChangeState(c) ==
  /\ MayCall(c) /\ manager.state # "INACTIVE"
  /\ \E st \in {"ACTIVE", "HOLDING", "DISCARDING"}, wait \in BOOLEAN :
       /\ manager' = [manager EXCEPT !.state = st]
       /\ completion' = IF st = manager.state THEN completion
                        ELSE [completion EXCEPT !["manager"] = stopWaiting(@)]
       /\ pc' = IF wait /\ st # "ACTIVE" /\ c \in Apps
                THEN [pc EXCEPT ![c] = "draining"] ELSE pc
  /\ UNCHANGED <<table, mutex, poa, oid, counted, incarnations, history>>

(* deactivate: objects are etherealized after the wait, or in a thread.     *)
DeactivateManager(c) ==
  /\ MayCall(c) /\ manager.state # "INACTIVE"
  /\ \E ether, wait \in BOOLEAN :
       /\ manager' = [state |-> "INACTIVE",
                      ether |-> IF ~ether THEN "no"
                                ELSE IF wait /\ c \in Apps THEN "waits" ELSE "runs"]
       /\ pc' = IF wait /\ c \in Apps THEN [pc EXCEPT ![c] = "deactivating"] ELSE pc
  /\ completion' = [completion EXCEPT !["manager"] = stopWaiting(@)]
  /\ UNCHANGED <<table, mutex, poa, oid, counted, incarnations, history>>

WaitsOn(a) == IF pc[a] = "completing" THEN "poa" ELSE "manager"

(* waitForCompletion: a pass of the loop by a thread that is awake.         *)
WaitForCompletion(a) ==
  /\ pc[a] \in {"completing", "draining", "deactivating"}
  /\ LET w == WaitsOn(a) IN
       /\ a \notin completion[w].asleep
       /\ IF MustWait(completion[w])
          THEN /\ completion' = [completion EXCEPT ![w] = Sleep(@, a)]
               /\ UNCHANGED <<pc, manager>>
          ELSE /\ completion' = [completion EXCEPT ![w] = Completed(@)]
               /\ pc' = [pc EXCEPT ![a] = IF w = "poa" THEN "completed" ELSE "idle"]
               /\ manager' = IF pc[a] = "deactivating" /\ manager.ether = "waits"
                             THEN [manager EXCEPT !.ether = "runs"] ELSE manager
  /\ UNCHANGED <<table, mutex, poa, oid, counted, incarnations, history>>

(* etherealizeAllObjects of a POA whose manager still knows it: only a      *)
(* ServantActivator's objects leave the map, whoever uses them.             *)
EtherealizeAllObjects ==
  /\ manager.ether = "runs" /\ Unlocked
  /\ manager' = [manager EXCEPT !.ether = "done"]
  /\ IF poa.processing = "activator"
     THEN /\ table' = [o \in Oids |-> NULL]
          /\ robbed' = robbed \cup {table[o].inc : o \in {n \in Oids : isActive(n)}}
     ELSE UNCHANGED <<table, robbed>>
  /\ UNCHANGED <<mutex, poa, completion, pc, oid, counted, incarnations, late>>

Next ==
  \/ \E r \in Requests : Take(r) \/ Find(r) \/ AddUser(r) \/ EndInvocation(r) \/ RemoveUser(r)
  \/ \E c \in Callers :
       \/ Activate(c) \/ FinishActivate(c) \/ Deactivate(c) \/ Destroy(c) \/ FinishDestroy(c)
       \/ ChangeState(c) \/ DeactivateManager(c)
  \/ \E a \in Apps : WaitForCompletion(a)
  \/ EtherealizeAllObjects

Spec == Init /\ [][Next]_vars

(* A request that has been found is executed to its end (the servants'      *)
(* operations return), and so are the calls that do not sleep.              *)
FairSpec ==
  /\ Spec
  /\ \A r \in Requests : WF_vars(AddUser(r)) /\ SF_vars(EndInvocation(r))
                         /\ WF_vars(RemoveUser(r))
  /\ \A c \in Callers : WF_vars(FinishDestroy(c)) /\ WF_vars(FinishActivate(c))
  /\ \A a \in Apps : WF_vars(WaitForCompletion(a))
  /\ WF_vars(EtherealizeAllObjects)

-----------------------------------------------------------------------------
(* Properties.                                                              *)

Places == {"idle", "taken", "found", "executing", "ended", "done", "crashed",
           "activating", "reactivating", "dangling", "destroying", "completing", "completed", "draining", "deactivating"}

(* Every variable has its type: in particular the counters of the waiters   *)
(* and of the elements never go below zero.                                 *)
TypeOK ==
  /\ table \in [Oids -> Elements \cup {NULL}]
  /\ mutex \in Callers \cup {NULL}
  /\ poa \in [destroying : BOOLEAN, destroyed : BOOLEAN,
               processing : Policies, unique : BOOLEAN]
  /\ manager \in [state : States, ether : {"no", "waits", "runs", "done"}]
  /\ completion \in [{"poa", "manager"} -> Waiters]
  /\ pc \in [Callers -> Places]
  /\ oid \in [Requests -> Oids \cup {NULL}]
  /\ counted \in [Requests -> 0 .. MaxIncarnations]
  /\ incarnations \in 0 .. MaxIncarnations
  /\ robbed \subseteq Incarnations
  /\ late \subseteq Requests

(* The users of an active object are the requests that addUser counted for  *)
(* this incarnation, and the activation itself until it is deactivated,     *)
(* whatever happens between find_servant and addUser, unless a request that *)
(* was counted for another incarnation, or for none, ended here.            *)
(* removeUser stops counting down in a POA that is being destroyed.         *)
CountOf(o) == Cardinality(Users(table[o].inc)) + (IF isDestroying(o) THEN 0 ELSE 1)
UsersAreCounted ==
  \A o \in Oids : isActive(o) /\ table[o].inc \notin robbed =>
     /\ table[o].users >= CountOf(o)
     /\ ~poa.destroying => table[o].users = CountOf(o)

(* A servant that executes a request stays in the active object map, under  *)
(* the id of the request: neither deactivate_object, nor destroy, nor the   *)
(* end of another request that was counted removes it.  Only a request that *)
(* was not counted for it, the etherealization of all objects, or a destroy *)
(* that had stopped waiting before the request was counted, may do so.      *)
ServantKept ==
  \A r \in Executing :
     counted[r] \notin robbed \cup {0} /\ ~(poa.destroyed /\ r \in late) =>
        isActive(oid[r]) /\ table[oid[r]].inc = counted[r]

(* The POA is destroyed only when none of its requests executes, except     *)
(* those that are counted when destroy has waited already.                  *)
DestroyedIdle == poa.destroyed => Executing \subseteq late

(* Both CompletionWaiters cover the requests in execution: the POA's count  *)
(* is exact, and the manager's, decremented later, is never below it.       *)
CompletionCovers ==
  /\ completion["poa"].requests = Cardinality(Executing)
  /\ completion["manager"].requests >= Cardinality(Executing)
  /\ ~poa.destroyed =>
       completion["manager"].requests = Cardinality(Executing \cup Ended)

(* An activation that waits for a deactivation keeps recursive_mutex, and   *)
(* everything that needs it waits; one that has used the deleted map may    *)
(* never return.                                                            *)
Stuck == mutex # NULL \/ \E c \in Callers : pc[c] = "dangling"

(* A deactivated object leaves the map once its requests have ended.        *)
DeactivationEnds ==
  \A o \in Oids, i \in Incarnations :
     (isDestroying(o) /\ table[o].inc = i) ~> ~(isActive(o) /\ table[o].inc = i) \/ Stuck

(* destroy ends in the destruction of the POA, and returns.                 *)
DestroyEnds ==
  /\ poa.destroying ~> poa.destroyed \/ Stuck
  /\ \A c \in Callers : pc[c] \in {"destroying", "completing", "completed"}
                        ~> pc[c] \notin {"destroying", "completing", "completed"} \/ Stuck
=============================================================================
