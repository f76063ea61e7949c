------------------------------ MODULE ORBLife ------------------------------
(* The life cycle of an ORB: ProcessingState and its monitor, the calls of  *)
(* resolve_initial_references("RootPOA"), run, shutdown and destroy by      *)
(* several threads, and the ShutdownThread that deactivates the             *)
(* POAManagers, destroys the root POA and shuts the communications down.    *)
EXTENDS Naturals, FiniteSets

CONSTANTS
  Threads,
  Servants,             \* threads that execute a request when they call the ORB
  Managers,             \* POAManagers, one of them the root POA's
  root,
  MaxTimeInShutdown,    \* conf.max_time_in_shutdown; 0 waits for ever
  Spurious,             \* whether a wait may return without a notification
  MaxFailures,          \* bound: steps of a shutdown that raise an exception
  NULL

ASSUME MaxTimeAssumption == MaxTimeInShutdown \in Nat
ASSUME SpuriousAssumption == Spurious \in BOOLEAN
ASSUME FailuresAssumption == MaxFailures \in Nat
ASSUME ServantsAssumption == Servants \subseteq Threads
ASSUME RootAssumption == root \in Managers /\ NULL \notin Threads

VARIABLES
  state,       \* ProcessingState::m_state
  pc,          \* where each thread is in its call
  call,        \* the operation each thread is in
  taken,       \* the threads that take a request: its manager was ACTIVE
  serving,     \* the threads whose request is counted by the root POA
  monitor,     \* the thread that is in init_POA with the ORB's monitor, or NULL
  rootPOA,     \* TIDORB::rootPOA is not null
  managers,    \* TIDORB::POAManagers
  inactive,    \* the POAManagers that have been deactivated
  comm,        \* TIDORB::commManager
  current,     \* TIDORB::current is not null
  destroyed,   \* TIDORB::m_destroyed
  instance,    \* the ORB is in st_orb_instances
  shut,        \* where the ShutdownThread is
  gaveUp,      \* history: destroy has gone on without the end of the shutdown
  refused,     \* history: POAManagers whose deactivation has raised an exception
  failed,      \* history: the other steps of the shutdown that have raised one
  late,        \* history: requests and POAManagers that have come too late
  deaf,        \* history: the listener of the server could not be started
  woken,       \* history: threads that a wait has returned to without a reason
  crashed      \* a null or deleted object has been used

requests == <<taken, serving>>
poaVars == <<rootPOA, managers, inactive>>
orbVars == <<comm, current, destroyed, instance>>
excuses == <<refused, failed, late, deaf, woken>>
endVars == <<shut, gaveUp, crashed>>
vars == <<state, pc, call, requests, monitor, poaVars, orbVars, endVars, excuses>>

States == {"CLIENT", "RUNNING", "SHUTDOWNING", "SHUTDOWNED"}
Calls == {"none", "init_POA", "run", "shutdown", "shutdown_wait", "destroy"}
Idle(t) == call[t] = "none"

Init ==
  /\ state = "CLIENT"
  /\ pc = [t \in Threads |-> "idle"]
  /\ call = [t \in Threads |-> "none"]
  /\ taken = {} /\ serving = {}
  /\ monitor = NULL
  /\ rootPOA = FALSE /\ managers = {} /\ inactive = {}
  /\ comm = "up" /\ current = FALSE /\ destroyed = FALSE /\ instance = TRUE
  /\ shut = "none" /\ gaveUp = FALSE /\ crashed = FALSE
  /\ refused = {} /\ failed = {} /\ deaf = FALSE /\ woken = {}
  /\ late = [requests |-> {}, managers |-> {}]

Return(t) ==
  /\ pc' = [pc EXCEPT ![t] = "idle"]
  /\ call' = [call EXCEPT ![t] = "none"]

Goto(t, place) == pc' = [pc EXCEPT ![t] = place] /\ UNCHANGED call

Crash == crashed' = TRUE

-----------------------------------------------------------------------------
(* The beginning of a call: an exception if the ORB has been destroyed or,  *)
(* for run and shutdown, if it has been shut down.                          *)

First == [init_POA |-> "create", run |-> "wait", shutdown |-> "shutdown",
          shutdown_wait |-> "shutdown", destroy |-> "init_current"]

InCall(ops) == \E t \in Threads : call[t] \in ops

(* The calls the application may make while others are in a call: init_POA  *)
(* overlaps with itself only and is not repeated after a shutdown; destroy  *)
(* overlaps with run only.  The code does not protect itself from the rest. *)
Apart(op) ==
  /\ op = "init_POA" => /\ ~InCall(Calls \ {"none", "init_POA"})
                        /\ state \in {"CLIENT", "RUNNING"}
  /\ op # "init_POA" => ~InCall({"init_POA"})
  /\ op = "destroy" => ~InCall({"shutdown", "shutdown_wait", "destroy"})
  /\ op # "destroy" => ~InCall({"destroy"})

Begin(t) ==
  /\ Idle(t) /\ t \notin taken /\ ~destroyed
  /\ \E op \in Calls \ {"none"} :
       /\ Apart(op)
       /\ op \in {"run", "shutdown", "shutdown_wait"} => state # "SHUTDOWNED"
       /\ op = "run" => rootPOA /\ t \notin serving
       /\ call' = [call EXCEPT ![t] = op]
       /\ pc' = [pc EXCEPT ![t] = First[op]]
  /\ UNCHANGED <<state, requests, monitor, poaVars, orbVars, endVars, excuses>>

-----------------------------------------------------------------------------
(* init_POA, with the ORB's monitor: rootPOA is set before the ORB runs.    *)

InitPOA(t) ==
  /\ pc[t] = "create" /\ monitor = NULL
  /\ \/ /\ rootPOA
        /\ Return(t)
        /\ UNCHANGED <<monitor, rootPOA, managers, crashed>>
     \/ /\ ~rootPOA
        /\ rootPOA' = TRUE /\ managers' = managers \cup {root}
        /\ monitor' = t
        /\ Goto(t, "running")
        /\ crashed' = (crashed \/ comm = "deleted")
  /\ UNCHANGED <<state, requests, inactive, orbVars, shut, gaveUp, excuses>>

(* Mutant: the monitor is kept.                                             *)
Running_KeepsMonitor(t) ==
  /\ pc[t] = "running"
  /\ state' = IF state = "CLIENT" THEN "RUNNING" ELSE state
  /\ Return(t)
  /\ UNCHANGED <<requests, monitor, poaVars, orbVars, endVars, excuses>>

(* init_server_listener may raise an exception: rootPOA stays and the ORB   *)
(* does not become a server, this time or the next.                         *)
Running(t) ==
  /\ pc[t] = "running"
  /\ \/ /\ state' = IF state = "CLIENT" THEN "RUNNING" ELSE state
        /\ UNCHANGED deaf
     \/ /\ deaf' = TRUE
        /\ UNCHANGED state
  /\ monitor' = NULL
  /\ Return(t)
  /\ UNCHANGED <<requests, poaVars, orbVars, endVars, refused, failed, late, woken>>

(* An application thread creates a POA with a POAManager of its own, which  *)
(* nothing forbids during a shutdown, and deactivates it.  The list has no  *)
(* lock: while the ShutdownThread walks it neither happens here.            *)
CreateManager(m) ==
  /\ rootPOA /\ monitor = NULL /\ shut # "managers"
  /\ m \notin managers \cup inactive \cup refused /\ m # root
  /\ managers' = managers \cup {m}
  /\ late' = IF state \in {"CLIENT", "RUNNING"} THEN late
             ELSE [late EXCEPT !.managers = @ \cup {m}]
  /\ UNCHANGED <<state, pc, call, requests, monitor, rootPOA, inactive, orbVars, endVars,
                 refused, failed, deaf, woken>>

DeactivateManager(m) ==
  /\ m \in (managers \cup refused) \ inactive
  /\ shut # "managers"
  /\ managers' = managers \ {m} /\ inactive' = inactive \cup {m}
  /\ UNCHANGED <<state, pc, call, requests, monitor, rootPOA, orbVars, endVars, excuses>>

(* The ExecThread looks at the state of the root POA's manager ...           *)
TakeRequest(t) ==
  /\ t \in Servants \ (taken \cup serving) /\ Idle(t)
  /\ root \in (managers \cup refused) \ inactive
  /\ taken' = taken \cup {t}
  /\ UNCHANGED <<state, pc, call, serving, monitor, poaVars, orbVars, endVars, excuses>>

(* ... and the POA counts the request later, unless it has no servant for    *)
(* it; too late if the ShutdownThread has waited for the requests already.  *)
CountRequest(t) ==
  /\ t \in taken
  /\ taken' = taken \ {t}
  /\ \/ UNCHANGED <<serving, late>>
     \/ /\ rootPOA
        /\ serving' = serving \cup {t}
        /\ late' = IF shut = "forget" THEN [late EXCEPT !.requests = @ \cup {t}] ELSE late
  /\ UNCHANGED <<state, pc, call, monitor, poaVars, orbVars, endVars,
                 refused, failed, deaf, woken>>

EndRequest(t) ==
  /\ t \in serving /\ Idle(t)
  /\ serving' = serving \ {t}
  /\ UNCHANGED <<state, pc, call, taken, monitor, poaVars, orbVars, endVars, excuses>>

-----------------------------------------------------------------------------
(* shutdown and destroy.                                                    *)

(* ProcessingState::shutdown starts the ShutdownThread.                     *)
Shutdown_AlsoClient(t) ==
  /\ pc[t] = "shutdown"
  /\ IF state \in {"CLIENT", "RUNNING"}
     THEN state' = "SHUTDOWNING" /\ shut' = "managers"
     ELSE UNCHANGED <<state, shut>>
  /\ CASE call[t] = "shutdown" -> Return(t)
       [] call[t] = "shutdown_wait" -> Goto(t, "init_current")
       [] OTHER -> Goto(t, "wait")
  /\ UNCHANGED <<requests, monitor, poaVars, orbVars, gaveUp, crashed, excuses>>

(* The start of the thread may raise an exception: the ORB remains          *)
(* SHUTDOWNING, with nobody to shut it down.                                *)
Shutdown(t) ==
  /\ pc[t] = "shutdown"
  /\ \/ /\ IF state = "RUNNING"
           THEN state' = "SHUTDOWNING" /\ shut' = "managers"
           ELSE UNCHANGED <<state, shut>>
        /\ CASE call[t] = "shutdown" -> Return(t)
             [] call[t] = "shutdown_wait" -> Goto(t, "init_current")
             [] OTHER -> Goto(t, "wait")
     \/ /\ state = "RUNNING"
        /\ state' = "SHUTDOWNING" /\ shut' = "lost"
        /\ Return(t)
  /\ UNCHANGED <<requests, monitor, poaVars, orbVars, gaveUp, crashed, excuses>>

(* init_POACurrent, with the ORB's monitor.                                 *)
InitCurrent(t) ==
  /\ pc[t] = "init_current" /\ monitor = NULL
  /\ current' = TRUE
  /\ Goto(t, "in_context")
  /\ UNCHANGED <<state, requests, monitor, poaVars, comm, destroyed, instance, endVars, excuses>>

(* current->in_context(): BAD_INV_ORDER to a thread that executes a request. *)
InContext(t) ==
  /\ pc[t] = "in_context"
  /\ crashed' = (crashed \/ ~current)
  /\ IF t \in serving THEN Return(t)
     ELSE Goto(t, IF call[t] = "destroy" THEN "shutdown" ELSE "wait")
  /\ UNCHANGED <<state, requests, monitor, poaVars, orbVars, shut, gaveUp, excuses>>

After(t) == IF call[t] = "destroy" THEN "teardown" ELSE "return"

(* ProcessingState::wait_for_shutdown: it waits once.                       *)
WaitForShutdown_OnlyRunning(t) ==
  /\ pc[t] = "wait"
  /\ Goto(t, IF state = "RUNNING" THEN "untimed_wait" ELSE After(t))
  /\ UNCHANGED <<state, requests, monitor, poaVars, orbVars, endVars, excuses>>

WaitForShutdown_OnlyShutdown(t) ==
  /\ pc[t] = "wait"
  /\ Goto(t, IF state = "SHUTDOWNING" THEN "timed_wait" ELSE After(t))
  /\ UNCHANGED <<state, requests, monitor, poaVars, orbVars, endVars, excuses>>

WaitForShutdown(t) ==
  /\ pc[t] = "wait"
  /\ Goto(t, CASE state = "SHUTDOWNING" -> "timed_wait"
               [] state = "RUNNING" -> "untimed_wait"
               [] OTHER -> After(t))
  /\ UNCHANGED <<state, requests, monitor, poaVars, orbVars, endVars, excuses>>

(* A wait ends at its time limit, or for no reason: nobody waits again.     *)
Timeout(t) ==
  /\ \/ /\ pc[t] = "timed_wait" /\ MaxTimeInShutdown # 0
        /\ UNCHANGED woken
     \/ /\ pc[t] \in {"timed_wait", "untimed_wait"} /\ Spurious
        /\ woken' = woken \cup {t}
  /\ Goto(t, After(t))
  /\ gaveUp' = (gaveUp \/ call[t] = "destroy")
  /\ UNCHANGED <<state, requests, monitor, poaVars, orbVars, shut, crashed,
                 refused, failed, late, deaf>>

EndCall(t) ==
  /\ pc[t] = "return"
  /\ Return(t)
  /\ woken' = woken \ {t}
  /\ UNCHANGED <<state, requests, monitor, poaVars, orbVars, endVars,
                 refused, failed, late, deaf>>

(* The rest of destroy, with the ORB's monitor.                             *)
Teardown_KeepsInstance(t) ==
  /\ pc[t] = "teardown" /\ monitor = NULL
  /\ comm' = "deleted"
  /\ rootPOA' = FALSE /\ current' = FALSE
  /\ destroyed' = TRUE
  /\ Return(t)
  /\ UNCHANGED <<state, requests, monitor, managers, inactive, instance, endVars, excuses>>

Teardown(t) ==
  /\ pc[t] = "teardown" /\ monitor = NULL
  /\ comm' = "deleted"
  /\ rootPOA' = FALSE /\ current' = FALSE
  /\ destroyed' = TRUE
  /\ Goto(t, "erase")
  /\ UNCHANGED <<state, requests, monitor, managers, inactive, instance, endVars, excuses>>

EraseInstance(t) ==
  /\ pc[t] = "erase"
  /\ instance' = FALSE
  /\ Return(t)
  /\ UNCHANGED <<state, requests, monitor, poaVars, comm, current, destroyed, endVars, excuses>>

-----------------------------------------------------------------------------
(* The ShutdownThread: do_complete_shutdown.                                *)

(* An exception is swallowed, and the thread goes on: the manager has left  *)
(* the list before it is deactivated.                                       *)
MayFail == Cardinality(refused) + Cardinality(failed) < MaxFailures

ShutManager ==
  /\ shut = "managers"
  /\ \/ \E m \in managers :
          /\ managers' = managers \ {m}
          /\ \/ inactive' = inactive \cup {m} /\ UNCHANGED refused
             \/ MayFail /\ refused' = refused \cup {m} /\ UNCHANGED inactive
          /\ UNCHANGED <<shut, rootPOA>>
     \/ /\ managers = {}
        /\ shut' = IF rootPOA THEN "root" ELSE "comm"
        /\ UNCHANGED <<poaVars, refused>>
  /\ UNCHANGED <<state, pc, call, requests, monitor, orbVars, gaveUp, crashed,
                 failed, late, deaf, woken>>

(* Mutant: the requests in execution are not waited for.                    *)
WaitRoot_Not ==
  /\ shut = "root" /\ shut' = "forget"
  /\ crashed' = (crashed \/ ~rootPOA)
  /\ UNCHANGED <<state, pc, call, requests, monitor, poaVars, orbVars, gaveUp, excuses>>

(* rootPOA->destroy(false, true) waits for the requests that are counted ... *)
WaitRoot ==
  /\ shut = "root"
  /\ crashed' = (crashed \/ ~rootPOA)
  /\ \/ serving = {} /\ shut' = "forget" /\ UNCHANGED failed
     \/ MayFail /\ shut' = "comm" /\ failed' = failed \cup {"root"}
  /\ UNCHANGED <<state, pc, call, requests, monitor, poaVars, orbVars, gaveUp,
                 refused, late, deaf, woken>>

(* ... and takes the ORB's monitor to forget the root POA.                   *)
ShutRoot ==
  /\ shut = "forget" /\ monitor = NULL
  /\ crashed' = (crashed \/ ~rootPOA)
  /\ \/ rootPOA' = FALSE /\ UNCHANGED failed
     \/ MayFail /\ failed' = failed \cup {"root"} /\ UNCHANGED rootPOA
  /\ shut' = "comm"
  /\ UNCHANGED <<state, pc, call, requests, monitor, managers, inactive, orbVars, gaveUp,
                 refused, late, deaf, woken>>

(* commManager->shutdown(): the pointer is read, then used.                 *)
ShutComm ==
  /\ \/ /\ shut = "comm"
        /\ shut' = IF comm = "deleted" THEN "state" ELSE "layers"
        /\ UNCHANGED <<comm, crashed, failed>>
     \/ /\ shut = "layers" /\ comm # "deleted"
        /\ \/ comm' = "shut" /\ UNCHANGED failed
           \/ MayFail /\ failed' = failed \cup {"comm"} /\ UNCHANGED comm
        /\ shut' = "state"
        /\ UNCHANGED crashed
     \/ /\ shut = "layers" /\ comm = "deleted"
        /\ crashed' = TRUE /\ shut' = "state"
        /\ UNCHANGED <<comm, failed>>
  /\ UNCHANGED <<state, pc, call, requests, monitor, poaVars, current, destroyed, instance, gaveUp,
                 refused, late, deaf, woken>>

(* ProcessingState::shutdowned wakes every thread that waits.               *)
Shutdowned_WakesOne ==
  /\ shut = "state"
  /\ shut' = "done"
  /\ state' = "SHUTDOWNED"
  /\ \/ \E t \in Threads : /\ pc[t] \in {"timed_wait", "untimed_wait"}
                          /\ pc' = [pc EXCEPT ![t] = After(t)]
     \/ /\ \A t \in Threads : pc[t] \notin {"timed_wait", "untimed_wait"}
        /\ UNCHANGED pc
  /\ UNCHANGED <<call, requests, monitor, poaVars, orbVars, gaveUp, crashed, excuses>>

Shutdowned ==
  /\ shut = "state"
  /\ shut' = "done"
  /\ state' = "SHUTDOWNED"
  /\ pc' = [t \in Threads |-> IF pc[t] \in {"timed_wait", "untimed_wait"}
                              THEN After(t) ELSE pc[t]]
  /\ UNCHANGED <<call, requests, monitor, poaVars, orbVars, gaveUp, crashed, excuses>>

-----------------------------------------------------------------------------

Step(t) ==
  \/ InitPOA(t) \/ Running(t) \/ Shutdown(t) \/ InitCurrent(t) \/ InContext(t)
  \/ WaitForShutdown(t) \/ EndCall(t) \/ Teardown(t) \/ EraseInstance(t)

ShutdownThread == ShutManager \/ WaitRoot \/ ShutRoot \/ ShutComm \/ Shutdowned

Next ==
  /\ ~crashed
  /\ \/ \E t \in Threads : Begin(t) \/ Step(t) \/ Timeout(t)
                         \/ TakeRequest(t) \/ CountRequest(t) \/ EndRequest(t)
     \/ \E m \in Managers : CreateManager(m) \/ DeactivateManager(m)
     \/ ShutdownThread

Spec == Init /\ [][Next]_vars

(* Threads that are not asleep go on, requests are answered, and the        *)
(* ShutdownThread runs.                                                     *)
FairSpec ==
  /\ Spec
  /\ \A t \in Threads : WF_vars(~crashed /\ (Step(t) \/ CountRequest(t))) /\ SF_vars(~crashed /\ EndRequest(t))
  /\ WF_vars(~crashed /\ ShutdownThread)

-----------------------------------------------------------------------------
(* Properties.                                                              *)

Places == {"idle", "create", "running", "shutdown", "init_current", "in_context", "wait",
           "timed_wait", "untimed_wait", "return", "teardown", "erase"}

(* Every variable has its type, the ORB's monitor is held only in init_POA, *)
(* and a deactivated POAManager is not in the ORB's list.                   *)
TypeOK ==
  /\ state \in States
  /\ pc \in [Threads -> Places]
  /\ call \in [Threads -> Calls]
  /\ taken \subseteq Servants /\ serving \subseteq Servants
  /\ monitor \in Threads \cup {NULL}
  /\ \A t \in Threads : monitor = t <=> pc[t] = "running"
  /\ managers \cap inactive = {}
  /\ rootPOA \in BOOLEAN /\ managers \subseteq Managers /\ inactive \subseteq Managers
  /\ comm \in {"up", "shut", "deleted"}
  /\ current \in BOOLEAN /\ destroyed \in BOOLEAN /\ instance \in BOOLEAN
  /\ shut \in {"none", "lost", "managers", "root", "forget", "comm", "layers", "state", "done"}
  /\ gaveUp \in BOOLEAN /\ crashed \in BOOLEAN /\ deaf \in BOOLEAN
  /\ refused \subseteq Managers /\ failed \subseteq {"root", "comm"} /\ woken \subseteq Threads
  /\ late \in [requests : SUBSET Servants, managers : SUBSET Managers]

(* Nothing that destroy deletes is used afterwards, by the ShutdownThread or *)
(* by a thread in another call, unless destroy did not wait for the whole   *)
(* shutdown.                                                                *)
NoUseAfterDelete == crashed => gaveUp

(* When the shutdown is complete no POAManager is left but those created    *)
(* when the ShutdownThread had dealt with the others, and the root POA is   *)
(* destroyed and none of its requests executes but those counted when the   *)
(* thread had waited for the others, and the communications are shut down:  *)
(* whatever is left besides, a step that has failed explains, unless        *)
(* destroy has overtaken the ShutdownThread.                                *)
ShutdownIsComplete ==
  state = "SHUTDOWNED" /\ ~gaveUp =>
     /\ rootPOA \/ ~(serving \subseteq late.requests) => "root" \in failed
     /\ managers \subseteq late.managers
     /\ root \in inactive \cup refused
     /\ comm = "up" => "comm" \in failed

(* ORB_init never returns an ORB whose destroy has returned.                *)
NoDestroyedInstance ==
  instance /\ destroyed => \E t \in Threads : pc[t] = "erase"

(* run and shutdown(true) do not return while the ORB runs, and during a    *)
(* shutdown only if it may take longer than max_time_in_shutdown, unless    *)
(* the wait returns for no reason.  The shutdown of an ORB that has not     *)
(* been a server returns at once, and so does run if the ORB could not      *)
(* become one.                                                              *)
RunWaits ==
  \A t \in Threads : pc[t] = "return" /\ t \notin woken =>
     \/ state = "SHUTDOWNED"
     \/ state = "SHUTDOWNING" /\ MaxTimeInShutdown # 0
     \/ state = "CLIENT" /\ (call[t] = "shutdown_wait" \/ deaf)

(* Nobody completes the shutdown if its thread has not started, and         *)
(* requests may come for ever if the root POA's manager has remained active. *)
Hindered == shut = "lost" \/ root \in refused

(* A shutdown that has begun ends, and so do the calls that wait for it,    *)
(* unless it is hindered.                                                   *)
CallsReturn ==
  \A t \in Threads :
     (~Idle(t) /\ state \notin {"CLIENT", "RUNNING"})
     ~> \/ Idle(t) \/ crashed
        \/ Hindered /\ pc[t] \in {"timed_wait", "untimed_wait"}

(* The phase of the ORB, for the abstract specification.                    *)
phase == IF destroyed THEN "DESTROYED"
         ELSE IF state = "SHUTDOWNING" /\ Hindered THEN "HINDERED" ELSE state

Phases == INSTANCE ORBPhases WITH Impatient <- MaxTimeInShutdown # 0 \/ Spurious

(* The life cycle implements ORBPhases: phases only go forward, destroy     *)
(* does not overtake a shutdown unless its wait may end early, and a        *)
(* shutdown completes if it is not hindered.                                *)
ImplementsPhases == Phases!FairSpec
=============================================================================
