--------------------------- MODULE ORBLife_proofs ---------------------------
(* The safety of the life cycle of an ORB, for any threads, requests,       *)
(* POAManagers and max_time_in_shutdown, whatever steps of a shutdown fail.  *)
EXTENDS ORBLife, TLAPS

(* The places of each call.                                                 *)
PlacesOK ==
  \A t \in Threads :
     /\ pc[t] = "idle" <=> call[t] = "none"
     /\ pc[t] \in {"create", "running"} <=> call[t] = "init_POA"
     /\ pc[t] = "shutdown" => call[t] \in {"shutdown", "shutdown_wait", "destroy"}
     /\ pc[t] \in {"init_current", "in_context"} => call[t] \in {"shutdown_wait", "destroy"}
     /\ pc[t] \in {"wait", "timed_wait", "untimed_wait"} => call[t] \in {"run", "shutdown_wait", "destroy"}
     /\ pc[t] = "return" => call[t] \in {"run", "shutdown_wait"}
     /\ pc[t] \in {"teardown", "erase"} => call[t] = "destroy"

(* The calls that do not overlap.                                           *)
ApartOK ==
  \A t, u \in Threads : t # u =>
     /\ call[t] = "init_POA" => call[u] \in {"none", "init_POA"}
     /\ call[t] = "destroy" => call[u] \in {"none", "run"}

(* Where each thread can be in each state of the ORB.                       *)
WaitsOK ==
  \A t \in Threads :
     /\ call[t] = "init_POA" => state \in {"CLIENT", "RUNNING"} /\ ~destroyed
     /\ call[t] = "run" => state # "CLIENT" \/ deaf
     /\ pc[t] = "in_context" => current
     /\ pc[t] = "timed_wait" => state = "SHUTDOWNING"
     /\ pc[t] = "untimed_wait" => state \in {"RUNNING", "SHUTDOWNING"}
     /\ call[t] = "destroy" /\ pc[t] \in {"wait", "untimed_wait"} => state # "RUNNING"
     /\ pc[t] = "teardown" => \/ state \in {"CLIENT", "SHUTDOWNED"}
                              \/ /\ state = "SHUTDOWNING" /\ gaveUp
                                 /\ MaxTimeInShutdown # 0 \/ Spurious
     /\ destroyed => call[t] \in {"none", "run", "destroy"}

(* What there is before the shutdown.                                       *)
StartOK ==
  /\ state = "CLIENT" => IF monitor = NULL THEN rootPOA => deaf ELSE rootPOA
  /\ state = "RUNNING" => rootPOA
  /\ state = "CLIENT" /\ ~rootPOA /\ ~destroyed => managers = {} /\ inactive = {} /\ refused = {}
  /\ rootPOA \/ state # "CLIENT" => root \in managers \cup inactive \cup refused
  /\ root \notin late.managers
  /\ comm = "deleted" <=> destroyed
  /\ destroyed => gaveUp \/ state \in {"CLIENT", "SHUTDOWNED"}
  /\ destroyed => state # "RUNNING"

(* The ShutdownThread runs during the shutdown only, and what has been done *)
(* when it gets to each place, unless it failed or came too late.           *)
ShutOK ==
  /\ state = "SHUTDOWNING" <=> shut \in {"lost", "managers", "root", "forget",
                                         "comm", "layers", "state"}
  /\ state = "SHUTDOWNED" <=> shut = "done"
  /\ shut \in {"managers", "root", "forget"} => rootPOA \/ gaveUp
  /\ shut \in {"root", "forget", "comm", "layers", "state", "done"} =>
        managers \subseteq late.managers
  /\ shut = "forget" => serving \subseteq late.requests
  /\ shut \in {"comm", "layers", "state", "done"} =>
        gaveUp \/ "root" \in failed \/ (serving \subseteq late.requests /\ ~rootPOA)
  /\ shut \in {"state", "done"} => gaveUp \/ comm # "up" \/ "comm" \in failed

IndInv ==
  /\ TypeOK /\ PlacesOK /\ ApartOK /\ WaitsOK /\ StartOK /\ ShutOK
  /\ NoDestroyedInstance /\ RunWaits /\ NoUseAfterDelete

-----------------------------------------------------------------------------

(* A call begins apart from those it must not overlap with. The invariant   *)
(* holds after Begin.                                                       *)
LEMMA KeepBegin ==
  ASSUME IndInv, NEW t \in Threads, Begin(t)
  PROVE  IndInv'
<1> USE RootAssumption, ServantsAssumption, MaxTimeAssumption, SpuriousAssumption
    DEF Begin, requests, poaVars, orbVars, endVars, excuses, Idle, InCall, Apart, First, Places, Calls, States
<1>1. TypeOK'
  BY DEF IndInv, TypeOK, PlacesOK, WaitsOK, StartOK, ShutOK
<1>2. PlacesOK'
  BY DEF IndInv, TypeOK, PlacesOK
<1>3. ApartOK'
  BY DEF IndInv, TypeOK, PlacesOK, ApartOK
<1>4. WaitsOK'
  BY DEF IndInv, TypeOK, PlacesOK, ApartOK, WaitsOK, StartOK, ShutOK
<1>9. StartOK'
  BY DEF IndInv, TypeOK, PlacesOK, ApartOK, WaitsOK, StartOK, ShutOK
<1>5. ShutOK'
  BY DEF IndInv, TypeOK, PlacesOK, ApartOK, WaitsOK, StartOK, ShutOK
<1>6. NoDestroyedInstance'
  BY DEF IndInv, TypeOK, PlacesOK, NoDestroyedInstance
<1>7. RunWaits'
  BY DEF IndInv, TypeOK, PlacesOK, ApartOK, WaitsOK, StartOK, ShutOK, RunWaits
<1>8. NoUseAfterDelete'
  BY DEF IndInv, TypeOK, PlacesOK, WaitsOK, StartOK, ShutOK, NoUseAfterDelete
<1> QED
  BY <1>1, <1>2, <1>3, <1>4, <1>5, <1>6, <1>7, <1>8, <1>9 DEF IndInv

(* The root POA is created by one thread, of an ORB that is a client. The   *)
(* invariant holds after InitPOA.                                           *)
LEMMA KeepInitPOA ==
  ASSUME IndInv, NEW t \in Threads, InitPOA(t)
  PROVE  IndInv'
<1> USE RootAssumption, ServantsAssumption, MaxTimeAssumption, SpuriousAssumption
    DEF InitPOA, requests, poaVars, orbVars, endVars, excuses, Idle, Return, Goto, Places, Calls, States
<1>1. TypeOK'
  <2>1. CASE rootPOA
    BY <2>1 DEF IndInv, TypeOK, PlacesOK
  <2>2. CASE ~rootPOA
    <3>1. inactive = {}
      BY <2>2 DEF IndInv, PlacesOK, WaitsOK, StartOK
    <3>2. \A u \in Threads : monitor' = u <=> pc'[u] = "running"
      BY <2>2 DEF IndInv, TypeOK
    <3>3. crashed' \in BOOLEAN
      BY <2>2
    <3>4. /\ rootPOA' = TRUE /\ managers' = managers \cup {root} /\ monitor' = t
          /\ pc' = [pc EXCEPT ![t] = "running"]
          /\ UNCHANGED <<state, call, taken, serving, inactive, comm, current, destroyed, instance,
                         shut, gaveUp, refused, failed, late, deaf, woken>>
      BY <2>2
    <3>5. pc' \in [Threads -> Places]
      BY <3>4 DEF IndInv, TypeOK
    <3> QED
      BY <3>1, <3>2, <3>3, <3>4, <3>5, RootAssumption DEF IndInv, TypeOK
  <2> QED
    BY <2>1, <2>2
<1>2. PlacesOK'
  BY DEF IndInv, TypeOK, PlacesOK
<1>3. ApartOK'
  BY DEF IndInv, TypeOK, PlacesOK, ApartOK
<1>4. WaitsOK'
  BY DEF IndInv, TypeOK, PlacesOK, ApartOK, WaitsOK, StartOK, ShutOK
<1>9. StartOK'
  BY DEF IndInv, TypeOK, PlacesOK, ApartOK, WaitsOK, StartOK, ShutOK
<1>5. ShutOK'
  BY DEF IndInv, TypeOK, PlacesOK, ApartOK, WaitsOK, StartOK, ShutOK
<1>6. NoDestroyedInstance'
  BY DEF IndInv, TypeOK, PlacesOK, NoDestroyedInstance
<1>7. RunWaits'
  BY DEF IndInv, TypeOK, PlacesOK, ApartOK, WaitsOK, StartOK, ShutOK, RunWaits
<1>8. NoUseAfterDelete'
  BY DEF IndInv, TypeOK, PlacesOK, WaitsOK, StartOK, ShutOK, NoUseAfterDelete
<1> QED
  BY <1>1, <1>2, <1>3, <1>4, <1>5, <1>6, <1>7, <1>8, <1>9 DEF IndInv

(* The ORB runs when the root POA is there. The invariant holds after       *)
(* Running.                                                                 *)
LEMMA KeepRunning ==
  ASSUME IndInv, NEW t \in Threads, Running(t)
  PROVE  IndInv'
<1> USE RootAssumption, ServantsAssumption, MaxTimeAssumption, SpuriousAssumption
    DEF Running, requests, poaVars, orbVars, endVars, excuses, Idle, Return, Places, Calls, States
<1>1. TypeOK'
  BY DEF IndInv, TypeOK, PlacesOK, WaitsOK, StartOK, ShutOK
<1>2. PlacesOK'
  BY DEF IndInv, TypeOK, PlacesOK
<1>3. ApartOK'
  BY DEF IndInv, TypeOK, PlacesOK, ApartOK
<1>4. WaitsOK'
  BY DEF IndInv, TypeOK, PlacesOK, ApartOK, WaitsOK, StartOK, ShutOK
<1>9. StartOK'
  BY DEF IndInv, TypeOK, PlacesOK, ApartOK, WaitsOK, StartOK, ShutOK
<1>5. ShutOK'
  BY DEF IndInv, TypeOK, PlacesOK, ApartOK, WaitsOK, StartOK, ShutOK
<1>6. NoDestroyedInstance'
  BY DEF IndInv, TypeOK, PlacesOK, NoDestroyedInstance
<1>7. RunWaits'
  BY DEF IndInv, TypeOK, PlacesOK, ApartOK, WaitsOK, StartOK, ShutOK, RunWaits
<1>8. NoUseAfterDelete'
  BY DEF IndInv, TypeOK, PlacesOK, WaitsOK, StartOK, ShutOK, NoUseAfterDelete
<1> QED
  BY <1>1, <1>2, <1>3, <1>4, <1>5, <1>6, <1>7, <1>8, <1>9 DEF IndInv

(* The ShutdownThread starts once, in an ORB that runs. The invariant holds *)
(* after Shutdown.                                                          *)
LEMMA KeepShutdown ==
  ASSUME IndInv, NEW t \in Threads, Shutdown(t)
  PROVE  IndInv'
<1> USE RootAssumption, ServantsAssumption, MaxTimeAssumption, SpuriousAssumption
    DEF Shutdown, requests, poaVars, orbVars, endVars, excuses, Idle, Return, Goto, Places, Calls, States
<1>1. TypeOK'
  BY DEF IndInv, TypeOK, PlacesOK, WaitsOK, StartOK, ShutOK
<1>2. PlacesOK'
  BY DEF IndInv, TypeOK, PlacesOK
<1>3. ApartOK'
  BY DEF IndInv, TypeOK, PlacesOK, ApartOK
<1>4. WaitsOK'
  BY DEF IndInv, TypeOK, PlacesOK, ApartOK, WaitsOK, StartOK, ShutOK
<1>9. StartOK'
  BY DEF IndInv, TypeOK, PlacesOK, ApartOK, WaitsOK, StartOK, ShutOK
<1>5. ShutOK'
  BY DEF IndInv, TypeOK, PlacesOK, ApartOK, WaitsOK, StartOK, ShutOK
<1>6. NoDestroyedInstance'
  BY DEF IndInv, TypeOK, PlacesOK, NoDestroyedInstance
<1>7. RunWaits'
  BY DEF IndInv, TypeOK, PlacesOK, ApartOK, WaitsOK, StartOK, ShutOK, RunWaits
<1>8. NoUseAfterDelete'
  BY DEF IndInv, TypeOK, PlacesOK, WaitsOK, StartOK, ShutOK, NoUseAfterDelete
<1> QED
  BY <1>1, <1>2, <1>3, <1>4, <1>5, <1>6, <1>7, <1>8, <1>9 DEF IndInv

(* The POACurrent is there when it is used next. The invariant holds after  *)
(* InitCurrent.                                                             *)
LEMMA KeepInitCurrent ==
  ASSUME IndInv, NEW t \in Threads, InitCurrent(t)
  PROVE  IndInv'
<1> USE RootAssumption, ServantsAssumption, MaxTimeAssumption, SpuriousAssumption
    DEF InitCurrent, requests, poaVars, orbVars, endVars, excuses, Idle, Goto, Places, Calls, States
<1>1. TypeOK'
  BY DEF IndInv, TypeOK, PlacesOK, WaitsOK, StartOK, ShutOK
<1>2. PlacesOK'
  BY DEF IndInv, TypeOK, PlacesOK
<1>3. ApartOK'
  BY DEF IndInv, TypeOK, PlacesOK, ApartOK
<1>4. WaitsOK'
  BY DEF IndInv, TypeOK, PlacesOK, ApartOK, WaitsOK, StartOK, ShutOK
<1>9. StartOK'
  BY DEF IndInv, TypeOK, PlacesOK, ApartOK, WaitsOK, StartOK, ShutOK
<1>5. ShutOK'
  BY DEF IndInv, TypeOK, PlacesOK, ApartOK, WaitsOK, StartOK, ShutOK
<1>6. NoDestroyedInstance'
  BY DEF IndInv, TypeOK, PlacesOK, NoDestroyedInstance
<1>7. RunWaits'
  BY DEF IndInv, TypeOK, PlacesOK, ApartOK, WaitsOK, StartOK, ShutOK, RunWaits
<1>8. NoUseAfterDelete'
  BY DEF IndInv, TypeOK, PlacesOK, WaitsOK, StartOK, ShutOK, NoUseAfterDelete
<1> QED
  BY <1>1, <1>2, <1>3, <1>4, <1>5, <1>6, <1>7, <1>8, <1>9 DEF IndInv

(* The POACurrent is not deleted by a destroy of another thread. The        *)
(* invariant holds after InContext.                                         *)
LEMMA KeepInContext ==
  ASSUME IndInv, NEW t \in Threads, InContext(t)
  PROVE  IndInv'
<1> USE RootAssumption, ServantsAssumption, MaxTimeAssumption, SpuriousAssumption
    DEF InContext, requests, poaVars, orbVars, endVars, excuses, Idle, Return, Goto, Places, Calls, States
<1>1. TypeOK'
  BY DEF IndInv, TypeOK, PlacesOK, WaitsOK, StartOK, ShutOK
<1>2. PlacesOK'
  BY DEF IndInv, TypeOK, PlacesOK
<1>3. ApartOK'
  BY DEF IndInv, TypeOK, PlacesOK, ApartOK
<1>4. WaitsOK'
  BY DEF IndInv, TypeOK, PlacesOK, ApartOK, WaitsOK, StartOK, ShutOK
<1>9. StartOK'
  BY DEF IndInv, TypeOK, PlacesOK, ApartOK, WaitsOK, StartOK, ShutOK
<1>5. ShutOK'
  BY DEF IndInv, TypeOK, PlacesOK, ApartOK, WaitsOK, StartOK, ShutOK
<1>6. NoDestroyedInstance'
  BY DEF IndInv, TypeOK, PlacesOK, NoDestroyedInstance
<1>7. RunWaits'
  BY DEF IndInv, TypeOK, PlacesOK, ApartOK, WaitsOK, StartOK, ShutOK, RunWaits
<1>8. NoUseAfterDelete'
  BY DEF IndInv, TypeOK, PlacesOK, WaitsOK, StartOK, ShutOK, NoUseAfterDelete
<1> QED
  BY <1>1, <1>2, <1>3, <1>4, <1>5, <1>6, <1>7, <1>8, <1>9 DEF IndInv

(* A thread waits in the states that a ShutdownThread will end. The         *)
(* invariant holds after WaitForShutdown.                                   *)
LEMMA KeepWaitForShutdown ==
  ASSUME IndInv, NEW t \in Threads, WaitForShutdown(t)
  PROVE  IndInv'
<1> USE RootAssumption, ServantsAssumption, MaxTimeAssumption, SpuriousAssumption
    DEF WaitForShutdown, requests, poaVars, orbVars, endVars, excuses, Idle, Goto, After, Places, Calls, States
<1>1. TypeOK'
  BY DEF IndInv, TypeOK, PlacesOK, WaitsOK, StartOK, ShutOK
<1>2. PlacesOK'
  BY DEF IndInv, TypeOK, PlacesOK
<1>3. ApartOK'
  BY DEF IndInv, TypeOK, PlacesOK, ApartOK
<1>4. WaitsOK'
  BY DEF IndInv, TypeOK, PlacesOK, ApartOK, WaitsOK, StartOK, ShutOK
<1>9. StartOK'
  BY DEF IndInv, TypeOK, PlacesOK, ApartOK, WaitsOK, StartOK, ShutOK
<1>5. ShutOK'
  BY DEF IndInv, TypeOK, PlacesOK, ApartOK, WaitsOK, StartOK, ShutOK
<1>6. NoDestroyedInstance'
  BY DEF IndInv, TypeOK, PlacesOK, NoDestroyedInstance
<1>7. RunWaits'
  BY DEF IndInv, TypeOK, PlacesOK, ApartOK, WaitsOK, StartOK, ShutOK, RunWaits
<1>8. NoUseAfterDelete'
  BY DEF IndInv, TypeOK, PlacesOK, WaitsOK, StartOK, ShutOK, NoUseAfterDelete
<1> QED
  BY <1>1, <1>2, <1>3, <1>4, <1>5, <1>6, <1>7, <1>8, <1>9 DEF IndInv

(* A timed wait that ends early is a wait for a shutdown. The invariant     *)
(* holds after Timeout.                                                     *)
LEMMA KeepTimeout ==
  ASSUME IndInv, NEW t \in Threads, Timeout(t)
  PROVE  IndInv'
<1> USE RootAssumption, ServantsAssumption, MaxTimeAssumption, SpuriousAssumption
    DEF Timeout, requests, poaVars, orbVars, endVars, excuses, Idle, Goto, After, Places, Calls, States
<1>1. TypeOK'
  BY DEF IndInv, TypeOK, PlacesOK, WaitsOK, StartOK, ShutOK
<1>2. PlacesOK'
  BY DEF IndInv, TypeOK, PlacesOK
<1>3. ApartOK'
  BY DEF IndInv, TypeOK, PlacesOK, ApartOK
<1>4. WaitsOK'
  BY DEF IndInv, TypeOK, PlacesOK, ApartOK, WaitsOK
<1>9. StartOK'
  BY DEF IndInv, TypeOK, PlacesOK, ApartOK, WaitsOK, StartOK, ShutOK
<1>5. ShutOK'
  BY DEF IndInv, TypeOK, PlacesOK, ApartOK, WaitsOK, StartOK, ShutOK
<1>6. NoDestroyedInstance'
  BY DEF IndInv, TypeOK, PlacesOK, NoDestroyedInstance
<1>7. RunWaits'
  BY DEF IndInv, TypeOK, PlacesOK, ApartOK, WaitsOK, StartOK, ShutOK, RunWaits
<1>8. NoUseAfterDelete'
  BY DEF IndInv, TypeOK, PlacesOK, WaitsOK, StartOK, ShutOK, NoUseAfterDelete
<1> QED
  BY <1>1, <1>2, <1>3, <1>4, <1>5, <1>6, <1>7, <1>8, <1>9 DEF IndInv

(* The end of run and of shutdown(true). The invariant holds after EndCall. *)
LEMMA KeepEndCall ==
  ASSUME IndInv, NEW t \in Threads, EndCall(t)
  PROVE  IndInv'
<1> USE RootAssumption, ServantsAssumption, MaxTimeAssumption, SpuriousAssumption
    DEF EndCall, requests, poaVars, orbVars, endVars, excuses, Idle, Return, Places, Calls, States
<1>1. TypeOK'
  BY DEF IndInv, TypeOK, PlacesOK, WaitsOK, StartOK, ShutOK
<1>2. PlacesOK'
  BY DEF IndInv, TypeOK, PlacesOK
<1>3. ApartOK'
  BY DEF IndInv, TypeOK, PlacesOK, ApartOK
<1>4. WaitsOK'
  BY DEF IndInv, TypeOK, PlacesOK, ApartOK, WaitsOK, StartOK, ShutOK
<1>9. StartOK'
  BY DEF IndInv, TypeOK, PlacesOK, ApartOK, WaitsOK, StartOK, ShutOK
<1>5. ShutOK'
  BY DEF IndInv, TypeOK, PlacesOK, ApartOK, WaitsOK, StartOK, ShutOK
<1>6. NoDestroyedInstance'
  BY DEF IndInv, TypeOK, PlacesOK, NoDestroyedInstance
<1>7. RunWaits'
  BY DEF IndInv, TypeOK, PlacesOK, ApartOK, WaitsOK, StartOK, ShutOK, RunWaits
<1>8. NoUseAfterDelete'
  BY DEF IndInv, TypeOK, PlacesOK, WaitsOK, StartOK, ShutOK, NoUseAfterDelete
<1> QED
  BY <1>1, <1>2, <1>3, <1>4, <1>5, <1>6, <1>7, <1>8, <1>9 DEF IndInv

(* destroy deletes after the shutdown, or has given it up. The invariant    *)
(* holds after Teardown.                                                    *)
LEMMA KeepTeardown ==
  ASSUME IndInv, NEW t \in Threads, Teardown(t)
  PROVE  IndInv'
<1> USE RootAssumption, ServantsAssumption, MaxTimeAssumption, SpuriousAssumption
    DEF Teardown, requests, poaVars, orbVars, endVars, excuses, Idle, Goto, Places, Calls, States
<1>1. TypeOK'
  BY DEF IndInv, TypeOK, PlacesOK, WaitsOK, StartOK, ShutOK
<1>2. PlacesOK'
  BY DEF IndInv, TypeOK, PlacesOK
<1>3. ApartOK'
  BY DEF IndInv, TypeOK, PlacesOK, ApartOK
<1>4. WaitsOK'
  BY DEF IndInv, TypeOK, PlacesOK, ApartOK, WaitsOK, StartOK, ShutOK
<1>9. StartOK'
  BY DEF IndInv, TypeOK, PlacesOK, ApartOK, WaitsOK, StartOK, ShutOK
<1>5. ShutOK'
  BY DEF IndInv, TypeOK, PlacesOK, ApartOK, WaitsOK, StartOK, ShutOK
<1>6. NoDestroyedInstance'
  BY DEF IndInv, TypeOK, PlacesOK, NoDestroyedInstance
<1>7. RunWaits'
  BY DEF IndInv, TypeOK, PlacesOK, ApartOK, WaitsOK, StartOK, ShutOK, RunWaits
<1>8. NoUseAfterDelete'
  BY DEF IndInv, TypeOK, PlacesOK, WaitsOK, StartOK, ShutOK, NoUseAfterDelete
<1> QED
  BY <1>1, <1>2, <1>3, <1>4, <1>5, <1>6, <1>7, <1>8, <1>9 DEF IndInv

(* The last step of destroy. The invariant holds after EraseInstance.       *)
LEMMA KeepEraseInstance ==
  ASSUME IndInv, NEW t \in Threads, EraseInstance(t)
  PROVE  IndInv'
<1> USE RootAssumption, ServantsAssumption, MaxTimeAssumption, SpuriousAssumption
    DEF EraseInstance, requests, poaVars, orbVars, endVars, excuses, Idle, Return, Places, Calls, States
<1>1. TypeOK'
  <2>1. pc' \in [Threads -> Places] /\ call' \in [Threads -> Calls]
    BY DEF IndInv, TypeOK
  <2>2. \A u \in Threads : monitor' = u <=> pc'[u] = "running"
    BY DEF IndInv, TypeOK
  <2>3. UNCHANGED <<state, taken, serving, monitor, rootPOA, managers, inactive, comm, current,
                    destroyed, shut, gaveUp, crashed, refused, failed, late, deaf, woken>>
    OBVIOUS
  <2>4. instance' \in BOOLEAN
    OBVIOUS
  <2> HIDE DEF EraseInstance, Return, Idle, Places, Calls
  <2> QED  BY <2>1, <2>2, <2>3, <2>4 DEF IndInv, TypeOK
<1>2. PlacesOK'
  BY DEF IndInv, TypeOK, PlacesOK
<1>3. ApartOK'
  BY DEF IndInv, TypeOK, PlacesOK, ApartOK
<1>4. WaitsOK'
  BY DEF IndInv, TypeOK, PlacesOK, ApartOK, WaitsOK, StartOK, ShutOK
<1>9. StartOK'
  BY DEF IndInv, TypeOK, PlacesOK, ApartOK, WaitsOK, StartOK, ShutOK
<1>5. ShutOK'
  BY DEF IndInv, TypeOK, PlacesOK, ApartOK, WaitsOK, StartOK, ShutOK
<1>6. NoDestroyedInstance'
  BY DEF IndInv, TypeOK, PlacesOK, NoDestroyedInstance
<1>7. RunWaits'
  BY DEF IndInv, TypeOK, PlacesOK, ApartOK, WaitsOK, StartOK, ShutOK, RunWaits
<1>8. NoUseAfterDelete'
  BY DEF IndInv, TypeOK, PlacesOK, WaitsOK, StartOK, ShutOK, NoUseAfterDelete
<1> QED
  BY <1>1, <1>2, <1>3, <1>4, <1>5, <1>6, <1>7, <1>8, <1>9 DEF IndInv

(* No request is taken once the root POA's manager is deactivated. The      *)
(* invariant holds after TakeRequest.                                       *)
LEMMA KeepTakeRequest ==
  ASSUME IndInv, NEW t \in Threads, TakeRequest(t)
  PROVE  IndInv'
<1> USE RootAssumption, ServantsAssumption, MaxTimeAssumption, SpuriousAssumption
    DEF TakeRequest, requests, poaVars, orbVars, endVars, excuses, Idle, Places, Calls, States
<1>1. TypeOK'
  BY DEF IndInv, TypeOK, PlacesOK, WaitsOK, StartOK, ShutOK
<1>2. PlacesOK'
  BY DEF IndInv, TypeOK, PlacesOK
<1>3. ApartOK'
  BY DEF IndInv, TypeOK, PlacesOK, ApartOK
<1>4. WaitsOK'
  BY DEF IndInv, TypeOK, PlacesOK, ApartOK, WaitsOK, StartOK, ShutOK
<1>9. StartOK'
  BY DEF IndInv, TypeOK, PlacesOK, ApartOK, WaitsOK, StartOK, ShutOK
<1>5. ShutOK'
  BY DEF IndInv, TypeOK, PlacesOK, ApartOK, WaitsOK, StartOK, ShutOK
<1>6. NoDestroyedInstance'
  BY DEF IndInv, TypeOK, PlacesOK, NoDestroyedInstance
<1>7. RunWaits'
  BY DEF IndInv, TypeOK, PlacesOK, ApartOK, WaitsOK, StartOK, ShutOK, RunWaits
<1>8. NoUseAfterDelete'
  BY DEF IndInv, TypeOK, PlacesOK, WaitsOK, StartOK, ShutOK, NoUseAfterDelete
<1> QED
  BY <1>1, <1>2, <1>3, <1>4, <1>5, <1>6, <1>7, <1>8, <1>9 DEF IndInv

(* A request that its manager has let through is counted, or not. The       *)
(* invariant holds after CountRequest.                                      *)
LEMMA KeepCountRequest ==
  ASSUME IndInv, NEW t \in Threads, CountRequest(t)
  PROVE  IndInv'
<1> USE RootAssumption, ServantsAssumption, MaxTimeAssumption, SpuriousAssumption
    DEF CountRequest, requests, poaVars, orbVars, endVars, excuses, Idle, Places, Calls, States
<1>1. TypeOK'
  BY DEF IndInv, TypeOK, PlacesOK, WaitsOK, StartOK, ShutOK
<1>2. PlacesOK'
  BY DEF IndInv, TypeOK, PlacesOK
<1>3. ApartOK'
  BY DEF IndInv, TypeOK, PlacesOK, ApartOK
<1>4. WaitsOK'
  BY DEF IndInv, TypeOK, PlacesOK, ApartOK, WaitsOK, StartOK, ShutOK
<1>9. StartOK'
  BY DEF IndInv, TypeOK, PlacesOK, ApartOK, WaitsOK, StartOK, ShutOK
<1>5. ShutOK'
  BY DEF IndInv, TypeOK, PlacesOK, ApartOK, WaitsOK, StartOK, ShutOK
<1>6. NoDestroyedInstance'
  BY DEF IndInv, TypeOK, PlacesOK, NoDestroyedInstance
<1>7. RunWaits'
  BY DEF IndInv, TypeOK, PlacesOK, ApartOK, WaitsOK, StartOK, ShutOK, RunWaits
<1>8. NoUseAfterDelete'
  BY DEF IndInv, TypeOK, PlacesOK, WaitsOK, StartOK, ShutOK, NoUseAfterDelete
<1> QED
  BY <1>1, <1>2, <1>3, <1>4, <1>5, <1>6, <1>7, <1>8, <1>9 DEF IndInv

(* The end of a request. The invariant holds after EndRequest.              *)
LEMMA KeepEndRequest ==
  ASSUME IndInv, NEW t \in Threads, EndRequest(t)
  PROVE  IndInv'
<1> USE RootAssumption, ServantsAssumption, MaxTimeAssumption, SpuriousAssumption
    DEF EndRequest, requests, poaVars, orbVars, endVars, excuses, Idle, Places, Calls, States
<1>1. TypeOK'
  BY DEF IndInv, TypeOK, PlacesOK, WaitsOK, StartOK, ShutOK
<1>2. PlacesOK'
  BY DEF IndInv, TypeOK, PlacesOK
<1>3. ApartOK'
  BY DEF IndInv, TypeOK, PlacesOK, ApartOK
<1>4. WaitsOK'
  BY DEF IndInv, TypeOK, PlacesOK, ApartOK, WaitsOK, StartOK, ShutOK
<1>9. StartOK'
  BY DEF IndInv, TypeOK, PlacesOK, ApartOK, WaitsOK, StartOK, ShutOK
<1>5. ShutOK'
  BY DEF IndInv, TypeOK, PlacesOK, ApartOK, WaitsOK, StartOK, ShutOK
<1>6. NoDestroyedInstance'
  BY DEF IndInv, TypeOK, PlacesOK, NoDestroyedInstance
<1>7. RunWaits'
  BY DEF IndInv, TypeOK, PlacesOK, ApartOK, WaitsOK, StartOK, ShutOK, RunWaits
<1>8. NoUseAfterDelete'
  BY DEF IndInv, TypeOK, PlacesOK, WaitsOK, StartOK, ShutOK, NoUseAfterDelete
<1> QED
  BY <1>1, <1>2, <1>3, <1>4, <1>5, <1>6, <1>7, <1>8, <1>9 DEF IndInv

(* A POAManager created once the shutdown has begun is late. The invariant  *)
(* holds after CreateManager.                                               *)
LEMMA KeepCreateManager ==
  ASSUME IndInv, NEW m \in Managers, CreateManager(m)
  PROVE  IndInv'
<1> USE RootAssumption, ServantsAssumption, MaxTimeAssumption, SpuriousAssumption
    DEF CreateManager, requests, poaVars, orbVars, endVars, excuses, Idle, Places, Calls, States
<1>1. TypeOK'
  BY DEF IndInv, TypeOK, PlacesOK, WaitsOK, StartOK, ShutOK
<1>2. PlacesOK'
  BY DEF IndInv, TypeOK, PlacesOK
<1>3. ApartOK'
  BY DEF IndInv, TypeOK, PlacesOK, ApartOK
<1>4. WaitsOK'
  BY DEF IndInv, TypeOK, PlacesOK, ApartOK, WaitsOK, StartOK, ShutOK
<1>9. StartOK'
  BY DEF IndInv, TypeOK, PlacesOK, ApartOK, WaitsOK, StartOK, ShutOK
<1>5. ShutOK'
  BY DEF IndInv, TypeOK, PlacesOK, ApartOK, WaitsOK, StartOK, ShutOK
<1>6. NoDestroyedInstance'
  BY DEF IndInv, TypeOK, PlacesOK, NoDestroyedInstance
<1>7. RunWaits'
  BY DEF IndInv, TypeOK, PlacesOK, ApartOK, WaitsOK, StartOK, ShutOK, RunWaits
<1>8. NoUseAfterDelete'
  BY DEF IndInv, TypeOK, PlacesOK, WaitsOK, StartOK, ShutOK, NoUseAfterDelete
<1> QED
  BY <1>1, <1>2, <1>3, <1>4, <1>5, <1>6, <1>7, <1>8, <1>9 DEF IndInv

(* A POAManager leaves the list when it is deactivated. The invariant holds *)
(* after DeactivateManager.                                                 *)
LEMMA KeepDeactivateManager ==
  ASSUME IndInv, NEW m \in Managers, DeactivateManager(m)
  PROVE  IndInv'
<1> USE RootAssumption, ServantsAssumption, MaxTimeAssumption, SpuriousAssumption
    DEF DeactivateManager, requests, poaVars, orbVars, endVars, excuses, Idle, Places, Calls, States
<1>1. TypeOK'
  BY DEF IndInv, TypeOK, PlacesOK, WaitsOK, StartOK, ShutOK
<1>2. PlacesOK'
  BY DEF IndInv, TypeOK, PlacesOK
<1>3. ApartOK'
  BY DEF IndInv, TypeOK, PlacesOK, ApartOK
<1>4. WaitsOK'
  BY DEF IndInv, TypeOK, PlacesOK, ApartOK, WaitsOK, StartOK, ShutOK
<1>9. StartOK'
  BY DEF IndInv, TypeOK, PlacesOK, ApartOK, WaitsOK, StartOK, ShutOK
<1>5. ShutOK'
  BY DEF IndInv, TypeOK, PlacesOK, ApartOK, WaitsOK, StartOK, ShutOK
<1>6. NoDestroyedInstance'
  BY DEF IndInv, TypeOK, PlacesOK, NoDestroyedInstance
<1>7. RunWaits'
  BY DEF IndInv, TypeOK, PlacesOK, ApartOK, WaitsOK, StartOK, ShutOK, RunWaits
<1>8. NoUseAfterDelete'
  BY DEF IndInv, TypeOK, PlacesOK, WaitsOK, StartOK, ShutOK, NoUseAfterDelete
<1> QED
  BY <1>1, <1>2, <1>3, <1>4, <1>5, <1>6, <1>7, <1>8, <1>9 DEF IndInv

(* The ShutdownThread deactivates the POAManagers. The invariant holds      *)
(* after ShutManager.                                                       *)
LEMMA KeepShutManager ==
  ASSUME IndInv, ShutManager
  PROVE  IndInv'
<1> USE RootAssumption, ServantsAssumption, MaxTimeAssumption, SpuriousAssumption
    DEF ShutManager, requests, poaVars, orbVars, endVars, excuses, Idle, Places, Calls, States
<1>1. TypeOK'
  BY DEF IndInv, TypeOK, PlacesOK, WaitsOK, StartOK, ShutOK
<1>2. PlacesOK'
  BY DEF IndInv, TypeOK, PlacesOK
<1>3. ApartOK'
  BY DEF IndInv, TypeOK, PlacesOK, ApartOK
<1>4. WaitsOK'
  BY DEF IndInv, TypeOK, PlacesOK, ApartOK, WaitsOK, StartOK, ShutOK
<1>9. StartOK'
  BY DEF IndInv, TypeOK, PlacesOK, ApartOK, WaitsOK, StartOK, ShutOK
<1>5. ShutOK'
  BY DEF IndInv, TypeOK, PlacesOK, ApartOK, WaitsOK, StartOK, ShutOK
<1>6. NoDestroyedInstance'
  BY DEF IndInv, TypeOK, PlacesOK, NoDestroyedInstance
<1>7. RunWaits'
  BY DEF IndInv, TypeOK, PlacesOK, ApartOK, WaitsOK, StartOK, ShutOK, RunWaits
<1>8. NoUseAfterDelete'
  BY DEF IndInv, TypeOK, PlacesOK, WaitsOK, StartOK, ShutOK, NoUseAfterDelete
<1> QED
  BY <1>1, <1>2, <1>3, <1>4, <1>5, <1>6, <1>7, <1>8, <1>9 DEF IndInv

(* The ShutdownThread waits for the requests of the root POA. The invariant *)
(* holds after WaitRoot.                                                    *)
LEMMA KeepWaitRoot ==
  ASSUME IndInv, WaitRoot
  PROVE  IndInv'
<1> USE RootAssumption, ServantsAssumption, MaxTimeAssumption, SpuriousAssumption
    DEF WaitRoot, requests, poaVars, orbVars, endVars, excuses, Idle, Places, Calls, States
<1>1. TypeOK'
  BY DEF IndInv, TypeOK, PlacesOK, WaitsOK, StartOK, ShutOK
<1>2. PlacesOK'
  BY DEF IndInv, TypeOK, PlacesOK
<1>3. ApartOK'
  BY DEF IndInv, TypeOK, PlacesOK, ApartOK
<1>4. WaitsOK'
  BY DEF IndInv, TypeOK, PlacesOK, ApartOK, WaitsOK, StartOK, ShutOK
<1>9. StartOK'
  BY DEF IndInv, TypeOK, PlacesOK, ApartOK, WaitsOK, StartOK, ShutOK
<1>5. ShutOK'
  BY DEF IndInv, TypeOK, PlacesOK, ApartOK, WaitsOK, StartOK, ShutOK
<1>6. NoDestroyedInstance'
  BY DEF IndInv, TypeOK, PlacesOK, NoDestroyedInstance
<1>7. RunWaits'
  BY DEF IndInv, TypeOK, PlacesOK, ApartOK, WaitsOK, StartOK, ShutOK, RunWaits
<1>8. NoUseAfterDelete'
  BY DEF IndInv, TypeOK, PlacesOK, WaitsOK, StartOK, ShutOK, NoUseAfterDelete
<1> QED
  BY <1>1, <1>2, <1>3, <1>4, <1>5, <1>6, <1>7, <1>8, <1>9 DEF IndInv

(* The ShutdownThread destroys the root POA. The invariant holds after      *)
(* ShutRoot.                                                                *)
LEMMA KeepShutRoot ==
  ASSUME IndInv, ShutRoot
  PROVE  IndInv'
<1> USE RootAssumption, ServantsAssumption, MaxTimeAssumption, SpuriousAssumption
    DEF ShutRoot, requests, poaVars, orbVars, endVars, excuses, Idle, Places, Calls, States
<1>1. TypeOK'
  BY DEF IndInv, TypeOK, PlacesOK, WaitsOK, StartOK, ShutOK
<1>2. PlacesOK'
  BY DEF IndInv, TypeOK, PlacesOK
<1>3. ApartOK'
  BY DEF IndInv, TypeOK, PlacesOK, ApartOK
<1>4. WaitsOK'
  BY DEF IndInv, TypeOK, PlacesOK, ApartOK, WaitsOK, StartOK, ShutOK
<1>9. StartOK'
  BY DEF IndInv, TypeOK, PlacesOK, ApartOK, WaitsOK, StartOK, ShutOK
<1>5. ShutOK'
  BY DEF IndInv, TypeOK, PlacesOK, ApartOK, WaitsOK, StartOK, ShutOK
<1>6. NoDestroyedInstance'
  BY DEF IndInv, TypeOK, PlacesOK, NoDestroyedInstance
<1>7. RunWaits'
  BY DEF IndInv, TypeOK, PlacesOK, ApartOK, WaitsOK, StartOK, ShutOK, RunWaits
<1>8. NoUseAfterDelete'
  BY DEF IndInv, TypeOK, PlacesOK, WaitsOK, StartOK, ShutOK, NoUseAfterDelete
<1> QED
  BY <1>1, <1>2, <1>3, <1>4, <1>5, <1>6, <1>7, <1>8, <1>9 DEF IndInv

(* The ShutdownThread shuts the communications down. The invariant holds    *)
(* after ShutComm.                                                          *)
LEMMA KeepShutComm ==
  ASSUME IndInv, ShutComm
  PROVE  IndInv'
<1> USE RootAssumption, ServantsAssumption, MaxTimeAssumption, SpuriousAssumption
    DEF ShutComm, requests, poaVars, orbVars, endVars, excuses, Idle, Places, Calls, States
<1>1. TypeOK'
  BY DEF IndInv, TypeOK, PlacesOK, WaitsOK, StartOK, ShutOK
<1>2. PlacesOK'
  BY DEF IndInv, TypeOK, PlacesOK
<1>3. ApartOK'
  BY DEF IndInv, TypeOK, PlacesOK, ApartOK
<1>4. WaitsOK'
  BY DEF IndInv, TypeOK, PlacesOK, ApartOK, WaitsOK, StartOK, ShutOK
<1>9. StartOK'
  BY DEF IndInv, TypeOK, PlacesOK, ApartOK, WaitsOK, StartOK, ShutOK
<1>5. ShutOK'
  BY DEF IndInv, TypeOK, PlacesOK, ApartOK, WaitsOK, StartOK, ShutOK
<1>6. NoDestroyedInstance'
  BY DEF IndInv, TypeOK, PlacesOK, NoDestroyedInstance
<1>7. RunWaits'
  BY DEF IndInv, TypeOK, PlacesOK, ApartOK, WaitsOK, StartOK, ShutOK, RunWaits
<1>8. NoUseAfterDelete'
  BY DEF IndInv, TypeOK, PlacesOK, WaitsOK, StartOK, ShutOK, NoUseAfterDelete
<1> QED
  BY <1>1, <1>2, <1>3, <1>4, <1>5, <1>6, <1>7, <1>8, <1>9 DEF IndInv

(* The end of the shutdown wakes every thread that waits. The invariant     *)
(* holds after Shutdowned.                                                  *)
LEMMA KeepShutdowned ==
  ASSUME IndInv, Shutdowned
  PROVE  IndInv'
<1> USE RootAssumption, ServantsAssumption, MaxTimeAssumption, SpuriousAssumption
    DEF Shutdowned, requests, poaVars, orbVars, endVars, excuses, Idle, After, Places, Calls, States
<1>1. TypeOK'
  BY DEF IndInv, TypeOK, PlacesOK, WaitsOK, StartOK, ShutOK
<1>2. PlacesOK'
  BY DEF IndInv, TypeOK, PlacesOK
<1>3. ApartOK'
  BY DEF IndInv, TypeOK, PlacesOK, ApartOK
<1>4. WaitsOK'
  BY DEF IndInv, TypeOK, PlacesOK, ApartOK, WaitsOK, StartOK, ShutOK
<1>9. StartOK'
  BY DEF IndInv, TypeOK, PlacesOK, ApartOK, WaitsOK, StartOK, ShutOK
<1>5. ShutOK'
  BY DEF IndInv, TypeOK, PlacesOK, ApartOK, WaitsOK, StartOK, ShutOK
<1>6. NoDestroyedInstance'
  BY DEF IndInv, TypeOK, PlacesOK, NoDestroyedInstance
<1>7. RunWaits'
  BY DEF IndInv, TypeOK, PlacesOK, ApartOK, WaitsOK, StartOK, ShutOK, RunWaits
<1>8. NoUseAfterDelete'
  BY DEF IndInv, TypeOK, PlacesOK, WaitsOK, StartOK, ShutOK, NoUseAfterDelete
<1> QED
  BY <1>1, <1>2, <1>3, <1>4, <1>5, <1>6, <1>7, <1>8, <1>9 DEF IndInv

-----------------------------------------------------------------------------

(* A new ORB satisfies the invariant.                                       *)
LEMMA InitInv == Init => IndInv
<1> SUFFICES ASSUME Init  PROVE IndInv
  OBVIOUS
<1>1. late \in [requests : SUBSET Servants, managers : SUBSET Managers]
  BY DEF Init
<1>2. TypeOK
  BY <1>1, RootAssumption DEF Init, TypeOK, Places, Calls, States
<1>3. PlacesOK /\ ApartOK /\ WaitsOK
  BY DEF Init, PlacesOK, ApartOK, WaitsOK
<1>4. StartOK /\ ShutOK
  BY DEF Init, StartOK, ShutOK
<1> QED
  BY <1>2, <1>3, <1>4 DEF Init, IndInv, NoDestroyedInstance, RunWaits, NoUseAfterDelete

(* Every step of the ORB keeps the invariant.                               *)
LEMMA NextInv == IndInv /\ [Next]_vars => IndInv'
<1> SUFFICES ASSUME IndInv, [Next]_vars
             PROVE  IndInv'
  OBVIOUS
<1>1. ASSUME NEW t \in Threads, Begin(t) \/ Step(t) \/ Timeout(t) \/ TakeRequest(t) \/ CountRequest(t)
                              \/ EndRequest(t)
      PROVE  IndInv'
  BY <1>1, KeepBegin, KeepInitPOA, KeepRunning, KeepShutdown, KeepInitCurrent, KeepInContext,
     KeepWaitForShutdown, KeepTimeout, KeepEndCall, KeepTeardown, KeepEraseInstance,
     KeepTakeRequest, KeepCountRequest, KeepEndRequest DEF Step
<1>2. ASSUME NEW m \in Managers, CreateManager(m) \/ DeactivateManager(m)
      PROVE  IndInv'
  BY <1>2, KeepCreateManager, KeepDeactivateManager
<1>3. ASSUME ShutdownThread
      PROVE  IndInv'
  BY <1>3, KeepShutManager, KeepWaitRoot, KeepShutRoot, KeepShutComm, KeepShutdowned DEF ShutdownThread
<1>4. CASE UNCHANGED vars
  BY <1>4
  DEF vars, requests, poaVars, orbVars, endVars, excuses, IndInv, TypeOK, PlacesOK, ApartOK, WaitsOK, StartOK, ShutOK,
      NoDestroyedInstance, RunWaits, NoUseAfterDelete
<1> QED
  BY <1>1, <1>2, <1>3, <1>4 DEF Next

(* The invariant holds in every state of the ORB.                           *)
THEOREM Invariance == Spec => []IndInv
<1> QED
  BY InitInv, NextInv, PTL DEF Spec

(* Every variable of the ORB keeps its type, and its monitor has an owner   *)
(* in init_POA only.                                                        *)
THEOREM TypeCorrect == Spec => []TypeOK
<1>1. IndInv => TypeOK
  BY DEF IndInv
<1> QED
  BY <1>1, Invariance, PTL

(* Nothing that TIDORB::destroy deletes is used afterwards, unless destroy  *)
(* did not wait for the end of the shutdown.                                *)
THEOREM DeletedUnused == Spec => []NoUseAfterDelete
<1>1. IndInv => NoUseAfterDelete
  BY DEF IndInv
<1> QED
  BY <1>1, Invariance, PTL

(* When the state is SHUTDOWNED, do_complete_shutdown has deactivated the   *)
(* POAManagers, waited for the requests of the root POA and destroyed it,   *)
(* and shut the communications down, but for the steps that raised an       *)
(* exception and for what came when the thread had passed.                  *)
THEOREM ShutdownComplete == Spec => []ShutdownIsComplete
<1>1. IndInv => ShutdownIsComplete
  BY DEF IndInv, TypeOK, StartOK, ShutOK, ShutdownIsComplete
<1> QED
  BY <1>1, Invariance, PTL

(* run and shutdown(true) do not return from an ORB that runs, however many *)
(* threads call them, unless a wait returns for no reason, and from an ORB  *)
(* that has not become a server only because its listener failed.           *)
THEOREM RunReturnsAtShutdown == Spec => []RunWaits
<1>1. IndInv => RunWaits
  BY DEF IndInv
<1> QED
  BY <1>1, Invariance, PTL

(* An ORB whose destroy has returned is not in st_orb_instances.            *)
THEOREM DestroyedForgotten == Spec => []NoDestroyedInstance
<1>1. IndInv => NoDestroyedInstance
  BY DEF IndInv
<1> QED
  BY <1>1, Invariance, PTL

-----------------------------------------------------------------------------

(* A step of the ORB is a step of ORBPhases, or leaves the phase alone.     *)
LEMMA PhaseStep == IndInv /\ [Next]_vars => [Phases!Next]_phase
<1> SUFFICES ASSUME IndInv, [Next]_vars
             PROVE  [Phases!Next]_phase
  OBVIOUS
<1> USE DEF phase, Hindered, Phases!Next, requests, poaVars, orbVars, endVars, excuses
<1>1. ASSUME NEW t \in Threads, Running(t)
      PROVE  [Phases!Next]_phase
  BY <1>1 DEF Running, Phases!Start
<1>2. ASSUME NEW t \in Threads, Shutdown(t)
      PROVE  [Phases!Next]_phase
  <2>1. shut = "lost" => state = "SHUTDOWNING"
    BY DEF IndInv, ShutOK
  <2> QED  BY <1>2, <2>1 DEF Shutdown, Phases!Stop
<1>3. ASSUME NEW t \in Threads, Teardown(t)
      PROVE  [Phases!Next]_phase
  BY <1>3 DEF Teardown, Phases!Destroy, IndInv, WaitsOK
<1>4. ASSUME Shutdowned
      PROVE  [Phases!Next]_phase
  BY <1>4 DEF Shutdowned, Phases!Complete, Phases!CompleteLate, IndInv, ShutOK
<1>5. ASSUME NEW t \in Threads,
             \/ Begin(t) \/ InitPOA(t) \/ InitCurrent(t) \/ InContext(t) \/ WaitForShutdown(t)
             \/ Timeout(t) \/ EndCall(t) \/ EraseInstance(t) \/ TakeRequest(t)
             \/ CountRequest(t) \/ EndRequest(t)
      PROVE  UNCHANGED phase
  BY <1>5 DEF Begin, InitPOA, InitCurrent, InContext, WaitForShutdown, Timeout, EndCall,
              EraseInstance, TakeRequest, CountRequest, EndRequest
<1>6. ASSUME NEW m \in Managers, CreateManager(m) \/ DeactivateManager(m)
      PROVE  UNCHANGED phase
  BY <1>6 DEF CreateManager, DeactivateManager
<1>7. ASSUME ShutManager
      PROVE  [Phases!Next]_phase
  BY <1>7 DEF ShutManager, Phases!Hinder, IndInv, ShutOK
<1>8. ASSUME WaitRoot \/ ShutRoot \/ ShutComm
      PROVE  UNCHANGED phase
  <2>1. shut # "lost" /\ shut' # "lost" /\ UNCHANGED <<state, destroyed, refused>>
    BY <1>8 DEF WaitRoot, ShutRoot, ShutComm
  <2> QED  BY <2>1
<1>9. CASE UNCHANGED vars
  BY <1>9 DEF vars
<1> QED
  BY <1>1, <1>2, <1>3, <1>4, <1>5, <1>6, <1>7, <1>8, <1>9 DEF Next, Step, ShutdownThread

(* The life cycle implements the safety part of ORBPhases: the phases of an *)
(* ORB only go forward, and destroy overtakes a shutdown only when its wait *)
(* may end early.                                                           *)
THEOREM Refinement == Spec => Phases!Spec
<1>1. Init => Phases!Init
  BY DEF Init, Phases!Init, phase
<1> QED
  BY <1>1, Invariance, PhaseStep, PTL DEF Spec, Phases!Spec
=============================================================================
