# TIDorbC: TLA+ models, model checking and proofs

TIDorbC is a CORBA object request broker in C++. This directory models the
parts of it in which threads, connections and time-outs meet: how a server
dispatches the requests it receives and keeps the objects they use, how a client
thread gets the reply to the request it sent, how client threads share
connections, how the pieces of messages are put together, how requests to a group
of objects travel in datagrams, and how an ORB starts and ends. Paths below are relative to `src/source/TIDorbC/orb/TIDorb/` unless they
start with `TIDThr` or `TIDSocket` (then relative to `src/source/`) or with
`include` (then to `src/source/TIDorbC/orb/`).

| module | what it is |
|---|---|
| `POADispatch` | request queue, thread pool, executing threads and states of a POAManager |
| `POAObjects` | active object map, user counts, activation, deactivation and destruction of a POA, waiting for completion |
| `Invocation` | an invocation over IIOP: request ids, locks, receiving thread, closing, recovery loop |
| `ConnectionCache` | ConnectionManager: opening, sharing, evicting and destroying client connections |
| `Fragments` | FragmentedMessagesRepository, UseTable and the handlers of Connection that put fragments together |
| `Multicast` | oneway requests to an object group over MIOP: packets, the reader's table of collections, the object ids of the group |
| `ORBLife` | ProcessingState, init_POA, run, shutdown, destroy and the ShutdownThread |
| `ORBPhases` | abstract life cycle of an ORB; `ORBLife` implements it |
| `POADispatch_proofs`, `POAObjects_proofs`, `Invocation_proofs`, `ConnectionCache_proofs`, `Fragments_proofs`, `Multicast_proofs`, `ORBLife_proofs` | theorems about the module of that name |
| `Replies_proofs` | theorems about the replies of `Invocation` |
| `MCPOADispatch`, `MCPOAObjects`, `MCInvocation`, `MCConnectionCache`, `MCFragments`, `MCMulticast` | symmetry sets and message sets for TLC |

`PROJECT.json` maps every definition to source lines and lists runs, mutants,
findings, hazards and theorems.

## 1. The system

### Components

| component | state | operations | interacts with |
|---|---|---|---|
| POA request dispatch: `core/poa/RequestQueue.C`, `ThreadPool.C`, `ExecThread.C` | the queue with its order and a deactivation flag; the list of threads and the counters `_used`, `_active`, `_actuallyUsed`; the request in the hands of each thread | `add`, `get`, `setComparator`, `deactivation`; `createNewReader`, `createThread`, `setActive`, `setInactive`, `threadCanDie`, `threadHasDied`, `minThreadsHasChanged`, `maxThreadsHasChanged`; `run`, `checkState`, `execute` | receiving threads put requests in, ExecThreads take them out, the POAManager switches them off |
| POAManager: `core/poa/POAManagerImpl.C`, `POAManagerConf.C` | ACTIVE, HOLDING, DISCARDING, INACTIVE; configuration | `activate`, `hold_requests`, `discard_requests`, `deactivate`, `set_min_threads`, `set_max_threads` | queue, pool, CompletionWaiter |
| Completion of requests: `core/poa/CompletionWaiter.C` | count of requests in progress, a stop flag | `beginRequest`, `endRequest`, `waitForCompletion`, `stopWaiting` | POAs and POAManagers |
| POA and active objects: `core/poa/POAImpl.C`, `ActiveObjectMap.C` | tree of POAs, map of object ids to servants, reference counts of activations | `create_POA`, `destroy`, activation, deactivation, etherealization | ExecThread, servant managers |
| Local invocations: `core/comm/LocalCommLayer.C`, `core/poa/LocalRequest.C` | a request whose caller waits for it | `sendRequest`, bypass to another manager | POA dispatch |
| Invocation over IIOP: `core/comm/IIOPCommLayer.C`, `Connection.C`, `TCPConnection.C`, `ConnectionState.C` | connection state, id counter, socket | `send_request`, `send_locate_request`, `send_oneway_request_sync`, `receive_message`, `close_by_pair`, `close_by_error`, `close_by_manager`, `close` | reply locks, ConnectionManager, the peer |
| Reply locks: `core/comm/LockList.C`, `LockPool.C`, `Lock.C`, `core/util/OperationCompletion.C`, `Counter.C` | active locks by request id, free locks shared by all connections, state and message of a lock | `activate_lock`, `deactivate_lock`, `put_reply`, `destroy`, `wait_for_completion` | invoking and receiving threads |
| ConnectionManager: `core/comm/ConnectionManager.C`, `OpeningLock.C`, `core/util/UseTable.C` | `client_connections`, `ssl_client_connections`, `connections_opening`, the UseTable, `destroyed` | `getClientConnection`, `new_connection`, `closing`, `remove_listen_points`, `destroy` | invoking threads, connections |
| Fragmented messages: `core/comm/FragmentedMessagesRepository.C` | incomplete messages in a UseTable | `put_message`, `add_fragment`, `remove`, `destroy` | receiving threads of all connections, ConnectionManager |
| Heartbeats: `core/comm/HeartbeatThread.C` | a list of connections | `run` | ConnectionManager |
| ORB life cycle: `core/TIDORB.C`, `ProcessingState.C`, `ShutdownThread.C` | CLIENT, RUNNING, SHUTDOWNING, SHUTDOWNED; `destroyed` | `init_POA`, `run`, `shutdown`, `do_complete_shutdown`, `destroy` | all of the above |
| Multicast: `core/comm/MIOPCommLayer.C`, `UDPConnection.C`, `MulticastConnection.C`, `miop/MIOPPacket.C`, `core/goa/GOAImpl.C` | `write_mutex`, the collections in a UseTable, `group_object_ids_table`, `group_references_table` | `oneway_request`, `write_Version_1_1`, `receive_message`, `dispatch_request`, `create_id_for_reference`, `associate_reference_with_id`, `disassociate_reference_with_id`, `deactivate_object` | ConnectionManager, POA dispatch |
| Server listeners, SSL, reliable oneway threads: `core/comm/ServerListener.C`, `SSLConnection.C`, ... | sockets | accept, send | communication layers |
| GIOP, CDR, typecodes, Any, DynAny, policies, ZIOP, security | data | encode, decode, compare | everything |
| TIDThr: `TIDThr/tidthr/tidthr/Monitor.C`, ... | recursive mutexes, conditions, threads, reference counts | `wait`, `notify`, `start`, `_add_ref`, `_remove_ref` | everything |
| TIDSocket | sockets | connect, read, write | communication |

### What is hard

* Dispatch. `add` creates a reader *or* notifies one, using counters that every
  thread updates without a lock; a thread that finds nothing may end; a manager
  is deactivated in three steps while all of this goes on. Correct means: no
  request is lost, served twice or left beside sleeping threads, the pool keeps
  its limits, and INACTIVE is final.
* Invocation. The reply is matched to its thread by a request id and a lock that
  comes from, and goes back to, a pool shared by all connections. Replies come
  after the time-out; ids wrap around; a connection is closed by its receiving
  thread, by a failed write or by the manager; the recovery loop sends a request
  again. Correct means: a thread gets its own reply, a lock has one user, a call
  ends, and a request is not executed twice.
* Connections. The socket is opened outside the monitor while others wait for
  it with a time limit, and everything read before that is old afterwards.
  Correct means: one open connection with a listen point, which is found again;
  a closed one is not found; a pending request is not evicted.
* Objects. A request finds its servant, is counted as a user of it and ends in
  three critical sections, while other threads deactivate the object, destroy the
  POA, or wait for requests to end. Correct means: a servant in use stays, a POA
  with requests in execution is not destroyed, and who waits for the end is woken.
* Fragments. All receiving threads put pieces into one table, under a key of an
  address, which is reused, and an id, which GIOP 1.1 does not send; a full table
  throws messages out. Correct means: what is handed on is what was sent, and
  only the limit loses a message.
* Multicast. Datagrams are lost, duplicated and overtake each other, several
  threads write to one socket, a full table throws collections out, and members
  come and go. Correct means: what is handed on is a whole message, a member gets
  no copy that the network did not make, and it hears what arrived.
* Shutdown. The ShutdownThread takes the server apart while threads run, shut
  down and destroy the ORB, and `destroy` does not wait for ever. Correct means:
  nothing deleted is used, "shut down" means that all work has ended, and every
  call returns.
* Hard and not modelled: the heartbeat thread that walks a map without its
  monitor, local requests that wait for another manager, the tree of POAs.

The ones the project checks, and some it does not, are in `PROJECT.json` under
`hazards`, at their lines.

## 2. How the modules correspond to the code

A section under one monitor is one action; where the code leaves a monitor, or
updates shared state without one, the operation is split. Unsigned counters
wrap at `ULong`, a constant that stands for 2^32.

### POADispatch

`mstate`, `queue`, `comparator`, `queueOff`, `used`, `active`, `actuallyUsed`,
`pool`, `poolOff` are fields of the classes; `pc[t]` is the place of ExecThread
`t` in `run`/`processRequest`, `req[t]` its request.

* `RequestQueue::add` is `PutReject`, or `PutAccept` (push) followed by
  `PutCreate` or `PutNotify` (createNewReader or notify). `adding` keeps the
  queue's monitor in between, because `createNewReader` takes the mutex of the
  pool, which a thread may hold.
* `setActive`, `setInactive` and `threadHasDied` change `_active` and
  `_actuallyUsed` without the lock the others take. They are a load (`regA`,
  `regU`) and a store, so every lost update is a behaviour of the model.
* `deactivate` is `DeactivatePool`, `DeactivateQueue`, `DeactivateState`, in the
  order of the code and with the state monitor held (`deactStep`).
* `set_max_threads` below the number of threads calls `threadHasDied` for
  threads that go on running; `SetMaxThreads` does the same.
* `setComparator` discards the queued requests (`dropped`).
* `execute` is one action; `Bypass` hands the request to another manager.

The order of requests inside the queue is abstracted: `get` takes any of them.

### Invocation

All calls go to one listen point, and `getClientConnection` is one step
(`ReuseConnection`, `OpenConnection`, `ConnectFails`). Then, for a request, a
locate request or a reliable oneway: `VerifyRequest`, `ActivateLock` (next id and
a lock from the pool), `SendMessage` or `SendFails`, `WaitForCompletion`,
`TimeOut`, `IsCompleted`, `DeactivateLock`, then `FinishReply` or
`FinishNoReply`, and for requests `Recover`. `Receive(c)` is the receiving
thread. `Close(c)` is what the thread that moved the state away from OPEN does
next, kept in `closeStep`: take the listen point out of the cache, read the size
of the lock list, set the error, close the socket, destroy the lock list.

* `put_reply` holds the monitor of the LockList, so `ReceiveReply` is one action.
  `is_completed` is read without a lock; the message is stored before the state,
  and `deactivate_lock` needs the monitor, so nothing else can be seen.
* A failed write leaves its lock active: it never returns to the pool.
* A reliable oneway uses id 0, which nobody sets.
* The server is what the client can see of it, taken from the server half of the
  same classes; only the network is external. A request stays in `sent` until its
  ExecThread has found the connection open (`ServerExecute`): if the connection is
  closed before, the request is discarded wherever it is, read, counted and queued or not.
  From then on it executes, and the reply is refused if the connection is
  closed before `verify_reply` (`ServerReply`). A broken network is noticed
  later, so that what was read is still executed (`NetworkBreak`).
* `ServerClose` may come at any time. An eviction looks at `requests_in_POA` first
  (`has_pending_requests`), but the answer may be any: the constructor does not set
  the counter, nothing locks it, it goes up after the request is read and
  down before the reply is written; `ConnectionManager::destroy` does not ask.
* `overtaken` is a history: the calls whose request crossed the end of its wait or of
  its connection. The wait timed out, the server closed the connection while it
  executed the request, or the request was written when the connection was CLOSING.

### ConnectionCache

`CallFound`, `CallWaits`, `CallOpens` and `CallDestroyed` are the first section of
`getClientConnection`; `OpenSucceeds`, `OpenFails`, `OpenThrows` the opening
outside the monitor; `Register`, `RegisterFull`, `OpenFailed` the second section;
`WaitOpened`, `WaitFails`, `EraseOpening` the waiting threads; `CloseBegins`,
`Closing`, `CloseEnds` a connection closed by its own threads; `Destroy` the
manager's. `Victims` is every set of connections `removeOldObjects` may return,
whatever the ages of the entries.

* `requests_invoked` is not initialised (`Garbage` is what it may hold) and is
  updated without a lock: a load and a store per update, which overlap.
* `remove_listen_points` never looks at `ssl_client_connections`, the map of the
  listen points in `SslPoints`.
* An opening may end in COMM_FAILURE, in TRANSIENT or in a connection that closes before it
  is registered, connections close and `destroy` is called at any time. None
  of this can be switched off; `MaxConnections`, `ConnectTimeout` and `SslPoints` are
  the configuration.
* Four histories remember what has gone wrong, for the properties to name:
  `abandoned` (OpeningLocks whose opener left with TRANSIENT), `disturbed`
  (listen points whose opening was erased by a waiter, or whose connection was evicted
  while it was closing), `early` (connections closed before they were registered)
  and `miscounted` (connections whose count began as garbage or lost an update).
* Between the write of a request and `requests_invoked++` (place `inc`) the request is
  not counted yet, and an eviction may close its connection. `EvictionSparesPending` is about
  requests that are counted.

### POAObjects

One POA with RETAIN, created with one of the three ways to find a servant
(`poa.processing`: the map only, a ServantActivator, a default servant). `table` is the
active object map; an element has its servant, its user count and its destroying
flag, and an incarnation number `inc`, which only the properties look at.
`completion` are the two CompletionWaiters.

* A request is `Take` (the ExecThread sees the manager ACTIVE), `Find` (find_servant,
  incarnation included), `AddUser`, `EndInvocation` (the POA's endRequest,
  outside the mutex) and `RemoveUser` (the rest of removeUser, and the manager's
  endRequest), in critical sections of their own, and everything else may
  happen in between.
* `Activate`, `Deactivate`, `Destroy`, `FinishDestroy` are called by application
  threads or by a servant. `Activate` looks at `_destroyed` before the mutex is
  taken, and `FinishActivate` may find the map deleted ("dangling"). An activation
  of an object that is being deactivated sleeps with `recursive_mutex` locked
  (`mutex`), as in the code. `Stuck` names both ends.
* `Uniqueness` says whether the POA may have the UNIQUE_ID or the MULTIPLE_ID policy.
* `ChangeState` and `DeactivateManager` set the stop flag first and wait
  afterwards; `EtherealizeAllObjects` is the end of `deactivate(TRUE, ..)`, after the
  wait or in a thread of its own, while requests execute.
* Two histories name what the code does not protect itself from. `robbed` are
  the incarnations that lost a user to a request that was not counted for them (it
  was found before they were activated, and counted for another incarnation or for none), or
  their place to an etherealization. `late` are the requests that `addUser` counted
  when a `destroy` had already returned from `waitForCompletion`.

### Fragments

`table` is the `UseTable`: a function from `MessageId` to a holder and its age. One
handler of `Connection::manage_message` is one action, because the repository has
one mutex; `put_message` is several, one per iteration of `removeOldObjects`,
with the mutex kept (`putting`), so that its termination can be checked.

* The peer sends the pieces of a message in order, mixed with those of others in
  GIOP 1.2; in GIOP 1.1, whose fragments have no id, not mixed. The peer and the
  receiving thread are one step, because TCP keeps the order.
* `Less` is `MessageId::operator<`. A `std::map` whose comparison contradicts itself
  on its keys is undefined; `Arrange` lets any part of the keys, but not all, be
  unreachable until one key is left, which contains what the library does.
* `life` distinguishes the connections that get the same address. The messages of
  a closed connection stay in the table.
* Ages are set by `append` and `incRound` only, because nobody calls `use`.

### Multicast

One group, one receiving process, one GOA. `oneway_request` is `Send`, up to
`write_mutex`, and a `WritePacket` for each datagram; the exceptions it swallows are
`OpenFails`, `SendRefused`, `WriteBreaks` and `WriteFails`. The reader thread is a
`Receive` per datagram and `Process` for a complete collection. An operation of
`GOAImpl` is one action, under its mutex; `CreateId` includes `join_group`.

* A packet is the request and its number; the header's unique id and number of
  packets are `id` and `parts` of the request.
* A new connection counts its ids from 0 again; `via` tells the connections of a
  client apart, which the receiver cannot.
* `limit`, which never changes, is `max_uncompleted_messages`, any value from 1 to
  `MaxUncompleted`. With 1 a second collection throws out the first; with 2 the
  packets of two requests are collected side by side.
* `multicast` says whether the group has a multicast address. Such connections
  have no listen point, and stay in the manager's maps when they are closed.
* `lost` and `thrown` record what the network and the table's limit took, for
  `Excused`.
* When the server connection is opened a second time, `CreateId` waits until the
  reader of the first has finished `Process`. The code does not; two readers of
  one group at a time are not modelled.

### ORBLife

`state` is `ProcessingState::m_state`; `pc` and `call` are the place of each thread
in an operation of the ORB; `shut` is the ShutdownThread in
`do_complete_shutdown`. `init_POA` is two actions, because `rootPOA` is set before
the state and both are read without the ORB's monitor; the second one may fail, when
the listener of the server cannot start (`deaf`): `rootPOA` stays and the state is
CLIENT for good. `Shutdown` may set SHUTDOWNING and fail to start the thread (`shut`
is "lost"). `commManager` is tested
and used in two steps. A null or deleted object in use ends the behaviour
(`crashed`). `current->in_context()` refuses threads that execute a request.

* `TakeRequest` is the test of the manager's state, `CountRequest` the POA's count of the
  request, later; in between the manager may be deactivated and the root POA
  destroyed. A request that is counted when `WaitRoot` is over, and a POAManager that is
  created during the shutdown, are `late`.
* `ShutManager` (once per manager), `WaitRoot` and `ShutRoot` (the two ends of
  `rootPOA->destroy(false, true)`) and `ShutComm` may raise an exception, which
  `do_complete_shutdown` swallows: `refused` are the managers left without being
  deactivated, `failed` the other steps. `MaxFailures` bounds them.
* `deactivate(TRUE, TRUE)` of a manager does not wait, because it consumes its own
  stop flag (section 4), so `ShutManager` does not either; the wait for requests is
  that of `rootPOA->destroy(false, true)`.
* The waits of `ProcessingState` are not in a loop. With `Spurious` they may return without
  a notification; `woken` are the threads to which this has happened.
* `Hindered`: nobody completes the shutdown when its thread did not start, and
  it may wait for ever when the root POA's manager went on being ACTIVE.
* `Apart` names the overlaps the code does not protect itself from: `init_POA`
  with anything but itself, `destroy` with anything but `run`, and changes to the
  list of POAManagers while the ShutdownThread walks it.
* Servants do not call `run`: a servant that did would wait for a shutdown that
  waits for it. Interrupted waits are not modelled.

`ORBPhases` is what this promises: CLIENT, RUNNING, SHUTDOWNING, SHUTDOWNED,
DESTROYED, forward only, a shutdown that has begun completes unless it becomes
HINDERED, and `destroy` does not overtake it unless its wait may end early. The
mapping is `phase`.

## 3. Runs

| run | instance | shows |
|---|---|---|
| `dispatch` | 2 requests, 2 threads, min 0, max 1, then set_min_threads(1), set_max_threads(2), no queue beside the threads, fair | `TypeOK`, `OnePlace`, `NoStranded`, `InactiveIsFinal`, `EveryRequestSettled`: a manager that ends up ACTIVE settles what it was sent |
| `dispatch_starving` | 2 requests, 3 threads, min 1, max 2, starving time, failing starts, two queue orders | `PoolInv` |
| `objects` | 2 requests, 2 ids, 2 servants, 2 incarnations, 1 application thread, all policies | `TypeOK`, `UsersAreCounted`, `ServantKept`, `DestroyedIdle`, `CompletionCovers` |
| `objects_live` | 2 requests, 1 id, 1 servant, 1 incarnation, 1 application thread, all ways to find a servant, fair | `DeactivationEnds`, `DestroyEnds` |
| `invoke` | a request without and a locate request with a time limit, 2 connections, 3 locks, 2 attempts, closed by the server at any time | `ReplyIsMine`, `LockDiscipline`, `AtMostOnce` |
| `invoke_close` | a request with a time limit, 1 connection, 2 locks, 2 attempts, closed by the server, by the manager or by the network, addressing, ids that wrap at 3, fair | `TypeOK`, `NoInternalError`, `EveryCallEnds` |
| `cache` | 2 threads, 2 calls each, a plain and an SSL listen point, 2 connections, a table of 1, a connect timeout, garbage in the counts | `TypeOK`, `CacheIsFresh`, `Findable`, `OpenerUnlocks`, `EvictionSparesPending` |
| `cache_live` | the same with 1 call each, fair | `EveryCallReturns` |
| `orb_life` | 2 threads, one of a servant, 2 POAManagers, time limit, spurious wakeups, 1 step of the shutdown that fails, fair | `TypeOK`, `NoUseAfterDelete`, `ShutdownIsComplete`, `NoDestroyedInstance`, `RunWaits`, `CallsReturn`, `ImplementsPhases` |
| `fragments` | 6 messages of both GIOP versions, 2 addresses with 2 lives, a table of 2, rounds that wrap at 4, fair | `TypeOK`, `Whole`, `NotLost`, `PutReturns` |
| `multicast` | 1 client, 2 requests of up to 2 packets, 2 members, tables of 1 and of 2, 1 duplicate, 1 failure of a socket, any loss, fair | `TypeOK`, `Whole`, `NoExtraCopies`, `EveryMessageHeard` |
| `fragments_v_order` | 2 messages of 3 pieces whose keys contradict each other | violated: `Whole` |

**Bounds.** `Requests`, `Threads`, `Conns`, `Locks`, `OpeningLocks`, `Oids`, `Messages`
are objects that may be created; `MaxCalls` bounds the calls per thread in
`ConnectionCache`, `MaxIncarnations` the activations in `POAObjects`, `MaxLives` the
connections with one address; `ULong` and `IntMax` stand for 2^32 and INT_MAX.
Dispatch needs two requests to have one queued while another is executed, and a
maximum of 1 without extra queue to have `add` refuse; `dispatch_starving` has
three threads so that one ends, one waits and one is created. Objects need two requests
for the count of one to be seen by the other, and two incarnations, so that a
request found for the first of an id ends on the second; `objects_live`, which checks
liveness, has one. Invocation needs
two calls for a lock or a reply to change hands, two connections for one retry
(`invoke`), and ids that wrap within the run (`invoke_close`: 3 values, for a request
sent in two addressing rounds). Two calls on a connection that the manager closes
or the network breaks are more states than TLC gets through; for them there are the theorems
`LocksAreExclusive`, `RepliesAreMine`, `NeverInternal` and `ExecutedOnce`. The cache needs an opener and a
waiter, a second call for a latecomer that finds what the first calls left, and two
listen points with a table of one for an eviction; four values of the count
suffice for garbage that hides the one request a thread has. Fragments need three
messages at once to fill the table of two, an address that is reused while an
old message is in the table, and `IntMax` = 4, the least the ages allow, so that the
rounds wrap during an eviction. Multicast needs two requests for one to
meet the collection of the other, two packets for loss and reordering, a table of one for an eviction
and a table of two for two collections that grow side by side, one duplicate to be counted twice, and one failure for a connection that counts
ids from 0 again. The ORB needs a thread that waits in `run` and one that shuts down and destroys,
against the ShutdownThread, one of them with a request, a manager besides the root POA's, and
one step that fails. In the safety runs a state in which no free object is left merely
stops; `invoke_close`, which checks
liveness, has the locks one call can use with `MaxRecover` = 2 attempts, and one
connection: there a second attempt either uses the same connection or fails to
connect. A second attempt on a new connection is in `invoke`, which checks safety only.
Deadlock is not checked, except in `multicast`, because clients stop calling and
threads may rightly sleep for ever.

**Fairness.** Every thread of the process that can step does so in the end (weak
fairness of `ThreadStep(t)`, `CallStep(k)`, `Receive(c)`, `Close(c)`, `Put(m)`, `Writer(m)`,
`Reader`, the steps
of a thread in an operation of a POA or of the ORB, and the ShutdownThread), a
caller inside `add` or `deactivate` goes on, and timed waits end: this is what the
operating system's scheduler gives. Nothing is assumed of the clients, the
application, the server, the network (it may lose every datagram), the peers that send fragments or the choice of the manager to
close. Servants are assumed to end their invocations, as is opening a socket and
waiting for a reply in ConnectionCache; `Invocation` shows the latter for calls with
a time limit. In `ORBLife` the end of a request is strongly fair, because the thread
may be in a call of the ORB again and again meanwhile.

**Circumstances.** Several properties hold under conditions which constants or histories
name, and the conditions are part of the statement. An excuse is there only where TLC finds
the property violated without it:

* `NoStranded` needs threads that do not time out and starts that do not fail;
* `AtMostOnce` excuses the calls in `overtaken`: the recovery loop repeats a request whose
  connection the server closed while executing it, as CORBA's at-most-once is
  not kept by a retry after CloseConnection with requests in progress (the other two
  reasons to be in `overtaken` matter with `ManagerCloses` and with requests in `Timed`,
  which `invoke` does not have and the theorem `ExecutedOnce` covers). What it
  promises is that whoever finds its connection CLOSING has read all replies,
  and that a connection in ERROR ends the invocation;
* `ReplyIsMine` and `NoInternalError` need no two reliable oneways on a connection, and ids that do
  not come round while an old request is under way;
* `EveryCallEnds` is about calls with a time limit (`Timed`), `EveryCallReturns` needs a connect timeout;
* `OpenerUnlocks` excuses locks that are `abandoned`, `Findable` listen points that are
  `disturbed`; `CacheIsFresh` excuses connections closed `early`, and is about plain
  listen points and a manager that is not destroyed;
* `EvictionSparesPending` is about connections that are not `miscounted`, and a thread that has
  counted its request;
* `UsersAreCounted` and `ServantKept` excuse the incarnations in `robbed`, `ServantKept` and
  `DestroyedIdle` the requests in `late`; a request that found no active object (a default servant,
  or one that has left the map since) is not counted for any;
* `DeactivationEnds` and `DestroyEnds` end in `Stuck` when an activation sleeps
  with the mutex or uses the deleted map; `DestroyEnds` needs one thread at a time that
  waits in `destroy`;
* `Whole` and `NotLost` need keys on which `MessageId::operator<` is an order;
  `FullIsUnreachable` needs `max_uncompleted_messages` > 0;
* `EveryMessageHeard` excuses what MIOP does not promise (`Excused`) and needs an open
  server connection; all of `Multicast` needs `max_uncompleted_messages` > 0;
* `NoUseAfterDelete` and `ShutdownIsComplete` need a `destroy` that waits to the end, without
  running out of `max_time_in_shutdown` or a spurious wakeup (`gaveUp`);
  what `ShutdownIsComplete` finds left is `late`, or the step that should have dealt with it is in
  `refused` or `failed`; `RunWaits` excuses threads in `woken`, and an ORB that is
  `deaf`; `CallsReturn` and the liveness of `ORBPhases` excuse a shutdown that is `Hindered`; and `orb_life`
  as a whole needs the calls to be apart (`Apart`).

## 4. Deviations met while modelling

One has a run of its own (`findings` in `PROJECT.json`):

* `fragments_v_order`: `MessageId::operator<`
  (`include/TIDorb/core/comm/FragmentedMessagesRepository.h:56`) compares the
  connections also when the first request id is the greater one. Each of (c1, id 2)
  and (c2, id 1) is less than the other if the address c1 is less than c2. The message that was
  put second is not found while the first is there, and is found again
  afterwards: its fragments are dropped in between, and it is handed on
  without them. A compiled `std::map` with this comparison does exactly that.

The others can be seen by changing constants of a run, by adding the property
named, or by taking an excuse out of a property; the models contain the behaviour.

| where | what | seen as |
|---|---|---|
| `core/poa/POAManagerImpl.C:379` | `deactivate` sets INACTIVE without `notifyAll`: a thread that waits in `checkState` during HOLDING sleeps for ever, although `ExecThread.h:83` says "wait until state is diferent from HOLDING" | `pc[t] = "hold" => mstate = "HOLDING"` in `dispatch` |
| `ExecThread.C:823` | a request queued between the NULL of `get` and `threadCanDie` is left without a thread | `NoStranded` with `StarvingTime = 1`, `MinThreads = 0`, `MaxThreads = 1` |
| `ThreadPool.C:124` | a failed start counts as a created reader, and nobody is notified | `NoStranded` with `StartMayFail = TRUE`, `MinThreads = 1` |
| `ThreadPool.C:224` | set_max_threads counts running threads as dead, twice | `PoolInv` with `MaxThreadsChoices = {1}`, `MaxThreads = 2` |
| `ThreadPool.C:190` | `threadCanDie` reads a count that other dying threads have not changed yet: fewer than the minimum remain | `Cardinality(Live) >= minThreads` with `StarvingTime = 1` |
| `ExecThread.C:818` | a thread without a first request calls `setActive` once per starving period | `active <= Cardinality(Live)` with `StarvingTime = 1` |
| `RequestQueue.C:229` | a change of the queue order drops the queued requests without an answer | `dropped = {}` with two `Comparators` |
| `POAManagerImpl.C:294`, `CompletionWaiter.C:91` | `hold_requests(TRUE)`, `discard_requests(TRUE)` and `deactivate(.., TRUE)` set the stop flag just before they wait and consume it themselves: they return while requests execute, although `CompletionWaiter.h:86` says "Waits until there are no active requests." | `objects`: a step from `"draining"` to `"idle"` with `completion["manager"].requests # 0` |
| `POAImpl.C:410` | an activation that waits for a deactivation holds `recursive_mutex`, which the deactivation needs, and waits on an object that `trueRemoveObject` (`:324`) does not notify: the POA stops | `DeactivationEnds`, `DestroyEnds` without `Stuck` |
| `POAImpl.C:392` | an activation looks at `_destroyed` before it locks, and may use the active object map that the destruction deletes | a place `"dangling"` |
| `ExecThread.C:388` | the object found by find_servant may be deactivated and activated anew before `addUser` counts the request; one that is counted for nothing takes a user away when it ends | `UsersAreCounted`, `ServantKept` without `robbed` |
| `POAImpl.C:775` | etherealization empties the map while counted requests use its servants | `ServantKept` without `robbed` |
| `POAImpl.C:963` | a request found after `waitForCompletion` and before `trueDestroy` (`:973`) executes in the destroyed POA | `DestroyedIdle`, `ServantKept` without `late` |
| `ExecThread.C:389` | a request found before the destruction uses a null `_POAManager` in `addUser` | a place `"crashed"` |
| `CompletionWaiter.C:78` | the last request wakes one waiter: of two threads in `destroy(.., TRUE)` one sleeps on | `DestroyEnds` with two `Destroyers` |
| `POAImpl.C:752` | once the POA is being destroyed `removeUser` no longer counts users down, and a request that ends after the destruction leaves the manager's count too high | the second part of `UsersAreCounted` and of `CompletionCovers` without their conditions |
| `LockList.C:134` | `destroy` notifies locks without completing them: a thread between write and wait is not woken | a thread `"waiting"` on a connection with `closeStep = "done"`; for ever if the call is not in `Timed` |
| `LockList.C:142` | `destroy` waits while `size() < 0`, that is never | `Active(c) # {}` with `closeStep[c] = "done"` |
| `Connection.C:1667`, `:1989` | the server's eviction takes a connection for idle whose request is read and not counted, or whose reply is not written; the client sends the request again | `AtMostOnce` without `overtaken` |
| `Connection.C:1233` | every reliable oneway uses the id 0; a second one on the connection ends in INTERNAL while the first waits, although `Connection.h:153` says "The ids will be given sequentialy." | `NoInternalError` with two `Oneways` |
| `IIOPCommLayer.C:206` | `max_comm_recovering_times` = n gives n attempts, not n retries | action `Recover` |
| `ConnectionManager.C:265` | a connection whose opening overlaps `destroy` is registered afterwards and never closed, although `:548` says "Close all connections" | `destroyed => \A c \in table : cstate[c] # "OPEN"` in `cache` |
| `ConnectionManager.C:255`, `:267` | TRANSIENT of an opener, or of a full table, leaves the OpeningLock behind; the time-out of the waiters repairs it | `OpenerUnlocks` without `abandoned` |
| `ConnectionManager.C:249` | a waiter erases the OpeningLock of an opener still at work, or of a later one | `Findable` without `disturbed` |
| `ConnectionManager.C:270` | a connection closed before its registration stays in the cache | `CacheIsFresh` without `early` |
| `ConnectionManager.C:481` | closed SSL connections stay in the cache | `CacheIsFresh` for `SslPoints` |
| `ConnectionManager.C:482` | the late end of a connection removes its successor | `Findable` without `disturbed` |
| `ConnectionManager.C:284` | a plain `Connection*` leaves the monitor; a reference is taken later | reference counts are not modelled |
| `Connection.C:52`, `:1489` | `requests_invoked` is not initialised and loses updates | `EvictionSparesPending` without `miscounted` |
| `Connection.C:1489` | a request that is sent is counted in `requests_invoked` only afterwards | `EvictionSparesPending` with `"inc"` beside `"invoked"` |
| `UseTable.h:343` | nobody calls `use` for messages: all ages are equal, and when the table fills all incomplete messages of all connections are thrown out | `evicted` in `fragments` |
| `FragmentedMessagesRepository.C:81` | `max_uncompleted_messages` = 0 is accepted, and then every fragmented message ends in the "unreachable" exception | `FullIsUnreachable` with `MaxUncompleted = 0` |
| `Connection.C:856`, `:903` | fragmented LocateRequest and LocateReply are refused in GIOP 1.2 too, where the error text says 1.1 | action `ManageLocate` |
| `Connection.C:932` | the id of a GIOP 1.1 Request is not read yet and is 0: the test for a fragment that is missing never succeeds | `current` is 0 in every SERVER connection (`CurrentOK`) |
| `FragmentedMessagesRepository.C:148` | `destroyed` is never set, and the messages of a closed connection are never removed | actions `Destroy`, `Close` |
| `UDPConnection.C:1067` | the unique id of a message is the request id alone (`:1064` "TODO: add timestamp or MAC address"), which every connection counts from 0: packets of different clients fall into one collection | `Whole` of `Multicast` without `SameConnection` |
| `UDPConnection.C:626` | the place of a packet is read before its number of packets is compared with that of the collection, so that the read may be out of range | `Insert` only has the case that nothing follows from it |
| `MulticastConnection.C` | a closed multicast connection has no listen point and stays in `client_connections` and `miop_connections`: later oneways to the group are dropped silently, and `join_group` does not open the group again | `SendRefused`; `joined` with `sstate = "ERROR"` |
| `UDPConnection.C:651` | nobody calls `use` for collections: a full table throws out all of them | `thrown` in `multicast` |
| `UDPConnection.C:441` | `dispatch_request` goes on with a null `root_GOA` when `init_POA` fails | not modelled |
| `GOAImpl.C:247` | `deactivate_object` leaves ids that were associated explicitly, and nothing is ever removed from `group_references_table`, also when `join_group` fails | `Deactivate`, `CreateIdFails` |
| `TIDORB.C:1186` | `rootPOA` is visible before the state is RUNNING: `run` called in between returns at once | `RunWaits` without the second conjunct of `Apart` |
| `TIDORB.C:1189` | the listener's exception leaves `rootPOA` set and the state at CLIENT: `run` returns at once, and `init_POA` does not try again | `RunWaits` without `deaf` |
| `ProcessingState.C:60` | the start of the ShutdownThread may fail when the state is SHUTDOWNING already: nobody ends the shutdown | `CallsReturn` without `Hindered` |
| `ProcessingState.C:80` | the waits are not in a loop: a spurious wakeup ends `run` | `RunWaits` without `woken` |
| `TIDORB.C:741`, `:747`, `:754`, `:760` | exceptions of the steps of a shutdown are swallowed, and it is announced as complete | `ShutdownIsComplete` without `refused` and `failed` |
| `ExecThread.C:389` | a request that was taken while the manager was active is counted when the root POA's wait is over, and executes after the shutdown | `ShutdownIsComplete` without `late` |
| `TIDORB.C:741` | `POAManagers` has no lock; the ShutdownThread walks it | excluded by `DeactivateManager` and `CreateManager` |
| `ExecThread.C:254` | a local request that is handed to another manager waits once for its state | not modelled |
| `ProcessingState.C:80` | after `max_time_in_shutdown` `destroy` deletes what the ShutdownThread uses | `crashed` with `gaveUp` in `orb_life` |
| `POAImpl.C:950` | `destroy` walks `_children` by index while each child removes itself: every second child is skipped | not modelled |
| `POAImpl.C:317` | SINGLE_THREAD_MODEL: two mutexes taken in both orders | not modelled |

## 5. Proofs

TLAPS proves, for every value of the constants that satisfies the named
assumptions of the modules:

* `POADispatch_proofs!TypeCorrect`: `Spec => []TypeOK`. Inductive with
  `ReqMatchesPc` (a thread has a request exactly where its place says so).
* `POADispatch_proofs!EveryRequestInOnePlace`: `Spec => []OnePlace`. `OnePlace`
  names every place a request can be in, and is inductive with the types.
* `POADispatch_proofs!NoStrandedRequests`: `Spec => []NoStranded` when
  `StarvingTime = 0`, `StartMayFail = FALSE`, there is one comparator and
  set_max_threads(0) is never called. `NoStranded` alone is not inductive: a thread may
  wait, or a notification be spent, in a state in which nothing is queued yet. `ReaderInv` adds that until the
  queue is off (a) a pool with threads has one that is not leaving, (b) with an
  empty queue not all of these have been woken for nothing, and (c) a pool
  without threads has its counters at 0, so that `add` creates a reader. Lost
  updates of the counters do no harm, because (a) and (b) say nothing about them.
* `POADispatch_proofs!InactiveStaysInactive`: `Spec => InactiveIsFinal`, from
  `ClosedBeforeInactive` (the queue is off before the state says INACTIVE).
* `POADispatch_proofs!PoolCountsItsThreads`: `Spec => []PoolInv`, that is
  `UsedCountsThreads` and `ThreadLimit`, which need each other because
  `createNewReader` compares `_used`; when `MinThreads <= MaxThreads` and
  set_max_threads never shrinks the pool below the number of threads.
* `Invocation_proofs!TypeCorrect`: `Spec => []TypeOK`.
* `Invocation_proofs!LocksAreExclusive`: `Spec => []LockDiscipline` for any
  number of calls, connections and locks, any time limit and any way to close.
  `LockInv` adds `Connected` (a call with a lock has a connection) and
  `Uncreated` (an object that does not exist yet is nowhere), without which a new
  lock could be one that is in use.
* `Replies_proofs!RepliesAreMine` (`ReplyIsMine`) and `NeverInternal`
  (`NoInternalError`) for any number of calls, connections and locks, any time
  limit, any way to close and any network; without reliable oneways, and as
  long as no connection has given out all its ids: the theorems are about
  `Spec /\ []IdsLast`, where `IdsLast` says `idCount[c] < ULong - 2`. Neither
  property is inductive, because it says nothing of replies under way.
  `ReplyInv` adds that ids in use have been given out and belong to one call
  (`IssuedIds`, `IdIsCall`), that a lock holds nothing or the answer to its user
  (`LockMessages`), and what the thread may have taken from it (`Consumed`).
  TLC finds both violated with a oneway among the calls, and with ids that
  wrap at 3 while an old reply is under way (`invoke`, one connection).
* `Replies_proofs!ExecutedOnce`: `Spec /\ []IdsLast => []AtMostOnce`, without reliable
  oneways, and with nothing assumed about who closes connections.
  `Channels` says what a connection that is closing or closed still carries;
  `OnceInv` says, for each call that is not `overtaken`, that it is
  unsent, or sent once and in one place (the socket, the server, the way back,
  its lock), or that it may go again because nothing was executed.
* `POAObjects_proofs`, for all constants: `TypeCorrect` and `WaitersCover`
  (`CompletionCovers`), so that no count goes below 0, and `UsersCounted`
  (`UsersAreCounted`), `ServantStays` (`ServantKept`) and `DestroyWaits`
  (`DestroyedIdle`). The last three need each other: a servant stays because
  its users are counted, the users are counted because it stays, and both
  because the POA is not destroyed. `ObjectInv` joins them with the incarnations
  of the elements of the map (`IncOK`: each was given once), what a request
  has been counted for (`UseOK`), and what may execute once a `destroy` has waited (`DestroyOK`).
* `ConnectionCache_proofs`, for all constants and with every failure, time-out, close,
  eviction and `destroy` at any time:
  * `TypeCorrect`, lost updates of `requests_invoked` included.
  * `OpenersAreThere` (`OpenerUnlocks`). `LockInv` adds that each opener has a lock of
    its own (`OwnLocksOK`), and that a lock is served by its opener or abandoned (`LocksServed`).
  * `OpenIsFound` (`Findable`). `FindInv` adds that a listen point that is not disturbed has
    one opener, whose lock is in `connections_opening` (`OpeningOK`), and
    that the connection in its hands is nowhere else (`NewConnsOK`,
    `UnregisteredOK`), to the contents of the table (`TableOK`).
  * `ClosedIsForgotten` (`CacheIsFresh`). `FreshInv` says what of a connection is registered
    while it closes (`ReadyOK`, `CachedOK`).
  * `PendingAreSpared` (`EvictionSparesPending`, an action property), if there are
    fewer threads than values of an unsigned long. The count of a connection that is not
    `miscounted` is the number of threads that wait (`CountOK`), which needs that each of them
    has the connection (`OwnOK`).

* `Fragments_proofs`: `TypeCorrect`, `MessagesAreWhole` (`Spec => []Whole`),
  `OnlyTheLimitLoses` (`Spec => []NotLost`) and `FullNeverHappens`
  (`Spec => []FullIsUnreachable`, which has no run), for any peers, addresses, lives, table size and INT_MAX, assuming
  `KeysOrdered`: `MessageId::operator<` does not contradict itself on the keys in use. `Whole` says
  nothing of messages under way. `IndInv` adds that every entry of the table is
  a message in progress with exactly the pieces that have come (`TableOK`), that
  nothing else is under the key of a message of a live connection (`EntryOK`,
  which the reuse of addresses needs), that `current_request_id` is
  the key of the one GIOP 1.1 message in progress (`CurrentOK`), and that a
  message being put has room once the loop has ended (`PuttingOK`).
* `Multicast_proofs`: `TypeCorrect`, `MessagesAreWhole` (`Spec => []Whole`) and
  `NoCopiesAreMade` (`Spec => []NoExtraCopies`), for any clients, requests, packets,
  members, table size and faults. `IndInv` adds that a collection has
  counted exactly the chunks it holds, each where its header says (`TableOK`), that
  only written packets travel (`SentOK`), that a connection gives no id twice
  (`IdsOK`), and that an id is associated once (`MembersOK`). `Whole` alone is not
  inductive because it says nothing of collections that are incomplete.
* `ORBLife_proofs`: `TypeCorrect`, `DeletedUnused` (`NoUseAfterDelete`),
  `ShutdownComplete` (`ShutdownIsComplete`), `RunReturnsAtShutdown` (`RunWaits`),
  `DestroyedForgotten` (`NoDestroyedInstance`), for any threads, servants, managers and time limit.
  `IndInv` adds where threads may be in each state of the ORB
  (`PlacesOK`, `ApartOK`, `WaitsOK`), what has been set up when it runs (`StartOK`), and what the
  ShutdownThread has done, or has failed to do, when it gets to each of its steps (`ShutOK`).
* `ORBLife_proofs!Refinement`: `Spec => Phases!Spec`, the safety of
  `ImplementsPhases`, from the same invariant: every step is a step of `ORBPhases`
  or leaves the phase alone. Its liveness is model-checked.

The constants are constrained by named assumptions of the modules, which say
that sets of ids are disjoint, numbers are numbers and `NULL` is not
one of the values it is told apart from (`NullAssumption`).

Only model-checked: all liveness (`EveryRequestSettled`, `EveryCallEnds`,
`EveryCallReturns`, `DeactivationEnds`, `DestroyEnds`, `CallsReturn`, `PutReturns`,
`EveryMessageHeard`, and that of `ORBPhases`), because fairness and ENABLED are
beyond the prover. Every safety invariant and action property of the runs
is a theorem; `Whole` of `fragments_v_order`, which is violated, needs the keys
that its theorem excludes.

## 6. Not modelled, and why

Data representation (CDR, GIOP encoding, typecodes, Any, DynAny), policies,
security, compression, generated headers, sockets and SSL handshakes have no
control of their own beyond what the modules use; they are most of the
repository's lines. TIDThr is taken as it is used: a section under a monitor is
atomic, `wait` lets the monitor go, `notify` wakes one. Location forwarding,
asynchronous oneways, bidirectional connections, heartbeats and service contexts
are left out of `Invocation`; server connections and reference
counts out of `ConnectionCache`; packets with bad headers, compressed messages,
several groups or GOAs and requests with a reply out of `Multicast`; the tree of POAs, NON_RETAIN, SINGLE_THREAD_MODEL
and object references out of `POAObjects`; local requests out of `POADispatch`;
the initialisation of the ORB and its services out of `ORBLife`. This ORB never
sends fragments, so that `Fragments` is about receiving. `PROJECT.json` lists every
component with its status.

## 7. Plan

What is left, in this order:

1. An abstract dispatcher (every request is settled at most once) implemented by
   `POADispatch`.
2. Local requests that cross POAManagers (`checkForeingState`), heartbeats,
   reference counts of connections.
3. Recursive monitors of TIDThr against an abstract monitor (refinement).
4. Pure algorithms: the comparators of the queue, CDR alignment.
