----------------------------- MODULE Multicast -----------------------------
(***************************************************************************)
(* Oneway requests to an object group over MIOP.  A client cuts a request  *)
(* into packets, one UDP datagram each, under the write mutex of its       *)
(* UDPConnection.  Datagrams are lost, duplicated and overtake each other. *)
(* The reader thread of the member's server connection collects packets in *)
(* a UseTable from UniqueId to MIOPPacketCollection, and hands a complete  *)
(* collection to every object id that the Group Object Adapter associates  *)
(* with the group.                                                         *)
(*                                                                         *)
(* There is one group and one receiving process with one GOA.  The         *)
(* oneway_request of MIOPCommLayer is Send, up to the write mutex, and a   *)
(* WritePacket for each datagram; the reader does a Receive for each       *)
(* datagram and Process for a completed collection; an operation of        *)
(* GOAImpl is one action, under its mutex.                                 *)
(***************************************************************************)
EXTENDS Integers, Sequences, FiniteSets

CONSTANTS
  Clients,        \* the ORBs that send to the group
  Messages,       \* the oneway requests they send
  Sender,         \* the client of a request
  MaxParts,       \* bound: chunks a request is marshalled into
  Members,        \* object ids, as numbers
  Generated,      \* ... those that create_id_for_reference makes
  MaxUncompleted, \* bound: max_uncompleted_messages
  MaxDuplicates,  \* bound: datagrams the network may duplicate
  MaxBreaks,      \* bound: failures of sockets
  NULL

\* Packet number p[2] of the request p[1].  Its header carries id[p[1]] as
\* unique_id and parts[p[1]] as number_of_packets.
Packets == Messages \X (0..(MaxParts - 1))

\* With max_uncompleted_messages = 0, which ConfORB accepts, the first packet
\* raises FullUseTableException and closes the server connection.
ASSUME GroupAssumption ==
  /\ Sender \in [Messages -> Clients]
  /\ MaxParts \in Nat \ {0}
  /\ Members \subseteq Nat /\ Generated \subseteq Members
  /\ MaxUncompleted \in Nat \ {0}
  /\ MaxDuplicates \in Nat /\ MaxBreaks \in Nat
  /\ NULL \notin Messages /\ NULL \notin Nat /\ NULL \notin Packets

VARIABLES
  pc,          \* of the thread that sends the request
  via,         \* which connection of its client the request goes by
  id,          \* its request id
  parts,       \* how many chunks it was marshalled into
  next,        \* the packet it writes next
  opened,      \* how many connections to the group a client has opened
  cstate,      \* ConnectionState of the last one; "none" if there is none
  idCount,     \* its id_count
  writer,      \* who holds its write_mutex
  net,         \* copies of a packet on their way
  arrived,     \* copies of it the reader has read
  lost,        \* requests of which the network has dropped a datagram
  duplicates,  \* datagrams duplicated so far
  breaks,      \* failures of sockets so far
  sstate,      \* ConnectionState of the server connection
  joined,      \* is it in miop_connections
  collections, \* its table: UniqueId -> MIOPPacketCollection
  completed,   \* unique_id of the collection the reader processes
  thrown,      \* requests of which the server has thrown out chunks
  multicast,   \* has the group a multicast address; never changes
  limit,       \* max_uncompleted_messages; never changes
  ids,         \* group_object_ids_table[group]
  references,  \* the keys of group_references_table
  heard        \* how often a packet has been handed to a member

clientVars == <<pc, via, id, parts, next, opened, cstate, idCount, writer>>
netVars    == <<net, arrived, lost, duplicates>>
serverVars == <<sstate, joined, collections, completed, thrown>>
groupVars  == <<multicast, limit, ids, references>>
vars == <<clientVars, netVars, breaks, serverVars, groupVars, heard>>

\* MIOPPacketCollection
IsCollection(c) ==
  /\ c \in [number : Nat \ {0}, inserted : Nat, chunks : [0..(c.number - 1) -> Packets \cup {NULL}]]
  /\ c.inserted <= c.number

\* The types.  The packet that is written next stays in range and the reader
\* never counts more chunks than a collection has places for.
TypeOK ==
  /\ pc \in [Messages -> {"idle", "writing", "sent", "failed"}]
  /\ via \in [Messages -> Nat]
  /\ id \in [Messages -> Nat \cup {NULL}]
  /\ parts \in [Messages -> 0..MaxParts]
  /\ next \in [Messages -> Nat]
  /\ \A m \in Messages : next[m] <= parts[m] /\ (pc[m] = "writing" => next[m] < parts[m])
  /\ opened \in [Clients -> Nat]
  /\ cstate \in [Clients -> {"none", "OPEN", "ERROR"}]
  /\ idCount \in [Clients -> Nat]
  /\ writer \in [Clients -> Messages \cup {NULL}]
  /\ net \in [Packets -> Nat] /\ arrived \in [Packets -> Nat]
  /\ lost \subseteq Messages
  /\ duplicates \in 0..MaxDuplicates /\ breaks \in 0..MaxBreaks
  /\ sstate \in {"none", "OPEN", "ERROR"}
  /\ joined \in BOOLEAN
  /\ DOMAIN collections \subseteq Nat
  /\ \A u \in DOMAIN collections : IsCollection(collections[u])
  /\ completed \in DOMAIN collections \cup {NULL}
  /\ thrown \subseteq Messages
  /\ multicast \in BOOLEAN
  /\ limit \in 1..MaxUncompleted
  /\ ids \in Seq(Members)
  /\ references \subseteq Generated
  /\ heard \in [Members -> [Packets -> Nat]]

NoCollections == [u \in {} |-> NULL]

Init ==
  /\ pc = [m \in Messages |-> "idle"]
  /\ via = [m \in Messages |-> 0]
  /\ id = [m \in Messages |-> NULL]
  /\ parts = [m \in Messages |-> 0]
  /\ next = [m \in Messages |-> 0]
  /\ opened = [c \in Clients |-> 0]
  /\ cstate = [c \in Clients |-> "none"]
  /\ idCount = [c \in Clients |-> 0]
  /\ writer = [c \in Clients |-> NULL]
  /\ net = [p \in Packets |-> 0]
  /\ arrived = [p \in Packets |-> 0]
  /\ lost = {}
  /\ duplicates = 0 /\ breaks = 0
  /\ sstate = "none"
  /\ joined = FALSE
  /\ collections = NoCollections
  /\ completed = NULL
  /\ thrown = {}
  /\ multicast \in BOOLEAN
  /\ limit \in 1..MaxUncompleted
  /\ ids = <<>>
  /\ references = {}
  /\ heard = [o \in Members |-> [p \in Packets |-> 0]]

-----------------------------------------------------------------------------
(* The client: MIOPCommLayer::oneway_request *)

\* getMIOPClientConnection finds a connection in client_connections.  One to a
\* multicast address has no listen point (only UDPConnection::client_connection
\* calls add_listen_point), so that remove_listen_points leaves it in the map
\* when it is closed.
InClientConnections(c) ==
  IF multicast THEN cstate[c] # "none" ELSE cstate[c] = "OPEN"

\* getMIOPClientConnection opens a connection that counts its ids from 0, or
\* finds one that verify_request accepts; generateId; insert_request marshals
Send(m) ==
  LET c == Sender[m]
      found == InClientConnections(c)
      count == IF found THEN idCount[c] ELSE 0
  IN /\ pc[m] = "idle"
     /\ found => cstate[c] = "OPEN"
     /\ opened' = IF found THEN opened ELSE [opened EXCEPT ![c] = @ + 1]
     /\ cstate' = [cstate EXCEPT ![c] = "OPEN"]
     /\ writer' = IF found THEN writer ELSE [writer EXCEPT ![c] = NULL]
     /\ idCount' = [idCount EXCEPT ![c] = count + 1]
     /\ id' = [id EXCEPT ![m] = count]
     /\ via' = [via EXCEPT ![m] = opened'[c]]
     /\ \E n \in 1..MaxParts : parts' = [parts EXCEPT ![m] = n]
     /\ pc' = [pc EXCEPT ![m] = "writing"]
     /\ UNCHANGED <<next, netVars, breaks, serverVars, groupVars, heard>>

\* client_connection throws COMM_FAILURE, which oneway_request swallows
OpenFails(m) ==
  /\ pc[m] = "idle" /\ ~InClientConnections(Sender[m])
  /\ breaks < MaxBreaks /\ breaks' = breaks + 1
  /\ pc' = [pc EXCEPT ![m] = "failed"]
  /\ UNCHANGED <<via, id, parts, next, opened, cstate, idCount, writer, netVars, serverVars, groupVars, heard>>

\* The connection that is found is closed: verify_request throws, and
\* oneway_request swallows the exception
SendRefused(m) ==
  /\ pc[m] = "idle" /\ InClientConnections(Sender[m]) /\ cstate[Sender[m]] = "ERROR"
  /\ pc' = [pc EXCEPT ![m] = "failed"]
  /\ UNCHANGED <<via, id, parts, next, opened, cstate, idCount, writer, netVars, breaks, serverVars, groupVars, heard>>

\* The connection the request goes by is the last one of its client and open
Connected(m) == via[m] = opened[Sender[m]] /\ cstate[Sender[m]] = "OPEN"

\* The loop of write_Version_1_1 runs once too often
WritePacket_OneMore(m) ==
  /\ pc[m] = "writing" /\ Connected(m) /\ writer[Sender[m]] \in {NULL, m}
  /\ net' = [net EXCEPT ![<<m, next[m]>>] = @ + 1]
  /\ next' = [next EXCEPT ![m] = @ + 1]
  /\ pc' = [pc EXCEPT ![m] = IF next'[m] > parts[m] THEN "sent" ELSE @]
  /\ writer' = [writer EXCEPT ![Sender[m]] = IF pc'[m] = "sent" THEN NULL ELSE m]
  /\ UNCHANGED <<via, id, parts, opened, cstate, idCount, arrived, lost, duplicates, breaks, serverVars, groupVars, heard>>

\* One iteration of the loop of write_Version_1_1: the first takes write_mutex,
\* the last releases it
WritePacket(m) ==
  /\ pc[m] = "writing" /\ Connected(m) /\ writer[Sender[m]] \in {NULL, m}
  /\ net' = [net EXCEPT ![<<m, next[m]>>] = @ + 1]
  /\ next' = [next EXCEPT ![m] = @ + 1]
  /\ pc' = [pc EXCEPT ![m] = IF next'[m] = parts[m] THEN "sent" ELSE @]
  /\ writer' = [writer EXCEPT ![Sender[m]] = IF pc'[m] = "sent" THEN NULL ELSE m]
  /\ UNCHANGED <<via, id, parts, opened, cstate, idCount, arrived, lost, duplicates, breaks, serverVars, groupVars, heard>>

\* socket->send throws: close_by_broken_connection
WriteBreaks(m) ==
  /\ pc[m] = "writing" /\ Connected(m) /\ writer[Sender[m]] \in {NULL, m}
  /\ breaks < MaxBreaks /\ breaks' = breaks + 1
  /\ cstate' = [cstate EXCEPT ![Sender[m]] = "ERROR"]
  /\ writer' = [writer EXCEPT ![Sender[m]] = NULL]
  /\ pc' = [pc EXCEPT ![m] = "failed"]
  /\ UNCHANGED <<via, id, parts, next, opened, idCount, netVars, serverVars, groupVars, heard>>

\* ... because another thread has closed the connection: set_error does nothing
WriteFails(m) ==
  /\ pc[m] = "writing" /\ ~Connected(m)
  /\ pc' = [pc EXCEPT ![m] = "failed"]
  /\ UNCHANGED <<via, id, parts, next, opened, cstate, idCount, writer, netVars, breaks, serverVars, groupVars, heard>>

-----------------------------------------------------------------------------
(* The network *)

Lose(p) ==
  /\ net[p] > 0
  /\ net' = [net EXCEPT ![p] = @ - 1]
  /\ lost' = lost \cup {p[1]}
  /\ UNCHANGED <<clientVars, arrived, duplicates, breaks, serverVars, groupVars, heard>>

Duplicate(p) ==
  /\ net[p] > 0
  /\ duplicates < MaxDuplicates /\ duplicates' = duplicates + 1
  /\ net' = [net EXCEPT ![p] = @ + 1]
  /\ UNCHANGED <<clientVars, arrived, lost, breaks, serverVars, groupVars, heard>>

-----------------------------------------------------------------------------
(* The reader thread: UDPConnection::receive_message *)

\* A duplicate takes the place of the chunk it repeats and is counted again
Insert_Duplicate(p, c) ==
  IF c.number = parts[p[1]]
  THEN [number |-> c.number, inserted |-> c.inserted + 1, chunks |-> [c.chunks EXCEPT ![p[2]] = p]]
  ELSE c

\* The packet finds the collection of its unique_id.  A duplicate, or a packet
\* of another number of packets, is discarded.
Insert(p, c) ==
  IF c.number = parts[p[1]] /\ c.chunks[p[2]] = NULL
  THEN [number |-> c.number, inserted |-> c.inserted + 1, chunks |-> [c.chunks EXCEPT ![p[2]] = p]]
  ELSE c

\* The first packet is not counted
NewCollection_Uncounted(p) ==
  LET n == parts[p[1]]
  IN [number |-> n, inserted |-> 0,
      chunks |-> [i \in 0..(n - 1) |-> IF i = p[2] THEN p ELSE NULL]]

\* The collection that is made for a packet that finds none
NewCollection(p) ==
  LET n == parts[p[1]]
  IN [number |-> n, inserted |-> 1,
      chunks |-> [i \in 0..(n - 1) |-> IF i = p[2] THEN p ELSE NULL]]

\* What UseTable::append leaves of the table.  The reader never calls
\* UseTable::use, so that all collections have the same age and
\* removeOldObjects takes all of them, or none: below 80%.
AfterEviction ==
  IF 5 * Cardinality(DOMAIN collections) > 4 * limit THEN NoCollections ELSE collections

With(t, u, c) == [v \in DOMAIN t \cup {u} |-> IF v = u THEN c ELSE t[v]]

\* The requests of which a chunk is in the table
InCollections ==
  {m \in Messages : \E u \in DOMAIN collections : \E i \in DOMAIN collections[u].chunks :
     collections[u].chunks[i] # NULL /\ collections[u].chunks[i][1] = m}

\* The reader takes a datagram and inserts it into a collection, which it
\* processes next if it is complete
Receive(p) ==
  LET u == id[p[1]]
      found == u \in DOMAIN collections
      rest == IF found THEN collections ELSE AfterEviction
      c == IF found THEN Insert(p, collections[u]) ELSE NewCollection(p)
  IN /\ sstate = "OPEN" /\ completed = NULL
     /\ net[p] > 0
     /\ net' = [net EXCEPT ![p] = @ - 1]
     /\ arrived' = [arrived EXCEPT ![p] = @ + 1]
     /\ collections' = With(rest, u, c)
     /\ completed' = IF c.inserted = c.number THEN u ELSE NULL
     /\ thrown' = IF rest = collections THEN thrown ELSE thrown \cup InCollections
     /\ UNCHANGED <<clientVars, lost, duplicates, breaks, sstate, joined, groupVars, heard>>

Without(t, u) == [v \in DOMAIN t \ {u} |-> t[v]]

\* dispatch_request: group_object_POAKeys gives a key for each id, and each key
\* gets a MIOPRequest with the chunks
Hear(chunks) ==
  [o \in Members |->
     [p \in Packets |->
        heard[o][p] + IF \E i \in DOMAIN chunks : chunks[i] = p
                      THEN Cardinality({k \in DOMAIN ids : ids[k] = o}) ELSE 0]]

\* The chunks are one GIOP message.  If they come from different requests,
\* unmarshalling it may raise MARSHAL, and it is dropped.
Process ==
  LET chunks == collections[completed].chunks
  IN /\ completed # NULL
     /\ \/ heard' = Hear(chunks)
        \/ /\ \E i, j \in DOMAIN chunks : chunks[i][1] # chunks[j][1]
           /\ UNCHANGED heard
     /\ collections' = Without(collections, completed)
     /\ completed' = NULL
     /\ UNCHANGED <<clientVars, netVars, breaks, sstate, joined, thrown, groupVars>>

\* The connection breaks, or the ConnectionManager closes it; a reader that is
\* in Process goes on.  remove_listen_points takes the connection out of
\* miop_connections only if it has a listen point.
CloseServer ==
  /\ sstate = "OPEN"
  /\ breaks < MaxBreaks /\ breaks' = breaks + 1
  /\ sstate' = "ERROR"
  /\ joined' = multicast
  /\ thrown' = thrown \cup InCollections
  /\ UNCHANGED <<clientVars, netVars, collections, completed, groupVars, heard>>

-----------------------------------------------------------------------------
(* GOAImpl *)

IsAssociated(o) == \E k \in DOMAIN ids : ids[k] = o

\* An id may be associated twice
Associated_Twice(o) == Append(ids, o)

Associated(o) == IF IsAssociated(o) THEN ids ELSE Append(ids, o)

\* associate_reference_with_id
Associate(o) ==
  /\ o \in references \/ o \notin Generated
  /\ ids' = Associated(o)
  /\ UNCHANGED <<clientVars, netVars, breaks, serverVars, multicast, limit, references, heard>>

\* nextOID counts
IsNextOID(o) == o \in Generated \ references /\ \A n \in Generated \ references : o <= n

\* create_id_for_reference: join_group opens the server connection if
\* miop_connections has none.  The reader of an earlier one has ended by then.
CreateId(o) ==
  /\ IsNextOID(o)
  /\ references' = references \cup {o}
  /\ ids' = Associated(o)
  /\ joined' = TRUE
  /\ IF joined THEN UNCHANGED <<sstate, collections>>
     ELSE completed = NULL /\ sstate' = "OPEN" /\ collections' = NoCollections
  /\ UNCHANGED <<clientVars, netVars, breaks, completed, thrown, multicast, limit, heard>>

\* ... or cannot: INITIALIZE, and the reference stays in group_references_table
CreateIdFails(o) ==
  /\ IsNextOID(o) /\ ~joined
  /\ breaks < MaxBreaks /\ breaks' = breaks + 1
  /\ references' = references \cup {o}
  /\ UNCHANGED <<clientVars, netVars, serverVars, multicast, limit, ids, heard>>

\* The last id takes the place of the first one equal to o
Disassociated(o) ==
  LET k == CHOOSE k \in DOMAIN ids : ids[k] = o /\ \A j \in DOMAIN ids : ids[j] = o => k <= j
  IN IF IsAssociated(o)
     THEN [j \in 1..(Len(ids) - 1) |-> IF j = k THEN ids[Len(ids)] ELSE ids[j]]
     ELSE ids

\* disassociate_reference_with_id
Disassociate(o) ==
  /\ IsAssociated(o)
  /\ ids' = Disassociated(o)
  /\ UNCHANGED <<clientVars, netVars, breaks, serverVars, multicast, limit, references, heard>>

\* deactivate_object disassociates only an id of group_references_table
Deactivate(o) ==
  /\ o \in references
  /\ ids' = Disassociated(o)
  /\ UNCHANGED <<clientVars, netVars, breaks, serverVars, multicast, limit, references, heard>>

-----------------------------------------------------------------------------
Writer(m) == WritePacket(m) \/ WriteFails(m)
Reader == (\E p \in Packets : Receive(p)) \/ Process

Next ==
  \/ \E m \in Messages : Send(m) \/ OpenFails(m) \/ SendRefused(m) \/ Writer(m) \/ WriteBreaks(m)
  \/ \E p \in Packets : Lose(p) \/ Duplicate(p)
  \/ Reader
  \/ CloseServer
  \/ \E o \in Members :
       \/ Associate(o) \/ CreateId(o) \/ CreateIdFails(o)
       \/ Disassociate(o) \/ Deactivate(o)

Spec == Init /\ [][Next]_vars

\* A thread that may write goes on, and so does the reader.  No fairness is
\* asked of the application, and none of the network: it may lose everything.
FairSpec == Spec /\ (\A m \in Messages : WF_vars(Writer(m))) /\ WF_vars(Reader)

-----------------------------------------------------------------------------
(* Properties *)

SameConnection(m, n) == Sender[m] = Sender[n] /\ via[m] = via[n]

\* A collection that is handed on as a GIOP message has every chunk, each at its
\* place, although datagrams are lost, duplicated and out of order; and two
\* requests are mixed in it only if they come from different connections, which
\* both count their ids from 0 (write_Version_1_1 makes the unique_id from the
\* request id alone).
Whole ==
  completed # NULL =>
    LET c == collections[completed]
    IN \A i, j \in 0..(c.number - 1) :
         /\ c.chunks[i] # NULL
         /\ c.chunks[i][2] = i /\ parts[c.chunks[i][1]] = c.number
         /\ SameConnection(c.chunks[i][1], c.chunks[j][1]) => c.chunks[i][1] = c.chunks[j][1]

\* Is the packet at its place in the table
Held(p) ==
  LET u == id[p[1]]
  IN u \in DOMAIN collections /\ p[2] < collections[u].number /\ collections[u].chunks[p[2]] = p

\* A member hears a packet no more often than the reader has read it, less the
\* copy that waits in the table: receive_message does not multiply requests, and
\* associate_reference_with_id no members.  Without duplicates in the network a
\* request is executed at most once by each member.
NoExtraCopies ==
  \A o \in Members, p \in Packets :
    heard[o][p] + (IF Held(p) THEN 1 ELSE 0) <= arrived[p]

\* The request is sent and not yet read completely
Pending(m) == pc[m] = "sent" /\ \E i \in 0..(parts[m] - 1) : arrived[<<m, i>>] = 0

\* What MIOP does not promise: the network lost a datagram, the server threw
\* chunks out, or another connection uses the same unique_id
Excused(m) ==
  \/ m \in lost \/ m \in thrown
  \/ \E n \in Messages \ {m} : id[n] = id[m]

\* A request that is sent is heard by all members at once, unless it is excused
\* or the server connection is not open.  In particular no chunk is forgotten
\* in a collection, whatever order the packets of all requests come in, and
\* none of the ids associated with the group is left out.
EveryMessageHeard ==
  \A m \in Messages :
    Pending(m) ~>
      \/ Excused(m) \/ sstate # "OPEN"
      \/ \A o \in Members : IsAssociated(o) => \A i \in 0..(parts[m] - 1) : heard[o][<<m, i>>] > 0
=============================================================================
