---------------------------- MODULE Fragments ----------------------------
(***************************************************************************)
(* Reassembly of fragmented GIOP messages.  Every connection has a reader  *)
(* thread; all of them share the FragmentedMessagesRepository of the       *)
(* ConnectionManager, a UseTable (a std::map with ages) from MessageId,    *)
(* the address of the connection and a request id, to the message as far   *)
(* as it has come.  A message that is not finished in time is thrown out   *)
(* when the table fills.                                                   *)
(*                                                                         *)
(* One handler of Connection::manage_message is one action: the repository *)
(* is used under its mutex.  Only put_message is several actions, one per  *)
(* iteration of the loop of removeOldObjects, and keeps the mutex          *)
(* meanwhile (putting).  TCP keeps the order of what a peer sends, so that *)
(* the peer and the reader are one step: the peer chooses what the reader  *)
(* of the connection finds next.                                           *)
(***************************************************************************)
EXTENDS Integers, Sequences, FiniteSets

CONSTANTS
  Conns,          \* the addresses of Connection objects
  Mode,           \* the mode of the connection at an address
  Messages,       \* what the peers may send, see MessageType
  NULL,
  MaxUncompleted, \* max_uncompleted_messages
  MaxLives,       \* connections that may have the same address, in turn
  IntMax,         \* INT_MAX
  Destroys        \* may ConnectionManager::destroy be called

\* A message of `parts' pieces, sent in the life-th connection at the address
\* conn.  Piece 1 is the Request, Reply, ... itself, the others are Fragments.
MessageType ==
  [conn : Conns, life : 1..MaxLives, id : Nat \ {0},
   type : {"Request", "LocateRequest", "Reply", "LocateReply"},
   minor : {1, 2}, parts : Nat \ {0}]

\* removeOldObjects ends only if the rounds go far enough to make all old
ASSUME ConfAssumption ==
  /\ Conns \subseteq Nat
  /\ Mode \in [Conns -> {"CLIENT", "SERVER", "BIDIRECTIONAL"}]
  /\ IsFiniteSet(Messages) /\ Messages \subseteq MessageType
  /\ NULL \notin Messages
  /\ MaxUncompleted \in Nat
  /\ MaxLives \in Nat \ {0}
  /\ IntMax \in Nat /\ IntMax > 3
  /\ Destroys \in BOOLEAN

\* What the peers keep to: the ids of a connection are distinct, and only GIOP
\* 1.2 goes in both directions.
ASSUME PeerAssumption ==
  /\ \A a, b \in Messages :
       a.conn = b.conn /\ a.life = b.life /\ a.id = b.id => a = b
  /\ \A m \in Messages : Mode[m.conn] = "BIDIRECTIONAL" => m.minor = 2

VARIABLES
  open,       \* is the connection at this address open
  life,       \* which of the connections that get this address it is
  current,    \* Connection::current_request_id
  received,   \* number of pieces of a message the reader has taken
  cancelled,  \* messages whose peer has sent CancelRequest
  table,      \* UseTable::_use: MessageId -> holder of a message and age
  round,      \* UseTable::_round
  disordered, \* the std::map holds keys its comparison contradicts itself on
  lost,       \* keys of the map that a search does not find
  putting,    \* the message whose put_message has the mutex
  evicting,   \* put_message is in the loop of removeOldObjects
  evicted,    \* history: messages thrown out
  delivered   \* history: what was handed on as this message, piece by piece

tableVars == <<table, round, disordered, lost, putting, evicting, evicted>>
connVars == <<open, life, current>>
vars == <<connVars, received, cancelled, tableVars, delivered>>

MessageIds == [connection : Conns, request_id : Nat]

Piece(m, n) == <<m, n>>

\* a message as it was sent, up to piece n
Pieces(m, n) == [i \in 1..n |-> Piece(m, i)]

\* a FragmentedMessageHolder and its age
Holder == [msg : Messages, pieces : Seq(Messages \X Nat), age : Int]

Init ==
  /\ open = [c \in Conns |-> TRUE]
  /\ life = [c \in Conns |-> 1]
  /\ current = [c \in Conns |-> 0]
  /\ received = [m \in Messages |-> 0]
  /\ cancelled = {}
  /\ table = <<>>
  /\ round = 0
  /\ disordered = FALSE
  /\ lost = {}
  /\ putting = NULL
  /\ evicting = FALSE
  /\ evicted = {}
  /\ delivered = [m \in Messages |-> <<>>]

-----------------------------------------------------------------------------
(* MessageId and the std::map                                              *)

\* MessageId::operator<
Less(a, b) == a.request_id < b.request_id \/ a.connection < b.connection

\* Two keys each of which is "less" than the other
Contradictory(K) == \E a, b \in K : Less(a, b) /\ Less(b, a)

\* What the map looks like after a change of its nodes.  While the comparison
\* is an order on its keys every key is found.  When it is not, the map is
\* undefined: some keys may be out of place, until one key is left.
Arrange ==
  /\ disordered' = \/ Contradictory(DOMAIN table')
                   \/ disordered /\ Cardinality(DOMAIN table') > 1
  /\ lost' \in {L \in SUBSET DOMAIN table' :
                  L # {} => disordered' /\ L # DOMAIN table'}

\* UseTable::get
Found(k) == k \in DOMAIN table \ lost

\* UseTable::remove of a set of nodes
Without(K) == [k \in DOMAIN table \ K |-> table[k]]

-----------------------------------------------------------------------------
(* The UseTable                                                            *)

Full(n) == 5 * n >= 4 * MaxUncompleted

\* Mutant: the rounds do not start again
IncRound_NoWrap(t) ==
  /\ round' = round + 1
  /\ table' = t

\* Mutant: the ages keep their values when the rounds start again
IncRound_KeepsAges(t) ==
  LET wrap == round + 1 = IntMax
  IN /\ round' = IF wrap THEN 0 ELSE round + 1
     /\ table' = t

\* incRound; t is the table it finds
IncRound(t) ==
  LET wrap == round + 1 = IntMax
  IN /\ round' = IF wrap THEN 0 ELSE round + 1
     /\ table' = IF wrap THEN [k \in DOMAIN t |-> [t[k] EXCEPT !.age = -1]] ELSE t

Old == {k \in DOMAIN table : table[k].age <= round - 4}

\* One iteration of the loop of removeOldObjects.  A holder can always be
\* removed (canBeRemoved), so that nothing is inserted again.
RemoveOld(m) ==
  LET rest == Without(Old)
      full == Full(Cardinality(DOMAIN rest))
  IN /\ putting = m /\ evicting
     /\ IF full THEN IncRound(rest) ELSE table' = rest /\ UNCHANGED round
     /\ evicted' = evicted \cup {table[k].msg : k \in Old}
     /\ evicting' = (full /\ DOMAIN rest # {})
     /\ Arrange
     /\ UNCHANGED <<connVars, received, cancelled, putting, delivered>>

\* The request id as the head of the message leaves it in the object: the id of
\* a GIOP 1.1 Request is not read before the message is complete.
ReadId(m) == IF m.type = "Request" /\ m.minor = 1 THEN 0 ELSE m.id

Key(m) == [connection |-> m.conn, request_id |-> ReadId(m)]

\* Mutant: a message that is already there under this key is kept
Append_KeepsOld(m) ==
  LET h == [msg |-> m, pieces |-> Pieces(m, 1), age |-> round - 1]
  IN /\ putting = m /\ ~evicting
     /\ IF Cardinality(DOMAIN table) = MaxUncompleted
          THEN evicted' = evicted \cup {m} /\ UNCHANGED <<table, disordered, lost>>
          ELSE /\ table' = [k \in DOMAIN table \cup {Key(m)} |->
                              IF k \in DOMAIN table THEN table[k] ELSE h]
               /\ Arrange
               /\ UNCHANGED evicted
     /\ putting' = NULL
     /\ UNCHANGED <<connVars, received, cancelled, round, evicting, delivered>>

\* The rest of append and of put_message.  FullUseTableException is swallowed,
\* and the message with it.  A node with the same key gets the new holder.
AppendMessage(m) ==
  LET h == [msg |-> m, pieces |-> Pieces(m, 1), age |-> round - 1]
  IN /\ putting = m /\ ~evicting
     /\ IF Cardinality(DOMAIN table) = MaxUncompleted
          THEN evicted' = evicted \cup {m} /\ UNCHANGED <<table, disordered, lost>>
          ELSE /\ table' = [k \in DOMAIN table \cup {Key(m)} |->
                              IF k = Key(m) THEN h ELSE table[k]]
               /\ Arrange
               /\ UNCHANGED evicted
     /\ putting' = NULL
     /\ UNCHANGED <<connVars, received, cancelled, round, evicting, delivered>>

-----------------------------------------------------------------------------
(* The handlers of Connection::manage_message                              *)

\* some of the message has come, not all
InProgress(m) == received[m] \in 1..(m.parts - 1)

\* The reader of m's connection may find piece n of m next: the pieces of a
\* message come in order, and in GIOP 1.1 nothing comes between them.
Arrives(m, n) ==
  /\ open[m.conn] /\ life[m.conn] = m.life
  /\ received[m] = n - 1 /\ n <= m.parts
  /\ m \notin cancelled
  /\ putting = NULL
  /\ \A o \in Messages \ {m} :
       o.conn = m.conn /\ o.life = m.life /\ o.minor = 1 => ~InProgress(o)
  /\ received' = [received EXCEPT ![m] = n]

\* dispatch_request or LockList::put_reply
Deliver(m, pieces) == delivered' = [delivered EXCEPT ![m] = Append(@, pieces)]

\* close_by_error; the reader ends
CloseByError(c) ==
  /\ open' = [open EXCEPT ![c] = FALSE]
  /\ UNCHANGED <<life, current, tableVars, delivered>>

\* the start of put_message
PutMessage(m) ==
  /\ putting' = m
  /\ evicting' = (5 * Cardinality(DOMAIN table) > 4 * MaxUncompleted)
  /\ UNCHANGED <<open, life, table, round, disordered, lost, evicted, delivered>>

ManageRequest(m) ==
  LET c == m.conn
  IN /\ m.type = "Request"
     /\ Arrives(m, 1)
     /\ IF Mode[c] = "CLIENT" \/ (m.parts > 1 /\ m.minor = 1 /\ current[c] # 0)
          THEN CloseByError(c)
        ELSE IF m.parts > 1
          THEN /\ PutMessage(m)
               /\ current' = IF m.minor = 1 THEN [current EXCEPT ![c] = ReadId(m)]
                             ELSE current
        ELSE Deliver(m, Pieces(m, 1)) /\ UNCHANGED <<connVars, tableVars>>
     /\ UNCHANGED cancelled

ManageReply(m) ==
  LET c == m.conn
  IN /\ m.type = "Reply"
     /\ Arrives(m, 1)
     /\ IF Mode[c] = "SERVER" THEN CloseByError(c)
        ELSE IF m.parts > 1
          THEN /\ PutMessage(m)
               /\ current' = IF m.minor = 1 THEN [current EXCEPT ![c] = ReadId(m)]
                             ELSE current
        ELSE Deliver(m, Pieces(m, 1)) /\ UNCHANGED <<connVars, tableVars>>
     /\ UNCHANGED cancelled

\* LocateRequest and LocateReply: fragments are refused in GIOP 1.1 and later,
\* which is whenever there can be any
ManageLocate(m) ==
  LET c == m.conn
  IN /\ m.type \in {"LocateRequest", "LocateReply"}
     /\ Arrives(m, 1)
     /\ IF \/ Mode[c] = (IF m.type = "LocateReply" THEN "SERVER" ELSE "CLIENT")
           \/ m.parts > 1
          THEN CloseByError(c)
          ELSE Deliver(m, Pieces(m, 1)) /\ UNCHANGED <<connVars, tableVars>>
     /\ UNCHANGED cancelled

\* Mutant: the id of a GIOP 1.2 fragment is not used
ManageFragment_NoId(m, n) ==
  LET c == m.conn
      k == [connection |-> c, request_id |-> current[c]]
      more == n < m.parts
      h == [table[k] EXCEPT !.pieces = Append(@, Piece(m, n))]
  IN /\ n > 1
     /\ Arrives(m, n)
     /\ IF ~Found(k)
          THEN UNCHANGED <<table, disordered, lost, current, delivered>>
        ELSE IF more
          THEN /\ table' = [table EXCEPT ![k] = h]
               /\ UNCHANGED <<disordered, lost, current, delivered>>
        ELSE /\ table' = Without({k})
             /\ Arrange
             /\ Deliver(h.msg, h.pieces)
             /\ current' = IF h.msg.type = "Reply" THEN [current EXCEPT ![c] = 0]
                           ELSE current
     /\ UNCHANGED <<open, life, cancelled, round, putting, evicting, evicted>>

\* A Fragment: add_fragment, and the complete message is handed on
ManageFragment(m, n) ==
  LET c == m.conn
      k == [connection |-> c, request_id |-> IF m.minor = 2 THEN m.id ELSE current[c]]
      more == n < m.parts
      h == [table[k] EXCEPT !.pieces = Append(@, Piece(m, n))]
  IN /\ n > 1
     /\ Arrives(m, n)
     /\ IF ~Found(k)
          THEN UNCHANGED <<table, disordered, lost, current, delivered>>
        ELSE IF more
          THEN /\ table' = [table EXCEPT ![k] = h]
               /\ UNCHANGED <<disordered, lost, current, delivered>>
        ELSE /\ table' = Without({k})
             /\ Arrange
             /\ Deliver(h.msg, h.pieces)
             /\ current' = IF h.msg.type = "Reply" THEN [current EXCEPT ![c] = 0]
                           ELSE current
     /\ UNCHANGED <<open, life, cancelled, round, putting, evicting, evicted>>

\* CancelRequest of a message that is under way, with the id of the message;
\* the peer sends no more of it
ManageCancel(m) ==
  LET c == m.conn
      k == [connection |-> c, request_id |-> m.id]
  IN /\ m.type = "Request" /\ m.minor = 2
     /\ open[c] /\ life[c] = m.life
     /\ Mode[c] # "CLIENT"
     /\ InProgress(m)
     /\ m \notin cancelled
     /\ putting = NULL
     /\ cancelled' = cancelled \cup {m}
     /\ IF Found(k) THEN table' = Without({k}) /\ Arrange
        ELSE UNCHANGED <<table, disordered, lost>>
     /\ UNCHANGED <<connVars, received, round, putting, evicting, evicted,
                    delivered>>

-----------------------------------------------------------------------------
(* Connections and the ConnectionManager                                   *)

\* The connection ends for a reason of its own.  Its messages stay.
Close(c) ==
  /\ open[c]
  /\ open' = [open EXCEPT ![c] = FALSE]
  /\ UNCHANGED <<life, current, received, cancelled, tableVars, delivered>>

\* A new Connection object gets the address of one that was deleted after its
\* reader had ended
Connect(c) ==
  /\ ~open[c] /\ life[c] < MaxLives
  /\ \A m \in Messages : m.conn = c => putting # m
  /\ open' = [open EXCEPT ![c] = TRUE]
  /\ life' = [life EXCEPT ![c] = @ + 1]
  /\ current' = [current EXCEPT ![c] = 0]
  /\ UNCHANGED <<received, cancelled, tableVars, delivered>>

\* FragmentedMessagesRepository::destroy, which ConnectionManager::destroy calls
\* while the connections are still open.  Nobody sets `destroyed'.
Destroy ==
  /\ Destroys
  /\ putting = NULL /\ DOMAIN table # {}
  /\ evicted' = evicted \cup {table[k].msg : k \in DOMAIN table}
  /\ table' = Without(DOMAIN table)
  /\ Arrange
  /\ UNCHANGED <<connVars, received, cancelled, round, putting, evicting,
                 delivered>>

Put(m) == RemoveOld(m) \/ AppendMessage(m)

Manage(m) ==
  \/ ManageRequest(m) \/ ManageReply(m) \/ ManageLocate(m) \/ ManageCancel(m)
  \/ \E n \in 2..m.parts : ManageFragment(m, n)

Next ==
  \/ \E m \in Messages : Put(m) \/ Manage(m)
  \/ \E c \in Conns : Close(c) \/ Connect(c)
  \/ Destroy

Spec == Init /\ [][Next]_vars

\* A reader thread in put_message goes on.  Nothing is assumed of the peers.
FairSpec == Spec /\ \A m \in Messages : WF_vars(Put(m))

-----------------------------------------------------------------------------
(* Properties                                                              *)

TypeOK ==
  /\ open \in [Conns -> BOOLEAN]
  /\ life \in [Conns -> 1..MaxLives]
  /\ current \in [Conns -> Nat]
  /\ received \in [Messages -> Nat]
  /\ \A m \in Messages : received[m] <= m.parts
  /\ cancelled \subseteq Messages
  /\ DOMAIN table \subseteq MessageIds
  /\ \A k \in DOMAIN table : table[k] \in Holder
  /\ round \in 0..(IntMax - 1)
  /\ disordered \in BOOLEAN
  /\ lost \subseteq DOMAIN table
  /\ putting \in Messages \cup {NULL}
  /\ evicting \in BOOLEAN
  /\ evicted \subseteq Messages
  /\ delivered \in [Messages -> Seq(Seq(Messages \X Nat))]

\* What is handed on as a message is this message, whole, in order and once,
\* although the pieces of several messages and connections are mixed, a
\* message may be thrown out between two of its pieces, and the address of a
\* connection and its ids come again.
Whole == \A m \in Messages : delivered[m] \in {<<>>, <<Pieces(m, m.parts)>>}

\* A message that has come completely has been handed on, unless the table was
\* too small for it: no piece is lost in any other way.
NotLost ==
  \A m \in Messages :
    /\ received[m] = m.parts /\ putting # m
    /\ open[m.conn] /\ life[m.conn] = m.life
    => delivered[m] # <<>> \/ m \in evicted

\* "unreachable: holder always can be removed": removeOldObjects makes room
\* for the new message.
FullIsUnreachable ==
  putting # NULL /\ ~evicting => Cardinality(DOMAIN table) < MaxUncompleted

\* put_message returns: the loop of removeOldObjects, which keeps the readers
\* of all connections out, ends, also where the rounds start again.
PutReturns == putting # NULL ~> putting = NULL

=============================================================================
