------------------------- MODULE Fragments_proofs -------------------------
(***************************************************************************)
(* Proofs about module Fragments, for peers whose messages have keys that  *)
(* MessageId::operator< puts in an order: then every message is handed on  *)
(* as it was sent, or was thrown out of the table.                         *)
(***************************************************************************)
EXTENDS Fragments, FiniteSetTheorems, SequenceTheorems, TLAPS

\* MessageId::operator< never contradicts itself on the keys of the messages
KeysOrdered ==
  \A a, b \in Messages : ~(Less(Key(a), Key(b)) /\ Less(Key(b), Key(a)))

\* The connection m was sent in is there
Live(m) == open[m.conn] /\ life[m.conn] = m.life

\* The map is in order, and holds messages as far as they have come
TableOK ==
  /\ ~disordered /\ lost = {}
  /\ IsFiniteSet(DOMAIN table)
  /\ \A k \in DOMAIN table : \A m \in Messages :
       table[k].msg = m =>
         k = Key(m) /\ InProgress(m) /\ table[k].pieces = Pieces(m, received[m])

\* The message that is being put has just come; there is room for it once
\* the loop has ended
PuttingOK ==
  putting # NULL =>
    /\ received[putting] = 1 /\ putting.parts > 1
    /\ life[putting.conn] = putting.life
    /\ ~evicting => \/ Cardinality(DOMAIN table) < MaxUncompleted
                    \/ DOMAIN table = {}

\* GIOP 1.1: one message at a time, and its fragments find it
CurrentOK ==
  /\ \A c \in Conns : Mode[c] = "SERVER" => current[c] = 0
  /\ \A m \in Messages :
       Live(m) /\ InProgress(m) /\ m.minor = 1 =>
         current[m.conn] = ReadId(m)
  /\ \A m, o \in Messages :
       /\ m # o /\ m.conn = o.conn /\ m.life = o.life
       /\ m.minor = 1 /\ o.minor = 1
       => ~(InProgress(m) /\ InProgress(o))

\* The table holds nothing else under the key of a message that is under way,
\* and the message unless it was cancelled or thrown out
EntryOK ==
  \A m \in Messages :
    Live(m) /\ InProgress(m) /\ putting # m =>
      /\ Key(m) \in DOMAIN table => table[Key(m)].msg = m
      /\ Key(m) \in DOMAIN table \/ m \in cancelled \cup evicted

\* What was handed on had come completely, and nothing comes before its
\* connection is there
DeliveredOK ==
  \A m \in Messages :
    /\ delivered[m] # <<>> => received[m] = m.parts
    /\ received[m] # 0 => m.life <= life[m.conn]

IndInv ==
  /\ TypeOK /\ TableOK /\ PuttingOK /\ CurrentOK /\ EntryOK /\ DeliveredOK
  /\ Whole /\ NotLost

-----------------------------------------------------------------------------
(* The operators                                                           *)

\* The fields of a message
LEMMA MessageFields ==
  ASSUME NEW m \in Messages
  PROVE  /\ m.conn \in Conns /\ m.conn \in Nat
         /\ m.life \in 1..MaxLives
         /\ m.id \in Nat /\ m.id # 0
         /\ m.type \in {"Request", "LocateRequest", "Reply", "LocateReply"}
         /\ m.minor \in {1, 2}
         /\ m.parts \in Nat /\ m.parts >= 1
         /\ m # NULL
<1>1. m \in MessageType /\ m # NULL
  BY ConfAssumption
<1>2. m.conn \in Nat
  BY <1>1, ConfAssumption DEF MessageType
<1> QED  BY <1>1, <1>2 DEF MessageType

\* The key of a message is a MessageId
LEMMA KeyType == \A m \in Messages : Key(m) \in MessageIds
  BY MessageFields DEF Key, ReadId, MessageIds

\* Two messages of a connection with the same key are the same, or Requests of
\* GIOP 1.1
LEMMA SameKey ==
  ASSUME NEW m \in Messages, NEW o \in Messages,
         Key(m) = Key(o), m.life = o.life
  PROVE  /\ m.conn = o.conn
         /\ m = o \/ (m.minor = 1 /\ o.minor = 1)
<1>1. m.conn = o.conn /\ ReadId(m) = ReadId(o)
  BY DEF Key
<1>2. CASE m.minor = 2 /\ o.minor = 2
  BY <1>1, <1>2, PeerAssumption DEF ReadId
<1>3. CASE m.minor = 1 /\ o.minor = 2
  BY <1>1, <1>3, PeerAssumption, MessageFields DEF ReadId
<1>4. CASE m.minor = 2 /\ o.minor = 1
  BY <1>1, <1>4, PeerAssumption, MessageFields DEF ReadId
<1>5. CASE m.minor = 1 /\ o.minor = 1
  BY <1>1, <1>5
<1> QED  BY <1>2, <1>3, <1>4, <1>5, MessageFields

\* The first pieces of a message are a sequence
LEMMA PiecesType ==
  ASSUME NEW m \in Messages, NEW n \in Nat
  PROVE  /\ Pieces(m, n) \in Seq(Messages \X Nat)
         /\ Len(Pieces(m, n)) = n
<1>1. Pieces(m, n) \in [1..n -> Messages \X Nat]
  BY DEF Pieces, Piece
<1> QED  BY <1>1

\* The next fragment goes to the end
LEMMA PiecesAppend ==
  ASSUME NEW m \in Messages, NEW n \in Nat
  PROVE  Append(Pieces(m, n), Piece(m, n + 1)) = Pieces(m, n + 1)
<1> DEFINE s == Append(Pieces(m, n), Piece(m, n + 1))
           t == Pieces(m, n + 1)
<1>1. /\ Pieces(m, n) \in Seq(Messages \X Nat) /\ Len(Pieces(m, n)) = n
      /\ t \in Seq(Messages \X Nat) /\ Len(t) = n + 1
  <2>1. n + 1 \in Nat
    OBVIOUS
  <2> QED  BY <2>1, PiecesType
<1>2. Piece(m, n + 1) \in Messages \X Nat
  BY DEF Piece
<1>3. s \in Seq(Messages \X Nat) /\ Len(s) = n + 1
  BY <1>1, <1>2
<1>4. \A i \in 1..(n + 1) : s[i] = t[i]
  <2> SUFFICES ASSUME NEW i \in 1..(n + 1)  PROVE s[i] = t[i]
    OBVIOUS
  <2>1. t[i] = Piece(m, i)
    BY DEF Pieces
  <2>2. CASE i = n + 1
    BY <1>1, <1>2, <2>1, <2>2
  <2>3. CASE i \in 1..n
    BY <1>1, <1>2, <2>1, <2>3 DEF Pieces
  <2>4. i = n + 1 \/ i \in 1..n
    OBVIOUS
  <2> QED  BY <2>2, <2>3, <2>4, Zenon
<1> HIDE DEF s, t
<1>5. s = t
  BY <1>1, <1>3, <1>4, SeqEqual
<1> QED  BY <1>5 DEF s, t

\* While all keys are keys of messages, the map stays in order
LEMMA StaysInOrder ==
  ASSUME KeysOrdered, ~disordered, Arrange,
         \A k \in DOMAIN table' : \E m \in Messages : k = Key(m)
  PROVE  disordered' = FALSE /\ lost' = {}
<1>1. ~Contradictory(DOMAIN table')
  BY DEF KeysOrdered, Contradictory
<1> QED  BY <1>1 DEF Arrange

\* Less entries than 0.8 times the limit are less than the limit
LEMMA NotFull ==
  ASSUME NEW n \in Nat, ~Full(n)
  PROVE  n < MaxUncompleted
  BY ConfAssumption DEF Full

-----------------------------------------------------------------------------
(* The invariant                                                           *)

LEMMA InitInv == Init => IndInv
<1> SUFFICES ASSUME Init PROVE IndInv
  OBVIOUS
<1> USE DEF Init
<1>0. DOMAIN table = {}
  OBVIOUS
<1>1. TypeOK
  <2>1. <<>> \in Seq(Seq(Messages \X Nat))
    OBVIOUS
  <2>2. delivered \in [Messages -> Seq(Seq(Messages \X Nat))]
    BY <2>1
  <2>3. received \in [Messages -> Nat] /\ \A m \in Messages : received[m] <= m.parts
    BY MessageFields
  <2>4. round \in 0..(IntMax - 1) /\ life \in [Conns -> 1..MaxLives]
    BY ConfAssumption
  <2>5. /\ open \in [Conns -> BOOLEAN] /\ current \in [Conns -> Nat]
        /\ putting \in Messages \cup {NULL}
    OBVIOUS
  <2> QED  BY <1>0, <2>2, <2>3, <2>4, <2>5 DEF TypeOK
<1>2. TableOK
  BY <1>0, FS_EmptySet DEF TableOK
<1>3. \A m \in Messages : ~InProgress(m) /\ received[m] # m.parts
  BY MessageFields DEF InProgress
<1>4. PuttingOK /\ CurrentOK /\ EntryOK
  BY <1>3 DEF PuttingOK, CurrentOK, EntryOK
<1>5. DeliveredOK /\ Whole /\ NotLost
  BY <1>3 DEF DeliveredOK, Whole, NotLost
<1> QED  BY <1>1, <1>2, <1>4, <1>5 DEF IndInv

\* What the arrival of piece n of m changes
LEMMA ArrivesFacts ==
  ASSUME TypeOK, NEW m \in Messages, NEW n \in Nat, n >= 1, Arrives(m, n)
  PROVE  /\ Live(m) /\ putting = NULL /\ m \notin cancelled
         /\ received[m] = n - 1 /\ n <= m.parts
         /\ received' \in [Messages -> Nat]
         /\ received'[m] = n
         /\ \A o \in Messages \ {m} : received'[o] = received[o]
         /\ \A o \in Messages : received'[o] <= o.parts
         /\ \A o \in Messages \ {m} :
              o.conn = m.conn /\ o.life = m.life /\ o.minor = 1 => ~InProgress(o)
         /\ \A o \in Messages \ {m} : InProgress(o)' <=> InProgress(o)
         /\ InProgress(m)' <=> n < m.parts
<1>1. /\ Live(m) /\ putting = NULL /\ m \notin cancelled
      /\ received[m] = n - 1 /\ n <= m.parts
      /\ received' = [received EXCEPT ![m] = n]
      /\ \A o \in Messages \ {m} :
              o.conn = m.conn /\ o.life = m.life /\ o.minor = 1 => ~InProgress(o)
  BY DEF Arrives, Live
<1>2. received \in [Messages -> Nat] /\ \A o \in Messages : received[o] <= o.parts
  BY DEF TypeOK
<1>3. /\ received' \in [Messages -> Nat]
      /\ received'[m] = n
      /\ \A o \in Messages \ {m} : received'[o] = received[o]
  BY <1>1, <1>2
<1>4. \A o \in Messages : received'[o] <= o.parts
  BY <1>1, <1>2, <1>3
<1>5. \A o \in Messages \ {m} : InProgress(o)' <=> InProgress(o)
  BY <1>3 DEF InProgress
<1>6. InProgress(m)' <=> n < m.parts
  BY <1>3, MessageFields DEF InProgress
<1> QED  BY <1>1, <1>3, <1>4, <1>5, <1>6, Zenon

\* The first piece of a message that is not in the table yet: the entries of
\* the table are as they were
LEMMA HeadTable ==
  ASSUME IndInv, NEW m \in Messages, Arrives(m, 1),
         UNCHANGED <<table, disordered, lost>>
  PROVE  TableOK'
<1>1. received[m] = 0 /\ \A o \in Messages \ {m} :
        received'[o] = received[o] /\ (InProgress(o)' <=> InProgress(o))
  BY ArrivesFacts DEF IndInv
<1>2. \A k \in DOMAIN table : table[k].msg \in Messages /\ table[k].msg # m
  <2>1. \A k \in DOMAIN table : table[k].msg \in Messages
    BY DEF IndInv, TypeOK, Holder
  <2>2. ~InProgress(m)
    BY <1>1, MessageFields DEF InProgress
  <2> QED  BY <2>1, <2>2 DEF IndInv, TableOK
<1>3. ASSUME NEW k \in DOMAIN table, NEW o \in Messages, table[k].msg = o
      PROVE  k = Key(o) /\ InProgress(o)' /\ table[k].pieces = Pieces(o, received'[o])
  BY <1>1, <1>2, <1>3 DEF IndInv, TableOK
<1> QED  BY <1>3 DEF IndInv, TableOK, Key, ReadId, Pieces, Piece

\* ... and so is what has been handed on
LEMMA HeadDelivered ==
  ASSUME IndInv, NEW m \in Messages, Arrives(m, 1)
  PROVE  delivered[m] = <<>>
  BY ArrivesFacts, MessageFields DEF IndInv, DeliveredOK

LEMMA HeadClose ==
  ASSUME IndInv, NEW m \in Messages, Arrives(m, 1), CloseByError(m.conn),
         UNCHANGED cancelled
  PROVE  IndInv'
<1> USE DEF CloseByError, tableVars
<1>1. /\ received' \in [Messages -> Nat] /\ received'[m] = 1 /\ putting = NULL
      /\ \A o \in Messages \ {m} : received'[o] = received[o]
      /\ \A o \in Messages : received'[o] <= o.parts
      /\ \A o \in Messages \ {m} :
              o.conn = m.conn /\ o.life = m.life /\ o.minor = 1 => ~InProgress(o)
      /\ \A o \in Messages \ {m} : InProgress(o)' <=> InProgress(o)
      /\ received[m] = 0 /\ Live(m)
  BY ArrivesFacts DEF IndInv
<1>2. TypeOK'
  BY <1>1 DEF IndInv, TypeOK
<1>3. TableOK'
  BY HeadTable
<1>4. PuttingOK'
  BY <1>1 DEF PuttingOK
<1>5. \A o \in Messages : Live(o)' => Live(o) /\ o # m
  BY MessageFields DEF Live, IndInv, TypeOK
<1>6. CurrentOK'
  BY <1>1, <1>5 DEF IndInv, CurrentOK, ReadId
<1>7. EntryOK'
  BY <1>1, <1>5 DEF IndInv, EntryOK, Key, ReadId
<1>8. DeliveredOK' /\ Whole'
  BY <1>1, HeadDelivered, MessageFields
  DEF IndInv, DeliveredOK, Whole, Pieces, Piece, Live
<1>9. NotLost'
  BY <1>1, <1>5 DEF IndInv, NotLost, Live
<1> QED  BY <1>2, <1>3, <1>4, <1>6, <1>7, <1>8, <1>9 DEF IndInv

LEMMA HeadDeliver ==
  ASSUME IndInv, NEW m \in Messages, Arrives(m, 1), m.parts = 1,
         Deliver(m, Pieces(m, 1)), UNCHANGED <<connVars, tableVars, cancelled>>
  PROVE  IndInv'
<1> USE DEF connVars, tableVars
<1>1. /\ received' \in [Messages -> Nat] /\ received'[m] = 1 /\ putting = NULL
      /\ \A o \in Messages \ {m} : received'[o] = received[o]
      /\ \A o \in Messages : received'[o] <= o.parts
      /\ \A o \in Messages \ {m} : InProgress(o)' <=> InProgress(o)
      /\ ~InProgress(m)' /\ Live(m)
  BY ArrivesFacts DEF IndInv
<1>2. /\ delivered' \in [Messages -> Seq(Seq(Messages \X Nat))]
      /\ delivered'[m] = <<Pieces(m, 1)>>
      /\ \A o \in Messages \ {m} : delivered'[o] = delivered[o]
  <2> DEFINE p == Pieces(m, 1)
  <2>1. p \in Seq(Messages \X Nat)
    BY PiecesType
  <2>2. delivered' = [delivered EXCEPT ![m] = Append(<<>>, p)]
    BY HeadDelivered DEF Deliver
  <2> HIDE DEF p
  <2>3. Append(<<>>, p) = <<p>> /\ <<p>> \in Seq(Seq(Messages \X Nat))
    BY <2>1
  <2>4. /\ delivered' \in [Messages -> Seq(Seq(Messages \X Nat))]
        /\ delivered'[m] = <<p>>
        /\ \A o \in Messages \ {m} : delivered'[o] = delivered[o]
    BY <2>2, <2>3 DEF IndInv, TypeOK
  <2> QED  BY <2>4 DEF p
<1>3. TypeOK'
  BY <1>1, <1>2 DEF IndInv, TypeOK
<1>4. TableOK'
  BY HeadTable
<1>5. PuttingOK'
  BY <1>1 DEF PuttingOK
<1>6. CurrentOK'
  BY <1>1 DEF IndInv, CurrentOK, ReadId, Live
<1>7. EntryOK'
  BY <1>1, MessageFields DEF IndInv, EntryOK, Key, ReadId, Live
<1>8. DeliveredOK' /\ Whole'
  <2>1. DeliveredOK'
    <3>1. received'[m] = m.parts /\ m.life <= life'[m.conn]
      BY <1>1, MessageFields DEF Live
    <3>2. \A o \in Messages \ {m} :
            received'[o] = received[o] /\ delivered'[o] = delivered[o] /\ life' = life
      BY <1>1, <1>2
    <3> QED  BY <3>1, <3>2 DEF IndInv, DeliveredOK
  <2>2. Whole'
    BY <1>1, <1>2 DEF IndInv, Whole, Pieces, Piece
  <2> QED  BY <2>1, <2>2
<1>9. NotLost'
  <2>1. delivered'[m] # <<>>
    BY <1>2
  <2> QED  BY <1>1, <1>2, <2>1, MessageFields DEF IndInv, NotLost
<1> QED  BY <1>3, <1>4, <1>5, <1>6, <1>7, <1>8, <1>9 DEF IndInv

LEMMA HeadPut ==
  ASSUME IndInv, NEW m \in Messages, Arrives(m, 1), m.parts > 1, PutMessage(m),
         m.type = "Request" \/ (m.type = "Reply" /\ Mode[m.conn] # "SERVER"),
         current' = IF m.minor = 1 THEN [current EXCEPT ![m.conn] = ReadId(m)]
                    ELSE current,
         UNCHANGED cancelled
  PROVE  IndInv'
<1> USE DEF PutMessage
<1>1. /\ received' \in [Messages -> Nat] /\ received'[m] = 1
      /\ received[m] = 0 /\ putting = NULL
      /\ Live(m)
      /\ \A o \in Messages \ {m} : received'[o] = received[o]
      /\ \A o \in Messages : received'[o] <= o.parts
      /\ \A o \in Messages \ {m} :
              o.conn = m.conn /\ o.life = m.life /\ o.minor = 1 => ~InProgress(o)
      /\ \A o \in Messages \ {m} : InProgress(o)' <=> InProgress(o)
  BY ArrivesFacts DEF IndInv
<1>2. /\ current' \in [Conns -> Nat]
      /\ m.minor = 1 => current'[m.conn] = ReadId(m)
      /\ \A c \in Conns : current'[c] # current[c] => c = m.conn /\ m.minor = 1
  BY MessageFields DEF IndInv, TypeOK, ReadId
<1>3. TypeOK'
  BY <1>1, <1>2 DEF IndInv, TypeOK
<1>4. TableOK'
  BY HeadTable
<1>5. PuttingOK'
  <2>1. Cardinality(DOMAIN table) \in Nat
    BY FS_CardinalityType DEF IndInv, TableOK
  <2>2. ~evicting' => ~(5 * Cardinality(DOMAIN table) > 4 * MaxUncompleted)
    BY Zenon
  <2>3. ~evicting' => Cardinality(DOMAIN table) < MaxUncompleted \/ Cardinality(DOMAIN table) = 0
    BY <2>1, <2>2, ConfAssumption
  <2>4. Cardinality(DOMAIN table) = 0 => DOMAIN table = {}
    BY FS_EmptySet DEF IndInv, TableOK
  <2> QED  BY <1>1, <2>3, <2>4 DEF PuttingOK, Live
<1>6. CurrentOK'
  <2>1. \A c \in Conns : Mode[c] = "SERVER" => current'[c] = 0
    BY <1>2, MessageFields DEF IndInv, CurrentOK, ReadId
  <2>2. ASSUME NEW o \in Messages, Live(o)', InProgress(o)', o.minor = 1
        PROVE  current'[o.conn] = ReadId(o)
    <3>1. CASE o = m
      BY <1>2, <2>2, <3>1
    <3>2. CASE o # m
      <4>1. Live(o) /\ InProgress(o)
        BY <1>1, <2>2, <3>2 DEF Live
      <4>2. o.conn # m.conn
        BY <1>1, <2>2, <3>2, <4>1 DEF Live
      <4> QED  BY <1>2, <2>2, <4>1, <4>2, MessageFields DEF IndInv, CurrentOK
    <3> QED  BY <3>1, <3>2
  <2>3. ASSUME NEW a \in Messages, NEW o \in Messages, a # o, a.conn = o.conn,
               a.life = o.life, a.minor = 1, o.minor = 1
        PROVE  ~(InProgress(a)' /\ InProgress(o)')
    BY <1>1, <2>3 DEF IndInv, CurrentOK
  <2> QED  BY <2>1, <2>2, <2>3 DEF CurrentOK, ReadId
<1>7. EntryOK'
  BY <1>1, MessageFields DEF IndInv, EntryOK, Key, ReadId, Live
<1>8. DeliveredOK' /\ Whole'
  BY <1>1, HeadDelivered, MessageFields
  DEF IndInv, DeliveredOK, Whole, Pieces, Piece, Live
<1>9. NotLost'
  BY <1>1, MessageFields DEF IndInv, NotLost
<1> QED  BY <1>3, <1>4, <1>5, <1>6, <1>7, <1>8, <1>9 DEF IndInv

\* Nodes are removed, the others keep their messages
LEMMA Removal ==
  ASSUME KeysOrdered, IndInv, NEW K,
         DOMAIN table' = DOMAIN table \ K,
         \A k \in DOMAIN table' :
           /\ table'[k] \in Holder
           /\ table'[k].msg = table[k].msg /\ table'[k].pieces = table[k].pieces,
         Arrange
  PROVE  /\ disordered' = FALSE /\ lost' = {}
         /\ IsFiniteSet(DOMAIN table')
         /\ DOMAIN table' \subseteq MessageIds
         /\ \A k \in DOMAIN table' : \A o \in Messages :
              table'[k].msg = o =>
                k = Key(o) /\ InProgress(o) /\ table'[k].pieces = Pieces(o, received[o])
<1>1. \A k \in DOMAIN table' : k \in DOMAIN table /\ table[k].msg \in Messages
  BY DEF IndInv, TypeOK, Holder
<1>2. \A k \in DOMAIN table' : \E m \in Messages : k = Key(m)
  BY <1>1 DEF IndInv, TableOK
<1>3. disordered' = FALSE /\ lost' = {}
  BY <1>2, StaysInOrder DEF IndInv, TableOK
<1>4. IsFiniteSet(DOMAIN table') /\ DOMAIN table' \subseteq MessageIds
  BY FS_Subset DEF IndInv, TableOK, TypeOK
<1> QED  BY <1>1, <1>3, <1>4 DEF IndInv, TableOK

\* What one iteration of the loop leaves
LEMMA RemoveOldTable ==
  ASSUME IndInv, NEW m \in Messages, RemoveOld(m)
  PROVE  /\ DOMAIN table' = DOMAIN table \ Old
         /\ \A k \in DOMAIN table' :
              /\ table'[k] \in Holder
              /\ table'[k].msg = table[k].msg /\ table'[k].pieces = table[k].pieces
         /\ round' \in 0..(IntMax - 1)
<1> DEFINE rest == Without(Old)
<1>1. /\ DOMAIN rest = DOMAIN table \ Old
      /\ \A k \in DOMAIN rest : rest[k] = table[k] /\ rest[k] \in Holder
  BY DEF Without, IndInv, TypeOK
<1>2. \/ table' = rest /\ round' = round
      \/ IncRound(rest)
  BY DEF RemoveOld
<1> HIDE DEF rest
<1>3. round \in 0..(IntMax - 1)
  BY DEF IndInv, TypeOK
<1>4. CASE table' = rest /\ round' = round
  BY <1>1, <1>3, <1>4
<1>5. CASE IncRound(rest)
  <2>1. round' \in 0..(IntMax - 1)
    BY <1>3, <1>5, ConfAssumption DEF IncRound
  <2>2. CASE table' = rest
    BY <1>1, <2>1, <2>2
  <2>3. CASE table' = [k \in DOMAIN rest |-> [rest[k] EXCEPT !.age = -1]]
    BY <1>1, <2>1, <2>3 DEF Holder
  <2> QED  BY <1>5, <2>2, <2>3 DEF IncRound
<1> QED  BY <1>2, <1>4, <1>5

LEMMA RemoveOldInv ==
  ASSUME KeysOrdered, IndInv, NEW m \in Messages, RemoveOld(m)
  PROVE  IndInv'
<1>1. /\ DOMAIN table' = DOMAIN table \ Old
      /\ \A k \in DOMAIN table' :
              /\ table'[k] \in Holder
              /\ table'[k].msg = table[k].msg /\ table'[k].pieces = table[k].pieces
      /\ round' \in 0..(IntMax - 1)
  BY RemoveOldTable
<1>2. /\ disordered' = FALSE /\ lost' = {}
      /\ IsFiniteSet(DOMAIN table')
      /\ DOMAIN table' \subseteq MessageIds
      /\ \A k \in DOMAIN table' : \A o \in Messages :
           table'[k].msg = o =>
             k = Key(o) /\ InProgress(o) /\ table'[k].pieces = Pieces(o, received[o])
  <2>1. Arrange
    BY DEF RemoveOld
  <2> QED  BY <1>1, <2>1, Removal
<1>3. /\ putting = m /\ UNCHANGED <<connVars, received, cancelled, putting, delivered>>
      /\ evicted' = evicted \cup {table[k].msg : k \in Old}
      /\ evicting' \in BOOLEAN
      /\ ~evicting' => ~Full(Cardinality(DOMAIN table')) \/ DOMAIN table' = {}
  <2>1. DOMAIN Without(Old) = DOMAIN table'
    BY <1>1 DEF Without
  <2> QED  BY <2>1 DEF RemoveOld
<1> USE DEF connVars
<1>4. evicted' \subseteq Messages
  BY <1>3 DEF IndInv, TypeOK, Holder, Old
<1>5. TypeOK'
  BY <1>1, <1>2, <1>3, <1>4 DEF IndInv, TypeOK
<1>6. TableOK'
  BY <1>2, <1>3 DEF TableOK, InProgress, Key, ReadId, Pieces, Piece
<1>7. PuttingOK'
  <2>1. Cardinality(DOMAIN table') \in Nat
    BY <1>2, FS_CardinalityType
  <2>2. ~evicting' => Cardinality(DOMAIN table') < MaxUncompleted \/ DOMAIN table' = {}
    BY <1>3, <2>1, NotFull
  <2> QED  BY <1>3, <2>2 DEF IndInv, PuttingOK
<1>8. CurrentOK'
  BY <1>3 DEF IndInv, CurrentOK, Live, InProgress, ReadId
<1>9. EntryOK'
  <2> SUFFICES ASSUME NEW o \in Messages, Live(o), InProgress(o), putting # o
               PROVE  /\ Key(o) \in DOMAIN table' => table'[Key(o)].msg = o
                      /\ Key(o) \in DOMAIN table' \/ o \in cancelled \cup evicted'
    BY <1>3 DEF EntryOK, Live, InProgress, Key, ReadId
  <2>1. /\ Key(o) \in DOMAIN table => table[Key(o)].msg = o
        /\ Key(o) \in DOMAIN table \/ o \in cancelled \cup evicted
    BY DEF IndInv, EntryOK
  <2>2. Key(o) \in DOMAIN table' => table'[Key(o)].msg = o
    BY <1>1, <2>1
  <2>3. CASE Key(o) \in Old
    <3>1. Key(o) \in DOMAIN table
      BY <2>3 DEF Old
    <3>2. o \in {table[k].msg : k \in Old}
      BY <2>1, <2>3, <3>1, Zenon
    <3> QED  BY <1>3, <2>2, <3>2
  <2>4. CASE Key(o) \notin Old
    BY <1>1, <1>3, <2>1, <2>4
  <2> QED  BY <2>2, <2>3, <2>4
<1>10. DeliveredOK' /\ Whole'
  BY <1>3 DEF IndInv, DeliveredOK, Whole, Pieces, Piece
<1>11. NotLost'
  BY <1>3 DEF IndInv, NotLost
<1> QED  BY <1>5, <1>6, <1>7, <1>8, <1>9, <1>10, <1>11 DEF IndInv

\* The message gets its place; nothing of this connection was there
LEMMA AppendInv ==
  ASSUME KeysOrdered, IndInv, NEW m \in Messages, AppendMessage(m)
  PROVE  IndInv'
<1> DEFINE h == [msg |-> m, pieces |-> Pieces(m, 1), age |-> round - 1]
<1>1. /\ putting = m /\ ~evicting /\ putting' = NULL
      /\ UNCHANGED <<connVars, received, cancelled, round, evicting, delivered>>
  BY DEF AppendMessage
<1> USE DEF connVars
<1>2. /\ received[m] = 1 /\ m.parts > 1 /\ life[m.conn] = m.life
      /\ Cardinality(DOMAIN table) < MaxUncompleted \/ DOMAIN table = {}
      /\ InProgress(m) /\ received[m] # m.parts
  BY <1>1, MessageFields DEF IndInv, PuttingOK, InProgress
<1>3. PuttingOK'
  BY <1>1 DEF PuttingOK
<1>4. CurrentOK'
  BY <1>1 DEF IndInv, CurrentOK, Live, InProgress, ReadId
<1>5. DeliveredOK' /\ Whole'
  BY <1>1 DEF IndInv, DeliveredOK, Whole, Pieces, Piece
<1>6. CASE Cardinality(DOMAIN table) = MaxUncompleted
  <2>1. evicted' = evicted \cup {m} /\ UNCHANGED <<table, disordered, lost>>
    BY <1>6 DEF AppendMessage
  <2>2. DOMAIN table = {}
    BY <1>2, <1>6, ConfAssumption
  <2>3. TypeOK'
    BY <1>1, <2>1 DEF IndInv, TypeOK
  <2>4. TableOK'
    BY <1>1, <2>1, <2>2 DEF IndInv, TableOK
  <2>5. EntryOK'
    BY <1>1, <2>1, <2>2 DEF IndInv, EntryOK, Live, InProgress, Key, ReadId
  <2>6. NotLost'
    BY <1>1, <1>2, <2>1 DEF IndInv, NotLost
  <2> QED  BY <1>3, <1>4, <1>5, <2>3, <2>4, <2>5, <2>6 DEF IndInv
<1>7. CASE Cardinality(DOMAIN table) # MaxUncompleted
  <2>1. /\ table' = [k \in DOMAIN table \cup {Key(m)} |->
                       IF k = Key(m) THEN h ELSE table[k]]
        /\ Arrange /\ UNCHANGED evicted
    BY <1>7 DEF AppendMessage
  <2>2. h \in Holder /\ h.msg = m /\ h.pieces = Pieces(m, 1)
    <3>1. Pieces(m, 1) \in Seq(Messages \X Nat)
      BY PiecesType
    <3>2. round - 1 \in Int
      BY ConfAssumption DEF IndInv, TypeOK
    <3> QED  BY <3>1, <3>2 DEF Holder
  <2> HIDE DEF h
  <2>3. /\ DOMAIN table' = DOMAIN table \cup {Key(m)}
        /\ table'[Key(m)] = h
        /\ \A k \in DOMAIN table : k # Key(m) => table'[k] = table[k]
    BY <2>1
  <2>4. \A k \in DOMAIN table' : table'[k] \in Holder
    BY <2>2, <2>3 DEF IndInv, TypeOK
  <2>5. \A k \in DOMAIN table' : \A o \in Messages :
          table'[k].msg = o =>
            k = Key(o) /\ InProgress(o) /\ table'[k].pieces = Pieces(o, received[o])
    BY <1>2, <2>2, <2>3 DEF IndInv, TableOK
  <2>6. disordered' = FALSE /\ lost' = {}
    <3>1. \A k \in DOMAIN table' : \E o \in Messages : k = Key(o)
      BY <2>4, <2>5 DEF Holder
    <3> QED  BY <2>1, <3>1, StaysInOrder DEF IndInv, TableOK
  <2>7. IsFiniteSet(DOMAIN table') /\ DOMAIN table' \subseteq MessageIds
    <3>1. IsFiniteSet(DOMAIN table) /\ DOMAIN table \subseteq MessageIds
      BY DEF IndInv, TableOK, TypeOK
    <3>2. IsFiniteSet(DOMAIN table \cup {Key(m)})
      BY <3>1, FS_AddElement
    <3> QED  BY <2>3, <3>1, <3>2, KeyType
  <2>8. TypeOK'
    BY <1>1, <2>1, <2>4, <2>6, <2>7 DEF IndInv, TypeOK
  <2>9. TableOK'
    BY <1>1, <2>5, <2>6, <2>7 DEF TableOK, InProgress, Key, ReadId, Pieces, Piece
  <2>10. EntryOK'
    <3> SUFFICES ASSUME NEW o \in Messages, Live(o), InProgress(o)
                 PROVE  /\ Key(o) \in DOMAIN table' => table'[Key(o)].msg = o
                        /\ Key(o) \in DOMAIN table' \/ o \in cancelled \cup evicted
      BY <1>1, <2>1 DEF EntryOK, Live, InProgress, Key, ReadId
    <3>1. CASE o = m
      BY <2>2, <2>3, <3>1
    <3>2. CASE o # m
      <4>1. Key(o) # Key(m)
        <5> SUFFICES ASSUME Key(o) = Key(m)  PROVE FALSE
          OBVIOUS
        <5>1. o.conn = m.conn
          BY DEF Key
        <5>2. o.life = m.life
          BY <1>2, <5>1 DEF Live
        <5>3. o.minor = 1 /\ m.minor = 1
          BY <3>2, <5>2, SameKey
        <5> QED  BY <1>2, <3>2, <5>1, <5>2, <5>3 DEF IndInv, CurrentOK
      <4>2. /\ Key(o) \in DOMAIN table => table[Key(o)].msg = o
            /\ Key(o) \in DOMAIN table \/ o \in cancelled \cup evicted
        BY <1>1, <3>2 DEF IndInv, EntryOK
      <4> QED  BY <2>3, <4>1, <4>2
    <3> QED  BY <3>1, <3>2
  <2>11. NotLost'
    BY <1>1, <1>2, <2>1 DEF IndInv, NotLost
  <2> QED  BY <1>3, <1>4, <1>5, <2>8, <2>9, <2>10, <2>11 DEF IndInv
<1> QED  BY <1>6, <1>7

\* A fragment finds the message it belongs to, or none
LEMMA FragmentInv ==
  ASSUME KeysOrdered, IndInv, NEW m \in Messages, NEW n \in 2..m.parts,
         ManageFragment(m, n)
  PROVE  IndInv'
<1> DEFINE c == m.conn
           k == [connection |-> c,
                 request_id |-> IF m.minor = 2 THEN m.id ELSE current[c]]
           h == [table[k] EXCEPT !.pieces = Append(@, Piece(m, n))]
<1>0. m.parts \in Nat /\ n \in Nat /\ n >= 1 /\ n <= m.parts
  BY MessageFields
<1>1. /\ Live(m) /\ putting = NULL /\ m \notin cancelled
      /\ received[m] = n - 1
      /\ received' \in [Messages -> Nat]
      /\ received'[m] = n
      /\ \A o \in Messages \ {m} : received'[o] = received[o]
      /\ \A o \in Messages : received'[o] <= o.parts
      /\ \A o \in Messages \ {m} :
              o.conn = m.conn /\ o.life = m.life /\ o.minor = 1 => ~InProgress(o)
      /\ \A o \in Messages \ {m} : InProgress(o)' <=> InProgress(o)
      /\ InProgress(m)' <=> n < m.parts
  <2>1. Arrives(m, n)
    BY DEF ManageFragment
  <2> QED  BY <1>0, <2>1, ArrivesFacts DEF IndInv
<1>2. /\ InProgress(m) /\ received[m] # m.parts
  BY <1>0, <1>1 DEF InProgress
<1>3. k = Key(m)
  BY <1>1, <1>2, MessageFields DEF IndInv, CurrentOK, Key, ReadId
<1>4. /\ Key(m) \in DOMAIN table => table[Key(m)].msg = m
      /\ Key(m) \in DOMAIN table \/ m \in evicted
  BY <1>1, <1>2, MessageFields DEF IndInv, EntryOK
<1>5. /\ Found(k) <=> Key(m) \in DOMAIN table
  BY <1>3 DEF Found, IndInv, TableOK
<1>6. UNCHANGED <<open, life, cancelled, round, putting, evicting, evicted>>
  BY DEF ManageFragment
<1>7. delivered[m] = <<>>
  BY <1>2 DEF IndInv, DeliveredOK
<1>8. PuttingOK'
  BY <1>1, <1>6 DEF PuttingOK
<1>9. \A o \in Messages : Live(o)' <=> Live(o)
  BY <1>6 DEF Live
<1>10. \A kk \in DOMAIN table : table[kk].msg \in Messages
  BY DEF IndInv, TypeOK, Holder
<1>11. \A kk \in DOMAIN table : kk # Key(m) => table[kk].msg # m
  BY DEF IndInv, TableOK
<1>12. CASE ~Found(k)
  <2>1. UNCHANGED <<table, disordered, lost, current, delivered>>
    BY <1>12 DEF ManageFragment
  <2>2. TypeOK'
    BY <1>1, <1>6, <2>1 DEF IndInv, TypeOK
  <2>3. TableOK'
    <3>1. ASSUME NEW kk \in DOMAIN table, NEW o \in Messages, table[kk].msg = o
          PROVE  /\ kk = Key(o) /\ InProgress(o)'
                 /\ table[kk].pieces = Pieces(o, received'[o])
      <4>1. o # m
        BY <1>5, <1>11, <1>12, <3>1
      <4> QED  BY <1>1, <3>1, <4>1 DEF IndInv, TableOK
    <3> QED  BY <2>1, <3>1 DEF IndInv, TableOK, Key, ReadId, Pieces, Piece
  <2>4. CurrentOK'
    BY <1>1, <1>2, <1>9, <2>1 DEF IndInv, CurrentOK, ReadId
  <2>5. EntryOK'
    BY <1>1, <1>4, <1>5, <1>6, <1>9, <1>12, <2>1 DEF IndInv, EntryOK, Key, ReadId
  <2>6. DeliveredOK' /\ Whole'
    BY <1>1, <1>6, <1>7, <2>1, MessageFields
    DEF IndInv, DeliveredOK, Whole, Pieces, Piece, Live
  <2>7. NotLost'
    BY <1>1, <1>4, <1>5, <1>6, <1>12, <2>1 DEF IndInv, NotLost
  <2> QED  BY <1>8, <2>2, <2>3, <2>4, <2>5, <2>6, <2>7 DEF IndInv
<1>13. CASE Found(k)
  <2>1. Key(m) \in DOMAIN table /\ table[Key(m)].msg = m /\ table[Key(m)] \in Holder
    BY <1>4, <1>5, <1>13 DEF IndInv, TypeOK
  <2>2. table[Key(m)].pieces = Pieces(m, n - 1)
    BY <1>1, <2>1 DEF IndInv, TableOK
  <2>3. Append(table[Key(m)].pieces, Piece(m, n)) = Pieces(m, n)
    <3>1. n - 1 \in Nat /\ (n - 1) + 1 = n
      BY <1>0
    <3> QED  BY <2>2, <3>1, PiecesAppend
  <2>4. h.msg = m /\ h.pieces = Pieces(m, n) /\ h \in Holder
    <3>1. Pieces(m, n) \in Seq(Messages \X Nat)
      BY <1>0, PiecesType
    <3>2. h = [table[Key(m)] EXCEPT !.pieces = Pieces(m, n)]
      BY <1>3, <2>3
    <3> HIDE DEF h
    <3> QED  BY <2>1, <3>1, <3>2 DEF Holder
  <2>5. \A o \in Messages \ {m} : Live(o) /\ InProgress(o) => Key(o) # Key(m)
    BY <1>1, <2>1, MessageFields DEF IndInv, EntryOK
  <2>6. CASE n < m.parts
    <3>1. /\ table' = [table EXCEPT ![Key(m)] = h]
          /\ UNCHANGED <<disordered, lost, current, delivered>>
      BY <1>3, <1>13, <2>6 DEF ManageFragment
    <3> HIDE DEF h, k
    <3>2. /\ DOMAIN table' = DOMAIN table
          /\ table'[Key(m)] = h
          /\ \A kk \in DOMAIN table : kk # Key(m) => table'[kk] = table[kk]
      BY <2>1, <3>1
    <3>3. TypeOK'
      BY <1>1, <1>6, <2>4, <3>1, <3>2 DEF IndInv, TypeOK
    <3>4. TableOK'
      <4>1. ASSUME NEW kk \in DOMAIN table, NEW o \in Messages, table'[kk].msg = o
            PROVE  /\ kk = Key(o) /\ InProgress(o)'
                   /\ table'[kk].pieces = Pieces(o, received'[o])
        <5>1. CASE kk = Key(m)
          BY <1>1, <2>4, <2>6, <3>2, <4>1, <5>1
        <5>2. CASE kk # Key(m)
          BY <1>1, <1>11, <3>2, <4>1, <5>2 DEF IndInv, TableOK
        <5> QED  BY <5>1, <5>2
      <4> QED  BY <3>1, <3>2, <4>1 DEF IndInv, TableOK, Key, ReadId, Pieces, Piece
    <3>5. CurrentOK'
      BY <1>1, <1>2, <1>9, <3>1 DEF IndInv, CurrentOK, ReadId
    <3>6. EntryOK'
      <4> SUFFICES ASSUME NEW o \in Messages, Live(o), InProgress(o)'
                   PROVE  /\ Key(o) \in DOMAIN table' => table'[Key(o)].msg = o
                          /\ Key(o) \in DOMAIN table' \/ o \in cancelled \cup evicted
        BY <1>6, <1>9 DEF EntryOK, Key, ReadId
      <4>1. CASE o = m
        BY <2>1, <2>4, <3>2, <4>1
      <4>2. CASE o # m
        <5>1. InProgress(o) /\ Key(o) # Key(m) /\ putting # o
          BY <1>1, <2>5, <4>2, MessageFields
        <5> QED  BY <3>2, <5>1 DEF IndInv, EntryOK
      <4> QED  BY <4>1, <4>2
    <3>7. DeliveredOK' /\ Whole'
      BY <1>1, <1>6, <1>7, <3>1, MessageFields
      DEF IndInv, DeliveredOK, Whole, Pieces, Piece, Live
    <3>8. NotLost'
      BY <1>0, <1>1, <1>6, <2>6, <3>1 DEF IndInv, NotLost
    <3> QED  BY <1>8, <3>3, <3>4, <3>5, <3>6, <3>7, <3>8 DEF IndInv
  <2>7. CASE ~(n < m.parts)
    <3>0. n = m.parts
      BY <1>0, <2>7
    <3>1. /\ table' = Without({Key(m)}) /\ Arrange
          /\ Deliver(m, Pieces(m, n))
          /\ \/ current' = current
             \/ m.type = "Reply" /\ current' = [current EXCEPT ![c] = 0]
      <4>1. /\ table' = Without({k}) /\ Arrange
            /\ Deliver(h.msg, h.pieces)
            /\ current' = IF h.msg.type = "Reply" THEN [current EXCEPT ![c] = 0]
                          ELSE current
        BY <1>13, <2>7 DEF ManageFragment
      <4> HIDE DEF h, k
      <4> QED  BY <1>3, <2>4, <4>1
    <3> HIDE DEF h, k
    <3>2. /\ DOMAIN table' = DOMAIN table \ {Key(m)}
          /\ \A kk \in DOMAIN table' : table'[kk] = table[kk] /\ table'[kk] \in Holder
      BY <3>1 DEF Without, IndInv, TypeOK
    <3>3. /\ disordered' = FALSE /\ lost' = {}
          /\ IsFiniteSet(DOMAIN table')
          /\ DOMAIN table' \subseteq MessageIds
          /\ \A kk \in DOMAIN table' : \A o \in Messages :
               table'[kk].msg = o =>
                 /\ kk = Key(o) /\ InProgress(o)
                 /\ table'[kk].pieces = Pieces(o, received[o])
      BY <3>1, <3>2, Removal
    <3>4. /\ delivered' \in [Messages -> Seq(Seq(Messages \X Nat))]
          /\ delivered'[m] = <<Pieces(m, n)>>
          /\ \A o \in Messages \ {m} : delivered'[o] = delivered[o]
      <4> DEFINE p == Pieces(m, n)
      <4>1. p \in Seq(Messages \X Nat)
        BY <1>0, PiecesType
      <4>2. delivered' = [delivered EXCEPT ![m] = Append(<<>>, p)]
        BY <1>7, <3>1 DEF Deliver
      <4> HIDE DEF p
      <4>3. Append(<<>>, p) = <<p>> /\ <<p>> \in Seq(Seq(Messages \X Nat))
        BY <4>1
      <4>4. /\ delivered' \in [Messages -> Seq(Seq(Messages \X Nat))]
            /\ delivered'[m] = <<p>>
            /\ \A o \in Messages \ {m} : delivered'[o] = delivered[o]
        BY <4>2, <4>3 DEF IndInv, TypeOK
      <4> QED  BY <4>4 DEF p
    <3>5. /\ current' \in [Conns -> Nat]
          /\ \A d \in Conns : current'[d] = 0 \/ current'[d] = current[d]
          /\ \A d \in Conns : d # m.conn => current'[d] = current[d]
      <4>1. current \in [Conns -> Nat] /\ c \in Conns
        BY MessageFields DEF IndInv, TypeOK
      <4>2. CASE current' = current
        BY <4>1, <4>2
      <4>3. CASE current' = [current EXCEPT ![c] = 0]
        BY <4>1, <4>3
      <4> QED  BY <3>1, <4>2, <4>3
    <3>6. TypeOK'
      BY <1>1, <1>6, <3>2, <3>3, <3>4, <3>5 DEF IndInv, TypeOK
    <3>7. TableOK'
      <4>1. \A kk \in DOMAIN table' : table'[kk].msg # m
        BY <1>11, <3>2
      <4> QED  BY <1>1, <3>3, <4>1 DEF TableOK, Key, ReadId, Pieces, Piece
    <3>8. CurrentOK'
      <4>1. \A d \in Conns : Mode[d] = "SERVER" => current'[d] = 0
        BY <3>5 DEF IndInv, CurrentOK
      <4>2. ASSUME NEW o \in Messages, Live(o)', InProgress(o)', o.minor = 1
            PROVE  current'[o.conn] = ReadId(o)
        <5>1. o # m /\ Live(o) /\ InProgress(o)
          BY <1>1, <1>9, <2>7, <4>2
        <5>2. o.conn # m.conn
          BY <1>1, <4>2, <5>1 DEF Live
        <5> QED  BY <3>5, <4>2, <5>1, <5>2, MessageFields DEF IndInv, CurrentOK
      <4>3. ASSUME NEW a \in Messages, NEW o \in Messages, a # o, a.conn = o.conn,
                   a.life = o.life, a.minor = 1, o.minor = 1
            PROVE  ~(InProgress(a)' /\ InProgress(o)')
        BY <1>1, <1>2, <4>3 DEF IndInv, CurrentOK
      <4> QED  BY <4>1, <4>2, <4>3 DEF CurrentOK, ReadId
    <3>9. EntryOK'
      <4> SUFFICES ASSUME NEW o \in Messages, Live(o), InProgress(o)'
                   PROVE  /\ Key(o) \in DOMAIN table' => table'[Key(o)].msg = o
                          /\ Key(o) \in DOMAIN table' \/ o \in cancelled \cup evicted
        BY <1>6, <1>9 DEF EntryOK, Key, ReadId
      <4>1. o # m
        BY <1>1, <2>7
      <4>2. InProgress(o) /\ Key(o) # Key(m) /\ putting # o
        BY <1>1, <2>5, <4>1, MessageFields
      <4> QED  BY <3>2, <4>2 DEF IndInv, EntryOK
    <3>10. DeliveredOK' /\ Whole'
      <4>1. DeliveredOK'
        <5>1. received'[m] = m.parts /\ m.life <= life'[m.conn]
          BY <1>1, <1>6, <3>0, MessageFields DEF Live
        <5>2. \A o \in Messages \ {m} :
                received'[o] = received[o] /\ delivered'[o] = delivered[o] /\ life' = life
          BY <1>1, <1>6, <3>4
        <5> QED  BY <5>1, <5>2 DEF IndInv, DeliveredOK
      <4>2. Whole'
        BY <3>0, <3>4 DEF IndInv, Whole, Pieces, Piece
      <4> QED  BY <4>1, <4>2
    <3>11. NotLost'
      <4>1. delivered'[m] # <<>>
        BY <3>4
      <4> QED  BY <1>1, <1>6, <3>4, <4>1 DEF IndInv, NotLost
    <3> QED  BY <1>8, <3>6, <3>7, <3>8, <3>9, <3>10, <3>11 DEF IndInv
  <2> QED  BY <2>6, <2>7
<1> QED  BY <1>12, <1>13

\* CancelRequest removes the message it is about, if any
LEMMA CancelInv ==
  ASSUME KeysOrdered, IndInv, NEW m \in Messages, ManageCancel(m)
  PROVE  IndInv'
<1> DEFINE k == [connection |-> m.conn, request_id |-> m.id]
<1>1. /\ m.minor = 2 /\ Live(m) /\ InProgress(m) /\ m \notin cancelled
      /\ putting = NULL /\ cancelled' = cancelled \cup {m}
      /\ UNCHANGED <<connVars, received, round, putting, evicting, evicted,
                     delivered>>
      /\ \/ table' = Without({k}) /\ Arrange /\ Found(k)
         \/ UNCHANGED <<table, disordered, lost>> /\ ~Found(k)
  BY DEF ManageCancel, Live
<1> USE DEF connVars
<1>2. k = Key(m)
  BY <1>1 DEF Key, ReadId
<1> HIDE DEF k
<1>3. /\ PuttingOK' /\ CurrentOK' /\ DeliveredOK' /\ Whole' /\ NotLost'
  BY <1>1, MessageFields
  DEF IndInv, PuttingOK, CurrentOK, Live, InProgress, ReadId, DeliveredOK, Whole,
      Pieces, Piece, NotLost
<1>4. CASE UNCHANGED <<table, disordered, lost>>
  <2>1. TypeOK' /\ TableOK'
    BY <1>1, <1>4 DEF IndInv, TypeOK, TableOK, InProgress, Key, ReadId, Pieces, Piece
  <2>2. EntryOK'
    BY <1>1, <1>4 DEF IndInv, EntryOK, Live, InProgress, Key, ReadId
  <2> QED  BY <1>3, <2>1, <2>2 DEF IndInv
<1>5. CASE table' = Without({k}) /\ Arrange /\ Found(k)
  <2>1. /\ DOMAIN table' = DOMAIN table \ {Key(m)}
        /\ \A kk \in DOMAIN table' : table'[kk] = table[kk] /\ table'[kk] \in Holder
    BY <1>2, <1>5 DEF Without, IndInv, TypeOK
  <2>2. /\ disordered' = FALSE /\ lost' = {}
        /\ IsFiniteSet(DOMAIN table')
        /\ DOMAIN table' \subseteq MessageIds
        /\ \A kk \in DOMAIN table' : \A o \in Messages :
             table'[kk].msg = o =>
               /\ kk = Key(o) /\ InProgress(o)
               /\ table'[kk].pieces = Pieces(o, received[o])
    BY <1>5, <2>1, Removal
  <2>3. TypeOK' /\ TableOK'
    BY <1>1, <2>1, <2>2
    DEF IndInv, TypeOK, TableOK, InProgress, Key, ReadId, Pieces, Piece
  <2>4. EntryOK'
    <3> SUFFICES ASSUME NEW o \in Messages, Live(o), InProgress(o)
                 PROVE  /\ Key(o) \in DOMAIN table' => table'[Key(o)].msg = o
                        /\ \/ Key(o) \in DOMAIN table'
                           \/ o \in cancelled \cup {m} \cup evicted
      BY <1>1 DEF EntryOK, Live, InProgress, Key, ReadId
    <3>1. /\ Key(m) \in DOMAIN table => table[Key(m)].msg = m
          /\ Key(o) \in DOMAIN table => table[Key(o)].msg = o
          /\ Key(o) \in DOMAIN table \/ o \in cancelled \cup evicted
      BY <1>1, MessageFields DEF IndInv, EntryOK
    <3>2. CASE o = m
      BY <2>1, <3>2
    <3>3. CASE o # m
      BY <2>1, <3>1, <3>3
    <3> QED  BY <3>2, <3>3
  <2> QED  BY <1>3, <2>3, <2>4 DEF IndInv
<1> QED  BY <1>1, <1>4, <1>5

\* All connections and the repository
LEMMA CloseInv ==
  ASSUME IndInv, NEW c \in Conns, Close(c)
  PROVE  IndInv'
<1> USE DEF Close, tableVars
<1>1. /\ open' \in [Conns -> BOOLEAN]
      /\ \A o \in Messages : Live(o)' => Live(o)
      /\ \A o \in Messages : open'[o.conn] => open[o.conn]
  BY MessageFields DEF IndInv, TypeOK, Live
<1>2. TypeOK' /\ TableOK' /\ PuttingOK'
  BY <1>1
  DEF IndInv, TypeOK, TableOK, PuttingOK, InProgress, Key, ReadId, Pieces, Piece
<1>3. CurrentOK' /\ EntryOK'
  BY <1>1 DEF IndInv, CurrentOK, EntryOK, InProgress, Key, ReadId
<1>4. DeliveredOK' /\ Whole'
  BY DEF IndInv, DeliveredOK, Whole, Pieces, Piece
<1>5. NotLost'
  BY <1>1 DEF IndInv, NotLost
<1> QED  BY <1>2, <1>3, <1>4, <1>5 DEF IndInv

LEMMA ConnectInv ==
  ASSUME IndInv, NEW c \in Conns, Connect(c)
  PROVE  IndInv'
<1> USE DEF Connect, tableVars
<1>1. /\ open' \in [Conns -> BOOLEAN]
      /\ life' \in [Conns -> 1..MaxLives] /\ current' \in [Conns -> Nat]
      /\ life'[c] = life[c] + 1 /\ current'[c] = 0
      /\ \A d \in Conns \ {c} :
           life'[d] = life[d] /\ current'[d] = current[d] /\ open'[d] = open[d]
  BY ConfAssumption DEF IndInv, TypeOK
<1>2. TypeOK' /\ TableOK'
  BY <1>1 DEF IndInv, TypeOK, TableOK, InProgress, Key, ReadId, Pieces, Piece
<1>3. PuttingOK'
  <2>1. ASSUME putting # NULL  PROVE putting \in Messages /\ putting.conn \in Conns \ {c}
    BY <2>1, MessageFields DEF IndInv, TypeOK
  <2> QED  BY <1>1, <2>1 DEF IndInv, PuttingOK
<1>4. \A o \in Messages : Live(o)' =>
        \/ Live(o) /\ o.conn # c
        \/ received[o] = 0
  <2> SUFFICES ASSUME NEW o \in Messages, Live(o)', o.conn = c  PROVE received[o] = 0
    BY <1>1, MessageFields DEF Live
  <2>1. o.life = life[c] + 1 /\ life[c] \in Nat
    BY <1>1 DEF Live, IndInv, TypeOK
  <2>2. ~(o.life <= life[c])
    BY <2>1
  <2> QED  BY <2>2 DEF IndInv, DeliveredOK
<1>5. \A o \in Messages : Live(o)' /\ InProgress(o) => Live(o) /\ o.conn # c
  BY <1>4 DEF InProgress
<1>6. CurrentOK'
  <2>1. \A d \in Conns : Mode[d] = "SERVER" => current'[d] = 0
    BY <1>1 DEF IndInv, CurrentOK
  <2>2. ASSUME NEW o \in Messages, Live(o)', InProgress(o), o.minor = 1
        PROVE  current'[o.conn] = ReadId(o)
    BY <1>1, <1>5, <2>2, MessageFields DEF IndInv, CurrentOK
  <2> QED  BY <2>1, <2>2 DEF IndInv, CurrentOK, InProgress, ReadId
<1>7. EntryOK'
  BY <1>5 DEF IndInv, EntryOK, InProgress, Key, ReadId
<1>8. DeliveredOK' /\ Whole'
  <2>1. \A d \in Conns : life[d] \in Nat /\ (life'[d] = life[d] \/ life'[d] = life[d] + 1)
    BY <1>1 DEF IndInv, TypeOK
  <2> QED  BY <2>1, MessageFields DEF IndInv, DeliveredOK, Whole, Pieces, Piece
<1>9. NotLost'
  <2> SUFFICES ASSUME NEW o \in Messages, received[o] = o.parts, putting # o, Live(o)'
               PROVE  delivered[o] # <<>> \/ o \in evicted
    BY DEF NotLost, Live
  <2>1. Live(o)
    BY <1>4, MessageFields
  <2> QED  BY <2>1 DEF IndInv, NotLost, Live
<1> QED  BY <1>2, <1>3, <1>6, <1>7, <1>8, <1>9 DEF IndInv

LEMMA DestroyInv ==
  ASSUME KeysOrdered, IndInv, Destroy
  PROVE  IndInv'
<1> USE DEF connVars
<1>1. /\ putting = NULL /\ DOMAIN table' = {}
      /\ evicted' = evicted \cup {table[k].msg : k \in DOMAIN table}
      /\ Arrange
      /\ UNCHANGED <<connVars, received, cancelled, round, putting, evicting,
                     delivered>>
  BY DEF Destroy, Without
<1>2. disordered' = FALSE /\ lost' = {}
  BY <1>1, StaysInOrder DEF IndInv, TableOK
<1>3. evicted' \subseteq Messages
  BY <1>1 DEF IndInv, TypeOK, Holder
<1>4. TypeOK'
  BY <1>1, <1>2, <1>3 DEF IndInv, TypeOK
<1>5. TableOK' /\ PuttingOK'
  BY <1>1, <1>2, FS_EmptySet DEF TableOK, PuttingOK
<1>6. CurrentOK'
  BY <1>1 DEF IndInv, CurrentOK, Live, InProgress, ReadId
<1>7. EntryOK'
  <2> SUFFICES ASSUME NEW o \in Messages, Live(o), InProgress(o)
               PROVE  o \in cancelled \cup evicted'
    BY <1>1 DEF EntryOK, Live, InProgress
  <2>1. /\ Key(o) \in DOMAIN table => table[Key(o)].msg = o
        /\ Key(o) \in DOMAIN table \/ o \in cancelled \cup evicted
    BY <1>1, MessageFields DEF IndInv, EntryOK
  <2>2. CASE Key(o) \in DOMAIN table
    <3>1. o \in {table[k].msg : k \in DOMAIN table}
      BY <2>1, <2>2, Zenon
    <3> QED  BY <1>1, <3>1
  <2> QED  BY <1>1, <2>1, <2>2
<1>8. DeliveredOK' /\ Whole' /\ NotLost'
  BY <1>1 DEF IndInv, DeliveredOK, Whole, Pieces, Piece, NotLost
<1> QED  BY <1>4, <1>5, <1>6, <1>7, <1>8 DEF IndInv

\* Every step keeps the invariant
LEMMA StepInv ==
  ASSUME KeysOrdered, IndInv, [Next]_vars
  PROVE  IndInv'
<1>1. CASE UNCHANGED vars
  BY <1>1
  DEF vars, connVars, tableVars, IndInv, TypeOK, TableOK, PuttingOK, CurrentOK,
      EntryOK, DeliveredOK, Whole, NotLost, Live, InProgress, Key, ReadId, Pieces,
      Piece
<1>2. ASSUME NEW m \in Messages, Put(m)  PROVE IndInv'
  BY <1>2, RemoveOldInv, AppendInv DEF Put
<1>3. ASSUME NEW m \in Messages, ManageRequest(m)  PROVE IndInv'
  <2>1. m.type = "Request" /\ Arrives(m, 1) /\ UNCHANGED cancelled
    BY <1>3 DEF ManageRequest
  <2>2. \/ CloseByError(m.conn)
        \/ /\ m.parts > 1 /\ PutMessage(m)
           /\ current' = IF m.minor = 1 THEN [current EXCEPT ![m.conn] = ReadId(m)]
                         ELSE current
        \/ /\ ~(m.parts > 1)
           /\ Deliver(m, Pieces(m, 1)) /\ UNCHANGED <<connVars, tableVars>>
    BY <1>3 DEF ManageRequest
  <2>3. ~(m.parts > 1) => m.parts = 1
    BY MessageFields
  <2> QED  BY <2>1, <2>2, <2>3, HeadClose, HeadPut, HeadDeliver
<1>4. ASSUME NEW m \in Messages, ManageReply(m)  PROVE IndInv'
  <2>1. m.type = "Reply" /\ Arrives(m, 1) /\ UNCHANGED cancelled
    BY <1>4 DEF ManageReply
  <2>2. \/ CloseByError(m.conn)
        \/ /\ m.parts > 1 /\ PutMessage(m) /\ Mode[m.conn] # "SERVER"
           /\ current' = IF m.minor = 1 THEN [current EXCEPT ![m.conn] = ReadId(m)]
                         ELSE current
        \/ /\ ~(m.parts > 1)
           /\ Deliver(m, Pieces(m, 1)) /\ UNCHANGED <<connVars, tableVars>>
    BY <1>4 DEF ManageReply
  <2>3. ~(m.parts > 1) => m.parts = 1
    BY MessageFields
  <2> QED  BY <2>1, <2>2, <2>3, HeadClose, HeadPut, HeadDeliver
<1>5. ASSUME NEW m \in Messages, ManageLocate(m)  PROVE IndInv'
  <2>1. Arrives(m, 1) /\ UNCHANGED cancelled
    BY <1>5 DEF ManageLocate
  <2>2. \/ CloseByError(m.conn)
        \/ /\ ~(m.parts > 1)
           /\ Deliver(m, Pieces(m, 1)) /\ UNCHANGED <<connVars, tableVars>>
    BY <1>5 DEF ManageLocate
  <2>3. ~(m.parts > 1) => m.parts = 1
    BY MessageFields
  <2> QED  BY <2>1, <2>2, <2>3, HeadClose, HeadDeliver
<1>6. ASSUME NEW m \in Messages, Manage(m)  PROVE IndInv'
  BY <1>3, <1>4, <1>5, <1>6, CancelInv, FragmentInv DEF Manage
<1> QED
  BY <1>1, <1>2, <1>6, CloseInv, ConnectInv, DestroyInv DEF Next

\* The invariant holds for ever
THEOREM Invariance ==
  ASSUME KeysOrdered
  PROVE  Spec => []IndInv
<1>1. Init => IndInv
  BY InitInv
<1>2. IndInv /\ [Next]_vars => IndInv'
  BY StepInv
<1> QED  BY <1>1, <1>2, PTL DEF Spec

\* Types, among them the rounds, which start again before INT_MAX
THEOREM TypeCorrect ==
  ASSUME KeysOrdered
  PROVE  Spec => []TypeOK
<1>1. IndInv => TypeOK
  BY DEF IndInv
<1> QED  BY <1>1, Invariance, PTL

\* add_fragment returns a message that is the one that was sent, whole and once,
\* for all messages whose keys are in an order, any table and any interleaving
THEOREM MessagesAreWhole ==
  ASSUME KeysOrdered
  PROVE  Spec => []Whole
<1>1. IndInv => Whole
  BY DEF IndInv
<1> QED  BY <1>1, Invariance, PTL

\* Under the same condition only the limit of the table loses a message
THEOREM OnlyTheLimitLoses ==
  ASSUME KeysOrdered
  PROVE  Spec => []NotLost
<1>1. IndInv => NotLost
  BY DEF IndInv
<1> QED  BY <1>1, Invariance, PTL

\* FullUseTableException is never thrown, if the table may hold anything at all
THEOREM FullNeverHappens ==
  ASSUME KeysOrdered, MaxUncompleted # 0
  PROVE  Spec => []FullIsUnreachable
<1>1. IndInv => FullIsUnreachable
  <2>1. Cardinality({}) < MaxUncompleted
    BY FS_EmptySet, ConfAssumption
  <2> QED  BY <2>1 DEF IndInv, PuttingOK, FullIsUnreachable
<1> QED  BY <1>1, Invariance, PTL

=============================================================================
