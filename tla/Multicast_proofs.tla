------------------------- MODULE Multicast_proofs -------------------------
(***************************************************************************)
(* Proofs about module Multicast, for any number of clients, requests,     *)
(* members, packets and faults: what the reader hands on is whole, and no  *)
(* member hears more than was read.                                        *)
(***************************************************************************)
EXTENDS Multicast, FiniteSetTheorems, TLAPS

\* The places of a collection that hold a chunk
Filled(c) == {i \in 0..(c.number - 1) : c.chunks[i] # NULL}

\* A collection counts its chunks, and they are where their headers say
Good(u, c) ==
  /\ IsCollection(c)
  /\ c.inserted = Cardinality(Filled(c))
  /\ \A i \in Filled(c) :
       /\ c.chunks[i] \in Packets
       /\ c.chunks[i][2] = i
       /\ id[c.chunks[i][1]] = u
       /\ parts[c.chunks[i][1]] = c.number

TableOK ==
  /\ \A u \in DOMAIN collections : Good(u, collections[u])
  /\ completed # NULL => collections[completed].inserted = collections[completed].number

\* What is on its way has an id and its place among the packets
SentOK ==
  /\ \A m \in Messages : pc[m] = "idle" => id[m] = NULL /\ next[m] = 0
  /\ \A m \in Messages : pc[m] = "writing" => id[m] # NULL
  /\ \A p \in Packets : net[p] > 0 => id[p[1]] # NULL /\ p[2] < parts[p[1]]

\* A connection gives no id twice
IdsOK ==
  /\ \A m \in Messages :
       id[m] # NULL =>
         /\ via[m] <= opened[Sender[m]]
         /\ via[m] = opened[Sender[m]] => id[m] < idCount[Sender[m]]
  /\ \A m, n \in Messages :
       id[m] # NULL /\ id[m] = id[n] /\ SameConnection(m, n) => m = n

\* An id is associated once
MembersOK == \A j, k \in DOMAIN ids : ids[j] = ids[k] => j = k

IndInv == TypeOK /\ TableOK /\ SentOK /\ IdsOK /\ MembersOK /\ NoExtraCopies

-----------------------------------------------------------------------------
(* The operators                                                           *)

\* A packet is a request and a number
LEMMA PacketType ==
  ASSUME NEW p \in Packets
  PROVE  /\ p[1] \in Messages /\ p[2] \in Nat /\ p[2] \in 0..(MaxParts - 1)
         /\ p = <<p[1], p[2]>> /\ p # NULL
  BY GroupAssumption DEF Packets

\* The fields of a collection
LEMMA CollectionType ==
  ASSUME NEW c, IsCollection(c)
  PROVE  /\ c.number \in Nat /\ c.number # 0
         /\ c.inserted \in Nat /\ c.inserted <= c.number
         /\ c.chunks \in [0..(c.number - 1) -> Packets \cup {NULL}]
         /\ c = [number |-> c.number, inserted |-> c.inserted, chunks |-> c.chunks]
  BY DEF IsCollection

\* n places
LEMMA Places ==
  ASSUME NEW n \in Nat, n # 0
  PROVE  IsFiniteSet(0..(n - 1)) /\ Cardinality(0..(n - 1)) = n
<1>1. 0 \in Int /\ n - 1 \in Int /\ ~(0 > n - 1) /\ (n - 1) - 0 + 1 = n
  OBVIOUS
<1>2. /\ IsFiniteSet(0..(n - 1))
      /\ Cardinality(0..(n - 1)) = IF 0 > n - 1 THEN 0 ELSE (n - 1) - 0 + 1
  BY <1>1, FS_Interval
<1> QED  BY <1>1, <1>2

\* There are finitely many chunks in a collection, and all if there are as many
\* as places
LEMMA FilledFinite ==
  ASSUME NEW c, IsCollection(c)
  PROVE  /\ IsFiniteSet(Filled(c))
         /\ Cardinality(Filled(c)) \in Nat
         /\ Cardinality(Filled(c)) <= c.number
         /\ Cardinality(Filled(c)) = c.number => Filled(c) = 0..(c.number - 1)
<1>1. c.number \in Nat /\ c.number # 0
  BY CollectionType
<1>2. IsFiniteSet(0..(c.number - 1)) /\ Cardinality(0..(c.number - 1)) = c.number
  BY <1>1, Places
<1>3. Filled(c) \in SUBSET (0..(c.number - 1))
  BY DEF Filled
<1>4. IsFiniteSet(Filled(c)) /\ Cardinality(Filled(c)) \in Nat
  BY <1>2, <1>3, FS_Subset, FS_CardinalityType
<1>5. /\ Cardinality(Filled(c)) <= Cardinality(0..(c.number - 1))
      /\ Cardinality(0..(c.number - 1)) = Cardinality(Filled(c)) => 0..(c.number - 1) = Filled(c)
  BY <1>2, <1>3, FS_Subset
<1> QED  BY <1>2, <1>4, <1>5

\* Insert puts a packet at its place and counts it, or leaves the collection
LEMMA InsertGood ==
  ASSUME NEW p \in Packets, p[2] < parts[p[1]], NEW c, Good(id[p[1]], c)
  PROVE  Good(id[p[1]], Insert(p, c))
<1> DEFINE d == [number |-> c.number, inserted |-> c.inserted + 1,
                 chunks |-> [c.chunks EXCEPT ![p[2]] = p]]
<1>1. CASE ~(c.number = parts[p[1]] /\ c.chunks[p[2]] = NULL)
  BY <1>1 DEF Insert
<1>2. CASE c.number = parts[p[1]] /\ c.chunks[p[2]] = NULL
  <2>1. IsCollection(c) /\ Insert(p, c) = d
    BY <1>2 DEF Insert, Good
  <2>2. p[2] \in 0..(c.number - 1) /\ p[2] \notin Filled(c) /\ p # NULL
    BY <1>2, <2>1, PacketType, CollectionType DEF Filled
  <2>3. /\ d.number = c.number /\ d.inserted = c.inserted + 1
        /\ d.chunks \in [0..(c.number - 1) -> Packets \cup {NULL}]
        /\ \A i \in 0..(c.number - 1) : d.chunks[i] = IF i = p[2] THEN p ELSE c.chunks[i]
        /\ d = [number |-> d.number, inserted |-> d.inserted, chunks |-> d.chunks]
    <3>1. /\ c.number \in Nat /\ c.inserted \in Nat
          /\ c.chunks \in [0..(c.number - 1) -> Packets \cup {NULL}]
          /\ c = [number |-> c.number, inserted |-> c.inserted, chunks |-> c.chunks]
      BY <2>1, CollectionType
    <3> QED  BY <2>2, <3>1
  <2>4. Filled(d) = Filled(c) \cup {p[2]}
    BY <2>2, <2>3 DEF Filled
  <2>5. Cardinality(Filled(d)) = Cardinality(Filled(c)) + 1
    <3>1. IsFiniteSet(Filled(c))
      BY <2>1, FilledFinite
    <3>2. Cardinality(Filled(c) \cup {p[2]}) = Cardinality(Filled(c)) + 1
      BY <2>2, <3>1, FS_AddElement
    <3> QED  BY <2>4, <3>2
  <2>6. d.inserted = Cardinality(Filled(d))
    BY <2>3, <2>5 DEF Good
  <2>7. Filled(d) \in SUBSET (0..(c.number - 1)) /\ Cardinality(Filled(d)) <= c.number
    <3>1. IsFiniteSet(0..(c.number - 1)) /\ Cardinality(0..(c.number - 1)) = c.number
      BY <2>1, CollectionType, Places
    <3>2. Filled(d) \in SUBSET (0..(c.number - 1))
      BY <2>3 DEF Filled
    <3> QED  BY <3>1, <3>2, FS_Subset
  <2>8. IsCollection(d)
    BY <2>1, <2>3, <2>6, <2>7, CollectionType DEF IsCollection
  <2>9. \A i \in Filled(d) :
          /\ d.chunks[i] \in Packets /\ d.chunks[i][2] = i
          /\ id[d.chunks[i][1]] = id[p[1]] /\ parts[d.chunks[i][1]] = d.number
    BY <1>2, <2>3, <2>4, <2>2 DEF Good, Filled
  <2> QED  BY <2>1, <2>6, <2>8, <2>9 DEF Good
<1> QED  BY <1>1, <1>2

\* A new collection has one chunk
LEMMA NewGood ==
  ASSUME NEW p \in Packets, p[2] < parts[p[1]], parts[p[1]] \in Nat
  PROVE  Good(id[p[1]], NewCollection(p))
<1> DEFINE c == NewCollection(p)
<1>1. /\ c.number = parts[p[1]] /\ c.inserted = 1
      /\ c.chunks = [i \in 0..(c.number - 1) |-> IF i = p[2] THEN p ELSE NULL]
      /\ c = [number |-> c.number, inserted |-> c.inserted, chunks |-> c.chunks]
  BY DEF NewCollection
<1>2. c.number \in Nat /\ c.number # 0 /\ p[2] \in 0..(c.number - 1)
  BY <1>1, PacketType
<1>3. IsCollection(c)
  <2>1. c.chunks \in [0..(c.number - 1) -> Packets \cup {NULL}]
    BY <1>1
  <2> QED  BY <1>1, <1>2, <2>1 DEF IsCollection
<1>4. Filled(c) = {p[2]}
  BY <1>1, <1>2, PacketType DEF Filled
<1>5. Cardinality(Filled(c)) = 1
  BY <1>4, FS_Singleton
<1> QED  BY <1>1, <1>2, <1>3, <1>4, <1>5 DEF Good


-----------------------------------------------------------------------------
(* The steps                                                               *)

\* Nothing is read and nobody hears: the table keeps its chunks or is emptied
LEMMA TableKept ==
  ASSUME IndInv, UNCHANGED <<id, parts, heard, arrived, completed>>,
         \/ UNCHANGED collections
         \/ completed = NULL /\ collections' = NoCollections
  PROVE  TableOK' /\ NoExtraCopies'
<1>1. CASE UNCHANGED collections
  <2>1. TableOK'
    <3>1. ASSUME NEW u \in DOMAIN collections
          PROVE  Good(u, collections[u])'
      <4>1. Good(u, collections[u])
        BY DEF IndInv, TableOK
      <4> QED  BY <1>1, <4>1 DEF Good, Filled, IsCollection
    <3> QED  BY <1>1, <3>1 DEF IndInv, TableOK
  <2>2. NoExtraCopies'
    BY <1>1 DEF IndInv, NoExtraCopies, Held
  <2> QED  BY <2>1, <2>2
<1>2. CASE completed = NULL /\ collections' = NoCollections
  <2>1. DOMAIN collections' = {}
    BY <1>2 DEF NoCollections
  <2>2. TableOK'
    BY <1>2, <2>1 DEF TableOK
  <2>3. \A p \in Packets : ~Held(p)'
    BY <2>1 DEF Held
  <2>4. NoExtraCopies'
    <3> SUFFICES ASSUME NEW o \in Members, NEW p \in Packets
                 PROVE  (heard[o][p] + (IF Held(p) THEN 1 ELSE 0) <= arrived[p])'
      BY DEF NoExtraCopies
    <3>1. heard[o][p] + (IF Held(p) THEN 1 ELSE 0) <= arrived[p]
      BY DEF IndInv, NoExtraCopies
    <3>2. heard[o][p] \in Nat /\ arrived[p] \in Nat
      BY DEF IndInv, TypeOK
    <3> QED  BY <2>3, <3>1, <3>2
  <2> QED  BY <2>2, <2>4
<1> QED  BY <1>1, <1>2

\* A request gets an id of its own on its connection
LEMMA SendStep ==
  ASSUME IndInv, NEW m \in Messages, Send(m)
  PROVE  IndInv'
<1> DEFINE c == Sender[m]
           found == InClientConnections(c)
           count == IF found THEN idCount[c] ELSE 0
<1>1. c \in Clients
  BY GroupAssumption
<1>2. TypeOK
  BY DEF IndInv
<1>3. count \in Nat /\ id[m] = NULL /\ count # NULL
  BY <1>1, <1>2, GroupAssumption DEF IndInv, SentOK, Send, TypeOK
<1>4. /\ id' = [id EXCEPT ![m] = count]
      /\ pc' = [pc EXCEPT ![m] = "writing"]
      /\ opened' = IF found THEN opened ELSE [opened EXCEPT ![c] = @ + 1]
      /\ idCount' = [idCount EXCEPT ![c] = count + 1]
      /\ via' = [via EXCEPT ![m] = opened'[c]]
  BY DEF Send
<1>5. PICK n \in 1..MaxParts : parts' = [parts EXCEPT ![m] = n]
  BY DEF Send
<1>6. TypeOK'
  <2>1. next[m] = 0
    BY DEF IndInv, SentOK, Send
  <2>2. opened' \in [Clients -> Nat] /\ idCount' \in [Clients -> Nat]
    <3>1. opened \in [Clients -> Nat] /\ idCount \in [Clients -> Nat]
      BY <1>2 DEF TypeOK
    <3>2. idCount' \in [Clients -> Nat]
      <4>1. idCount' = [idCount EXCEPT ![c] = count + 1]
        BY <1>4
      <4>2. count + 1 \in Nat
        BY <1>3
      <4> HIDE DEF c, count
      <4> QED  BY <3>1, <4>1, <4>2
    <3>3. opened' \in [Clients -> Nat]
      <4> HIDE DEF found
      <4> QED  BY <1>1, <1>4, <3>1
    <3> QED  BY <3>2, <3>3
  <2>5. via' \in [Messages -> Nat] /\ id' \in [Messages -> Nat \cup {NULL}]
    <3>1. opened'[c] \in Nat
      BY <1>1, <2>2
    <3>2. via' \in [Messages -> Nat]
      BY <1>2, <1>4, <3>1 DEF TypeOK
    <3>3. id' \in [Messages -> Nat \cup {NULL}]
      BY <1>2, <1>3, <1>4 DEF TypeOK
    <3> QED  BY <3>2, <3>3
  <2>6. parts' \in [Messages -> 0..MaxParts]
    <3>1. n \in 0..MaxParts
      BY GroupAssumption
    <3> QED  BY <1>2, <1>5, <3>1 DEF TypeOK
  <2>7. pc' \in [Messages -> {"idle", "writing", "sent", "failed"}]
    BY <1>2, <1>4 DEF TypeOK
  <2>3. /\ cstate' \in [Clients -> {"none", "OPEN", "ERROR"}]
        /\ writer' \in [Clients -> Messages \cup {NULL}]
    BY <1>1, <1>2 DEF TypeOK, Send
  <2>4. \A k \in Messages :
          next'[k] <= parts'[k] /\ (pc'[k] = "writing" => next'[k] < parts'[k])
    <3> SUFFICES ASSUME NEW k \in Messages
                 PROVE  next'[k] <= parts'[k] /\ (pc'[k] = "writing" => next'[k] < parts'[k])
      OBVIOUS
    <3>1. next' = next
      BY DEF Send
    <3>2. CASE k = m
      <4>1. parts'[k] = n /\ next'[k] = 0
        BY <1>2, <1>5, <2>1, <3>1, <3>2 DEF TypeOK
      <4> QED  BY <4>1, GroupAssumption
    <3>3. CASE k # m
      BY <1>2, <1>4, <1>5, <3>1, <3>3 DEF TypeOK
    <3> QED  BY <3>2, <3>3
  <2> QED  BY <1>2, <2>2, <2>3, <2>4, <2>5, <2>6, <2>7 DEF TypeOK, Send, serverVars, netVars, groupVars, IsCollection
<1>7. SentOK'
  <2>1. \A k \in Messages : /\ pc'[k] = "idle" => id'[k] = NULL /\ next'[k] = 0
                            /\ pc'[k] = "writing" => id'[k] # NULL
    BY <1>2, <1>3, <1>4 DEF IndInv, SentOK, TypeOK, Send
  <2>2. ASSUME NEW p \in Packets, net'[p] > 0
        PROVE  id'[p[1]] # NULL /\ p[2] < parts'[p[1]]
    <3>1. net[p] > 0
      BY <2>2 DEF Send, netVars
    <3>2. id[p[1]] # NULL /\ p[2] < parts[p[1]]
      BY <3>1 DEF IndInv, SentOK
    <3>3. p[1] \in Messages /\ p[1] # m
      BY <1>3, <3>2, PacketType
    <3> QED  BY <1>2, <1>4, <1>5, <3>2, <3>3 DEF TypeOK
  <2> QED  BY <2>1, <2>2 DEF SentOK
<1>8. IdsOK'
  <2>1. \A k \in Messages : k # m => id'[k] = id[k] /\ via'[k] = via[k]
    BY <1>2, <1>4 DEF TypeOK
  <2>2. id'[m] = count /\ via'[m] = opened'[c] /\ idCount'[c] = count + 1
    BY <1>1, <1>2, <1>4 DEF TypeOK
  <2>3. /\ \A d \in Clients : d # c => opened'[d] = opened[d] /\ idCount'[d] = idCount[d]
        /\ opened'[c] = IF found THEN opened[c] ELSE opened[c] + 1
    BY <1>1, <1>2, <1>4 DEF TypeOK
  <2>4. ASSUME NEW k \in Messages, k # m, id[k] # NULL, Sender[k] = c
        PROVE  /\ via[k] <= opened'[c]
               /\ via[k] = opened'[c] => id[k] < count
    <3>1. /\ via[k] <= opened[c] /\ (via[k] = opened[c] => id[k] < idCount[c])
          /\ via[k] \in Nat /\ opened[c] \in Nat
      BY <1>1, <1>2, <2>4 DEF IndInv, IdsOK, TypeOK
    <3> QED  BY <2>3, <3>1
  <2>5. ASSUME NEW k \in Messages, id'[k] # NULL
        PROVE  /\ via'[k] <= opened'[Sender[k]]
               /\ via'[k] = opened'[Sender[k]] => id'[k] < idCount'[Sender[k]]
    <3>1. CASE k = m
      BY <1>1, <1>3, <1>6, <2>2, <3>1 DEF TypeOK
    <3>2. CASE k # m /\ Sender[k] = c
      <4>1. id'[k] = id[k] /\ via'[k] = via[k] /\ id[k] \in Nat
        BY <1>2, <2>1, <2>5, <3>2 DEF TypeOK
      <4> QED  BY <1>3, <2>2, <2>4, <2>5, <3>2, <4>1
    <3>3. CASE k # m /\ Sender[k] # c
      <4>1. Sender[k] \in Clients
        BY GroupAssumption
      <4> QED  BY <2>1, <2>3, <2>5, <3>3, <4>1 DEF IndInv, IdsOK
    <3> QED  BY <3>1, <3>2, <3>3
  <2>6. ASSUME NEW k \in Messages, k # m, id'[k] = id'[m],
               Sender[k] = Sender[m], via'[k] = via'[m]
        PROVE  FALSE
    <3>1. id[k] = count /\ id[k] # NULL /\ via[k] = opened'[c]
      BY <1>3, <2>1, <2>2, <2>6
    <3>2. id[k] < count
      BY <2>4, <2>6, <3>1
    <3> QED  BY <1>3, <3>1, <3>2
  <2>7. ASSUME NEW j \in Messages, NEW k \in Messages, id'[j] # NULL, id'[j] = id'[k],
               Sender[j] = Sender[k], via'[j] = via'[k]
        PROVE  j = k
    <3>1. CASE j # m /\ k # m
      BY <2>1, <2>7, <3>1 DEF IndInv, IdsOK, SameConnection
    <3>2. CASE j = m \/ k = m
      BY <2>6, <2>7, <3>2
    <3> QED  BY <3>1, <3>2
  <2> QED  BY <2>5, <2>7 DEF IdsOK, SameConnection
<1>9. collections' = collections /\ completed' = completed /\ heard' = heard /\ arrived' = arrived /\ ids' = ids
  BY DEF Send, serverVars, groupVars, netVars
<1>10. ASSUME NEW u \in DOMAIN collections, NEW i \in Filled(collections[u])
       PROVE  /\ collections[u].chunks[i] \in Packets
              /\ collections[u].chunks[i][1] # m
              /\ id'[collections[u].chunks[i][1]] = u
              /\ parts'[collections[u].chunks[i][1]] = collections[u].number
  <2> DEFINE q == collections[u].chunks[i]
  <2>1. /\ q \in Packets /\ id[q[1]] = u /\ parts[q[1]] = collections[u].number
        /\ u \in Nat /\ u # NULL
    BY <1>2, GroupAssumption DEF IndInv, TableOK, Good, TypeOK
  <2>2. q[1] \in Messages /\ q[1] # m
    BY <1>3, <2>1, PacketType
  <2> QED  BY <1>2, <1>4, <1>5, <2>1, <2>2 DEF TypeOK
<1>11. TableOK'
  <2>1. ASSUME NEW u \in DOMAIN collections
        PROVE  Good(u, collections[u])'
    <3>1. Good(u, collections[u])
      BY DEF IndInv, TableOK
    <3> QED  BY <1>9, <1>10, <3>1 DEF Good, Filled, IsCollection
  <2> QED  BY <1>9, <2>1 DEF IndInv, TableOK
<1>12. NoExtraCopies'
  <2> SUFFICES ASSUME NEW o \in Members, NEW p \in Packets
               PROVE  (heard[o][p] + (IF Held(p) THEN 1 ELSE 0) <= arrived[p])'
    BY DEF NoExtraCopies
  <2>1. heard[o][p] + (IF Held(p) THEN 1 ELSE 0) <= arrived[p]
    BY DEF IndInv, NoExtraCopies
  <2>2. heard[o][p] \in Nat /\ arrived[p] \in Nat
    BY <1>2 DEF TypeOK
  <2>3. Held(p)' => Held(p)
    <3> SUFFICES ASSUME Held(p)' PROVE Held(p)
      OBVIOUS
    <3>1. /\ id'[p[1]] \in DOMAIN collections
          /\ p[2] < collections[id'[p[1]]].number
          /\ collections[id'[p[1]]].chunks[p[2]] = p
      BY <1>9 DEF Held
    <3>2. p[2] \in Filled(collections[id'[p[1]]])
      <4>1. collections[id'[p[1]]].number \in Nat
        BY <1>2, <3>1, CollectionType DEF TypeOK
      <4> QED  BY <3>1, <4>1, PacketType DEF Filled
    <3>3. p[1] # m
      BY <1>10, <3>1, <3>2
    <3>4. id'[p[1]] = id[p[1]]
      BY <1>2, <1>4, <3>3, PacketType DEF TypeOK
    <3> QED  BY <3>1, <3>4 DEF Held
  <2> QED  BY <1>9, <2>1, <2>2, <2>3
<1>13. MembersOK'
  BY <1>9 DEF IndInv, MembersOK
<1> QED  BY <1>6, <1>7, <1>8, <1>11, <1>12, <1>13 DEF IndInv

\* A step that neither gives an id, nor reads, nor lets a member hear
LEMMA OtherStep ==
  ASSUME IndInv, UNCHANGED <<id, parts, via, opened, idCount, heard, arrived, completed>>,
         \/ UNCHANGED collections
         \/ completed = NULL /\ collections' = NoCollections,
         TypeOK', SentOK', MembersOK'
  PROVE  IndInv'
<1>1. TableOK' /\ NoExtraCopies'
  BY TableKept
<1>2. IdsOK'
  BY DEF IndInv, IdsOK, SameConnection
<1> QED  BY <1>1, <1>2 DEF IndInv

\* A request that fails is never written
LEMMA FailStep ==
  ASSUME IndInv, NEW m \in Messages, OpenFails(m) \/ SendRefused(m) \/ WriteFails(m)
  PROVE  IndInv'
<1>1. /\ pc' = [pc EXCEPT ![m] = "failed"]
      /\ UNCHANGED <<via, id, parts, next, opened, cstate, idCount, writer, netVars, serverVars, groupVars, heard>>
      /\ breaks' = breaks \/ (breaks < MaxBreaks /\ breaks' = breaks + 1)
  BY DEF OpenFails, SendRefused, WriteFails
<1>2. TypeOK'
  <2>1. pc' \in [Messages -> {"idle", "writing", "sent", "failed"}] /\ breaks' \in 0..MaxBreaks
    BY <1>1, GroupAssumption DEF IndInv, TypeOK
  <2>2. \A k \in Messages :
          next'[k] <= parts'[k] /\ (pc'[k] = "writing" => next'[k] < parts'[k])
    BY <1>1 DEF IndInv, TypeOK
  <2> QED  BY <1>1, <2>1, <2>2 DEF IndInv, TypeOK, netVars, serverVars, groupVars
<1>3. SentOK'
  BY <1>1 DEF IndInv, TypeOK, SentOK, netVars
<1>4. MembersOK'
  BY <1>1 DEF IndInv, MembersOK, groupVars
<1> QED  BY <1>1, <1>2, <1>3, <1>4, OtherStep DEF netVars, serverVars

\* A packet is written with the header of its request
LEMMA WritePacketStep ==
  ASSUME IndInv, NEW m \in Messages, WritePacket(m)
  PROVE  IndInv'
<1> DEFINE q == <<m, next[m]>>
<1>1. TypeOK /\ Sender[m] \in Clients
  BY GroupAssumption DEF IndInv
<1>2. /\ pc[m] = "writing"
      /\ net' = [net EXCEPT ![q] = @ + 1]
      /\ next' = [next EXCEPT ![m] = @ + 1]
      /\ pc' = [pc EXCEPT ![m] = IF next'[m] = parts[m] THEN "sent" ELSE @]
      /\ writer' = [writer EXCEPT ![Sender[m]] = IF pc'[m] = "sent" THEN NULL ELSE m]
      /\ UNCHANGED <<via, id, parts, opened, cstate, idCount, arrived, lost, duplicates, breaks, serverVars, groupVars, heard>>
  BY DEF WritePacket
<1>3. /\ next[m] \in Nat /\ next[m] < parts[m] /\ parts[m] \in 0..MaxParts
      /\ id[m] # NULL /\ q \in Packets
  <2>1. next[m] \in Nat /\ next[m] < parts[m] /\ parts[m] \in 0..MaxParts
    BY <1>1, <1>2 DEF TypeOK
  <2>2. id[m] # NULL
    BY <1>2 DEF IndInv, SentOK
  <2>3. next[m] \in 0..(MaxParts - 1)
    BY <2>1, GroupAssumption
  <2> QED  BY <2>1, <2>2, <2>3 DEF Packets
<1>4. /\ next' \in [Messages -> Nat] /\ next'[m] = next[m] + 1
      /\ pc'[m] = IF next[m] + 1 = parts[m] THEN "sent" ELSE "writing"
      /\ pc' \in [Messages -> {"idle", "writing", "sent", "failed"}]
  BY <1>1, <1>2, <1>3 DEF TypeOK
<1>5. TypeOK'
  <2>1. net' \in [Packets -> Nat]
    BY <1>1, <1>2, <1>3 DEF TypeOK
  <2>2. writer' \in [Clients -> Messages \cup {NULL}]
    BY <1>1, <1>2 DEF TypeOK
  <2>3. ASSUME NEW k \in Messages
        PROVE  next'[k] <= parts'[k] /\ (pc'[k] = "writing" => next'[k] < parts'[k])
    <3>1. CASE k = m
      BY <1>2, <1>3, <1>4, <3>1
    <3>2. CASE k # m
      BY <1>1, <1>2, <3>2 DEF TypeOK
    <3> QED  BY <3>1, <3>2
  <2> QED  BY <1>1, <1>2, <1>4, <2>1, <2>2, <2>3 DEF TypeOK, serverVars, groupVars
<1>6. SentOK'
  <2>1. ASSUME NEW k \in Messages
        PROVE  /\ pc'[k] = "idle" => id'[k] = NULL /\ next'[k] = 0
               /\ pc'[k] = "writing" => id'[k] # NULL
    <3>1. CASE k = m
      BY <1>2, <1>3, <1>4, <3>1
    <3>2. CASE k # m
      BY <1>1, <1>2, <3>2 DEF IndInv, SentOK, TypeOK
    <3> QED  BY <3>1, <3>2
  <2>2. ASSUME NEW p \in Packets, net'[p] > 0
        PROVE  id'[p[1]] # NULL /\ p[2] < parts'[p[1]]
    <3>1. CASE p = q
      BY <1>2, <1>3, <3>1
    <3>2. CASE p # q
      <4>1. net[p] > 0
        BY <1>1, <1>2, <2>2, <3>2 DEF TypeOK
      <4> QED  BY <1>2, <4>1 DEF IndInv, SentOK
    <3> QED  BY <3>1, <3>2
  <2> QED  BY <2>1, <2>2 DEF SentOK
<1>7. MembersOK'
  BY <1>2 DEF IndInv, MembersOK, groupVars
<1> QED  BY <1>2, <1>5, <1>6, <1>7, OtherStep DEF serverVars

\* A broken connection gives no more ids
LEMMA WriteBreaksStep ==
  ASSUME IndInv, NEW m \in Messages, WriteBreaks(m)
  PROVE  IndInv'
<1>1. TypeOK /\ Sender[m] \in Clients
  BY GroupAssumption DEF IndInv
<1>2. /\ breaks < MaxBreaks /\ breaks' = breaks + 1
      /\ cstate' = [cstate EXCEPT ![Sender[m]] = "ERROR"]
      /\ writer' = [writer EXCEPT ![Sender[m]] = NULL]
      /\ pc' = [pc EXCEPT ![m] = "failed"]
      /\ UNCHANGED <<via, id, parts, next, opened, idCount, netVars, serverVars, groupVars, heard>>
  BY DEF WriteBreaks
<1>3. TypeOK'
  <2>1. pc' \in [Messages -> {"idle", "writing", "sent", "failed"}] /\ breaks' \in 0..MaxBreaks
    BY <1>1, <1>2, GroupAssumption DEF TypeOK
  <2>2. /\ cstate' \in [Clients -> {"none", "OPEN", "ERROR"}]
        /\ writer' \in [Clients -> Messages \cup {NULL}]
    BY <1>1, <1>2 DEF TypeOK
  <2>3. \A k \in Messages :
          next'[k] <= parts'[k] /\ (pc'[k] = "writing" => next'[k] < parts'[k])
    BY <1>1, <1>2 DEF TypeOK
  <2> QED  BY <1>1, <1>2, <2>1, <2>2, <2>3 DEF TypeOK, netVars, serverVars, groupVars
<1>4. SentOK'
  BY <1>1, <1>2 DEF IndInv, TypeOK, SentOK, netVars
<1>5. MembersOK'
  BY <1>2 DEF IndInv, MembersOK, groupVars
<1> QED  BY <1>2, <1>3, <1>4, <1>5, OtherStep DEF netVars, serverVars

\* The network makes no packets
LEMMA NetworkStep ==
  ASSUME IndInv, NEW p \in Packets, Lose(p) \/ Duplicate(p)
  PROVE  IndInv'
<1>1. TypeOK /\ p[1] \in Messages
  BY PacketType DEF IndInv
<1>2. /\ net[p] > 0
      /\ net' = [net EXCEPT ![p] = @ - 1] \/ net' = [net EXCEPT ![p] = @ + 1]
      /\ lost' = lost \/ lost' = lost \cup {p[1]}
      /\ duplicates' = duplicates \/ (duplicates < MaxDuplicates /\ duplicates' = duplicates + 1)
      /\ UNCHANGED <<clientVars, arrived, breaks, serverVars, groupVars, heard>>
  BY DEF Lose, Duplicate
<1>3. /\ net' \in [Packets -> Nat]
      /\ \A q \in Packets : net'[q] > 0 => net[q] > 0
  <2>1. net \in [Packets -> Nat]
    BY <1>1 DEF TypeOK
  <2>2. CASE net' = [net EXCEPT ![p] = @ - 1]
    <3>1. net[p] - 1 \in Nat
      BY <1>2, <2>1
    <3> QED  BY <2>1, <2>2, <3>1
  <2>3. CASE net' = [net EXCEPT ![p] = @ + 1]
    BY <1>2, <2>1, <2>3
  <2> QED  BY <1>2, <2>2, <2>3
<1>4. TypeOK'
  <2>1. lost' \subseteq Messages /\ duplicates' \in 0..MaxDuplicates
    BY <1>1, <1>2, GroupAssumption DEF TypeOK
  <2> QED  BY <1>1, <1>2, <1>3, <2>1 DEF TypeOK, clientVars, serverVars, groupVars
<1>5. SentOK'
  BY <1>2, <1>3 DEF IndInv, SentOK, clientVars
<1>6. MembersOK'
  BY <1>2 DEF IndInv, MembersOK, groupVars
<1> QED  BY <1>2, <1>4, <1>5, <1>6, OtherStep DEF clientVars, serverVars

\* A closed connection leaves its table
LEMMA CloseServerStep ==
  ASSUME IndInv, CloseServer
  PROVE  IndInv'
<1>1. TypeOK
  BY DEF IndInv
<1>2. /\ breaks < MaxBreaks /\ breaks' = breaks + 1
      /\ sstate' = "ERROR" /\ joined' = multicast
      /\ thrown' = thrown \cup InCollections
      /\ UNCHANGED <<clientVars, netVars, collections, completed, groupVars, heard>>
  BY DEF CloseServer
<1>3. TypeOK'
  <2>1. thrown' \subseteq Messages
    BY <1>1, <1>2 DEF TypeOK, InCollections
  <2>2. breaks' \in 0..MaxBreaks /\ joined' \in BOOLEAN
    BY <1>1, <1>2, GroupAssumption DEF TypeOK
  <2> QED  BY <1>1, <1>2, <2>1, <2>2 DEF TypeOK, clientVars, netVars, groupVars
<1>4. SentOK'
  BY <1>2 DEF IndInv, SentOK, clientVars, netVars
<1>5. MembersOK'
  BY <1>2 DEF IndInv, MembersOK, groupVars
<1> QED  BY <1>2, <1>3, <1>4, <1>5, OtherStep DEF clientVars, netVars

-----------------------------------------------------------------------------
(* The group                                                               *)

\* An operation of GOAImpl leaves an id in the table at most once
LEMMA GroupStep ==
  ASSUME IndInv,
         UNCHANGED <<clientVars, netVars, completed, thrown, multicast, limit, heard>>,
         \/ UNCHANGED collections
         \/ completed = NULL /\ collections' = NoCollections,
         breaks' \in 0..MaxBreaks,
         sstate' \in {"none", "OPEN", "ERROR"}, joined' \in BOOLEAN,
         references' \subseteq Generated,
         ids' \in Seq(Members), MembersOK'
  PROVE  IndInv'
<1>1. TypeOK'
  <2>1. DOMAIN collections' \subseteq Nat /\ completed' \in DOMAIN collections' \cup {NULL}
    BY DEF IndInv, TypeOK, NoCollections
  <2>2. \A u \in DOMAIN collections' : IsCollection(collections'[u])
    BY DEF IndInv, TypeOK, NoCollections
  <2> QED  BY <2>1, <2>2 DEF IndInv, TypeOK, clientVars, netVars
<1>2. SentOK'
  BY DEF IndInv, SentOK, clientVars, netVars
<1> QED  BY <1>1, <1>2, OtherStep DEF clientVars, netVars

\* Associated adds an id that is not there
LEMMA AssociatedOnce ==
  ASSUME IndInv, NEW o \in Members, ids' = Associated(o)
  PROVE  ids' \in Seq(Members) /\ MembersOK'
<1>1. ids \in Seq(Members) /\ MembersOK
  BY DEF IndInv, TypeOK
<1>2. CASE IsAssociated(o)
  BY <1>1, <1>2 DEF Associated, MembersOK
<1>3. CASE ~IsAssociated(o)
  <2>1. ids' = Append(ids, o) /\ \A k \in DOMAIN ids : ids[k] # o
    BY <1>3 DEF Associated, IsAssociated
  <2>2. /\ ids' \in Seq(Members)
        /\ DOMAIN ids' = 1..(Len(ids) + 1) /\ DOMAIN ids = 1..Len(ids) /\ Len(ids) \in Nat
        /\ \A k \in 1..Len(ids) : ids'[k] = ids[k]
        /\ ids'[Len(ids) + 1] = o
    BY <1>1, <2>1
  <2>3. ASSUME NEW j \in DOMAIN ids', NEW k \in DOMAIN ids', ids'[j] = ids'[k]
        PROVE  j = k
    BY <1>1, <2>1, <2>2, <2>3 DEF MembersOK
  <2> QED  BY <2>2, <2>3 DEF MembersOK
<1> QED  BY <1>2, <1>3

\* Disassociated takes one id out
LEMMA DisassociatedOnce ==
  ASSUME IndInv, NEW o \in Members, ids' = Disassociated(o)
  PROVE  ids' \in Seq(Members) /\ MembersOK'
<1>1. ids \in Seq(Members) /\ MembersOK
  BY DEF IndInv, TypeOK
<1>2. CASE ~IsAssociated(o)
  BY <1>1, <1>2 DEF Disassociated, MembersOK
<1>3. CASE IsAssociated(o)
  <2> DEFINE k == CHOOSE k \in DOMAIN ids : ids[k] = o /\ \A j \in DOMAIN ids : ids[j] = o => k <= j
             n == Len(ids)
  <2>1. DOMAIN ids = 1..n /\ n \in Nat /\ \A j \in 1..n : ids[j] \in Members
    BY <1>1
  <2>2. PICK l \in DOMAIN ids : ids[l] = o
    BY <1>3 DEF IsAssociated
  <2>3. \A j \in DOMAIN ids : ids[j] = o => l <= j
    BY <1>1, <2>1, <2>2 DEF MembersOK
  <2>4. k \in 1..n /\ ids[k] = o
    BY <2>1, <2>2, <2>3
  <2>5. ids' = [j \in 1..(n - 1) |-> IF j = k THEN ids[n] ELSE ids[j]]
    BY <1>3 DEF Disassociated
  <2> HIDE DEF k
  <2>6. n - 1 \in Nat /\ n \in 1..n
    BY <2>1, <2>4
  <2>7. ids' \in Seq(Members)
    BY <2>1, <2>5, <2>6
  <2>8. ASSUME NEW i \in 1..(n - 1), NEW j \in 1..(n - 1), ids'[i] = ids'[j]
        PROVE  i = j
    <3>1. /\ ids'[i] = (IF i = k THEN ids[n] ELSE ids[i])
          /\ ids'[j] = (IF j = k THEN ids[n] ELSE ids[j])
      BY <2>5
    <3>2. \A a, b \in 1..n : ids[a] = ids[b] => a = b
      BY <1>1, <2>1 DEF MembersOK
    <3>3. i \in 1..n /\ j \in 1..n /\ i # n /\ j # n
      <4>1. n \in Nat
        BY <2>1
      <4> HIDE DEF n
      <4> QED  BY <4>1
    <3>4. CASE i # k /\ j # k
      BY <2>8, <3>1, <3>2, <3>3, <3>4
    <3>5. CASE i = k /\ j # k
      BY <2>6, <2>8, <3>1, <3>2, <3>3, <3>5
    <3>6. CASE i # k /\ j = k
      BY <2>6, <2>8, <3>1, <3>2, <3>3, <3>6
    <3> QED  BY <3>4, <3>5, <3>6
  <2>9. DOMAIN ids' = 1..(n - 1)
    BY <2>5
  <2> QED  BY <2>7, <2>8, <2>9 DEF MembersOK
<1> QED  BY <1>2, <1>3

\* The operations that only change the ids of the group
LEMMA AssociationStep ==
  ASSUME IndInv, NEW o \in Members, Associate(o) \/ Disassociate(o) \/ Deactivate(o)
  PROVE  IndInv'
<1>1. /\ ids' = Associated(o) \/ ids' = Disassociated(o)
      /\ UNCHANGED <<clientVars, netVars, breaks, serverVars, multicast, limit, references, heard>>
  BY DEF Associate, Disassociate, Deactivate
<1>2. ids' \in Seq(Members) /\ MembersOK'
  BY <1>1, AssociatedOnce, DisassociatedOnce
<1>3. /\ breaks' \in 0..MaxBreaks /\ references' \subseteq Generated
      /\ sstate' \in {"none", "OPEN", "ERROR"} /\ joined' \in BOOLEAN
  BY <1>1 DEF IndInv, TypeOK, serverVars
<1> QED  BY <1>1, <1>2, <1>3, GroupStep DEF serverVars

\* A new reference opens the server connection with an empty table
LEMMA CreateIdStep ==
  ASSUME IndInv, NEW o \in Members, CreateId(o)
  PROVE  IndInv'
<1>1. /\ o \in Generated /\ references' = references \cup {o} /\ ids' = Associated(o)
      /\ joined' = TRUE
      /\ \/ UNCHANGED <<sstate, collections>>
         \/ completed = NULL /\ sstate' = "OPEN" /\ collections' = NoCollections
      /\ UNCHANGED <<clientVars, netVars, breaks, completed, thrown, multicast, limit, heard>>
  BY DEF CreateId, IsNextOID
<1>2. ids' \in Seq(Members) /\ MembersOK'
  BY <1>1, AssociatedOnce
<1>3. /\ breaks' \in 0..MaxBreaks /\ references' \subseteq Generated
      /\ sstate' \in {"none", "OPEN", "ERROR"} /\ joined' \in BOOLEAN
  BY <1>1 DEF IndInv, TypeOK
<1> QED  BY <1>1, <1>2, <1>3, GroupStep

\* A reference whose connection could not be opened is kept
LEMMA CreateIdFailsStep ==
  ASSUME IndInv, NEW o \in Members, CreateIdFails(o)
  PROVE  IndInv'
<1>1. /\ o \in Generated /\ references' = references \cup {o}
      /\ breaks < MaxBreaks /\ breaks' = breaks + 1
      /\ UNCHANGED <<clientVars, netVars, serverVars, multicast, limit, ids, heard>>
  BY DEF CreateIdFails, IsNextOID
<1>2. ids' \in Seq(Members) /\ MembersOK'
  BY <1>1 DEF IndInv, TypeOK, MembersOK
<1>3. /\ references' \subseteq Generated
      /\ sstate' \in {"none", "OPEN", "ERROR"} /\ joined' \in BOOLEAN
  BY <1>1 DEF IndInv, TypeOK, serverVars
<1>4. breaks' \in 0..MaxBreaks
  BY <1>1, GroupAssumption DEF IndInv, TypeOK
<1> QED  BY <1>1, <1>2, <1>3, <1>4, GroupStep DEF serverVars

-----------------------------------------------------------------------------
(* The reader                                                              *)


\* A packet is put into its collection, which is new or not
LEMMA ReceiveStep ==
  ASSUME IndInv, NEW p \in Packets, Receive(p)
  PROVE  IndInv'
<1> DEFINE u == id[p[1]]
           found == u \in DOMAIN collections
           rest == IF found THEN collections ELSE AfterEviction
           c == IF found THEN Insert(p, collections[u]) ELSE NewCollection(p)
<1>1. /\ completed = NULL /\ net[p] > 0
      /\ net' = [net EXCEPT ![p] = @ - 1]
      /\ arrived' = [arrived EXCEPT ![p] = @ + 1]
      /\ collections' = With(rest, u, c)
      /\ completed' = IF c.inserted = c.number THEN u ELSE NULL
      /\ thrown' = IF rest = collections THEN thrown ELSE thrown \cup InCollections
      /\ UNCHANGED <<clientVars, lost, duplicates, breaks, sstate, joined, groupVars, heard>>
  BY DEF Receive
<1>2. TypeOK
  BY DEF IndInv
<1>3. UNCHANGED <<pc, via, id, parts, next, opened, cstate, idCount, writer, multicast, limit, ids, references>>
  BY <1>1 DEF clientVars, groupVars
<1>4. /\ p[1] \in Messages /\ p[2] < parts[p[1]] /\ parts[p[1]] \in Nat
      /\ u \in Nat /\ u # NULL
  <2>1. p[1] \in Messages
    BY PacketType
  <2>2. id[p[1]] # NULL /\ p[2] < parts[p[1]]
    BY <1>1 DEF IndInv, SentOK
  <2>3. id[p[1]] \in Nat \cup {NULL} /\ parts[p[1]] \in Nat
    BY <1>2, <2>1, GroupAssumption DEF TypeOK
  <2> QED  BY <2>1, <2>2, <2>3
<1>5. \A v \in DOMAIN collections : Good(v, collections[v])
  BY DEF IndInv, TableOK
<1>6. Good(u, c)
  <2>1. CASE found
    BY <1>4, <1>5, <2>1, InsertGood
  <2>2. CASE ~found
    BY <1>4, <2>2, NewGood
  <2> QED  BY <2>1, <2>2
<1>7. /\ DOMAIN rest \subseteq DOMAIN collections
      /\ \A v \in DOMAIN rest : rest[v] = collections[v]
  BY DEF AfterEviction, NoCollections
<1>8. /\ DOMAIN collections' = DOMAIN rest \cup {u}
      /\ collections'[u] = c
      /\ \A v \in DOMAIN rest : v # u => collections'[v] = collections[v]
  <2> HIDE DEF rest, c, u
  <2> QED  BY <1>1, <1>7 DEF With
<1>9. \A v \in DOMAIN collections' : Good(v, collections'[v])
  <2> HIDE DEF rest, c, u
  <2> QED  BY <1>5, <1>6, <1>7, <1>8
<1>10. TypeOK'
  <2>1. net' \in [Packets -> Nat] /\ arrived' \in [Packets -> Nat]
    <3>1. net[p] - 1 \in Nat /\ arrived[p] + 1 \in Nat
      BY <1>1, <1>2 DEF TypeOK
    <3> QED  BY <1>1, <1>2, <3>1 DEF TypeOK
  <2>2. DOMAIN collections' \subseteq Nat /\ completed' \in DOMAIN collections' \cup {NULL}
    <3> HIDE DEF rest, c
    <3> QED  BY <1>1, <1>2, <1>4, <1>7, <1>8 DEF TypeOK
  <2>3. \A v \in DOMAIN collections' : IsCollection(collections'[v])
    BY <1>9 DEF Good
  <2>4. thrown' \subseteq Messages
    <3> HIDE DEF rest
    <3> QED  BY <1>1, <1>2 DEF TypeOK, InCollections
  <2> QED  BY <1>1, <1>2, <1>3, <2>1, <2>2, <2>3, <2>4 DEF TypeOK
<1>11. TableOK'
  <2>1. ASSUME NEW v \in DOMAIN collections'
        PROVE  Good(v, collections[v])'
    <3>1. Good(v, collections'[v])
      BY <1>9, <2>1
    <3> QED  BY <1>3, <3>1 DEF Good, Filled, IsCollection
  <2>2. completed' # NULL => collections'[completed'].inserted = collections'[completed'].number
    <3> HIDE DEF rest, c, u
    <3> QED  BY <1>1, <1>8
  <2> QED  BY <2>1, <2>2 DEF TableOK
<1>12. SentOK'
  <2>1. \A q \in Packets : net'[q] > 0 => net[q] > 0
    BY <1>1, <1>2 DEF TypeOK
  <2> QED  BY <1>3, <2>1 DEF IndInv, SentOK
<1>13. IdsOK' /\ MembersOK'
  BY <1>3 DEF IndInv, IdsOK, SameConnection, MembersOK
<1>14. NoExtraCopies'
  <2> SUFFICES ASSUME NEW o \in Members, NEW q \in Packets
               PROVE  (heard[o][q] + (IF Held(q) THEN 1 ELSE 0) <= arrived[q])'
    BY DEF NoExtraCopies
  <2>1. heard[o][q] + (IF Held(q) THEN 1 ELSE 0) <= arrived[q]
    BY DEF IndInv, NoExtraCopies
  <2>2. heard[o][q] \in Nat /\ arrived[q] \in Nat /\ heard' = heard
    BY <1>1, <1>2 DEF TypeOK
  <2>3. CASE q = p
    <3>1. arrived'[q] = arrived[q] + 1
      BY <1>1, <1>2, <2>3 DEF TypeOK
    <3> QED  BY <2>1, <2>2, <3>1
  <2>4. CASE q # p
    <3>1. arrived'[q] = arrived[q]
      BY <1>1, <1>2, <2>4 DEF TypeOK
    <3>2. ASSUME Held(q)' PROVE Held(q)
      <4> DEFINE v == id[q[1]]
      <4>1. /\ v \in DOMAIN collections' /\ q[2] < collections'[v].number
            /\ collections'[v].chunks[q[2]] = q
        BY <1>3, <3>2 DEF Held
      <4>2. CASE v # u
        <5>1. v \in DOMAIN collections /\ collections'[v] = collections[v]
          <6> HIDE DEF rest, c, u, v
          <6> QED  BY <1>7, <1>8, <4>1, <4>2
        <5> QED  BY <4>1, <5>1 DEF Held
      <4>3. CASE v = u
        <5>1. q[2] < c.number /\ c.chunks[q[2]] = q /\ q # NULL /\ q[2] \in Nat
          <6> HIDE DEF rest, c, u, v
          <6> QED  BY <1>8, <4>1, <4>3, PacketType
        <5>2. CASE found
          <6> DEFINE d == collections[u]
          <6>1. IsCollection(d) /\ c = Insert(p, d)
            BY <1>5, <5>2 DEF Good
          <6>2. CASE ~(d.number = parts[p[1]] /\ d.chunks[p[2]] = NULL)
            <7>1. c = d
              BY <6>1, <6>2 DEF Insert
            <7> QED  BY <4>3, <5>1, <5>2, <7>1 DEF Held
          <6>3. CASE d.number = parts[p[1]] /\ d.chunks[p[2]] = NULL
            <7>1. c.number = d.number /\ c.chunks = [d.chunks EXCEPT ![p[2]] = p]
              BY <6>1, <6>3 DEF Insert
            <7>2. /\ d.number \in Nat /\ d.chunks \in [0..(d.number - 1) -> Packets \cup {NULL}]
              BY <6>1, CollectionType
            <7>3. q[2] \in 0..(d.number - 1)
              BY <5>1, <7>1, <7>2
            <7>4. c.chunks[q[2]] = IF q[2] = p[2] THEN p ELSE d.chunks[q[2]]
              <8> HIDE DEF c, d
              <8> QED  BY <7>1, <7>2, <7>3
            <7>5. d.chunks[q[2]] = q /\ q[2] < d.number
              BY <2>4, <5>1, <7>1, <7>4
            <7> QED  BY <4>3, <5>2, <7>5 DEF Held
          <6> QED  BY <6>2, <6>3
        <5>3. CASE ~found
          <6>1. c.number = parts[p[1]] /\ c.chunks = [i \in 0..(c.number - 1) |-> IF i = p[2] THEN p ELSE NULL]
            BY <5>3 DEF NewCollection
          <6>2. q[2] \in 0..(c.number - 1)
            BY <1>4, <5>1, <6>1
          <6>3. c.chunks[q[2]] = IF q[2] = p[2] THEN p ELSE NULL
            <7> HIDE DEF c
            <7> QED  BY <6>1, <6>2
          <6> QED  BY <2>4, <5>1, <6>3
        <5> QED  BY <5>2, <5>3
      <4> QED  BY <4>2, <4>3
    <3> QED  BY <2>1, <2>2, <3>1, <3>2
  <2> QED  BY <2>3, <2>4
<1> QED  BY <1>10, <1>11, <1>12, <1>13, <1>14 DEF IndInv

\* Each member is associated once, so that it hears one copy
LEMMA Copies ==
  ASSUME IndInv, NEW o \in Members
  PROVE  Cardinality({k \in DOMAIN ids : ids[k] = o}) \in 0..1
<1> DEFINE S == {k \in DOMAIN ids : ids[k] = o}
<1>1. CASE S = {}
  BY <1>1, FS_EmptySet
<1>2. CASE S # {}
  <2>1. PICK k \in S : TRUE
    BY <1>2
  <2>2. S = {k}
    BY <2>1 DEF IndInv, MembersOK
  <2>3. Cardinality({k}) = 1
    BY FS_Singleton
  <2> QED  BY <2>2, <2>3
<1> QED  BY <1>1, <1>2

\* The chunks of a completed collection leave the table and are heard
LEMMA ProcessStep ==
  ASSUME IndInv, Process
  PROVE  IndInv'
<1> DEFINE c == collections[completed]
           copies(o) == Cardinality({k \in DOMAIN ids : ids[k] = o})
<1>1. /\ completed # NULL
      /\ heard' = Hear(c.chunks) \/ heard' = heard
      /\ collections' = Without(collections, completed)
      /\ completed' = NULL
      /\ UNCHANGED <<clientVars, netVars, breaks, sstate, joined, thrown, groupVars>>
  BY DEF Process
<1>2. TypeOK /\ completed \in DOMAIN collections
  BY <1>1 DEF IndInv, TypeOK
<1>3. UNCHANGED <<pc, via, id, parts, next, opened, cstate, idCount, writer, net, arrived, lost, duplicates, multicast, limit, ids, references>>
  BY <1>1 DEF clientVars, netVars, groupVars
<1>4. /\ DOMAIN collections' = DOMAIN collections \ {completed}
      /\ \A u \in DOMAIN collections' : collections'[u] = collections[u]
  BY <1>1 DEF Without
<1>5. ASSUME NEW o \in Members, NEW p \in Packets
      PROVE  \/ heard'[o][p] = heard[o][p]
             \/ /\ \E i \in DOMAIN c.chunks : c.chunks[i] = p
                /\ heard'[o][p] = heard[o][p] + copies(o)
  <2>1. heard[o][p] \in Nat
    BY <1>2 DEF TypeOK
  <2>2. CASE heard' = heard
    BY <2>2
  <2>3. CASE heard' = Hear(c.chunks)
    <3>1. heard'[o][p] = heard[o][p] + IF \E i \in DOMAIN c.chunks : c.chunks[i] = p
                                       THEN copies(o) ELSE 0
      BY <2>3 DEF Hear
    <3> HIDE DEF c, copies
    <3> QED  BY <2>1, <3>1
  <2> QED  BY <1>1, <2>2, <2>3
<1>6. \A o \in Members : copies(o) \in 0..1
  BY Copies
<1> HIDE DEF copies
<1>7. TypeOK'
  <2>1. heard' \in [Members -> [Packets -> Nat]]
    <3>1. CASE heard' = heard
      BY <1>2, <3>1 DEF TypeOK
    <3>2. CASE heard' = Hear(c.chunks)
      <4>1. \A o \in Members, p \in Packets : heard'[o][p] \in Nat
        <5> SUFFICES ASSUME NEW o \in Members, NEW p \in Packets
                     PROVE  heard'[o][p] \in Nat
          OBVIOUS
        <5>1. heard[o][p] \in Nat
          BY <1>2 DEF TypeOK
        <5>2. copies(o) \in 0..1
          BY <1>6
        <5> QED  BY <1>5, <5>1, <5>2
      <4>2. heard' = [o \in Members |-> [p \in Packets |-> heard'[o][p]]]
        BY <3>2 DEF Hear
      <4> QED  BY <4>1, <4>2
    <3> QED  BY <1>1, <3>1, <3>2
  <2>2. DOMAIN collections' \subseteq Nat /\ \A u \in DOMAIN collections' : IsCollection(collections'[u])
    BY <1>2, <1>4 DEF TypeOK
  <2> QED  BY <1>1, <1>2, <1>3, <2>1, <2>2 DEF TypeOK
<1>8. TableOK'
  <2>1. ASSUME NEW v \in DOMAIN collections'
        PROVE  Good(v, collections[v])'
    <3>1. Good(v, collections[v]) /\ collections'[v] = collections[v]
      BY <1>4 DEF IndInv, TableOK
    <3> QED  BY <1>3, <3>1 DEF Good, Filled, IsCollection
  <2> QED  BY <1>1, <2>1 DEF TableOK
<1>9. SentOK' /\ IdsOK' /\ MembersOK'
  BY <1>3 DEF IndInv, SentOK, IdsOK, SameConnection, MembersOK
<1>10. NoExtraCopies'
  <2> SUFFICES ASSUME NEW o \in Members, NEW p \in Packets
               PROVE  (heard[o][p] + (IF Held(p) THEN 1 ELSE 0) <= arrived[p])'
    BY DEF NoExtraCopies
  <2>1. heard[o][p] + (IF Held(p) THEN 1 ELSE 0) <= arrived[p]
    BY DEF IndInv, NoExtraCopies
  <2>2. heard[o][p] \in Nat /\ arrived[p] \in Nat /\ arrived' = arrived
    BY <1>2, <1>3 DEF TypeOK
  <2>3. Held(p)' => Held(p)
    BY <1>3, <1>4 DEF Held
  <2>4. CASE heard'[o][p] = heard[o][p]
    BY <2>1, <2>2, <2>3, <2>4
  <2>5. CASE /\ \E i \in DOMAIN c.chunks : c.chunks[i] = p
             /\ heard'[o][p] = heard[o][p] + copies(o)
    <3>1. PICK i \in DOMAIN c.chunks : c.chunks[i] = p
      BY <2>5
    <3>2. Good(completed, c) /\ IsCollection(c)
      BY <1>2 DEF IndInv, TableOK, Good
    <3>3. i \in Filled(c) /\ i \in 0..(c.number - 1) /\ c.number \in Nat
      BY <3>1, <3>2, CollectionType, PacketType DEF Filled
    <3>4. id[p[1]] = completed /\ p[2] = i
      BY <3>1, <3>2, <3>3 DEF Good
    <3>5. Held(p)
      <4>1. i < c.number
        BY <3>3
      <4> QED  BY <1>2, <3>1, <3>4, <4>1 DEF Held
    <3>6. ~Held(p)'
      BY <1>3, <1>4, <3>4 DEF Held
    <3>7. copies(o) \in 0..1
      BY <1>6
    <3> QED  BY <2>1, <2>2, <2>5, <3>5, <3>6, <3>7
  <2> QED  BY <1>5, <2>4, <2>5
<1> QED  BY <1>7, <1>8, <1>9, <1>10 DEF IndInv

-----------------------------------------------------------------------------
(* The theorems                                                            *)

\* The initial states
LEMMA InitInd ==
  ASSUME Init
  PROVE  IndInv
<1>1. DOMAIN collections = {} /\ ids \in Seq(Members) /\ DOMAIN ids = {}
  BY DEF Init, NoCollections
<1>2. TypeOK
  <2>1. /\ pc \in [Messages -> {"idle", "writing", "sent", "failed"}]
        /\ via \in [Messages -> Nat] /\ id \in [Messages -> Nat \cup {NULL}]
        /\ parts \in [Messages -> 0..MaxParts] /\ next \in [Messages -> Nat]
    BY GroupAssumption DEF Init
  <2>2. \A m \in Messages : next[m] <= parts[m] /\ (pc[m] = "writing" => next[m] < parts[m])
    BY DEF Init
  <2>3. /\ opened \in [Clients -> Nat] /\ idCount \in [Clients -> Nat]
        /\ cstate \in [Clients -> {"none", "OPEN", "ERROR"}]
        /\ writer \in [Clients -> Messages \cup {NULL}]
    BY DEF Init
  <2>4. /\ net \in [Packets -> Nat] /\ arrived \in [Packets -> Nat]
        /\ heard \in [Members -> [Packets -> Nat]]
    BY DEF Init
  <2>5. /\ duplicates \in 0..MaxDuplicates /\ breaks \in 0..MaxBreaks
        /\ lost \subseteq Messages /\ thrown \subseteq Messages /\ references \subseteq Generated
    BY GroupAssumption DEF Init
  <2>6. /\ sstate \in {"none", "OPEN", "ERROR"} /\ joined \in BOOLEAN /\ multicast \in BOOLEAN /\ limit \in 1..MaxUncompleted
        /\ completed \in DOMAIN collections \cup {NULL}
    BY DEF Init
  <2> QED  BY <1>1, <2>1, <2>2, <2>3, <2>4, <2>5, <2>6 DEF TypeOK
<1>3. TableOK /\ MembersOK
  BY <1>1 DEF Init, TableOK, MembersOK
<1>4. SentOK /\ IdsOK
  BY DEF Init, SentOK, IdsOK
<1>5. NoExtraCopies
  BY <1>1 DEF Init, NoExtraCopies, Held
<1> QED  BY <1>2, <1>3, <1>4, <1>5 DEF IndInv

\* Every step keeps the inductive invariant
LEMMA NextInd ==
  ASSUME IndInv, [Next]_vars
  PROVE  IndInv'
<1>1. CASE UNCHANGED vars
  <2>1. UNCHANGED <<clientVars, netVars, breaks, serverVars, groupVars, heard>>
    BY <1>1 DEF vars
  <2>2. TypeOK'
    BY <2>1 DEF IndInv, TypeOK, clientVars, netVars, serverVars, groupVars
  <2>3. SentOK' /\ MembersOK'
    BY <2>1 DEF IndInv, SentOK, MembersOK, clientVars, netVars, groupVars
  <2> QED  BY <2>1, <2>2, <2>3, OtherStep DEF clientVars, netVars, serverVars
<1>2. CASE Next
  <2>1. \/ \E m \in Messages : Send(m) \/ OpenFails(m) \/ SendRefused(m)
                               \/ WritePacket(m) \/ WriteFails(m) \/ WriteBreaks(m)
        \/ \E p \in Packets : Lose(p) \/ Duplicate(p) \/ Receive(p)
        \/ Process \/ CloseServer
        \/ \E o \in Members : Associate(o) \/ CreateId(o) \/ CreateIdFails(o)
                              \/ Disassociate(o) \/ Deactivate(o)
    BY <1>2 DEF Next, Writer, Reader
  <2> QED  BY <2>1, SendStep, FailStep, WritePacketStep, WriteBreaksStep, NetworkStep,
              ReceiveStep, ProcessStep, CloseServerStep, AssociationStep, CreateIdStep,
              CreateIdFailsStep
<1> QED  BY <1>1, <1>2

\* A collection that counts as many chunks as it has places has them all, and
\* chunks of one connection have one id only if they are of one request
LEMMA IndWhole ==
  ASSUME IndInv
  PROVE  Whole
<1> SUFFICES ASSUME completed # NULL,
                    NEW i \in 0..(collections[completed].number - 1),
                    NEW j \in 0..(collections[completed].number - 1)
             PROVE  LET c == collections[completed]
                    IN /\ c.chunks[i] # NULL
                       /\ c.chunks[i][2] = i /\ parts[c.chunks[i][1]] = c.number
                       /\ SameConnection(c.chunks[i][1], c.chunks[j][1]) => c.chunks[i][1] = c.chunks[j][1]
  BY DEF Whole
<1> DEFINE c == collections[completed]
<1>1. completed \in DOMAIN collections /\ completed \in Nat
  BY DEF IndInv, TypeOK
<1>2. Good(completed, c) /\ IsCollection(c) /\ c.inserted = c.number
  BY <1>1 DEF IndInv, TableOK, Good
<1>3. Filled(c) = 0..(c.number - 1)
  BY <1>2, FilledFinite DEF Good
<1>4. \A k \in {i, j} : /\ c.chunks[k] # NULL /\ c.chunks[k] \in Packets /\ c.chunks[k][2] = k
                        /\ id[c.chunks[k][1]] = completed /\ parts[c.chunks[k][1]] = c.number
  BY <1>2, <1>3 DEF Good, Filled
<1>5. c.chunks[i][1] \in Messages /\ c.chunks[j][1] \in Messages
  BY <1>4, PacketType
<1>6. SameConnection(c.chunks[i][1], c.chunks[j][1]) => c.chunks[i][1] = c.chunks[j][1]
  BY <1>4, <1>5 DEF IndInv, IdsOK
<1> QED  BY <1>4, <1>6

\* The invariant
LEMMA Invariant == Spec => []IndInv
<1>1. Init => IndInv
  BY InitInd
<1>2. IndInv /\ [Next]_vars => IndInv'
  BY NextInd
<1> QED  BY <1>1, <1>2, PTL DEF Spec

\* Every variable of the connections, the network and the GOA keeps its type; in
\* particular the loop of write_Version_1_1 stops at the last packet and a
\* collection never counts more chunks than it has places
THEOREM TypeCorrect == Spec => []TypeOK
<1>1. IndInv => TypeOK
  BY DEF IndInv
<1> QED  BY <1>1, Invariant, PTL

\* receive_message hands on whole messages only, each chunk at its place, and
\* mixes no two requests of one connection
THEOREM MessagesAreWhole == Spec => []Whole
<1>1. IndInv => Whole
  BY IndWhole
<1> QED  BY <1>1, Invariant, PTL

\* No member hears a packet more often than the reader has read it
THEOREM NoCopiesAreMade == Spec => []NoExtraCopies
<1>1. IndInv => NoExtraCopies
  BY DEF IndInv
<1> QED  BY <1>1, Invariant, PTL
=============================================================================
