--------------------------- MODULE PeboNetProofs ---------------------------
(***************************************************************************)
(* Proofs about PeboNet.tla for every network: any set of nodes and links, *)
(* any services, any departures and broken connections.                    *)
(***************************************************************************)
EXTENDS PeboNet, TLAPS

(* A key belongs to every node: what it announces. *)
LEMMA OwnType == \A n \in Node : Own(n) \in Key
  BY NodeAssumption DEF Own, Key

(* What findAndUpdate makes of a store: a store again, with the updated key
   in it and no key lost (store.cpp:29-83).                                *)
LEMMA FindAndUpdateType ==
  ASSUME NEW st, IsStore(st), NEW k \in Key, NEW removed \in BOOLEAN
  PROVE  IsStore(FindAndUpdate(st, k, removed, 0, 0))
  <1>1. k \in DOMAIN st => st[k] \in PeerInfo
    BY DEF IsStore
  <1>2. NewInfo(st, k, removed, 0, 0) \in PeerInfo
    BY <1>1 DEF NewInfo, ResultOf, FindPeer, PeerInfo
  <1> QED  BY <1>2 DEF FindAndUpdate, AddPeer, IsStore

(* The keys findAndUpdate leaves in a store (store.cpp:64-83). *)
LEMMA FindAndUpdateDomain ==
  ASSUME NEW st, NEW k, NEW removed
  PROVE  \A j : j \in DOMAIN FindAndUpdate(st, k, removed, 0, 0)
                  <=> j \in DOMAIN st \/ j = k
  BY DEF FindAndUpdate, AddPeer

(* A PEER message read from the wire has a key and is not removed. *)
LEMMA PeerMessageFields ==
  ASSUME NEW m \in Message, m.type = "PEER"
  PROVE  m.key \in Key /\ m.isRemoved = FALSE /\ m \in PeerMessage
  BY DEF Message, PeerMessage, PeerMsg, QueryMsg

(* Everything a node writes is, on the wire, one of the two messages
   (message.cpp:36-60).                                                    *)
LEMMA WireType ==
  /\ \A k \in Key, removed \in BOOLEAN :
       /\ OnWire(PeerMsg(k, removed)) = PeerMsg(k, FALSE)
       /\ OnWire(PeerMsg(k, removed)) \in Message
  /\ \A s \in Service : OnWire(QueryMsg(s)) = QueryMsg(s) /\ QueryMsg(s) \in Message
  /\ \A m \in PeerMessage : OnWire(m) = m
  <1>1. ASSUME NEW k \in Key, NEW removed \in BOOLEAN
        PROVE  /\ OnWire(PeerMsg(k, removed)) = PeerMsg(k, FALSE)
               /\ PeerMsg(k, FALSE) \in Message
    <2>1. PeerMsg(k, removed).type = "PEER" /\ PeerMsg(k, removed).key = k
      BY DEF PeerMsg
    <2> QED  BY <2>1 DEF OnWire, Message, PeerMessage
  <1>2. ASSUME NEW s \in Service
        PROVE  OnWire(QueryMsg(s)) = QueryMsg(s) /\ QueryMsg(s) \in Message
    BY DEF OnWire, QueryMsg, Message
  <1>3. ASSUME NEW m \in PeerMessage PROVE OnWire(m) = m
    <2>1. PICK k \in Key : m = PeerMsg(k, FALSE)
      BY DEF PeerMessage
    <2> QED  BY <1>1, <2>1
  <1> QED  BY <1>1, <1>2, <1>3

(* A PEER line on the wire carries the key it was written for. *)
LEMMA PeerOnWire ==
  ASSUME NEW k \in Key, NEW removed \in BOOLEAN
  PROVE  /\ OnWire(PeerMsg(k, removed)) \in Message
         /\ OnWire(PeerMsg(k, removed)).type = "PEER"
         /\ OnWire(PeerMsg(k, removed)).key = k
  <1>1. OnWire(PeerMsg(k, removed)) = PeerMsg(k, FALSE)
        /\ OnWire(PeerMsg(k, removed)) \in Message
    BY WireType
  <1>2. PeerMsg(k, FALSE).type = "PEER" /\ PeerMsg(k, FALSE).key = k
    BY DEF PeerMsg
  <1> QED  BY <1>1, <1>2

(* Sending on some links keeps every queue a queue of messages. *)
LEMMA SendType ==
  ASSUME NEW ch \in [Link -> Seq(Message)], NEW L, NEW m, OnWire(m) \in Message
  PROVE  SendTo(ch, L, m) \in [Link -> Seq(Message)]
  BY DEF SendTo

(* Counting messages sent keeps the counts natural numbers. *)
LEMMA CountType ==
  ASSUME sent \in [Link -> [Key -> Nat]], NEW L, NEW k \in Key
  PROVE  CountSent(L, k) \in [Link -> [Key -> Nat]]
  BY DEF CountSent

(* What Store::query returns are keys. *)
LEMMA QueryType ==
  ASSUME NEW st, IsStore(st), NEW s PROVE Query(st, s) \subseteq Key
  BY DEF Query, IsStore

(* Dropping the last message of a queue. *)
LEMMA CutType ==
  ASSUME NEW q \in Seq(Message), q # <<>>
  PROVE  /\ SubSeq(q, 1, Len(q) - 1) \in Seq(Message)
         /\ Len(SubSeq(q, 1, Len(q) - 1)) = Len(q) - 1
         /\ \A i \in 1 .. Len(q) - 1 : SubSeq(q, 1, Len(q) - 1)[i] = q[i]
  OBVIOUS

-----------------------------------------------------------------------------
(* Types.                                                                  *)

(* The fields of the PEER messages. *)
LEMMA PeerMsgFields ==
  /\ \A k \in Key : PeerMsg(k, FALSE) \in PeerMessage
  /\ \A m \in PeerMessage : m.key \in Key /\ m.isRemoved = FALSE /\ m.type = "PEER"
                            /\ m \in Message
  <1>1. ASSUME NEW m \in PeerMessage PROVE m \in Message /\ m.type = "PEER"
    BY DEF PeerMessage, PeerMsg, Message
  <1> QED  BY <1>1, PeerMessageFields DEF PeerMessage

(* The part of a handler that deals with a PEER message keeps the types
   (pebo_net.cpp:187-204).                                                 *)
LEMMA PeerUpdateType ==
  ASSUME TypeOK, NEW n \in Node, NEW m \in PeerMessage,
         NEW from \in {"own", "in", "out"} \X Node, NEW skip,
         NEW ch \in [Link -> Seq(Message)], PeerUpdate(n, m, from, skip, ch)
  PROVE  /\ DOMAIN store' = Node
         /\ \A n2 \in Node : IsStore(store'[n2])
         /\ chan' \in [Link -> Seq(Message)]
         /\ told' \in [Node -> [Key -> Nat]]
         /\ via' \in [Node -> [Key -> SUBSET ({"own", "in", "out"} \X Node)]]
         /\ sent' \in [Link -> [Key -> Nat]]
         /\ nodeAddr' = nodeAddr
  <1>1. m.key \in Key /\ m.isRemoved \in BOOLEAN /\ OnWire(m) \in Message
    BY PeerMsgFields, WireType
  <1>2. DOMAIN store' = Node /\ \A n2 \in Node : IsStore(store'[n2])
    <2>1. IsStore(FindAndUpdate(store[n], m.key, m.isRemoved, 0, 0))
      BY <1>1, FindAndUpdateType DEF TypeOK
    <2> QED  BY <2>1 DEF PeerUpdate, TypeOK
  <1>3. CASE IsNews(ResultOf(store[n], m.key, m.isRemoved))
    <2> DEFINE targets == {l \in OutLinks(n) : Dst[l] \notin skip}
    <2>1. /\ told' = [told EXCEPT ![n][m.key] = @ + 1]
          /\ via' = [via EXCEPT ![n][m.key] = IF @ = {} THEN {from} ELSE @]
          /\ chan' = SendTo(ch, targets, m)
          /\ sent' = CountSent(targets, m.key)
          /\ nodeAddr' = nodeAddr
      BY <1>3 DEF PeerUpdate
    <2>2. chan' \in [Link -> Seq(Message)]
      BY <1>1, <2>1, SendType
    <2>3. sent' \in [Link -> [Key -> Nat]]
      BY <1>1, <2>1, CountType DEF TypeOK
    <2>4. told' \in [Node -> [Key -> Nat]]
      BY <1>1, <2>1 DEF TypeOK
    <2>5. via' \in [Node -> [Key -> SUBSET ({"own", "in", "out"} \X Node)]]
      BY <1>1, <2>1 DEF TypeOK
    <2> QED  BY <1>2, <2>1, <2>2, <2>3, <2>4, <2>5
  <1>4. CASE ~IsNews(ResultOf(store[n], m.key, m.isRemoved))
    BY <1>2, <1>4 DEF PeerUpdate, TypeOK, history
  <1> QED  BY <1>3, <1>4

(* A handler of requests takes the head of its queue and leaves the others. *)
LEMMA PopType ==
  ASSUME NEW ch \in [Link -> Seq(Message)], NEW l \in Link, ch[l] # <<>>
  PROVE  /\ [ch EXCEPT ![l] = Tail(@)] \in [Link -> Seq(Message)]
         /\ Head(ch[l]) \in Message
  OBVIOUS

(* The steps of the application thread keep the types (shell.cpp:27-130). *)
LEMMA AppTypes ==
  ASSUME TypeOK, NEW n \in Node,
         Listen(n) \/ App(n) \/ Stop(n) \/ Leave(n)
  PROVE  TypeOK'
  <1> USE LinkAssumption
  <1>0. Own(n) \in Key
    BY OwnType
  <1>1. CASE Listen(n)
    BY <1>1 DEF Listen, TypeOK, LinkState, history
  <1>2. CASE StoreOwn(n)
    <2>1. IsStore(FindAndUpdate(store[n], Own(n), FALSE, 0, 0))
      BY <1>0, FindAndUpdateType DEF TypeOK
    <2>2. DOMAIN store' = Node /\ \A n2 \in Node : IsStore(store'[n2])
      BY <1>2, <2>1 DEF StoreOwn, TypeOK
    <2>3. via' \in [Node -> [Key -> SUBSET ({"own", "in", "out"} \X Node)]]
      BY <1>0, <1>2 DEF StoreOwn, TypeOK
    <2>4. /\ todo' \in [Node -> SUBSET (Link \X {"refresh", "query", "bye"})]
          /\ \A n2 \in Node : \A t \in todo'[n2] : Src[t[1]] = n2
      BY <1>2 DEF StoreOwn, TypeOK, OutLinks
    <2> QED  BY <1>2, <2>2, <2>3, <2>4 DEF StoreOwn, TypeOK
  <1>3. ASSUME NEW l \in Link, SendRefresh(n, l) PROVE TypeOK'
    <2>1. chan' \in [Link -> Seq(Message)]
      BY <1>0, <1>3, SendType, WireType DEF SendRefresh, TypeOK
    <2>2. sent' \in [Link -> [Key -> Nat]]
      BY <1>0, <1>3, CountType DEF SendRefresh, TypeOK
    <2> QED  BY <1>3, <2>1, <2>2 DEF SendRefresh, TypeOK, LinkState
  <1>4. ASSUME NEW l \in Link, SendQuery(n, l) PROVE TypeOK'
    <2>1. chan' \in [Link -> Seq(Message)]
      BY <1>4, NodeAssumption, SendType, WireType DEF SendQuery, TypeOK
    <2> QED  BY <1>4, <2>1 DEF SendQuery, TypeOK, LinkState, history
  <1>5. ASSUME NEW l \in Link, SendBye(n, l) PROVE TypeOK'
    <2>1. chan' \in [Link -> Seq(Message)]
      BY <1>0, <1>5, SendType, WireType DEF SendBye, TypeOK
    <2>2. sent' \in [Link -> [Key -> Nat]]
      BY <1>0, <1>5, CountType DEF SendBye, TypeOK
    <2> QED  BY <1>5, <2>1, <2>2 DEF SendBye, TypeOK, LinkState
  <1>6. CASE Stop(n)
    BY <1>6 DEF Stop, TypeOK, OutLinks, history
  <1>7. CASE Leave(n)
    <2>1. IsStore(EmptyStore)
      BY DEF EmptyStore, IsStore
    <2> QED  BY <1>7, <2>1 DEF Leave, TypeOK, LinkState, history
  <1> QED  BY <1>1, <1>2, <1>3, <1>4, <1>5, <1>6, <1>7 DEF App

(* The handlers of the event loop keep the types (net_client.cpp,
   pebo_net.cpp:187-260).                                                  *)
LEMMA LoopTypes ==
  ASSUME TypeOK, NEW l \in Link, Loop(l) \/ Broken(l) \/ Cut(l)
  PROVE  TypeOK'
  <1> USE LinkAssumption
  <1>1. CASE Connect(l)
    BY <1>1 DEF Connect, TypeOK, LinkState, history
  <1>2. CASE Refused(l)
    BY <1>2 DEF Refused, TypeOK, LinkState, history
  <1>3. CASE HandlePeer(l)
    <2>1. /\ [chan EXCEPT ![l] = Tail(@)] \in [Link -> Seq(Message)]
          /\ Head(chan[l]) \in PeerMessage
      BY <1>3, PopType, PeerMessageFields DEF HandlePeer, TypeOK
    <2>2. <<"in", Src[l]>> \in {"own", "in", "out"} \X Node /\ Dst[l] \in Node
      OBVIOUS
    <2>3. PeerUpdate(Dst[l], Head(chan[l]), <<"in", Src[l]>>, {nodeAddr[l]}, [chan EXCEPT ![l] = Tail(@)])
      BY <1>3 DEF HandlePeer
    <2>4. /\ DOMAIN store' = Node
          /\ \A n2 \in Node : IsStore(store'[n2])
          /\ chan' \in [Link -> Seq(Message)]
          /\ told' \in [Node -> [Key -> Nat]]
          /\ via' \in [Node -> [Key -> SUBSET ({"own", "in", "out"} \X Node)]]
          /\ sent' \in [Link -> [Key -> Nat]]
          /\ nodeAddr' = nodeAddr
      BY <2>1, <2>2, <2>3, PeerUpdateType
    <2> QED  BY <1>3, <2>4 DEF HandlePeer, TypeOK
  <1>4. CASE HandleQuery(l)
    <2>1. chan' \in [Link -> Seq(Message)]
      BY <1>4, PopType DEF HandleQuery, TypeOK
    <2>2. Query(store[Dst[l]], Head(chan[l]).service) \subseteq Key
      BY QueryType DEF TypeOK
    <2>3. reply' \in [Link -> SUBSET Key]
      BY <1>4, <2>2 DEF HandleQuery, TypeOK
    <2> QED  BY <1>4, <2>1, <2>3 DEF HandleQuery, TypeOK, history
  <1>5. ASSUME NEW k \in Key, HandleReply(l, k) PROVE TypeOK'
    <2>1. PeerMsg(k, FALSE) \in PeerMessage /\ chan \in [Link -> Seq(Message)]
      BY PeerMsgFields DEF TypeOK
    <2>2. <<"out", Dst[l]>> \in {"own", "in", "out"} \X Node /\ Src[l] \in Node
      OBVIOUS
    <2>3. PeerUpdate(Src[l], PeerMsg(k, FALSE), <<"out", Dst[l]>>, {Dst[l]}, chan)
      BY <1>5 DEF HandleReply
    <2>4. /\ DOMAIN store' = Node
          /\ \A n2 \in Node : IsStore(store'[n2])
          /\ chan' \in [Link -> Seq(Message)]
          /\ told' \in [Node -> [Key -> Nat]]
          /\ via' \in [Node -> [Key -> SUBSET ({"own", "in", "out"} \X Node)]]
          /\ sent' \in [Link -> [Key -> Nat]]
          /\ nodeAddr' = nodeAddr
      BY <2>1, <2>2, <2>3, PeerUpdateType
    <2> QED  BY <1>5, <2>4 DEF HandleReply, TypeOK, LinkState
  <1>6. CASE CloseReceived(l)
    BY <1>6 DEF CloseReceived, TypeOK, LinkState, history
  <1>10. CASE CloseRefused(l)
    BY <1>10 DEF CloseRefused, TypeOK, LinkState, history
  <1>7. CASE PeerGone(l)
    BY <1>7 DEF PeerGone, TypeOK, LinkState, history
  <1>8. CASE Broken(l)
    BY <1>8 DEF Broken, TypeOK, LinkState, history
  <1>9. CASE Cut(l)
    <2>1. SubSeq(chan[l], 1, Len(chan[l]) - 1) \in Seq(Message)
      BY <1>9, CutType DEF Cut, TypeOK
    <2> QED  BY <1>9, <2>1 DEF Cut, TypeOK, history
  <1> QED  BY <1>1, <1>2, <1>3, <1>4, <1>5, <1>6, <1>7, <1>8, <1>9, <1>10 DEF Loop

(* Every step keeps the types. *)
LEMMA TypeStep == TypeOK /\ [Next]_vars => TypeOK'
  <1> SUFFICES ASSUME TypeOK, [Next]_vars PROVE TypeOK'
    OBVIOUS
  <1>1. CASE UNCHANGED vars
    BY <1>1 DEF vars, TypeOK, history
  <1>2. CASE Next
    BY <1>2, AppTypes, LoopTypes DEF Next
  <1> QED  BY <1>1, <1>2

(* The initial state has the types. *)
LEMMA TypeInit == Init => TypeOK
  BY DEF Init, TypeOK, IsStore, EmptyStore, LinkState

(* Type correctness of the network of nodes, whatever its topology. *)
THEOREM TypeCorrect == Spec => []TypeOK
  BY TypeInit, TypeStep, PTL DEF Spec

-----------------------------------------------------------------------------
(* The peer that replied knows the node.                                   *)
(*                                                                         *)
(* AnnouncedBeforeClosed is not inductive: why the peer knew the node when *)
(* it answered the query rests on the order of the lines in the queue, and *)
(* that on the order in which the application thread writes them.          *)

\* The peer of a link knows the node that opened it, or is gone.
Knows(l) == phase[Dst[l]] = "left" \/ Own(Src[l]) \in DOMAIN store[Dst[l]]

\* The announcement of the node that opened the link.
IsRefresh(m, l) == m.type = "PEER" /\ m.key = Own(Src[l])

HasRefresh(q, l) == \E j \in 1 .. Len(q) : IsRefresh(q[j], l)

\* No query is in the queue without the announcement in front of it.
Ordered(q, l) ==
  \A i \in 1 .. Len(q) : q[i].type = "QUERY" => \E j \in 1 .. i - 1 : IsRefresh(q[j], l)

\* broadcast_refresh has dealt with this link, and its queue is still read.
Started(l) == /\ phase[Src[l]] \in {"up", "stopping"}
              /\ <<l, "refresh">> \notin todo[Src[l]]
              /\ Writable(l)

\* What holds of a link whose peer does not know the node yet.
Pending(l) == /\ Ordered(chan[l], l)
              /\ Started(l) => HasRefresh(chan[l], l)
              /\ reply[l] = {}
              /\ link[l] # "received"
              /\ ReadRestarts[Src[l]] => link[l] # "closed"

\* The application thread has work only between start and the end of stop.
AppInv == \A n \in Node : phase[n] \notin {"up", "stopping"} => todo[n] = {}

AnnounceInv == /\ TypeOK
               /\ AppInv
               /\ \A l \in Link : Knows(l) \/ Pending(l)

(* Appending to a queue keeps its order if the new line is no query or the
   announcement is already there.                                          *)
LEMMA AppendKeeps ==
  ASSUME NEW q \in Seq(Message), NEW m \in Message, NEW l
  PROVE  /\ Ordered(q, l) /\ (m.type # "QUERY" \/ HasRefresh(q, l))
              => Ordered(Append(q, m), l)
         /\ HasRefresh(q, l) => HasRefresh(Append(q, m), l)
         /\ IsRefresh(m, l) => HasRefresh(Append(q, m), l)
  <1>1. /\ Len(Append(q, m)) = Len(q) + 1
        /\ \A i \in 1 .. Len(q) : Append(q, m)[i] = q[i]
        /\ Append(q, m)[Len(q) + 1] = m
        /\ Len(q) \in Nat
    OBVIOUS
  <1>2. ASSUME Ordered(q, l), m.type # "QUERY" \/ HasRefresh(q, l),
               NEW i \in 1 .. Len(q) + 1, Append(q, m)[i].type = "QUERY"
        PROVE  \E j \in 1 .. i - 1 : IsRefresh(Append(q, m)[j], l)
    <2>1. CASE i = Len(q) + 1
      BY <1>1, <1>2, <2>1 DEF HasRefresh
    <2>2. CASE i \in 1 .. Len(q)
      <3>1. PICK j \in 1 .. i - 1 : IsRefresh(q[j], l)
        BY <1>1, <1>2, <2>2 DEF Ordered
      <3> QED  BY <1>1, <2>2, <3>1
    <2> QED  BY <1>1, <2>1, <2>2
  <1>3. HasRefresh(q, l) => HasRefresh(Append(q, m), l)
    BY <1>1 DEF HasRefresh
  <1>4. IsRefresh(m, l) => HasRefresh(Append(q, m), l)
    BY <1>1 DEF HasRefresh
  <1> QED  BY <1>1, <1>2, <1>3, <1>4 DEF Ordered

(* Reading a line that is not the announcement keeps the order, and the head
   of an ordered queue is no query.                                        *)
LEMMA TailKeeps ==
  ASSUME NEW q \in Seq(Message), q # <<>>, NEW l
  PROVE  /\ Ordered(q, l) => Head(q).type # "QUERY"
         /\ ~IsRefresh(Head(q), l) /\ Ordered(q, l) => Ordered(Tail(q), l)
         /\ ~IsRefresh(Head(q), l) /\ HasRefresh(q, l) => HasRefresh(Tail(q), l)
  <1>1. /\ Len(q) \in Nat /\ Len(q) > 0
        /\ Len(Tail(q)) = Len(q) - 1
        /\ \A i \in 1 .. Len(q) - 1 : Tail(q)[i] = q[i + 1]
        /\ Head(q) = q[1]
    OBVIOUS
  <1>2. Ordered(q, l) => Head(q).type # "QUERY"
    BY <1>1 DEF Ordered
  <1>3. ASSUME ~IsRefresh(Head(q), l), Ordered(q, l),
               NEW i \in 1 .. Len(q) - 1, Tail(q)[i].type = "QUERY"
        PROVE  \E j \in 1 .. i - 1 : IsRefresh(Tail(q)[j], l)
    <2>1. PICK j \in 1 .. i : IsRefresh(q[j], l)
      BY <1>1, <1>3 DEF Ordered
    <2>2. j # 1
      BY <1>1, <1>3, <2>1
    <2>3. j - 1 \in 1 .. i - 1 /\ Tail(q)[j - 1] = q[j]
      BY <1>1, <2>1, <2>2
    <2> QED  BY <2>1, <2>3
  <1>4. ASSUME ~IsRefresh(Head(q), l), HasRefresh(q, l)
        PROVE  HasRefresh(Tail(q), l)
    <2>1. PICK j \in 1 .. Len(q) : IsRefresh(q[j], l)
      BY <1>4 DEF HasRefresh
    <2>2. j - 1 \in 1 .. Len(q) - 1 /\ Tail(q)[j - 1] = q[j]
      BY <1>1, <1>4, <2>1
    <2> QED  BY <1>1, <2>1, <2>2 DEF HasRefresh
  <1> QED  BY <1>1, <1>2, <1>3, <1>4 DEF Ordered

(* Losing the last line keeps the order. *)
LEMMA CutKeeps ==
  ASSUME NEW q \in Seq(Message), q # <<>>, NEW l, Ordered(q, l)
  PROVE  Ordered(SubSeq(q, 1, Len(q) - 1), l)
  <1>1. /\ Len(SubSeq(q, 1, Len(q) - 1)) = Len(q) - 1
        /\ \A i \in 1 .. Len(q) - 1 : SubSeq(q, 1, Len(q) - 1)[i] = q[i]
        /\ Len(q) \in Nat
    BY CutType
  <1> QED  BY <1>1 DEF Ordered

(* What sending does to one queue. *)
LEMMA SendKeeps ==
  ASSUME NEW ch \in [Link -> Seq(Message)], NEW L, NEW m, OnWire(m) \in Message,
         OnWire(m).type # "QUERY", NEW l \in Link
  PROVE  /\ Ordered(ch[l], l) => Ordered(SendTo(ch, L, m)[l], l)
         /\ HasRefresh(ch[l], l) => HasRefresh(SendTo(ch, L, m)[l], l)
  <1>1. SendTo(ch, L, m)[l] = ch[l] \/ SendTo(ch, L, m)[l] = Append(ch[l], OnWire(m))
    BY DEF SendTo
  <1>2. ch[l] \in Seq(Message)
    OBVIOUS
  <1> QED  BY <1>1, <1>2, AppendKeeps

(* A handler of a PEER message stores its key (pebo_net.cpp:187-190). *)
LEMMA PeerUpdateStores ==
  ASSUME TypeOK, NEW n \in Node, NEW m, NEW from, NEW skip, NEW ch,
         PeerUpdate(n, m, from, skip, ch)
  PROVE  /\ m.key \in DOMAIN store'[n]
         /\ \A n2 \in Node : \A k \in DOMAIN store[n2] : k \in DOMAIN store'[n2]
  <1>1. store' = [store EXCEPT ![n] = FindAndUpdate(@, m.key, m.isRemoved, 0, 0)]
    BY DEF PeerUpdate
  <1> QED  BY <1>1, FindAndUpdateDomain DEF TypeOK

(* A handler of a PEER message adds to the queues, if anything. *)
LEMMA PeerUpdateQueues ==
  ASSUME NEW n, NEW m \in PeerMessage, NEW from, NEW skip,
         NEW ch \in [Link -> Seq(Message)], NEW l \in Link,
         PeerUpdate(n, m, from, skip, ch)
  PROVE  /\ Ordered(ch[l], l) => Ordered(chan'[l], l)
         /\ HasRefresh(ch[l], l) => HasRefresh(chan'[l], l)
  <1>1. OnWire(m) \in Message /\ OnWire(m).type # "QUERY"
    BY PeerMsgFields, WireType
  <1>2. chan' = ch \/ \E L : chan' = SendTo(ch, L, m)
    BY DEF PeerUpdate
  <1> QED  BY <1>1, <1>2, SendKeeps

(* Once the peer of a link knows the node it keeps knowing it until it goes:
   nothing takes an entry out of a store (store.cpp:64-83, 118-122).       *)
LEMMA KnowsStable ==
  ASSUME TypeOK, [Next]_vars, NEW l \in Link, Knows(l)
  PROVE  Knows(l)'
  <1> USE LinkAssumption
  <1> DEFINE d == Dst[l]
  <1> SUFFICES \/ phase'[d] = "left"
               \/ /\ phase[d] = "left" => phase'[d] = "left"
                  /\ \A k \in DOMAIN store[d] : k \in DOMAIN store'[d]
    BY DEF Knows
  <1>0. d \in Node /\ DOMAIN store = Node
    BY DEF TypeOK
  <1>1. ASSUME NEW n \in Node, Listen(n) \/ App(n) \/ Stop(n)
        PROVE  /\ phase[d] = "left" => phase'[d] = "left"
               /\ \A k \in DOMAIN store[d] : k \in DOMAIN store'[d]
    <2>1. phase[d] = "left" => phase'[d] = "left"
      <3>1. \/ phase' = phase
            \/ /\ phase[n] # "left"
               /\ \E p : phase' = [phase EXCEPT ![n] = p]
        BY <1>1 DEF Listen, App, StoreOwn, SendRefresh, SendQuery, SendBye, Stop
      <3> QED  BY <1>0, <3>1 DEF TypeOK
    <2>2. CASE StoreOwn(n)
      BY <1>0, <2>1, <2>2, FindAndUpdateDomain DEF StoreOwn
    <2>3. CASE ~StoreOwn(n)
      BY <1>1, <2>1, <2>3 DEF Listen, App, SendRefresh, SendQuery, SendBye, Stop
    <2> QED  BY <2>2, <2>3
  <1>2. ASSUME NEW n \in Node, Leave(n)
        PROVE  \/ phase'[d] = "left"
               \/ /\ phase[d] = "left" => phase'[d] = "left"
                  /\ \A k \in DOMAIN store[d] : k \in DOMAIN store'[d]
    BY <1>0, <1>2 DEF Leave, TypeOK
  <1>3. ASSUME NEW l2 \in Link, Loop(l2) \/ Broken(l2) \/ Cut(l2)
        PROVE  /\ phase[d] = "left" => phase'[d] = "left"
               /\ \A k \in DOMAIN store[d] : k \in DOMAIN store'[d]
    <2>1. phase' = phase
      BY <1>3 DEF Loop, Connect, Refused, HandlePeer, HandleQuery, HandleReply,
                  CloseReceived, CloseRefused, PeerGone, Broken, Cut
    <2>2. CASE HandlePeer(l2) \/ \E k \in Key : HandleReply(l2, k)
      <3>1. PICK n \in Node : \E m, from, skip, ch : PeerUpdate(n, m, from, skip, ch)
        BY <2>2 DEF HandlePeer, HandleReply
      <3> QED  BY <1>0, <2>1, <3>1, PeerUpdateStores
    <2>3. CASE ~(HandlePeer(l2) \/ \E k \in Key : HandleReply(l2, k))
      BY <1>3, <2>1, <2>3 DEF Loop, Connect, Refused, HandleQuery, CloseReceived,
                              CloseRefused, PeerGone, Broken, Cut
    <2> QED  BY <2>2, <2>3
  <1>4. CASE UNCHANGED vars
    BY <1>4 DEF vars
  <1> QED  BY <1>1, <1>2, <1>3, <1>4 DEF Next

(* The application thread has work only while its node is up or stopping
   (shell.cpp:93-130).                                                     *)
LEMMA AppStep == TypeOK /\ AppInv /\ [Next]_vars => AppInv'
  <1> SUFFICES ASSUME TypeOK, AppInv, [Next]_vars PROVE AppInv'
    OBVIOUS
  <1>1. ASSUME NEW n \in Node, Listen(n) \/ App(n) \/ Stop(n) \/ Leave(n) PROVE AppInv'
    <2>1. ASSUME Listen(n) \/ Stop(n) \/ Leave(n) PROVE AppInv'
      BY <2>1 DEF AppInv, TypeOK, Listen, Stop, Leave
    <2>2. CASE StoreOwn(n)
      BY <2>2 DEF AppInv, TypeOK, StoreOwn
    <2>3. ASSUME NEW l \in Link, SendRefresh(n, l) PROVE AppInv'
      BY <2>3 DEF AppInv, TypeOK, SendRefresh
    <2>4. ASSUME NEW l \in Link, SendQuery(n, l) PROVE AppInv'
      BY <2>4 DEF AppInv, TypeOK, SendQuery
    <2>5. ASSUME NEW l \in Link, SendBye(n, l) PROVE AppInv'
      BY <2>5 DEF AppInv, TypeOK, SendBye
    <2> QED  BY <1>1, <2>1, <2>2, <2>3, <2>4, <2>5 DEF App
  <1>2. ASSUME NEW l \in Link, Loop(l) \/ Broken(l) \/ Cut(l) PROVE AppInv'
    BY <1>2 DEF AppInv, Loop, Connect, Refused, HandlePeer, HandleQuery, HandleReply,
                CloseReceived, CloseRefused, PeerGone, Broken, Cut
  <1>3. CASE UNCHANGED vars
    BY <1>3 DEF AppInv, vars
  <1> QED  BY <1>1, <1>2, <1>3 DEF Next

(* The steps of the application thread: the announcement goes out on every
   link before the query does (shell.cpp:105-111).                         *)
LEMMA PendingApp ==
  ASSUME AnnounceInv, NEW n \in Node, Listen(n) \/ App(n) \/ Stop(n) \/ Leave(n),
         NEW l \in Link, Pending(l), ~Knows(l)'
  PROVE  Pending(l)'
  <1> USE LinkAssumption
  <1>0. TypeOK /\ AppInv /\ chan[l] \in Seq(Message) /\ Own(n) \in Key
    BY OwnType DEF AnnounceInv, TypeOK
  <1>1. CASE Listen(n)
    BY <1>0, <1>1 DEF Listen, Pending, Started, Writable, TypeOK
  <1>2. CASE StoreOwn(n)
    <2>1. Src[l] = n => <<l, "refresh">> \in todo'[n]
      BY <1>0, <1>2 DEF StoreOwn, OutLinks, TypeOK
    <2>2. Src[l] # n => todo'[Src[l]] = todo[Src[l]] /\ phase'[Src[l]] = phase[Src[l]]
      BY <1>0, <1>2 DEF StoreOwn, TypeOK
    <2> QED  BY <1>2, <2>1, <2>2 DEF StoreOwn, Pending, Started, Writable
  <1>3. ASSUME NEW l2 \in Link, SendRefresh(n, l2) PROVE Pending(l)'
    <2>1. OnWire(PeerMsg(Own(n), FALSE)) \in Message
          /\ OnWire(PeerMsg(Own(n), FALSE)).type = "PEER"
          /\ OnWire(PeerMsg(Own(n), FALSE)).key = Own(n)
      BY <1>0, PeerOnWire
    <2>2. Src[l2] = n /\ reply' = reply /\ phase' = phase
      BY <1>0, <1>3 DEF SendRefresh, TypeOK
    <2>3. link'[l] = link[l]
      BY <1>0, <1>3 DEF SendRefresh, Pending, TypeOK
    <2>4. CASE l2 = l /\ Writable(l)
      <3>1. chan'[l] = Append(chan[l], OnWire(PeerMsg(Own(n), FALSE)))
        BY <1>3, <2>4 DEF SendRefresh, SendTo
      <3>2. IsRefresh(OnWire(PeerMsg(Own(n), FALSE)), l)
        BY <2>1, <2>2, <2>4 DEF IsRefresh
      <3>3. Ordered(chan'[l], l) /\ HasRefresh(chan'[l], l)
        BY <1>0, <2>1, <3>1, <3>2, AppendKeeps DEF Pending
      <3> QED  BY <2>2, <2>3, <3>3 DEF Pending
    <2>5. CASE l2 = l /\ ~Writable(l)
      <3>1. chan'[l] = chan[l] /\ ~Writable(l)'
        BY <1>3, <2>3, <2>5 DEF SendRefresh, SendTo, Writable
      <3> QED  BY <2>2, <2>3, <3>1 DEF Pending, Started
    <2>6. CASE l2 # l
      <3>1. chan'[l] = chan[l]
        BY <1>3, <2>6 DEF SendRefresh, SendTo
      <3>2. <<l, "refresh">> \in todo[Src[l]] => <<l, "refresh">> \in todo'[Src[l]]
        BY <1>0, <1>3, <2>6 DEF SendRefresh, TypeOK
      <3> QED  BY <2>2, <2>3, <3>1, <3>2 DEF Pending, Started, Writable
    <2> QED  BY <2>4, <2>5, <2>6
  <1>4. ASSUME NEW l2 \in Link, SendQuery(n, l2) PROVE Pending(l)'
    <2>1. OnWire(QueryMsg(Svc[n])) \in Message
      BY NodeAssumption, WireType
    <2>2. Src[l2] = n /\ reply' = reply /\ phase' = phase
      BY <1>0, <1>4 DEF SendQuery, TypeOK
    <2>3. link'[l] = link[l]
      BY <1>0, <1>4 DEF SendQuery, Pending, TypeOK
    <2>4. <<l, "refresh">> \in todo[Src[l]] => <<l, "refresh">> \in todo'[Src[l]]
      BY <1>0, <1>4 DEF SendQuery, TypeOK
    <2>5. CASE l2 = l /\ Writable(l)
      <3>1. chan'[l] = Append(chan[l], OnWire(QueryMsg(Svc[n])))
        BY <1>4, <2>5 DEF SendQuery, SendTo
      <3>2. Started(l)
        BY <1>0, <1>4, <2>2, <2>5 DEF SendQuery, Started, AppInv, OutLinks
      <3>3. Ordered(chan'[l], l) /\ HasRefresh(chan'[l], l)
        BY <1>0, <2>1, <3>1, <3>2, AppendKeeps DEF Pending
      <3> QED  BY <2>2, <2>3, <3>3 DEF Pending
    <2>6. CASE ~(l2 = l /\ Writable(l))
      <3>1. chan'[l] = chan[l]
        BY <1>4, <2>6 DEF SendQuery, SendTo
      <3> QED  BY <2>2, <2>3, <2>4, <3>1 DEF Pending, Started, Writable
    <2> QED  BY <2>5, <2>6
  <1>5. ASSUME NEW l2 \in Link, SendBye(n, l2) PROVE Pending(l)'
    <2>1. OnWire(PeerMsg(Own(n), TRUE)) \in Message
          /\ OnWire(PeerMsg(Own(n), TRUE)).type # "QUERY"
      BY <1>0, PeerOnWire
    <2>2. Src[l2] = n /\ reply' = reply /\ phase' = phase
      BY <1>0, <1>5 DEF SendBye, TypeOK
    <2>3. link'[l] = link[l]
      BY <1>0, <1>5 DEF SendBye, Pending, TypeOK
    <2>4. <<l, "refresh">> \in todo[Src[l]] => <<l, "refresh">> \in todo'[Src[l]]
      BY <1>0, <1>5 DEF SendBye, TypeOK
    <2>5. /\ Ordered(chan[l], l) => Ordered(chan'[l], l)
          /\ HasRefresh(chan[l], l) => HasRefresh(chan'[l], l)
      BY <1>0, <1>5, <2>1, SendKeeps DEF SendBye, TypeOK
    <2> QED  BY <2>2, <2>3, <2>4, <2>5 DEF Pending, Started, Writable
  <1>6. CASE Stop(n)
    <2>1. <<l, "refresh">> \notin todo[Src[l]] \/ Src[l] # n
      BY <1>6 DEF Stop
    <2>2. Src[l] # n => todo'[Src[l]] = todo[Src[l]] /\ phase'[Src[l]] = phase[Src[l]]
      BY <1>0, <1>6 DEF Stop, TypeOK
    <2> QED  BY <1>6, <2>1, <2>2 DEF Stop, Pending, Started, Writable
  <1>7. CASE Leave(n)
    <2>1. Src[l] = n => link'[l] = "gone" /\ reply'[l] = {}
      BY <1>0, <1>7 DEF Leave, TypeOK
    <2>2. Src[l] # n => /\ link'[l] = link[l] /\ reply'[l] = reply[l]
                        /\ todo'[Src[l]] = todo[Src[l]] /\ phase'[Src[l]] = phase[Src[l]]
      BY <1>0, <1>7 DEF Leave, TypeOK
    <2>3. Dst[l] # n
      BY <1>0, <1>7 DEF Leave, Knows, TypeOK
    <2>4. chan'[l] = chan[l] \/ (chan'[l] = <<>> /\ Src[l] = n)
      BY <1>7, <2>3 DEF Leave
    <2>5. Ordered(<<>>, l)
      BY DEF Ordered
    <2> QED  BY <2>1, <2>2, <2>4, <2>5 DEF Pending, Started, Writable
  <1> QED  BY <1>1, <1>2, <1>3, <1>4, <1>5, <1>6, <1>7 DEF App

(* The handlers of the event loop: the announcement is handled before the
   query behind it is answered (net_client.cpp:157-213).                   *)
LEMMA PendingLoop ==
  ASSUME AnnounceInv, NEW l2 \in Link, Loop(l2) \/ Broken(l2) \/ Cut(l2),
         NEW l \in Link, Pending(l), ~Knows(l)'
  PROVE  Pending(l)'
  <1> USE LinkAssumption
  <1>0. TypeOK /\ chan[l] \in Seq(Message) /\ chan \in [Link -> Seq(Message)]
    BY DEF AnnounceInv, TypeOK
  <1>e. Ordered(<<>>, l)
    BY DEF Ordered
  <1>1. CASE Connect(l2)
    BY <1>0, <1>1 DEF Connect, Pending, Started, Writable, TypeOK
  <1>2. CASE Refused(l2)
    BY <1>0, <1>e, <1>2 DEF Refused, Pending, Started, Writable, TypeOK
  <1>3. CASE HandlePeer(l2)
    <2> DEFINE ch == [chan EXCEPT ![l2] = Tail(@)]
               m  == Head(chan[l2])
    <2>1. ch \in [Link -> Seq(Message)] /\ m \in PeerMessage
      BY <1>0, <1>3, PopType, PeerMessageFields DEF HandlePeer
    <2>2. PeerUpdate(Dst[l2], m, <<"in", Src[l2]>>, {nodeAddr[l2]}, ch)
      BY <1>3 DEF HandlePeer
    <2>3. l2 = l => ~IsRefresh(m, l)
      <3>1. m.key \in DOMAIN store'[Dst[l2]]
        BY <1>0, <2>2, PeerUpdateStores
      <3> QED  BY <3>1 DEF IsRefresh, Knows
    <2>4. /\ Ordered(chan[l], l) => Ordered(ch[l], l)
          /\ HasRefresh(chan[l], l) => HasRefresh(ch[l], l)
      <3>1. CASE l2 = l
        <4>1. chan[l] # <<>> /\ ch[l] = Tail(chan[l])
          BY <1>0, <1>3, <3>1 DEF HandlePeer
        <4> QED  BY <1>0, <2>3, <3>1, <4>1, TailKeeps
      <3>2. CASE l2 # l
        BY <3>2
      <3> QED  BY <3>1, <3>2
    <2> HIDE DEF ch, m
    <2>5. /\ Ordered(ch[l], l) => Ordered(chan'[l], l)
          /\ HasRefresh(ch[l], l) => HasRefresh(chan'[l], l)
      BY <2>1, <2>2, PeerUpdateQueues
    <2> QED  BY <1>3, <2>4, <2>5 DEF HandlePeer, Pending, Started, Writable
  <1>4. CASE HandleQuery(l2)
    <2>1. l2 # l
      BY <1>0, <1>4, TailKeeps DEF HandleQuery, Pending
    <2>2. chan'[l] = chan[l] /\ reply'[l] = reply[l]
      BY <1>0, <1>4, <2>1 DEF HandleQuery, TypeOK
    <2> QED  BY <1>4, <2>2 DEF HandleQuery, Pending, Started, Writable
  <1>5. ASSUME NEW k \in Key, HandleReply(l2, k) PROVE Pending(l)'
    <2>1. l2 # l
      BY <1>5 DEF HandleReply, Pending
    <2>2. PeerMsg(k, FALSE) \in PeerMessage
      BY PeerMsgFields
    <2>3. PeerUpdate(Src[l2], PeerMsg(k, FALSE), <<"out", Dst[l2]>>, {Dst[l2]}, chan)
      BY <1>5 DEF HandleReply
    <2>4. /\ Ordered(chan[l], l) => Ordered(chan'[l], l)
          /\ HasRefresh(chan[l], l) => HasRefresh(chan'[l], l)
      BY <1>0, <2>2, <2>3, PeerUpdateQueues
    <2>5. /\ reply'[l] = reply[l] /\ link'[l] = link[l]
          /\ phase' = phase /\ todo' = todo
      BY <1>0, <1>5, <2>1 DEF HandleReply, TypeOK
    <2> QED  BY <2>4, <2>5 DEF Pending, Started, Writable
  <1>6. CASE CloseReceived(l2)
    <2>1. l2 # l
      BY <1>6 DEF CloseReceived, Pending
    <2>2. reply'[l] = reply[l] /\ link'[l] = link[l]
      BY <1>0, <1>6, <2>1 DEF CloseReceived, TypeOK
    <2> QED  BY <1>6, <2>2 DEF CloseReceived, Pending, Started, Writable
  <1>10. CASE CloseRefused(l2)
    <2>1. ~ReadRestarts[Src[l2]] /\ link' = [link EXCEPT ![l2] = "closed"]
          /\ (reply'[l] = reply[l] \/ reply'[l] = {})
          /\ UNCHANGED <<phase, todo, chan>>
      BY <1>0, <1>10 DEF CloseRefused, TypeOK
    <2>2. link'[l] = link[l] \/ link'[l] = "closed"
      BY <1>0, <2>1 DEF TypeOK
    <2> QED  BY <2>1, <2>2 DEF Pending, Started, Writable
  <1>7. CASE PeerGone(l2)
    BY <1>0, <1>e, <1>7 DEF PeerGone, Pending, Started, Writable, TypeOK
  <1>8. CASE Broken(l2)
    BY <1>0, <1>e, <1>8 DEF Broken, Pending, Started, Writable, TypeOK
  <1>9. CASE Cut(l2)
    <2>1. CASE l2 = l
      <3>1. Ordered(chan'[l], l)
        BY <1>0, <1>9, <2>1, CutKeeps DEF Cut, Pending
      <3>2. ~Writable(l) /\ link' = link
        BY <1>9, <2>1 DEF Cut, Writable
      <3> QED  BY <1>9, <3>1, <3>2 DEF Cut, Pending, Started, Writable
    <2>2. CASE l2 # l
      <3>1. chan'[l] = chan[l]
        BY <1>0, <1>9, <2>2 DEF Cut, TypeOK
      <3> QED  BY <1>9, <3>1 DEF Cut, Pending, Started, Writable
    <2> QED  BY <2>1, <2>2
  <1> QED  BY <1>1, <1>2, <1>3, <1>4, <1>5, <1>6, <1>7, <1>8, <1>9, <1>10 DEF Loop

(* Every step keeps AnnounceInv. *)
LEMMA AnnounceStep == AnnounceInv /\ [Next]_vars => AnnounceInv'
  <1> SUFFICES ASSUME AnnounceInv, [Next]_vars PROVE AnnounceInv'
    OBVIOUS
  <1>1. TypeOK' /\ AppInv'
    BY TypeStep, AppStep DEF AnnounceInv
  <1>2. ASSUME NEW l \in Link PROVE Knows(l)' \/ Pending(l)'
    <2>1. CASE Knows(l)
      BY <2>1, KnowsStable DEF AnnounceInv
    <2>2. CASE Pending(l) /\ ~Knows(l)'
      <3>1. CASE UNCHANGED vars
        BY <2>2, <3>1 DEF vars, Pending, Started, Writable
      <3>2. CASE Next
        BY <2>2, <3>2, PendingApp, PendingLoop DEF Next
      <3> QED  BY <3>1, <3>2
    <2> QED  BY <2>1, <2>2 DEF AnnounceInv
  <1> QED  BY <1>1, <1>2 DEF AnnounceInv

LEMMA AnnounceCorrect == Spec => []AnnounceInv
  <1>1. Init => AnnounceInv
    <2>1. Init => AppInv
      BY DEF Init, AppInv
    <2>2. Init => \A l \in Link : Pending(l)
      BY LinkAssumption DEF Init, Pending, Ordered, Started, Writable
    <2> QED  BY <2>1, <2>2, TypeInit DEF AnnounceInv
  <1> QED  BY <1>1, AnnounceStep, PTL DEF Spec

(* A client that got a reply, and closed on it, has announced its node to the
   peer that replied, in every network and whatever fails: the close on the
   first reply costs query results and later news, but not the announcement
   (shell.cpp:108-111, net_client.cpp:407-409).                            *)
THEOREM AnnouncedFirst == Spec => []AnnouncedBeforeClosed
  <1>1. AnnounceInv => AnnouncedBeforeClosed
    BY DEF AnnounceInv, AnnouncedBeforeClosed, Knows, Pending
  <1> QED  BY <1>1, AnnounceCorrect, PTL
=============================================================================
