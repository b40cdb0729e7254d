-------------------------- MODULE PeboNetFlooding --------------------------
(***************************************************************************)
(* What flooding promises, proved for every network: the application is    *)
(* told once, a link carries each piece of news once, connected peers are  *)
(* informed, a reply is not sent back, and while a client is connected     *)
(* there is a reply to come.                                               *)
(***************************************************************************)
EXTENDS PeboNetProofs

\* The wire never carries isRemoved, so no entry ever is.
Present == \A n \in Node : \A k \in DOMAIN store[n] : ~store[n][k].isRemoved

\* A node knows itself before anybody else can know it.
OwnStored ==
  \A n \in Node : phase[n] \in {"up", "stopping"} => Own(n) \in DOMAIN store[n]

HasPeer(q, k) == \E i \in 1 .. Len(q) : q[i] = PeerMsg(k, FALSE)

Occurs(k) == \/ \E n \in Node : k \in DOMAIN store[n]
             \/ \E l \in Link : k \in reply[l] \/ HasPeer(chan[l], k)

Origin == \A n \in Node : Occurs(Own(n)) => phase[n] \notin {"off", "listening"}

OffEmpty == \A n \in Node : phase[n] = "off" => DOMAIN store[n] = {}

\* ToldOnce, also of a node that is off.
ToldInv ==
  \A n \in Node : phase[n] # "left" =>
    \A k \in Key : told[n][k] = IF k \in DOMAIN store[n] /\ k # Own(n) THEN 1 ELSE 0

\* A node sends nothing of a foreign key before it knows it.
SentInv ==
  \A l \in Link : \A k \in Key : k # Own(Src[l]) =>
    /\ sent[l][k] <= 1
    /\ phase[Src[l]] # "left" /\ k \notin DOMAIN store[Src[l]] => sent[l][k] = 0

\* What is replied is known to the peer that replied.
ReplyKnown ==
  \A l \in Link : phase[Dst[l]] # "left" => \A k \in reply[l] : k \in DOMAIN store[Dst[l]]

\* What is on the way on a link is known to the node that wrote it.
SenderKnows ==
  \A l \in Link : phase[Src[l]] # "left" =>
    \A k \in Key : HasPeer(chan[l], k) => k \in DOMAIN store[Src[l]]

\* What a node does not know it has not learned.
Unlearned ==
  \A n \in Node : phase[n] # "left" =>
    \A k \in Key : k \notin DOMAIN store[n] => via[n][k] = {}

\* OutPeerInformed, from the moment the link is opened.
Informed(l) ==
  \A k \in DOMAIN store[Src[l]] :
    \/ k \in DOMAIN store[Dst[l]]
    \/ HasPeer(chan[l], k)
    \/ k = Own(Src[l]) /\ <<l, "refresh">> \in todo[Src[l]]
    \/ SkippedByMistake(l, k)

InformedInv ==
  \A l \in Link : Running(Src[l]) /\ phase[Dst[l]] # "left" /\ Writable(l) => Informed(l)

\* Only foreign keys come out of replies; a node that knows one does not send
\* it any more.
ViaInv ==
  \A l \in Link : \A k \in Key : <<"out", Dst[l]>> \in via[Src[l]][k] =>
    /\ k # Own(Src[l])
    /\ sent[l][k] = 0
    /\ phase[Src[l]] # "left" => k \in DOMAIN store[Src[l]]

BaseInv == TypeOK /\ AppInv /\ Present /\ OwnStored /\ Origin /\ OffEmpty /\ SenderKnows /\ Unlearned

FloodInv == BaseInv /\ ToldInv /\ SentInv /\ ReplyKnown /\ InformedInv /\ ViaInv

-----------------------------------------------------------------------------
(* Queues.                                                                 *)

(* A PEER message is made of its key alone, and arrives as it was written. *)
LEMMA PeerMsgIs ==
  /\ \A m \in PeerMessage : m = PeerMsg(m.key, FALSE) /\ m.key \in Key /\ OnWire(m) = m
  /\ \A k \in Key : PeerMsg(k, FALSE) \in PeerMessage /\ PeerMsg(k, FALSE).key = k
  /\ \A k \in Key, s \in Service : PeerMsg(k, FALSE) # QueryMsg(s)
  <1>1. \A k : PeerMsg(k, FALSE).key = k /\ PeerMsg(k, FALSE).type = "PEER"
    BY DEF PeerMsg
  <1>2. \A s : QueryMsg(s).type = "QUERY"
    BY DEF QueryMsg
  <1>3. ASSUME NEW m \in PeerMessage PROVE m = PeerMsg(m.key, FALSE) /\ m.key \in Key
    BY <1>1 DEF PeerMessage
  <1> QED  BY <1>1, <1>2, <1>3, PeerMsgFields, WireType

(* What a queue holds once a line is added at its end, ... *)
LEMMA AppendHas ==
  ASSUME NEW q \in Seq(Message), NEW m \in Message, NEW k
  PROVE  HasPeer(Append(q, m), k) <=> HasPeer(q, k) \/ m = PeerMsg(k, FALSE)
  <1>1. /\ Len(Append(q, m)) = Len(q) + 1 /\ Len(q) \in Nat
        /\ \A i \in 1 .. Len(q) : Append(q, m)[i] = q[i]
        /\ Append(q, m)[Len(q) + 1] = m
    OBVIOUS
  <1>2. \A i \in 1 .. Len(q) + 1 : i \in 1 .. Len(q) \/ i = Len(q) + 1
    BY <1>1
  <1>3. Len(q) + 1 \in 1 .. Len(q) + 1 /\ \A i \in 1 .. Len(q) : i \in 1 .. Len(q) + 1
    BY <1>1
  <1> QED  BY <1>1, <1>2, <1>3 DEF HasPeer

(* ... once its head is taken, ... *)
LEMMA TailHas ==
  ASSUME NEW q \in Seq(Message), q # <<>>, NEW k
  PROVE  /\ HasPeer(Tail(q), k) => HasPeer(q, k)
         /\ HasPeer(q, k) /\ Head(q) # PeerMsg(k, FALSE) => HasPeer(Tail(q), k)
  <1>1. /\ Len(Tail(q)) = Len(q) - 1 /\ Len(q) \in Nat /\ Len(q) > 0
        /\ \A i \in 1 .. Len(q) - 1 : Tail(q)[i] = q[i + 1]
        /\ Head(q) = q[1]
    OBVIOUS
  <1>2. ASSUME HasPeer(Tail(q), k) PROVE HasPeer(q, k)
    <2>1. PICK i \in 1 .. Len(q) - 1 : Tail(q)[i] = PeerMsg(k, FALSE)
      BY <1>1, <1>2 DEF HasPeer
    <2>2. i + 1 \in 1 .. Len(q)
      BY <1>1
    <2>3. Tail(q)[i] = q[i + 1]
      BY <1>1
    <2> QED  BY <2>1, <2>2, <2>3 DEF HasPeer
  <1>3. ASSUME HasPeer(q, k), Head(q) # PeerMsg(k, FALSE) PROVE HasPeer(Tail(q), k)
    <2>1. PICK i \in 1 .. Len(q) : q[i] = PeerMsg(k, FALSE)
      BY <1>3 DEF HasPeer
    <2>2. i # 1
      BY <1>1, <1>3, <2>1
    <2>3. i - 1 \in 1 .. Len(q) - 1
      BY <1>1, <2>2
    <2>4. Tail(q)[i - 1] = q[i - 1 + 1] /\ i - 1 + 1 = i
      BY <1>1, <2>3
    <2> QED  BY <1>1, <2>1, <2>3, <2>4 DEF HasPeer
  <1> QED  BY <1>2, <1>3

(* ... and once its end is cut off. *)
LEMMA CutHas ==
  ASSUME NEW q \in Seq(Message), q # <<>>, NEW k, HasPeer(SubSeq(q, 1, Len(q) - 1), k)
  PROVE  HasPeer(q, k)
  <1>1. Len(q) \in Nat
    OBVIOUS
  <1>2. PICK i \in 1 .. Len(q) - 1 : q[i] = PeerMsg(k, FALSE)
    BY CutType DEF HasPeer
  <1>3. i \in 1 .. Len(q)
    BY <1>1, <1>2
  <1> QED  BY <1>2, <1>3 DEF HasPeer

(* Sending a message adds it to the writable links among those meant. *)
LEMMA SendHas ==
  ASSUME NEW ch \in [Link -> Seq(Message)], NEW L, NEW m, OnWire(m) \in Message,
         NEW l \in Link, NEW k
  PROVE  HasPeer(SendTo(ch, L, m)[l], k)
           <=> HasPeer(ch[l], k) \/ (l \in L /\ Writable(l) /\ OnWire(m) = PeerMsg(k, FALSE))
  <1>1. SendTo(ch, L, m)[l] = IF l \in L /\ Writable(l) THEN Append(ch[l], OnWire(m)) ELSE ch[l]
    BY DEF SendTo
  <1>2. CASE l \in L /\ Writable(l)
    <2> DEFINE q == ch[l]
               w == OnWire(m)
    <2>1. q \in Seq(Message) /\ w \in Message
      OBVIOUS
    <2> HIDE DEF q, w
    <2>2. HasPeer(Append(q, w), k) <=> HasPeer(q, k) \/ w = PeerMsg(k, FALSE)
      BY <2>1, AppendHas
    <2> QED  BY <1>1, <1>2, <2>2 DEF q, w
  <1>3. CASE ~(l \in L /\ Writable(l))
    BY <1>1, <1>3
  <1> QED  BY <1>2, <1>3

(* The count of the messages sent. *)
LEMMA CountIs ==
  ASSUME TypeOK, NEW L, NEW k \in Key, NEW l \in Link, NEW j \in Key
  PROVE  CountSent(L, k)[l][j] =
           IF l \in L /\ Writable(l) /\ j = k THEN sent[l][j] + 1 ELSE sent[l][j]
  BY DEF CountSent, TypeOK

(* No two nodes own the same key. *)
LEMMA OwnOne == \A n, n2 \in Node : Own(n) = Own(n2) => n = n2
  BY DEF Own

-----------------------------------------------------------------------------
(* What steps do to the network, in three kinds; the other actions are     *)
(* Listen, StoreOwn and Leave.                                             *)

\* Nobody learns or announces anything.
QuietStep ==
  /\ \A n \in Node : phase'[n] = phase[n] \/ (phase[n] = "up" /\ phase'[n] = "stopping")
  /\ \A n \in Node, l \in Link : <<l, "refresh">> \in todo[n] => <<l, "refresh">> \in todo'[n]
  /\ UNCHANGED <<store, told, via, sent, nodeAddr>>
  /\ \A l \in Link :
       /\ \A k \in Key : HasPeer(chan'[l], k) => HasPeer(chan[l], k)
       /\ \A k \in Key : k \in reply'[l] => k \in reply[l] \/ k \in DOMAIN store[Dst[l]]
       /\ Writable(l)' => /\ Writable(l)
                          /\ \A k \in Key : HasPeer(chan[l], k) => HasPeer(chan'[l], k)

\* A node announces itself on a link.
AnnouncesOn(n, l) ==
  /\ Src[l] = n /\ phase[n] \in {"up", "stopping"}
  /\ UNCHANGED <<phase, store, reply, told, via, nodeAddr>>
  /\ \A n2 \in Node, l2 \in Link :
       <<l2, "refresh">> \in todo[n2] /\ l2 # l => <<l2, "refresh">> \in todo'[n2]
  /\ \A l2 \in Link :
       /\ Writable(l2)' => Writable(l2)
       /\ \A k \in Key : HasPeer(chan'[l2], k)
                           <=> HasPeer(chan[l2], k) \/ (l2 = l /\ Writable(l) /\ k = Own(n))
       /\ \A k \in Key : k # Own(Src[l2]) => sent'[l2][k] = sent[l2][k]

\* The links over which news is passed on.
Passes(n, skip, l) == Src[l] = n /\ Dst[l] \notin skip /\ Writable(l)

\* A message came over a connection whose address reads as that of d, though
\* another node is at its end.
Mistaken(n, d, from) ==
  \E l \in Link : Dst[l] = n /\ Src[l] # d /\ nodeAddr[l] = d /\ from = <<"in", Src[l]>>

\* A node learns that k exists, or is told again.
LearnStep(n, k, skip, from) ==
  /\ Running(n) /\ k \in Key /\ Occurs(k)
  /\ \A d \in Node : d \in skip =>
       phase[d] = "left" \/ k \in DOMAIN store[d] \/ Mistaken(n, d, from)
  /\ UNCHANGED <<phase, todo, nodeAddr>>
  /\ \A n2 \in Node : \A j : j \in DOMAIN store'[n2]
                               <=> j \in DOMAIN store[n2] \/ (n2 = n /\ j = k)
  /\ Present'
  /\ \A l \in Link :
       /\ Writable(l)' => Writable(l)
       /\ \A j \in Key : j \in reply'[l] => j \in reply[l]
       /\ \A j \in Key : HasPeer(chan'[l], j) => HasPeer(chan[l], j) \/ (Src[l] = n /\ j = k)
       /\ \A j \in Key : HasPeer(chan[l], j)
                           => HasPeer(chan'[l], j) \/ (Dst[l] = n /\ j = k)
  /\ IF k \in DOMAIN store[n]
     THEN UNCHANGED <<told, via, sent>>
     ELSE /\ k # Own(n)
          /\ \A l \in Link : Passes(n, skip, l) => HasPeer(chan'[l], k)
          /\ \A l \in Link, j \in Key :
               sent'[l][j] = IF Passes(n, skip, l) /\ j = k THEN sent[l][j] + 1 ELSE sent[l][j]
          /\ \A n2 \in Node, j \in Key :
               told'[n2][j] = IF n2 = n /\ j = k THEN told[n2][j] + 1 ELSE told[n2][j]
          /\ \A n2 \in Node, j \in Key :
               via'[n2][j] = IF n2 = n /\ j = k /\ via[n2][j] = {} THEN {from} ELSE via[n2][j]
          /\ \A d \in Node : from = <<"out", d>> => d \in skip
-----------------------------------------------------------------------------
(* Every action is of its kind.                                            *)

(* The handlers of a connection's life, and of a query, teach nobody
   anything (net_client.cpp:239-291, 334-417, pebo_net.cpp:206-260).       *)
LEMMA LoopIsQuiet ==
  ASSUME TypeOK, NEW l2 \in Link,
         \/ Connect(l2) \/ Refused(l2) \/ HandleQuery(l2) \/ CloseReceived(l2)
         \/ CloseRefused(l2) \/ PeerGone(l2) \/ Broken(l2) \/ Cut(l2)
  PROVE  QuietStep
  <1> USE LinkAssumption
  <1>0. chan \in [Link -> Seq(Message)] /\ link \in [Link -> LinkState]
        /\ reply \in [Link -> SUBSET Key]
    BY DEF TypeOK
  <1>e. \A k : ~HasPeer(<<>>, k)
    BY DEF HasPeer
  <1>1. UNCHANGED <<phase, todo, store, told, via, sent, nodeAddr>>
    BY DEF Connect, Refused, HandleQuery, CloseReceived, CloseRefused, PeerGone,
           Broken, Cut, history
  <1>2. ASSUME NEW l \in Link, l # l2
        PROVE  chan'[l] = chan[l] /\ reply'[l] = reply[l] /\ link'[l] = link[l]
    BY <1>0, <1>2 DEF Connect, Refused, HandleQuery, CloseReceived, CloseRefused,
                      PeerGone, Broken, Cut
  <1>3. CASE Connect(l2)
    BY <1>0, <1>1, <1>2, <1>3 DEF Connect, QuietStep, Writable
  <1>4. CASE Refused(l2) \/ PeerGone(l2) \/ Broken(l2) \/ CloseReceived(l2) \/ CloseRefused(l2)
    <2>1. /\ link'[l2] \in {"failed", "closed"} /\ chan'[l2] \in {<<>>, chan[l2]}
          /\ reply'[l2] \in {{}, reply[l2]}
      BY <1>0, <1>4 DEF Refused, PeerGone, Broken, CloseReceived, CloseRefused
    <2> QED  BY <1>e, <1>1, <1>2, <2>1 DEF QuietStep, Writable
  <1>5. CASE HandleQuery(l2)
    <2>1. chan[l2] # <<>> /\ chan'[l2] = Tail(chan[l2]) /\ link' = link
      BY <1>0, <1>5 DEF HandleQuery
    <2>2. ASSUME NEW k \in Key
          PROVE  HasPeer(chan'[l2], k) <=> HasPeer(chan[l2], k)
      <3>1. Head(chan[l2]) # PeerMsg(k, FALSE)
        BY <1>5 DEF HandleQuery, PeerMsg
      <3>2. chan[l2] \in Seq(Message)
        BY <1>0
      <3> QED  BY <2>1, <3>1, <3>2, TailHas
    <2>3. \A k \in Key : k \in reply'[l2] => k \in reply[l2] \/ k \in DOMAIN store[Dst[l2]]
      BY <1>0, <1>5 DEF HandleQuery, Query
    <2> QED  BY <1>1, <1>2, <2>1, <2>2, <2>3 DEF QuietStep, Writable
  <1>6. CASE Cut(l2)
    <2>1. /\ chan[l2] # <<>> /\ chan'[l2] = SubSeq(chan[l2], 1, Len(chan[l2]) - 1)
          /\ link' = link /\ reply' = reply /\ ~Writable(l2)
      BY <1>0, <1>6 DEF Cut, Writable
    <2>2. \A k \in Key : HasPeer(chan'[l2], k) => HasPeer(chan[l2], k)
      BY <1>0, <2>1, CutHas
    <2> QED  BY <1>1, <1>2, <2>1, <2>2 DEF QuietStep, Writable
  <1> QED  BY <1>3, <1>4, <1>5, <1>6

(* Nor do a query sent, the beginning of Shell::stop, and a stutter. *)
LEMMA AppIsQuiet ==
  ASSUME TypeOK, \/ \E n \in Node : Stop(n) \/ \E l \in Link : SendQuery(n, l)
                 \/ UNCHANGED vars
  PROVE  QuietStep
  <1> USE LinkAssumption
  <1>0. chan \in [Link -> Seq(Message)] /\ link \in [Link -> LinkState]
    BY DEF TypeOK
  <1>1. ASSUME NEW n \in Node, Stop(n) PROVE QuietStep
    <2>1. /\ phase' = [phase EXCEPT ![n] = "stopping"] /\ phase[n] = "up"
          /\ todo' = [todo EXCEPT ![n] = OutLinks(n) \X {"bye"}] /\ todo[n] = {}
          /\ UNCHANGED <<store, link, chan, reply, told, via, sent, nodeAddr>>
      BY <1>1 DEF Stop, history
    <2>2. \A n2 \in Node : phase'[n2] = phase[n2] \/ (phase[n2] = "up" /\ phase'[n2] = "stopping")
      BY <2>1 DEF TypeOK
    <2>3. \A n2 \in Node, l \in Link : <<l, "refresh">> \in todo[n2] => <<l, "refresh">> \in todo'[n2]
      BY <2>1 DEF TypeOK
    <2> QED  BY <2>1, <2>2, <2>3 DEF QuietStep, Writable
  <1>2. ASSUME NEW n \in Node, NEW l2 \in Link, SendQuery(n, l2) PROVE QuietStep
    <2>1. /\ UNCHANGED <<phase, store, reply, told, via, sent, nodeAddr>>
          /\ link' = [link EXCEPT ![l2] = IF @ = "received" THEN "open" ELSE @]
          /\ chan' = SendTo(chan, {l2}, QueryMsg(Svc[n]))
          /\ todo' = [todo EXCEPT ![n] = @ \ {<<l2, "query">>}]
      BY <1>2 DEF SendQuery, history
    <2>2. \A n2 \in Node, l \in Link : <<l, "refresh">> \in todo[n2] => <<l, "refresh">> \in todo'[n2]
      BY <2>1 DEF TypeOK
    <2>3. ASSUME NEW l \in Link, NEW k \in Key
          PROVE  HasPeer(chan'[l], k) <=> HasPeer(chan[l], k)
      <3>1. Svc[n] \in Service
        BY NodeAssumption
      <3>2. OnWire(QueryMsg(Svc[n])) \in Message /\ OnWire(QueryMsg(Svc[n])) # PeerMsg(k, FALSE)
        BY <3>1, WireType, PeerMsgIs
      <3> QED  BY <1>0, <2>1, <3>2, SendHas
    <2>4. \A l \in Link : Writable(l)' => Writable(l)
      BY <1>0, <2>1 DEF Writable
    <2> QED  BY <2>1, <2>2, <2>3, <2>4 DEF QuietStep
  <1>3. CASE UNCHANGED vars
    BY <1>3 DEF vars, QuietStep, Writable
  <1> QED  BY <1>1, <1>2, <1>3

(* A refresh and a good bye look the same on the wire (shell.cpp:174-182). *)
LEMMA SendAnnounces ==
  ASSUME TypeOK, AppInv, NEW n \in Node, NEW l \in Link, SendRefresh(n, l) \/ SendBye(n, l)
  PROVE  AnnouncesOn(n, l)
  <1> USE LinkAssumption
  <1>0. chan \in [Link -> Seq(Message)] /\ link \in [Link -> LinkState] /\ Own(n) \in Key
    BY OwnType DEF TypeOK
  <1>1. PICK removed \in BOOLEAN, what \in {"refresh", "bye"} :
          /\ <<l, what>> \in todo[n]
          /\ todo' = [todo EXCEPT ![n] = @ \ {<<l, what>>}]
          /\ chan' = SendTo(chan, {l}, PeerMsg(Own(n), removed))
    BY DEF SendRefresh, SendBye
  <1>2. /\ link' = [link EXCEPT ![l] = IF @ = "received" THEN "open" ELSE @]
        /\ sent' = CountSent({l}, Own(n))
        /\ UNCHANGED <<phase, store, reply, told, via, nodeAddr>>
    BY DEF SendRefresh, SendBye
  <1>3. Src[l] = n /\ phase[n] \in {"up", "stopping"}
    BY <1>1 DEF TypeOK, AppInv
  <1>4. \A n2 \in Node, l2 \in Link :
          <<l2, "refresh">> \in todo[n2] /\ l2 # l => <<l2, "refresh">> \in todo'[n2]
    BY <1>1 DEF TypeOK
  <1>5. \A l2 \in Link : Writable(l2)' => Writable(l2)
    BY <1>0, <1>2 DEF Writable
  <1>6. ASSUME NEW l2 \in Link, NEW k \in Key
        PROVE  HasPeer(chan'[l2], k)
                 <=> HasPeer(chan[l2], k) \/ (l2 = l /\ Writable(l) /\ k = Own(n))
    <2>1. OnWire(PeerMsg(Own(n), removed)) = PeerMsg(Own(n), FALSE)
          /\ OnWire(PeerMsg(Own(n), removed)) \in Message
      BY <1>0, WireType
    <2>2. PeerMsg(Own(n), FALSE) = PeerMsg(k, FALSE) <=> k = Own(n)
      BY <1>0, PeerMsgIs
    <2>3. HasPeer(SendTo(chan, {l}, PeerMsg(Own(n), removed))[l2], k)
            <=> \/ HasPeer(chan[l2], k)
                \/ /\ l2 \in {l} /\ Writable(l2)
                   /\ OnWire(PeerMsg(Own(n), removed)) = PeerMsg(k, FALSE)
      BY <1>0, <2>1, SendHas
    <2> QED  BY <1>1, <2>1, <2>2, <2>3
  <1>7. \A l2 \in Link : \A k \in Key : k # Own(Src[l2]) => sent'[l2][k] = sent[l2][k]
    BY <1>0, <1>2, <1>3, CountIs
  <1> QED  BY <1>2, <1>3, <1>4, <1>5, <1>6, <1>7 DEF AnnouncesOn
(* An update is news exactly if its key is not in the store, for nothing is
   ever removed from or marked in it (store.cpp:42-61, pebo_net.cpp:190-195). *)
LEMMA NewsIsNew ==
  ASSUME TypeOK, Present, NEW n \in Node, NEW k
  PROVE  IsNews(ResultOf(store[n], k, FALSE)) <=> k \notin DOMAIN store[n]
  <1>1. k \in DOMAIN store[n] => store[n][k].isRemoved = FALSE
    BY DEF Present, TypeOK, IsStore, PeerInfo
  <1> QED  BY <1>1 DEF IsNews, ResultOf, FindPeer

(* peerUpdateFromPeboPeer, called with a key that occurs in the network and an
   address to skip that knows it (pebo_net.cpp:187-204, 222-241).          *)
LEMMA UpdateLearns ==
  ASSUME BaseInv, NEW n \in Node, Running(n), NEW m \in PeerMessage, NEW skip,
         NEW from \in {"own", "in", "out"} \X Node,
         NEW ch \in [Link -> Seq(Message)], PeerUpdate(n, m, from, skip, ch),
         Occurs(m.key),
         \A d \in Node : d \in skip =>
           phase[d] = "left" \/ m.key \in DOMAIN store[d] \/ Mistaken(n, d, from),
         \A d \in Node : from = <<"out", d>> => d \in skip,
         \A l \in Link : \A j \in Key : HasPeer(ch[l], j) => HasPeer(chan[l], j),
         \A l \in Link : \A j \in Key :
           HasPeer(chan[l], j) => HasPeer(ch[l], j) \/ (Dst[l] = n /\ j = m.key),
         UNCHANGED <<phase, todo>>,
         \A l \in Link : Writable(l)' => Writable(l),
         \A l \in Link : \A j \in Key : j \in reply'[l] => j \in reply[l]
  PROVE  LearnStep(n, m.key, skip, from)
  <1> USE LinkAssumption
  <1> DEFINE k == m.key
             st == FindAndUpdate(store[n], k, FALSE, 0, 0)
             L == {l \in OutLinks(n) : Dst[l] \notin skip}
  <1>0. TypeOK /\ Present /\ OwnStored /\ Origin
    BY DEF BaseInv
  <1>1. k \in Key /\ m.isRemoved = FALSE /\ m = PeerMsg(k, FALSE) /\ OnWire(m) = m
        /\ m \in Message
    BY PeerMsgIs, PeerMsgFields
  <1>2. store' = [store EXCEPT ![n] = st]
    BY <1>1 DEF PeerUpdate
  <1>3. \A n2 \in Node : \A j : j \in DOMAIN store'[n2]
                                  <=> j \in DOMAIN store[n2] \/ (n2 = n /\ j = k)
    <2>1. \A j : j \in DOMAIN st <=> j \in DOMAIN store[n] \/ j = k
      BY FindAndUpdateDomain
    <2> HIDE DEF st
    <2> QED  BY <1>0, <1>2, <2>1 DEF TypeOK
  <1>4. Present'
    <2>1. \A j \in DOMAIN st : ~st[j].isRemoved
      BY <1>0 DEF FindAndUpdate, AddPeer, NewInfo, Present
    <2> HIDE DEF st
    <2> QED  BY <1>0, <1>2, <2>1 DEF Present, TypeOK
  <1>5. k = Own(n) => k \in DOMAIN store[n]
    BY <1>0 DEF Origin, OwnStored, Running
  <1>6. CASE k \in DOMAIN store[n]
    <2>1. ~IsNews(ResultOf(store[n], k, m.isRemoved))
      BY <1>0, <1>1, <1>6, NewsIsNew
    <2>2. chan' = ch /\ UNCHANGED <<told, via, sent, nodeAddr>>
      BY <2>1 DEF PeerUpdate, history
    <2> QED  BY <1>1, <1>3, <1>4, <1>6, <2>2 DEF LearnStep
  <1>7. CASE k \notin DOMAIN store[n]
    <2>1. IsNews(ResultOf(store[n], k, m.isRemoved))
      BY <1>0, <1>1, <1>7, NewsIsNew
    <2>2. /\ told' = [told EXCEPT ![n][k] = @ + 1]
          /\ via' = [via EXCEPT ![n][k] = IF @ = {} THEN {from} ELSE @]
          /\ chan' = SendTo(ch, L, m)
          /\ sent' = CountSent(L, k)
          /\ nodeAddr' = nodeAddr
      BY <2>1 DEF PeerUpdate
    <2>3. \A l \in Link : l \in L /\ Writable(l) <=> Passes(n, skip, l)
      BY DEF Passes, OutLinks
    <2> HIDE DEF L, k
    <2>4. ASSUME NEW l \in Link, NEW j \in Key
          PROVE  HasPeer(chan'[l], j) <=> HasPeer(ch[l], j) \/ (Passes(n, skip, l) /\ j = k)
      <3>0. OnWire(m) \in Message
        BY <1>1
      <3>1. HasPeer(SendTo(ch, L, m)[l], j)
              <=> HasPeer(ch[l], j) \/ (l \in L /\ Writable(l) /\ OnWire(m) = PeerMsg(j, FALSE))
        BY ONLY <3>0, SendHas, ch \in [Link -> Seq(Message)], l \in Link
      <3>2. OnWire(m) = PeerMsg(j, FALSE) <=> j = k
        <4>1. PeerMsg(k, FALSE).key = k /\ PeerMsg(j, FALSE).key = j
          BY <1>1, PeerMsgIs
        <4>2. OnWire(m) = PeerMsg(k, FALSE)
          BY <1>1
        <4> QED  BY ONLY <4>1, <4>2
      <3> QED  BY <2>2, <2>3, <3>1, <3>2
    <2>5. \A l \in Link, j \in Key :
            sent'[l][j] = IF Passes(n, skip, l) /\ j = k THEN sent[l][j] + 1 ELSE sent[l][j]
      BY <1>0, <1>1, <2>2, <2>3, CountIs
    <2>6. \A n2 \in Node, j \in Key :
            told'[n2][j] = IF n2 = n /\ j = k THEN told[n2][j] + 1 ELSE told[n2][j]
      BY <1>0, <1>1, <2>2 DEF TypeOK
    <2>7. \A n2 \in Node, j \in Key :
            via'[n2][j] = IF n2 = n /\ j = k /\ via[n2][j] = {} THEN {from} ELSE via[n2][j]
      BY <1>0, <1>1, <2>2 DEF TypeOK
    <2>8. k # Own(n)
      BY <1>5, <1>7
    <2>9. \A l \in Link : Passes(n, skip, l) => Src[l] = n
      BY DEF Passes
    <2> QED  BY <1>1, <1>3, <1>4, <1>7, <2>2, <2>4, <2>5, <2>6, <2>7, <2>8, <2>9 DEF LearnStep, k
  <1> QED  BY <1>6, <1>7

(* A PEER line read from an accepted connection: the address that is skipped is
   that of its sender, which knows the key, or is mistaken for another node
   (net_handler.cpp:189, 254).                                             *)
LEMMA HandlePeerLearns ==
  ASSUME BaseInv, NEW l2 \in Link, HandlePeer(l2)
  PROVE  LearnStep(Dst[l2], Head(chan[l2]).key, {nodeAddr[l2]}, <<"in", Src[l2]>>)
  <1> USE LinkAssumption
  <1> DEFINE m == Head(chan[l2])
             ch == [chan EXCEPT ![l2] = Tail(@)]
             n == Dst[l2]
             from == <<"in", Src[l2]>>
             skip == {nodeAddr[l2]}
  <1>0. TypeOK /\ chan \in [Link -> Seq(Message)] /\ chan[l2] # <<>> /\ chan[l2] \in Seq(Message)
    BY DEF BaseInv, TypeOK, HandlePeer
  <1>1. m \in PeerMessage /\ ch \in [Link -> Seq(Message)]
    BY <1>0, PopType, PeerMessageFields DEF HandlePeer
  <1>2. m = PeerMsg(m.key, FALSE) /\ m.key \in Key
    BY <1>1, PeerMsgIs
  <1>h. HasPeer(chan[l2], m.key)
    <2>1. 1 \in 1 .. Len(chan[l2]) /\ m = chan[l2][1]
      BY <1>0
    <2> QED  BY <1>2, <2>1 DEF HasPeer
  <1>3. Occurs(m.key)
    BY <1>h DEF Occurs
  <1>4. ASSUME NEW l \in Link, NEW j \in Key
        PROVE  /\ HasPeer(ch[l], j) => HasPeer(chan[l], j)
               /\ HasPeer(chan[l], j) => HasPeer(ch[l], j) \/ (Dst[l] = n /\ j = m.key)
    <2>1. CASE l = l2
      <3>1. ch[l] = Tail(chan[l2])
        BY <1>0, <2>1
      <3>2. m = PeerMsg(j, FALSE) => j = m.key
        BY PeerMsgIs
      <3> QED  BY <1>0, <2>1, <3>1, <3>2, TailHas
    <2>2. CASE l # l2
      BY <1>0, <2>2
    <2> QED  BY <2>1, <2>2
  <1>5. /\ PeerUpdate(n, m, from, skip, ch) /\ Running(n)
        /\ UNCHANGED <<phase, todo, link, reply>>
    BY DEF HandlePeer
  <1>6. \A l \in Link : Writable(l)' => Writable(l)
    BY <1>5 DEF Writable
  <1>7. n \in Node /\ from \in {"own", "in", "out"} \X Node
    OBVIOUS
  <1>8. \A d \in Node : from = <<"out", d>> => d \in skip
    OBVIOUS
  <1>k. ASSUME NEW d \in Node, d \in skip
        PROVE  phase[d] = "left" \/ m.key \in DOMAIN store[d] \/ Mistaken(n, d, from)
    <2>1. CASE d = Src[l2]
      BY <1>2, <1>h, <2>1 DEF BaseInv, SenderKnows
    <2>2. CASE d # Src[l2]
      BY <1>k, <2>2 DEF Mistaken
    <2> QED  BY <2>1, <2>2
  <1> HIDE DEF m, ch, n, from, skip
  <1>9. LearnStep(n, m.key, skip, from)
    BY <1>1, <1>3, <1>4, <1>5, <1>6, <1>7, <1>8, <1>k, UpdateLearns
  <1> QED  BY <1>9 DEF m, n, from, skip

(* A line of a reply (pebo_net.cpp:233-238). *)
LEMMA HandleReplyLearns ==
  ASSUME BaseInv, ReplyKnown, NEW l2 \in Link, NEW k \in Key, HandleReply(l2, k)
  PROVE  LearnStep(Src[l2], k, {Dst[l2]}, <<"out", Dst[l2]>>)
  <1> USE LinkAssumption
  <1> DEFINE m == PeerMsg(k, FALSE)
             n == Src[l2]
             from == <<"out", Dst[l2]>>
             skip == {Dst[l2]}
  <1>0. /\ TypeOK /\ chan \in [Link -> Seq(Message)] /\ link \in [Link -> LinkState]
        /\ reply \in [Link -> SUBSET Key]
    BY DEF BaseInv, TypeOK
  <1>1. m \in PeerMessage /\ m.key = k
    BY PeerMsgIs
  <1>2. /\ PeerUpdate(n, m, from, skip, chan) /\ Running(n) /\ k \in reply[l2]
        /\ UNCHANGED <<phase, todo>>
        /\ reply' = [reply EXCEPT ![l2] = @ \ {k}]
        /\ link[l2] \in {"open", "received"} /\ link' = [link EXCEPT ![l2] = "received"]
    BY DEF HandleReply
  <1>3. Occurs(k)
    BY <1>2 DEF Occurs
  <1>4. \A d \in Node : d \in skip => phase[d] = "left" \/ k \in DOMAIN store[d]
    BY <1>2 DEF ReplyKnown
  <1>5. \A d \in Node : from = <<"out", d>> => d \in skip
    OBVIOUS
  <1>6. \A l \in Link : Writable(l)' => Writable(l)
    BY <1>0, <1>2 DEF Writable
  <1>7. \A l \in Link : \A j \in Key : j \in reply'[l] => j \in reply[l]
    BY <1>0, <1>2
  <1>8. n \in Node /\ from \in {"own", "in", "out"} \X Node
    OBVIOUS
  <1> HIDE DEF m, n, from, skip
  <1>9. LearnStep(n, m.key, skip, from)
    BY <1>0, <1>1, <1>2, <1>3, <1>4, <1>5, <1>6, <1>7, <1>8, UpdateLearns
  <1> QED  BY <1>1, <1>9 DEF n, from, skip
-----------------------------------------------------------------------------
(* Every kind of step keeps the invariant.                                 *)

(* A step that teaches nobody anything. *)
LEMMA QuietKeeps ==
  ASSUME FloodInv, QuietStep, TypeOK', AppInv'
  PROVE  FloodInv'
  <1> USE LinkAssumption
  <1>0. TypeOK /\ Present /\ OwnStored /\ Origin /\ OffEmpty /\ SenderKnows /\ Unlearned
    BY DEF FloodInv, BaseInv
  <1>1. /\ \A n \in Node : phase'[n] = phase[n] \/ (phase[n] = "up" /\ phase'[n] = "stopping")
        /\ UNCHANGED <<store, told, via, sent, nodeAddr>>
    BY DEF QuietStep
  <1>2. Present' /\ OwnStored' /\ OffEmpty' /\ Unlearned'
    BY <1>0, <1>1 DEF Present, OwnStored, OffEmpty, Unlearned
  <1>s. SenderKnows'
    BY <1>0, <1>1 DEF SenderKnows, QuietStep
  <1>3. Origin'
    <2>1. \A n \in Node : Occurs(Own(n))' => Occurs(Own(n))
      BY OwnType DEF QuietStep, Occurs
    <2> QED  BY <1>0, <1>1, <2>1 DEF Origin
  <1>4. ToldInv' /\ SentInv' /\ ViaInv'
    BY <1>1 DEF FloodInv, ToldInv, SentInv, ViaInv
  <1>5. ReplyKnown'
    <2> SUFFICES ASSUME NEW l \in Link, phase'[Dst[l]] # "left", NEW k \in reply'[l]
                 PROVE  k \in DOMAIN store'[Dst[l]]
      BY DEF ReplyKnown
    <2>1. k \in Key
      BY DEF TypeOK
    <2> QED  BY <1>1, <2>1 DEF FloodInv, ReplyKnown, QuietStep
  <1>6. InformedInv'
    <2> SUFFICES ASSUME NEW l \in Link, Running(Src[l])', phase'[Dst[l]] # "left", Writable(l)'
                 PROVE  Informed(l)'
      BY DEF InformedInv
    <2>1. Running(Src[l]) /\ phase[Dst[l]] # "left" /\ Writable(l)
      BY <1>1 DEF Running, QuietStep
    <2>2. Informed(l)
      BY <2>1 DEF FloodInv, InformedInv
    <2>3. \A k \in DOMAIN store[Src[l]] : k \in Key
      BY <1>0 DEF TypeOK, IsStore
    <2>4. \A k : SkippedByMistake(l, k) => SkippedByMistake(l, k)'
      BY <1>1 DEF SkippedByMistake
    <2> QED  BY <1>1, <2>2, <2>3, <2>4 DEF Informed, QuietStep
  <1> QED  BY <1>2, <1>s, <1>3, <1>4, <1>5, <1>6 DEF FloodInv, BaseInv

(* An announcement of a node that is in its own store. *)
LEMMA AnnounceKeeps ==
  ASSUME FloodInv, NEW n \in Node, NEW l \in Link, AnnouncesOn(n, l), TypeOK', AppInv'
  PROVE  FloodInv'
  <1> USE LinkAssumption
  <1>0. TypeOK /\ Present /\ OwnStored /\ Origin /\ OffEmpty /\ SenderKnows /\ Unlearned
    BY DEF FloodInv, BaseInv
  <1>1. /\ UNCHANGED <<phase, store, reply, told, via, nodeAddr>>
        /\ Src[l] = n /\ phase[n] \in {"up", "stopping"}
    BY DEF AnnouncesOn
  <1>2. Present' /\ OwnStored' /\ OffEmpty' /\ Unlearned' /\ ToldInv' /\ ReplyKnown'
    BY <1>0, <1>1 DEF FloodInv, Present, OwnStored, OffEmpty, Unlearned, ToldInv, ReplyKnown
  <1>s. SenderKnows'
    BY <1>0, <1>1 DEF SenderKnows, OwnStored, AnnouncesOn
  <1>3. Origin'
    <2>1. \A n2 \in Node : Occurs(Own(n2))' => Occurs(Own(n2)) \/ n2 = n
      BY OwnType, OwnOne DEF AnnouncesOn, Occurs
    <2> QED  BY <1>0, <1>1, <2>1 DEF Origin
  <1>4. SentInv' /\ ViaInv'
    BY <1>1 DEF FloodInv, SentInv, ViaInv, AnnouncesOn
  <1>5. InformedInv'
    <2> SUFFICES ASSUME NEW l2 \in Link, Running(Src[l2]), phase[Dst[l2]] # "left", Writable(l2)'
                 PROVE  Informed(l2)'
      BY <1>1 DEF InformedInv, Running
    <2>1. Writable(l2) /\ Informed(l2)
      BY DEF FloodInv, InformedInv, AnnouncesOn
    <2>2. \A k \in DOMAIN store[Src[l2]] : k \in Key
      BY <1>0 DEF TypeOK, IsStore
    <2>m. \A k : SkippedByMistake(l2, k) => SkippedByMistake(l2, k)'
      BY <1>1 DEF SkippedByMistake
    <2>3. CASE l2 # l
      BY <1>1, <2>1, <2>2, <2>m, <2>3 DEF Informed, AnnouncesOn
    <2>4. CASE l2 = l
      BY <1>1, <2>1, <2>2, <2>m, <2>4 DEF Informed, AnnouncesOn
    <2> QED  BY <2>3, <2>4
  <1> QED  BY <1>2, <1>s, <1>3, <1>4, <1>5 DEF FloodInv, BaseInv

(* A node is told of a key. *)
LEMMA LearnKeeps ==
  ASSUME FloodInv, NEW n \in Node, NEW k, NEW skip, NEW from, LearnStep(n, k, skip, from),
         TypeOK', AppInv'
  PROVE  FloodInv'
  <1> USE LinkAssumption
  <1>0. TypeOK /\ Present /\ OwnStored /\ Origin /\ OffEmpty /\ SenderKnows /\ Unlearned
    BY DEF FloodInv, BaseInv
  <1>1. /\ UNCHANGED <<phase, todo, nodeAddr>> /\ Running(n) /\ k \in Key /\ Occurs(k) /\ Present'
        /\ \A n2 \in Node : \A j : j \in DOMAIN store'[n2]
                                     <=> j \in DOMAIN store[n2] \/ (n2 = n /\ j = k)
    BY DEF LearnStep
  <1>2. OwnStored' /\ OffEmpty'
    BY <1>0, <1>1 DEF OwnStored, OffEmpty, Running
  <1>s. SenderKnows'
    BY <1>0, <1>1 DEF SenderKnows, LearnStep
  <1>v. \A n2 \in Node, j \in Key :
          \/ via'[n2][j] = via[n2][j]
          \/ n2 = n /\ j = k /\ via[n2][j] = {} /\ via'[n2][j] = {from}
    BY DEF LearnStep
  <1>u. Unlearned'
    BY <1>0, <1>1, <1>v DEF Unlearned
  <1>3. Origin'
    <2>1. \A n2 \in Node : Occurs(Own(n2))' => Occurs(Own(n2))
      BY <1>1, OwnType DEF LearnStep, Occurs
    <2> QED  BY <1>0, <1>1, <2>1 DEF Origin
  <1>4. ReplyKnown'
    <2> SUFFICES ASSUME NEW l \in Link, phase[Dst[l]] # "left", NEW j \in reply'[l]
                 PROVE  j \in DOMAIN store'[Dst[l]]
      BY <1>1 DEF ReplyKnown
    <2>1. j \in reply[l]
      BY DEF TypeOK, LearnStep
    <2> QED  BY <1>1, <2>1 DEF FloodInv, ReplyKnown
  <1>5. ToldInv'
    <2> SUFFICES ASSUME NEW n2 \in Node, phase[n2] # "left", NEW j \in Key
                 PROVE  told'[n2][j] = IF j \in DOMAIN store'[n2] /\ j # Own(n2) THEN 1 ELSE 0
      BY <1>1 DEF ToldInv
    <2>1. told[n2][j] = IF j \in DOMAIN store[n2] /\ j # Own(n2) THEN 1 ELSE 0
      BY DEF FloodInv, ToldInv
    <2>2. CASE k \in DOMAIN store[n]
      BY <1>1, <2>1, <2>2 DEF LearnStep
    <2>3. CASE k \notin DOMAIN store[n]
      <3>1. /\ k # Own(n)
            /\ told'[n2][j] = IF n2 = n /\ j = k THEN told[n2][j] + 1 ELSE told[n2][j]
        BY <2>3 DEF LearnStep
      <3> QED  BY <1>1, <2>1, <2>3, <3>1
    <2> QED  BY <2>2, <2>3
  <1>6. SentInv'
    <2> SUFFICES ASSUME NEW l \in Link, NEW j \in Key, j # Own(Src[l])
                 PROVE  /\ sent'[l][j] <= 1
                        /\ phase[Src[l]] # "left" /\ j \notin DOMAIN store'[Src[l]]
                             => sent'[l][j] = 0
      BY <1>1 DEF SentInv
    <2>1. /\ sent[l][j] <= 1
          /\ phase[Src[l]] # "left" /\ j \notin DOMAIN store[Src[l]] => sent[l][j] = 0
      BY DEF FloodInv, SentInv
    <2>2. CASE k \in DOMAIN store[n]
      BY <1>1, <2>1, <2>2 DEF LearnStep
    <2>3. CASE k \notin DOMAIN store[n]
      <3>1. sent'[l][j] = IF Passes(n, skip, l) /\ j = k THEN sent[l][j] + 1 ELSE sent[l][j]
        BY <2>3 DEF LearnStep
      <3>2. Passes(n, skip, l) => Src[l] = n /\ phase[n] # "left"
        BY <1>1 DEF Passes, Running
      <3> QED  BY <1>1, <2>1, <2>3, <3>1, <3>2
    <2> QED  BY <2>2, <2>3
  <1>7. ViaInv'
    <2> SUFFICES ASSUME NEW l \in Link, NEW j \in Key, <<"out", Dst[l]>> \in via'[Src[l]][j]
                 PROVE  /\ j # Own(Src[l]) /\ sent'[l][j] = 0
                        /\ phase[Src[l]] # "left" => j \in DOMAIN store'[Src[l]]
      BY <1>1 DEF ViaInv
    <2>1. CASE k \in DOMAIN store[n]
      BY <1>1, <2>1 DEF FloodInv, ViaInv, LearnStep
    <2>2. CASE k \notin DOMAIN store[n]
      <3>1. /\ k # Own(n)
            /\ sent'[l][j] = IF Passes(n, skip, l) /\ j = k THEN sent[l][j] + 1 ELSE sent[l][j]
            /\ \/ <<"out", Dst[l]>> \in via[Src[l]][j]
               \/ Src[l] = n /\ j = k /\ Dst[l] \in skip
        BY <2>2 DEF LearnStep
      <3>2. CASE <<"out", Dst[l]>> \in via[Src[l]][j]
        <4>1. /\ j # Own(Src[l]) /\ sent[l][j] = 0
              /\ phase[Src[l]] # "left" => j \in DOMAIN store[Src[l]]
          BY <3>2 DEF FloodInv, ViaInv
        <4>2. ~(Passes(n, skip, l) /\ j = k)
          BY <1>1, <2>2, <4>1 DEF Passes, Running
        <4> QED  BY <1>1, <3>1, <4>1, <4>2
      <3>3. CASE Src[l] = n /\ j = k /\ Dst[l] \in skip
        <4>1. ~Passes(n, skip, l)
          BY <3>3 DEF Passes
        <4>2. sent[l][j] = 0
          BY <1>1, <2>2, <3>1, <3>3 DEF FloodInv, SentInv, Running
        <4> QED  BY <1>1, <3>1, <3>3, <4>1, <4>2
      <3> QED  BY <3>1, <3>2, <3>3
    <2> QED  BY <2>1, <2>2
  <1>8. InformedInv'
    <2> SUFFICES ASSUME NEW l \in Link, Running(Src[l]), phase[Dst[l]] # "left", Writable(l)',
                        NEW j \in DOMAIN store'[Src[l]]
                 PROVE  \/ j \in DOMAIN store'[Dst[l]]
                        \/ HasPeer(chan'[l], j)
                        \/ j = Own(Src[l]) /\ <<l, "refresh">> \in todo[Src[l]]
                        \/ SkippedByMistake(l, j)'
      BY <1>1 DEF InformedInv, Running, Informed
    <2>1. Writable(l) /\ Informed(l)
      BY DEF FloodInv, InformedInv, LearnStep
    <2>2. j \in Key
      BY DEF TypeOK, IsStore
    <2>3. CASE j \in DOMAIN store[Src[l]]
      <3>1. HasPeer(chan[l], j) => HasPeer(chan'[l], j) \/ (Dst[l] = n /\ j = k)
        BY <2>2 DEF LearnStep
      <3>2. SkippedByMistake(l, j) => SkippedByMistake(l, j)'
        BY <1>1, <1>v, <2>2 DEF SkippedByMistake
      <3> QED  BY <1>1, <2>1, <2>3, <3>1, <3>2 DEF Informed
    <2>4. CASE j \notin DOMAIN store[Src[l]]
      <3>1. Src[l] = n /\ j = k
        BY <1>1, <2>4
      <3>2. Dst[l] \in skip => k \in DOMAIN store[Dst[l]] \/ Mistaken(n, Dst[l], from)
        BY DEF LearnStep
      <3>3. Dst[l] \notin skip => HasPeer(chan'[l], k)
        BY <2>1, <2>4, <3>1 DEF LearnStep, Passes
      <3>4. from \in via'[n][k]
        BY <1>0, <1>1, <2>4, <3>1 DEF Unlearned, LearnStep, Running
      <3>5. Mistaken(n, Dst[l], from) => SkippedByMistake(l, j)'
        BY <1>1, <3>1, <3>4 DEF Mistaken, SkippedByMistake
      <3> QED  BY <1>1, <3>1, <3>2, <3>3, <3>5
    <2> QED  BY <2>3, <2>4
  <1> QED  BY <1>1, <1>2, <1>s, <1>u, <1>3, <1>4, <1>5, <1>6, <1>7, <1>8 DEF FloodInv, BaseInv

(* A node that starts to listen knows nothing yet. *)
LEMMA ListenKeeps ==
  ASSUME FloodInv, NEW n \in Node, Listen(n), TypeOK', AppInv'
  PROVE  FloodInv'
  <1> USE LinkAssumption
  <1>0. TypeOK /\ Present /\ OwnStored /\ Origin /\ OffEmpty /\ SenderKnows /\ Unlearned
    BY DEF FloodInv, BaseInv
  <1>1. /\ UNCHANGED <<todo, store, chan, reply, told, via, sent, nodeAddr>>
        /\ phase[n] = "off" /\ phase'[n] = "listening"
        /\ \A n2 \in Node : n2 # n => phase'[n2] = phase[n2]
        /\ \A l \in Link : Src[l] # n => link'[l] = link[l]
    BY <1>0 DEF Listen, TypeOK, history
  <1>2. Present' /\ OwnStored' /\ OffEmpty' /\ ToldInv' /\ SentInv' /\ ReplyKnown' /\ ViaInv'
    BY <1>0, <1>1 DEF FloodInv, Present, OwnStored, OffEmpty, ToldInv, SentInv, ReplyKnown, ViaInv
  <1>s. SenderKnows' /\ Unlearned'
    BY <1>0, <1>1 DEF SenderKnows, Unlearned
  <1>3. Origin'
    BY <1>0, <1>1 DEF Origin, Occurs
  <1>4. InformedInv'
    <2> SUFFICES ASSUME NEW l \in Link, Running(Src[l])', phase'[Dst[l]] # "left", Writable(l)'
                 PROVE  Informed(l)'
      BY DEF InformedInv
    <2>1. CASE Src[l] = n
      BY <1>0, <1>1, <2>1 DEF OffEmpty, Informed
    <2>2. CASE Src[l] # n
      <3>1. Running(Src[l]) /\ phase[Dst[l]] # "left" /\ Writable(l)
        BY <1>1, <2>2 DEF Running, Writable
      <3>2. \A k : SkippedByMistake(l, k) => SkippedByMistake(l, k)'
        BY <1>1 DEF SkippedByMistake
      <3> QED  BY <1>1, <3>1, <3>2 DEF FloodInv, InformedInv, Informed
    <2> QED  BY <2>1, <2>2
  <1> QED  BY <1>2, <1>s, <1>3, <1>4 DEF FloodInv, BaseInv

(* A node stores itself and has it to announce on every link. *)
LEMMA StoreOwnKeeps ==
  ASSUME FloodInv, NEW n \in Node, StoreOwn(n), TypeOK', AppInv'
  PROVE  FloodInv'
  <1> USE LinkAssumption
  <1> DEFINE st == FindAndUpdate(store[n], Own(n), FALSE, 0, 0)
  <1>0. /\ TypeOK /\ Present /\ OwnStored /\ Origin /\ OffEmpty /\ SenderKnows /\ Unlearned
        /\ Own(n) \in Key
    BY OwnType DEF FloodInv, BaseInv
  <1>1. /\ UNCHANGED <<link, chan, reply, told, sent, nodeAddr>>
        /\ phase[n] = "listening" /\ phase'[n] = "up"
        /\ \A n2 \in Node : n2 # n => phase'[n2] = phase[n2] /\ todo'[n2] = todo[n2]
        /\ todo'[n] = OutLinks(n) \X {"refresh", "query"}
        /\ store' = [store EXCEPT ![n] = st]
    BY <1>0 DEF StoreOwn, TypeOK
  <1>2. \A n2 \in Node : \A j : j \in DOMAIN store'[n2]
                                  <=> j \in DOMAIN store[n2] \/ (n2 = n /\ j = Own(n))
    <2>1. \A j : j \in DOMAIN st <=> j \in DOMAIN store[n] \/ j = Own(n)
      BY FindAndUpdateDomain
    <2> HIDE DEF st
    <2> QED  BY <1>0, <1>1, <2>1 DEF TypeOK
  <1>3. Present'
    <2>1. \A j \in DOMAIN st : ~st[j].isRemoved
      BY <1>0 DEF FindAndUpdate, AddPeer, NewInfo, Present
    <2> HIDE DEF st
    <2> QED  BY <1>0, <1>1, <2>1 DEF Present, TypeOK
  <1> HIDE DEF st
  <1>4. OwnStored' /\ OffEmpty'
    BY <1>0, <1>1, <1>2 DEF OwnStored, OffEmpty
  <1>v. \A n2 \in Node, j \in Key :
          \/ via'[n2][j] = via[n2][j]
          \/ n2 = n /\ j = Own(n) /\ via[n2][j] = {} /\ via'[n2][j] = {<<"own", n>>}
    BY <1>0 DEF StoreOwn, TypeOK
  <1>s. SenderKnows' /\ Unlearned'
    BY <1>0, <1>1, <1>2, <1>v DEF SenderKnows, Unlearned
  <1>5. Origin'
    <2>1. \A n2 \in Node : Occurs(Own(n2))' => Occurs(Own(n2)) \/ n2 = n
      BY <1>1, <1>2, OwnOne DEF Occurs
    <2> QED  BY <1>0, <1>1, <2>1 DEF Origin
  <1>6. ToldInv' /\ SentInv' /\ ReplyKnown'
    BY <1>1, <1>2 DEF FloodInv, ToldInv, SentInv, ReplyKnown
  <1>7. ViaInv'
    <2>1. \A n2 \in Node, j \in Key : \A d \in Node :
            <<"out", d>> \in via'[n2][j] => <<"out", d>> \in via[n2][j]
      BY <1>v
    <2> QED  BY <1>1, <1>2, <2>1 DEF FloodInv, ViaInv
  <1>8. InformedInv'
    <2> SUFFICES ASSUME NEW l \in Link, Running(Src[l])', phase'[Dst[l]] # "left", Writable(l)',
                        NEW j \in DOMAIN store'[Src[l]]
                 PROVE  \/ j \in DOMAIN store'[Dst[l]]
                        \/ HasPeer(chan'[l], j)
                        \/ j = Own(Src[l]) /\ <<l, "refresh">> \in todo'[Src[l]]
                        \/ SkippedByMistake(l, j)'
      BY DEF InformedInv, Informed
    <2>1. Running(Src[l]) /\ phase[Dst[l]] # "left" /\ Writable(l)
      BY <1>1 DEF Running, Writable
    <2>2. Informed(l)
      BY <2>1 DEF FloodInv, InformedInv
    <2>3. Src[l] = n => <<l, "refresh">> \in todo'[n] /\ todo[n] = {}
      BY <1>1 DEF OutLinks, FloodInv, BaseInv, AppInv
    <2>4. CASE j \in DOMAIN store[Src[l]]
      <3>1. j \in Key
        BY DEF TypeOK, IsStore
      <3>2. SkippedByMistake(l, j) => SkippedByMistake(l, j)'
        BY <1>1, <1>v, <3>1 DEF SkippedByMistake
      <3> QED  BY <1>1, <1>2, <2>2, <2>3, <2>4, <3>2 DEF Informed
    <2>5. CASE j \notin DOMAIN store[Src[l]]
      BY <1>2, <2>3, <2>5
    <2> QED  BY <2>4, <2>5
  <1> QED  BY <1>3, <1>4, <1>s, <1>5, <1>6, <1>7, <1>8 DEF FloodInv, BaseInv

(* A node that goes takes its store and its links along. *)
LEMMA LeaveKeeps ==
  ASSUME FloodInv, NEW n \in Node, Leave(n), TypeOK', AppInv'
  PROVE  FloodInv'
  <1> USE LinkAssumption
  <1>0. TypeOK /\ Present /\ OwnStored /\ Origin /\ OffEmpty /\ SenderKnows /\ Unlearned
    BY DEF FloodInv, BaseInv
  <1>e. DOMAIN EmptyStore = {} /\ \A k : ~HasPeer(<<>>, k)
    BY DEF EmptyStore, HasPeer
  <1>1. /\ UNCHANGED <<told, via, sent, nodeAddr>>
        /\ Running(n) /\ phase'[n] = "left" /\ store'[n] = EmptyStore
        /\ \A n2 \in Node : n2 # n => /\ phase'[n2] = phase[n2] /\ todo'[n2] = todo[n2]
                                      /\ store'[n2] = store[n2]
    BY <1>0 DEF Leave, TypeOK, history
  <1>2. \A l \in Link : /\ chan'[l] = chan[l] \/ (chan'[l] = <<>> /\ n \in {Src[l], Dst[l]})
                        /\ reply'[l] \in {{}, reply[l]}
                        /\ Src[l] # n => link'[l] = link[l]
    BY DEF Leave, TypeOK
  <1>3. Present' /\ OwnStored' /\ OffEmpty'
    BY <1>0, <1>e, <1>1 DEF Present, OwnStored, OffEmpty, Running
  <1>s. SenderKnows' /\ Unlearned'
    BY <1>0, <1>e, <1>1, <1>2 DEF SenderKnows, Unlearned
  <1>4. Origin'
    <2>1. \A n2 \in Node : Occurs(Own(n2))' => Occurs(Own(n2))
      BY <1>e, <1>1, <1>2 DEF Occurs
    <2> QED  BY <1>0, <1>1, <2>1 DEF Origin
  <1>5. ToldInv' /\ SentInv' /\ ReplyKnown' /\ ViaInv'
    BY <1>1, <1>2 DEF FloodInv, ToldInv, SentInv, ReplyKnown, ViaInv
  <1>6. InformedInv'
    <2> SUFFICES ASSUME NEW l \in Link, Running(Src[l])', phase'[Dst[l]] # "left", Writable(l)'
                 PROVE  Informed(l)'
      BY DEF InformedInv
    <2>1. Src[l] # n /\ Dst[l] # n
      BY <1>1 DEF Running
    <2>2. Running(Src[l]) /\ phase[Dst[l]] # "left" /\ Writable(l)
      BY <1>1, <1>2, <2>1 DEF Running, Writable
    <2>3. Informed(l)
      BY <2>2 DEF FloodInv, InformedInv
    <2>4. \A k : SkippedByMistake(l, k) => SkippedByMistake(l, k)'
      BY <1>1 DEF SkippedByMistake
    <2> QED  BY <1>1, <1>2, <2>1, <2>3, <2>4 DEF Informed
  <1> QED  BY <1>3, <1>s, <1>4, <1>5, <1>6 DEF FloodInv, BaseInv

-----------------------------------------------------------------------------

(* Before anybody starts nobody knows anything. *)
LEMMA FloodInit == Init => FloodInv
  <1> SUFFICES ASSUME Init PROVE FloodInv
    OBVIOUS
  <1> USE LinkAssumption
  <1>1. TypeOK /\ AppInv
    BY TypeInit DEF Init, AppInv
  <1>2. DOMAIN EmptyStore = {} /\ \A k : ~HasPeer(<<>>, k)
    BY DEF EmptyStore, HasPeer
  <1>3. \A k : ~Occurs(k)
    BY <1>2 DEF Init, Occurs
  <1>4. Present /\ OwnStored /\ Origin /\ OffEmpty /\ SenderKnows /\ Unlearned
    BY <1>2, <1>3 DEF Init, Present, OwnStored, Origin, OffEmpty, SenderKnows, Unlearned
  <1>5. ToldInv /\ SentInv /\ ReplyKnown /\ ViaInv /\ InformedInv
    BY <1>2 DEF Init, ToldInv, SentInv, ReplyKnown, ViaInv, InformedInv, Running
  <1> QED  BY <1>1, <1>4, <1>5 DEF FloodInv, BaseInv

(* Every step keeps the invariant. *)
LEMMA FloodStep == FloodInv /\ [Next]_vars => FloodInv'
  <1> SUFFICES ASSUME FloodInv, [Next]_vars PROVE FloodInv'
    OBVIOUS
  <1>0. TypeOK /\ AppInv /\ BaseInv /\ ReplyKnown
    BY DEF FloodInv, BaseInv
  <1>1. TypeOK' /\ AppInv'
    BY <1>0, TypeStep, AppStep
  <1>2. CASE UNCHANGED vars
    BY <1>0, <1>1, <1>2, AppIsQuiet, QuietKeeps
  <1>3. ASSUME NEW n \in Node, Listen(n) \/ App(n) \/ Stop(n) \/ Leave(n) PROVE FloodInv'
    <2>1. CASE Listen(n)
      BY <1>1, <2>1, ListenKeeps
    <2>2. CASE StoreOwn(n)
      BY <1>1, <2>2, StoreOwnKeeps
    <2>3. ASSUME NEW l \in Link, SendRefresh(n, l) \/ SendBye(n, l) PROVE FloodInv'
      <3>1. AnnouncesOn(n, l)
        BY <1>0, <2>3, SendAnnounces
      <3> QED  BY <1>1, <3>1, AnnounceKeeps
    <2>4. ASSUME Stop(n) \/ \E l \in Link : SendQuery(n, l) PROVE FloodInv'
      <3>1. QuietStep
        BY <1>0, <2>4, AppIsQuiet
      <3> QED  BY <1>1, <3>1, QuietKeeps
    <2>5. CASE Leave(n)
      BY <1>1, <2>5, LeaveKeeps
    <2> QED  BY <1>3, <2>1, <2>2, <2>3, <2>4, <2>5 DEF App
  <1>4. ASSUME NEW l \in Link, Loop(l) \/ Broken(l) \/ Cut(l) PROVE FloodInv'
    <2>1. CASE HandlePeer(l)
      <3>1. /\ LearnStep(Dst[l], Head(chan[l]).key, {nodeAddr[l]}, <<"in", Src[l]>>)
            /\ Dst[l] \in Node
        BY <1>0, <2>1, HandlePeerLearns, LinkAssumption
      <3> QED  BY <1>1, <3>1, LearnKeeps
    <2>2. ASSUME NEW k \in Key, HandleReply(l, k) PROVE FloodInv'
      <3>1. LearnStep(Src[l], k, {Dst[l]}, <<"out", Dst[l]>>) /\ Src[l] \in Node
        BY <1>0, <2>2, HandleReplyLearns, LinkAssumption
      <3> QED  BY <1>1, <3>1, LearnKeeps
    <2>3. ASSUME ~HandlePeer(l), ~\E k \in Key : HandleReply(l, k) PROVE FloodInv'
      <3>1. QuietStep
        BY <1>0, <1>4, <2>3, LoopIsQuiet DEF Loop
      <3> QED  BY <1>1, <3>1, QuietKeeps
    <2> QED  BY <2>1, <2>2, <2>3
  <1> QED  BY <1>2, <1>3, <1>4 DEF Next

(* The invariant of flooding, in every network. *)
LEMMA FloodCorrect == Spec => []FloodInv
  BY FloodInit, FloodStep, PTL DEF Spec

(* In every network, with cycles or without, whatever nodes leave and whatever
   connections break, the application is told once of every foreign key its
   node knows, and never of itself (pebo_net.cpp:187-204).                 *)
THEOREM ToldCorrect == Spec => []ToldOnce
  <1>1. FloodInv => ToldOnce
    BY DEF FloodInv, ToldInv, ToldOnce
  <1> QED  BY <1>1, FloodCorrect, PTL

(* Flooding costs at most one message per link and foreign key, so it ends in
   networks with cycles (pebo_net.cpp:187-204).                            *)
THEOREM ForwardCorrect == Spec => []ForwardOnce
  <1>1. FloodInv => ForwardOnce
    BY DEF FloodInv, SentInv, ForwardOnce
  <1> QED  BY <1>1, FloodCorrect, PTL

(* Whatever a node knows is known, or on its way, at the other end of each of
   its living connections, whatever the accepted connections' addresses read
   as, but for what one of them that is mistaken for that peer brought
   (pebo_net.cpp:222-241, net_handler.cpp:254).                            *)
THEOREM InformedCorrect == Spec => []OutPeerInformed
  <1>1. FloodInv => OutPeerInformed
    BY DEF FloodInv, InformedInv, OutPeerInformed, Informed, HasPeer, Running
  <1> QED  BY <1>1, FloodCorrect, PTL

(* What came in a reply is never sent to the peer that replied, over any of
   the links to it (pebo_net.cpp:233-238).                                 *)
THEOREM ReplySkipCorrect == Spec => []ReplyNotSentBack
  <1>1. FloodInv => ReplyNotSentBack
    BY DEF FloodInv, ViaInv, ReplyNotSentBack
  <1> QED  BY <1>1, FloodCorrect, PTL

-----------------------------------------------------------------------------
(* A reply is always to come.                                              *)
(*                                                                         *)
(* That a query is answered with one key at least rests on AnnounceInv:    *)
(* the peer that reads it knows the node that asks, and on Present: what   *)
(* it knows it returns.                                                    *)

Holds(q, m) == \E i \in 1 .. Len(q) : q[i] = m

\* Shell::start sends to a link first the refresh and then the query,
\* Shell::stop alone the good bye.
TodoInv ==
  \A n \in Node, l \in Link :
    /\ <<l, "refresh">> \in todo[n] => <<l, "query">> \in todo[n]
    /\ <<l, "bye">> \in todo[n] => phase[n] = "stopping"

\* A client that is to be closed by a reply, and what its reply will come of.
Awaits(l) == /\ phase[Src[l]] = "up" /\ phase[Dst[l]] # "left"
             /\ link[l] \in {"connecting", "open"}
Coming(l) == \/ <<l, "query">> \in todo[Src[l]]
             \/ Holds(chan[l], QueryMsg(Svc[Src[l]]))
             \/ reply[l] # {}

ReplyInv == TodoInv /\ \A l \in Link : Awaits(l) => Coming(l)

(* A line stays in a queue to which one is added, or from whose head another
   is taken.                                                               *)
LEMMA HoldsKept ==
  ASSUME NEW q \in Seq(Message), NEW m \in Message, NEW x \in Message
  PROVE  /\ Holds(q, m) => Holds(Append(q, x), m)
         /\ Holds(Append(q, m), m)
         /\ q # <<>> /\ Holds(q, m) /\ Head(q) # m => Holds(Tail(q), m)
  <1>1. ASSUME NEW y \in Message
        PROVE  /\ Len(Append(q, y)) = Len(q) + 1 /\ Len(q) \in Nat
               /\ \A i \in 1 .. Len(q) : Append(q, y)[i] = q[i]
               /\ Append(q, y)[Len(q) + 1] = y
    OBVIOUS
  <1>2. Len(q) \in Nat /\ Len(q) + 1 \in 1 .. Len(q) + 1
        /\ \A i \in 1 .. Len(q) : i \in 1 .. Len(q) + 1
    OBVIOUS
  <1>3. Holds(q, m) => Holds(Append(q, x), m)
    BY <1>1, <1>2 DEF Holds
  <1>4. Holds(Append(q, m), m)
    BY <1>1, <1>2 DEF Holds
  <1>5. ASSUME q # <<>>, Holds(q, m), Head(q) # m PROVE Holds(Tail(q), m)
    <2>1. /\ Len(Tail(q)) = Len(q) - 1 /\ Len(q) \in Nat /\ Len(q) > 0
          /\ \A i \in 1 .. Len(q) - 1 : Tail(q)[i] = q[i + 1]
          /\ Head(q) = q[1]
      BY <1>5
    <2>2. PICK i \in 1 .. Len(q) : q[i] = m
      BY <1>5 DEF Holds
    <2>3. i # 1
      BY <1>5, <2>1, <2>2
    <2>4. i - 1 \in 1 .. Len(q) - 1 /\ i - 1 + 1 = i
      BY <2>1, <2>3
    <2>5. Tail(q)[i - 1] = m
      BY <2>1, <2>2, <2>4
    <2> QED  BY <2>1, <2>4, <2>5 DEF Holds
  <1> QED  BY <1>3, <1>4, <1>5

LEMMA SendHolds ==
  ASSUME NEW ch \in [Link -> Seq(Message)], NEW L, NEW x, OnWire(x) \in Message,
         NEW l \in Link, NEW m \in Message, Holds(ch[l], m)
  PROVE  Holds(SendTo(ch, L, x)[l], m)
  <1>1. SendTo(ch, L, x)[l] = ch[l] \/ SendTo(ch, L, x)[l] = Append(ch[l], OnWire(x))
    BY DEF SendTo
  <1>2. ch[l] \in Seq(Message)
    OBVIOUS
  <1>3. Holds(Append(ch[l], OnWire(x)), m)
    BY <1>2, HoldsKept
  <1> QED  BY <1>1, <1>3

LEMMA UpdateHolds ==
  ASSUME NEW n, NEW x \in PeerMessage, NEW from, NEW skip, NEW ch \in [Link -> Seq(Message)],
         PeerUpdate(n, x, from, skip, ch), NEW l \in Link, NEW m \in Message, Holds(ch[l], m)
  PROVE  Holds(chan'[l], m)
  <1>1. OnWire(x) \in Message
    BY PeerMsgFields, WireType
  <1>2. chan' = ch \/ \E L : chan' = SendTo(ch, L, x)
    BY DEF PeerUpdate
  <1> QED  BY <1>1, <1>2, SendHolds

(* The order in which Shell::start and stop send (shell.cpp:93-130). *)
LEMMA TodoStep == TypeOK /\ AppInv /\ TodoInv /\ [Next]_vars => TodoInv'
  <1> SUFFICES ASSUME TypeOK, AppInv, TodoInv, [Next]_vars PROVE TodoInv'
    OBVIOUS
  <1> USE LinkAssumption
  <1>1. ASSUME NEW n \in Node, Listen(n) \/ Stop(n) \/ Leave(n) PROVE TodoInv'
    <2>1. /\ \A n2 \in Node : n2 # n => todo'[n2] = todo[n2] /\ phase'[n2] = phase[n2]
          /\ todo'[n] = {} \/ (phase'[n] = "stopping" /\ todo'[n] = OutLinks(n) \X {"bye"})
      <3>1. CASE Listen(n)
        <4>1. phase[n] = "off" /\ phase' = [phase EXCEPT ![n] = "listening"] /\ todo' = todo
          BY <3>1 DEF Listen
        <4>2. todo[n] = {}
          BY <4>1 DEF AppInv
        <4> QED  BY <4>1, <4>2 DEF TypeOK
      <3>2. CASE Stop(n)
        <4>1. /\ phase' = [phase EXCEPT ![n] = "stopping"]
              /\ todo' = [todo EXCEPT ![n] = OutLinks(n) \X {"bye"}]
          BY <3>2 DEF Stop
        <4> QED  BY <4>1 DEF TypeOK
      <3>3. CASE Leave(n)
        <4>1. phase' = [phase EXCEPT ![n] = "left"] /\ todo' = [todo EXCEPT ![n] = {}]
          BY <3>3 DEF Leave
        <4> QED  BY <4>1 DEF TypeOK
      <3> QED  BY <1>1, <3>1, <3>2, <3>3
    <2> QED  BY <2>1 DEF TodoInv
  <1>2. ASSUME NEW n \in Node, StoreOwn(n) PROVE TodoInv'
    <2>1. /\ \A n2 \in Node : n2 # n => todo'[n2] = todo[n2] /\ phase'[n2] = phase[n2]
          /\ todo'[n] = OutLinks(n) \X {"refresh", "query"}
      BY <1>2 DEF StoreOwn, TypeOK
    <2> QED  BY <2>1 DEF TodoInv
  <1>3. ASSUME NEW n \in Node, NEW l2 \in Link, NEW what \in {"refresh", "bye"},
               todo' = [todo EXCEPT ![n] = @ \ {<<l2, what>>}], phase' = phase
        PROVE  TodoInv'
    <2>1. \A n2 \in Node : todo'[n2] = IF n2 = n THEN todo[n] \ {<<l2, what>>} ELSE todo[n2]
      BY <1>3 DEF TypeOK
    <2>2. ASSUME NEW n2 \in Node, NEW l \in Link
          PROVE  /\ <<l, "refresh">> \in todo'[n2] => <<l, "query">> \in todo'[n2]
                 /\ <<l, "bye">> \in todo'[n2] => phase'[n2] = "stopping"
      <3>1. /\ <<l, "refresh">> \in todo[n2] => <<l, "query">> \in todo[n2]
            /\ <<l, "bye">> \in todo[n2] => phase[n2] = "stopping"
        BY DEF TodoInv
      <3>2. todo'[n2] \subseteq todo[n2]
        BY <2>1
      <3>3. <<l, "query">> # <<l2, what>>
        OBVIOUS
      <3>4. <<l, "query">> \in todo[n2] => <<l, "query">> \in todo'[n2]
        BY <2>1, <3>3
      <3> QED  BY <1>3, <3>1, <3>2, <3>4
    <2> QED  BY <2>2 DEF TodoInv
  <1>4. ASSUME NEW n \in Node, NEW l2 \in Link, SendQuery(n, l2) PROVE TodoInv'
    <2>1. \A n2 \in Node : todo'[n2] = IF n2 = n THEN todo[n] \ {<<l2, "query">>} ELSE todo[n2]
      BY <1>4 DEF SendQuery, TypeOK
    <2>2. l2 \in OutLinks(n) /\ phase' = phase
      BY <1>4 DEF SendQuery, OutLinks, TypeOK
    <2>3. <<l2, "refresh">> \notin todo[n]
      BY <1>4, <2>2 DEF SendQuery
    <2> QED  BY <2>1, <2>2, <2>3 DEF TodoInv
  <1>5. ASSUME NEW n \in Node, App(n) PROVE TodoInv'
    <2>1. ASSUME NEW l2 \in Link, SendRefresh(n, l2) PROVE TodoInv'
      <3>1. todo' = [todo EXCEPT ![n] = @ \ {<<l2, "refresh">>}] /\ phase' = phase
        BY <2>1 DEF SendRefresh
      <3> QED  BY <1>3, <3>1
    <2>2. ASSUME NEW l2 \in Link, SendBye(n, l2) PROVE TodoInv'
      <3>1. todo' = [todo EXCEPT ![n] = @ \ {<<l2, "bye">>}] /\ phase' = phase
        BY <2>2 DEF SendBye
      <3> QED  BY <1>3, <3>1
    <2> QED  BY <1>2, <1>4, <1>5, <2>1, <2>2 DEF App
  <1>6. ASSUME NEW l2 \in Link, Loop(l2) \/ Broken(l2) \/ Cut(l2) PROVE UNCHANGED <<todo, phase>>
    BY <1>6 DEF Loop, Connect, Refused, HandlePeer, HandleQuery, HandleReply,
                CloseReceived, CloseRefused, PeerGone, Broken, Cut
  <1>7. CASE UNCHANGED <<todo, phase>>
    BY <1>7 DEF TodoInv
  <1>8. UNCHANGED vars => UNCHANGED <<todo, phase>>
    BY DEF vars
  <1> QED  BY <1>1, <1>5, <1>6, <1>7, <1>8 DEF Next

(* The application thread sends the query itself (shell.cpp:108-111). *)
LEMMA ReplyApp ==
  ASSUME TypeOK, ReplyInv, NEW n \in Node, Listen(n) \/ App(n) \/ Stop(n) \/ Leave(n),
         NEW l \in Link, Awaits(l)'
  PROVE  Coming(l)'
  <1> USE LinkAssumption
  <1> DEFINE w == QueryMsg(Svc[Src[l]])
  <1>0. /\ chan \in [Link -> Seq(Message)] /\ link \in [Link -> LinkState] /\ w \in Message
        /\ Svc[Src[l]] \in Service /\ Own(n) \in Key
    BY NodeAssumption, WireType, OwnType DEF TypeOK
  <1>1. TodoInv /\ (Awaits(l) => Coming(l))
    BY DEF ReplyInv
  <1> HIDE DEF w
  <1>2. ASSUME Awaits(l), todo'[Src[l]] = todo[Src[l]], Holds(chan[l], w) => Holds(chan'[l], w),
               reply'[l] = reply[l]
        PROVE  Coming(l)'
    BY <1>1, <1>2 DEF Coming, w
  <1>3. CASE Listen(n)
    <2>1. /\ phase' = [phase EXCEPT ![n] = "listening"] /\ phase[n] = "off"
          /\ UNCHANGED <<todo, chan, reply>> /\ (Src[l] # n => link'[l] = link[l])
      BY <1>3 DEF Listen
    <2>2. Src[l] # n /\ Awaits(l)
      BY <2>1 DEF Awaits, TypeOK
    <2> QED  BY <1>2, <2>1, <2>2
  <1>4. CASE StoreOwn(n)
    <2>1. /\ phase' = [phase EXCEPT ![n] = "up"] /\ phase[n] = "listening"
          /\ todo' = [todo EXCEPT ![n] = OutLinks(n) \X {"refresh", "query"}]
          /\ UNCHANGED <<link, chan, reply>>
      BY <1>4 DEF StoreOwn
    <2>2. CASE Src[l] = n
      <3>1. <<l, "query">> \in todo'[Src[l]]
        BY <2>1, <2>2 DEF OutLinks, TypeOK
      <3> QED  BY <3>1 DEF Coming
    <2>3. CASE Src[l] # n
      <3>1. Awaits(l) /\ todo'[Src[l]] = todo[Src[l]]
        BY <2>1, <2>3 DEF Awaits, TypeOK
      <3> QED  BY <1>2, <2>1, <3>1
    <2> QED  BY <2>2, <2>3
  <1>5. ASSUME NEW l2 \in Link, SendRefresh(n, l2) PROVE Coming(l)'
    <2>1. /\ <<l2, "refresh">> \in todo[n] /\ Src[l2] = n
          /\ todo' = [todo EXCEPT ![n] = @ \ {<<l2, "refresh">>}]
          /\ chan' = SendTo(chan, {l2}, PeerMsg(Own(n), FALSE))
          /\ UNCHANGED <<phase, reply>> /\ (l # l2 => link'[l] = link[l])
      BY <1>0, <1>5 DEF SendRefresh, TypeOK
    <2>2. CASE l2 = l
      <3>1. <<l, "query">> \in todo[n]
        BY <1>1, <2>1, <2>2 DEF TodoInv
      <3>2. <<l, "query">> \in todo'[Src[l]]
        BY <2>1, <2>2, <3>1 DEF TypeOK
      <3> QED  BY <3>2 DEF Coming
    <2>3. CASE l2 # l
      <3>1. OnWire(PeerMsg(Own(n), FALSE)) \in Message
        BY <1>0, PeerOnWire
      <3>2. Holds(chan[l], w) => Holds(chan'[l], w)
        BY <1>0, <2>1, <3>1, SendHolds
      <3>3. Awaits(l) /\ reply'[l] = reply[l]
        BY <2>1, <2>3 DEF Awaits
      <3>4. <<l, "query">> \in todo[Src[l]] => <<l, "query">> \in todo'[Src[l]]
        BY <2>1 DEF TypeOK
      <3> QED  BY <1>1, <3>2, <3>3, <3>4 DEF Coming, w
    <2> QED  BY <2>2, <2>3
  <1>6. ASSUME NEW l2 \in Link, SendQuery(n, l2) PROVE Coming(l)'
    <2>1. /\ Src[l2] = n
          /\ todo' = [todo EXCEPT ![n] = @ \ {<<l2, "query">>}]
          /\ chan' = SendTo(chan, {l2}, QueryMsg(Svc[n]))
          /\ link' = [link EXCEPT ![l2] = IF @ = "received" THEN "open" ELSE @]
          /\ UNCHANGED <<phase, reply>>
      BY <1>0, <1>6 DEF SendQuery, TypeOK
    <2>2. CASE l2 = l
      <3>1. Writable(l)
        BY <1>0, <2>1, <2>2 DEF Awaits, Writable
      <3>2. chan'[l] = Append(chan[l], w)
        BY <1>0, <2>1, <2>2, <3>1, WireType DEF SendTo, w
      <3>3. chan[l] \in Seq(Message)
        BY <1>0
      <3>4. Holds(chan'[l], w)
        BY <1>0, <3>2, <3>3, HoldsKept
      <3> QED  BY <3>4 DEF Coming, w
    <2>3. CASE l2 # l
      <3>1. OnWire(QueryMsg(Svc[n])) \in Message
        BY NodeAssumption, WireType
      <3>2. Holds(chan[l], w) => Holds(chan'[l], w)
        BY <1>0, <2>1, <3>1, SendHolds
      <3>3. Awaits(l) /\ reply'[l] = reply[l]
        BY <1>0, <2>1, <2>3 DEF Awaits
      <3>4. <<l, "query">> \in todo[Src[l]] => <<l, "query">> \in todo'[Src[l]]
        BY <2>1, <2>3 DEF TypeOK
      <3> QED  BY <1>1, <3>2, <3>3, <3>4 DEF Coming, w
    <2> QED  BY <2>2, <2>3
  <1>7. ASSUME NEW l2 \in Link, SendBye(n, l2) PROVE Coming(l)'
    <2>1. /\ <<l2, "bye">> \in todo[n] /\ Src[l2] = n
          /\ todo' = [todo EXCEPT ![n] = @ \ {<<l2, "bye">>}]
          /\ chan' = SendTo(chan, {l2}, PeerMsg(Own(n), TRUE))
          /\ UNCHANGED <<phase, reply>> /\ (l # l2 => link'[l] = link[l])
      BY <1>0, <1>7 DEF SendBye, TypeOK
    <2>2. phase[n] = "stopping"
      BY <1>1, <2>1 DEF TodoInv
    <2>3. Src[l] # n /\ l # l2
      BY <2>1, <2>2 DEF Awaits
    <2>4. OnWire(PeerMsg(Own(n), TRUE)) \in Message
      BY <1>0, PeerOnWire
    <2>5. Holds(chan[l], w) => Holds(chan'[l], w)
      BY <1>0, <2>1, <2>4, SendHolds
    <2>6. Awaits(l) /\ reply'[l] = reply[l] /\ todo'[Src[l]] = todo[Src[l]]
      BY <2>1, <2>3 DEF Awaits, TypeOK
    <2> QED  BY <1>2, <2>5, <2>6
  <1>8. CASE Stop(n)
    <2>1. /\ phase' = [phase EXCEPT ![n] = "stopping"] /\ phase[n] = "up"
          /\ todo' = [todo EXCEPT ![n] = OutLinks(n) \X {"bye"}]
          /\ UNCHANGED <<link, chan, reply>>
      BY <1>8 DEF Stop
    <2>2. Src[l] # n
      BY <2>1 DEF Awaits, TypeOK
    <2>3. Awaits(l) /\ todo'[Src[l]] = todo[Src[l]]
      BY <2>1, <2>2 DEF Awaits, TypeOK
    <2> QED  BY <1>2, <2>1, <2>3
  <1>9. CASE Leave(n)
    <2>1. phase' = [phase EXCEPT ![n] = "left"] /\ todo' = [todo EXCEPT ![n] = {}]
      BY <1>9 DEF Leave
    <2>2. Src[l] # n /\ Dst[l] # n
      BY <2>1 DEF Awaits, TypeOK
    <2>3. link'[l] = link[l] /\ chan'[l] = chan[l] /\ reply'[l] = reply[l]
      BY <1>9, <2>2 DEF Leave
    <2>4. Awaits(l) /\ todo'[Src[l]] = todo[Src[l]]
      BY <2>1, <2>2, <2>3 DEF Awaits, TypeOK
    <2> QED  BY <1>2, <2>3, <2>4
  <1> QED  BY <1>3, <1>4, <1>5, <1>6, <1>7, <1>8, <1>9 DEF App

(* A query is handled at a peer that knows the node by then, and is answered
   with its key (pebo_net.cpp:206-220, 243-260).                           *)
LEMMA ReplyLoop ==
  ASSUME AnnounceInv, Present, ReplyInv, NEW l2 \in Link, Loop(l2) \/ Broken(l2) \/ Cut(l2),
         NEW l \in Link, Awaits(l)'
  PROVE  Coming(l)'
  <1> USE LinkAssumption
  <1> DEFINE w == QueryMsg(Svc[Src[l]])
  <1>0. /\ TypeOK /\ chan \in [Link -> Seq(Message)] /\ link \in [Link -> LinkState]
        /\ reply \in [Link -> SUBSET Key] /\ w \in Message
        /\ Own(Src[l]) \in Key /\ chan[l] \in Seq(Message)
    BY NodeAssumption, WireType, OwnType DEF AnnounceInv, TypeOK
  <1>1. Awaits(l) => Coming(l)
    BY DEF ReplyInv
  <1>p. UNCHANGED <<phase, todo>>
    BY DEF Loop, Connect, Refused, HandlePeer, HandleQuery, HandleReply,
           CloseReceived, CloseRefused, PeerGone, Broken, Cut
  <1>w. w.type = "QUERY"
    BY DEF QueryMsg
  <1> HIDE DEF w
  <1>2. ASSUME link[l] \in {"connecting", "open"}, Holds(chan[l], w) => Holds(chan'[l], w),
               reply'[l] = reply[l]
        PROVE  Coming(l)'
    BY <1>1, <1>2, <1>p DEF Coming, Awaits, w
  <1>3. CASE Connect(l2)
    <2>1. link[l] \in {"connecting", "open"} /\ UNCHANGED <<chan, reply>>
      BY <1>0, <1>3 DEF Connect, Awaits
    <2> QED  BY <1>2, <2>1
  <1>4. CASE Refused(l2) \/ PeerGone(l2) \/ Broken(l2) \/ CloseReceived(l2) \/ CloseRefused(l2)
             \/ Cut(l2)
    <2>1. l # l2
      BY <1>0, <1>4 DEF Refused, PeerGone, Broken, CloseReceived, CloseRefused, Cut, Awaits
    <2>2. link'[l] = link[l] /\ chan'[l] = chan[l] /\ reply'[l] = reply[l]
      BY <1>0, <1>4, <2>1 DEF Refused, PeerGone, Broken, CloseReceived, CloseRefused, Cut
    <2>3. link[l] \in {"connecting", "open"}
      BY <2>2 DEF Awaits
    <2> QED  BY <1>2, <2>2, <2>3
  <1>5. CASE HandlePeer(l2)
    <2> DEFINE ch == [chan EXCEPT ![l2] = Tail(@)]
               m  == Head(chan[l2])
    <2>1. ch \in [Link -> Seq(Message)] /\ m \in PeerMessage /\ chan[l2] # <<>>
      BY <1>0, <1>5, PopType, PeerMessageFields DEF HandlePeer
    <2>2. PeerUpdate(Dst[l2], m, <<"in", Src[l2]>>, {nodeAddr[l2]}, ch) /\ UNCHANGED <<link, reply>>
      BY <1>5 DEF HandlePeer
    <2>3. m.type = "PEER" /\ m # w
      BY <1>5, <1>w DEF HandlePeer
    <2>4. Holds(chan[l], w) => Holds(ch[l], w)
      <3>1. CASE l2 = l
        <4>1. ch[l] = Tail(chan[l]) /\ m = Head(chan[l]) /\ chan[l] # <<>>
          BY <1>0, <2>1, <3>1
        <4> HIDE DEF ch, m
        <4> QED  BY <1>0, <2>3, <4>1, HoldsKept
      <3>2. CASE l2 # l
        BY <1>0, <3>2
      <3> QED  BY <3>1, <3>2
    <2> HIDE DEF ch, m
    <2>5. Holds(ch[l], w) => Holds(chan'[l], w)
      BY <1>0, <2>1, <2>2, UpdateHolds
    <2>6. link[l] \in {"connecting", "open"}
      BY <2>2 DEF Awaits
    <2> QED  BY <1>2, <2>2, <2>4, <2>5, <2>6
  <1>6. CASE HandleQuery(l2)
    <2> DEFINE m == Head(chan[l2])
    <2>1. /\ link' = link /\ link[l2] # "connecting" /\ chan[l2] # <<>> /\ m.type = "QUERY"
          /\ chan' = [chan EXCEPT ![l2] = Tail(@)]
          /\ reply' = [reply EXCEPT ![l2] = IF link[l2] \in {"open", "received"}
                                            THEN @ \cup Query(store[Dst[l2]], m.service) ELSE @]
      BY <1>6 DEF HandleQuery
    <2>2. link[l] \in {"connecting", "open"} /\ Awaits(l)
      BY <1>p, <2>1 DEF Awaits
    <2>3. CASE l2 # l
      <3>1. chan'[l] = chan[l] /\ reply'[l] = reply[l]
        BY <1>0, <2>1, <2>3
      <3> QED  BY <1>2, <2>2, <3>1
    <2>4. CASE l2 = l /\ m = w
      <3>1. Knows(l)
        BY <1>0, <2>1, <2>4, TailKeeps DEF AnnounceInv, Pending
      <3>2. Own(Src[l]) \in DOMAIN store[Dst[l]]
        BY <2>2, <3>1 DEF Awaits, Knows
      <3>3. m.service = Svc[Src[l]] /\ Own(Src[l])[1] = Svc[Src[l]]
        BY <2>4 DEF w, QueryMsg, Own
      <3>4. Own(Src[l]) \in Query(store[Dst[l]], m.service)
        BY <3>2, <3>3 DEF Query, Present
      <3>5. reply'[l] = reply[l] \cup Query(store[Dst[l]], m.service)
        BY <1>0, <2>1, <2>2, <2>4
      <3> QED  BY <3>4, <3>5 DEF Coming
    <2>5. CASE l2 = l /\ m # w
      <3>1. chan'[l] = Tail(chan[l]) /\ chan[l] # <<>> /\ Head(chan[l]) # w
        BY <1>0, <2>1, <2>5
      <3>2. Holds(chan[l], w) => Holds(chan'[l], w)
        BY <1>0, <3>1, HoldsKept
      <3>3. reply[l] # {} => reply'[l] # {}
        BY <1>0, <2>1, <2>5
      <3> QED  BY <1>1, <1>p, <2>2, <3>2, <3>3 DEF Coming, w
    <2> QED  BY <2>3, <2>4, <2>5
  <1>7. ASSUME NEW k \in Key, HandleReply(l2, k) PROVE Coming(l)'
    <2>1. /\ PeerUpdate(Src[l2], PeerMsg(k, FALSE), <<"out", Dst[l2]>>, {Dst[l2]}, chan)
          /\ link' = [link EXCEPT ![l2] = "received"] /\ reply' = [reply EXCEPT ![l2] = @ \ {k}]
      BY <1>7 DEF HandleReply
    <2>2. l # l2
      BY <1>0, <2>1 DEF Awaits
    <2>3. link[l] \in {"connecting", "open"} /\ reply'[l] = reply[l]
      BY <1>0, <2>1, <2>2 DEF Awaits
    <2>4. PeerMsg(k, FALSE) \in PeerMessage
      BY PeerMsgFields
    <2>5. Holds(chan[l], w) => Holds(chan'[l], w)
      BY <1>0, <2>1, <2>4, UpdateHolds
    <2> QED  BY <1>2, <2>3, <2>5
  <1> QED  BY <1>3, <1>4, <1>5, <1>6, <1>7 DEF Loop

(* In every network a client that is connected, or about to be, has a reply to
   come that will close it, as long as neither end stops: its query is not
   lost, and the answer to it is not empty (shell.cpp:108-111,
   pebo_net.cpp:243-260).                                                  *)
THEOREM ReplyCorrect == Spec => []ReplyComes
  <1>1. Init => ReplyInv
    BY LinkAssumption DEF Init, ReplyInv, TodoInv, Awaits
  <1>2. FloodInv /\ AnnounceInv /\ ReplyInv /\ [Next]_vars => ReplyInv'
    <2> SUFFICES ASSUME FloodInv, AnnounceInv, ReplyInv, [Next]_vars PROVE ReplyInv'
      OBVIOUS
    <2>1. TypeOK /\ AppInv /\ Present
      BY DEF FloodInv, BaseInv
    <2>2. TodoInv'
      BY <2>1, TodoStep DEF ReplyInv
    <2>3. ASSUME NEW l \in Link, Awaits(l)' PROVE Coming(l)'
      <3>1. CASE UNCHANGED vars
        BY <2>3, <3>1 DEF vars, ReplyInv, Awaits, Coming
      <3>2. CASE Next
        BY <2>1, <2>3, <3>2, ReplyApp, ReplyLoop DEF Next
      <3> QED  BY <3>1, <3>2
    <2> QED  BY <2>2, <2>3 DEF ReplyInv
  <1>3. ReplyInv => ReplyComes
    BY DEF ReplyInv, ReplyComes, Awaits, Coming, Holds
  <1> QED  BY <1>1, <1>2, <1>3, FloodCorrect, AnnounceCorrect, PTL DEF Spec
=============================================================================
