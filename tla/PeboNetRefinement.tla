------------------------- MODULE PeboNetRefinement -------------------------
(***************************************************************************)
(* Every outgoing client of PeboNet.tla stays within ClientLink.tla, in a  *)
(* network of any topology and whatever departs or breaks.                 *)
(* NetClientRefinement.tla proves the same of the code of one client; that *)
(* the network model lets a client do all that the code does is not proved.*)
(***************************************************************************)
EXTENDS PeboNetProofs

\* A node that was not started has opened no connection and written nothing.
Quiet(l) == /\ phase[Src[l]] = "off" => link[l] = "idle"
            /\ link[l] = "idle" => chan[l] = <<>>

NetInv == TypeOK /\ \A l \in Link : Quiet(l)

ClientStep(l) == Client(l)!Next \/ UNCHANGED Client(l)!vars

(* A link that a step leaves alone. *)
LEMMA Stays ==
  ASSUME NEW l \in Link, link'[l] = link[l], chan'[l] = chan[l]
  PROVE  ClientStep(l)
  BY DEF ClientStep, Client!vars

(* A message is given to the link. *)
LEMMA Sends ==
  ASSUME NEW l \in Link, chan[l] \in Seq(Message), Writable(l),
         NEW m \in Message, chan'[l] = Append(chan[l], m),
         link'[l] = IF link[l] = "received" THEN "open" ELSE link[l]
  PROVE  ClientStep(l)
  <1>1. Len(chan'[l]) = Len(chan[l]) + 1
    OBVIOUS
  <1>2. Client(l)!Send
    BY <1>1 DEF Client!Send, Writable
  <1> QED  BY <1>2 DEF ClientStep, Client!Next

(* The remote reads, or messages are lost. *)
LEMMA Takes ==
  ASSUME NEW l \in Link, link[l] \notin {"idle", "connecting"}, link'[l] = link[l],
         Len(chan'[l]) \in 0 .. Len(chan[l])
  PROVE  ClientStep(l)
  <1>1. Client(l)!Take
    BY DEF Client!Take
  <1> QED  BY <1>1 DEF ClientStep, Client!Next

(* The connection is lost with what was on the way. *)
LEMMA Fails ==
  ASSUME NEW l \in Link, link[l] \in {"connecting", "open"}, link'[l] = "failed",
         Len(chan'[l]) \in 0 .. Len(chan[l])
  PROVE  ClientStep(l)
  <1>1. Client(l)!Fail
    BY DEF Client!Fail
  <1> QED  BY <1>1 DEF ClientStep, Client!Next

(* A broadcast in which no handler of replies is interrupted. *)
LEMMA Broadcasts ==
  ASSUME NEW l \in Link, NEW L, NEW m, OnWire(m) \in Message, chan[l] \in Seq(Message),
         chan'[l] = SendTo(chan, L, m)[l], link'[l] = link[l],
         l \in L => link[l] # "received"
  PROVE  ClientStep(l)
  <1>1. CASE l \in L /\ Writable(l)
    <2>1. chan'[l] = Append(chan[l], OnWire(m))
      BY <1>1 DEF SendTo
    <2> QED  BY <1>1, <2>1, Sends
  <1>2. CASE ~(l \in L /\ Writable(l))
    BY <1>2, Stays DEF SendTo
  <1> QED  BY <1>1, <1>2

-----------------------------------------------------------------------------

(* One sendMessage of the application thread. *)
LEMMA AppSends ==
  ASSUME NetInv, NEW l \in Link, NEW l2 \in Link, NEW m, OnWire(m) \in Message,
         chan' = SendTo(chan, {l2}, m),
         link' = [link EXCEPT ![l2] = IF @ = "received" THEN "open" ELSE @]
  PROVE  ClientStep(l) /\ (phase' = phase => Quiet(l)')
  <1>0. chan[l] \in Seq(Message) /\ link \in [Link -> LinkState] /\ Quiet(l)
    BY DEF NetInv, TypeOK
  <1>1. link'[l] = IF l = l2 /\ link[l] = "received" THEN "open" ELSE link[l]
    BY <1>0
  <1>2. CASE l = l2 /\ Writable(l)
    <2>1. chan'[l] = Append(chan[l], OnWire(m))
      BY <1>2 DEF SendTo
    <2>2. link'[l] # "idle" /\ link[l] # "idle"
      BY <1>1, <1>2 DEF Writable
    <2> QED  BY <1>0, <1>1, <1>2, <2>1, <2>2, Sends DEF Quiet
  <1>3. CASE ~(l = l2 /\ Writable(l))
    <2>1. chan'[l] = chan[l] /\ link'[l] = link[l]
      BY <1>1, <1>3 DEF SendTo, Writable
    <2> QED  BY <1>0, <2>1, Stays DEF Quiet
  <1> QED  BY <1>2, <1>3

(* The application thread. *)
LEMMA AppLink ==
  ASSUME NetInv, NEW n \in Node, Listen(n) \/ App(n) \/ Stop(n) \/ Leave(n), NEW l \in Link
  PROVE  ClientStep(l) /\ Quiet(l)'
  <1> USE LinkAssumption
  <1>0. /\ chan[l] \in Seq(Message) /\ link \in [Link -> LinkState] /\ Quiet(l)
        /\ phase \in [Node -> {"off", "listening", "up", "stopping", "left"}]
        /\ Own(n) \in Key
    BY OwnType DEF NetInv, TypeOK
  <1>1. CASE Listen(n)
    <2>1. /\ IF Src[l] = n THEN link'[l] \in {"connecting", "failed"} ELSE link'[l] = link[l]
          /\ chan'[l] = chan[l]
          /\ phase' = [phase EXCEPT ![n] = "listening"] /\ phase[n] = "off"
      BY <1>1 DEF Listen
    <2>2. CASE Src[l] = n
      <3>1. link[l] = "idle" /\ link'[l] \in {"connecting", "failed"}
        BY <1>0, <2>1, <2>2 DEF Quiet
      <3>2. Client(l)!Start
        BY <2>1, <3>1 DEF Client!Start
      <3> QED  BY <1>0, <2>1, <2>2, <3>1, <3>2 DEF ClientStep, Client!Next, Quiet
    <2>3. CASE Src[l] # n
      BY <1>0, <2>1, <2>3, Stays DEF Quiet
    <2> QED  BY <2>2, <2>3
  <1>2. CASE StoreOwn(n) \/ Stop(n)
    <2>1. link'[l] = link[l] /\ chan'[l] = chan[l] /\ (phase'[Src[l]] = "off" => phase[Src[l]] = "off")
      BY <1>0, <1>2 DEF StoreOwn, Stop
    <2> QED  BY <1>0, <2>1, Stays DEF Quiet
  <1>3. ASSUME NEW l2 \in Link, SendRefresh(n, l2) \/ SendQuery(n, l2) \/ SendBye(n, l2)
        PROVE  ClientStep(l) /\ Quiet(l)'
    <2>1. PICK m : /\ OnWire(m) \in Message
                   /\ chan' = SendTo(chan, {l2}, m)
      <3>1. OnWire(PeerMsg(Own(n), FALSE)) \in Message /\ OnWire(PeerMsg(Own(n), TRUE)) \in Message
        BY <1>0, WireType
      <3>2. OnWire(QueryMsg(Svc[n])) \in Message
        BY WireType, NodeAssumption
      <3> QED  BY <1>3, <3>1, <3>2 DEF SendRefresh, SendQuery, SendBye
    <2>2. /\ link' = [link EXCEPT ![l2] = IF @ = "received" THEN "open" ELSE @]
          /\ phase' = phase
      BY <1>3 DEF SendRefresh, SendQuery, SendBye
    <2> QED  BY <2>1, <2>2, AppSends
  <1>4. CASE Leave(n)
    <2>1. /\ chan'[l] \in {<<>>, chan[l]}
          /\ link[l] = "connecting" /\ Src[l] # n => chan'[l] = chan[l]
          /\ link'[l] = IF Src[l] = n THEN "gone" ELSE link[l]
          /\ phase' = [phase EXCEPT ![n] = "left"]
      BY <1>4 DEF Leave
    <2>2. Len(chan'[l]) \in 0 .. Len(chan[l])
      BY <1>0, <2>1
    <2>3. Quiet(l)'
      BY <1>0, <2>1 DEF Quiet
    <2>4. CASE Src[l] = n
      <3>1. Client(l)!Go
        BY <2>1, <2>2, <2>4 DEF Client!Go
      <3> QED  BY <2>3, <3>1 DEF ClientStep, Client!Next
    <2>5. CASE Src[l] # n /\ link[l] \in {"idle", "connecting"}
      BY <1>0, <2>1, <2>3, <2>5, Stays DEF Quiet
    <2>6. CASE Src[l] # n /\ link[l] \notin {"idle", "connecting"}
      BY <2>1, <2>2, <2>3, <2>6, Takes
    <2> QED  BY <2>4, <2>5, <2>6
  <1> QED  BY <1>1, <1>2, <1>3, <1>4 DEF App

\* The links to which news from an address in skip is passed on.
Targets(n, skip) == {l \in OutLinks(n) : Dst[l] \notin skip}

(* peerUpdateFromPeboPeer either passes the message on or does nothing to the
   queues (pebo_net.cpp:187-204, 222-241).                                 *)
LEMMA UpdateQueues ==
  ASSUME NEW n, NEW m, NEW from, NEW skip, NEW ch, PeerUpdate(n, m, from, skip, ch)
  PROVE  chan' = ch \/ chan' = SendTo(ch, Targets(n, skip), m)
  BY DEF PeerUpdate, Targets

(* A line taken from an accepted connection and, if it was news, passed on. *)
LEMMA HandlePeerLink ==
  ASSUME NetInv, NEW l2 \in Link, HandlePeer(l2), NEW l \in Link
  PROVE  ClientStep(l) /\ Quiet(l)'
  <1> USE LinkAssumption
  <1> DEFINE m == Head(chan[l2])
             ch == [chan EXCEPT ![l2] = Tail(@)]
             L == Targets(Dst[l2], {nodeAddr[l2]})
  <1>0. /\ chan \in [Link -> Seq(Message)] /\ Quiet(l) /\ Quiet(l2)
        /\ chan[l2] # <<>> /\ link[l2] \notin {"idle", "connecting"}
        /\ link' = link /\ phase' = phase
    BY DEF NetInv, TypeOK, HandlePeer, Quiet
  <1>1. m \in Message /\ m.type = "PEER" /\ OnWire(m) \in Message
    <2>1. m \in Message /\ m.type = "PEER"
      BY <1>0 DEF HandlePeer
    <2>2. m \in PeerMessage
      BY <2>1, PeerMessageFields
    <2> QED  BY <2>1, <2>2, WireType
  <1>2. chan' = ch \/ chan' = SendTo(ch, L, m)
    <2>1. PeerUpdate(Dst[l2], m, <<"in", Src[l2]>>, {nodeAddr[l2]}, ch)
      BY DEF HandlePeer
    <2> HIDE DEF m, ch
    <2> QED  BY <2>1, UpdateQueues
  <1>3. l \in L => link[l] # "received"
    BY DEF HandlePeer, LoopIdle, Targets
  <1>4. ch[l] \in Seq(Message) /\ Len(ch[l]) = IF l = l2 THEN Len(chan[l]) - 1 ELSE Len(chan[l])
    BY <1>0
  <1>5. l # l2 => ch[l] = chan[l]
    BY <1>0
  <1> HIDE DEF m, ch, L
  <1>6. chan'[l] = ch[l] \/ (l \in L /\ Writable(l) /\ chan'[l] = Append(ch[l], OnWire(m)))
    BY <1>2 DEF SendTo
  <1>7. Quiet(l)'
    BY <1>0, <1>5, <1>6 DEF Quiet, Writable
  <1>8. CASE chan'[l] = ch[l]
    <2>1. CASE l = l2
      <3>1. Len(chan'[l]) \in 0 .. Len(chan[l])
        BY <1>0, <1>4, <1>8, <2>1
      <3> QED  BY <1>0, <1>7, <2>1, <3>1, Takes
    <2>2. CASE l # l2
      BY <1>0, <1>5, <1>7, <1>8, <2>2, Stays
    <2> QED  BY <2>1, <2>2
  <1>9. CASE l \in L /\ Writable(l) /\ chan'[l] = Append(ch[l], OnWire(m))
    <2>1. CASE l = l2
      <3>1. Len(chan'[l]) \in 0 .. Len(chan[l])
        BY <1>0, <1>1, <1>4, <1>9, <2>1
      <3> QED  BY <1>0, <1>7, <2>1, <3>1, Takes
    <2>2. CASE l # l2
      <3>1. link'[l] = IF link[l] = "received" THEN "open" ELSE link[l]
        BY <1>0, <1>3, <1>9
      <3> QED  BY <1>0, <1>1, <1>5, <1>7, <1>9, <2>2, <3>1, Sends
    <2> QED  BY <2>1, <2>2
  <1> QED  BY <1>6, <1>8, <1>9

(* A line of a reply: its link is received, and the others may be given what
   it taught.                                                              *)
LEMMA HandleReplyLink ==
  ASSUME NetInv, NEW l2 \in Link, NEW k \in Key, HandleReply(l2, k), NEW l \in Link
  PROVE  ClientStep(l) /\ Quiet(l)'
  <1> USE LinkAssumption
  <1> DEFINE L == Targets(Src[l2], {Dst[l2]})
  <1>0. /\ chan[l] \in Seq(Message) /\ link \in [Link -> LinkState] /\ Quiet(l)
        /\ phase' = phase /\ link' = [link EXCEPT ![l2] = "received"]
        /\ link[l2] \in {"open", "received"}
    BY DEF NetInv, TypeOK, HandleReply
  <1>1. OnWire(PeerMsg(k, FALSE)) \in Message
    BY WireType
  <1>2. chan' = chan \/ chan' = SendTo(chan, L, PeerMsg(k, FALSE))
    <2>1. PeerUpdate(Src[l2], PeerMsg(k, FALSE), <<"out", Dst[l2]>>, {Dst[l2]}, chan)
      BY DEF HandleReply
    <2> QED  BY <2>1, UpdateQueues
  <1>3. l2 \notin L /\ (l \in L => link[l] # "received")
    BY DEF HandleReply, Targets, OutLinks
  <1> HIDE DEF L
  <1>4. CASE l = l2
    <2>1. chan'[l] = chan[l] /\ link'[l] = "received"
      BY <1>0, <1>2, <1>3, <1>4 DEF SendTo
    <2>2. Client(l)!Reply
      BY <1>0, <1>4, <2>1 DEF Client!Reply
    <2> QED  BY <1>0, <1>4, <2>1, <2>2 DEF ClientStep, Client!Next, Quiet
  <1>5. CASE l # l2
    <2>1. link'[l] = link[l]
      BY <1>0, <1>5
    <2>2. chan'[l] = chan[l] \/ (Writable(l) /\ chan'[l] = SendTo(chan, L, PeerMsg(k, FALSE))[l])
      BY <1>2 DEF SendTo
    <2>3. Quiet(l)'
      BY <1>0, <2>1, <2>2 DEF Quiet, Writable
    <2> QED  BY <1>0, <1>1, <1>3, <2>1, <2>2, <2>3, Stays, Broadcasts
  <1> QED  BY <1>4, <1>5

(* The other steps of the loop and of the network. *)
LEMMA LoopLink ==
  ASSUME NetInv, NEW l2 \in Link, Loop(l2) \/ Broken(l2) \/ Cut(l2), NEW l \in Link
  PROVE  ClientStep(l) /\ Quiet(l)'
  <1> USE LinkAssumption
  <1>0. /\ chan \in [Link -> Seq(Message)] /\ link \in [Link -> LinkState] /\ Quiet(l)
    BY DEF NetInv, TypeOK
  <1>1. CASE HandlePeer(l2)
    BY <1>1, HandlePeerLink
  <1>2. CASE \E k \in Key : HandleReply(l2, k)
    BY <1>2, HandleReplyLink
  <1> DEFINE Other == /\ phase' = phase
                      /\ l # l2 => link'[l] = link[l] /\ chan'[l] = chan[l]
  <1>3. Other /\ l # l2 => ClientStep(l) /\ Quiet(l)'
    BY <1>0, Stays DEF Quiet
  <1>4. CASE Connect(l2)
    <2>1. Other /\ link[l2] = "connecting" /\ link'[l2] = "open" /\ chan' = chan
      BY <1>0, <1>4 DEF Connect
    <2>2. l = l2 => Client(l)!Connected
      BY <2>1 DEF Client!Connected
    <2> QED  BY <1>0, <1>3, <2>1, <2>2 DEF ClientStep, Client!Next, Quiet
  <1>5. CASE Refused(l2) \/ PeerGone(l2) \/ Broken(l2)
    <2>1. Other /\ link[l2] \in {"connecting", "open"} /\ link'[l2] = "failed"
          /\ chan'[l2] \in {<<>>, chan[l2]}
      BY <1>0, <1>5 DEF Refused, PeerGone, Broken
    <2>2. Len(chan'[l2]) \in 0 .. Len(chan[l2])
      BY <1>0, <2>1
    <2> QED  BY <1>0, <1>3, <2>1, <2>2, Fails DEF Quiet
  <1>6. CASE HandleQuery(l2)
    <2>1. Other /\ link[l2] # "connecting" /\ link' = link /\ chan'[l2] = Tail(chan[l2])
          /\ chan[l2] # <<>>
      BY <1>0, <1>6 DEF HandleQuery
    <2>2. Len(chan'[l2]) \in 0 .. Len(chan[l2])
      BY <1>0, <2>1
    <2>3. l = l2 => link[l] # "idle"
      BY <1>0, <2>1 DEF Quiet
    <2> QED  BY <1>0, <1>3, <2>1, <2>2, <2>3, Takes DEF Quiet
  <1>7. CASE CloseReceived(l2) \/ CloseRefused(l2)
    <2>1. Other /\ link'[l2] = "closed" /\ chan' = chan
          /\ link[l2] \in IF ReadRestarts[Src[l2]] THEN {"received"} ELSE {"received", "open"}
      BY <1>0, <1>7 DEF CloseReceived, CloseRefused
    <2>2. Len(chan'[l2]) \in 0 .. Len(chan[l2])
      BY <1>0, <2>1
    <2>3. l = l2 => Client(l)!Close
      BY <2>1, <2>2 DEF Client!Close
    <2> QED  BY <1>0, <1>3, <2>1, <2>3 DEF ClientStep, Client!Next, Quiet
  <1>8. CASE Cut(l2)
    <2>1. Other /\ link[l2] \notin {"idle", "connecting"} /\ link' = link
          /\ Len(chan'[l2]) = Len(chan[l2]) - 1 /\ chan[l2] # <<>>
      BY <1>0, <1>8, CutType DEF Cut
    <2>2. Len(chan'[l2]) \in 0 .. Len(chan[l2])
      BY <1>0, <2>1
    <2> QED  BY <1>0, <1>3, <2>1, <2>2, Takes DEF Quiet
  <1> QED  BY <1>1, <1>2, <1>4, <1>5, <1>6, <1>7, <1>8 DEF Loop

-----------------------------------------------------------------------------

(* In a network of any topology, whatever nodes start, leave or crash and
   whatever connections break, every entry of every node's myPeersOut stays
   within ClientLink.tla, as the client's code does by NetClientRefinement.tla
   (net_client.cpp:41-75, 239-291, 334-417).                               *)
THEOREM ClientLinksCorrect == Spec => ClientLinks
  <1> DEFINE Q == \A l \in Link : Quiet(l)
             Start == \A l \in Link : Client(l)!Init
             Step == \A l \in Link : Client(l)!Next \/ UNCHANGED Client(l)!vars
  <1>1. Init => Start /\ Q
    BY LinkAssumption DEF Init, Client!Init, Quiet
  <1>2. TypeOK /\ Q /\ [Next]_vars => Q' /\ [Step]_vars
    <2> SUFFICES ASSUME NetInv, [Next]_vars PROVE Q' /\ [Step]_vars
      BY DEF NetInv
    <2>1. CASE UNCHANGED vars
      BY <2>1 DEF vars, NetInv, Quiet
    <2>2. CASE Next
      <3>1. \A l \in Link : ClientStep(l) /\ Quiet(l)'
        BY <2>2, AppLink, LoopLink DEF Next
      <3> QED  BY <3>1 DEF ClientStep
    <2> QED  BY <2>1, <2>2
  <1>3. ClientLinks <=> Start /\ [][Step]_vars
    BY DEF ClientLinks
  <1> HIDE DEF Q, Start, Step
  <1> QED  BY <1>1, <1>2, <1>3, TypeCorrect, PTL DEF Spec
=============================================================================
