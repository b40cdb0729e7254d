------------------------------ MODULE PeboNet ------------------------------
(***************************************************************************)
(* A network of PeerBoot processes.                                        *)
(*                                                                         *)
(* Every node runs class PeboNet over the clients of net_client.cpp.  A    *)
(* link is one entry of myPeersOut: an outgoing connection that Src opens  *)
(* once, when it starts to listen.  Requests (PEER and QUERY lines) go     *)
(* from Src to Dst, the replies to a QUERY come back the other way; a node *)
(* never sends anything else on a connection it accepted.                  *)
(*                                                                         *)
(* Each node has two threads: the application thread in Shell::init,       *)
(* start and stop, whose sends are one step per link, and the event loop,  *)
(* whose handlers run one at a time.  The handler of a chunk of replies    *)
(* spans several steps: while it runs its link is "received", and the loop *)
(* does nothing else.  What a node does when a fault ends its process,     *)
(* those of NetClient.tla included, is to leave.                           *)
(*                                                                         *)
(* NetClient.tla looks inside one client.  Here a client is the value of   *)
(* link, and TCP is a queue of whole lines.                                *)
(***************************************************************************)
EXTENDS StoreOps, Sequences, FiniteSets

CONSTANTS Node,     \* the processes; a node is its own "host:port"
          Link,     \* the entries of every node's myPeersOut
          Src, Dst, \* the ends of a link
          SeenAs,   \* the possible values of nodeAddr below
          Svc,      \* the service each node announces and asks for
          ReadRestarts, \* as in NetClient.tla: the nodes' libuv is before 1.38
          Leavers,  \* the nodes that may stop or crash
          Sayers,   \* the nodes that may take leave with Shell::stop
          Faulty    \* the links whose connection the network may break

ASSUME LinkAssumption == Src \in [Link -> Node] /\ Dst \in [Link -> Node]
ASSUME SeenAssumption == \A addr \in SeenAs : DOMAIN addr = Link
ASSUME NodeAssumption == Node \subseteq Endpoint /\ Svc \in [Node -> Service]
ASSUME VersionAssumption == ReadRestarts \in [Node -> BOOLEAN]
ASSUME FaultAssumption == Leavers \subseteq Node /\ Sayers \subseteq Node /\ Faulty \subseteq Link

VARIABLES phase,    \* of each node: off, listening, up, stopping, left
          todo,     \* what the application thread has still to send: <<link, what>>
          store,    \* each node's myStore
          link,     \* each outgoing client
          chan,     \* requests sent on a link and not yet handled
          reply,    \* keys replied on a link and not yet handled
          told,     \* history: how often the callback told a node of a key
          via,      \* history: where a node first learned a key
          sent,     \* history: how often PEER of a key was sent on a link
          nodeAddr  \* the address of Src that Dst reads from an accepted connection:
                    \* it depends on the port the system picks, and never changes

vars == <<phase, todo, store, link, chan, reply, told, via, sent, nodeAddr>>
history == <<told, via, sent, nodeAddr>>

Own(n) == <<Svc[n], n>>
\* Mutation: the connections that came in are taken for those that go out.
OutLinksIn(n) == {l \in Link : Dst[l] = n}
OutLinks(n) == {l \in Link : Src[l] = n}
Running(n) == phase[n] \in {"listening", "up", "stopping"}

\* PeerUpdateMessage and QueryMessage.
PeerMsg(k, removed) == [type |-> "PEER", key |-> k, isRemoved |-> removed]
QueryMsg(s) == [type |-> "QUERY", service |-> s]

\* What is left of a message once written and parsed: the PEER line has no
\* field for isRemoved, and the reader fills in FALSE.
OnWire(m) == IF m.type = "PEER" THEN PeerMsg(m.key, FALSE) ELSE m

PeerMessage == {PeerMsg(k, FALSE) : k \in Key}
Message == PeerMessage \cup {QueryMsg(s) : s \in Service}

\* Mutation: nothing is written before the connection is up.
WritableConnected(l) == link[l] \in {"open", "received"}

\* The clients whose sendMessage still puts the message on the stream: before
\* the connection is up libuv queues it.  A closed client drops it silently;
\* a failed one has lost its socket, gets EBADF and closes.
Writable(l) == link[l] \in {"connecting", "open", "received"}

\* The event loop of n is not inside a handler of replies.
LoopIdle(n) == \A l \in OutLinks(n) : link[l] # "received"

Init == /\ phase = [n \in Node |-> "off"]
        /\ todo = [n \in Node |-> {}]
        /\ store = [n \in Node |-> EmptyStore]
        /\ link = [l \in Link |-> "idle"]
        /\ chan = [l \in Link |-> <<>>]
        /\ reply = [l \in Link |-> {}]
        /\ told = [n \in Node |-> [k \in Key |-> 0]]
        /\ via = [n \in Node |-> [k \in Key |-> {}]]
        /\ sent = [l \in Link |-> [k \in Key |-> 0]]
        /\ nodeAddr \in SeenAs

-----------------------------------------------------------------------------
(* Sending.                                                                *)

\* The queues ch after sendMessage(m) on every link of L.
SendTo(ch, L, m) ==
  [l \in Link |-> IF l \in L /\ Writable(l) THEN Append(ch[l], OnWire(m)) ELSE ch[l]]

\* The history of the PEER messages that reached a stream.
CountSent(L, k) ==
  [l \in Link |-> IF l \in L /\ Writable(l) THEN [sent[l] EXCEPT ![k] = @ + 1] ELSE sent[l]]

-----------------------------------------------------------------------------
(* The application thread.                                                 *)

\* Shell::init: NetHandler::start binds the port, listenStarted opens every
\* outgoing connection, some of which fail at once, and the event loop starts.
Listen(n) ==
  /\ phase[n] = "off"
  /\ phase' = [phase EXCEPT ![n] = "listening"]
  /\ \E F \in SUBSET (OutLinks(n) \cap Faulty) :
       link' = [l \in Link |-> IF Src[l] # n THEN link[l]
                               ELSE IF l \in F THEN "failed" ELSE "connecting"]
  /\ UNCHANGED <<todo, store, chan, reply, history>>

\* Mutation: the own endpoint is announced and never stored.
StoreOwnForgets(n) ==
  /\ phase[n] = "listening"
  /\ phase' = [phase EXCEPT ![n] = "up"]
  /\ todo' = [todo EXCEPT ![n] = OutLinks(n) \X {"refresh", "query"}]
  /\ UNCHANGED <<store, link, chan, reply, history>>

\* Shell::start up to the first send: the own endpoint enters the store, and
\* on every link a refresh is to go out, then a query.
StoreOwn(n) ==
  /\ phase[n] = "listening"
  /\ phase' = [phase EXCEPT ![n] = "up"]
  /\ store' = [store EXCEPT ![n] = FindAndUpdate(@, Own(n), FALSE, 0, 0)]
  /\ via' = [via EXCEPT ![n][Own(n)] = IF @ = {} THEN {<<"own", n>>} ELSE @]
  /\ todo' = [todo EXCEPT ![n] = OutLinks(n) \X {"refresh", "query"}]
  /\ UNCHANGED <<link, chan, reply, told, sent, nodeAddr>>

\* One sendMessage of broadcast_refresh.  A send on a client in state
\* Received puts it back to Sending: it will not close after this chunk.
SendRefresh(n, l) ==
  /\ <<l, "refresh">> \in todo[n]
  /\ todo' = [todo EXCEPT ![n] = @ \ {<<l, "refresh">>}]
  /\ chan' = SendTo(chan, {l}, PeerMsg(Own(n), FALSE))
  /\ sent' = CountSent({l}, Own(n))
  /\ link' = [link EXCEPT ![l] = IF @ = "received" THEN "open" ELSE @]
  /\ UNCHANGED <<phase, store, reply, told, via, nodeAddr>>

\* Mutation: the query does not wait for the refresh.
SendQueryEarly(n, l) ==
  /\ <<l, "query">> \in todo[n]
  /\ todo' = [todo EXCEPT ![n] = @ \ {<<l, "query">>}]
  /\ chan' = SendTo(chan, {l}, QueryMsg(Svc[n]))
  /\ link' = [link EXCEPT ![l] = IF @ = "received" THEN "open" ELSE @]
  /\ UNCHANGED <<phase, store, reply, history>>

\* One sendMessage of queryRemote, once broadcast_refresh has returned.
SendQuery(n, l) ==
  /\ <<l, "query">> \in todo[n]
  /\ \A l2 \in OutLinks(n) : <<l2, "refresh">> \notin todo[n]
  /\ todo' = [todo EXCEPT ![n] = @ \ {<<l, "query">>}]
  /\ chan' = SendTo(chan, {l}, QueryMsg(Svc[n]))
  /\ link' = [link EXCEPT ![l] = IF @ = "received" THEN "open" ELSE @]
  /\ UNCHANGED <<phase, store, reply, history>>

\* Shell::stop begins: broadcast_bye.
Stop(n) ==
  /\ n \in Sayers
  /\ phase[n] = "up"
  /\ todo[n] = {}
  /\ phase' = [phase EXCEPT ![n] = "stopping"]
  /\ todo' = [todo EXCEPT ![n] = OutLinks(n) \X {"bye"}]
  /\ UNCHANGED <<store, link, chan, reply, history>>

\* One sendMessage of broadcast_bye.
SendBye(n, l) ==
  /\ <<l, "bye">> \in todo[n]
  /\ todo' = [todo EXCEPT ![n] = @ \ {<<l, "bye">>}]
  /\ chan' = SendTo(chan, {l}, PeerMsg(Own(n), TRUE))
  /\ sent' = CountSent({l}, Own(n))
  /\ link' = [link EXCEPT ![l] = IF @ = "received" THEN "open" ELSE @]
  /\ UNCHANGED <<phase, store, reply, told, via, nodeAddr>>

\* The node goes: the end of Shell::stop, deinit, or a crash at any moment,
\* before all good byes are sent, too.
\* Its loop stops without draining anything; what it had written may still
\* arrive, what was sent to it is lost.
Leave(n) ==
  /\ n \in Leavers
  /\ Running(n)
  /\ phase' = [phase EXCEPT ![n] = "left"]
  /\ todo' = [todo EXCEPT ![n] = {}]
  /\ store' = [store EXCEPT ![n] = EmptyStore]
  /\ link' = [l \in Link |-> IF Src[l] = n THEN "gone" ELSE link[l]]
  /\ chan' = [l \in Link |-> IF \/ Dst[l] = n /\ link[l] # "connecting"
                                \/ Src[l] = n /\ link[l] = "connecting"
                             THEN <<>> ELSE chan[l]]
  /\ reply' = [l \in Link |-> IF Src[l] = n THEN {} ELSE reply[l]]
  /\ UNCHANGED history

-----------------------------------------------------------------------------
(* The event loop.                                                         *)

\* Mutation: what was queued before the connection was up is dropped.
ConnectDrops(l) ==
  /\ link[l] = "connecting"
  /\ Running(Dst[l])
  /\ LoopIdle(Src[l])
  /\ link' = [link EXCEPT ![l] = "open"]
  /\ chan' = [chan EXCEPT ![l] = <<>>]
  /\ UNCHANGED <<phase, todo, store, reply, history>>

\* onConnect with status 0; at Dst the connection is accepted and read.
Connect(l) ==
  /\ link[l] = "connecting"
  /\ Running(Dst[l])
  /\ LoopIdle(Src[l])
  /\ link' = [link EXCEPT ![l] = "open"]
  /\ UNCHANGED <<phase, todo, store, chan, reply, history>>

\* onConnect with an error, for nobody listens there.  The socket is closed,
\* and what was queued on it is cancelled.
Refused(l) ==
  /\ link[l] = "connecting"
  /\ ~Running(Dst[l])
  /\ LoopIdle(Src[l])
  /\ link' = [link EXCEPT ![l] = "failed"]
  /\ chan' = [chan EXCEPT ![l] = <<>>]
  /\ UNCHANGED <<phase, todo, store, reply, history>>

\* PeboNet::peerUpdateFromPeboPeer at node n: update the store, and if that
\* was news, call the application back and pass the message on to every
\* outgoing peer except those at the address it came from.
PeerUpdate(n, m, from, skip, ch) ==
  LET news == IsNews(ResultOf(store[n], m.key, m.isRemoved))
      targets == {l \in OutLinks(n) : Dst[l] \notin skip}
  IN  /\ store' = [store EXCEPT ![n] = FindAndUpdate(@, m.key, m.isRemoved, 0, 0)]
      /\ IF news
         THEN /\ told' = [told EXCEPT ![n][m.key] = @ + 1]
              /\ via' = [via EXCEPT ![n][m.key] = IF @ = {} THEN {from} ELSE @]
              /\ chan' = SendTo(ch, targets, m)
              /\ sent' = CountSent(targets, m.key)
              /\ UNCHANGED nodeAddr
         ELSE /\ chan' = ch
              /\ UNCHANGED history

\* Dst reads a PEER line from a connection it accepted.  That connection's
\* nodeAddr holds the remote's ephemeral port in network byte order, so it is
\* nobody's address or, by chance, that of any outgoing peer on the same host,
\* which is then skipped.
HandlePeer(l) ==
  /\ Running(Dst[l]) /\ LoopIdle(Dst[l])
  /\ link[l] # "connecting"
  /\ chan[l] # <<>>
  /\ Head(chan[l]).type = "PEER"
  /\ PeerUpdate(Dst[l], Head(chan[l]), <<"in", Src[l]>>, {nodeAddr[l]}, [chan EXCEPT ![l] = Tail(@)])
  /\ UNCHANGED <<phase, todo, link, reply>>

\* Mutation: the line stays in the receive buffer once handled.
HandleQueryKeepsLine(l) ==
  /\ Running(Dst[l]) /\ LoopIdle(Dst[l])
  /\ link[l] # "connecting"
  /\ chan[l] # <<>>
  /\ Head(chan[l]).type = "QUERY"
  /\ reply' = [reply EXCEPT ![l] = IF link[l] \in {"open", "received"}
                                   THEN @ \cup Query(store[Dst[l]], Head(chan[l]).service)
                                   ELSE @]
  /\ UNCHANGED <<phase, todo, store, link, chan, history>>

\* Mutation: the asker is not told of itself.
HandleQueryOthers(l) ==
  /\ Running(Dst[l]) /\ LoopIdle(Dst[l])
  /\ link[l] # "connecting"
  /\ chan[l] # <<>>
  /\ Head(chan[l]).type = "QUERY"
  /\ chan' = [chan EXCEPT ![l] = Tail(@)]
  /\ reply' = [reply EXCEPT ![l] = IF link[l] \in {"open", "received"}
                                   THEN @ \cup (Query(store[Dst[l]], Head(chan[l]).service)
                                                  \ {Own(Src[l])})
                                   ELSE @]
  /\ UNCHANGED <<phase, todo, store, link, history>>

\* Dst reads a QUERY line and replies with every entry of the service it has,
\* PeboNet::doQuery; once the connection is closed the replies are lost.
HandleQuery(l) ==
  /\ Running(Dst[l]) /\ LoopIdle(Dst[l])
  /\ link[l] # "connecting"
  /\ chan[l] # <<>>
  /\ Head(chan[l]).type = "QUERY"
  /\ chan' = [chan EXCEPT ![l] = Tail(@)]
  /\ reply' = [reply EXCEPT ![l] = IF link[l] \in {"open", "received"}
                                   THEN @ \cup Query(store[Dst[l]], Head(chan[l]).service)
                                   ELSE @]
  /\ UNCHANGED <<phase, todo, store, link, history>>

\* Mutation: what a reply taught is passed on to everyone.
HandleReplyNoSkip(l, k) ==
  /\ Running(Src[l])
  /\ link[l] \in {"open", "received"}
  /\ \A l2 \in OutLinks(Src[l]) \ {l} : link[l2] # "received"
  /\ k \in reply[l]
  /\ reply' = [reply EXCEPT ![l] = @ \ {k}]
  /\ link' = [link EXCEPT ![l] = "received"]
  /\ PeerUpdate(Src[l], PeerMsg(k, FALSE), <<"out", Dst[l]>>, {}, chan)
  /\ UNCHANGED <<phase, todo>>

\* Src reads one PEER line of a chunk of replies; the client is Received.
HandleReply(l, k) ==
  /\ Running(Src[l])
  /\ link[l] \in {"open", "received"}
  /\ \A l2 \in OutLinks(Src[l]) \ {l} : link[l2] # "received"
  /\ k \in reply[l]
  /\ reply' = [reply EXCEPT ![l] = @ \ {k}]
  /\ link' = [link EXCEPT ![l] = "received"]
  /\ PeerUpdate(Src[l], PeerMsg(k, FALSE), <<"out", Dst[l]>>, {Dst[l]}, chan)
  /\ UNCHANGED <<phase, todo>>

\* The chunk ends with the client Received: process closes the connection,
\* and replies that were to come in later chunks are lost.
CloseReceived(l) ==
  /\ Running(Src[l])
  /\ link[l] = "received"
  /\ link' = [link EXCEPT ![l] = "closed"]
  /\ reply' = [reply EXCEPT ![l] = {}]
  /\ UNCHANGED <<phase, todo, store, chan, history>>

\* With a libuv that refuses to start reading twice, process closes the
\* connection as soon as a write is called back (every link's first message is
\* a PEER: its queries follow its refresh) or a chunk ended without closing.
CloseRefused(l) ==
  /\ ~ReadRestarts[Src[l]]
  /\ Running(Src[l]) /\ LoopIdle(Src[l])
  /\ link[l] = "open"
  /\ \E k \in Key : sent[l][k] > 0
  /\ link' = [link EXCEPT ![l] = "closed"]
  /\ reply' = [reply EXCEPT ![l] = {}]
  /\ UNCHANGED <<phase, todo, store, chan, history>>

\* The peer is gone: onRead gets the end of file, or an error, and closes the
\* socket behind the client's back.
PeerGone(l) ==
  /\ link[l] = "open"
  /\ phase[Dst[l]] = "left"
  /\ LoopIdle(Src[l])
  /\ link' = [link EXCEPT ![l] = "failed"]
  /\ chan' = [chan EXCEPT ![l] = <<>>]
  /\ reply' = [reply EXCEPT ![l] = {}]
  /\ UNCHANGED <<phase, todo, store, history>>

-----------------------------------------------------------------------------
(* The network.                                                            *)

\* A connection breaks, or is not established: onRead or onConnect gets an
\* error.  What is on the way may still arrive if it ever was established.
Broken(l) ==
  /\ l \in Faulty
  /\ link[l] \in {"connecting", "open"}
  /\ LoopIdle(Src[l])
  /\ link' = [link EXCEPT ![l] = "failed"]
  /\ chan' = [chan EXCEPT ![l] = IF link[l] = "connecting" THEN <<>> ELSE @]
  /\ reply' = [reply EXCEPT ![l] = {}]
  /\ UNCHANGED <<phase, todo, store, history>>

\* The last line written before a connection was closed does not arrive.
Cut(l) ==
  /\ link[l] \in {"closed", "gone", "failed"}
  /\ chan[l] # <<>>
  /\ chan' = [chan EXCEPT ![l] = SubSeq(@, 1, Len(@) - 1)]
  /\ UNCHANGED <<phase, todo, store, link, reply, history>>

-----------------------------------------------------------------------------

App(n) == \/ StoreOwn(n)
          \/ \E l \in Link : SendRefresh(n, l) \/ SendQuery(n, l) \/ SendBye(n, l)

Loop(l) == \/ Connect(l)
           \/ Refused(l)
           \/ HandlePeer(l)
           \/ HandleQuery(l)
           \/ \E k \in Key : HandleReply(l, k)
           \/ CloseReceived(l)
           \/ CloseRefused(l)
           \/ PeerGone(l)

Next == \/ \E n \in Node : Listen(n) \/ App(n) \/ Stop(n) \/ Leave(n)
        \/ \E l \in Link : Loop(l) \/ Broken(l) \/ Cut(l)

Spec == Init /\ [][Next]_vars

\* The operating system schedules both threads of a node that has started,
\* and TCP delivers what it holds.  Nothing obliges a node to start or leave,
\* or a connection to break.
Fairness == /\ \A n \in Node : WF_vars(App(n))
            /\ \A l \in Link : WF_vars(Loop(l))

FairSpec == Spec /\ Fairness

-----------------------------------------------------------------------------
(* Properties.                                                             *)

LinkState == {"idle", "connecting", "open", "received", "closed", "failed", "gone"}

\* The variables have their types; the wire never carries isRemoved; only the
\* own links of a node are ever to be written by its application thread.
TypeOK ==
  /\ phase \in [Node -> {"off", "listening", "up", "stopping", "left"}]
  /\ todo \in [Node -> SUBSET (Link \X {"refresh", "query", "bye"})]
  /\ \A n \in Node : \A t \in todo[n] : Src[t[1]] = n
  /\ DOMAIN store = Node
  /\ \A n \in Node : IsStore(store[n])
  /\ link \in [Link -> LinkState]
  /\ chan \in [Link -> Seq(Message)]
  /\ reply \in [Link -> SUBSET Key]
  /\ told \in [Node -> [Key -> Nat]]
  /\ via \in [Node -> [Key -> SUBSET ({"own", "in", "out"} \X Node)]]
  /\ sent \in [Link -> [Key -> Nat]]
  /\ nodeAddr \in SeenAs

\* The application is called back once for every foreign key its node knows,
\* and for no other: never for its own endpoint, which comes back to it over
\* the net, and never twice, though the same news arrives over every path
\* (pebo_net.cpp:187-204).
ToldOnce ==
  \A n \in Node : phase[n] \in {"listening", "up", "stopping"} =>
    \A k \in Key : told[n][k] = IF k \in DOMAIN store[n] \ {Own(n)} THEN 1 ELSE 0

\* A node passes a foreign key on at most once over each link, so flooding a
\* cyclic network costs one message per link and key (pebo_net.cpp:187-204,
\* TODO: "forward only once").
ForwardOnce ==
  \A l \in Link, k \in Key : k # Own(Src[l]) => sent[l][k] <= 1

\* A key that reached Src[l] over a connection whose address reads as that of
\* Dst[l], though another node is at its end.
SkippedByMistake(l, k) ==
  \E l2 \in Link : /\ Dst[l2] = Src[l] /\ Src[l2] # Dst[l] /\ nodeAddr[l2] = Dst[l]
                    /\ <<"in", Src[l2]>> \in via[Src[l]][k]

\* As long as a node's outgoing connection lives, everything the node knows is
\* known at the other end or on its way there: nothing learned before, during
\* or after the connection was set up is skipped, but what came over an
\* accepted connection whose port, printed in the wrong byte order, makes it
\* look like that peer (pebo_net.cpp:222-241, net_handler.cpp:254).
OutPeerInformed ==
  \A l \in Link :
    /\ phase[Src[l]] \in {"up", "stopping"}
    /\ phase[Dst[l]] # "left"
    /\ Writable(l)
    => \A k \in DOMAIN store[Src[l]] :
         \/ k \in DOMAIN store[Dst[l]]
         \/ \E i \in 1 .. Len(chan[l]) : chan[l][i] = PeerMsg(k, FALSE)
         \/ k = Own(Src[l]) /\ <<l, "refresh">> \in todo[Src[l]]
         \/ SkippedByMistake(l, k)

\* With a libuv that lets reading be started again, a client closes its
\* connection on the first reply only, and that is never too early for the
\* announcement: the peer that replied knows the node, because the refresh
\* precedes the query on every link (shell.cpp:108-111, net_client.cpp:407-409).
AnnouncedBeforeClosed ==
  \A l \in Link :
    ReadRestarts[Src[l]] /\ link[l] \in {"received", "closed"} /\ phase[Dst[l]] # "left"
      => Own(Src[l]) \in DOMAIN store[Dst[l]]

\* What a node learned from a reply it does not send back to the peer that
\* replied (pebo_net.cpp:233-238, "skip where it came from").
ReplyNotSentBack ==
  \A l \in Link, k \in Key :
    <<"out", Dst[l]>> \in via[Src[l]][k] => sent[l][k] = 0

Client(l) == INSTANCE ClientLink WITH ReadRestarts <- ReadRestarts[Src[l]],
                                     link <- link[l], chan <- Len(chan[l])

\* Whatever the nodes and the network do, every outgoing client stays within
\* ClientLink.tla: messages are taken from the start of the connection on, only
\* a reply makes it close, a lost socket never serves again.  NetClient.tla
\* stays within it as well; that this module lets a client do all that the one
\* of NetClient.tla does is not claimed (net_client.cpp:41-75, 334-417).
ClientLinks ==
  /\ \A l \in Link : Client(l)!Init
  /\ [][\A l \in Link : Client(l)!Next \/ UNCHANGED Client(l)!vars]_vars

\* Flooding comes to rest, in a network with cycles too, and with it the
\* loops of all nodes (pebo_net.cpp:187-194).
ComesToRest == <>[](/\ \A l \in Link : Running(Dst[l]) => chan[l] = <<>> \/ link[l] = "connecting"
                    /\ \A l \in Link : link[l] # "received")

\* While a node that is up waits for a reply there is one to come: its query is
\* to be sent, or on the way, or answered by one key at least, since whoever
\* gets the query knows by then the node that asks (shell.cpp:108-111,
\* pebo_net.cpp:243-260).
ReplyComes ==
  \A l \in Link :
    phase[Src[l]] = "up" /\ phase[Dst[l]] # "left" /\ link[l] \in {"connecting", "open"}
    => \/ <<l, "query">> \in todo[Src[l]]
       \/ \E i \in 1 .. Len(chan[l]) : chan[l][i] = QueryMsg(Svc[Src[l]])
       \/ reply[l] # {}

\* A node that has started is known to every peer it opened a connection to,
\* unless that peer is gone or the connection failed (shell.cpp:93-114).
Announced ==
  \A l \in Link :
    phase[Src[l]] = "up" ~>
      \/ Own(Src[l]) \in DOMAIN store[Dst[l]]
      \/ phase[Src[l]] = "left" \/ phase[Dst[l]] = "left"
      \/ link[l] = "failed"

\* Every connection of a node that is started ends: its query is always
\* answered, at least with the announcement that preceded it, and the answer
\* closes it (net_client.cpp:407-409, pebo_net.cpp:243-260).  Only a good bye
\* written to a Received client can keep it open.
EveryLinkEnds ==
  \A l \in Link : phase[Src[l]] = "up" ~> \/ link[l] \in {"closed", "failed", "gone"}
                                          \/ phase[Src[l]] = "stopping"

-----------------------------------------------------------------------------
(* Two promises of the comments, which the code does not keep.             *)

\* ipebo_net.hpp:37: the results of a query come, if not at once: none is
\* thrown away by a node that is up with the connection intact.
QueryResultsCome ==
  [][\A l \in Link : CloseReceived(l) => reply[l] \subseteq DOMAIN store[Src[l]]]_vars

\* shell.cpp:118: a node that says good bye and stops is marked removed by the
\* peers that got all it sent.
ByeRemoves ==
  \A l \in Link :
    /\ phase[Src[l]] = "stopping" /\ todo[Src[l]] = {}
    /\ link[l] = "open" /\ chan[l] = <<>> /\ Running(Dst[l])
    /\ Own(Src[l]) \in DOMAIN store[Dst[l]]
    => store[Dst[l]][Own(Src[l])].isRemoved
=============================================================================
