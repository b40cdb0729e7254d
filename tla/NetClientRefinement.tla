------------------------ MODULE NetClientRefinement ------------------------
(***************************************************************************)
(* NetClient.tla implements ClientLink.tla: an outgoing client behaves as  *)
(* the link that the model of the network takes it for.                    *)
(***************************************************************************)
EXTENDS NetClientProofs

\* Of what the client is between two chunks, ClientInv says too little: a
\* connection that is open and not inside a handler is Sending or Receiving;
\* and nothing is written before it is open.
RestInv ==
  /\ Alive /\ c.handle = "open" /\ loop = "idle" => c.state \in {"Sending", "Receiving"}
  /\ c.handle \in {"none", "connecting"} => wire = 0

LinkInv == ClientInv /\ RestInv

LinkStep == Link!Next \/ UNCHANGED Link!vars

(* What close and doRead make of an open client. *)
LEMMA OpenClose ==
  ASSUME NEW d, d \in ClientType, d.stream = "set", d.handle = "open"
  PROVE  /\ Close(d).stream = "null" /\ Close(d).handle = "closing"
         /\ Close(d).fault = d.fault /\ Close(d).queued = d.queued
  BY DEF ClientType, Close, UvClose, UvIsClosing

LEMMA OpenDoRead ==
  ASSUME NEW d, d \in ClientType, d.stream = "set", d.handle = "open", d.fault = "none",
         d.state \in {"Connected", "Sending", "Receiving"}
  PROVE  /\ DoRead(d).fault = "none" /\ DoRead(d).queued = d.queued
         /\ \/ /\ DoRead(d).handle = "open" /\ DoRead(d).stream = "set"
               /\ DoRead(d).state = "Receiving"
            \/ /\ DoRead(d).handle = "closing" /\ DoRead(d).stream = "null"
               /\ ~ReadRestarts /\ d.reading
  BY DEF ClientType, DoRead, Close, UvClose, UvIsClosing, UvReadStarts

(* A good client that is open, idle and processed goes on, or closes for a
   libuv that refuses to read.                                             *)
LEMMA OpenProcess ==
  ASSUME Kind = "out", NEW d, d \in ClientType, d.stream = "set", d.handle = "open",
         d.fault = "none", d.state \in {"Connected", "Sending", "Receiving"}
  PROVE  /\ Process(d).fault = "none" /\ Process(d).queued = d.queued
         /\ \/ /\ Process(d).handle = "open" /\ Process(d).stream = "set"
               /\ Process(d).state = "Receiving"
            \/ /\ Process(d).handle = "closing" /\ Process(d).stream = "null"
               /\ ~ReadRestarts /\ d.reading
  <1>1. Process(d) = DoRead(d)
    BY DEF Process
  <1> QED  BY <1>1, OpenDoRead

(* A step that reads on in the loop: the link stays open or is closed. *)
LEMMA GoOn ==
  ASSUME ClientInv, Alive, c.handle = "open",
         loop = "dispatching" => c.state = "Sending",
         wire' = wire, loop' = "idle", c'.fault = "none", c'.queued = c.queued,
         \/ c'.handle = "open" /\ c'.stream = "set" /\ c'.state = "Receiving"
         \/ c'.handle = "closing" /\ c'.stream = "null" /\ ~ReadRestarts
  PROVE  LinkStep /\ RestInv'
  <1>1. c.stream = "set" /\ c.fault = "none" /\ c.queued \in Nat /\ wire \in Nat
    BY DEF ClientInv, Good, ClientType, Alive
  <1>2. CASE c'.handle = "open" /\ c'.stream = "set" /\ c'.state = "Receiving"
    BY <1>1, <1>2 DEF LinkStep, Link!vars, RestInv, Alive
  <1>3. CASE c'.handle = "closing" /\ c'.stream = "null" /\ ~ReadRestarts
    <2>1. Link!Close
      BY <1>1, <1>3 DEF Link!Close, Alive
    <2> QED  BY <1>3, <2>1 DEF LinkStep, Link!Next, RestInv
  <1> QED  BY <1>2, <1>3

(* A stream that the client has given up is not found again at the end of its
   handle.                                                                 *)
LEMMA ProcessLoses ==
  ASSUME NEW d \in ClientType, d.stream = "null"
  PROVE  Process(d) \in ClientType /\ Process(d).stream = "null"
  BY KindAssumption DEF Process, DoRead, Close, Dies, ClientType, State, Fault

LEMMA OnWriteLoses ==
  ASSUME NEW d \in ClientType, d.stream = "null", NEW ok \in BOOLEAN
  PROVE  OnWrite(d, ok) \in ClientType /\ OnWrite(d, ok).stream = "null"
  BY ProcessLoses DEF OnWrite, Dies, ClientType, Fault

LEMMA DestroyedLoses ==
  ASSUME NEW d \in ClientType, d.stream = "null", NEW x \in Destroyed(d)
  PROVE  x.stream = "null"
  <1> DEFINE e == IF d.done > 0 THEN OnWrite(d, TRUE) ELSE d
             f == IF e.fault = "none" /\ e.queued > 0 THEN OnWrite(e, FALSE) ELSE e
             g == [f EXCEPT !.handle = "closed", !.queued = 0, !.done = 0,
                            !.deleted = @ \/ f.closeCb, !.state = IF f.closeCb THEN "Closed" ELSE @]
  <1>1. x \in {f, g, Dies(e, "deletedHandle")}
    BY DEF Destroyed
  <1>2. e \in ClientType /\ e.stream = "null"
    BY OnWriteLoses
  <1> HIDE DEF e
  <1>3. f \in ClientType /\ f.stream = "null"
    BY <1>2, OnWriteLoses
  <1> HIDE DEF f
  <1>4. g.stream = "null"
    BY <1>3 DEF ClientType
  <1>5. Dies(e, "deletedHandle").stream = "null"
    BY <1>2 DEF Dies, ClientType
  <1> QED  BY <1>1, <1>3, <1>4, <1>5

(* sendMessage past its assignment to the state, on whatever thread: x differs
   from the client at most in that the state is Sending.                   *)
LEMMA PutStep ==
  ASSUME LinkInv, Alive, wire' = wire, loop' = loop,
         NEW x, x = c \/ x = [c EXCEPT !.state = "Sending"], Marked(x), c' = Put(x)
  PROVE  LinkStep /\ RestInv'
  <1>0. c \in ClientType /\ wire \in Nat /\ c.queued \in Nat /\ c.fault = "none"
    BY DEF LinkInv, ClientInv, Good, ClientType, Alive
  <1>1. /\ x \in ClientType /\ x.stream = c.stream /\ x.handle = c.handle
        /\ x.queued = c.queued /\ x.fault = "none" /\ x.state \in {c.state, "Sending"}
    BY <1>0 DEF ClientType, State
  <1>2. CASE c.stream # "set"
    <2>1. /\ c'.fault = "badStream" /\ c'.handle = c.handle /\ c'.queued = c.queued
      BY <1>1, <1>2 DEF Put, Dies, ClientType
    <2>2. Link!Go
      BY <1>0, <2>1 DEF Link!Go, Alive
    <2> QED  BY <2>1, <2>2 DEF LinkStep, Link!Next, LinkInv, RestInv, Alive
  <1>3. CASE c.stream = "set" /\ c.handle \in {"connecting", "open", "broken"}
    <2>1. /\ c'.fault = "none" /\ c'.handle = c.handle /\ c'.queued = c.queued + 1
          /\ c'.stream = "set" /\ c'.state \in {c.state, "Sending"}
      BY <1>1, <1>3 DEF Put, ClientType
    <2>2. RestInv'
      BY <2>1 DEF LinkInv, RestInv, Alive
    <2>3. CASE c.handle = "broken"
      BY <1>0, <1>3, <2>1, <2>2, <2>3 DEF LinkStep, Link!vars, Alive
    <2>4. CASE c.handle # "broken"
      <3>1. Link!Send
        BY <1>0, <1>3, <2>1, <2>4 DEF Link!Send, Alive
      <3> QED  BY <2>2, <3>1 DEF LinkStep, Link!Next
    <2> QED  BY <2>2, <2>3, <2>4
  <1>4. CASE c.stream = "set" /\ c.handle \notin {"connecting", "open", "broken"}
    <2>0. c.handle \in {"noSocket", "closing", "closed"}
      BY <1>0, <1>4 DEF LinkInv, ClientInv, Good, ClientType, Handle
    <2>1. c' = Close(x)
      BY <1>1, <1>4 DEF Put
    <2>2. /\ c'.fault = "none" /\ c'.stream = "null"
          /\ c'.handle \in {"noSocket", "closing", "closed"}
      BY <1>1, <1>4, <2>0, <2>1 DEF Close, UvClose, UvIsClosing, ClientType
    <2>3. Link!FindOut
      BY <1>0, <1>4, <2>0, <2>2 DEF Link!FindOut, Alive
    <2> QED  BY <2>2, <2>3 DEF LinkStep, Link!Next, RestInv
  <1> QED  BY <1>2, <1>3, <1>4

(* sendMessage of the loop past its test. *)
LEMMA WriteStep ==
  ASSUME LinkInv, Alive, c' = Write(c), wire' = wire, loop' = loop
  PROVE  LinkStep /\ RestInv'
  <1> DEFINE e == [c EXCEPT !.state = "Sending"]
  <1>1. Marked(e)
    BY MarkGood DEF LinkInv, ClientInv, Alive
  <1>2. c' = Put(e)
    BY DEF Write
  <1> QED  BY <1>1, <1>2, PutStep

(* The assignment of the application thread: a link that has received a reply
   is not closed for it, any other is as before.                           *)
LEMMA MarkStep ==
  ASSUME LinkInv, AppMark
  PROVE  LinkStep /\ RestInv'
  <1>0. c \in ClientType /\ wire \in Nat /\ c.queued \in Nat /\ c.fault = "none"
    BY DEF AppMark, LinkInv, ClientInv, Good, ClientType, Alive
  <1>1. /\ c'.state = "Sending" /\ c'.stream = c.stream /\ c'.handle = c.handle
        /\ c'.queued = c.queued /\ c'.fault = "none" /\ wire' = wire /\ loop' = loop
    BY <1>0 DEF AppMark, ClientType
  <1>2. RestInv'
    BY <1>1 DEF LinkInv, RestInv
  <1>3. CASE c.handle = "open" /\ c.stream # "null" /\ loop = "dispatching" /\ c.state = "Received"
    <2>1. Link!Reopen
      BY <1>0, <1>1, <1>3 DEF Link!Reopen, Alive
    <2> QED  BY <1>2, <2>1 DEF LinkStep, Link!Next
  <1>4. CASE ~(c.handle = "open" /\ c.stream # "null" /\ loop = "dispatching" /\ c.state = "Received")
    BY <1>0, <1>1, <1>2, <1>4 DEF LinkStep, Link!vars, Alive
  <1> QED  BY <1>3, <1>4

-----------------------------------------------------------------------------

(* connect starts the link, or the client refuses and stays without one. *)
LEMMA ConnectLink == LinkInv /\ Connect => LinkStep /\ RestInv'
  <1> SUFFICES ASSUME LinkInv, Connect PROVE LinkStep /\ RestInv'
    OBVIOUS
  <1>0. /\ c \in ClientType /\ c.handle = "none" /\ c.queued = 0 /\ c.fault = "none"
        /\ wire = 0 /\ wire' = wire /\ loop' = loop
    BY DEF Connect, LinkInv, ClientInv, RestInv, Good
  <1>1. CASE c' = c
    BY <1>0, <1>1 DEF LinkStep, Link!vars, LinkInv, RestInv, Alive
  <1>2. CASE c' # c
    <2>1. PICK h \in {"noSocket", "broken", "connecting"} :
            c' = [c EXCEPT !.state = "Connecting", !.stream = "set", !.handle = h]
      BY <1>2 DEF Connect
    <2>2. /\ c'.handle = h /\ c'.stream = "set" /\ c'.queued = 0 /\ c'.fault = "none"
      BY <1>0, <2>1 DEF ClientType
    <2>3. Link!Start
      BY <1>0, <2>2 DEF Link!Start, Alive
    <2> QED  BY <1>0, <2>2, <2>3 DEF LinkStep, Link!Next, RestInv
  <1> QED  BY <1>1, <1>2

(* sendMessage of either thread. *)
LEMMA SendLink ==
  ASSUME Kind = "out", LinkInv, AppTest \/ AppMark \/ AppWrite \/ LoopSend
  PROVE  LinkStep /\ RestInv'
  <1>1. CASE AppTest
    BY <1>1 DEF AppTest, LinkStep, Link!vars, LinkInv, RestInv, Alive
  <1>2. CASE AppWrite
    BY <1>2, PutStep DEF AppWrite, LinkInv, ClientInv
  <1>3. CASE LoopSend /\ c' = c
    BY <1>3 DEF LoopSend, LinkStep, Link!vars, LinkInv, RestInv, Alive
  <1>4. CASE LoopSend /\ c' # c
    <2>1. c' = Write(c)
      BY <1>4 DEF LoopSend, SendMessage
    <2> QED  BY <1>4, <2>1, WriteStep DEF LoopSend
  <1>5. CASE AppMark
    BY <1>5, MarkStep
  <1> QED  BY <1>1, <1>2, <1>3, <1>4, <1>5

(* The connection is set up or fails. *)
LEMMA ConnectsLink ==
  ASSUME Kind = "out", LinkInv, Connects
  PROVE  LinkStep /\ RestInv'
  <1>0. /\ c \in ClientType /\ c.handle = "connecting" /\ c.stream = "set" /\ c.fault = "none"
        /\ c.queued \in Nat /\ wire \in Nat /\ ~c.reading
        /\ loop = "idle" /\ wire' = wire /\ loop' = loop
    BY DEF Connects, OnConnect, OnConnectError, Handler, Alive, LinkInv, ClientInv, Good, ClientType
  <1>1. CASE OnConnect
    <2> DEFINE d == [c EXCEPT !.handle = "open", !.state = "Connected"]
    <2>1. /\ d \in ClientType /\ d.stream = "set" /\ d.handle = "open" /\ d.fault = "none"
          /\ d.state = "Connected" /\ ~d.reading /\ d.queued = c.queued
      BY <1>0 DEF ClientType, State, Handle
    <2>2. c' = Process(d)
      BY <1>1 DEF OnConnect
    <2> HIDE DEF d
    <2>3. /\ c'.fault = "none" /\ c'.queued = c.queued /\ c'.handle = "open"
          /\ c'.stream = "set" /\ c'.state = "Receiving"
      BY <2>1, <2>2, OpenProcess
    <2>4. Link!Connected
      BY <1>0, <2>3 DEF Link!Connected, Alive
    <2> QED  BY <2>3, <2>4 DEF LinkStep, Link!Next, RestInv
  <1>2. CASE OnConnectError
    <2>1. /\ c'.handle = "closing" /\ c'.stream = "set" /\ c'.fault = "none"
      BY <1>0, <1>2 DEF OnConnectError, UvClose, ClientType
    <2>2. Link!Fail
      BY <1>0, <2>1 DEF Link!Fail, Alive
    <2> QED  BY <2>1, <2>2 DEF LinkStep, Link!Next, RestInv
  <1> QED  BY <1>1, <1>2 DEF Connects

(* What onRead makes of a line, of the end of a chunk and of the end of the
   stream (net_client.cpp:239-273).                                        *)
LEMMA ReadsLink ==
  ASSUME Kind = "out", LinkInv, Reads
  PROVE  LinkStep /\ RestInv'
  <1>0. /\ c \in ClientType /\ c.handle = "open" /\ c.stream = "set" /\ c.fault = "none"
        /\ c.queued \in Nat /\ wire \in Nat /\ wire' = wire
    BY DEF Reads, ReadLine, EndChunk, ReadPart, ReadEnd, Readable, Handler, Alive,
           LinkInv, ClientInv, Good, ClientType
  <1>1. CASE ReadLine
    <2>1. /\ c'.handle = "open" /\ c'.stream = "set" /\ c'.fault = "none"
          /\ c'.state = "Received" /\ c'.queued = c.queued /\ loop' = "dispatching"
      BY <1>0, <1>1 DEF ReadLine, ClientType
    <2>2. Link!Reply
      BY <1>0, <2>1 DEF Link!Reply, Alive
    <2> QED  BY <2>1, <2>2 DEF LinkStep, Link!Next, RestInv
  <1>2. CASE EndChunk /\ c.state = "Received"
    <2>1. c' = Close(c) /\ loop = "dispatching"
      BY <1>2 DEF EndChunk, Process
    <2>2. c'.handle = "closing" /\ c'.stream = "null" /\ c'.fault = "none"
      BY <1>0, <2>1, OpenClose
    <2>3. Link!Close
      BY <1>0, <1>2, <2>1, <2>2 DEF Link!Close, Alive
    <2> QED  BY <2>2, <2>3 DEF LinkStep, Link!Next, RestInv
  <1>3. CASE (EndChunk /\ c.state # "Received") \/ ReadPart
    <2>1. /\ c' = Process(c) /\ loop' = "idle" /\ c.state \in {"Sending", "Receiving"}
          /\ loop = "dispatching" => c.state = "Sending"
      BY <1>0, <1>3 DEF EndChunk, ReadPart, Handler, Alive, LinkInv, ClientInv, RestInv
    <2> QED  BY <1>0, <2>1, OpenProcess, GoOn DEF LinkInv, Alive
  <1>4. CASE ReadEnd
    <2>1. /\ c'.handle = "closing" /\ c'.stream = "set" /\ c'.fault = "none"
          /\ loop = "idle" /\ loop' = loop
      BY <1>0, <1>4 DEF ReadEnd, Handler, UvClose, ClientType
    <2>2. Link!Fail
      BY <1>0, <2>1 DEF Link!Fail, Alive
    <2> QED  BY <2>1, <2>2 DEF LinkStep, Link!Next, RestInv
  <1> QED  BY <1>1, <1>2, <1>3, <1>4 DEF Reads

(* Writes that are called back. *)
LEMMA WritesLink ==
  ASSUME Kind = "out", LinkInv, Writes
  PROVE  LinkStep /\ RestInv'
  <1>0. /\ c \in ClientType /\ c.handle \in {"broken", "open"} /\ c.stream = "set"
        /\ c.fault = "none" /\ c.queued \in Nat /\ c.done \in Nat /\ wire \in Nat
        /\ loop = "idle" /\ wire' = wire /\ loop' = loop
        /\ c.handle = "open" => c.state \in {"Sending", "Receiving"}
    BY DEF Writes, Written, WriteError, Handler, Alive, LinkInv, ClientInv, RestInv, Good, ClientType, Callable
  <1>1. CASE Written
    <2> DEFINE d == [c EXCEPT !.done = @ - 1]
    <2>1. /\ d \in ClientType /\ d.stream = "set" /\ d.handle = "open" /\ d.fault = "none"
          /\ d.state = c.state /\ d.queued = c.queued /\ c.handle = "open"
      BY <1>0, <1>1 DEF Written, ClientType
    <2>2. c' = OnWrite(d, TRUE)
      BY <1>1 DEF Written
    <2> HIDE DEF d
    <2>3. c' = Process(d)
      BY <1>0, <2>1, <2>2 DEF OnWrite
    <2> QED  BY <1>0, <2>1, <2>3, OpenProcess, GoOn DEF LinkInv, Alive
  <1>2. CASE WriteError
    <2> DEFINE d == [c EXCEPT !.queued = @ - 1]
    <2>0. c.queued > 0 /\ c' = OnWrite(d, FALSE)
      BY <1>2 DEF WriteError
    <2>1. /\ d.state = c.state /\ d.stream = "set" /\ d.handle = c.handle
          /\ d.fault = "none" /\ d.queued = c.queued - 1
      BY <1>0 DEF ClientType
    <2> HIDE DEF d
    <2>2. c.state \in {"Connected", "Sending", "Receiving", "Received", "Closing"}
      BY <1>0, <2>0 DEF LinkInv, ClientInv, Good, ClientType, Callable
    <2>3. c' = d
      BY <2>0, <2>1, <2>2 DEF OnWrite
    <2>4. RestInv'
      BY <1>0, <2>1, <2>3 DEF RestInv
    <2>5. CASE c.handle = "broken"
      BY <1>0, <2>1, <2>3, <2>4, <2>5 DEF LinkStep, Link!vars, Alive
    <2>6. CASE c.handle = "open"
      <3>1. /\ c'.state = c.state /\ c'.stream = "set" /\ c'.handle = "open"
            /\ c'.fault = "none" /\ c'.queued = c.queued - 1
        BY <2>1, <2>3, <2>6
      <3>2. wire' + c'.queued \in 0 .. wire + c.queued
        <4>1. ASSUME NEW q \in Nat, q > 0, NEW w \in Nat PROVE w + (q - 1) \in 0 .. w + q
          BY <4>1
        <4> QED  BY <1>0, <2>0, <3>1, <4>1
      <3>3. Link!Take
        BY <1>0, <2>6, <3>1, <3>2 DEF Link!Take, Alive
      <3> QED  BY <2>4, <3>3 DEF LinkStep, Link!Next
    <2> QED  BY <1>0, <2>5, <2>6
  <1> QED  BY <1>1, <1>2 DEF Writes

(* The end of a closing handle: the process dies, or the link stays as lost as
   it was, or the client finds that out now.                               *)
LEMMA DestroyLink ==
  ASSUME LinkInv, Destroy
  PROVE  LinkStep /\ RestInv'
  <1>0. /\ c \in ClientType /\ Good(c) /\ c.handle = "closing" /\ c.fault = "none"
        /\ wire \in Nat /\ c' \in Destroyed(c) /\ wire' = wire /\ loop' = loop
        /\ c.stream \in {"set", "null"}
    BY DEF Destroy, Handler, Alive, LinkInv, ClientInv, Good, ClientType
  <1>1. /\ Good(c') /\ c'.stream # "unset" /\ (c.stream = "null" => c'.stream = "null")
        /\ \/ c'.fault # "none" /\ c'.handle = "closing"
           \/ c'.fault = "none" /\ c'.handle = "closed"
    BY <1>0, DestroyedGood, DestroyedLoses
  <1>2. CASE c'.fault # "none"
    <2>1. Link!Go
      BY <1>0, <1>1, <1>2 DEF Link!Go, Alive
    <2> QED  BY <1>1, <1>2, <2>1 DEF LinkStep, Link!Next, RestInv
  <1>3. CASE c'.fault = "none" /\ c'.stream = c.stream
    BY <1>0, <1>1, <1>3 DEF LinkStep, Link!vars, RestInv, Alive
  <1>4. CASE c'.fault = "none" /\ c'.stream # c.stream
    <2>1. c.stream = "set" /\ c'.stream = "null" /\ c'.handle = "closed"
      BY <1>0, <1>1, <1>4 DEF Good, ClientType
    <2>2. Link!FindOut
      BY <1>0, <1>4, <2>1 DEF Link!FindOut, Alive
    <2> QED  BY <1>1, <1>4, <2>2 DEF LinkStep, Link!Next, RestInv
  <1> QED  BY <1>2, <1>3, <1>4

(* The kernel and the remote. *)
LEMMA OutsideLink ==
  LinkInv /\ (KernelWrite \/ RemoteReads \/ RemoteSends \/ RemoteEnds) => LinkStep /\ RestInv'
  <1> SUFFICES ASSUME LinkInv, KernelWrite \/ RemoteReads \/ RemoteSends \/ RemoteEnds
               PROVE  LinkStep /\ RestInv'
    OBVIOUS
  <1>0. c \in ClientType /\ wire \in Nat /\ c.queued \in Nat
    BY DEF LinkInv, ClientInv, Good, ClientType
  <1>1. CASE KernelWrite
    <2>1. /\ c.handle = "open" /\ c'.handle = "open" /\ c'.fault = c.fault
          /\ c'.stream = c.stream /\ c'.state = c.state /\ c'.queued = c.queued - 1
          /\ wire' = wire + 1 /\ loop' = loop
      BY <1>0, <1>1 DEF KernelWrite, ClientType
    <2> QED  BY <1>0, <2>1 DEF LinkStep, Link!vars, LinkInv, RestInv, Alive
  <1>2. CASE RemoteReads
    <2>1. c' = c /\ loop' = loop /\ wire > 0 /\ wire' = wire - 1
          /\ c.handle \notin {"none", "connecting"}
      BY <1>0, <1>2 DEF RemoteReads, LinkInv, RestInv
    <2>2. Link!Take
      BY <1>0, <2>1 DEF Link!Take, Alive
    <2> QED  BY <2>1, <2>2 DEF LinkStep, Link!Next, LinkInv, RestInv, Alive
  <1>3. CASE RemoteSends \/ RemoteEnds
    <2>1. c' = c /\ loop' = loop /\ wire' = wire
      BY <1>3 DEF RemoteSends, RemoteEnds
    <2> QED  BY <2>1 DEF LinkStep, Link!vars, LinkInv, RestInv, Alive
  <1> QED  BY <1>1, <1>2, <1>3

-----------------------------------------------------------------------------

(* An outgoing client behaves as the link of the network's model, with either
   behaviour of uv_read_start and any number of messages: what it accepted
   before the connection was up is kept, only a reply makes it close, and a
   send on a lost socket ends it (net_client.cpp:41-75, 239-291, 334-417). *)
THEOREM ClientImplementsLink ==
  ASSUME Kind = "out"
  PROVE  Spec => LinkSpec
  <1>1. Init => Link!Init /\ RestInv
    BY DEF Init, Link!Init, RestInv, Alive
  <1>2. LinkInv /\ [Next]_vars => LinkStep /\ RestInv'
    <2> SUFFICES ASSUME LinkInv, [Next]_vars PROVE LinkStep /\ RestInv'
      OBVIOUS
    <2>1. CASE UNCHANGED vars
      BY <2>1 DEF vars, LinkStep, Link!vars, LinkInv, RestInv, Alive
    <2>2. ~Accept
      BY DEF Accept
    <2>3. CASE Next
      BY <2>2, <2>3, ConnectLink, SendLink, ConnectsLink, ReadsLink, WritesLink,
         DestroyLink, OutsideLink DEF Next
    <2> QED  BY <2>1, <2>3
  <1>3. LinkStep => [Link!Next]_(Link!vars)
    BY DEF LinkStep
  <1>4. ClientInv /\ RestInv => LinkInv
    BY DEF LinkInv
  <1> QED  BY <1>1, <1>2, <1>3, <1>4, ClientCorrect, PTL DEF Spec, LinkSpec, Link!Spec
=============================================================================
