-------------------------- MODULE NetClientProofs --------------------------
(***************************************************************************)
(* Proofs about NetClient.tla, for clients of both kinds, both behaviours  *)
(* of uv_read_start and any number of messages.                            *)
(***************************************************************************)
EXTENDS NetClient, TLAPS

ClientType ==
  [state : State, stream : {"unset", "set", "null"}, handle : Handle,
   closeCb : BOOLEAN, deleted : BOOLEAN, reading : BOOLEAN,
   queued : Nat, done : Nat, fault : Fault]

\* The states onWrite is asserted to meet.
Callable == {"Connected", "Sending", "Receiving", "Received", "Closing"}

\* What holds of a client and its handle between two calls, inside the handler
\* of a chunk and inside sendMessage as well: while libuv has the handle open
\* the client holds it, what the client gave up is deleted or will be, and its
\* state says what it may be called back for.
Good(d) ==
  /\ d \in ClientType
  /\ d.stream = "unset" <=> d.handle = "none"
  /\ d.reading => d.handle = "open"
  /\ d.handle \notin {"none", "closing", "closed"} => d.stream = "set"
  /\ d.stream = "set" => ~d.deleted
  /\ d.closeCb => d.stream = "null"
  /\ d.fault = "none" =>
       /\ d.stream = "set" => d.state \notin {"Closing", "Closed"}
       /\ d.stream = "null" => /\ d.state \in {"Closing", "Closed", "Sending"}
                               /\ d.deleted \/ (d.handle = "closing" /\ d.closeCb)
       /\ d.handle = "open" => d.state \in Callable
       /\ d.queued # 0 \/ d.done # 0 => d.state \in Callable \/ d.deleted
  /\ d.fault # "assertRead"
  /\ d.fault = "assertWrite" => d.deleted

\* The state of a client without stream, unless sendMessage has set it.
Settled(d) ==
  d.fault = "none" /\ d.stream = "null" => d.state = IF d.deleted THEN "Closed" ELSE "Closing"

\* The state of a client with a stream, once sendMessage has set it.
Marked(d) ==
  d.fault = "none" /\ d.stream = "set"
    => d.state \in {"Connected", "Sending", "Receiving", "Received"}

\* A function of the client makes x of d: good again, and a stream that is not
\* there was used only because the state said Sending.
Leads(d, x) ==
  /\ Good(x)
  /\ Settled(d) => Settled(x)
  /\ Marked(d) => Marked(x)
  /\ x.fault = "badStream" => d.stream = "null" /\ d.state = "Sending"
  /\ x.handle \in {d.handle, "closing"}

(* close leaves a good client, whose handle is deleted or about to be
   (net_client.cpp:103-120).                                               *)
LEMMA CloseGood ==
  ASSUME NEW d, Good(d), d.stream = "set", d.fault = "none"
  PROVE  /\ Good(Close(d)) /\ Settled(Close(d))
         /\ Close(d).fault = "none" /\ Close(d).stream = "null"
         /\ Close(d).handle \in {d.handle, "closing"}
  <1>1. CASE UvIsClosing(d)
    <2>1. Close(d) = [d EXCEPT !.state = "Closed", !.stream = "null", !.deleted = TRUE]
      BY <1>1 DEF Close, Good, ClientType
    <2>2. Close(d) \in ClientType
      BY <2>1 DEF Good, ClientType, State
    <2>3. /\ Close(d).state = "Closed" /\ Close(d).stream = "null" /\ Close(d).deleted
          /\ Close(d).handle = d.handle /\ Close(d).fault = d.fault
          /\ Close(d).reading = d.reading
      BY <2>1 DEF Good, ClientType
    <2> QED  BY <1>1, <2>2, <2>3 DEF Good, Settled, UvIsClosing
  <1>2. CASE ~UvIsClosing(d)
    <2>1. Close(d) = [d EXCEPT !.state = "Closing", !.stream = "null", !.handle = "closing",
                               !.closeCb = TRUE, !.reading = FALSE]
      BY <1>2 DEF Close, UvClose, Good, ClientType
    <2>2. Close(d) \in ClientType
      BY <2>1 DEF Good, ClientType, State, Handle
    <2>3. /\ Close(d).state = "Closing" /\ Close(d).stream = "null"
          /\ Close(d).deleted = d.deleted
          /\ Close(d).handle = "closing" /\ Close(d).closeCb /\ ~Close(d).reading
          /\ Close(d).fault = d.fault
      BY <2>1 DEF Good, ClientType
    <2> QED  BY <2>2, <2>3 DEF Good, Settled, Callable
  <1> QED  BY <1>1, <1>2

(* So does doRead, whether uv_read_start succeeds or not. *)
LEMMA DoReadGood ==
  ASSUME NEW d, Good(d), d.stream = "set", d.fault = "none",
         d.state \in {"Connected", "Accepted", "Sent", "Sending", "Receiving"}
  PROVE  Leads(d, DoRead(d)) /\ DoRead(d).fault = "none"
  <1> DEFINE e == [d EXCEPT !.state = "Receiving"]
  <1>0. d \in ClientType
    BY DEF Good
  <1>1. Good(e) /\ e.stream = "set" /\ e.fault = "none" /\ e.handle = d.handle
    BY DEF Good, ClientType, State, Callable
  <1>2. CASE UvReadStarts(d)
    <2>1. DoRead(d) = [d EXCEPT !.state = "Receiving", !.reading = TRUE] /\ d.handle = "open"
      BY <1>2 DEF DoRead, UvReadStarts
    <2>2. Good(DoRead(d)) /\ DoRead(d).stream = "set" /\ DoRead(d).handle = "open"
          /\ DoRead(d).state = "Receiving" /\ DoRead(d).fault = "none"
      BY <2>1 DEF Good, ClientType, State, Callable
    <2> QED  BY <2>1, <2>2 DEF Leads, Settled, Marked
  <1>3. CASE ~UvReadStarts(d)
    <2>1. DoRead(d) = Close(e)
      BY <1>3 DEF DoRead
    <2> HIDE DEF e
    <2>2. /\ Good(DoRead(d)) /\ Settled(DoRead(d))
          /\ DoRead(d).fault = "none" /\ DoRead(d).stream = "null"
          /\ DoRead(d).handle \in {d.handle, "closing"}
      BY <1>1, <2>1, CloseGood
    <2> QED  BY <2>2 DEF Leads, Marked
  <1> QED  BY <1>2, <1>3

(* To die leaves a client as good as it was, if the reason may be. *)
LEMMA DiesGood ==
  ASSUME NEW d, Good(d),
         NEW why \in {"assertProcess", "badStream", "deletedHandle", "assertWrite"},
         why = "assertWrite" => d.deleted,
         why = "badStream" => d.stream = "null" /\ d.state = "Sending"
  PROVE  Leads(d, Dies(d, why)) /\ Dies(d, why).fault = why
  <1>1. d \in ClientType
    BY DEF Good
  <1>2. Dies(d, why) \in ClientType /\ Dies(d, why).fault = why
    BY <1>1 DEF Dies, ClientType, Fault
  <1>3. /\ Dies(d, why).stream = d.stream /\ Dies(d, why).handle = d.handle
        /\ Dies(d, why).reading = d.reading /\ Dies(d, why).deleted = d.deleted
        /\ Dies(d, why).closeCb = d.closeCb
    BY <1>1 DEF Dies, ClientType
  <1> QED  BY <1>2, <1>3 DEF Good, Leads, Settled, Marked

(* A client that is left alone. *)
LEMMA SameGood ==
  ASSUME NEW d, Good(d), d.fault = "none"
  PROVE  Leads(d, d)
  BY DEF Leads

(* process, which may also find no case for the state of a closed client, or
   no stream in one that sendMessage marks as Sending.                     *)
LEMMA ProcessGood ==
  ASSUME NEW d, Good(d), d.stream # "unset", d.fault = "none"
  PROVE  Leads(d, Process(d))
  <1>1. CASE Kind = "in"
    BY <1>1, SameGood DEF Process
  <1>2. CASE Kind = "out" /\ d.state \in {"Connected", "Sending", "Sent", "Receiving"}
    <2>1. Process(d) = DoRead(d)
      BY <1>2 DEF Process
    <2>2. CASE d.stream = "set"
      BY <1>2, <2>1, <2>2, DoReadGood
    <2>3. CASE d.stream = "null"
      <3>1. d.state = "Sending"
        BY <1>2, <2>3 DEF Good
      <3>2. Process(d) = Dies(d, "badStream")
        BY <2>1, <2>3, <3>1 DEF DoRead
      <3> QED  BY <2>3, <3>1, <3>2, DiesGood
    <2> QED  BY <2>2, <2>3 DEF Good, ClientType
  <1>3. CASE Kind = "out" /\ d.state = "Received"
    <2>1. d.stream = "set"
      BY <1>3 DEF Good, ClientType
    <2>2. Process(d) = Close(d)
      BY <1>3 DEF Process
    <2> QED  BY <2>1, <2>2, CloseGood DEF Leads, Marked
  <1>4. CASE Kind = "out" /\ d.state \notin {"Connected", "Sending", "Sent", "Receiving", "Received"}
    <2>1. Process(d) = Dies(d, "assertProcess")
      BY <1>4 DEF Process
    <2> QED  BY <2>1, DiesGood
  <1> QED  BY <1>1, <1>2, <1>3, <1>4, KindAssumption

(* onWrite meets none but the states it asserts, or one whose handle close has
   deleted.                                                                *)
LEMMA OnWriteGood ==
  ASSUME NEW d, Good(d), d.stream # "unset", d.fault = "none", NEW ok \in BOOLEAN,
         d.queued # 0 \/ d.done # 0 \/ d.handle = "open" \/ d.state \in Callable
  PROVE  Leads(d, OnWrite(d, ok))
  <1>1. CASE d.state \in Callable
    <2>1. OnWrite(d, ok) = IF ok THEN Process(d) ELSE d
      BY <1>1 DEF OnWrite, Callable
    <2> QED  BY <2>1, ProcessGood, SameGood
  <1>2. CASE d.state \notin Callable
    <2>1. OnWrite(d, ok) = Dies(d, "assertWrite")
      BY <1>2 DEF OnWrite, Callable
    <2>2. d.deleted
      BY <1>2 DEF Good
    <2> QED  BY <2>1, <2>2, DiesGood
  <1> QED  BY <1>1, <1>2

(* sendMessage past its assignment to the state: it fails to find a stream, or
   leaves a client that is good and settled (net_client.cpp:49-75).        *)
LEMMA PutGood ==
  ASSUME NEW d, Good(d), Marked(d), d.fault = "none"
  PROVE  /\ Good(Put(d)) /\ Settled(Put(d)) /\ Marked(Put(d))
         /\ Put(d).fault = "badStream" => d.stream # "set"
  <1>0. d \in ClientType /\ d.queued + 1 \in Nat
    BY DEF Good, ClientType
  <1>1. CASE d.stream # "set"
    <2>1. Put(d) = [d EXCEPT !.fault = "badStream"]
      BY <1>0, <1>1 DEF Put, Dies, ClientType
    <2>2. /\ Put(d) \in ClientType /\ Put(d).fault = "badStream"
          /\ Put(d).stream = d.stream
          /\ Put(d).handle = d.handle
          /\ Put(d).closeCb = d.closeCb
          /\ Put(d).deleted = d.deleted
          /\ Put(d).reading = d.reading
      BY <1>0, <2>1 DEF ClientType, Fault
    <2> QED  BY <1>1, <2>2 DEF Good, Settled, Marked
  <1>2. CASE d.stream = "set" /\ d.handle \in {"connecting", "open", "broken"}
    <2> DEFINE q == d.queued + 1
    <2>1. q \in Nat /\ Put(d) = [d EXCEPT !.queued = q]
      BY <1>0, <1>2 DEF Put, ClientType
    <2> HIDE DEF q
    <2>2. /\ Put(d) \in ClientType /\ Put(d).state = d.state
          /\ Put(d).stream = d.stream
          /\ Put(d).handle = d.handle
          /\ Put(d).closeCb = d.closeCb
          /\ Put(d).deleted = d.deleted
          /\ Put(d).reading = d.reading
          /\ Put(d).fault = d.fault
      BY <1>0, <2>1 DEF ClientType
    <2>3. d.state \in Callable
      BY <1>2 DEF Marked, Callable
    <2> QED  BY <1>2, <2>2, <2>3 DEF Good, Settled, Marked
  <1>3. CASE d.stream = "set" /\ d.handle \notin {"connecting", "open", "broken"}
    <2>1. Put(d) = Close(d)
      BY <1>3 DEF Put
    <2> QED  BY <1>3, <2>1, CloseGood DEF Marked
  <1> QED  BY <1>1, <1>2, <1>3

(* The assignment leaves a good client, too. *)
LEMMA MarkGood ==
  ASSUME NEW d, Good(d), d.fault = "none"
  PROVE  LET e == [d EXCEPT !.state = "Sending"]
         IN  /\ Good(e) /\ Marked(e) /\ e.fault = "none"
             /\ e.stream = d.stream /\ e.handle = d.handle
  <1> DEFINE e == [d EXCEPT !.state = "Sending"]
  <1>1. d \in ClientType
    BY DEF Good
  <1>2. /\ e \in ClientType /\ e.state = "Sending" /\ e.stream = d.stream
        /\ e.handle = d.handle /\ e.closeCb = d.closeCb /\ e.deleted = d.deleted
        /\ e.reading = d.reading /\ e.fault = d.fault
    BY <1>1 DEF ClientType, State
  <1> HIDE DEF e
  <1>3. Good(e) /\ Marked(e)
    BY <1>2 DEF Good, Marked, Callable
  <1> QED  BY <1>2, <1>3 DEF e

LEMMA WriteGood ==
  ASSUME NEW d, Good(d), d.fault = "none"
  PROVE  /\ Good(Write(d)) /\ Settled(Write(d)) /\ Marked(Write(d))
         /\ Write(d).fault = "badStream" => d.stream # "set"
  <1> DEFINE e == [d EXCEPT !.state = "Sending"]
  <1>1. Good(e) /\ Marked(e) /\ e.fault = "none" /\ e.stream = d.stream
    BY MarkGood
  <1>2. Write(d) = Put(e)
    BY DEF Write
  <1> HIDE DEF e
  <1> QED  BY <1>1, <1>2, PutGood

(* The end of a closing handle, whatever libuv makes of one that was deleted
   (net_client.cpp:77-101, 122-155).                                       *)
LEMMA DestroyedGood ==
  ASSUME NEW d, Good(d), d.fault = "none", d.handle = "closing", NEW x \in Destroyed(d)
  PROVE  /\ Good(x)
         /\ Settled(d) => Settled(x)
         /\ Marked(d) => Marked(x)
         /\ x.fault = "badStream" => d.stream = "null" /\ d.state = "Sending"
         /\ \/ x.fault # "none" /\ x.handle = "closing"
            \/ x.fault = "none" /\ x.handle = "closed"
         /\ x.stream # "unset"
  <1> DEFINE e == IF d.done > 0 THEN OnWrite(d, TRUE) ELSE d
             f == IF e.fault = "none" /\ e.queued > 0 THEN OnWrite(e, FALSE) ELSE e
             g == [f EXCEPT !.handle = "closed", !.queued = 0, !.done = 0,
                            !.deleted = @ \/ f.closeCb, !.state = IF f.closeCb THEN "Closed" ELSE @]
  <1>0. \/ x = IF f.fault # "none" THEN f ELSE g
        \/ x = Dies(e, "deletedHandle")
    BY DEF Destroyed
  <1>1. d.stream # "unset"
    BY DEF Good
  <1>2. Leads(d, e)
    <2>1. CASE d.done > 0
      <3>1. d.done # 0
        BY <2>1 DEF Good, ClientType
      <3> QED  BY <1>1, <2>1, <3>1, OnWriteGood
    <2>2. CASE ~(d.done > 0)
      BY <2>2, SameGood
    <2> QED  BY <2>1, <2>2
  <1>3. Good(e) /\ e.handle = "closing" /\ e.stream # "unset"
    BY <1>2 DEF Leads, Good
  <1> HIDE DEF e
  <1>4. f = e \/ (f = Dies(e, "assertWrite") /\ e.deleted /\ e.fault = "none")
    <2>1. CASE e.fault = "none" /\ e.queued > 0
      <3>1. e.queued # 0
        BY <1>3, <2>1 DEF Good, ClientType
      <3>2. e.state \in Callable \/ e.deleted
        BY <1>3, <2>1, <3>1 DEF Good
      <3> QED  BY <2>1, <3>2 DEF OnWrite, Callable
    <2> QED  BY <2>1
  <1>5. CASE x = Dies(e, "deletedHandle") \/ (x = f /\ f # e)
    <2>1. PICK why \in {"deletedHandle", "assertWrite"} :
            x = Dies(e, why) /\ (why = "assertWrite" => e.deleted)
      BY <1>4, <1>5
    <2>2. Leads(e, x) /\ x.fault = why
      BY <1>3, <2>1, DiesGood
    <2> QED  BY <1>2, <1>3, <2>2 DEF Leads, Good, Settled, Marked
  <1>6. CASE x = f /\ f = e /\ f.fault # "none"
    BY <1>2, <1>3, <1>6 DEF Leads
  <1>7. CASE x = g /\ f = e /\ f.fault = "none"
    <2>1. e \in ClientType
      BY <1>3 DEF Good
    <2> DEFINE s == IF e.closeCb THEN "Closed" ELSE e.state
               k == e.deleted \/ e.closeCb
    <2>2. s \in State /\ k \in BOOLEAN
      BY <2>1 DEF ClientType, State
    <2>3. x = [e EXCEPT !.handle = "closed", !.queued = 0, !.done = 0,
                        !.deleted = k, !.state = s]
      BY <1>7, <2>1 DEF ClientType
    <2>4. (s = IF e.closeCb THEN "Closed" ELSE e.state) /\ (k <=> e.deleted \/ e.closeCb)
      OBVIOUS
    <2> HIDE DEF s, k
    <2>5. x = [state |-> s, stream |-> e.stream, handle |-> "closed",
               closeCb |-> e.closeCb, deleted |-> k, reading |-> e.reading,
               queued |-> 0, done |-> 0, fault |-> e.fault]
      BY <2>1, <2>3 DEF ClientType
    <2>6. x \in ClientType
      BY <2>1, <2>2, <2>5 DEF ClientType, Handle
    <2>7. /\ x.handle = "closed" /\ x.fault = e.fault
          /\ x.stream = e.stream /\ x.reading = e.reading
          /\ x.queued = 0 /\ x.done = 0
          /\ x.closeCb = e.closeCb /\ x.deleted = k
          /\ x.state = s
      BY <2>5
    <2>8. e.fault = "none"
      BY <1>7
    <2>9. Good(x)
      BY <1>3, <2>4, <2>6, <2>7, <2>8 DEF Good
    <2>10. (Settled(e) => Settled(x)) /\ (Marked(e) => Marked(x))
      BY <1>3, <2>4, <2>7, <2>8 DEF Settled, Marked, Good
    <2> QED  BY <1>2, <1>3, <2>7, <2>8, <2>9, <2>10 DEF Leads
  <1>8. f # e => f.fault # "none"
    <2>1. ASSUME f = Dies(e, "assertWrite") PROVE f.fault = "assertWrite"
      BY <1>3, <2>1 DEF Dies, Good, ClientType
    <2> QED  BY <1>4, <2>1
  <1> HIDE DEF f, g
  <1>9. \/ x = Dies(e, "deletedHandle") \/ (x = f /\ f # e)
        \/ x = f /\ f = e /\ f.fault # "none"
        \/ x = g /\ f = e /\ f.fault = "none"
    BY <1>0, <1>8
  <1> QED  BY <1>5, <1>6, <1>7, <1>9
-----------------------------------------------------------------------------

\* The inductive invariant: the client is good, and settled but between the
\* assignment and the write of sendMessage; a chunk is handled only while the
\* handle is open, and before connect nothing has happened.
ClientInv ==
  /\ Good(c)
  /\ app # "sending" => Settled(c)
  /\ app = "sending" => Marked(c)
  /\ Alive /\ loop = "dispatching" => c.handle = "open" /\ c.state \in {"Received", "Sending"}
  /\ app = "connect" => /\ c.handle = "none" /\ c.queued = 0 /\ c.done = 0
                        /\ ~c.deleted /\ c.fault = "none" /\ loop = "idle"
  /\ wire \in Nat
  /\ inbox \in Seq({"line", "part"})
  /\ remote \in {"there", "ended"}
  /\ app \in {"connect", "idle", "tested", "sending"}
  /\ loop \in {"idle", "dispatching"}
  /\ sends \in 0 .. MaxSends /\ chunks \in 0 .. MaxChunks

(* connect, or the handover of an accepted socket (net_client.cpp:304-309,
   348-379).                                                               *)
LEMMA ConnectStep == ClientInv /\ (Connect \/ Accept) => ClientInv'
  <1> SUFFICES ASSUME ClientInv, Connect \/ Accept PROVE ClientInv'
    OBVIOUS
  <1>1. CASE Connect
    <2>1. loop = "idle" /\ loop' = "idle" /\ app' = "idle"
      BY <1>1 DEF Connect, ClientInv
    <2>2. Good(c) /\ c.handle = "none" /\ c.queued = 0 /\ c.done = 0 /\ ~c.deleted /\ c.fault = "none"
      BY <1>1 DEF Connect, ClientInv
    <2>3. c \in ClientType /\ ~c.closeCb
      BY <2>2 DEF Good, ClientType
    <2>4. \/ c' = c
          \/ \E h \in {"noSocket", "broken", "connecting"} :
               c' = [c EXCEPT !.state = "Connecting", !.stream = "set", !.handle = h]
      BY <1>1 DEF Connect
    <2>5. ASSUME NEW h \in {"noSocket", "broken", "connecting"},
                 c' = [c EXCEPT !.state = "Connecting", !.stream = "set", !.handle = h]
          PROVE  Good(c')
      <3>1. c' \in ClientType
        BY <2>3, <2>5 DEF ClientType, State, Handle
      <3> QED  BY <2>2, <2>3, <2>5, <3>1 DEF Good, ClientType
    <2>6. Good(c') /\ Settled(c')
      <3>1. Good(c')
        BY <2>2, <2>4, <2>5
      <3>2. Settled(c) /\ app = "connect"
        BY <1>1 DEF Connect, ClientInv
      <3>3. c' = c \/ c'.stream = "set"
        BY <2>3, <2>4 DEF ClientType
      <3> QED  BY <3>1, <3>2, <3>3 DEF Settled
    <2> QED  BY <1>1, <2>1, <2>6 DEF Connect, ClientInv
  <1>2. CASE Accept
    <2> DEFINE d == [c EXCEPT !.state = "Accepted", !.stream = "set", !.handle = "open"]
    <2>1. c' = [c EXCEPT !.state = "Receiving", !.stream = "set", !.handle = "open", !.reading = TRUE]
      BY <1>2 DEF Accept, DoRead, UvReadStarts, ClientInv, Good, ClientType
    <2>2. Good(c') /\ Settled(c')
      <3>1. c \in ClientType /\ Good(c) /\ c.handle = "none" /\ ~c.deleted /\ c.fault = "none"
        BY <1>2 DEF Accept, ClientInv, Good
      <3>2. ~c.closeCb
        BY <3>1 DEF Good, ClientType
      <3>3. c' \in ClientType /\ c'.stream = "set" /\ c'.state = "Receiving"
            /\ c'.handle = "open" /\ c'.deleted = c.deleted /\ c'.closeCb = c.closeCb
            /\ c'.fault = c.fault
        BY <2>1, <3>1 DEF ClientType, State, Handle
      <3> QED  BY <3>1, <3>2, <3>3 DEF Good, Settled, Callable
    <2>3. loop = "idle" /\ loop' = "idle" /\ app' = "idle"
      BY <1>2 DEF Accept, ClientInv
    <2> QED  BY <1>2, <2>2, <2>3 DEF Accept, ClientInv
  <1> QED  BY <1>1, <1>2

(* A step made by a function of the client that leads from d, which differs
   from c at most in the handle and in the counts.                         *)
LEMMA LeadsInv ==
  ASSUME ClientInv, NEW d, Leads(d, c'), app' = app,
         Settled(c) => Settled(d), Marked(c) => Marked(d)
  PROVE  /\ Good(c')
         /\ app' # "sending" => Settled(c')
         /\ app' = "sending" => Marked(c')
  BY DEF ClientInv, Leads

(* sendMessage of either thread. *)
LEMMA SendStep == ClientInv /\ (AppTest \/ AppMark \/ AppWrite \/ LoopSend) => ClientInv'
  <1> SUFFICES ASSUME ClientInv, AppTest \/ AppMark \/ AppWrite \/ LoopSend PROVE ClientInv'
    OBVIOUS
  <1>0. Good(c) /\ c \in ClientType
    BY DEF ClientInv, Good
  <1>1. CASE AppTest
    BY <1>1, BoundAssumption DEF AppTest, ClientInv, Alive
  <1>2. CASE AppMark
    <2>1. Good(c') /\ Marked(c')
      BY <1>0, <1>2, MarkGood DEF AppMark, Alive
    <2>2. c'.handle = c.handle /\ c'.state = "Sending"
      BY <1>0, <1>2 DEF AppMark, ClientType
    <2> QED  BY <1>2, <2>1, <2>2 DEF AppMark, ClientInv, Alive
  <1>3. CASE AppWrite
    <2>1. Good(c') /\ Settled(c')
      BY <1>3, PutGood DEF AppWrite, ClientInv, Alive
    <2>2. loop = "dispatching" => c'.handle = "open" /\ c'.state = c.state
      BY <1>0, <1>3 DEF AppWrite, ClientInv, Alive, Good, ClientType, Put
    <2> QED  BY <1>3, <2>1, <2>2 DEF AppWrite, ClientInv, Alive
  <1>4. CASE LoopSend
    <2>1. c' = c \/ c' = Write(c)
      BY <1>4 DEF LoopSend, SendMessage
    <2>2. /\ Good(c')
          /\ app' # "sending" => Settled(c')
          /\ app' = "sending" => Marked(c')
      BY <1>4, <2>1, WriteGood DEF LoopSend, ClientInv, Alive
    <2>3. loop = "dispatching" => c'.handle = "open" /\ c'.state = "Sending"
      BY <1>0, <1>4 DEF LoopSend, ClientInv, Alive, Good, ClientType, Put, Write, SendMessage
    <2> QED  BY <1>4, <2>2, <2>3, BoundAssumption DEF LoopSend, ClientInv, Alive
  <1> QED  BY <1>1, <1>2, <1>3, <1>4

(* The handlers of the loop, each as the function it runs. *)
LEMMA OnConnectLeads ==
  ASSUME ClientInv, OnConnect
  PROVE  \E d : /\ Leads(d, c') /\ d.stream = "set"
                /\ d.handle = "open" /\ d.state = "Connected"
  <1> DEFINE d == [c EXCEPT !.handle = "open", !.state = "Connected"]
  <1>1. Good(d) /\ d.stream = "set" /\ d.fault = "none" /\ d.handle = "open"
        /\ d.state = "Connected"
    BY DEF OnConnect, Handler, Alive, ClientInv, Good, ClientType, State, Handle, Callable
  <1>2. c' = Process(d)
    BY DEF OnConnect
  <1> HIDE DEF d
  <1>3. Leads(d, c')
    BY <1>1, <1>2, ProcessGood
  <1> QED  BY <1>1, <1>3

LEMMA ReadLeads ==
  ASSUME ClientInv, EndChunk \/ ReadPart
  PROVE  Leads(c, c') /\ c.stream = "set" /\ app' = app /\ app # "connect"
  <1>1. c.handle = "open" /\ c.fault = "none" /\ c' = Process(c) /\ Good(c) /\ app' = app
        /\ app # "connect"
    BY DEF EndChunk, ReadPart, Readable, ClientInv, Alive, Handler
  <1>2. c.stream = "set"
    BY <1>1 DEF Good
  <1> QED  BY <1>1, <1>2, ProcessGood

LEMMA WriteLeads ==
  ASSUME ClientInv, Writes
  PROVE  \E d : /\ Leads(d, c') /\ d.state = c.state /\ d.stream = c.stream
                /\ d.fault = c.fault /\ d.deleted = c.deleted /\ c.stream = "set"
  <1>0. Good(c) /\ c \in ClientType /\ c.fault = "none" /\ c.handle \in {"open", "broken"}
    BY DEF Writes, Written, WriteError, Handler, Alive, ClientInv, Good
  <1>1. c.stream = "set" /\ c.stream # "unset"
    BY <1>0 DEF Good
  <1>2. CASE Written
    <2> DEFINE m == c.done - 1
               d == [c EXCEPT !.done = m]
    <2>0. c' = OnWrite(d, TRUE)
      BY <1>2 DEF Written
    <2>1. m \in Nat /\ c.done # 0
      BY <1>0, <1>2 DEF Written, ClientType
    <2> HIDE DEF m
    <2>2. /\ d \in ClientType /\ d.state = c.state /\ d.stream = c.stream
          /\ d.fault = c.fault /\ d.deleted = c.deleted /\ d.handle = c.handle
          /\ d.reading = c.reading /\ d.closeCb = c.closeCb
      BY <1>0, <2>1 DEF ClientType
    <2> HIDE DEF d
    <2>4. c.state \in Callable
      BY <1>0, <1>1, <2>1 DEF Good
    <2>5. Good(d)
      BY <1>0, <2>2, <2>4 DEF Good
    <2>6. Leads(d, c')
      BY <1>0, <1>1, <2>0, <2>2, <2>4, <2>5, OnWriteGood
    <2> QED  BY <1>1, <2>2, <2>6
  <1>3. CASE WriteError
    <2> DEFINE m == c.queued - 1
               d == [c EXCEPT !.queued = m]
    <2>0. c' = OnWrite(d, FALSE)
      BY <1>3 DEF WriteError
    <2>1. m \in Nat /\ c.queued # 0
      BY <1>0, <1>3 DEF WriteError, ClientType
    <2> HIDE DEF m
    <2>2. /\ d \in ClientType /\ d.state = c.state /\ d.stream = c.stream
          /\ d.fault = c.fault /\ d.deleted = c.deleted /\ d.handle = c.handle
          /\ d.reading = c.reading /\ d.closeCb = c.closeCb
      BY <1>0, <2>1 DEF ClientType
    <2> HIDE DEF d
    <2>4. c.state \in Callable
      BY <1>0, <1>1, <2>1 DEF Good
    <2>5. Good(d)
      BY <1>0, <2>2, <2>4 DEF Good
    <2>6. Leads(d, c')
      BY <1>0, <1>1, <2>0, <2>2, <2>4, <2>5, OnWriteGood
    <2> QED  BY <1>1, <2>2, <2>6
  <1> QED  BY <1>2, <1>3 DEF Writes

(* Every handler keeps the invariant. *)
LEMMA LoopStep == ClientInv /\ (Connects \/ Reads \/ Writes \/ Destroy) => ClientInv'
  <1> SUFFICES ASSUME ClientInv, Connects \/ Reads \/ Writes \/ Destroy PROVE ClientInv'
    OBVIOUS
  <1> DEFINE Kept == /\ Good(c')
                     /\ app' # "sending" => Settled(c')
                     /\ app' = "sending" => Marked(c')
  <1>0. Good(c) /\ c \in ClientType
    BY DEF ClientInv, Good
  <1>1. CASE OnConnect
    <2>1. PICK d : /\ Leads(d, c') /\ d.stream = "set"
                   /\ d.handle = "open" /\ d.state = "Connected"
      BY <1>1, OnConnectLeads
    <2>2. Settled(d) /\ Marked(d)
      BY <2>1 DEF Settled, Marked
    <2>3. Kept
      BY <1>1, <2>1, <2>2, LeadsInv DEF OnConnect
    <2> QED  BY <1>1, <2>3 DEF OnConnect, Handler, ClientInv
  <1>2. CASE OnConnectError \/ ReadEnd
    <2>1. /\ c.handle \in {"connecting", "open"} /\ c' = UvClose(c, FALSE) /\ app' = app
          /\ c.fault = "none"
      BY <1>2 DEF OnConnectError, ReadEnd, Readable, Handler, Alive
    <2>2. c' = [c EXCEPT !.handle = "closing", !.closeCb = FALSE, !.reading = FALSE]
      BY <2>1 DEF UvClose
    <2>3. /\ c' \in ClientType /\ c'.state = c.state /\ c'.stream = c.stream
          /\ c'.handle = "closing" /\ ~c'.closeCb /\ ~c'.reading /\ c'.deleted = c.deleted
          /\ c'.queued = c.queued /\ c'.done = c.done /\ c'.fault = c.fault
      BY <1>0, <2>2 DEF ClientType, Handle
    <2>4. c.stream = "set"
      BY <1>0, <2>1 DEF Good
    <2>5. Kept
      BY <1>0, <2>1, <2>3, <2>4 DEF ClientInv, Good, Settled, Marked
    <2> QED  BY <1>2, <2>1, <2>5 DEF OnConnectError, ReadEnd, Handler, ClientInv
  <1>3. CASE ReadLine
    <2>0. c.handle = "open" /\ app' = app /\ c' = [c EXCEPT !.state = "Received"]
          /\ c.fault = "none"
      BY <1>3 DEF ReadLine, Readable, Alive
    <2>1. /\ c' \in ClientType /\ c'.state = "Received" /\ c'.stream = c.stream
          /\ c'.handle = "open" /\ c'.closeCb = c.closeCb /\ c'.reading = c.reading
          /\ c'.deleted = c.deleted /\ c'.fault = c.fault
      BY <1>0, <2>0 DEF ClientType, State
    <2>2. c.stream = "set"
      BY <1>0, <2>0 DEF Good
    <2>3. Kept
      BY <1>0, <2>0, <2>1, <2>2 DEF Good, Settled, Marked, Callable
    <2>4. app # "connect"
      BY <2>0 DEF ClientInv
    <2> QED  BY <1>3, <2>1, <2>3, <2>4 DEF ReadLine, ClientInv
  <1>4. CASE EndChunk \/ ReadPart
    <2>1. Leads(c, c') /\ app' = app /\ app # "connect"
      BY <1>4, ReadLeads
    <2>2. Kept
      BY <2>1, LeadsInv
    <2>3. /\ loop' = "idle" /\ inbox' \in Seq({"line", "part"})
          /\ UNCHANGED <<wire, remote, sends, chunks>>
      <3>1. CASE EndChunk
        BY <3>1 DEF EndChunk, ClientInv
      <3>2. CASE ReadPart
        BY <3>2 DEF ReadPart, Handler, ClientInv
      <3> QED  BY <1>4, <3>1, <3>2
    <2> QED  BY <2>1, <2>2, <2>3 DEF ClientInv
  <1>5. CASE Writes
    <2>0. app' = app /\ app # "connect" /\ loop' = "idle" /\ loop = "idle"
          /\ UNCHANGED <<wire, inbox, remote, sends, chunks>>
      BY <1>5 DEF Writes, Written, WriteError, Handler
    <2>1. PICK d : /\ Leads(d, c') /\ d.state = c.state /\ d.stream = c.stream
                   /\ d.fault = c.fault /\ d.deleted = c.deleted
      BY <1>5, WriteLeads
    <2>2. (Settled(c) => Settled(d)) /\ (Marked(c) => Marked(d))
      BY <2>1 DEF Settled, Marked
    <2>3. Kept
      BY <2>0, <2>1, <2>2, LeadsInv
    <2> QED  BY <2>0, <2>3 DEF ClientInv
  <1>6. CASE Destroy
    <2>0. c' \in Destroyed(c) /\ c.handle = "closing" /\ c.fault = "none" /\ app' = app
          /\ app # "connect"
      BY <1>6 DEF Destroy, Handler, Alive
    <2>1. /\ Good(c')
          /\ Settled(c) => Settled(c')
          /\ Marked(c) => Marked(c')
      BY <1>0, <2>0, DestroyedGood
    <2>2. Kept
      BY <2>0, <2>1 DEF ClientInv
    <2> QED  BY <1>6, <2>0, <2>2 DEF Destroy, Handler, ClientInv
  <1> QED  BY <1>1, <1>2, <1>3, <1>4, <1>5, <1>6 DEF Connects, Reads

(* The kernel and the remote. *)
LEMMA OutsideStep ==
  ClientInv /\ (KernelWrite \/ RemoteReads \/ RemoteSends \/ RemoteEnds) => ClientInv'
  <1> SUFFICES ASSUME ClientInv, KernelWrite \/ RemoteReads \/ RemoteSends \/ RemoteEnds
               PROVE  ClientInv'
    OBVIOUS
  <1>1. CASE KernelWrite
    <2> DEFINE q == c.queued - 1
               m == c.done + 1
    <2>0. c \in ClientType /\ q \in Nat /\ m \in Nat /\ c.stream = "set" /\ app # "connect"
      BY <1>1 DEF KernelWrite, ClientInv, Good, ClientType
    <2> HIDE DEF q, m
    <2>1. c' = [c EXCEPT !.queued = q, !.done = m]
      BY <1>1, <2>0 DEF KernelWrite, q, m, ClientType
    <2>2. /\ c' \in ClientType /\ c'.handle = c.handle /\ c'.state = c.state
          /\ c'.stream = c.stream /\ c'.closeCb = c.closeCb /\ c'.deleted = c.deleted
          /\ c'.reading = c.reading /\ c'.fault = c.fault
      BY <2>0, <2>1 DEF ClientType
    <2>3. Good(c') /\ (Settled(c) => Settled(c')) /\ (Marked(c) => Marked(c'))
      BY <1>1, <2>0, <2>2 DEF KernelWrite, ClientInv, Good, Alive, Settled, Marked
    <2> QED  BY <1>1, <2>0, <2>2, <2>3 DEF KernelWrite, ClientInv, Alive
  <1>2. CASE RemoteReads
    BY <1>2 DEF RemoteReads, ClientInv, Alive
  <1>3. CASE RemoteSends
    <2>1. inbox' \in Seq({"line", "part"}) /\ app # "connect"
      BY <1>3 DEF RemoteSends, ClientInv
    <2>2. chunks' \in 0 .. MaxChunks
      BY <1>3, BoundAssumption DEF RemoteSends, ClientInv
    <2> QED  BY <1>3, <2>1, <2>2 DEF RemoteSends, ClientInv, Alive
  <1>4. CASE RemoteEnds
    <2>1. inbox' = inbox \/ inbox' = <<>>
      BY <1>4 DEF RemoteEnds
    <2>2. inbox' \in Seq({"line", "part"})
      <3>1. inbox \in Seq({"line", "part"})
        BY DEF ClientInv
      <3>2. <<>> \in Seq({"line", "part"})
        OBVIOUS
      <3> QED  BY <2>1, <3>1, <3>2, Zenon
    <2>3. remote' = "ended"
      BY <1>4 DEF RemoteEnds
    <2> QED  BY <1>4, <2>2, <2>3 DEF RemoteEnds, ClientInv, Alive
  <1> QED  BY <1>1, <1>2, <1>3, <1>4

(* ClientInv is an invariant. *)
THEOREM ClientCorrect == Spec => []ClientInv
  <1>1. Init => ClientInv
    BY BoundAssumption DEF Init, ClientInv, Good, ClientType, Handle, Fault, Alive, Settled
  <1>2. ClientInv /\ [Next]_vars => ClientInv'
    <2> SUFFICES ASSUME ClientInv, [Next]_vars PROVE ClientInv'
      OBVIOUS
    <2>1. CASE UNCHANGED vars
      BY <2>1 DEF vars, ClientInv, Alive
    <2>2. CASE Next
      BY <2>2, ConnectStep, SendStep, LoopStep, OutsideStep DEF Next
    <2> QED  BY <2>1, <2>2
  <1> QED  BY <1>1, <1>2, PTL DEF Spec

(* Type correctness of a client and its handle. *)
THEOREM TypeCorrect == Spec => []TypeOK
  <1>1. ClientInv => TypeOK
    BY DEF ClientInv, Good, ClientType, TypeOK
  <1> QED  BY <1>1, ClientCorrect, PTL

(* A client without stream is Closing or Closed and no other is, in whatever
   order the two threads and libuv's callbacks come, but for a sendMessage that
   a close overtook behind its test: so the test at its start protects the
   write of any other (net_client.cpp:41-60, 103-109).                     *)
THEOREM StateCorrect == Spec => []StateMatchesStream
  <1>1. ClientInv => StateMatchesStream
    BY DEF ClientInv, Good, ClientType, StateMatchesStream, Alive, Settled
  <1> QED  BY <1>1, ClientCorrect, PTL

(* The stream a client holds was not deleted (net_client.cpp:89-120). *)
THEOREM StreamCorrect == Spec => []NoDanglingStream
  <1>1. ClientInv => NoDanglingStream
    BY DEF ClientInv, Good, ClientType, NoDanglingStream
  <1> QED  BY <1>1, ClientCorrect, PTL

(* The assertion of doRead never fails, and that of onWrite only when close has
   deleted a handle that libuv was still closing, whatever libuv then makes of
   it (net_client.cpp:109-115, 147, 279).                                  *)
THEOREM AssertionsCorrect == Spec => []AssertionsUnlessDeleted
  <1>1. ClientInv => AssertionsUnlessDeleted
    BY DEF ClientInv, Good, AssertionsUnlessDeleted
  <1> QED  BY <1>1, ClientCorrect, PTL

(* Once the client did connect, a stream that is not there is used only between
   the assignment and the end of a sendMessage of the application thread that
   a close overtook, by that call or by a handler that finds the state Sending
   (net_client.cpp:44-60).                                                 *)
THEOREM MissingStreamCorrect == Spec => MissingStreamOnlyOvertaken
  <1>1. ClientInv /\ [Next]_vars
          => (c.fault = "none" /\ c'.fault = "badStream"
                => c.stream = "unset" \/ (c.stream = "null" /\ app = "sending"))
    <2> SUFFICES ASSUME ClientInv, [Next]_vars, c.fault = "none", c.stream # "unset",
                        c'.fault = "badStream"
                 PROVE  c.stream = "null" /\ app = "sending"
      OBVIOUS
    <2>0. Good(c) /\ c \in ClientType /\ c.stream \in {"set", "null"}
      BY DEF ClientInv, Good, ClientType
    <2>1. CASE c.stream = "null" /\ c.state = "Sending"
      BY <2>1 DEF ClientInv, Settled
    <2>2. ~Connect /\ ~Accept
      BY DEF Connect, Accept, ClientInv, Good
    <2>3. CASE AppWrite
      <3>1. c' = Put(c) /\ app = "sending" /\ Marked(c)
        BY <2>3 DEF AppWrite, ClientInv
      <3>2. c.stream # "set"
        BY <2>0, <3>1, PutGood
      <3> QED  BY <2>0, <3>1, <3>2
    <2>4. CASE LoopSend
      <3>1. c.state \notin {"Closing", "Closed"} /\ c' = Write(c)
        BY <2>4 DEF LoopSend, SendMessage
      <3>2. c.stream # "set"
        BY <2>0, <3>1, WriteGood
      <3> QED  BY <2>0, <2>1, <3>1, <3>2 DEF Good
    <2>5. CASE OnConnect
      BY <2>5, OnConnectLeads DEF Leads
    <2>6. CASE EndChunk \/ ReadPart
      BY <2>6, ReadLeads DEF Leads
    <2>7. CASE Writes
      BY <2>7, WriteLeads DEF Leads
    <2>8. CASE Destroy
      <3>1. c' \in Destroyed(c) /\ c.handle = "closing"
        BY <2>8 DEF Destroy
      <3> QED  BY <2>0, <2>1, <3>1, DestroyedGood
    <2>9. CASE AppMark \/ OnConnectError \/ ReadLine \/ ReadEnd \/ KernelWrite
      <3>1. c'.fault = c.fault
        BY <2>0, <2>9 DEF AppMark, OnConnectError, ReadLine, ReadEnd, KernelWrite, UvClose, ClientType
      <3> QED  BY <3>1
    <2>10. ~(AppTest \/ RemoteReads \/ RemoteSends \/ RemoteEnds \/ UNCHANGED vars)
      BY DEF AppTest, RemoteReads, RemoteSends, RemoteEnds, vars
    <2> QED  BY <2>2, <2>3, <2>4, <2>5, <2>6, <2>7, <2>8, <2>9, <2>10
             DEF Next, Connects, Reads
  <1> QED  BY <1>1, ClientCorrect, PTL DEF Spec, MissingStreamOnlyOvertaken

(* A handle that a client gave up is deleted or about to be, whoever called
   uv_close on it first: none is lost, and none is forgotten half closed
   (net_client.cpp:70-120).                                                *)
THEOREM FreedCorrect == Spec => []GivenUpIsFreed
  <1>1. ClientInv => GivenUpIsFreed
    BY DEF ClientInv, Good, Settled, GivenUpIsFreed, Alive
  <1> QED  BY <1>1, ClientCorrect, PTL

-----------------------------------------------------------------------------

\* An accepted client never loses its stream: its process does nothing, it is
\* written to only inside the handler of a chunk, and only onRead closes it.
AcceptedInv ==
  /\ Alive /\ c.stream # "null" /\ ~c.closeCb /\ ~c.deleted
  /\ c.handle \in {"none", "open", "closing", "closed"}
  /\ app # "connect" /\ c.handle = "open" => c.reading
  /\ app \in {"connect", "idle"}

(* Nothing an accepted client does or suffers disturbs that. *)
LEMMA AcceptedStep ==
  ASSUME Kind = "in", ClientInv, AcceptedInv, [Next]_vars
  PROVE  AcceptedInv'
  <1>0. /\ c \in ClientType /\ Good(c) /\ c.fault = "none" /\ ~c.deleted
        /\ c.stream # "null" /\ app \in {"connect", "idle"} /\ c.queued \in Nat /\ c.done \in Nat
        /\ \A d : Process(d) = d
    BY DEF AcceptedInv, ClientInv, Good, ClientType, Alive, Process
  <1> DEFINE Same == /\ c'.fault = "none" /\ c'.stream = c.stream /\ c'.closeCb = c.closeCb
                     /\ c'.deleted = c.deleted /\ c'.handle = c.handle
                     /\ c'.reading = c.reading /\ app' = app
  <1>1. Same => AcceptedInv'
    BY DEF AcceptedInv, Alive
  <1>2. CASE c' = c /\ app' = app
    BY <1>0, <1>1, <1>2
  <1>3. CASE Accept
    <2>1. c.handle = "none" /\ ~c.reading
      BY <1>3 DEF Accept, ClientInv, Good
    <2>2. c' = [c EXCEPT !.state = "Receiving", !.stream = "set", !.handle = "open", !.reading = TRUE]
      BY <1>0, <1>3, <2>1 DEF Accept, DoRead, UvReadStarts, ClientType
    <2>3. /\ c'.fault = "none" /\ c'.stream = "set" /\ c'.handle = "open" /\ c'.reading
          /\ c'.closeCb = c.closeCb /\ c'.deleted = c.deleted
      BY <1>0, <2>2 DEF ClientType
    <2> QED  BY <1>3, <2>3 DEF Accept, AcceptedInv, Alive
  <1>4. CASE LoopSend
    <2>1. c.handle = "open" /\ c.stream = "set" /\ c.state \notin {"Closing", "Closed"}
      BY <1>0, <1>4 DEF LoopSend, ClientInv, Alive, Good, ClientType, Callable
    <2>2. c' = [c EXCEPT !.state = "Sending", !.queued = c.queued + 1]
      BY <1>0, <1>4, <2>1 DEF LoopSend, SendMessage, Write, Put, ClientType
    <2>3. Same
      BY <1>0, <1>4, <2>2 DEF LoopSend, ClientType
    <2> QED  BY <1>1, <2>3
  <1>5. CASE ReadLine
    <2>1. Same
      BY <1>0, <1>5 DEF ReadLine, ClientType
    <2> QED  BY <1>1, <2>1
  <1>6. CASE EndChunk \/ ReadPart
    <2>1. c' = c /\ app' = app
      BY <1>0, <1>6 DEF EndChunk, ReadPart
    <2> QED  BY <1>0, <1>1, <2>1
  <1>7. CASE ReadEnd
    <2>1. /\ c'.fault = "none" /\ c'.stream = c.stream /\ ~c'.closeCb
          /\ c'.deleted = c.deleted /\ c'.handle = "closing" /\ app' = app
      BY <1>0, <1>7 DEF ReadEnd, UvClose, ClientType
    <2> QED  BY <1>0, <2>1 DEF AcceptedInv, Alive
  <1>8. ASSUME NEW d, d.state \in Callable, NEW ok \in BOOLEAN
        PROVE  OnWrite(d, ok) = d
    BY <1>0, <1>8 DEF OnWrite, Callable
  <1>9. CASE Writes
    <2> DEFINE dd == [c EXCEPT !.done = @ - 1]
               dq == [c EXCEPT !.queued = @ - 1]
    <2>1. c.handle = "open" /\ app' = app
      BY <1>9 DEF Writes, Written, WriteError, AcceptedInv
    <2>2. c.state \in Callable /\ dd.state = c.state /\ dq.state = c.state
      BY <1>0, <2>1 DEF Good, ClientType
    <2>3. c' = OnWrite(dd, TRUE) \/ c' = OnWrite(dq, FALSE)
      BY <1>9 DEF Writes, Written, WriteError
    <2>4. OnWrite(dd, TRUE) = dd
      <3> HIDE DEF dd
      <3> QED  BY <1>8, <2>2
    <2>5. OnWrite(dq, FALSE) = dq
      <3> HIDE DEF dq
      <3> QED  BY <1>8, <2>2
    <2>6. c' = dd \/ c' = dq
      BY <2>3, <2>4, <2>5
    <2>7. Same
      BY <1>0, <2>1, <2>6 DEF ClientType
    <2> QED  BY <1>1, <2>7
  <1>10. CASE Destroy
    <2>1. c' \in Destroyed(c) /\ app' = app /\ c.handle = "closing" /\ ~c.closeCb
      BY <1>10 DEF Destroy, AcceptedInv
    <2>2. c.queued > 0 \/ c.done > 0 => c.state \in Callable
      BY <1>0 DEF Good
    <2>3. c.done > 0 => OnWrite(c, TRUE) = c
      BY <1>8, <2>2
    <2>4. c.queued > 0 => OnWrite(c, FALSE) = c
      BY <1>8, <2>2
    <2>5. c' = [c EXCEPT !.handle = "closed", !.queued = 0, !.done = 0,
                         !.deleted = @ \/ c.closeCb,
                         !.state = IF c.closeCb THEN "Closed" ELSE @]
      <3>1. c.fault = "none" /\ ~c.deleted
        BY <1>0
      <3>2. (IF c.done > 0 THEN OnWrite(c, TRUE) ELSE c) = c
        BY <2>3
      <3>3. (IF c.fault = "none" /\ c.queued > 0 THEN OnWrite(c, FALSE) ELSE c) = c
        BY <2>4
      <3> QED  BY <2>1, <3>1, <3>2, <3>3, Zenon DEF Destroyed
    <2>6. /\ c'.fault = "none" /\ c'.stream = c.stream /\ ~c'.closeCb
          /\ ~c'.deleted /\ c'.handle = "closed"
      BY <1>0, <2>1, <2>5 DEF ClientType
    <2> QED  BY <1>0, <2>1, <2>6 DEF AcceptedInv, Alive
  <1>11. CASE KernelWrite
    <2>1. Same
      BY <1>0, <1>11 DEF KernelWrite, ClientType
    <2> QED  BY <1>1, <2>1
  <1>12. ~Connect /\ ~AppTest /\ ~AppMark /\ ~AppWrite /\ ~Connects
    BY <1>0 DEF Connect, AppTest, AppMark, AppWrite, Connects, OnConnect, OnConnectError, AcceptedInv
  <1>13. RemoteReads \/ RemoteSends \/ RemoteEnds \/ UNCHANGED vars => c' = c /\ app' = app
    BY DEF RemoteReads, RemoteSends, RemoteEnds, vars
  <1> QED  BY <1>2, <1>3, <1>4, <1>5, <1>6, <1>7, <1>9, <1>10, <1>11, <1>12, <1>13
           DEF Next, Reads

(* An accepted client lives and reads on until the remote ends, however many
   replies it sends meanwhile (net_client.hpp:52, net_handler.cpp:198).    *)
THEOREM AcceptedReads ==
  Spec => []ReadsToTheEnd
  <1>1. Init /\ Kind = "in" => AcceptedInv
    BY DEF Init, AcceptedInv, Alive
  <1>2. ClientInv /\ (Kind = "in" => AcceptedInv) /\ [Next]_vars => (Kind = "in" => AcceptedInv')
    BY AcceptedStep
  <1>3. (Kind = "in" => AcceptedInv) => ReadsToTheEnd
    BY DEF AcceptedInv, ReadsToTheEnd
  <1> DEFINE I == Kind = "in" => AcceptedInv
  <1>4. Init => I
    BY <1>1
  <1>5. ClientInv /\ I /\ [Next]_vars => I'
    BY <1>2
  <1>6. I => ReadsToTheEnd
    BY <1>3
  <1> HIDE DEF I
  <1> QED  BY <1>4, <1>5, <1>6, ClientCorrect, PTL DEF Spec
=============================================================================
