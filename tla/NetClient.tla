------------------------------ MODULE NetClient ------------------------------
(***************************************************************************)
(* One client of net_client.cpp with its libuv TCP handle.                 *)
(*                                                                         *)
(* The object is the record c: the members myState and myUvStream, what    *)
(* libuv knows of the handle (its phase, whether uv_close was given        *)
(* on_close, whether it was deleted, whether it is read, its write         *)
(* requests) and the fault that ended the process, if any: a failed assert *)
(* or the use of a stream that is not there.                               *)
(*                                                                         *)
(* libuv's callbacks run one at a time on the loop thread.  The handler of *)
(* a chunk takes several steps, because the lines are dispatched to        *)
(* PeboNet, and the application thread runs sendMessage meanwhile: it      *)
(* checks the state in one step, sets it in the next and writes in a       *)
(* third.  A single call into libuv is taken as atomic.                    *)
(***************************************************************************)
EXTENDS Naturals, Sequences

CONSTANTS Kind,         \* "out": NetClientOut, "in": NetClientIn
          ReadRestarts, \* uv_read_start may be repeated: libuv before 1.38
          MaxSends,     \* bound on the calls of sendMessage
          MaxChunks     \* bound on what the remote sends

ASSUME KindAssumption == Kind \in {"out", "in"} /\ ReadRestarts \in BOOLEAN
ASSUME BoundAssumption == MaxSends \in Nat /\ MaxChunks \in Nat

VARIABLES c,      \* the client and its handle
          wire,   \* messages the kernel accepted and the remote has not read
          inbox,  \* what the remote sent: whole lines, or parts of one
          remote, \* "there", or "ended" once it closed or broke the connection
          app,    \* the application thread: before connect, idle, or inside sendMessage:
                  \* past its test of the state, or past its assignment to it
          loop,   \* the loop thread: idle, or inside the handler of a chunk
          sends, chunks  \* counters for the bounds

vars == <<c, wire, inbox, remote, app, loop, sends, chunks>>

State == {"Undefined", "NotConnected", "Connecting", "Connected", "Accepted", "Sending",
          "Sent", "Receiving", "Received", "Closing", "Closed"}

\* "broken": the socket exists and connect failed at once; "noSocket": there
\* is none.
Handle == {"none", "noSocket", "broken", "connecting", "open", "closing", "closed"}

Fault == {"none", "assertWrite", "assertRead", "assertProcess", "badStream", "deletedHandle"}

\* The member functions never assign myState or myUvStream before connect or
\* the constructor of NetClientIn does: what a new NetClientOut holds is
\* whatever was in memory.
Init == /\ \E s \in State :
             c = [state |-> s, stream |-> "unset", handle |-> "none", closeCb |-> FALSE,
                  deleted |-> FALSE, reading |-> FALSE, queued |-> 0, done |-> 0, fault |-> "none"]
        /\ wire = 0
        /\ inbox = <<>>
        /\ remote = "there"
        /\ app = "connect"
        /\ loop = "idle"
        /\ sends = 0 /\ chunks = 0

Dies(d, why) == [d EXCEPT !.fault = why]
UvIsClosing(d) == d.handle \in {"closing", "closed"}

\* uv_close.
UvClose(d, cb) == [d EXCEPT !.handle = "closing", !.closeCb = cb, !.reading = FALSE]

\* uv_read_start; from 1.38 on libuv refuses a stream it reads already
\* (UV_EALREADY), earlier versions only one that is closing.
UvReadStarts(d) == d.handle = "open" /\ (ReadRestarts \/ ~d.reading)

-----------------------------------------------------------------------------
(* The member functions, as what they make of the record.                  *)

\* Mutation: the stream is not forgotten.
CloseKeepsStream(d) ==
  IF d.stream = "null" THEN [d EXCEPT !.state = "Closing"]
  ELSE IF UvIsClosing(d) THEN [d EXCEPT !.state = "Closed", !.deleted = TRUE]
  ELSE UvClose([d EXCEPT !.state = "Closing"], TRUE)

\* Mutation: uv_close is given no callback.
CloseNoCallback(d) ==
  LET e == [d EXCEPT !.state = "Closing", !.stream = "null"]
  IN  IF d.stream = "null" THEN e
      ELSE IF UvIsClosing(d) THEN [e EXCEPT !.state = "Closed", !.deleted = TRUE]
      ELSE UvClose(e, FALSE)

\* NetClientBase::close; a handle that is closing already is deleted at once.
Close(d) ==
  LET e == [d EXCEPT !.state = "Closing", !.stream = "null"]
  IN  IF d.stream = "null" THEN e
      ELSE IF UvIsClosing(d) THEN [e EXCEPT !.state = "Closed", !.deleted = TRUE]
      ELSE UvClose(e, TRUE)

\* Mutation: the result of uv_read_start is ignored.
DoReadIgnoresError(d) ==
  IF d.state \notin {"Connected", "Accepted", "Sent", "Sending", "Receiving"}
    THEN Dies(d, "assertRead")
  ELSE IF d.stream # "set" THEN Dies(d, "badStream")
  ELSE [d EXCEPT !.state = "Receiving", !.reading = TRUE]

\* NetClientBase::doRead.
DoRead(d) ==
  IF d.state \notin {"Connected", "Accepted", "Sent", "Sending", "Receiving"}
    THEN Dies(d, "assertRead")
  ELSE IF d.stream # "set" THEN Dies(d, "badStream")
  ELSE IF UvReadStarts(d) THEN [d EXCEPT !.state = "Receiving", !.reading = TRUE]
  ELSE Close([d EXCEPT !.state = "Receiving"])

\* Mutation: an incoming client goes on like an outgoing one.
ProcessAlways(d) ==
  CASE d.state \in {"Connected", "Sending", "Sent", "Receiving"} -> DoRead(d)
    [] d.state = "Received" -> Close(d)
    [] OTHER -> Dies(d, "assertProcess")

\* Mutation: the connection is closed once a message was written.
ProcessClosesSending(d) ==
  CASE Kind = "in" -> d
    [] Kind = "out" /\ d.state \in {"Connected", "Receiving"} -> DoRead(d)
    [] Kind = "out" /\ d.state \in {"Sending", "Sent", "Received"} -> Close(d)
    [] OTHER -> Dies(d, "assertProcess")

\* process: empty in an incoming client.
Process(d) ==
  CASE Kind = "in" -> d
    [] Kind = "out" /\ d.state \in {"Connected", "Sending", "Sent", "Receiving"} -> DoRead(d)
    [] Kind = "out" /\ d.state = "Received" -> Close(d)
    [] OTHER -> Dies(d, "assertProcess")

\* sendMessage past its assignment to myState: uv_write, and what follows when
\* that fails (-EBADF, for a socket that is closing or gone).
Put(d) ==
  CASE d.stream # "set" -> Dies(d, "badStream")
    [] d.stream = "set" /\ d.handle \in {"connecting", "open", "broken"}
         -> [d EXCEPT !.queued = @ + 1]
    [] OTHER -> Close(d)

\* sendMessage past its test of the state.
Write(d) == Put([d EXCEPT !.state = "Sending"])

\* Mutation: a closed client is written to.
SendMessageNoTest(d) == Write(d)

\* sendMessage when nothing comes between.
SendMessage(d) == IF d.state \in {"Closing", "Closed"} THEN d ELSE Write(d)

\* on_write, which also deletes the request.
OnWrite(d, ok) ==
  IF d.state \notin {"Connected", "Sending", "Receiving", "Received", "Closing"}
    THEN Dies(d, "assertWrite")
  ELSE IF ok THEN Process(d) ELSE d

-----------------------------------------------------------------------------
(* The application thread.                                                 *)

Alive == c.fault = "none"

\* NetClientOut::connect, before the loop runs; an accepted socket is handed
\* over and read at once, NetHandler::onNewConnection.
Connect ==
  /\ Kind = "out"
  /\ app = "connect"
  /\ app' = "idle"
  /\ IF c.state \in State \ {"Undefined", "NotConnected", "Connecting", "Closed"}
     THEN c' = c
     ELSE \E h \in {"noSocket", "broken", "connecting"} :
            c' = [c EXCEPT !.state = "Connecting", !.stream = "set", !.handle = h]
  /\ UNCHANGED <<wire, inbox, remote, loop, sends, chunks>>

Accept ==
  /\ Kind = "in"
  /\ app = "connect"
  /\ app' = "idle"
  /\ c' = DoRead([c EXCEPT !.state = "Accepted", !.stream = "set", !.handle = "open"])
  /\ UNCHANGED <<wire, inbox, remote, loop, sends, chunks>>

\* sendMessage, called by Shell::start or stop: the test of the state ...
AppTest ==
  /\ Alive /\ Kind = "out"
  /\ app = "idle" /\ sends < MaxSends
  /\ c.state \notin {"Closing", "Closed"}
  /\ app' = "tested"
  /\ sends' = sends + 1
  /\ UNCHANGED <<c, wire, inbox, remote, loop, chunks>>

\* ... the assignment to it ...
AppMark ==
  /\ Alive
  /\ app = "tested"
  /\ app' = "sending"
  /\ c' = [c EXCEPT !.state = "Sending"]
  /\ UNCHANGED <<wire, inbox, remote, loop, sends, chunks>>

\* ... and the write.
AppWrite ==
  /\ Alive
  /\ app = "sending"
  /\ app' = "idle"
  /\ c' = Put(c)
  /\ UNCHANGED <<wire, inbox, remote, loop, sends, chunks>>

-----------------------------------------------------------------------------
(* The loop thread.                                                        *)

\* A handler that may only run when no other does.
Handler == Alive /\ loop = "idle" /\ app # "connect"

\* sendMessage in the handler of another client, which forwards news; an
\* incoming client is sent only the replies to its own queries.
LoopSend ==
  /\ Alive /\ app # "connect" /\ sends < MaxSends
  /\ loop = IF Kind = "out" THEN "idle" ELSE "dispatching"
  /\ sends' = sends + 1
  /\ c' = SendMessage(c)
  /\ UNCHANGED <<wire, inbox, remote, app, loop, chunks>>

\* Mutation: reading is not started.
OnConnectNoRead ==
  /\ Handler
  /\ c.handle = "connecting"
  /\ c' = [c EXCEPT !.handle = "open", !.state = "Connected"]
  /\ UNCHANGED <<wire, inbox, remote, app, loop, sends, chunks>>

OnConnect ==
  /\ Handler
  /\ c.handle = "connecting"
  /\ c' = Process([c EXCEPT !.handle = "open", !.state = "Connected"])
  /\ UNCHANGED <<wire, inbox, remote, app, loop, sends, chunks>>

\* Mutation: a failed connection is given up by the client, too.
OnConnectErrorClosed ==
  /\ Handler
  /\ c.handle = "connecting"
  /\ c' = UvClose([c EXCEPT !.state = "Closed"], FALSE)
  /\ UNCHANGED <<wire, inbox, remote, app, loop, sends, chunks>>

\* Mutation: the handle of a failed connection is closed with on_close.
OnConnectErrorCallback ==
  /\ Handler
  /\ c.handle = "connecting"
  /\ c' = UvClose(c, TRUE)
  /\ UNCHANGED <<wire, inbox, remote, app, loop, sends, chunks>>

\* onConnect with an error: the handle is closed behind the client's back.
OnConnectError ==
  /\ Handler
  /\ c.handle = "connecting"
  /\ c' = UvClose(c, FALSE)
  /\ UNCHANGED <<wire, inbox, remote, app, loop, sends, chunks>>

Readable == c.handle = "open" /\ c.reading

\* onRead: one line of a chunk is parsed and handed to PeboNet.
ReadLine ==
  /\ Alive /\ Readable
  /\ inbox # <<>> /\ Head(inbox) = "line"
  /\ inbox' = Tail(inbox)
  /\ loop' = "dispatching"
  /\ c' = [c EXCEPT !.state = "Received"]
  /\ UNCHANGED <<wire, remote, app, sends, chunks>>

\* The rest of onRead, once the lines of the chunk are done.
EndChunk ==
  /\ Alive
  /\ loop = "dispatching"
  /\ loop' = "idle"
  /\ c' = Process(c)
  /\ UNCHANGED <<wire, inbox, remote, app, sends, chunks>>

\* onRead of a chunk without a line that is understood.
ReadPart ==
  /\ Handler /\ Readable
  /\ inbox # <<>> /\ Head(inbox) = "part"
  /\ inbox' = Tail(inbox)
  /\ c' = Process(c)
  /\ UNCHANGED <<wire, remote, app, loop, sends, chunks>>

\* onRead with the end of file or an error.
ReadEnd ==
  /\ Handler /\ Readable
  /\ inbox = <<>> /\ remote = "ended"
  /\ c' = UvClose(c, FALSE)
  /\ UNCHANGED <<wire, inbox, remote, app, loop, sends, chunks>>

\* onWrite of a request that was written, or that failed.
Written ==
  /\ Handler
  /\ c.handle = "open" /\ c.done > 0
  /\ c' = OnWrite([c EXCEPT !.done = @ - 1], TRUE)
  /\ UNCHANGED <<wire, inbox, remote, app, loop, sends, chunks>>

WriteError ==
  /\ Handler
  /\ c.queued > 0
  /\ \/ c.handle = "broken"
     \/ c.handle = "open" /\ remote = "ended"
  /\ c' = OnWrite([c EXCEPT !.queued = @ - 1], FALSE)
  /\ UNCHANGED <<wire, inbox, remote, app, loop, sends, chunks>>

\* libuv destroys a closing handle: the writes that were done are called back
\* with success, those still queued as cancelled, then comes on_close.  The
\* callbacks of several writes are as one, the first decides.  What libuv does
\* with a handle that was deleted is undefined: the process dies of it, or all
\* goes on as if the memory were still the handle.
Destroyed(d) ==
  LET e == IF d.done > 0 THEN OnWrite(d, TRUE) ELSE d
      f == IF e.fault = "none" /\ e.queued > 0 THEN OnWrite(e, FALSE) ELSE e
  IN  {IF f.fault # "none" THEN f
       ELSE [f EXCEPT !.handle = "closed", !.queued = 0, !.done = 0,
                      !.deleted = @ \/ f.closeCb, !.state = IF f.closeCb THEN "Closed" ELSE @]}
      \cup {x \in {Dies(e, "deletedHandle")} : e.deleted}

Destroy ==
  /\ Handler
  /\ c.handle = "closing"
  /\ c' \in Destroyed(c)
  /\ UNCHANGED <<wire, inbox, remote, app, loop, sends, chunks>>

-----------------------------------------------------------------------------
(* The kernel and the remote.                                              *)

KernelWrite ==
  /\ Alive
  /\ c.handle = "open" /\ c.queued > 0
  /\ c' = [c EXCEPT !.queued = @ - 1, !.done = @ + 1]
  /\ wire' = wire + 1
  /\ UNCHANGED <<inbox, remote, app, loop, sends, chunks>>

RemoteReads ==
  /\ wire > 0
  /\ wire' = wire - 1
  /\ UNCHANGED <<c, inbox, remote, app, loop, sends, chunks>>

RemoteSends ==
  /\ c.handle = "open" /\ remote = "there" /\ chunks < MaxChunks
  /\ \E x \in {"line", "part"} : inbox' = Append(inbox, x)
  /\ chunks' = chunks + 1
  /\ UNCHANGED <<c, wire, remote, app, loop, sends>>

\* A connection that breaks loses what the client has not read.
RemoteEnds ==
  /\ c.handle = "open" /\ remote = "there"
  /\ remote' = "ended"
  /\ inbox' \in {inbox, <<>>}
  /\ UNCHANGED <<c, wire, app, loop, sends, chunks>>

-----------------------------------------------------------------------------

Reads == ReadLine \/ EndChunk \/ ReadPart \/ ReadEnd
Connects == OnConnect \/ OnConnectError
Writes == Written \/ WriteError

Next == \/ Connect \/ Accept \/ AppTest \/ AppMark \/ AppWrite
        \/ LoopSend \/ Connects \/ Reads \/ Writes \/ Destroy
        \/ KernelWrite \/ RemoteReads \/ RemoteSends \/ RemoteEnds

Spec == Init /\ [][Next]_vars

\* The loop serves every handle that is ready; nothing obliges the remote or
\* the application.
FairSpec == /\ Spec
            /\ WF_vars(Connects) /\ WF_vars(Reads) /\ WF_vars(Writes) /\ WF_vars(Destroy)

-----------------------------------------------------------------------------
(* Properties.                                                             *)

\* The variables have their types, and a handle is read only while it is open.
TypeOK ==
  /\ c.reading => c.handle = "open"
  /\ c \in [state : State, stream : {"unset", "set", "null"}, handle : Handle,
            closeCb : BOOLEAN, deleted : BOOLEAN, reading : BOOLEAN,
            queued : Nat, done : Nat, fault : Fault]
  /\ wire \in Nat
  /\ inbox \in Seq({"line", "part"})
  /\ remote \in {"there", "ended"}
  /\ app \in {"connect", "idle", "tested", "sending"}
  /\ loop \in {"idle", "dispatching"}
  /\ sends \in 0 .. MaxSends /\ chunks \in 0 .. MaxChunks

\* The client knows when it is closed: between two calls it has no stream
\* exactly if its state is Closing or Closed, so the test in sendMessage
\* protects the write.  Only a sendMessage that a close overtook behind its
\* test hides that from the others, from its assignment to the state to its
\* write (net_client.cpp:41-60, 103-109).
StateMatchesStream ==
  Alive /\ c.stream # "unset" =>
    /\ c.state \in {"Closing", "Closed"} => c.stream = "null"
    /\ c.stream = "null" => c.state \in {"Closing", "Closed"} \/ app = "sending"

\* A stream the client still holds is never deleted, however the closes of
\* onRead, onConnect, doRead and sendMessage meet; a deleted one leaves the
\* client Closed, or about to be (net_client.cpp:89-120).
NoDanglingStream ==
  c.stream = "set" => ~c.deleted /\ c.handle # "none"

\* The assertions of onWrite and doRead hold in every order of writes, reads,
\* closes and their callbacks (net_client.cpp:147, :279), but for one: close
\* deletes a handle that libuv is still closing, and then a write that libuv
\* calls back finds the client Closed (net_client.cpp:109-115).
AssertionsUnlessDeleted ==
  /\ c.fault # "assertRead"
  /\ c.fault = "assertWrite" => c.deleted

\* A client that did connect uses a stream that is not there only if a close
\* overtook a sendMessage of the application thread behind its test, and only
\* between that call's assignment to the state and its end: the call does, or
\* a handler of the loop that finds the client in Sending (net_client.cpp:44-60).
MissingStreamOnlyOvertaken ==
  [][c.fault = "none" /\ c'.fault = "badStream"
       => c.stream = "unset" \/ (c.stream = "null" /\ app = "sending")]_vars

\* An incoming client neither dies nor is closed by its own process, it reads
\* until the remote ends (net_client.hpp:52, net_handler.cpp:198).
ReadsToTheEnd ==
  Kind = "in" => Alive /\ (app # "connect" /\ c.handle = "open" => c.reading)

\* The client behaves as the link of PeboNet.tla.
Link == INSTANCE ClientLink WITH
  link <- IF ~Alive THEN "gone"
          ELSE IF c.handle = "none" THEN "idle"
          ELSE IF c.stream = "null" THEN "closed"
          ELSE IF c.handle = "connecting" THEN "connecting"
          ELSE IF c.handle # "open" THEN "failed"
          ELSE IF loop = "dispatching" /\ c.state = "Received" THEN "received"
          ELSE "open",
  chan <- wire + IF c.handle \in {"connecting", "open"} THEN c.queued ELSE 0

\* Messages given to the client before the connection is up are kept, a reply
\* closes it unless a sendMessage sets its state while the reply is handled,
\* nothing else closes it, and a lost socket is noticed at the next send
\* (net_client.cpp:41-75, 239-273, 334-417).
LinkSpec == Link!Spec

\* A handle the client has given up is not lost: either it was deleted, or
\* on_close is still to come, which deletes it, whichever of onRead, onConnect
\* and close called uv_close first; and the client is Closed or Closing
\* accordingly, unless a sendMessage has just been overtaken
\* (net_client.cpp:70-120).
GivenUpIsFreed ==
  Alive /\ c.stream = "null" =>
    /\ c.deleted \/ (c.handle = "closing" /\ c.closeCb)
    /\ app # "sending" => c.state = IF c.deleted THEN "Closed" ELSE "Closing"

\* close always completes: a client in Closing becomes Closed.
ClosingEnds == c.state = "Closing" /\ c.stream = "null" ~> c.state = "Closed" \/ ~Alive

\* What the remote sent is read, while the client keeps the connection.
InboxRead == inbox # <<>> ~> inbox = <<>> \/ c.handle # "open" \/ ~Alive

-----------------------------------------------------------------------------
(* What an assertion says, and the code does not keep.                     *)

\* net_client.cpp:411-413: process meets no other state.
ProcessAssertionHolds == c.fault # "assertProcess"
=============================================================================
