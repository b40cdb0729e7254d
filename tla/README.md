# PeerBoot: a TLA+ model

PeerBoot is a C++ library for peer discovery.  A process calls
`peerboot::init(service, endpoint, callback)`; the library connects to a few
other processes, announces the endpoint, asks for others of the same service,
floods what it learns, and calls the application back for every peer it hears
of.  This directory holds a TLA+ model of it, the configurations under which TLC
checks the model, and proofs that TLAPS checks.  Paths below are relative to
`src/src/peerboot/` unless they say otherwise.

Five modules carry the model, one per layer, each tied to an abstract
specification, to the layer below or to what was written:

    LibraryApi.tla     initEx and deinit as atomic calls
        ^ refined by
    Library.tla        the same over mutex, Shell, NetHandler and loop thread

    Directory.tla      what the store and its callbacks promise
        ^ refined by
    Store.tla          one process: store, two threads, notification   (on StoreOps.tla)

    PeboNet.tla        many processes, flooding over their connections (on StoreOps.tla)
        v every outgoing client stays within
    ClientLink.tla     what one outgoing connection may do
        ^ refined by
    NetClient.tla      one TCP client, its libuv handle, two threads

    Wire.tla           one direction of a connection as lines, chunks and a buffer

`ClientLink.tla` is what network and client have in common: every client of the
network model stays within it (`ClientLinks`), and so does the client's own code
(`LinkSpec`).  Both are checked and proved.  Neither says that the network model lets a
client do all that the code does; that it does was only seen to by reading: a connect that
fails at once, is refused or breaks, a send that finds the socket lost, a reply that a send
keeps from closing the link, and a process that ends at any moment are all there.
`Wire.tla` justifies the queue of messages that
`PeboNet.tla` has on a link: what is written is read, in order (`ReadAsWritten`).
Proofs are in modules of their own: `StoreProofs`, `PeboNetProofs`,
`PeboNetFlooding`, `PeboNetRefinement`, `NetClientProofs`, `NetClientRefinement`,
`LibraryProofs`, `WireProofs`; the `MC*` modules and `.cfg` files give TLC its
instances.

## 1. Inventory

| Component | State | Operations | Correct means |
|---|---|---|---|
| `Store` (store.cpp) | map service -> endpoint -> PeerInfo, a mutex | findAndUpdate, query, clear | each key is new once, changes are reported once, addedTime is local |
| `PeboNet` (pebo_net.cpp) | outgoing peers, (unread) incoming peers | listenStarted, broadcast, queryRemote, the handlers of PEER and QUERY, doBroadcastMsg, doQuery, doClientCallback | news reaches every connected peer, once; the application is told once; flooding stops |
| `NetClientBase/Out/In` (net_client.cpp, uv_socket.cpp) | state, stream, receive buffer | connect, sendMessage, close, doRead, process, libuv callbacks | no message lost that was accepted, no use of a handle that is gone, assertions hold, closing ends |
| `NetHandler` (net_handler.cpp) | listening socket, event-loop thread, stop flag | start, stop, onNewConnection | loop starts and ends exactly once per start/stop |
| `Shell` (shell.cpp) | owns store, net and handler of one instance | init, start, stop, deinit, notifyFromPeboNet | own endpoint stored before it is announced; store cleared only after the loop has ended |
| `lib` (lib.cpp) | the one Shell, a mutex | init, initEx, deinit | one instance at a time; every call returns; nothing is left behind |
| Messages (message.cpp) | none | write and parse PEER and QUERY lines | what is written is what is read |
| Endpoint, TimeStamp | none | parse, compare, now | - |
| EmptyNetHandler, samples, test library | stubs, console programs, a network of direct calls | - | not part of the library's behaviour |

How they meet.  Two threads run in a process.  The *application thread* runs
`init`, `start` and `stop`: `Shell::init` binds the port and creates every
outgoing client, then the loop thread starts; `Shell::start` stores the own
endpoint, broadcasts it, and sends a query.  The *loop thread* runs libuv's
callbacks one at a time; a PEER line goes from `onRead` to `PeboNet`, into the
store, and, if it was news, to the application's callback and to the other
outgoing clients.  The two threads share the store (under its mutex) and the
clients (under nothing).  Between processes there is TCP: requests go out on
connections a node opened, replies to queries come back on the same connection,
and the first chunk of replies makes the client close it.

What is hard here:

- `sendMessage` tests the state on one thread while the other may close the
  client; messages are queued in libuv before the connection is up;
- closes come from five places, some behind the client's back (`uv_close` without
  a callback on end of file and failed connect), and the handle is deleted later;
- the store is updated under the mutex, the application is told afterwards;
- flooding in a network with cycles, with nodes that start in any order, leave or
  crash, and connections that break;
- the order refresh-then-query, on which it depends that a connection is not
  closed before the announcement arrived;
- thread start and stop: a wake-up sent before the stop flag is set, a deinit
  before the thread was first scheduled, an init that fails half-way, a callback
  that calls the library;
- a receive buffer into which chunks are copied up to the next zero byte in memory;
- accepted connections named by a port in the wrong byte order, which may be taken for
  outgoing peers.

PROJECT.json lists these as hazards, each at its line, with the properties
about it.

## 2. Modules and code

### StoreOps, Store, Directory

`StoreOps.tla` holds `class Store` as operators on one value of `myStore`: a
partial function from `<<service, endpoint>>` to the entry.  `Store.tla` puts
two threads on it.  `PeerUpdate` is `peerUpdateFromPeboPeer` up to the end of
`findAndUpdate`; `Callback` is the notification after it, outside the mutex;
`StartOwn` and `Stop` are the application thread's accesses; `Tick` is the
clock of the system (`TimeStamp::now` is `system_clock`), which may be set forward or back.
`view` is a history variable: an application that folds its callbacks; `shown` is what
the clock has been.
`Directory.tla` is the same without the gap between store and callback.

A peer may send anything, so `PeerUpdate` takes any key, either value of
isRemoved and any lastSeen.  The wire of today never carries isRemoved = TRUE
(section 5); `Store.tla` covers the interface of the store, not only today's caller.

### PeboNet

A node is a process, a link an entry of some node's `myPeersOut` (topology is a
constant: `Src`, `Dst`).  State per node: `phase` of the application thread,
`todo` (what a broadcast has still to send), `store`; per link: `link` (state of
the client), `chan` (lines on the way), `reply` (keys on the way back), `nodeAddr` (the
address the accepting side has for the connection).

| Action | Code |
|---|---|
| Listen | Shell::init, NetHandler::start, PeboNet::listenStarted; a connect may fail at once |
| StoreOwn, SendRefresh, SendQuery | Shell::start, broadcast_refresh, queryRemote, one step per link |
| Stop, SendBye | Shell::stop, broadcast_bye |
| Leave | end of stop, deinit, or a crash or fault at any moment |
| Connect, Refused | NetClientOut::onConnect |
| HandlePeer, HandleQuery | a PEER or QUERY line of an accepted connection, msgFromPeboPeer and its handlers |
| HandleReply, CloseReceived | onRead and process of an outgoing client |
| CloseRefused | doRead when libuv refuses to start reading (section 4) |
| PeerGone, Broken, Cut | end of file, broken connection, lost last line |

A loop handler is one step, except the handler of a chunk of replies: while it
runs its link is `"received"` and the loop of that node does nothing else, but
the application thread may still send.  The application thread's `sendMessage` is one step
per link, which stands for the stretch from the assignment of the state (net_client.cpp:48)
to the write (:60); NetClient.tla has the steps in between.

`getRemoteAddress` names an accepted connection by the remote's ephemeral port, printed in
network byte order (net_handler.cpp:254): 34835 reads 5000.  `nodeAddr` of a link is
therefore any address, fixed when the connection comes up; the constant `SeenAs` has the
assignments to be considered, in the runs nobody's address, or that of an outgoing peer that
is not the sender.  `HandlePeer` skips the outgoing peer of that address, as doBroadcastMsg
does.  What is abstracted: addresses (5000 to
5002, the bootstrap hosts) are just links; `myPeersIn`, which nothing reads, is
left out; `lastSeen` influences no decision and is dropped (update with time 0);
replies are a set; a node that has left does not come back; the order in which
a broadcast visits links is free.

History variables: `told` (callbacks per key), `via` (where a key was first
learned), `sent` (PEER messages per link and key).

### NetClient, ClientLink

The record `c` is one client with its libuv handle.  Kind "out" is created,
connected and sent to; kind "in" is accepted and replies.  `Close`, `DoRead`,
`Process`, `Write`, `OnWrite` are the member functions of the same name, as what
they make of the record; the actions are the callers.  The application thread is
inside `sendMessage` from `AppTest` (the test of the state) over `AppMark` (its assignment)
to `AppWrite` (the write), with the loop thread free in between.  `Destroy` is libuv's end
of a closing handle: callbacks of writes that were done, then of those
cancelled, then `on_close` if the close named it.  Of a handle that was deleted meanwhile
`Destroyed` has two outcomes: libuv goes on in the freed memory as if it were the handle, or
the process dies.  A failed `assert` and the use of a stream or handle that is not there set
`fault`, and the client stops: what follows is undefined, and no property speaks of it.

`myState` and `myUvStream` are not initialised by the constructors, so `Init` takes any
state.  `connect` refuses in most of these; a client left with no stream
faults on its first send.  `LinkSpec` maps a faulted client to the link "gone".

What is abstracted: the text of lines and the receive buffer, which are Wire.tla (a chunk is a
"line", understood, or a "part", not), the several callbacks of one `Destroy` are
decided by the first of each sort, one call into libuv is atomic.

### Library, LibraryApi

`pc` says where each application thread is in a call, `owner` who holds
`global_init_mutex`; `bg` is where the loop thread is.  `loop` is the static
`myUvLoop` with what matters of a `uv_loop_t`: its `stop` flag, whether the async
handle was sent (`wake`), whether handles are closing, the listening ports.

| Action | Code |
|---|---|
| CallInit, CallDeinit | the application calls init, initEx, deinit |
| InitAlready, DeinitNot | the early returns under the mutex |
| InitListen | Shell::init, NetHandler::start, doListen, startUvLoop |
| InitRefused | Shell::init fails, `delete shell_new` runs ~Shell and stopUvLoop |
| InitReturn | Shell::start and the end of initEx |
| DeinitFlag, DeinitWake, DeinitStop, DeinitJoin | Shell::deinit and stopUvLoop, statement by statement |
| Top, Exit, After | doBgThread and runLoop |
| Iterate, Sleep, Wake, Traffic | uv_run: an iteration without sleep, the sleep, what ends it |
| Callback, Reenter | the notification callback calls initEx or deinit |

Deinit and the loop thread share no lock, so every statement of `stopUvLoop` is
a step of its own; under the mutex the steps of `initEx` before the thread runs
are one.  `fault` is the end of the process; nothing happens after it.  The
history variables say why something may be amiss: `settled`, that the loop was
asleep since initEx returned, and `amiss`, that a port was taken, that deinit came
before that (`early`), or that the callback called the library (`reentered`).
`LibraryApi.tla` has one variable for the library and one call per thread;
in the refinement the library is on until its deinit returns.

### Wire

Text is words: `ToString` and `Parse` are `toString` and the body of the loop of
`doProcessReceivedBuffer`; a service or endpoint is a sequence of words, so that
it may be empty or hold blanks.  A line enters the `stream` whole (`Write`), TCP
cuts it anywhere between words (`OnRead`), `buffer` is `myReceiveBuffer`.  Cuts
inside a word give the same buffer as soon as the rest has come, and until then no
newline, so they are left out; where something follows a cut word, the word becomes
another, which is the second alternative of `ReadMore`.  `ReadMore` is what the
append of `buf->base` as a C string brings beside the chunk: a word, a
newline, both, or letters glued to the last word.  `ReadShort` is a chunk with a zero byte in
it (`Zero`, a word that a name may hold): what lies behind the first one is lost.  Times have `Width` bits and an
int one less; `Stoi` loses what does not fit.

## 3. Runs

Every run ends; `CHECK_DEADLOCK FALSE` because the systems may stop
legitimately: a network at rest, a client that is closed, a store after `Stop`
at the last tick, a process that has ended, a reader that has read everything.

| Run | Instance | Shows |
|---|---|---|
| `store` | 2 services, 2 endpoints, clock 0..1, set at will | `ViewInSync`, `NoRedundantCallback`, refinement of Directory |
| `gossip_ring` | ring of 3 nodes, started in any order; b leaves or crashes, bc may break, c has the new libuv, the connection from c to a may read as b's | told once, forwarded once per link, connected peers informed unless skipped by mistake, announcement before close, replies not sent back, `ReplyComes`, `ClientLinks` |
| `gossip_live` | 2 nodes linked both ways, both may leave, a with a good bye, both links may break | `ComesToRest`, `Announced`, `EveryLinkEnds`, and `OutPeerInformed` with good byes |
| `client_out` | one outgoing client, 3 sends, 3 chunks, fair loop | `StateMatchesStream`, `NoDanglingStream`, `AssertionsUnlessDeleted`, `MissingStreamOnlyOvertaken`, `GivenUpIsFreed`, `LinkSpec`, `ClosingEnds`, `InboxRead` |
| `client_in` | one accepted client, 3 replies, 3 chunks, the new libuv | `ReadsToTheEnd` |
| `library` | 2 application threads, 4 ports of which 2 are taken, default range of 2 | `ServesWhenOn`, `CleanWhenOff`, `StopFindsLoop`, `FaultsOnlyAmiss`, `JoinedIsToldToEnd`, `JoinComesNearer`, `HolderReturns`, refinement of LibraryApi |
| `wire` | 4 writes of 6 messages, one with a zero byte, 1 chunk with more than it brought, times of 2 bits | `ReadAsWritten`, `DamageIsLocal` |
| `query_results`, `bye`, `process_assertion`, `deinit_returns`, `init_reports` | smallest instance | a counterexample each: section 5 |

Why the bounds are enough.

- *Store*: every property is about one key against the rest, so own and foreign key,
  same and different service, is all there is; two readings tell old from new, in either
  order.
- *Network*: a cycle of three is the shortest in which news comes back by a path other
  than it went, two nodes linked both ways the shortest in which it comes back at
  all.  No counter is bounded: flooding is finite by itself, which
  `ForwardOnce` and `ComesToRest` show.  One service is enough because query
  and update treat services independently (`store` checks two).  In the ring one
  node may fail and another link may break: with more of them little is left
  to inform.  One connection whose address is mistaken is enough for a peer that is not told:
  without its disjunct `SkippedByMistake`, `OutPeerInformed` fails in `gossip_ring`.  What the invariants say of the ring is proved for every network.
- *Client*: with 3 sends one message can be queued before the connection, one
  written by the application thread between its test and its write, and one sent by the
  loop in between; with 3 chunks a part, a line and another chunk after the reply.
- *Library*: two threads are enough for a call to find every state of another; calls
  are not bounded.  Ports: one of the default range taken and one free, one asked for that is
  free and one that is not; a loop left behind keeps its port, so that both may run out.
- *Wire*: four lines give chunks with the end of one, a whole one and the beginning of
  another, and one line after the damage and one before it; 2 bits give a time that fits an
  int and one that does not.  `ReadAsWritten` and `DamageIsLocal` are proved for any number,
  any width and any number of bad chunks.

Each property has a mutation of the code under which TLC refutes it
(PROJECT.json, "mutants"); the mutated operators are marked `Mutation:` in the
modules and no specification uses them.

Fairness.  `PeboNet!Fairness` has weak fairness for the application thread of
every node and for the loop on every link: the operating system schedules
both threads, libuv serves each ready handle, TCP delivers what it holds.
Nothing is fair about Listen, Stop, Leave, Broken or Cut: nobody need start,
leave, or break anything.  `NetClient!FairSpec` is fair to connect, read and write
callbacks and to the destruction of handles, libuv's four phases of a loop
iteration, and not to the remote, the kernel or the application.
`EveryLinkEnds` exempts a node that is stopping: a good bye written to a
client in state Received puts it back to Sending, and the close that was due does not
happen.  `Library!Fairness` schedules the loop thread and whatever thread can go on in
a call, and gives a free mutex to somebody; nobody owes the process a call, a packet
or a callback, so a loop that sleeps may sleep for ever.

## 4. Two versions of libuv

`doRead` calls `uv_read_start` again after each write and each chunk.  Up to
libuv 1.37 that is allowed on a stream that is being read; from 1.38 on the call
returns `UV_EALREADY`, which `doRead` takes for an error and closes the client.  The
build files name `libuv1-dev` without a version, so both happen.  The
constant `ReadRestarts` selects, for every node of a network its own: TRUE is what
the code evidently expects.  With FALSE an outgoing connection closes on the first
write that is called back, and `Announced` and `AnnouncedBeforeClosed` claim
nothing for it; what is told and forwarded stays right.  `gossip_ring` mixes
both; the proofs of the client hold for either.  For an accepted client `process`
is empty, so it never calls `doRead` twice and nothing changes: `client_in` runs with
FALSE.

## 5. Where the code does not do what it says

Each has a violation run with a short counterexample.

- `QueryResultsCome`: ipebo_net.hpp:37 promises that results come asynchronously.  The
  client closes after the first chunk with a reply, and later chunks are lost.
- `ByeRemoves`: shell.cpp:118 broadcasts a good bye.  A PEER line has no
  isRemoved field, the reader fills in false, and the bye arrives as a refresh.
- `ProcessAssertionHolds`: onWrite admits state Closing and calls `process`, which asserts it
  is in no such state.  A write done and not called back when the reply
  closes the client gets there.
- `DeinitReturns`: stopUvLoop wakes the loop, then sets its stop flag
  (net_handler.cpp:91, 94), "thread should end, wait for it" (:96).  The loop thread
  may be woken, find no stop flag and go back to sleep in between; deinit then waits, with the
  mutex, until something happens on a socket.  `HolderReturns` shows that this and the callback
  are the only ways for a call not to return.
- `InitReports`: peerboot.hpp:72 promises an error code.  When no port is free, initEx
  deletes a Shell that counts as initialised; its destructor stops a loop that was never
  started, and uv_async_send gets a null handle.

More is in the models without a run of its own.

- A deinit that comes before the loop thread looked at its flag (`early`) leaves the
  loop, with its port and its stop flag, to the next instance, whose loop stops at once;
  a deinit a little later makes `on_walk` close handles that are closing already, an
  assertion of libuv.  `ServesWhenOn`, `CleanWhenOff` and `FaultsOnlyAmiss` name the
  exception.
- deinit called from the notification callback joins its own thread, or waits for a
  mutex whose holder waits for the callback.
- pebo_net.hpp:61 has a parameter "to avoid sending back".  A message from an accepted
  connection carries the remote's ephemeral address, which as a rule equals no outgoing
  peer's, so that news is sent back.  The receiver knows it already (`ForwardOnce`), and what
  came in a *reply* is not sent back (`ReplyNotSentBack`).
- By the missing `ntohs` (net_handler.cpp:254) that address can be an outgoing peer's all
  the same, and "skip where it came from" (pebo_net.cpp:233) then skips a peer that the news
  did not come from.  `OutPeerInformed` excepts exactly that (`SkippedByMistake`).
- A lastSeen from January 2087 on is read as 0 (`Expected`); a name that is empty
  or has a blank makes another message of its own line, and of no other (`DamageIsLocal`).

After an end of file or a failed connect `onRead` and `onConnect` have closed the
handle with `uv_close` and left `myUvStream` set.  The next send gets EBADF, its `close` finds
the handle closing, deletes it and makes the client Closed, while libuv still has it in its
list of closing handles.  Libuv's use of it may end the process (fault `"deletedHandle"`); or
it goes on, and if a write was still queued its callback finds the client Closed, which the
assertion of `onWrite` (net_client.cpp:147) does not admit.  `AssertionsUnlessDeleted` says
that this is the only way for one of these assertions to fail.

`sendMessage` of the application thread tests the state, sets it to Sending and writes, and
the loop thread may close the client in between.  The write, or a handler of the loop that
reads Sending, then uses a stream that is null.  `MissingStreamOnlyOvertaken` confines that
to the time between the assignment and the end of that call.  A stream that was never
set, because connect found garbage in `myState` and refused, is beyond what could be promised:
every send on that client faults, and the properties of the client except it.

## 6. Proofs

TLAPS checks these for all constants that satisfy the modules' ASSUMEs (any sets of
services, endpoints, nodes, application threads, ports, any topology, any bound).

`StoreProofs.tla`
- `TypeCorrect`: `Spec => []TypeOK`.
- `ViewCorrect`: `Spec => []ViewInSync`.  Not inductive alone: `SyncInv` adds `CallIsNews`,
  that a notification under way differs from what the application last heard
  of its key.  For foreign keys only the loop thread writes, and it does not write
  again before it has made the callback; `Stop` waits for it.
- `CallbacksAreNews`: the action property `NoRedundantCallback`, from `SyncInv`.
- `StoreImplementsDirectory`: `Spec => DirectorySpec`, action by action.

`PeboNetProofs.tla`
- `TypeCorrect`: `Spec => []TypeOK`.
- `AnnouncedFirst`: `Spec => []AnnouncedBeforeClosed`, for every topology and
  whatever nodes stop, crash or links break.  The property speaks of a closed link
  only; `AnnounceInv` says of every link at every moment that the other end knows the
  node (`Knows`) or the announcement is `Pending`: still to be sent before any query, or
  on the way in front of every QUERY, with no reply yet.  `AppInv` ties what
  the application thread has still to send to its phase.

`PeboNetFlooding.tla`
- `ToldCorrect` (`ToldOnce`), `ForwardCorrect` (`ForwardOnce`), `InformedCorrect`
  (`OutPeerInformed`), `ReplySkipCorrect` (`ReplyNotSentBack`), for every topology, any
  departures, broken links and versions of libuv.  `FloodInv` makes them inductive
  together: `ToldInv` counts the callbacks of a key as 1 exactly if the store has it;
  `SentInv` says that nothing was sent of a key that is not known, so that the one
  moment it becomes known is the one moment it is sent; `InformedInv` is
  `OutPeerInformed` from the moment a link can be written to, where a node that starts
  may owe its own key to links in its `todo`; `ViaInv` keeps keys from replies
  unsent.  An outgoing peer is skipped because of the address of the connection that brought
  the news: if it is the sender it knows the key or has left (`SenderKnows`), if not, the
  news was learned just now and from there (`Unlearned`), which is `SkippedByMistake`; no set
  of addresses is assumed.  `Origin` and `OwnStored` are why a node hears of itself only when it knows
  itself: nobody has its key before it started.
- `ReplyCorrect` (`ReplyComes`): a connected client waits for a reply that does come.  This
  is the safety core of `EveryLinkEnds`.  The query is not lost while both ends stay, and
  when it is read there is something to answer: `AnnounceInv` puts the announcement in
  front of it, so the node that asks is known by then, and `Present` says that what is known
  is not removed, so that doQuery returns it.  `TodoInv` is the order in which
  Shell::start and stop send: as long as a link is owed its refresh it is owed its query.

`PeboNetRefinement.tla`
- `ClientLinksCorrect`: `Spec => ClientLinks`: no client of the network model leaves
  ClientLink.  Needed beside `TypeOK`: a node that was
  not started has idle links, and an idle link holds nothing.

`NetClientProofs.tla`
- `TypeCorrect`, `StateCorrect` (`StateMatchesStream`), `StreamCorrect`
  (`NoDanglingStream`), `AssertionsCorrect` (`AssertionsUnlessDeleted`),
  `MissingStreamCorrect` (`MissingStreamOnlyOvertaken`), for both kinds of client, both versions of libuv and any number of
  sends and chunks.  All rest on `ClientInv`: `Good(c)` relates state, stream and
  handle (an open handle is held and the state is one in which callbacks are
  admitted; a stream that is held is not deleted and its client not Closing; only
  a client without stream waits for on_close), and a chunk is handled only on an open handle.
  `Settled` and `Marked` are the state of a client without and with a stream; between the
  mark and the write of a send they need not hold, which is where the loop can meet a
  missing stream, and only there.  The write that `AssertionsUnlessDeleted` excepts is one
  libuv has still to call back on a handle already deleted.
  `ClientCorrect` proves it inductive, one lemma per member function.
- `FreedCorrect`: `Spec => []GivenUpIsFreed`, the safety core of `ClosingEnds`.  `Freed` is
  stronger by the client inside a handler: each member function that gives up the stream
  leaves an open handle closing with on_close to come, or deletes one that was closing and
  makes the client Closed.
- `AcceptedReads`: `Spec => []ReadsToTheEnd`; `AcceptedInv` adds that an accepted client never
  gives up its stream and that its handle is closed without on_close.

`NetClientRefinement.tla`
- `ClientImplementsLink`: for Kind = "out", `Spec => LinkSpec`.  `RestInv` adds that an open client
  outside a handler is Sending or Receiving, which is why nothing but a reply (or
  a libuv that refuses) closes it, and that nothing is on the wire before the
  connection is open.

`LibraryProofs.tla`
- `TypeCorrect`, `ServesCorrect` (`ServesWhenOn`), `CleanCorrect` (`CleanWhenOff`),
  `StopCorrect` (`StopFindsLoop`), `FaultsCorrect` (`FaultsOnlyAmiss`), all from
  `LibInv`: `Lock`, that the thread inside a call is the owner of the mutex, by which all
  application threads are one `Phase`; `ThreadInv` and `LoopInv`, where the loop thread
  and its loop can be in each phase; `StaleInv` and `OffInv`, that a loop left
  behind is recognised by its stop flag and was left by an early deinit;
  `SettledInv`, why a loop that has slept has no closing handle when it stops.
- `LibraryImplementsApi`: `Spec => ApiSpec`, by phase.
- `JoinedCorrect` (`JoinedIsToldToEnd`) and `NearerCorrect` (`JoinComesNearer`): what is left of
  `HolderReturns` without fairness.  In phase join the flag is set and the stop flag of a
  loop that is run is set (`JoinTold`, from `LibInv`), and no other thread takes a step; the
  loop thread then leaves sleep, callback and loop in that order and enters none again.

`WireProofs.tla`
- `RoundTrip`: the words of a message parse to the message, up to a lastSeen that is
  too large.
- `TypeCorrect`: `Spec => []TypeOK`.
- `ReadCorrect`: `Spec => []ReadAsWritten`, as long as no chunk was spoiled.  `StreamInv`: the stream is the lines
  written back to back, and `ends` says where; `BufferInv`: the buffer is the stretch of
  the stream between the end of some line k and `pos`, and the first k messages were
  handled.  The first newline of the buffer is then that of line k + 1 (`NewlineEnds`),
  and with none left, k is the number of complete lines.
- `DamageCorrect`: `Spec => []DamageIsLocal`, with bytes that fall in behind any chunk and
  zero bytes in any of them.
  The buffer is then no stretch of the stream, and `DamageInv` says what is left of it: up to
  some line k the clean lines were handled in order (`Arrived`), and of the lines after k
  those that nothing fell into lie in the buffer unharmed, one behind the other, each
  behind a newline or at the front (`Placed`).  Junk adds newlines between them and alters the
  last word of a line that it spoils; `NextLine` takes a spoiled line or piece of one, which
  leaves the others where they are, or the first of them whole, which `RoundTrip` turns into
  its message.

Assumptions: only the named ASSUMEs, all evaluated by TLC in the runs.

Only model-checked: liveness under fairness, which needs ENABLED.  These are `ComesToRest`,
`Announced`, `EveryLinkEnds`, `ClosingEnds`, `InboxRead` and `HolderReturns`.  For three of
them the proofs above give the part that is no fairness: `ReplyComes` for `EveryLinkEnds`,
`GivenUpIsFreed` for `ClosingEnds`, `JoinedIsToldToEnd` and `JoinComesNearer` for
`HolderReturns`; `ForwardOnce` bounds what `ComesToRest` has to wait for.  Every invariant,
action property and refinement of the passing runs is proved.

## 7. Plan

Done: the layers above, their abstract specifications, and a proof of every safety
property that the passing runs check.  What could follow is nodes that
come back under the same endpoint, in PeboNet: a node that is told of its own past
by the others.

Not modelled, and why.

- EmptyNetHandler has no state; the sample and test programs only call init and deinit;
  the test library replaces the network with direct calls.  `Shell::stop`, which joins
  the thread that a later deinit joins again, is called by tests alone.
- Which addresses are tried is data: ports 5000 to 5002, the bootstrap hosts, and
  extra peers.  `connect` takes only numeric addresses, so the bootstrap hosts and
  `localhost` get no connection; their clients matter to Library.tla, where their handles are
  closing when initEx returns.  `myPeersIn` is read by nobody.
- Calls into libuv are atomic.  libuv allows only uv_async_send from another thread;
  that `uv_write`, `uv_close` and `uv_stop` are called beside a running loop is a data race
  of which NetClient.tla and Library.tla take the orders of whole calls.  So is the plain
  bool `myBgThreadStop`, which a compiler might read once: the model reads it each time.
- Single characters: a name that holds a newline, or a time with letters behind it
  (stoi stops at them), is beyond the words of Wire.tla.
- Endpoint parsing has no caller for which more than the pair matters;
  `Store::count` and `countNonremoved` only read; logging and printing.
