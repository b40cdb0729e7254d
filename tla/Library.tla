------------------------------- MODULE Library -------------------------------
(***************************************************************************)
(* initEx and deinit (lib.cpp), the life cycle of Shell and NetHandler     *)
(* beneath them, and the thread that runs the event loop.                  *)
(*                                                                         *)
(* The application's threads take turns by the global mutex.  The loop     *)
(* thread takes part in nothing but the stop flag and the loop itself,     *)
(* under no lock.  What the loop serves is in NetClient.tla and            *)
(* PeboNet.tla; here it sleeps in epoll, is woken and looks at its own     *)
(* stop flag.                                                              *)
(***************************************************************************)
EXTENDS Naturals

CONSTANTS App,     \* the application's threads
          Nobody,  \* the owner of the mutex when it is free
          Port,
          Others,  \* the ports that other processes listen on
          DefaultPorts \* the ten tried when none is asked for

ASSUME OwnerAssumption == Nobody \notin App
ASSUME PortAssumption == Port \subseteq Nat /\ Others \subseteq Port /\ DefaultPorts \subseteq Port

VARIABLES inst,    \* global_instance is set
          owner,   \* of global_init_mutex
          pc,      \* where each application thread is
          result,  \* of each thread's last call
          flag,    \* myBgThreadStop
          loop,    \* the static myUvLoop
          bg,      \* where the loop thread is
          fault,   \* what has ended the process
          settled, \* history: the loop was asleep since initEx returned
          amiss    \* history: what the application or the system did amiss

vars == <<inst, owner, pc, result, flag, loop, bg, fault, settled, amiss>>
api == <<inst, owner, pc, result>>
history == <<settled, amiss>>

\* A uv_loop_t: its stop_flag, whether the async handle was sent, whether a
\* handle is closing, and the ports its server handles hold.
UvLoop == [exists : BOOLEAN, stop : BOOLEAN, wake : BOOLEAN, closing : BOOLEAN,
           ports : SUBSET (Port \ Others)]
NoLoop == [exists |-> FALSE, stop |-> FALSE, wake |-> FALSE, closing |-> FALSE, ports |-> {}]

GetUvLoop == IF loop.exists THEN loop ELSE [NoLoop EXCEPT !.exists = TRUE]

Init == /\ inst = FALSE
        /\ owner = Nobody
        /\ pc = [t \in App |-> "idle"]
        /\ result = [t \in App |-> "none"]
        /\ flag = FALSE
        /\ loop = NoLoop
        /\ bg = "none"
        /\ fault = "none"
        /\ settled = FALSE
        /\ amiss = {}

-----------------------------------------------------------------------------
(* The application's threads.                                              *)

CallInit(t) ==
  /\ pc[t] = "idle"
  /\ pc' = [pc EXCEPT ![t] = "init"]
  /\ UNCHANGED <<inst, owner, result, flag, loop, bg, fault, history>>

CallDeinit(t) ==
  /\ pc[t] = "idle"
  /\ pc' = [pc EXCEPT ![t] = "deinit"]
  /\ UNCHANGED <<inst, owner, result, flag, loop, bg, fault, history>>

\* The call is over, the mutex free.
Return(t, res) ==
  /\ owner' = Nobody
  /\ pc' = [pc EXCEPT ![t] = "idle"]
  /\ result' = [result EXCEPT ![t] = res]

InitAlready(t) ==
  /\ pc[t] = "init" /\ owner = Nobody
  /\ inst
  /\ Return(t, "alreadyInited")
  /\ UNCHANGED <<inst, flag, loop, bg, fault, history>>

\* Mutation: the port is shared with who has it.
FreeShared(tried) == tried \ loop.ports

\* The ports of those tried at which bind and listen succeed.
Free(tried) == tried \ (Others \cup loop.ports)

\* Mutation: initEx does not lock.
InitListenUnlocked(t) ==
  /\ pc[t] = "init"
  /\ ~inst
  /\ \E p \in Free(DefaultPorts) : loop' = [GetUvLoop EXCEPT !.ports = @ \cup {p}]
  /\ owner' = t
  /\ pc' = [pc EXCEPT ![t] = "start"]
  /\ flag' = FALSE
  /\ bg' = "top"
  /\ UNCHANGED <<inst, result, fault, history>>

\* The ports that initEx may be told to try: one, or those of the default.
Tries == {{p} : p \in Port} \cup {DefaultPorts}

\* The first free one of the ports tried is bound and listened on.
DoListen(tried) ==
  \E p \in Free(tried) : /\ \A q \in Free(tried) : p <= q
                         /\ loop' = [GetUvLoop EXCEPT !.ports = @ \cup {p}]

StartUvLoop == flag' = FALSE /\ bg' = "top"

\* Shell::init: after the port is open the outgoing clients are created, and
\* the thread is started.
InitListen(t) ==
  /\ pc[t] = "init" /\ owner = Nobody
  /\ ~inst
  /\ \E tried \in Tries : DoListen(tried)
  /\ owner' = t
  /\ pc' = [pc EXCEPT ![t] = "start"]
  /\ StartUvLoop
  /\ UNCHANGED <<inst, result, fault, history>>

\* No port is to be had.  initEx deletes the Shell, whose destructor stops a
\* loop that was not started: uv_async_send of a null handle.
InitRefused(t) ==
  /\ pc[t] = "init" /\ owner = Nobody
  /\ ~inst
  /\ \E tried \in Tries : Free(tried) = {}
  /\ fault' = "nullAsync"
  /\ amiss' = amiss \cup {"portTaken"}
  /\ UNCHANGED <<api, flag, loop, bg, settled>>

\* Shell::start: the sends to the bootstrap peers, whose names connect cannot
\* resolve and which have no socket, close their handles.  initEx returns.
InitReturn(t) ==
  /\ pc[t] = "start"
  /\ loop' = [loop EXCEPT !.closing = loop.exists]
  /\ inst' = TRUE
  /\ Return(t, "ok")
  /\ settled' = (bg = "poll")
  /\ UNCHANGED <<flag, bg, fault, amiss>>

DeinitNot(t) ==
  /\ pc[t] = "deinit" /\ owner = Nobody
  /\ ~inst
  /\ Return(t, "notInited")
  /\ UNCHANGED <<inst, flag, loop, bg, fault, history>>

\* Mutation: deinit says good bye first, on clients without a socket too.
DeinitFlagSaysBye(t) ==
  /\ pc[t] = "deinit" /\ owner = Nobody
  /\ inst
  /\ owner' = t
  /\ inst' = FALSE
  /\ flag' = TRUE
  /\ loop' = [loop EXCEPT !.closing = loop.exists]
  /\ pc' = [pc EXCEPT ![t] = "wake"]
  /\ amiss' = IF settled THEN amiss ELSE amiss \cup {"early"}
  /\ UNCHANGED <<result, bg, fault, settled>>

\* Mutation: uv_stop before uv_async_send.
DeinitFlagStops(t) ==
  /\ pc[t] = "deinit" /\ owner = Nobody
  /\ inst
  /\ owner' = t
  /\ inst' = FALSE
  /\ flag' = TRUE
  /\ loop' = [GetUvLoop EXCEPT !.stop = TRUE]
  /\ pc' = [pc EXCEPT ![t] = "wake"]
  /\ amiss' = IF settled THEN amiss ELSE amiss \cup {"early"}
  /\ UNCHANGED <<result, bg, fault, settled>>

\* deinit and Shell::deinit, up to the first line of stopUvLoop.
DeinitFlag(t) ==
  /\ pc[t] = "deinit" /\ owner = Nobody
  /\ inst
  /\ owner' = t
  /\ inst' = FALSE
  /\ flag' = TRUE
  /\ pc' = [pc EXCEPT ![t] = "wake"]
  /\ amiss' = IF settled THEN amiss ELSE amiss \cup {"early"}
  /\ UNCHANGED <<result, loop, bg, fault, settled>>

\* uv_async_send.
DeinitWake(t) ==
  /\ pc[t] = "wake"
  /\ loop' = [loop EXCEPT !.wake = TRUE]
  /\ pc' = [pc EXCEPT ![t] = "stop"]
  /\ UNCHANGED <<inst, owner, result, flag, bg, fault, history>>

\* Mutation: no uv_stop.
DeinitStopNot(t) ==
  /\ pc[t] = "stop"
  /\ pc' = [pc EXCEPT ![t] = "join"]
  /\ UNCHANGED <<inst, owner, result, flag, loop, bg, fault, history>>

\* uv_stop, on whatever getUvLoop returns.
DeinitStop(t) ==
  /\ pc[t] = "stop"
  /\ loop' = [GetUvLoop EXCEPT !.stop = TRUE]
  /\ pc' = [pc EXCEPT ![t] = "join"]
  /\ UNCHANGED <<inst, owner, result, flag, bg, fault, history>>

\* Mutation: the thread is detached.
DeinitJoinNot(t) ==
  /\ pc[t] = "join"
  /\ Return(t, "ok")
  /\ UNCHANGED <<inst, flag, loop, bg, fault, history>>

\* join returns, the Shell is deleted.
DeinitJoin(t) ==
  /\ pc[t] = "join"
  /\ bg = "done"
  /\ bg' = "none"
  /\ Return(t, "ok")
  /\ UNCHANGED <<inst, flag, loop, fault, history>>

-----------------------------------------------------------------------------
(* The loop thread.                                                        *)

\* Mutation: the loop is run before the flag is looked at.
TopRuns ==
  /\ bg = "top"
  /\ bg' = "run"
  /\ UNCHANGED <<api, flag, loop, fault, history>>

\* The condition of doBgThread's while.
Top ==
  /\ bg = "top"
  /\ bg' = IF flag THEN "done" ELSE "run"
  /\ UNCHANGED <<api, flag, loop, fault, history>>

\* One iteration of uv_run without sleep, for handles are closing.
Iterate ==
  /\ bg = "run"
  /\ loop.exists /\ ~loop.stop /\ loop.closing
  /\ loop' = [loop EXCEPT !.wake = FALSE, !.closing = FALSE]
  /\ UNCHANGED <<api, flag, bg, fault, history>>

\* The stop flag is not set; the loop waits for events.
Sleep ==
  /\ bg = "run"
  /\ loop.exists /\ ~loop.stop /\ ~loop.closing
  /\ bg' = "poll"
  /\ settled' = TRUE
  /\ UNCHANGED <<api, flag, loop, fault, amiss>>

\* The async handle wakes the loop; then handles are closed.
Wake ==
  /\ bg = "poll"
  /\ loop.wake
  /\ bg' = "run"
  /\ loop' = [loop EXCEPT !.wake = FALSE, !.closing = FALSE]
  /\ UNCHANGED <<api, flag, fault, history>>

\* Something happened on a socket.
Traffic ==
  /\ bg = "poll"
  /\ bg' = "run"
  /\ loop' = [loop EXCEPT !.wake = FALSE, !.closing = FALSE]
  /\ UNCHANGED <<api, flag, fault, history>>

\* Or it led to the application's callback, which calls the library itself.
Callback ==
  /\ bg = "poll"
  /\ bg' = "callback"
  /\ amiss' = amiss \cup {"reentered"}
  /\ UNCHANGED <<api, flag, loop, fault, settled>>

\* A call from the callback gets the mutex: initEx fails and returns, deinit
\* comes to join the thread it runs on.
Reenter ==
  /\ bg = "callback"
  /\ owner = Nobody
  /\ \/ /\ bg' = "run"
        /\ loop' = [loop EXCEPT !.wake = FALSE, !.closing = FALSE]
        /\ UNCHANGED fault
     \/ /\ fault' = "selfJoin"
        /\ UNCHANGED <<bg, loop>>
  /\ UNCHANGED <<api, flag, history>>

\* Mutation: runLoop does not delete the loop.
ExitKeepsLoop ==
  /\ bg = "run"
  /\ loop.exists /\ loop.stop
  /\ IF loop.closing
     THEN fault' = "closedTwice" /\ UNCHANGED <<bg, loop>>
     ELSE bg' = "after" /\ loop' = [loop EXCEPT !.stop = FALSE, !.ports = {}] /\ UNCHANGED fault
  /\ UNCHANGED <<api, flag, history>>

\* uv_run returns.  The walk closes every handle, where one that is closing
\* already hits libuv's assertion, and the loop is deleted.
Exit ==
  /\ bg = "run"
  /\ loop.exists /\ loop.stop
  /\ IF loop.closing
     THEN fault' = "closedTwice" /\ UNCHANGED <<bg, loop>>
     ELSE bg' = "after" /\ loop' = NoLoop /\ UNCHANGED fault
  /\ UNCHANGED <<api, flag, history>>

\* runLoop has returned to doBgThread.
After ==
  /\ bg = "after"
  /\ bg' = IF flag THEN "done" ELSE "top"
  /\ UNCHANGED <<api, flag, loop, fault, history>>

-----------------------------------------------------------------------------

Call(t) == CallInit(t) \/ CallDeinit(t)

Proceed(t) == \/ InitAlready(t) \/ InitListen(t) \/ InitRefused(t) \/ InitReturn(t)
              \/ DeinitNot(t) \/ DeinitFlag(t) \/ DeinitWake(t) \/ DeinitStop(t) \/ DeinitJoin(t)

Run == Top \/ Iterate \/ Sleep \/ Wake \/ Reenter \/ Exit \/ After

\* Nothing goes on after a fault: the process is gone.
Next == /\ fault = "none"
        /\ \/ \E t \in App : Call(t) \/ Proceed(t)
           \/ Run \/ Traffic \/ Callback

Spec == Init /\ [][Next]_vars

\* The operating system schedules every thread that can run, and a mutex that
\* is free is given to somebody.  Nobody owes the process a call, a packet or
\* a callback.
Fairness == /\ WF_vars(fault = "none" /\ Run)
            /\ \A t \in App : WF_vars(fault = "none" /\ Proceed(t))

FairSpec == Spec /\ Fairness

-----------------------------------------------------------------------------
(* Properties.                                                             *)

\* The variables have their types; no port is taken from another process.
TypeOK ==
  /\ inst \in BOOLEAN /\ flag \in BOOLEAN /\ settled \in BOOLEAN
  /\ owner \in App \cup {Nobody}
  /\ pc \in [App -> {"idle", "init", "start", "deinit", "wake", "stop", "join"}]
  /\ result \in [App -> {"none", "ok", "alreadyInited", "notInited"}]
  /\ loop \in UvLoop
  /\ bg \in {"none", "top", "run", "poll", "callback", "after", "done"}
  /\ fault \in {"none", "nullAsync", "selfJoin", "closedTwice"}
  /\ amiss \subseteq {"portTaken", "early", "reentered"}

Alive == fault = "none"

\* While the library is initialised its loop is there, listens on a port, has
\* not been told to stop, and its thread is in it or on the way; unless some
\* deinit came before the loop of its instance had first gone to sleep
\* (net_handler.cpp:71-100, 325-339).
ServesWhenOn ==
  Alive /\ inst /\ "early" \notin amiss =>
    /\ loop.exists /\ loop.ports # {} /\ ~loop.stop
    /\ ~flag /\ bg \in {"top", "run", "poll", "callback"}

\* When it is not, and no call is under way, no thread is left behind, and
\* with the same exception no loop and no port (lib.cpp:62-75).
CleanWhenOff ==
  Alive /\ ~inst /\ owner = Nobody =>
    bg = "none" /\ (loop.exists => "early" \in amiss)

\* stopUvLoop never wakes or stops a loop that was deleted under it: the loop
\* thread cannot leave its loop before uv_stop, which comes last
\* (net_handler.cpp:91-94).
StopFindsLoop ==
  Alive => \A t \in App : pc[t] \in {"wake", "stop"} => loop.exists

\* Of the faults of initEx and deinit, each has its cause: a port that is taken,
\* a call from the callback, a deinit that came too early.  What a client's
\* faults end, NetClient.tla tells (net_handler.cpp:39-69).
FaultsOnlyAmiss ==
  /\ fault = "nullAsync" => "portTaken" \in amiss
  /\ fault = "selfJoin" => "reentered" \in amiss
  /\ fault = "closedTwice" => "early" \in amiss

InDeinit(t) == pc[t] \in {"wake", "stop", "join"}
Called(p) == CASE p = "idle" -> "idle"
               [] p \in {"init", "start"} -> "init"
               [] OTHER -> "deinit"

Api == INSTANCE LibraryApi WITH on <- inst \/ \E t \in App : InDeinit(t),
                                call <- [t \in App |-> Called(pc[t])]

\* For the application's threads initEx and deinit are the atomic calls of
\* LibraryApi.tla, whatever the loop thread does (lib.cpp:23-75).
ApiSpec == Api!Spec

\* A deinit in join waits for a thread that is about to end: the thread is in a
\* loop that is there and has been told to stop, or looks at its flag next and
\* finds it set; a loop that was deleted it does not enter again
\* (net_handler.cpp:71-100, 325-339).
JoinedIsToldToEnd ==
  Alive /\ (\E t \in App : pc[t] = "join") =>
    \/ bg \in {"run", "poll", "callback"} /\ loop.exists /\ loop.stop
    \/ bg \in {"top", "after", "done"} /\ flag

\* What the loop thread has still to do once it was told to end.
Remaining == CASE bg = "poll" -> 4 [] bg = "callback" -> 3 [] bg = "run" -> 2
               [] bg \in {"top", "after"} -> 1 [] OTHER -> 0

\* While deinit waits, every step of the thread, whatever happens on its
\* sockets, brings it nearer to its end: it never sleeps or starts the loop
\* again (net_handler.cpp:325-339).
JoinComesNearer ==
  [][\A t \in App : pc[t] = "join" /\ bg' # bg /\ bg # "done" => Remaining' < Remaining]_vars

\* The wake-up was used up before the stop flag was set: the loop sleeps until
\* something happens on a socket.
SleepsOn == bg = "poll" /\ loop.stop /\ ~loop.wake

\* Whoever holds the mutex gives it back, unless the loop thread sleeps on, or
\* waits in the callback for the same mutex (net_handler.cpp:87-100).
HolderReturns ==
  \A t \in App : owner = t ~> owner # t \/ ~Alive \/ SleepsOn \/ bg = "callback"

-----------------------------------------------------------------------------
(* Two promises of the comments, which the code does not keep.             *)

\* net_handler.cpp:96: the thread ends, and join returns.
DeinitReturns ==
  \A t \in App : pc[t] = "join" ~> pc[t] = "idle" \/ ~Alive \/ "reentered" \in amiss

\* peerboot.hpp:72: a failure of initEx is an error that it returns.
InitReports == fault # "nullAsync"
=============================================================================
