---------------------------- MODULE LibraryProofs ----------------------------
(***************************************************************************)
(* The safety properties of Library.tla and its refinement of              *)
(* LibraryApi.tla, for any number of threads and any ports.                *)
(***************************************************************************)
EXTENDS Library, TLAPS

\* The threads inside a call are those that hold the mutex.
Holding(t) == pc[t] \in {"start", "wake", "stop", "join"}
Lock == \A t \in App : Holding(t) <=> owner = t

\* Where the call that holds the mutex is.
Phase == IF owner = Nobody THEN "free" ELSE pc[owner]
Stopping == Phase \in {"wake", "stop", "join"}

\* The loop thread lives as long as the instance, counting the calls that
\* make and end it; the stop flag is set by deinit alone.
ThreadInv ==
  /\ inst => Phase = "free"
  /\ bg # "none" <=> inst \/ Phase # "free"
  /\ inst \/ Phase = "start" => ~flag
  /\ Stopping => flag
  /\ bg = "after" => Phase = "join"
  /\ bg = "done" => Stopping
  /\ bg = "callback" => "reentered" \in amiss

\* The loop is there for its thread until uv_stop.  A thread that has not
\* looked at the flag since initEx returned has a loop with closing handles.
LoopInv ==
  /\ loop.exists \/ loop = NoLoop
  /\ bg \in {"top", "run", "poll", "callback"} => loop.exists /\ loop.ports # {}
  /\ bg = "after" => ~loop.exists
  /\ bg = "done" /\ Phase \in {"wake", "stop"} => loop.exists
  /\ bg = "done" /\ loop.exists => loop.closing /\ "early" \in amiss
  /\ Phase = "join" /\ loop.exists => loop.stop
  /\ bg = "top" /\ Phase # "start" => loop.closing

\* A loop that was left behind by a deinit that came too early is recognised
\* by its stop flag; its handles are closing.
StaleInv ==
  loop.stop /\ (Phase = "join" => bg \in {"top", "done"}) =>
    /\ bg \in {"none", "top", "run", "done"}
    /\ loop.closing /\ "early" \in amiss

\* Once the loop was asleep since initEx returned, handles that are closing
\* are closed by the wake-up that ends the sleep.
SettledInv ==
  (inst /\ settled) \/ (Stopping /\ "early" \notin amiss) =>
    /\ bg # "top"
    /\ bg = "done" => ~loop.exists
    /\ loop.exists /\ loop.closing => bg \in {"poll", "callback"}

\* Off, only a loop left behind exists.
OffInv == bg = "none" /\ loop.exists => loop.stop /\ loop.closing /\ "early" \in amiss

LifeInv == ThreadInv /\ LoopInv /\ StaleInv /\ SettledInv /\ OffInv

LibInv == TypeOK /\ Lock /\ FaultsOnlyAmiss /\ (Alive => LifeInv)

-----------------------------------------------------------------------------
(* Types and the mutex.                                                    *)

\* What getUvLoop returns is a loop that exists, and loop itself if it did.
LEMMA GetUvLoopFields ==
  ASSUME loop \in UvLoop
  PROVE  /\ GetUvLoop \in UvLoop
         /\ GetUvLoop.exists
         /\ loop.exists => GetUvLoop = loop
         /\ ~loop.exists => ~GetUvLoop.stop /\ ~GetUvLoop.closing
BY DEF UvLoop, GetUvLoop, NoLoop

LEMMA UvLoopChanges ==
  ASSUME NEW d \in UvLoop, NEW b \in BOOLEAN, NEW p \in Port \ Others
  PROVE  /\ [d EXCEPT !.ports = @ \cup {p}] \in UvLoop
         /\ [d EXCEPT !.wake = b] \in UvLoop
         /\ [d EXCEPT !.stop = b] \in UvLoop
         /\ [d EXCEPT !.closing = b] \in UvLoop
         /\ [d EXCEPT !.wake = b, !.closing = b] \in UvLoop
BY DEF UvLoop

\* InitListen binds a port that nobody else has.
LEMMA ListenPort ==
  ASSUME TypeOK, NEW t \in App, InitListen(t)
  PROVE  \E p \in Port \ Others : loop' = [GetUvLoop EXCEPT !.ports = @ \cup {p}]
  <1>1. PICK tried \in Tries : \E p \in Free(tried) :
          loop' = [GetUvLoop EXCEPT !.ports = @ \cup {p}]
    BY DEF InitListen, DoListen
  <1>2. tried \subseteq Port
    BY PortAssumption DEF Tries
  <1>3. Free(tried) \subseteq Port \ Others
    BY <1>2 DEF Free
  <1>4. QED
    BY <1>1, <1>3

\* Every step leaves loop a uv_loop_t.
LEMMA LoopStep == TypeOK /\ [Next]_vars => loop' \in UvLoop
  <1> SUFFICES ASSUME TypeOK, [Next]_vars PROVE loop' \in UvLoop
    OBVIOUS
  <1>0. loop \in UvLoop /\ loop.exists \in BOOLEAN
    BY DEF TypeOK, UvLoop
  <1>1. ASSUME NEW t \in App, InitListen(t) PROVE loop' \in UvLoop
    BY <1>0, <1>1, ListenPort, GetUvLoopFields, UvLoopChanges
  <1>2. ASSUME NEW t \in App, DeinitStop(t) \/ InitReturn(t) \/ DeinitWake(t)
        PROVE  loop' \in UvLoop
    BY <1>0, <1>2, GetUvLoopFields DEF DeinitStop, InitReturn, DeinitWake, UvLoop
  <1>3. [loop EXCEPT !.wake = FALSE, !.closing = FALSE] \in UvLoop /\ NoLoop \in UvLoop
    BY <1>0 DEF UvLoop, NoLoop
  <1>4. ASSUME Iterate \/ Wake \/ Traffic \/ Reenter \/ Exit PROVE loop' \in UvLoop
    BY <1>0, <1>3, <1>4 DEF Iterate, Wake, Traffic, Reenter, Exit
  <1>5. ASSUME NEW t \in App, CallInit(t) \/ CallDeinit(t) \/ InitAlready(t) \/ InitRefused(t)
                              \/ DeinitNot(t) \/ DeinitFlag(t) \/ DeinitJoin(t)
        PROVE loop' \in UvLoop
    BY <1>0, <1>5 DEF CallInit, CallDeinit, InitAlready, InitRefused, DeinitNot, DeinitFlag, DeinitJoin
  <1>6. ASSUME Top \/ Sleep \/ Callback \/ After \/ UNCHANGED vars PROVE loop' \in UvLoop
    BY <1>0, <1>6 DEF Top, Sleep, Callback, After, vars
  <1>7. QED
    BY <1>1, <1>2, <1>4, <1>5, <1>6 DEF Next, Call, Proceed, Run

LEMMA TypeStep == TypeOK /\ [Next]_vars => TypeOK'
  <1> SUFFICES ASSUME TypeOK, [Next]_vars PROVE TypeOK'
    OBVIOUS
  <1>0. loop' \in UvLoop
    BY LoopStep
  <1> USE <1>0 DEF TypeOK, api, history, Return
  <1>1. ASSUME NEW t \in App, Call(t) PROVE TypeOK'
    BY <1>1 DEF Call, CallInit, CallDeinit
  <1>2. ASSUME NEW t \in App, InitAlready(t) \/ InitListen(t) \/ InitRefused(t) \/ InitReturn(t)
        PROVE TypeOK'
    <2>1. CASE InitAlready(t) \/ InitRefused(t)
      BY <2>1 DEF InitAlready, InitRefused
    <2>2. CASE InitListen(t)
      BY <2>2 DEF InitListen, StartUvLoop
    <2>3. CASE InitReturn(t)
      BY <2>3 DEF InitReturn
    <2>4. QED
      BY <1>2, <2>1, <2>2, <2>3
  <1>3. ASSUME NEW t \in App, DeinitNot(t) \/ DeinitFlag(t) \/ DeinitWake(t) \/ DeinitStop(t)
                              \/ DeinitJoin(t)
        PROVE TypeOK'
    <2>1. CASE DeinitNot(t) \/ DeinitJoin(t)
      BY <2>1 DEF DeinitNot, DeinitJoin
    <2>2. CASE DeinitFlag(t)
      BY <2>2 DEF DeinitFlag
    <2>3. CASE DeinitWake(t) \/ DeinitStop(t)
      BY <2>3 DEF DeinitWake, DeinitStop
    <2>4. QED
      BY <1>3, <2>1, <2>2, <2>3
  <1>4. ASSUME Run \/ Traffic \/ Callback PROVE TypeOK'
    BY <1>4 DEF Run, Top, Iterate, Sleep, Wake, Traffic, Callback, Reenter, Exit, After
  <1>5. CASE UNCHANGED vars
    BY <1>5 DEF vars
  <1>6. QED
    BY <1>1, <1>2, <1>3, <1>4, <1>5 DEF Next, Proceed

\* Theorem: the variables have their types.
THEOREM TypeCorrect == Spec => []TypeOK
  <1>1. NoLoop \in UvLoop
    BY DEF NoLoop, UvLoop
  <1>2. Init => TypeOK
    BY <1>1 DEF Init, TypeOK
  <1>3. QED
    BY <1>2, TypeStep, PTL DEF Spec

LEMMA LockStep == TypeOK /\ Lock /\ [Next]_vars => Lock'
  <1> SUFFICES ASSUME TypeOK, Lock, [Next]_vars PROVE Lock'
    OBVIOUS
  <1> USE OwnerAssumption DEF TypeOK, Lock, Holding, api, Return
  <1>1. ASSUME NEW t \in App, Call(t) \/ Proceed(t) PROVE Lock'
    BY <1>1 DEF Call, Proceed, CallInit, CallDeinit, InitAlready, InitListen, InitRefused,
                InitReturn, DeinitNot, DeinitFlag, DeinitWake, DeinitStop, DeinitJoin
  <1>2. CASE UNCHANGED <<owner, pc>>
    BY <1>2
  <1>3. (Run \/ Traffic \/ Callback \/ UNCHANGED vars) => UNCHANGED <<owner, pc>>
    BY DEF Run, Top, Iterate, Sleep, Wake, Traffic, Callback, Reenter, Exit, After, vars
  <1>4. QED
    BY <1>1, <1>2, <1>3 DEF Next

-----------------------------------------------------------------------------
(* The instance, its thread and its loop.                                  *)

\* Where a call is decides the phase.
LEMMA PhaseOf ==
  ASSUME TypeOK, Lock
  PROVE  /\ owner = Nobody => Phase = "free"
         /\ owner # Nobody => owner \in App /\ Phase = pc[owner] /\ Holding(owner)
         /\ \A t \in App : Holding(t) => Phase = pc[t]
         /\ Phase \in {"free", "start", "wake", "stop", "join"}
         /\ \A t \in App : pc[t] \in {"init", "deinit", "idle"} => owner # t
BY OwnerAssumption DEF TypeOK, Lock, Holding, Phase

LEMMA LockPhase ==
  ASSUME TypeOK, Lock, [Next]_vars
  PROVE  /\ \A t \in App : CallInit(t) \/ CallDeinit(t) => Phase' = Phase
         /\ \A t \in App : InitAlready(t) \/ DeinitNot(t) => Phase = "free" /\ Phase' = "free"
         /\ \A t \in App : InitListen(t) => Phase = "free" /\ Phase' = "start"
         /\ \A t \in App : InitReturn(t) => Phase = "start" /\ Phase' = "free"
         /\ \A t \in App : DeinitFlag(t) => Phase = "free" /\ Phase' = "wake"
         /\ \A t \in App : DeinitWake(t) => Phase = "wake" /\ Phase' = "stop"
         /\ \A t \in App : DeinitStop(t) => Phase = "stop" /\ Phase' = "join"
         /\ \A t \in App : DeinitJoin(t) => Phase = "join" /\ Phase' = "free"
         /\ UNCHANGED <<owner, pc>> => Phase' = Phase
  <1> USE OwnerAssumption, PhaseOf DEF TypeOK, Lock, Holding
  <1>1. ASSUME NEW t \in App, CallInit(t) \/ CallDeinit(t) PROVE Phase' = Phase
    BY <1>1 DEF CallInit, CallDeinit, Phase
  <1>2. ASSUME NEW t \in App, InitAlready(t) \/ DeinitNot(t) PROVE Phase = "free" /\ Phase' = "free"
    BY <1>2 DEF InitAlready, DeinitNot, Return, Phase
  <1>3. ASSUME NEW t \in App, InitListen(t) PROVE Phase = "free" /\ Phase' = "start"
    BY <1>3 DEF InitListen, Phase
  <1>4. ASSUME NEW t \in App, InitReturn(t) PROVE Phase = "start" /\ Phase' = "free"
    BY <1>4 DEF InitReturn, Return, Phase
  <1>5. ASSUME NEW t \in App, DeinitFlag(t) PROVE Phase = "free" /\ Phase' = "wake"
    BY <1>5 DEF DeinitFlag, Phase
  <1>6. ASSUME NEW t \in App, DeinitWake(t) PROVE Phase = "wake" /\ Phase' = "stop"
    BY <1>6 DEF DeinitWake, Phase
  <1>7. ASSUME NEW t \in App, DeinitStop(t) PROVE Phase = "stop" /\ Phase' = "join"
    BY <1>7 DEF DeinitStop, Phase
  <1>8. ASSUME NEW t \in App, DeinitJoin(t) PROVE Phase = "join" /\ Phase' = "free"
    BY <1>8 DEF DeinitJoin, Return, Phase
  <1>9. UNCHANGED <<owner, pc>> => Phase' = Phase
    BY DEF Phase
  <1>10. QED
    BY <1>1, <1>2, <1>3, <1>4, <1>5, <1>6, <1>7, <1>8, <1>9

\* What a step of the application's threads makes of the life of the loop.
LEMMA AppLife ==
  ASSUME TypeOK, Lock, LifeInv, Alive', [Next]_vars,
         NEW t \in App, Call(t) \/ Proceed(t)
  PROVE  LifeInv'
  <1> USE DEF LifeInv, ThreadInv, LoopInv, StaleInv, SettledInv, OffInv, Stopping,
          api, history, Return
  <1>0. /\ loop \in UvLoop /\ amiss \subseteq {"portTaken", "early", "reentered"}
        /\ inst \in BOOLEAN /\ flag \in BOOLEAN /\ settled \in BOOLEAN
        /\ bg \in {"none", "top", "run", "poll", "callback", "after", "done"}
    BY DEF TypeOK
  <1>1. CASE CallInit(t) \/ CallDeinit(t)
    BY <1>0, <1>1, LockPhase DEF CallInit, CallDeinit
  <1>2. CASE InitAlready(t) \/ DeinitNot(t)
    BY <1>0, <1>2, LockPhase DEF InitAlready, DeinitNot
  <1>3. CASE InitListen(t)
    <2>1. PICK p \in Port \ Others : loop' = [GetUvLoop EXCEPT !.ports = @ \cup {p}]
      BY <1>3, ListenPort
    <2>2. /\ loop'.exists /\ loop'.ports # {} /\ loop'.stop = GetUvLoop.stop
          /\ loop'.closing = GetUvLoop.closing
      BY <1>0, <2>1, GetUvLoopFields DEF UvLoop
    <2>3. /\ Phase = "free" /\ Phase' = "start" /\ ~inst /\ ~inst' /\ bg' = "top" /\ ~flag'
          /\ amiss' = amiss
      BY <1>3, LockPhase DEF InitListen, StartUvLoop
    <2>4. GetUvLoop.stop => loop.stop /\ loop.exists /\ GetUvLoop.closing = loop.closing
      BY <1>0, GetUvLoopFields
    <2>5. QED
      BY <1>0, <2>2, <2>3, <2>4
  <1>4. CASE InitReturn(t)
    <2>1. Phase = "start" /\ Phase' = "free"
      BY <1>4, LockPhase
    <2>2. loop.exists
      BY <1>0, <2>1
    <2>3. /\ loop'.exists /\ loop'.ports = loop.ports /\ loop'.stop = loop.stop
          /\ loop'.closing
      BY <1>0, <1>4, <2>2 DEF InitReturn, UvLoop
    <2>4. /\ inst' /\ settled' = (bg = "poll")
          /\ UNCHANGED <<flag, bg, amiss>>
      BY <1>4 DEF InitReturn
    <2>5. QED
      BY <1>0, <2>1, <2>2, <2>3, <2>4
  <1>5. CASE DeinitFlag(t)
    BY <1>0, <1>5, LockPhase DEF DeinitFlag
  <1>6. CASE DeinitWake(t)
    <2>1. /\ loop'.exists = loop.exists /\ loop'.ports = loop.ports /\ loop'.stop = loop.stop
          /\ loop'.closing = loop.closing
      BY <1>0, <1>6 DEF DeinitWake, UvLoop
    <2>2. Phase = "wake" /\ Phase' = "stop"
      BY <1>6, LockPhase
    <2>3. loop.exists
      BY <1>0, <2>2
    <2>4. QED
      BY <1>0, <1>6, <2>1, <2>2, <2>3 DEF DeinitWake
  <1>7. CASE DeinitStop(t)
    <2>0. Phase = "stop" /\ Phase' = "join"
      BY <1>7, LockPhase
    <2>1. loop.exists
      BY <1>0, <2>0
    <2>2. /\ loop'.exists /\ loop'.ports = loop.ports /\ loop'.stop
          /\ loop'.closing = loop.closing
      BY <1>0, <1>7, <2>1, GetUvLoopFields DEF DeinitStop, UvLoop
    <2>3. QED
      BY <1>0, <1>7, <2>0, <2>1, <2>2 DEF DeinitStop
  <1>8. CASE DeinitJoin(t)
    BY <1>0, <1>8, LockPhase DEF DeinitJoin
  <1>9. CASE InitRefused(t)
    BY <1>9 DEF InitRefused, Alive
  <1>10. QED
    BY <1>1, <1>2, <1>3, <1>4, <1>5, <1>6, <1>7, <1>8, <1>9 DEF Call, Proceed

\* What a step of the loop thread makes of it.
LEMMA LoopLife ==
  ASSUME TypeOK, Lock, LifeInv, Alive', [Next]_vars, Run \/ Traffic \/ Callback
  PROVE  LifeInv'
  <1> USE DEF LifeInv, ThreadInv, LoopInv, StaleInv, SettledInv, OffInv, Stopping,
          api, history
  <1>0. /\ loop \in UvLoop /\ amiss \subseteq {"portTaken", "early", "reentered"}
        /\ inst \in BOOLEAN /\ flag \in BOOLEAN /\ settled \in BOOLEAN
        /\ bg \in {"none", "top", "run", "poll", "callback", "after", "done"}
    BY DEF TypeOK
  <1>01. Phase \in {"free", "start", "wake", "stop", "join"}
    BY PhaseOf
  <1>02. Phase' = Phase
    BY LockPhase DEF Run, Top, Iterate, Sleep, Wake, Traffic, Callback, Reenter, Exit, After
  <1>1. ASSUME NEW d, d = [loop EXCEPT !.wake = FALSE, !.closing = FALSE]
        PROVE  /\ d.exists = loop.exists /\ d.ports = loop.ports /\ d.stop = loop.stop
               /\ ~d.closing
    BY <1>0, <1>1 DEF UvLoop
  <1>2. CASE Top
    BY <1>0, <1>02, <1>01, <1>2 DEF Top
  <1>3. CASE Iterate
    BY <1>0, <1>02, <1>1, <1>3 DEF Iterate
  <1>4. CASE Sleep
    BY <1>0, <1>02, <1>4 DEF Sleep
  <1>5. CASE Wake \/ Traffic
    BY <1>0, <1>02, <1>1, <1>5 DEF Wake, Traffic
  <1>6. CASE Callback
    BY <1>0, <1>02, <1>6 DEF Callback
  <1>7. CASE Reenter
    BY <1>0, <1>02, <1>1, <1>7 DEF Reenter, Alive
  <1>8. CASE Exit
    BY <1>0, <1>02, <1>8 DEF Exit, Alive, NoLoop
  <1>9. CASE After
    BY <1>0, <1>02, <1>01, <1>9 DEF After, NoLoop
  <1>10. QED
    BY <1>2, <1>3, <1>4, <1>5, <1>6, <1>7, <1>8, <1>9 DEF Run

\* A fault is excused by what was amiss.
LEMMA FaultStep ==
  ASSUME TypeOK, Lock, FaultsOnlyAmiss, Alive => LifeInv, [Next]_vars
  PROVE  FaultsOnlyAmiss'
  <1> USE DEF FaultsOnlyAmiss, api, history, Return, Alive
  <1>1. ASSUME NEW t \in App, Call(t) PROVE FaultsOnlyAmiss'
    BY <1>1 DEF Call, CallInit, CallDeinit
  <1>2. ASSUME NEW t \in App, InitAlready(t) \/ InitListen(t) \/ InitRefused(t) \/ InitReturn(t)
        PROVE FaultsOnlyAmiss'
    BY <1>2 DEF InitAlready, InitListen, StartUvLoop, InitRefused, InitReturn
  <1>3. ASSUME NEW t \in App, DeinitNot(t) \/ DeinitFlag(t) \/ DeinitWake(t) \/ DeinitStop(t)
                              \/ DeinitJoin(t)
        PROVE FaultsOnlyAmiss'
    BY <1>3 DEF DeinitNot, DeinitFlag, DeinitWake, DeinitStop, DeinitJoin
  <1>4. CASE Top \/ Iterate \/ Sleep \/ Wake \/ After \/ Traffic \/ Callback
    BY <1>4 DEF Top, Iterate, Sleep, Wake, After, Traffic, Callback
  <1>5. ASSUME Next, Reenter PROVE FaultsOnlyAmiss'
    BY <1>5 DEF Next, Reenter, LifeInv, ThreadInv
  <1>6. ASSUME Next, Exit PROVE FaultsOnlyAmiss'
    <2>1. LifeInv
      BY <1>6 DEF Next
    <2>2. loop.closing => "early" \in amiss
      BY <1>6, <2>1 DEF Exit, LifeInv, ThreadInv, LoopInv, StaleInv, SettledInv, Stopping
    <2>3. QED
      BY <1>6, <2>2 DEF Exit
  <1>7. CASE UNCHANGED vars
    BY <1>7 DEF vars
  <1>8. QED
    BY <1>1, <1>2, <1>3, <1>4, <1>5, <1>6, <1>7 DEF Next, Proceed, Run

LEMMA InvCorrect == Spec => []LibInv
  <1>1. Init => LibInv
    <2>1. NoLoop \in UvLoop
      BY DEF NoLoop, UvLoop
    <2> SUFFICES ASSUME Init PROVE LibInv
      OBVIOUS
    <2> USE OwnerAssumption DEF Init
    <2>2. TypeOK /\ Lock /\ FaultsOnlyAmiss
      BY <2>1 DEF TypeOK, Lock, Holding, FaultsOnlyAmiss
    <2>3. LifeInv
      BY DEF LifeInv, ThreadInv, LoopInv, StaleInv, SettledInv, OffInv, Stopping, Phase, NoLoop
    <2>4. QED
      BY <2>2, <2>3 DEF LibInv
  <1>2. LibInv /\ [Next]_vars => LibInv'
    <2> SUFFICES ASSUME LibInv, [Next]_vars PROVE LibInv'
      OBVIOUS
    <2>1. TypeOK' /\ Lock' /\ FaultsOnlyAmiss'
      BY TypeStep, LockStep, FaultStep DEF LibInv
    <2>2. ASSUME Alive' PROVE LifeInv'
      <3>1. Alive
        BY <2>2 DEF Next, vars, Alive
      <3>2. CASE \E t \in App : Call(t) \/ Proceed(t)
        BY <2>2, <3>1, <3>2, AppLife DEF LibInv
      <3>3. CASE Run \/ Traffic \/ Callback
        BY <2>2, <3>1, <3>3, LoopLife DEF LibInv
      <3>4. CASE UNCHANGED vars
        BY <3>1, <3>4 DEF LibInv, LifeInv, ThreadInv, LoopInv, StaleInv, SettledInv, OffInv, Stopping,
                          Phase, vars
      <3>5. QED
        BY <3>2, <3>3, <3>4 DEF Next
    <2>3. QED
      BY <2>1, <2>2 DEF LibInv
  <1>3. QED
    BY <1>1, <1>2, PTL DEF Spec

\* Theorem: an initialised library has a loop that listens, is not told to
\* stop, and has its thread.
THEOREM ServesCorrect == Spec => []ServesWhenOn
  <1>1. LibInv => ServesWhenOn
    BY DEF LibInv, LifeInv, ThreadInv, LoopInv, StaleInv, ServesWhenOn, Stopping, TypeOK
  <1>2. QED
    BY <1>1, InvCorrect, PTL

\* Theorem: deinit leaves no thread, and no loop unless it came too early.
THEOREM CleanCorrect == Spec => []CleanWhenOff
  <1>1. LibInv => CleanWhenOff
    BY DEF LibInv, LifeInv, ThreadInv, OffInv, CleanWhenOff, Phase
  <1>2. QED
    BY <1>1, InvCorrect, PTL

\* Theorem: the loop is not deleted under the thread that is to stop it.
THEOREM StopCorrect == Spec => []StopFindsLoop
  <1>1. ASSUME LibInv, Alive, NEW t \in App, pc[t] \in {"wake", "stop"} PROVE loop.exists
    <2>1. Phase = pc[t]
      BY <1>1, PhaseOf DEF LibInv, Holding
    <2>2. QED
      BY <1>1, <2>1 DEF LibInv, LifeInv, ThreadInv, LoopInv, TypeOK
  <1>2. LibInv => StopFindsLoop
    BY <1>1 DEF StopFindsLoop
  <1>3. QED
    BY <1>2, InvCorrect, PTL

\* Theorem: no call of the library ends the process unless something was amiss.
THEOREM FaultsCorrect == Spec => []FaultsOnlyAmiss
  <1>1. LibInv => FaultsOnlyAmiss
    BY DEF LibInv
  <1>2. QED
    BY <1>1, InvCorrect, PTL

-----------------------------------------------------------------------------
(* The refinement.                                                         *)

On == inst \/ \E t \in App : InDeinit(t)

\* A thread inside deinit is the one that holds the mutex.
LEMMA OnByPhase == TypeOK /\ Lock => (On <=> inst \/ Stopping)
  <1> SUFFICES ASSUME TypeOK, Lock PROVE (\E t \in App : InDeinit(t)) <=> Stopping
    BY DEF On
  <1>1. ASSUME NEW t \in App, InDeinit(t) PROVE Stopping
    BY <1>1, PhaseOf DEF InDeinit, Holding, Stopping
  <1>2. ASSUME Stopping PROVE \E t \in App : InDeinit(t)
    BY <1>2, PhaseOf DEF InDeinit, Holding, Stopping
  <1>3. QED
    BY <1>1, <1>2

\* Theorem: initEx and deinit are atomic for the application's threads.
THEOREM LibraryImplementsApi == Spec => ApiSpec
  <1> DEFINE C == [t \in App |-> Called(pc[t])]
  <1>1. Init => Api!Init
    BY DEF Init, Api!Init, InDeinit, Called
  <1>2. LibInv /\ LibInv' /\ [Next]_vars => [Api!Next]_(Api!vars)
    <2> SUFFICES ASSUME LibInv, LibInv', [Next]_vars PROVE Api!Next \/ UNCHANGED <<On, C, result>>
      BY DEF Api!vars, On
    <2>p. (TypeOK /\ Lock)' => (On <=> inst \/ Stopping)'
      BY OnByPhase, PTL
    <2>0. /\ TypeOK /\ Lock /\ (On <=> inst \/ Stopping) /\ (On' <=> inst' \/ Stopping')
      BY OnByPhase, <2>p DEF LibInv
    <2>01. On \in BOOLEAN /\ On' \in BOOLEAN
      BY DEF On
    <2> HIDE DEF On
    <2>1. ASSUME NEW t \in App, Call(t) PROVE Api!Invoke(t)
      <3>1. PICK op \in {"init", "deinit"} : pc[t] = "idle" /\ pc' = [pc EXCEPT ![t] = op]
        BY <2>1 DEF Call, CallInit, CallDeinit
      <3>2. C[t] = "idle" /\ C' = [C EXCEPT ![t] = op]
        BY <2>0, <3>1 DEF TypeOK, Called
      <3>3. UNCHANGED <<On, result>>
        BY <2>0, <2>01, <2>1, LockPhase DEF Call, CallInit, CallDeinit, Stopping
      <3>4. QED
        BY <3>2, <3>3 DEF Api!Invoke, On
    <2>2. ASSUME Alive, NEW t \in App, InitAlready(t) \/ InitReturn(t) PROVE Api!ReturnInit(t)
      <3>1. C[t] = "init" /\ C' = [C EXCEPT ![t] = "idle"]
        <4>1. pc[t] \in {"init", "start"} /\ pc' = [pc EXCEPT ![t] = "idle"]
          BY <2>2 DEF InitAlready, InitReturn, Return
        <4>2. QED
          BY <2>0, <4>1 DEF TypeOK, Called
      <3>2. On' = TRUE /\ result' = [result EXCEPT ![t] = IF On THEN "alreadyInited" ELSE "ok"]
        <4>1. CASE InitAlready(t)
          BY <2>0, <2>01, <4>1 DEF InitAlready, Return
        <4>2. CASE InitReturn(t)
          <5>1. Phase = "start" /\ Alive
            BY <2>0, <4>2, LockPhase, <2>2
          <5>2. ~inst /\ ~Stopping
            BY <5>1 DEF LibInv, LifeInv, ThreadInv, Stopping
          <5>3. QED
            BY <2>0, <2>01, <4>2, <5>2 DEF InitReturn, Return
        <4>3. QED
          BY <2>2, <4>1, <4>2
      <3>3. QED
        BY <3>1, <3>2 DEF Api!ReturnInit, On
    <2>3. ASSUME Alive, NEW t \in App, DeinitNot(t) \/ DeinitJoin(t) PROVE Api!ReturnDeinit(t)
      <3>1. C[t] = "deinit" /\ C' = [C EXCEPT ![t] = "idle"]
        BY <2>0, <2>3 DEF DeinitNot, DeinitJoin, Return, TypeOK, Called
      <3>2. On' = FALSE /\ result' = [result EXCEPT ![t] = IF On THEN "ok" ELSE "notInited"]
        <4>1. CASE DeinitNot(t)
          <5>1. Phase = "free" /\ Phase' = "free"
            BY <2>0, <4>1, LockPhase
          <5>2. QED
            BY <2>0, <2>01, <4>1, <5>1 DEF DeinitNot, Return, Stopping
        <4>2. CASE DeinitJoin(t)
          <5>1. Phase = "join" /\ Phase' = "free" /\ Alive
            BY <2>0, <4>2, LockPhase, <2>3
          <5>2. ~inst
            BY <5>1 DEF LibInv, LifeInv, ThreadInv
          <5>3. QED
            BY <2>0, <2>01, <4>2, <5>1, <5>2 DEF DeinitJoin, Return, Stopping
        <4>3. QED
          BY <2>3, <4>1, <4>2
      <3>3. QED
        BY <3>1, <3>2 DEF Api!ReturnDeinit, On
    <2>4. ASSUME NEW t \in App, InitListen(t) \/ InitRefused(t) \/ DeinitFlag(t) \/ DeinitWake(t)
                                \/ DeinitStop(t)
          PROVE  UNCHANGED <<On, C, result>>
      <3>1. C' = C
        BY <2>0, <2>4 DEF InitListen, InitRefused, DeinitFlag, DeinitWake, DeinitStop, TypeOK, Called, api
      <3>2. result' = result
        BY <2>4 DEF InitListen, InitRefused, DeinitFlag, DeinitWake, DeinitStop, api
      <3>3. Phase \in {"free", "start", "wake", "stop", "join"}
        BY <2>0, PhaseOf
      <3>4. ASSUME InitListen(t) PROVE On' = On
        BY <2>0, <2>01, <3>4, LockPhase DEF InitListen, Stopping
      <3>5. ASSUME InitRefused(t) PROVE On' = On
        BY <2>0, <2>01, <3>5, LockPhase DEF InitRefused, Stopping, api, Phase
      <3>6. ASSUME DeinitFlag(t) PROVE On' = On
        BY <2>0, <2>01, <3>6, LockPhase DEF DeinitFlag, Stopping
      <3>7. ASSUME DeinitWake(t) \/ DeinitStop(t) PROVE On' = On
        BY <2>0, <2>01, <3>7, LockPhase DEF DeinitWake, DeinitStop, Stopping
      <3>8. On' = On
        BY <2>4, <3>4, <3>5, <3>6, <3>7
      <3>9. QED
        BY <3>1, <3>2, <3>8
    <2>5. CASE UNCHANGED api
      BY <2>5 DEF api, On, InDeinit
    <2>6. (Run \/ Traffic \/ Callback \/ UNCHANGED vars) => UNCHANGED api
      BY DEF Run, Top, Iterate, Sleep, Wake, Traffic, Callback, Reenter, Exit, After, vars, api
    <2>7. QED
      BY <2>1, <2>2, <2>3, <2>4, <2>5, <2>6 DEF Next, Proceed, Api!Next, Alive
  <1>3. QED
    BY <1>1, <1>2, InvCorrect, PTL DEF Spec, ApiSpec, Api!Spec

-----------------------------------------------------------------------------
(* The end of deinit.                                                      *)

\* What the thread that join waits for has been told.
LEMMA JoinTold ==
  ASSUME LibInv, Alive, NEW t \in App, pc[t] = "join"
  PROVE  \/ bg \in {"run", "poll", "callback"} /\ loop.exists /\ loop.stop
         \/ bg \in {"top", "after", "done"} /\ flag
  <1>1. Phase = "join"
    BY PhaseOf DEF LibInv, Holding
  <1>2. bg # "none" /\ flag
    BY <1>1 DEF LibInv, LifeInv, ThreadInv, Stopping
  <1>3. bg \in {"run", "poll", "callback"} => loop.exists /\ loop.stop
    BY <1>1 DEF LibInv, LifeInv, LoopInv
  <1>4. QED
    BY <1>2, <1>3 DEF LibInv, TypeOK

\* Theorem: the thread that deinit waits for has been told to end.
THEOREM JoinedCorrect == Spec => []JoinedIsToldToEnd
  <1>1. LibInv => JoinedIsToldToEnd
    BY JoinTold DEF JoinedIsToldToEnd
  <1>2. QED
    BY <1>1, InvCorrect, PTL

\* Theorem: every step of that thread is a step towards its end.
THEOREM NearerCorrect == Spec => JoinComesNearer
  <1>1. ASSUME LibInv, [Next]_vars, NEW t \in App, pc[t] = "join", bg' # bg, bg # "done"
        PROVE  Remaining' < Remaining
    <2>1. Alive
      BY <1>1 DEF Next, vars, Alive
    <2>2. \/ bg \in {"run", "poll", "callback"} /\ loop.exists /\ loop.stop
          \/ bg \in {"top", "after", "done"} /\ flag
      BY <1>1, <2>1, JoinTold
    <2>3. ASSUME NEW u \in App, Call(u) \/ Proceed(u) PROVE FALSE
      <3>1. owner = t /\ t # Nobody
        BY <1>1, OwnerAssumption DEF LibInv, Lock, Holding
      <3>2. CASE u = t
        BY <1>1, <2>3, <3>2 DEF Call, Proceed, CallInit, CallDeinit, InitAlready, InitListen, InitRefused,
                                InitReturn, DeinitNot, DeinitFlag, DeinitWake, DeinitStop, DeinitJoin
      <3>3. CASE u # t
        <4>1. ~Holding(u)
          BY <1>1, <3>1, <3>3 DEF LibInv, Lock
        <4>2. QED
          BY <1>1, <2>3, <3>1, <4>1 DEF Holding, Call, Proceed, CallInit, CallDeinit, InitAlready,
                InitListen, InitRefused, InitReturn, DeinitNot, DeinitFlag, DeinitWake, DeinitStop, DeinitJoin
      <3>4. QED
        BY <3>2, <3>3
    <2>4. \/ bg = "poll" /\ bg' \in {"run", "callback"}
          \/ bg = "callback" /\ bg' = "run"
          \/ bg = "run" /\ bg' = "after"
          \/ bg \in {"top", "after"} /\ bg' = "done"
      BY <1>1, <2>2, <2>3 DEF Next, vars, Run, Top, Iterate, Sleep, Wake, Traffic, Callback, Reenter,
                              Exit, After
    <2>5. QED
      BY <2>4 DEF Remaining
  <1>2. LibInv /\ [Next]_vars
          => \A t \in App : pc[t] = "join" /\ bg' # bg /\ bg # "done" => Remaining' < Remaining
    BY <1>1
  <1>3. QED
    BY <1>2, InvCorrect, PTL DEF Spec, JoinComesNearer
=============================================================================
