------------------------------- MODULE Store -------------------------------
(***************************************************************************)
(* The peer store of one process and the notifications it gives rise to.   *)
(*                                                                         *)
(* Two threads use the store: the event-loop thread, which runs            *)
(* PeboNet::peerUpdateFromPeboPeer for every PEER message, and the         *)
(* application thread, which runs Shell::start and Shell::stop.  Each      *)
(* access is atomic under Store::myMutex; the notification that follows    *)
(* an update is a step of its own, because it runs outside the mutex.      *)
(***************************************************************************)
EXTENDS StoreOps

CONSTANTS Self,     \* the key the application passed to init
          MaxTime   \* bound on the readings of TimeStamp::now

ASSUME SelfAssumption == Self \in Key
ASSUME MaxTimeAssumption == MaxTime \in Nat

VARIABLES myStore,  \* Store::myStore
          now,      \* TimeStamp::now: the system's clock, which may be set back
          shown,    \* history: what now has been
          phase,    \* the application thread in Shell
          calling,  \* the notification the loop thread has still to make
          view      \* history: what the application learned from the callback

vars == <<myStore, now, shown, phase, calling, view>>

Time == 0 .. MaxTime
StatusOf(removed) == IF removed THEN "removed" ELSE "present"

\* The status of a key in the store.
Status(k) == IF k \in DOMAIN myStore THEN StatusOf(myStore[k].isRemoved) ELSE "absent"

Init == /\ myStore = EmptyStore
        /\ now = 0
        /\ shown = {0}
        /\ phase = "inited"
        /\ calling = {}
        /\ view = [k \in Key |-> "absent"]

-----------------------------------------------------------------------------
(* The event-loop thread.                                                  *)

\* peerUpdateFromPeboPeer up to the callback: update the store and decide on
\* the result whether the application is to be told.
PeerUpdate(k, removed, seen) ==
  /\ phase # "stopped"
  /\ calling = {}
  /\ myStore' = FindAndUpdate(myStore, k, removed, seen, now)
  /\ calling' = IF IsNews(ResultOf(myStore, k, removed))
                THEN {[key |-> k, isRemoved |-> removed]} ELSE {}
  /\ UNCHANGED <<now, shown, phase, view>>

\* doClientCallback, Shell::notifyFromPeboNet and the application's callback.
Callback ==
  \E c \in calling :
    /\ view' = [view EXCEPT ![c.key] = StatusOf(c.isRemoved)]
    /\ calling' = {}
    /\ UNCHANGED <<myStore, now, shown, phase>>

-----------------------------------------------------------------------------
(* The application thread.                                                 *)

\* Shell::start stores the own endpoint; the loop thread already runs.
StartOwn ==
  /\ phase = "inited"
  /\ phase' = "started"
  /\ myStore' = FindAndUpdate(myStore, Self, FALSE, now, now)
  /\ UNCHANGED <<now, shown, calling, view>>

\* Mutation: the store is cleared while the loop thread goes on.
StopNoJoin ==
  /\ phase = "started"
  /\ phase' = phase
  /\ myStore' = EmptyStore
  /\ UNCHANGED <<now, shown, calling, view>>

\* Shell::stop: NetHandler::stop joins the loop thread, so no update is under
\* way when the store is cleared.
Stop ==
  /\ phase = "started"
  /\ calling = {}
  /\ phase' = "stopped"
  /\ myStore' = EmptyStore
  /\ UNCHANGED <<now, shown, calling, view>>

\* Nothing keeps the clock of the system from being set, forward or back.
Tick ==
  /\ \E t \in Time : /\ now' = t
                     /\ shown' = shown \cup {t}
  /\ UNCHANGED <<myStore, phase, calling, view>>

Next == \/ \E k \in Key, removed \in BOOLEAN, seen \in Time : PeerUpdate(k, removed, seen)
        \/ Callback
        \/ StartOwn
        \/ Stop
        \/ Tick

Spec == Init /\ [][Next]_vars

-----------------------------------------------------------------------------
(* Properties.                                                             *)

News == [key : Key, isRemoved : BOOLEAN]

\* The variables have their types, at most one notification is under way, and
\* every addedTime is a time this node's clock has shown, never the lastSeen a
\* peer sent (store.cpp:34-41).
TypeOK ==
  /\ IsStore(myStore)
  /\ \A k \in DOMAIN myStore : myStore[k].addedTime \in shown
  /\ now \in shown /\ shown \subseteq Time
  /\ phase \in {"inited", "started", "stopped"}
  /\ calling = {} \/ \E c \in News : calling = {c}
  /\ view \in [Key -> {"absent", "present", "removed"}]

\* What the application will have been told once the notification under way
\* is made.
Told(k) == IF \E c \in calling : c.key = k
           THEN StatusOf((CHOOSE c \in calling : c.key = k).isRemoved)
           ELSE view[k]

\* An application that only folds its callbacks knows the status of every
\* foreign key: nothing the store learns goes untold, and nothing it was told
\* is out of date, but for the one notification under way
\* (pebo_net.cpp:187-204, "peer info added or updated").
ViewInSync ==
  phase # "stopped" => \A k \in Key \ {Self} : Told(k) = Status(k)

\* No callback repeats to the application what it already knows of a foreign
\* key, however often peers repeat themselves (pebo_net.cpp:190-194, "it was
\* already known, do nothing").
NoRedundantCallback ==
  [][\A k \in Key \ {Self} : (\E c \in calling : c.key = k) /\ calling' = {}
       => view'[k] # view[k]]_vars

\* The store with its split-off callback behaves as the directory whose view
\* moves together with its content.
Dir == INSTANCE Directory WITH
         dir   <- [k \in Key |-> Status(k)],
         since <- [k \in Key |-> IF k \in DOMAIN myStore THEN myStore[k].addedTime ELSE 0],
         view  <- [k \in Key |-> Told(k)],
         clock <- now,
         open  <- phase # "stopped"

\* Directory.tla's specification under that mapping: statuses change one at a
\* time, a refresh changes neither status nor addedTime, and callbacks take
\* effect at the store update (store.cpp:29-62, pebo_net.cpp:187-204).
DirectorySpec == Dir!Spec
=============================================================================
