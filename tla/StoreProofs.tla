---------------------------- MODULE StoreProofs ----------------------------
(***************************************************************************)
(* Proofs about Store.tla for every set of services and endpoints and every *)
(* bound on the clock.                                                     *)
(***************************************************************************)
EXTENDS Store, TLAPS

(* The entry findAndUpdate writes is a PeerInfo (store.cpp:34-41, 58-59).    *)
LEMMA NewInfoType ==
  ASSUME NEW st, IsStore(st), NEW k \in Key, NEW removed \in BOOLEAN,
         NEW seen \in Nat, NEW time \in Nat
  PROVE  NewInfo(st, k, removed, seen, time) \in PeerInfo
  <1>1. k \in DOMAIN st => st[k] \in PeerInfo
    BY DEF IsStore
  <1> QED  BY <1>1 DEF NewInfo, ResultOf, FindPeer, PeerInfo

(* findAndUpdate turns a store into a store (store.cpp:29-83). *)
LEMMA FindAndUpdateType ==
  ASSUME NEW st, IsStore(st), NEW k \in Key, NEW removed \in BOOLEAN,
         NEW seen \in Nat, NEW time \in Nat
  PROVE  IsStore(FindAndUpdate(st, k, removed, seen, time))
  BY NewInfoType DEF FindAndUpdate, AddPeer, IsStore

(* After findAndUpdate the updated key is in the store and no other key has
   come or gone (store.cpp:64-83).                                         *)
LEMMA FindAndUpdateDomain ==
  ASSUME NEW st, NEW k, NEW removed, NEW seen, NEW time
  PROVE  DOMAIN FindAndUpdate(st, k, removed, seen, time) = DOMAIN st \cup {k}
  BY DEF FindAndUpdate, AddPeer

(* findAndUpdate writes the entry of its key and no other (store.cpp:64-83). *)
LEMMA FindAndUpdateValue ==
  ASSUME NEW st, NEW k, NEW removed, NEW seen, NEW time, NEW j \in DOMAIN st \cup {k}
  PROVE  FindAndUpdate(st, k, removed, seen, time)[j]
           = IF j = k THEN NewInfo(st, k, removed, seen, time) ELSE st[j]
  BY DEF FindAndUpdate, AddPeer

(* The entry findAndUpdate writes: removed as the caller says, and added now
   unless the key was there with the same flag (store.cpp:33-61).          *)
LEMMA NewInfoFields ==
  ASSUME NEW st, NEW k, NEW removed, NEW seen, NEW time
  PROVE  /\ NewInfo(st, k, removed, seen, time).isRemoved = removed
         /\ ResultOf(st, k, removed) # "updatedOnlyTime"
              => NewInfo(st, k, removed, seen, time).addedTime = time
         /\ ResultOf(st, k, removed) = "updatedOnlyTime"
              => /\ k \in DOMAIN st
                 /\ st[k].isRemoved = removed
                 /\ NewInfo(st, k, removed, seen, time).addedTime = st[k].addedTime
         /\ ResultOf(st, k, removed) # "updatedOnlyTime" /\ k \in DOMAIN st
              => st[k].isRemoved # removed
  BY DEF NewInfo, ResultOf, FindPeer

(* The empty store is a store without keys. *)
LEMMA EmptyStoreFacts == IsStore(EmptyStore) /\ DOMAIN EmptyStore = {}
  BY DEF EmptyStore, IsStore

-----------------------------------------------------------------------------

(* Entries dated by this node's clock stay so under findAndUpdate. *)
LEMMA DatesKept ==
  ASSUME TypeOK, NEW k \in Key, NEW removed \in BOOLEAN, NEW seen \in Time
  PROVE  /\ IsStore(FindAndUpdate(myStore, k, removed, seen, now))
         /\ \A j \in DOMAIN FindAndUpdate(myStore, k, removed, seen, now) :
              FindAndUpdate(myStore, k, removed, seen, now)[j].addedTime \in shown
  <1>1. now \in Nat /\ seen \in Nat /\ IsStore(myStore)
    BY MaxTimeAssumption DEF TypeOK, Time
  <1>2. IsStore(FindAndUpdate(myStore, k, removed, seen, now))
    BY <1>1, FindAndUpdateType
  <1>3. NewInfo(myStore, k, removed, seen, now).addedTime \in shown
    BY <1>1, NewInfoFields DEF TypeOK
  <1>4. ASSUME NEW j \in DOMAIN FindAndUpdate(myStore, k, removed, seen, now)
        PROVE  FindAndUpdate(myStore, k, removed, seen, now)[j].addedTime \in shown
    <2>1. j \in DOMAIN myStore \cup {k}
      BY <1>4 DEF FindAndUpdate, AddPeer
    <2>2. FindAndUpdate(myStore, k, removed, seen, now)[j]
            = IF j = k THEN NewInfo(myStore, k, removed, seen, now) ELSE myStore[j]
      BY <2>1, FindAndUpdateValue
    <2> QED  BY <1>3, <2>1, <2>2 DEF TypeOK
  <1> QED  BY <1>2, <1>4

(* Every step of Store.tla keeps the types, and dates entries by this node's
   clock.                                                                  *)
LEMMA TypeStep == TypeOK /\ [Next]_vars => TypeOK'
  <1> SUFFICES ASSUME TypeOK, [Next]_vars PROVE TypeOK'
    OBVIOUS
  <1> USE SelfAssumption, MaxTimeAssumption
  <1>0. now \in Nat /\ now \in Time
    BY DEF TypeOK, Time
  <1>1. ASSUME NEW k \in Key, NEW removed \in BOOLEAN, NEW seen \in Time,
               PeerUpdate(k, removed, seen)
        PROVE  TypeOK'
    <2>1. IsStore(myStore') /\ \A j \in DOMAIN myStore' : myStore'[j].addedTime \in shown'
      BY <1>1, DatesKept DEF PeerUpdate
    <2>2. calling' = {} \/ \E c \in News : calling' = {c}
      BY <1>1 DEF PeerUpdate, News
    <2> QED  BY <1>1, <2>1, <2>2 DEF TypeOK, PeerUpdate
  <1>2. CASE Callback
    <2>1. PICK c \in calling : Callback!(c)
      BY <1>2 DEF Callback
    <2>2. c \in News
      BY <2>1 DEF TypeOK
    <2> QED  BY <2>1, <2>2 DEF TypeOK, News, StatusOf
  <1>3. CASE StartOwn
    <2>1. IsStore(myStore') /\ \A j \in DOMAIN myStore' : myStore'[j].addedTime \in shown'
      BY <1>0, <1>3, DatesKept DEF StartOwn
    <2> QED  BY <1>3, <2>1 DEF TypeOK, StartOwn
  <1>4. CASE Stop
    <2>1. IsStore(EmptyStore) /\ DOMAIN EmptyStore = {}
      BY EmptyStoreFacts
    <2> QED  BY <1>4, <2>1 DEF TypeOK, Stop
  <1>5. CASE Tick
    <2>1. now' \in shown' /\ shown' \subseteq Time /\ shown \subseteq shown'
      BY <1>5 DEF TypeOK, Tick
    <2> QED  BY <1>5, <2>1 DEF TypeOK, Tick
  <1>6. CASE UNCHANGED vars
    BY <1>6 DEF TypeOK, vars
  <1> QED  BY <1>1, <1>2, <1>3, <1>4, <1>5, <1>6 DEF Next

(* Type correctness of the store, including that every addedTime is one the
   local clock has shown (store.cpp:34-41).                                *)
THEOREM TypeCorrect == Spec => []TypeOK
  <1>1. Init => TypeOK
    BY SelfAssumption, MaxTimeAssumption, EmptyStoreFacts DEF Init, TypeOK, Time
  <1> QED  BY <1>1, TypeStep, PTL DEF Spec

-----------------------------------------------------------------------------
(* The status of every key after findAndUpdate: the updated key takes the
   arriving flag, the others keep theirs.                                  *)
LEMMA StatusAfter ==
  ASSUME NEW k \in Key, NEW removed, NEW seen, NEW j,
         myStore' = FindAndUpdate(myStore, k, removed, seen, now)
  PROVE  Status(j)' = IF j = k THEN StatusOf(removed) ELSE Status(j)
  <1>1. j = k => Status(j)' = StatusOf(removed)
    <2>1. NewInfo(myStore, k, removed, seen, now).isRemoved = removed
      BY NewInfoFields
    <2>2. k \in DOMAIN myStore' /\ myStore'[k] = NewInfo(myStore, k, removed, seen, now)
      BY DEF FindAndUpdate, AddPeer
    <2> QED  BY <2>1, <2>2 DEF Status
  <1>2. j # k => Status(j)' = Status(j)
    BY DEF Status, FindAndUpdate, AddPeer
  <1> QED  BY <1>1, <1>2

(* peerUpdateFromPeboPeer calls the application exactly when the status of
   the key is not already the arriving one (store.cpp:43-61,
   pebo_net.cpp:190-203).                                                  *)
LEMMA NewsIffStatusChanges ==
  ASSUME NEW k \in Key, NEW removed \in BOOLEAN, IsStore(myStore)
  PROVE  IsNews(ResultOf(myStore, k, removed)) <=> Status(k) # StatusOf(removed)
  <1>1. k \in DOMAIN myStore => myStore[k].isRemoved \in BOOLEAN
    BY DEF IsStore, PeerInfo
  <1>2. CASE k \in DOMAIN myStore
    BY <1>1, <1>2 DEF IsNews, ResultOf, FindPeer, Status, StatusOf
  <1>3. CASE k \notin DOMAIN myStore
    BY <1>3 DEF IsNews, ResultOf, FindPeer, Status, StatusOf
  <1> QED  BY <1>2, <1>3

(* With no notification under way the application was told what it knows. *)
LEMMA ToldIdle == ASSUME NEW j, calling = {} PROVE Told(j) = view[j]
  BY DEF Told

(* With one notification under way only its key is told ahead of the view. *)
LEMMA ToldCalling ==
  ASSUME NEW j, NEW c, calling = {c}
  PROVE  Told(j) = IF c.key = j THEN StatusOf(c.isRemoved) ELSE view[j]
  BY DEF Told

-----------------------------------------------------------------------------

(* The notification under way is about a status the application was not yet
   told: what peerUpdateFromPeboPeer decided under the store's mutex is still
   right when the callback runs.                                           *)
CallIsNews ==
  \A c \in calling : c.key # Self => view[c.key] # StatusOf(c.isRemoved)

(* The inductive invariant: ViewInSync needs TypeOK, and CallIsNews is what
   makes a callback change the view.                                       *)
SyncInv == TypeOK /\ ViewInSync /\ CallIsNews

(* A PEER message leaves the application informed but for the callback it
   may cause, and that callback is news.                                   *)
LEMMA PeerUpdateSync ==
  ASSUME SyncInv, NEW k \in Key, NEW removed \in BOOLEAN, NEW seen \in Time,
         PeerUpdate(k, removed, seen)
  PROVE  ViewInSync' /\ CallIsNews'
  <1> DEFINE c == [key |-> k, isRemoved |-> removed]
  <1>1. \A j : Told(j) = view[j]
    BY ToldIdle DEF PeerUpdate
  <1>2. \A j \in Key : Status(j)' = IF j = k THEN StatusOf(removed) ELSE Status(j)
    BY StatusAfter DEF PeerUpdate
  <1>3. \A j \in Key \ {Self} : view[j] = Status(j)
    BY <1>1 DEF SyncInv, ViewInSync, PeerUpdate
  <1>4. IsStore(myStore) /\ view' = view /\ c.key = k /\ c.isRemoved = removed
    BY DEF SyncInv, TypeOK, PeerUpdate
  <1>5. CASE Status(k) # StatusOf(removed)
    <2>1. calling' = {c}
      BY <1>4, <1>5, NewsIffStatusChanges DEF PeerUpdate
    <2>2. ASSUME NEW j \in Key \ {Self} PROVE Told(j)' = Status(j)'
      <3>1. Told(j)' = IF c.key = j THEN StatusOf(c.isRemoved) ELSE view'[j]
        BY <2>1 DEF Told
      <3> QED  BY <1>2, <1>3, <1>4, <3>1
    <2>3. CallIsNews'
      BY <1>3, <1>4, <1>5, <2>1 DEF CallIsNews
    <2> QED  BY <2>2, <2>3 DEF ViewInSync
  <1>6. CASE Status(k) = StatusOf(removed)
    <2>1. calling' = {}
      BY <1>4, <1>6, NewsIffStatusChanges DEF PeerUpdate
    <2>2. ASSUME NEW j \in Key \ {Self} PROVE Told(j)' = Status(j)'
      <3>1. Told(j)' = view'[j]
        BY <2>1 DEF Told
      <3> QED  BY <1>2, <1>3, <1>4, <1>6, <3>1
    <2> QED  BY <2>1, <2>2 DEF ViewInSync, CallIsNews
  <1> QED  BY <1>5, <1>6

(* Every step of either thread keeps the application's view in sync. *)
LEMMA SyncStep == SyncInv /\ [Next]_vars => SyncInv'
  <1> SUFFICES ASSUME SyncInv, [Next]_vars PROVE ViewInSync' /\ CallIsNews'
    BY TypeStep DEF SyncInv
  <1> USE SelfAssumption
  <1>1. ASSUME NEW k \in Key, NEW removed \in BOOLEAN, NEW seen \in Time,
               PeerUpdate(k, removed, seen)
        PROVE  ViewInSync' /\ CallIsNews'
    BY <1>1, PeerUpdateSync
  <1>2. CASE Callback
    <2>1. PICK c \in calling : Callback!(c)
      BY <1>2 DEF Callback
    <2>2. calling = {c} /\ c.key \in Key /\ view \in [Key -> {"absent", "present", "removed"}]
      BY <2>1 DEF SyncInv, TypeOK, News
    <2>3. \A j \in Key : Told(j)' = Told(j) /\ Status(j)' = Status(j)
      BY <2>1, <2>2 DEF Told, Status
    <2> QED  BY <2>1, <2>3 DEF SyncInv, ViewInSync, CallIsNews
  <1>3. CASE StartOwn
    <2>1. \A j \in Key \ {Self} : Status(j)' = Status(j)
      BY <1>3, StatusAfter DEF StartOwn
    <2>2. \A j : Told(j)' = Told(j)
      BY <1>3 DEF StartOwn, Told
    <2> QED  BY <1>3, <2>1, <2>2 DEF SyncInv, ViewInSync, CallIsNews, StartOwn
  <1>4. CASE Stop
    BY <1>4 DEF Stop, ViewInSync, CallIsNews
  <1>5. CASE Tick
    BY <1>5 DEF Tick, SyncInv, ViewInSync, CallIsNews, Told, Status
  <1>6. CASE UNCHANGED vars
    BY <1>6 DEF vars, SyncInv, ViewInSync, CallIsNews, Told, Status
  <1> QED  BY <1>1, <1>2, <1>3, <1>4, <1>5, <1>6 DEF Next

(* SyncInv holds throughout: it holds initially and every step keeps it. *)
LEMMA SyncAlways == Spec => []SyncInv
  <1>1. Init => SyncInv
    <2>1. Init => TypeOK
      BY SelfAssumption, MaxTimeAssumption, EmptyStoreFacts DEF Init, TypeOK, Time
    <2>2. Init => ViewInSync /\ CallIsNews
      BY EmptyStoreFacts DEF Init, ViewInSync, CallIsNews, Told, Status
    <2> QED  BY <2>1, <2>2 DEF SyncInv
  <1> QED  BY <1>1, SyncStep, PTL DEF Spec

(* An application that folds its callbacks knows the status of every foreign
   key in the store, whatever arrives and however the two threads interleave
   (pebo_net.cpp:187-204, shell.cpp:93-130).                               *)
THEOREM ViewCorrect == Spec => []ViewInSync
  BY SyncAlways, PTL DEF SyncInv

(* No callback tells the application what it knows (pebo_net.cpp:190-194). *)
THEOREM CallbacksAreNews == Spec => NoRedundantCallback
  <1>1. SyncInv /\ [Next]_vars =>
          [\A k \in Key \ {Self} : (\E c \in calling : c.key = k) /\ calling' = {}
             => view'[k] # view[k]]_vars
    <2> SUFFICES ASSUME SyncInv, Next, NEW k \in Key \ {Self}, NEW c \in calling,
                        c.key = k, calling' = {}
                 PROVE  view'[k] # view[k]
      OBVIOUS
    <2>1. calling = {c} /\ c \in News /\ view \in [Key -> {"absent", "present", "removed"}]
      BY DEF SyncInv, TypeOK
    <2>2. Callback
      BY <2>1 DEF Next, PeerUpdate, StartOwn, Stop, Tick
    <2>3. view' = [view EXCEPT ![k] = StatusOf(c.isRemoved)]
      BY <2>1, <2>2 DEF Callback
    <2>4. view[k] # StatusOf(c.isRemoved)
      BY DEF SyncInv, CallIsNews
    <2> QED  BY <2>1, <2>3, <2>4
  <1> QED  BY <1>1, SyncAlways, PTL DEF Spec, NoRedundantCallback

-----------------------------------------------------------------------------
(* The refinement: Store.tla implements Directory.tla.                     *)

(* addedTime as the directory sees it. *)
Since(k) == IF k \in DOMAIN myStore THEN myStore[k].addedTime ELSE 0

(* A pure refresh keeps addedTime, a change of status dates the entry now,
   and other keys keep theirs (store.cpp:48-61).                           *)
LEMMA SinceAfter ==
  ASSUME NEW k \in Key, NEW removed \in BOOLEAN, NEW seen, NEW j, IsStore(myStore),
         myStore' = FindAndUpdate(myStore, k, removed, seen, now)
  PROVE  Since(j)' = IF j = k /\ Status(k) # StatusOf(removed) THEN now ELSE Since(j)
  <1>1. CASE j # k
    BY <1>1 DEF Since, FindAndUpdate, AddPeer
  <1>2. CASE j = k
    <2>1. k \in DOMAIN myStore' /\ myStore'[k] = NewInfo(myStore, k, removed, seen, now)
      BY DEF FindAndUpdate, AddPeer
    <2>2. ResultOf(myStore, k, removed) # "updatedOnlyTime" <=> Status(k) # StatusOf(removed)
      BY NewsIffStatusChanges DEF IsNews
    <2> QED  BY <1>2, <2>1, <2>2, NewInfoFields DEF Since
  <1> QED  BY <1>1, <1>2

(* The initial store maps to the initial directory. *)
LEMMA InitRefines == Init => Dir!Init
  <1> SUFFICES ASSUME Init PROVE Dir!Init
    OBVIOUS
  <1>1. \A k \in Key : Status(k) = "absent" /\ k \notin DOMAIN myStore
    BY EmptyStoreFacts DEF Init, Status
  <1>2. \A k \in Key : Told(k) = "absent"
    BY DEF Init, Told
  <1> QED  BY <1>1, <1>2 DEF Init, Dir!Init

(* A PEER message maps to a change of the directory and its view at once, or
   to no change.                                                           *)
LEMMA PeerUpdateRefines ==
  ASSUME SyncInv, NEW k \in Key, NEW removed \in BOOLEAN, NEW seen \in Time,
         PeerUpdate(k, removed, seen)
  PROVE  [Dir!Next]_(Dir!vars)
  <1>1. /\ \A j \in Key : Told(j) = view[j]
        /\ IsStore(myStore)
        /\ view' = view /\ now' = now /\ phase' = phase /\ phase # "stopped"
    BY ToldIdle DEF PeerUpdate, SyncInv, TypeOK
  <1>2. \A j \in Key : Status(j)' = IF j = k THEN StatusOf(removed) ELSE Status(j)
    BY StatusAfter DEF PeerUpdate
  <1>3. \A j \in Key : Since(j)' = IF j = k /\ Status(k) # StatusOf(removed)
                                   THEN now ELSE Since(j)
    BY <1>1, SinceAfter DEF PeerUpdate
  <1>4. \A j \in Key : Told(j)' = IF j = k /\ Status(k) # StatusOf(removed)
                                  THEN StatusOf(removed) ELSE Told(j)
    <2>1. CASE Status(k) # StatusOf(removed)
      <3>1. calling' = {[key |-> k, isRemoved |-> removed]}
        BY <1>1, <2>1, NewsIffStatusChanges DEF PeerUpdate
      <3> DEFINE c == [key |-> k, isRemoved |-> removed]
      <3>2. calling' = {c} /\ c.key = k /\ c.isRemoved = removed
        BY <3>1
      <3> HIDE DEF c
      <3>3. ASSUME NEW j \in Key
            PROVE  Told(j)' = IF c.key = j THEN StatusOf(c.isRemoved) ELSE view'[j]
        BY <3>2 DEF Told
      <3> QED  BY <1>1, <2>1, <3>2, <3>3
    <2>2. CASE Status(k) = StatusOf(removed)
      <3>1. calling' = {}
        BY <1>1, <2>2, NewsIffStatusChanges DEF PeerUpdate
      <3> QED  BY <1>1, <2>2, <3>1 DEF Told
    <2> QED  BY <2>1, <2>2
  <1>5. CASE Status(k) # StatusOf(removed)
    <2>1. StatusOf(removed) \in {"present", "removed"}
      BY DEF StatusOf
    <2>2. Dir!Change(k, StatusOf(removed))
      BY <1>1, <1>2, <1>3, <1>4, <1>5 DEF Dir!Change, Since
    <2> QED  BY <2>1, <2>2 DEF Dir!Next
  <1>6. CASE Status(k) = StatusOf(removed)
    <2>1. \A j \in Key : Status(j)' = Status(j) /\ Since(j)' = Since(j) /\ Told(j)' = Told(j)
      BY <1>2, <1>3, <1>4, <1>6
    <2> QED  BY <1>1, <2>1 DEF Dir!vars, Since
  <1> QED  BY <1>5, <1>6

(* Every step of Store.tla maps to a step of the directory or to none. *)
LEMMA StepRefines == SyncInv /\ [Next]_vars => [Dir!Next]_(Dir!vars)
  <1> SUFFICES ASSUME SyncInv, [Next]_vars PROVE [Dir!Next]_(Dir!vars)
    OBVIOUS
  <1> USE SelfAssumption
  <1>1. ASSUME NEW k \in Key, NEW removed \in BOOLEAN, NEW seen \in Time,
               PeerUpdate(k, removed, seen)
        PROVE  [Dir!Next]_(Dir!vars)
    BY <1>1, PeerUpdateRefines
  <1>2. CASE Callback
    <2>1. PICK c \in calling : Callback!(c)
      BY <1>2 DEF Callback
    <2>2. calling = {c} /\ c.key \in Key /\ view \in [Key -> {"absent", "present", "removed"}]
      BY <2>1 DEF SyncInv, TypeOK, News
    <2>3. \A j \in Key : Told(j)' = Told(j) /\ Status(j)' = Status(j) /\ Since(j)' = Since(j)
      BY <2>1, <2>2 DEF Told, Status, Since
    <2> QED  BY <2>1, <2>3 DEF Dir!vars, Since
  <1>3. CASE StartOwn
    <2>1. IsStore(myStore) /\ now' = now /\ phase # "stopped" /\ phase' # "stopped"
      BY <1>3 DEF SyncInv, TypeOK, StartOwn
    <2>2. \A j \in Key : Status(j)' = IF j = Self THEN "present" ELSE Status(j)
      BY <1>3, StatusAfter DEF StartOwn, StatusOf
    <2>3. \A j \in Key : Since(j)' = IF j = Self /\ Status(Self) # "present"
                                     THEN now ELSE Since(j)
      BY <1>3, <2>1, SinceAfter DEF StartOwn, StatusOf
    <2>4. \A j \in Key : Told(j)' = Told(j)
      BY <1>3 DEF StartOwn, Told
    <2>5. CASE Status(Self) # "present"
      <3>1. Dir!EnterSelf
        BY <2>1, <2>2, <2>3, <2>4, <2>5 DEF Dir!EnterSelf, Since
      <3> QED  BY <3>1 DEF Dir!Next
    <2>6. CASE Status(Self) = "present"
      BY <2>1, <2>2, <2>3, <2>4, <2>6 DEF Dir!vars, Since
    <2> QED  BY <2>5, <2>6
  <1>4. CASE Stop
    <2>1. DOMAIN myStore' = {}
      BY <1>4, EmptyStoreFacts DEF Stop
    <2>2. \A j \in Key : Status(j)' = "absent" /\ Since(j)' = 0 /\ Told(j)' = Told(j)
      BY <1>4, <2>1 DEF Stop, Status, Since, Told
    <2>3. Dir!Forget
      BY <1>4, <2>2 DEF Stop, Dir!Forget, Since
    <2> QED  BY <2>3 DEF Dir!Next
  <1>5. CASE Tick
    <2>1. \A j \in Key : Status(j)' = Status(j) /\ Since(j)' = Since(j) /\ Told(j)' = Told(j)
      BY <1>5 DEF Tick, Status, Since, Told
    <2>2. now' \in Nat /\ phase' = phase
      BY <1>5 DEF Tick, Time
    <2>3. Dir!Tick
      BY <2>1, <2>2 DEF Dir!Tick, Since
    <2> QED  BY <2>3 DEF Dir!Next
  <1>6. CASE UNCHANGED vars
    <2>1. \A j \in Key : Status(j)' = Status(j) /\ Since(j)' = Since(j) /\ Told(j)' = Told(j)
      BY <1>6 DEF vars, Status, Since, Told
    <2> QED  BY <1>6, <2>1 DEF vars, Dir!vars, Since
  <1> QED  BY <1>1, <1>2, <1>3, <1>4, <1>5, <1>6 DEF Next

(* The store with its callbacks implements the directory: what the two
   threads do to the map, split in several steps, is seen by the application
   as one status change at a time (store.cpp:29-62, pebo_net.cpp:187-204). *)
THEOREM StoreImplementsDirectory == Spec => DirectorySpec
  BY InitRefines, StepRefines, SyncAlways, PTL DEF Spec, DirectorySpec, Dir!Spec
=============================================================================
