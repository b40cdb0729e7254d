------------------------------ MODULE StoreOps ------------------------------
(***************************************************************************)
(* The operations of class Store (store.cpp) on one value of myStore.      *)
(*                                                                         *)
(* The code keeps a map from services to maps from endpoints to PeerInfo;  *)
(* an entry is reached only through both keys, so the two levels are one   *)
(* partial function from <<service, endpoint>> pairs.  An empty inner map  *)
(* (which addPeer creates just before it fills it) is never visible        *)
(* outside the store's mutex.                                              *)
(***************************************************************************)
EXTENDS Naturals

CONSTANTS Service, Endpoint

Key == Service \X Endpoint

\* IStore::PeerInfo, without the two fields the key repeats.
PeerInfo == [addedTime : Nat, lastSeen : Nat, isRemoved : BOOLEAN]

UpdateResult == {"addedNew", "updatedValue", "updatedOnlyTime"}

\* The values myStore can have.
IsStore(st) == /\ DOMAIN st \subseteq Key
               /\ st \in [DOMAIN st -> PeerInfo]

EmptyStore == [k \in {} |-> [addedTime |-> 0, lastSeen |-> 0, isRemoved |-> FALSE]]

FindPeer(st, k) == k \in DOMAIN st

AddPeer(st, k, info) ==
  [j \in DOMAIN st \cup {k} |-> IF j = k THEN info ELSE st[j]]

-----------------------------------------------------------------------------
(* Mutations: plausible bugs in findAndUpdate and in the test of its       *)
(* result.  No specification uses them.                                    *)

\* Takes the sender's lastSeen as the time of addition.
NewInfoSenderTime(st, k, removed, seen, now) ==
  [addedTime |-> seen, lastSeen |-> seen, isRemoved |-> removed]

\* Forgets to carry addedTime over when only the time is updated.
NewInfoNoCarry(st, k, removed, seen, now) ==
  [addedTime |-> now, lastSeen |-> seen, isRemoved |-> removed]

\* Takes every update for news.
IsNewsAlways(result) == TRUE

-----------------------------------------------------------------------------

\* What findAndUpdate reports: the entry was added, changed sides between
\* present and removed, or only had its times refreshed.
ResultOf(st, k, removed) ==
  IF ~FindPeer(st, k) THEN "addedNew"
  ELSE IF st[k].isRemoved # removed THEN "updatedValue" ELSE "updatedOnlyTime"

\* The entry findAndUpdate writes: the arrival wins, whatever its lastSeen;
\* addedTime survives a pure refresh.
NewInfo(st, k, removed, seen, now) ==
  [addedTime |-> IF ResultOf(st, k, removed) = "updatedOnlyTime"
                 THEN st[k].addedTime ELSE now,
   lastSeen  |-> seen,
   isRemoved |-> removed]

\* The store after findAndUpdate, which runs under the store's mutex.
FindAndUpdate(st, k, removed, seen, now) ==
  AddPeer(st, k, NewInfo(st, k, removed, seen, now))

\* The test of PeboNet::peerUpdateFromPeboPeer: an update is news unless it
\* only refreshed the time.
IsNews(result) == result # "updatedOnlyTime"

\* Store::query: the entries of a service that are not marked removed.
Query(st, s) == {k \in DOMAIN st : k[1] = s /\ ~st[k].isRemoved}
=============================================================================
