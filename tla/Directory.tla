----------------------------- MODULE Directory -----------------------------
(***************************************************************************)
(* What the peer store and its notifications promise to the application,   *)
(* as one object without threads: every key is absent, present or removed  *)
(* since some time, and the application's view of every key but its own    *)
(* moves with the directory, in the same step and only when the status     *)
(* changes.  Store.tla is shown to implement this specification.           *)
(***************************************************************************)
EXTENDS Naturals

CONSTANTS Key,    \* <<service, endpoint>> pairs
          Self    \* the key this process announces

VARIABLES dir,    \* status of every key
          since,  \* when that status was taken
          view,   \* the status the application was last told
          clock,
          open    \* FALSE once the directory was dropped

vars == <<dir, since, view, clock, open>>

Status == {"absent", "present", "removed"}

Init == /\ dir = [k \in Key |-> "absent"]
        /\ since = [k \in Key |-> 0]
        /\ view = [k \in Key |-> "absent"]
        /\ clock = 0
        /\ open = TRUE

\* A key changes status: the application learns it in the same step.
Change(k, s) ==
  /\ open
  /\ dir[k] # s
  /\ dir' = [dir EXCEPT ![k] = s]
  /\ since' = [since EXCEPT ![k] = clock]
  /\ view' = [view EXCEPT ![k] = s]
  /\ UNCHANGED <<clock, open>>

\* The process enters its own key, which it need not be told of.
EnterSelf ==
  /\ open
  /\ dir[Self] # "present"
  /\ dir' = [dir EXCEPT ![Self] = "present"]
  /\ since' = [since EXCEPT ![Self] = clock]
  /\ UNCHANGED <<view, clock, open>>

\* The directory is dropped for good; the application keeps what it knew.
Forget ==
  /\ open
  /\ open' = FALSE
  /\ dir' = [k \in Key |-> "absent"]
  /\ since' = [k \in Key |-> 0]
  /\ UNCHANGED <<view, clock>>

\* The clock may be set, forward or back.
Tick == clock' \in Nat /\ UNCHANGED <<dir, since, view, open>>

Next == \/ \E k \in Key, s \in {"present", "removed"} : Change(k, s)
        \/ EnterSelf
        \/ Forget
        \/ Tick

Spec == Init /\ [][Next]_vars
=============================================================================
