----------------------------- MODULE LibraryApi -----------------------------
(***************************************************************************)
(* What initEx and deinit promise to the threads of an application: one    *)
(* instance per process, and every call takes effect at one instant        *)
(* between its invocation and its return.                                  *)
(***************************************************************************)
CONSTANT App  \* the application's threads

VARIABLES on,     \* the library is initialised
          call,   \* what each thread has called: idle, init, deinit
          result  \* of each thread's last call

vars == <<on, call, result>>

Init == /\ on = FALSE
        /\ call = [t \in App |-> "idle"]
        /\ result = [t \in App |-> "none"]

Invoke(t) == /\ call[t] = "idle"
             /\ \E op \in {"init", "deinit"} : call' = [call EXCEPT ![t] = op]
             /\ UNCHANGED <<on, result>>

\* initEx returns: the library is on, by this call or by an earlier one.
ReturnInit(t) == /\ call[t] = "init"
                 /\ call' = [call EXCEPT ![t] = "idle"]
                 /\ on' = TRUE
                 /\ result' = [result EXCEPT ![t] = IF on THEN "alreadyInited" ELSE "ok"]

\* deinit returns: the library is off, by this call or by an earlier one.
ReturnDeinit(t) == /\ call[t] = "deinit"
                   /\ call' = [call EXCEPT ![t] = "idle"]
                   /\ on' = FALSE
                   /\ result' = [result EXCEPT ![t] = IF on THEN "ok" ELSE "notInited"]

Next == \E t \in App : Invoke(t) \/ ReturnInit(t) \/ ReturnDeinit(t)

Spec == Init /\ [][Next]_vars
=============================================================================
