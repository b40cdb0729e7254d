----------------------------- MODULE ClientLink -----------------------------
(***************************************************************************)
(* One outgoing connection as the rest of the program sees it: what can    *)
(* become of the link, and which messages given to it reach the other end. *)
(* NetClient.tla (one client with its libuv handle) and PeboNet.tla (every *)
(* entry of every node's myPeersOut) are both shown to stay within it.     *)
(* That PeboNet.tla allows a client all that NetClient.tla does is not     *)
(* shown: it was written to, from the same code.                           *)
(***************************************************************************)
EXTENDS Naturals

CONSTANT ReadRestarts  \* as in NetClient.tla

VARIABLES link,  \* state of the link
          chan   \* number of messages given to it and not yet read or lost

vars == <<link, chan>>

LinkState == {"idle", "connecting", "open", "received", "closed", "failed", "gone"}

Init == link = "idle" /\ chan = 0

\* A message is accepted from the start of the connection on.  After a reply
\* it keeps the link from being closed, if it was not announced before.
Send == /\ link \in {"connecting", "open", "received"}
        /\ chan' = chan + 1
        /\ link' = link \/ (link = "received" /\ link' = "open")

\* A message is announced while a reply is handled: the reply will not close
\* the link, though the message may come later, or not at all.
Reopen == /\ link = "received"
          /\ link' = "open"
          /\ chan' = chan

\* The remote reads messages, or they are lost with an end of the connection.
Take == /\ link \notin {"idle", "connecting"}
        /\ chan' \in 0 .. chan
        /\ link' = link

Start == /\ link = "idle"
         /\ link' \in {"connecting", "failed"}
         /\ chan' = chan

\* What was accepted before the connection was up is kept.
Connected == /\ link = "connecting"
             /\ link' = "open"
             /\ chan' = chan

Reply == /\ link \in {"open", "received"}
         /\ link' = "received"
         /\ chan' = chan

\* The link is closed by its own side only when a reply has come (with a libuv
\* that refuses to start reading twice: at any time).
Close == /\ link \in IF ReadRestarts THEN {"received"} ELSE {"received", "open"}
         /\ link' = "closed"
         /\ chan' \in 0 .. chan

\* The socket is lost; the owner finds out when it sends again.
Fail == /\ link \in {"connecting", "open"}
        /\ link' = "failed"
        /\ chan' \in 0 .. chan

FindOut == /\ link = "failed"
           /\ link' = "closed"
           /\ chan' = chan

\* The process that owns the link ends.
Go == link' = "gone" /\ chan' \in 0 .. chan

Next == \/ Start \/ Connected \/ Fail \/ FindOut
        \/ Send \/ Reopen \/ Take \/ Reply \/ Close \/ Go

Spec == Init /\ [][Next]_vars
=============================================================================
