---------------------------- MODULE MCNetClient ----------------------------
(* All constants of NetClient.tla are numbers and strings: the cfg gives them. *)
EXTENDS NetClient
=============================================================================
