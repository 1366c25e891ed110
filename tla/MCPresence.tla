----------------------------- MODULE MCPresence -----------------------------
(***************************************************************************)
(* The sockets of two users on two servers.                                *)
(***************************************************************************)
EXTENDS Presence

MCUserOf == [k \in Socket |-> IF k = "k2" THEN "bob" ELSE "alice"]
MCServerOf == [k \in Socket |-> IF k = "k1" THEN "A" ELSE "B"]
=============================================================================
