---------------------------- MODULE MCUniqueJob ----------------------------
(***************************************************************************)
(* A few calls for one job id, made by two server processes.               *)
(***************************************************************************)
EXTENDS UniqueJob

MCProcessOf == [c \in Call |-> IF c % 2 = 1 THEN "A" ELSE "B"]
=============================================================================
