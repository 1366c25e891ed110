---------------------------- MODULE MCSnapshots ----------------------------
(***************************************************************************)
(* A reader and two queue workers, which save one snapshot after another,  *)
(* on a log of a few revisions.                                            *)
(***************************************************************************)
EXTENDS Snapshots, TLC

SaverSymmetry == Permutations(Saver)
=============================================================================
