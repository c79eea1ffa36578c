---------------------------- MODULE MCCompaction ----------------------------
(***************************************************************************)
(* Instances of Compaction for TLC.  Keys are only compared, so permuting  *)
(* them is a symmetry.                                                     *)
(***************************************************************************)
EXTENDS Compaction, TLC

KeySymmetry == Permutations(Keys)
=============================================================================
