--------------------------- MODULE MCSegmentedLog ---------------------------
(***************************************************************************)
(* Instances of SegmentedLog for TLC.  Events are only ever copied and     *)
(* compared, so permuting them is a symmetry.                              *)
(***************************************************************************)
EXTENDS SegmentedLog, TLC

EventSymmetry == Permutations(Events)
=============================================================================
