-------------------------- MODULE MCConsumerGroups --------------------------
(***************************************************************************)
(* Instances of ConsumerGroups for TLC.  Group names are only compared, so *)
(* permuting them is a symmetry.                                           *)
(***************************************************************************)
EXTENDS ConsumerGroups, TLC

GroupSymmetry == Permutations(Groups)
=============================================================================
