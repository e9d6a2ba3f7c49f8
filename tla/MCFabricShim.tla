---------------------------- MODULE MCFabricShim ----------------------------
(***************************************************************************)
(* Instances of FabricShim for TLC.  Handles of one type are               *)
(* interchangeable, so permuting them is a symmetry of every property.     *)
(***************************************************************************)
EXTENDS FabricShim, TLC

Symmetry ==
  UNION {Permutations(Cqs), Permutations(Eps), Permutations(Mrs),
         Permutations(Ops), Permutations(Eqs), Permutations(Domains)}
=============================================================================
