---------------------------- MODULE MCDiscovery ----------------------------
(***************************************************************************)
(* Discovery for TLC: the daemons are interchangeable.                     *)
(***************************************************************************)
EXTENDS Discovery, TLC

Symmetry == Permutations(Daemons)
=============================================================================
