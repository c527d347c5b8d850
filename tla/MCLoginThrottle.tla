-------------------------- MODULE MCLoginThrottle --------------------------
(***************************************************************************)
(* Model checking of LoginThrottle: two spellings of one identifier and a   *)
(* second identifier.                                                      *)
(***************************************************************************)
EXTENDS LoginThrottle, TLC

MCIdentifiers == {"Bob", "bob", "eve"}
MCKeys == {"bob", "eve"}
MCLimiterKey == [i \in MCIdentifiers |-> IF i = "eve" THEN "eve" ELSE "bob"]

Symmetry == Permutations(Procs)
=============================================================================
