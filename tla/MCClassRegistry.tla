--------------------------- MODULE MCClassRegistry ---------------------------
(***************************************************************************)
(* Model checking of ClassRegistry: accounts are interchangeable, so that  *)
(* safety runs may use their symmetry.                                     *)
(***************************************************************************)
EXTENDS ClassRegistryHistory, TLC

Symmetry == Permutations(Accounts)
=============================================================================
