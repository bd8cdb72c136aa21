-------------------------------- MODULE MCLru --------------------------------
(***************************************************************************)
(* The instance of Lru that TLC checks.                                    *)
(***************************************************************************)
EXTENDS Lru, TLC

CONSTANTS i1, i2, i3, i4

MCItems == {i1, i2, i3, i4}

Symmetry == Permutations(MCItems)
============================================================================
