----------------------------- MODULE MCCasRead -----------------------------
(***************************************************************************)
(* The instances of CasRead that TLC checks: two clients, one key, an item *)
(* and its successors.                                                     *)
(***************************************************************************)
EXTENDS CasRead

CONSTANTS k1, i1, i2, i3, s1, s2

OneKey     == {k1}
ThreeItems == {i1, i2, i3}
TwoConns   == {s1, s2}

Symmetry == Permutations(Items) \cup Permutations(Conns)
============================================================================
