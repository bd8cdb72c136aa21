------------------------------- MODULE MCCache -------------------------------
(***************************************************************************)
(* The instances of Cache that TLC checks.  What differs between them is   *)
(* the commands, how far the clock goes and the bounds; see the README.    *)
(***************************************************************************)
EXTENDS Cache

CONSTANTS k1, k2, i1, i2, i3, s1, s2

OneKey   == {k1}
TwoKeys  == {k1, k2}
TwoItems == {i1, i2}
ThreeItems == {i1, i2, i3}
OneConn  == {s1}
TwoConns == {s1, s2}

AllCommands == Storage \cup Arithmetic \cup {"get", "delete"}

Symmetry == Permutations(Keys) \cup Permutations(Items) \cup Permutations(Conns)
============================================================================
