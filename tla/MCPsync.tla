------------------------------- MODULE MCPsync -------------------------------
(***************************************************************************)
(* The instances of Psync that TLC checks: see the README.                 *)
(***************************************************************************)
EXTENDS Psync, TLC

CONSTANTS s1, c1, c2

OneSlave == {s1}
TwoConns == {c1, c2}
Symmetry == Permutations(TwoConns)
==============================================================================
