------------------------------- MODULE MCAof -------------------------------
(***************************************************************************)
(* The instances of Aof that TLC checks: see the README.                   *)
(***************************************************************************)
EXTENDS Aof
============================================================================
