------------------------------ MODULE MCSlabs ------------------------------
(***************************************************************************)
(* The instance of Slabs that TLC checks: classes of different pages.      *)
(***************************************************************************)
EXTENDS Slabs

MCperslab  == <<2, 1>>
MCpage_len == <<2, 3>>
============================================================================
