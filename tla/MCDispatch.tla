----------------------------- MODULE MCDispatch -----------------------------
(***************************************************************************)
(* The instances of Dispatch that TLC checks: see the README.              *)
(***************************************************************************)
EXTENDS Dispatch

CONSTANTS f1, f2, f3

TwoFds   == {f1, f2}
ThreeFds == {f1, f2, f3}
============================================================================
