------------------------------ MODULE MCEvent ------------------------------
(***************************************************************************)
(* The instances of EventLoop that TLC checks: see the README.             *)
(***************************************************************************)
EXTENDS EventLoop

CONSTANTS r, w, s, f1, sig

\* A reader and a writer of one descriptor, and a signal.
MC_fd     == (r :> f1) @@ (w :> f1) @@ (s :> sig)
MC_events == (r :> {"read", "persist"}) @@ (w :> {"write"}) @@ (s :> {"signal", "persist"})
MC_added  == <<r, s>>
============================================================================
