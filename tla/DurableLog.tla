----------------------------- MODULE DurableLog -----------------------------
(***************************************************************************)
(* What an append only file promises: the commands make a log, of which a  *)
(* crash may take the end, but never what was kept, and of what was kept   *)
(* nothing is lost as long as the server runs.                             *)
(***************************************************************************)
EXTENDS Naturals, Sequences

VARIABLES
    log,           \* the commands the dataset stands for
    kept           \* how many of them a restart will find

Init == log = <<>> /\ kept = 0

Extends(s, t) == Len(t) <= Len(s) /\ SubSeq(s, 1, Len(t)) = t

Append1 == log' # log /\ Extends(log', log) /\ kept' = kept
Keep    == log' = log /\ kept' \in kept .. Len(log)
Crash   == Len(log') >= kept /\ Extends(log, log') /\ kept' = Len(log')

Next == Append1 \/ Keep \/ Crash
Spec == Init /\ [][Next]_<<log, kept>>
=============================================================================
