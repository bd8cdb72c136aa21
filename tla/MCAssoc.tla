------------------------------ MODULE MCAssoc ------------------------------
(***************************************************************************)
(* A small instance of Assoc: keys whose hashes collide in the first       *)
(* table, in the second and in none, tables of 2, 4 and 8 buckets.         *)
(***************************************************************************)
EXTENDS Assoc

MCKeys == 0 .. 6

\* 0, 2 and 4 share a bucket of 2; 0 and 4 one of 4; 7 and 3 one of 4, not of 8;
\* 0 and 8 one of 8.
MCHash == [k \in MCKeys |-> <<0, 2, 4, 7, 3, 8, 1>>[k + 1]]
============================================================================
