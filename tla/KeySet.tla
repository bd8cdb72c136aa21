------------------------------ MODULE KeySet ------------------------------
(***************************************************************************)
(* What the item index promises its callers: a set of keys, one operation  *)
(* to add a key that is not in it and one to take out a key that is.  The  *)
(* prototypes of assoc.h are this interface; "find" is membership in keys. *)
(***************************************************************************)
CONSTANT Keys

VARIABLE keys    \* the keys a lookup finds

Init == keys = {}

Insert(k) == k \notin keys /\ keys' = keys \cup {k}

Delete(k) == k \in keys /\ keys' = keys \ {k}

Next == \E k \in Keys : Insert(k) \/ Delete(k)

Spec == Init /\ [][Next]_keys
============================================================================
