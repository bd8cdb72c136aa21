------------------------------- MODULE MCConn -------------------------------
(***************************************************************************)
(* The requests the client of ConnMachine sends in the runs.               *)
(***************************************************************************)
EXTENDS ConnMachine

Request(op, noreply) ==
    [op |-> op, noreply |-> noreply, fits |-> TRUE, long |-> FALSE, keys |-> 0]

Get == [Request("get", FALSE) EXCEPT !.keys = 2]

\* A set for which item_alloc finds no room.
TooLarge == [Request("update", FALSE) EXCEPT !.fits = FALSE]

ServedRequests ==
    {Get, TooLarge, Request("quit", FALSE)}
        \cup {Request(op, noreply) : op \in {"update", "simple"}, noreply \in BOOLEAN}

\* A get whose second key is too long.
LongKey == {[Get EXCEPT !.long = TRUE]}

\* A set for which there is no room, with noreply.
TooLargeNoreply == {[TooLarge EXCEPT !.noreply = TRUE]}
=============================================================================
