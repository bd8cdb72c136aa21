---------------------------- MODULE ConnMachine ----------------------------
(***************************************************************************)
(* drive_machine: the states of one TCP connection between its client and  *)
(* the cache.  The client sends requests, one behind another if it likes;  *)
(* the bytes come in parts, replies leave in parts, and the socket's       *)
(* buffer can be full.  The unit of data is a request line, or a part of a *)
(* data block, of which the last holds the line end.  What a command does  *)
(* to the cache is in Cache; here it counts that an item is held, in       *)
(* c->item or in c->ilist, until the connection releases it.               *)
(*                                                                         *)
(* One worker thread drives the connection, so the steps of the loop in    *)
(* drive_machine interleave with the client's alone.                       *)
(***************************************************************************)
EXTENDS Integers, FiniteSets, Sequences, SequencesExt

CONSTANTS
    Requests,      \* the request lines the client may send
    MaxRequests,   \* bound: the requests the client sends
    DataLen,       \* vlen + 2, the length of a data block
    BufSize,       \* DATA_BUFFER_SIZE
    HighWat,       \* READ_BUFFER_HIGHWAT
    ReqsPerEvent,  \* settings.reqs_per_event
    BufferFails,   \* may the read buffer fail to grow
    EventFails     \* may update_event fail

\* One unit of the stream: op is "data" or "data_end" in a data block.
Unit(op) == [op |-> op, noreply |-> FALSE, fits |-> TRUE, long |-> FALSE,
             keys |-> 0]

Ops == {"get", "update", "simple", "quit"}

ASSUME ConnAssumption ==
    /\ MaxRequests \in Nat /\ DataLen \in Nat \ {0}
    /\ BufSize \in Nat \ {0} /\ HighWat \in Nat /\ ReqsPerEvent \in Nat \ {0}
    /\ BufferFails \in BOOLEAN /\ EventFails \in BOOLEAN
    /\ Requests \subseteq [op : Ops,
                           noreply : BOOLEAN,
                           fits : BOOLEAN,    \* item_alloc finds room
                           long : BOOLEAN,    \* the last key is too long
                           keys : Nat]        \* of a get
    \* in a get "noreply" is one more key
    /\ \A r \in Requests : r.op = "get" => ~r.noreply

VARIABLES
    c,             \* the conn structure
    pc,            \* of the worker: not in drive_machine, in its loop, or in
                   \* try_read_network before or after a successful read
    nreqs,         \* local to drive_machine
    refs,          \* ghost: references to items the connection took and kept
    wire,          \* external: units in the socket's receive buffer
    full,          \* external: is the socket's send buffer full
    peer,          \* external: "open", "shut" for writing, or "reset"
    unsent,        \* the rest of the request the client is sending
    sent,          \* requests the client began to send
    owed           \* ghost: replies the client awaits

client == <<unsent, sent>>
socket == <<wire, full, peer>>
vars == <<c, pc, nreqs, refs, socket, client, owed>>

\* conn_new
conn_new ==
    [state |-> "read", ev |-> "read",
     rbuf |-> <<>>,           \* the rbytes units at rcurr
     rsize |-> BufSize,
     rlbytes |-> 0, sbytes |-> 0,
     item |-> FALSE,          \* is c->item set
     ileft |-> 0,
     out |-> <<>>,            \* the parts of msglist still to be sent
     iovused |-> 0, msgused |-> 0,
     noreply |-> FALSE, write_and_go |-> "read"]

Init ==
    /\ c = conn_new /\ pc = "wait" /\ nreqs = 0 /\ refs = 0
    /\ wire = <<>> /\ full = FALSE /\ peer = "open"
    /\ unsent = <<>> /\ sent = 0 /\ owed = 0

----------------------------------------------------------------------------
\* The client.

DataBlock == [n \in 1 .. DataLen |-> Unit(IF n = DataLen THEN "data_end" ELSE "data")]

Answered(r) == ~r.noreply /\ r.op # "quit"

\* external: the first part of a request, or a further one, arrives.
send ==
    /\ peer = "open"
    /\ \/ /\ unsent # <<>>
          /\ wire' = Append(wire, Head(unsent)) /\ unsent' = Tail(unsent)
          /\ UNCHANGED <<sent, owed>>
       \/ /\ unsent = <<>> /\ sent < MaxRequests
          /\ \E r \in Requests :
              /\ wire' = Append(wire, r)
              /\ unsent' = IF r.op = "update" THEN DataBlock ELSE <<>>
              /\ owed' = owed + IF Answered(r) THEN 1 ELSE 0
          /\ sent' = sent + 1
    /\ UNCHANGED <<c, pc, nreqs, refs, full, peer>>

\* external: the client reads what was sent to it.
receive ==
    /\ full /\ full' = FALSE
    /\ UNCHANGED <<c, pc, nreqs, refs, wire, peer, client, owed>>

\* external: the client closes its side, or the connection breaks.
leave ==
    /\ \/ peer = "open" /\ peer' = "shut" /\ UNCHANGED wire
       \/ peer # "reset" /\ peer' = "reset" /\ wire' = <<>>
    /\ UNCHANGED <<c, pc, nreqs, refs, full, client, owed>>

----------------------------------------------------------------------------
\* Operators on a connection d.

conn_shrink(d) ==
    IF d.rsize > HighWat /\ Len(d.rbuf) < BufSize
    THEN [d EXCEPT !.rsize = BufSize] ELSE d

conn_set_state(d, s) ==
    [(IF s = "read" /\ d.state # "read" THEN conn_shrink(d) ELSE d)
     EXCEPT !.state = s]

\* mutant: noreply outlives the command.
out_string_silent(d) ==
    IF d.noreply THEN conn_set_state(d, "read")
    ELSE [conn_set_state(d, "write") EXCEPT !.write_and_go = "read"]

out_string(d) ==
    IF d.noreply
    THEN conn_set_state([d EXCEPT !.noreply = FALSE], "read")
    ELSE [conn_set_state(d, "write") EXCEPT !.write_and_go = "read"]

set_noreply_maybe(d, r) == [d EXCEPT !.noreply = @ \/ r.noreply]

\* The results of a get: a connection, and the items it holds from now on.  A
\* key that is too long leaves ileft as it was.
process_get_command(d, r) ==
    {LET found == [d EXCEPT !.out = [n \in 1 .. hits |-> "value"], !.iovused = hits]
     IN [conn |-> IF r.long THEN out_string(found)
                  ELSE [conn_set_state(found, "mwrite")
                        EXCEPT !.ileft = hits, !.iovused = hits + 1,
                               !.out = Append(@, "end")],
         took |-> hits]
     : hits \in 0 .. (r.keys - IF r.long THEN 1 ELSE 0)}

\* mutant: the line end of the block to swallow is forgotten.
to_swallow_short == DataLen - 1

to_swallow == DataLen

process_update_command(d, r) ==
    LET e == set_noreply_maybe(d, r)
    IN IF r.long THEN [conn |-> out_string(e), took |-> 0]
       ELSE IF ~r.fits
       THEN [conn |-> [out_string(e) EXCEPT !.write_and_go = "swallow",
                                            !.sbytes = to_swallow],
             took |-> 0]
       ELSE [conn |-> [conn_set_state(e, "nread") EXCEPT !.item = TRUE,
                                                         !.rlbytes = DataLen],
             took |-> 1]

\* The other commands, and what is no command, answer by out_string.
process_command(d, r) ==
    LET e == [d EXCEPT !.out = <<>>, !.iovused = 0, !.msgused = 1]
    IN CASE r.op = "get"    -> process_get_command(e, r)
         [] r.op = "update" -> {process_update_command(e, r)}
         [] r.op = "quit"   -> {[conn |-> conn_set_state(e, "closing"), took |-> 0]}
         [] OTHER -> {[conn |-> out_string(set_noreply_maybe(e, r)), took |-> 0]}

----------------------------------------------------------------------------
\* The worker.  In(s): the loop of drive_machine is at state s.

In(s) == pc = "loop" /\ c.state = s

\* The loop goes on with d.
Continue(d) == c' = d /\ pc' = "loop"

Closing == conn_set_state(c, "closing")

\* mutant: the event is left as it is.
update_event_not(d, e) == d

\* The connection d with its event set to e.
update_event(d, e) == [d EXCEPT !.ev = e]

\* The loop stops at d until e; or update_event fails, and the loop goes on.
Await(d, e) ==
    \/ pc' = "wait" /\ c' = update_event(d, e)
    \/ EventFails /\ d.ev # e /\ Continue(conn_set_state(d, "closing"))

Reading == c.state \in {"read", "nread", "swallow"}
Writing == c.state \in {"write", "mwrite"}

\* external: the event loop calls event_handler.
event_handler ==
    /\ pc = "wait" /\ (Reading \/ Writing)
    /\ \/ c.ev = "read" /\ (wire # <<>> \/ peer # "open")
       \/ c.ev = "write" /\ (~full \/ peer = "reset")
    /\ pc' = "loop" /\ nreqs' = ReqsPerEvent
    /\ UNCHANGED <<c, refs, socket, client, owed>>

IsLine(u) == u.op # "data"

HasLine(q) == \E i \in DOMAIN q : IsLine(q[i])

\* The place of the first line end.
FirstLine(q) ==
    CHOOSE i \in DOMAIN q : IsLine(q[i]) /\ \A j \in 1 .. (i - 1) : ~IsLine(q[j])

try_read_command ==
    /\ In("read") /\ HasLine(c.rbuf)
    /\ LET n == FirstLine(c.rbuf)
           command == IF n = 1 THEN c.rbuf[1] ELSE Unit("data_end")
       IN \E r \in process_command(c, command) :
            /\ Continue([r.conn EXCEPT !.rbuf = SubSeq(@, n + 1, Len(@))])
            /\ refs' = refs + r.took
    /\ UNCHANGED <<nreqs, socket, client, owed>>

\* mutant: the last read of an event is not allowed.
may_read_less == nreqs - 1 > 1

\* --nreqs
may_read == nreqs - 1 # 0

\* No line is left: try_read_network is called, unless the event had its share.
read_more ==
    /\ In("read") /\ ~HasLine(c.rbuf)
    /\ nreqs' = nreqs - 1
    /\ IF may_read THEN pc' = "before_read" /\ UNCHANGED c
       ELSE Await(c, "read")
    /\ UNCHANGED <<refs, socket, client, owed>>

\* One turn of the loop in try_read_network.
try_read_network ==
    /\ pc \in {"before_read", "after_read"}
    /\ LET must_grow == Len(c.rbuf) >= c.rsize
           d == IF must_grow THEN [c EXCEPT !.rsize = 2 * @] ELSE c
           avail == d.rsize - Len(d.rbuf)
           res == Min({avail, Len(wire)})
       IN \/ /\ must_grow /\ BufferFails
             /\ Continue([out_string([c EXCEPT !.rbuf = <<>>])
                          EXCEPT !.write_and_go = "closing"])
             /\ UNCHANGED wire
          \/ /\ peer = "reset" \/ (peer = "shut" /\ wire = <<>>)
             /\ Continue(conn_set_state(d, "closing")) /\ UNCHANGED wire
          \/ /\ wire # <<>>
             /\ c' = [d EXCEPT !.rbuf = @ \o SubSeq(wire, 1, res)]
             /\ wire' = SubSeq(wire, res + 1, Len(wire))
             /\ pc' = IF res = avail THEN "after_read" ELSE "loop"
          \/ /\ peer = "open" /\ wire = <<>> /\ pc = "after_read"
             /\ Continue(d) /\ UNCHANGED wire
          \/ /\ peer = "open" /\ wire = <<>> /\ pc = "before_read"
             /\ Await(d, "read") /\ UNCHANGED wire
    /\ UNCHANGED <<nreqs, refs, full, peer, client, owed>>

----------------------------------------------------------------------------
\* conn_nread and conn_swallow read a data block: into the item, or to throw it
\* away.  This is the field that counts what is left of it.

LeftIn == [nread |-> "rlbytes", swallow |-> "sbytes"]

\* Of n units that are there, as many as the block still needs.
tocopy(n, left) == Min({n, left})

\* Leftovers of the read buffer come first.
read_leftover(s) ==
    /\ In(s) /\ c[LeftIn[s]] > 0 /\ c.rbuf # <<>>
    /\ LET n == tocopy(Len(c.rbuf), c[LeftIn[s]])
       IN Continue([c EXCEPT ![LeftIn[s]] = @ - n, !.rbuf = SubSeq(@, n + 1, Len(@))])
    /\ UNCHANGED <<nreqs, refs, socket, client, owed>>

\* What is thrown away goes through the read buffer, and is limited by it.
read_rest(s) ==
    /\ In(s) /\ c[LeftIn[s]] > 0 /\ c.rbuf = <<>>
    /\ LET most == IF s = "swallow" THEN Min({c.sbytes, c.rsize}) ELSE c.rlbytes
           res == Min({most, Len(wire)})
       IN \/ /\ wire # <<>>
             /\ Continue([c EXCEPT ![LeftIn[s]] = @ - res])
             /\ wire' = SubSeq(wire, res + 1, Len(wire))
          \/ /\ wire = <<>> /\ peer # "open"
             /\ Continue(Closing) /\ UNCHANGED wire
          \/ /\ wire = <<>> /\ peer = "open"
             /\ Await(c, "read") /\ UNCHANGED wire
    /\ UNCHANGED <<nreqs, refs, full, peer, client, owed>>

\* The item is stored or not, and the connection's reference released.
complete_nread ==
    /\ In("nread") /\ c.rlbytes = 0
    /\ Continue([out_string(c) EXCEPT !.item = FALSE])
    /\ refs' = refs - 1
    /\ UNCHANGED <<nreqs, socket, client, owed>>

swallowed ==
    /\ In("swallow") /\ c.sbytes = 0
    /\ Continue(conn_set_state(c, "read"))
    /\ UNCHANGED <<nreqs, refs, socket, client, owed>>

----------------------------------------------------------------------------
\* The text of a simple answer is added unless the command added something
\* before.  With msgused = 0 it goes to no message.
add_iov(d) ==
    IF d.state = "write" /\ d.iovused = 0
    THEN [d EXCEPT !.iovused = 1, !.out = IF d.msgused = 0 THEN @ ELSE Append(@, "text")]
    ELSE d

\* msglist[-1] is written: undefined, so the process may also end here.
add_iov_undefined ==
    /\ In("write") /\ c.iovused = 0 /\ c.msgused = 0
    /\ c' = [c EXCEPT !.state = "crashed"] /\ pc' = "wait"
    /\ UNCHANGED <<nreqs, refs, socket, client, owed>>

Replies(parts) == Cardinality({i \in DOMAIN parts : parts[i] # "value"})

\* transmit, but for its end.
transmit ==
    /\ pc = "loop" /\ Writing
    /\ LET d == add_iov(c)
       IN /\ d.out # <<>>
          /\ \/ /\ ~full /\ peer # "reset"
                /\ \E n \in 1 .. Len(d.out) :
                    /\ Continue([d EXCEPT !.out = SubSeq(@, n + 1, Len(@))])
                    /\ owed' = owed - Replies(SubSeq(d.out, 1, n))
                /\ full' \in BOOLEAN
             \/ full /\ peer # "reset" /\ Await(d, "write") /\ UNCHANGED <<full, owed>>
             \/ peer = "reset" /\ Continue(conn_set_state(d, "closing"))
                /\ UNCHANGED <<full, owed>>
    /\ UNCHANGED <<nreqs, refs, wire, peer, client>>

\* mutant: the items of the reply are forgotten.
items_released_none(d) == 0

\* The items in what is left of c->ilist.
items_released(d) == d.ileft

\* TRANSMIT_COMPLETE
transmit_complete ==
    /\ pc = "loop" /\ Writing
    /\ LET d == add_iov(c)
       IN /\ d.out = <<>>
          /\ IF d.state = "mwrite"
             THEN /\ Continue(conn_set_state([d EXCEPT !.ileft = 0], "read"))
                  /\ refs' = refs - items_released(d)
             ELSE Continue(conn_set_state(d, d.write_and_go)) /\ UNCHANGED refs
    /\ UNCHANGED <<nreqs, socket, client, owed>>

\* conn_close, with conn_cleanup.
conn_close ==
    /\ In("closing")
    /\ c' = [c EXCEPT !.state = "closed", !.item = FALSE, !.ileft = 0]
    /\ pc' = "wait"
    /\ refs' = refs - items_released(c) - IF c.item THEN 1 ELSE 0
    /\ UNCHANGED <<nreqs, socket, client, owed>>

drive_machine ==
    \/ try_read_command \/ read_more \/ try_read_network
    \/ \E s \in {"nread", "swallow"} :
        read_leftover(s) \/ read_rest(s)
    \/ complete_nread \/ swallowed
    \/ add_iov_undefined \/ transmit \/ transmit_complete
    \/ conn_close

Next == send \/ receive \/ leave \/ event_handler \/ drive_machine

Spec == Init /\ [][Next]_vars

\* The worker's event loop runs, and a client that is sent something reads it.
FairSpec == Spec /\ WF_vars(event_handler \/ drive_machine) /\ WF_vars(receive)

----------------------------------------------------------------------------
States == {"read", "nread", "swallow", "write", "mwrite", "closing", "closed", "crashed"}

Units == Requests \cup {Unit("data"), Unit("data_end")}

\* The fields of the connection keep their types: no count goes below zero.
TypeOK ==
    /\ c \in [state : States, ev : {"read", "write"}, rbuf : Seq(Units),
              rsize : Nat \ {0}, rlbytes : Nat, sbytes : Nat, item : BOOLEAN,
              ileft : Nat, out : Seq({"value", "end", "text"}), iovused : Nat,
              msgused : 0 .. 1, noreply : BOOLEAN,
              write_and_go : {"read", "swallow", "closing"}]
    /\ pc \in {"wait", "loop", "before_read", "after_read"}
    /\ nreqs \in 0 .. ReqsPerEvent /\ refs \in Int
    /\ wire \in Seq(Units) /\ full \in BOOLEAN /\ peer \in {"open", "shut", "reset"}
    /\ unsent \in Seq(Units) /\ sent \in 0 .. MaxRequests /\ owed \in Int

\* Every reference to an item that the connection took, in whatever command,
\* is in c->item or in what is left of c->ilist, where the end of the reply or
\* conn_cleanup finds it; a closed connection holds none.
RefsHeld ==
    /\ refs = c.ileft + IF c.item THEN 1 ELSE 0
    /\ c.state = "closed" => refs = 0

Gone == c.state \in {"closing", "closed", "crashed"} \/ peer = "reset"

\* A connection given up by try_read_network, which dropped its input.
GivenUp == c.state = "write" /\ c.write_and_go = "closing"

\* The units at the head of q that are in a data block.
BlockAtHead(q) ==
    CHOOSE n \in 0 .. Len(q) :
        /\ \A i \in 1 .. n : q[i].op \notin Ops
        /\ n < Len(q) => q[n + 1].op \in Ops

Left ==
    CASE c.state = "nread" -> c.rlbytes
      [] c.state = "swallow" \/ (c.state = "write" /\ c.write_and_go = "swallow")
         -> c.sbytes
      [] OTHER -> 0

\* The server and the client agree on where a request begins: what is still to
\* come of a data block, in the read buffer, in the socket and at the client,
\* is what the connection is about to read or to swallow.  So no line is taken
\* for data, and no data for a command.
Framed == Gone \/ GivenUp \/ BlockAtHead(c.rbuf \o wire \o unsent) = Left

\* A client is sent no reply it does not wait for, but for the last one of a
\* connection given up; and when all it sent has been read and the connection
\* waits for more, it has had every reply.  (The types come with it.)
InStep ==
    /\ TypeOK
    /\ owed >= 0 \/ GivenUp \/ Gone
    /\ pc = "wait" /\ c.state = "read" /\ c.rbuf \o wire \o unsent = <<>>
           /\ peer # "reset"
       => owed = 0

\* A connection that waits for an event has nothing it could do at once, and
\* waits for the event that will let it go on.
Awake ==
    pc = "wait" /\ ~Gone =>
        /\ Reading => c.ev = "read" /\ ~HasLine(c.rbuf)
        /\ c.state \in {"nread", "swallow"} => c.rbuf = <<>> /\ Left > 0
        /\ Writing => c.ev = "write" /\ c.out # <<>>

\* What a client sent is read and answered, unless it stops in the middle of a
\* request, or the connection ends.
Served ==
    (wire # <<>> \/ owed > 0)
        ~> ((wire = <<>> /\ owed = 0) \/ unsent # <<>> \/ Gone)
============================================================================
