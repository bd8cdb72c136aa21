------------------------------ MODULE CasRead ------------------------------
(***************************************************************************)
(* gets and cas by the commands of Cache, where they look at an item       *)
(* without cache_lock.  gets prints the cas id right after the lookup,     *)
(* moves the item up, and sends its data when the socket takes it, so that *)
(* only the reference protects what it reads.  An incr or decr whose       *)
(* result fits is written over the data of the linked item, with the lock  *)
(* held: first the new cas id, then the digits, then the blanks.           *)
(*                                                                         *)
(* A client sends cas with the id of its last gets of the key.             *)
(***************************************************************************)
EXTENDS Cache

ASSUME CasAssumption == Null \notin Conns

VARIABLES
    reply,           \* what connection s has of the answer to its last gets;
                     \* id 0: the id is not yet printed
    writing,         \* the in-place write of the thread that has cache_lock
    stored,          \* ghost: the data that each cas id was given to
    overwritten      \* ghost: the ids whose item was changed in place

given   == <<stored, overwritten>>
casVars == <<vars, reply, writing, given>>

NoReply == [key |-> Null, cas_id |-> 0, text |-> <<>>]
NoWrite == [by |-> Null, it |-> Null, text |-> <<>>, left |-> {}]

CasInit ==
    /\ Init
    /\ reply = [s \in Conns |-> NoReply]
    /\ writing = NoWrite
    /\ stored = <<>> /\ overwritten = {}

cache_lock_free == writing = NoWrite

\* The ghost follows a change of the cache.
Recorded ==
    /\ UNCHANGED overwritten
    /\ stored' = IF cache'.last_cas = cache.last_cas THEN stored
                 ELSE Append(stored, cache'.data[CHOOSE i \in Items :
                                         cache'.cas_id[i] = cache'.last_cas])

Reading(s) == conn[s].cmd = "get"
Sent(s)    == Len(reply[s].text) >= Len(cache.data[conn[s].it])

----------------------------------------------------------------------------
gets(s, k) ==
    /\ cache_lock_free
    /\ process_get_command(s, k)
    /\ reply' = [reply EXCEPT ![s] = [NoReply EXCEPT !.key = k]]
    /\ UNCHANGED <<writing, given>>

\* sprintf of it->cas_id.
print_cas(s) ==
    /\ At(s, "update") /\ reply[s].cas_id = 0
    /\ reply' = [reply EXCEPT ![s].cas_id = cache.cas_id[conn[s].it]]
    /\ UNCHANGED <<vars, writing, given>>

\* mutant: the lock is not taken for an item that is not moved.
gets_update_unlocked(s) ==
    /\ reply[s].cas_id # 0
    /\ item_update(s)
    /\ cache_lock_free \/ ~long_unused(cache, conn[s].it)
    /\ UNCHANGED <<reply, writing, given>>

\* item_update takes the lock even when it changes nothing.
gets_update(s) ==
    /\ reply[s].cas_id # 0
    /\ cache_lock_free
    /\ item_update(s)
    /\ UNCHANGED <<reply, writing, given>>

\* sendmsg takes the next character of the data.
send(s) ==
    /\ Reading(s) /\ At(s, "remove") /\ ~Sent(s)
    /\ LET data == cache.data[conn[s].it]
       IN reply' = [reply EXCEPT ![s].text = Append(@, data[Len(@) + 1])]
    /\ UNCHANGED <<vars, writing, given>>

\* The reference is released when all is sent; or the connection is closed, or
\* memory runs out, and the client has no answer.
release(s) ==
    /\ cache_lock_free
    /\ item_remove(s)
    /\ reply' = IF Reading(s) /\ ~(At(s, "remove") /\ Sent(s))
                THEN [reply EXCEPT ![s] = NoReply] ELSE reply
    /\ UNCHANGED <<writing, given>>

----------------------------------------------------------------------------
\* The client's value of unique.
unique(s, cmd) == IF cmd = "cas" THEN reply[s].cas_id ELSE 0

update(s, cmd, k, v) ==
    /\ cache_lock_free
    /\ cmd = "cas" => reply[s].key = k /\ reply[s].cas_id # 0
    /\ process_update_command(s, cmd, k, v, 0, unique(s, cmd))
    /\ UNCHANGED <<reply, writing, given>>

\* The other lock sections of Cache.
other(s) ==
    /\ cache_lock_free
    /\ \/ item_unlink(s) \/ alloc_failed(s) \/ complete_nread(s)
       \/ \E k \in Keys : process_delete_command(s, k)
       \/ \E k \in Keys, cmd \in Arithmetic : process_arithmetic_command(s, cmd, k)
    /\ Recorded
    /\ UNCHANGED <<reply, writing>>

\* do_add_delta, when nothing changes or a new item replaces the old.
add_delta_new(s) ==
    LET i == conn[s].it
    IN /\ At(s, "delta") /\ cache_lock_free
       /\ \E c \in do_add_delta(cache, i, conn[s].cmd) :
              c.cas_id[i] = cache.cas_id[i] /\ Cached(c)
       /\ Step(s, "remove")
       /\ Recorded
       /\ UNCHANGED <<defer, clock, reply, writing>>

\* mutant: the item keeps its id.
delta_begin_same_cas(s) ==
    LET i == conn[s].it
    IN /\ At(s, "delta") /\ cache_lock_free
       /\ \E c \in do_add_delta(cache, i, conn[s].cmd) :
              /\ c.cas_id[i] # cache.cas_id[i]
              /\ writing' = [by |-> s, it |-> i, text |-> c.data[i],
                             left |-> DOMAIN c.data[i]]
       /\ UNCHANGED <<vars, reply, given>>

\* In place: the new id, and the text that is to be written.
delta_begin(s) ==
    LET i == conn[s].it
    IN /\ At(s, "delta") /\ cache_lock_free
       /\ \E c \in do_add_delta(cache, i, conn[s].cmd) :
              /\ c.cas_id[i] # cache.cas_id[i]
              /\ Cached([c EXCEPT !.data[i] = cache.data[i]])
              /\ writing' = [by |-> s, it |-> i, text |-> c.data[i],
                             left |-> DOMAIN c.data[i]]
              /\ stored' = Append(stored, c.data[i])
              /\ overwritten' = overwritten \cup {cache.cas_id[i]}
       /\ UNCHANGED <<conn, defer, clock, reply>>

\* memcpy of the digits, in any order, and then memset of the blanks.
delta_write(s) ==
    /\ writing.by = s
    /\ \E n \in writing.left :
        /\ writing.text[n] = Blank => \A m \in writing.left : writing.text[m] = Blank
        /\ cache' = [cache EXCEPT !.data[writing.it][n] = writing.text[n]]
        /\ writing' = [writing EXCEPT !.left = @ \ {n}]
    /\ UNCHANGED <<conn, defer, gone, clock, reply, given>>

delta_end(s) ==
    /\ writing.by = s /\ writing.left = {}
    /\ writing' = NoWrite
    /\ Step(s, "remove")
    /\ UNCHANGED <<cache, defer, gone, clock, reply, given>>

\* A failed assertion has stopped the server.
CasHalted == cache.halted # "no" /\ UNCHANGED casVars

CasNext ==
    \/ CasHalted
    \/ \E s \in Conns :
        \/ print_cas(s) \/ gets_update(s) \/ send(s) \/ release(s) \/ other(s)
        \/ add_delta_new(s) \/ delta_begin(s) \/ delta_write(s) \/ delta_end(s)
        \/ \E k \in Keys : gets(s, k)
        \/ \E k \in Keys, cmd \in Storage, v \in Values : update(s, cmd, k, v)

CasSpec == CasInit /\ [][CasNext]_casVars

----------------------------------------------------------------------------
\* "store this data but only if no one else has updated since I last fetched
\* it" (protocol.txt:150): when a cas is stored, the data it replaces is the data
\* its client was sent.
CasSound ==
    [][\A s \in Conns :
        /\ At(s, "nread") /\ conn[s].cmd = "cas" /\ conn'[s].at = "remove"
        /\ cache'.last_cas # cache.last_cas
        => cache.data[cache.table[conn[s].key]] = reply[s].text]_casVars

\* The data that a gets is sent is the data which its id was given to, though
\* the item may be replaced, unlinked or evicted before all of it is sent; but
\* for an item that is changed in place.
FetchedTogether ==
    \A s \in Conns :
        reply[s].cas_id # 0 /\ reply[s].cas_id \notin overwritten
        => IsPrefix(reply[s].text, stored[reply[s].cas_id])

\* "<cas unique> is a unique 64-bit integer that uniquely identifies this
\* specific item" (protocol.txt:238).
FetchedAlways ==
    \A s \in Conns :
        reply[s].cas_id # 0 => IsPrefix(reply[s].text, stored[reply[s].cas_id])
============================================================================
