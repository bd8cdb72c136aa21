------------------------------- MODULE Backlog -------------------------------
(***************************************************************************)
(* The replication backlog of redis 2.8 (replication.c): a circular buffer *)
(* of the last bytes of the replication stream, as operators on the part m *)
(* of the master's state that it uses.  m.stream is a ghost: every byte    *)
(* that was ever counted by master_repl_offset.                            *)
(***************************************************************************)
EXTENDS Integers, Sequences

CONSTANT None

Hole == <<"HOLE", 0>>            \* an offset that no byte has
AnyByte == {"HOLE", "SELECT", "FIRST", "REST"} \X Nat

Buffer(size) == [i \in 0 .. size - 1 |-> Hole]

\* The offset is moved on, so that no old slave can go on with a new backlog.
createReplicationBacklog(m) ==
    [m EXCEPT !.master_repl_offset = @ + 1, !.stream = Append(@, Hole),
              !.repl_backlog = Buffer(m.repl_backlog_size),
              !.histlen = 0, !.idx = 0,
              !.repl_backlog_off = m.master_repl_offset + 2]

\* CONFIG SET repl-backlog-size: the contents are dropped.
resizeReplicationBacklog(m, newsize) ==
    IF newsize = m.repl_backlog_size THEN m
    ELSE IF m.repl_backlog = None THEN [m EXCEPT !.repl_backlog_size = newsize]
    ELSE [m EXCEPT !.repl_backlog_size = newsize,
                   !.repl_backlog = Buffer(newsize),
                   !.histlen = 0, !.idx = 0,
                   !.repl_backlog_off = m.master_repl_offset + 1]

freeReplicationBacklog(m) == [m EXCEPT !.repl_backlog = None]

\* mutant: repl_backlog_histlen is not limited to the size.
feedReplicationBacklog_uncapped(m, byte) ==
    [m EXCEPT !.master_repl_offset = @ + 1, !.stream = Append(@, byte),
              !.repl_backlog = [@ EXCEPT ![m.idx] = byte],
              !.idx = IF m.idx + 1 = m.repl_backlog_size THEN 0 ELSE m.idx + 1,
              !.histlen = m.histlen + 1,
              !.repl_backlog_off = m.master_repl_offset + 1 - m.histlen]

\* The code copies runs of bytes; this is what it does for each.
feedReplicationBacklog(m, byte) ==
    LET histlen == IF m.histlen < m.repl_backlog_size THEN m.histlen + 1 ELSE m.histlen
    IN [m EXCEPT !.master_repl_offset = @ + 1, !.stream = Append(@, byte),
                 !.repl_backlog = [@ EXCEPT ![m.idx] = byte],
                 !.idx = IF m.idx + 1 = m.repl_backlog_size THEN 0 ELSE m.idx + 1,
                 !.histlen = histlen,
                 !.repl_backlog_off = m.master_repl_offset + 1 - histlen + 1]

\* masterTryPartialResynchronization's question: is all from offset on there?
Covers(m, offset) ==
    /\ m.repl_backlog # None
    /\ offset >= m.repl_backlog_off
    /\ offset <= m.repl_backlog_off + m.histlen

\* mutant: the oldest byte is taken to be at idx, as if the buffer were full.
addReplyReplicationBacklog_full(m, offset) ==
    LET size == m.repl_backlog_size
        skip == offset - m.repl_backlog_off
        j    == (m.idx + skip) % size
    IN IF m.histlen = 0 THEN <<>>
       ELSE [k \in 1 .. m.histlen - skip |->
                m.repl_backlog[IF j + k - 1 < size THEN j + k - 1 ELSE j + k - 1 - size]]

\* The bytes from offset on, the oldest of the buffer skipped.
addReplyReplicationBacklog(m, offset) ==
    LET size   == m.repl_backlog_size
        skip   == offset - m.repl_backlog_off
        oldest == (m.idx + (size - m.histlen)) % size
        j      == (oldest + skip) % size
    IN IF m.histlen = 0 THEN <<>>
       ELSE [k \in 1 .. m.histlen - skip |->
                m.repl_backlog[IF j + k - 1 < size THEN j + k - 1 ELSE j + k - 1 - size]]

----------------------------------------------------------------------------
(* What the buffer is to be *)

\* The place of the byte k before the next.
Slot(m, k) == IF k <= m.idx THEN m.idx - k ELSE m.idx - k + m.repl_backlog_size

\* It holds the last histlen bytes of the stream, the newest before idx; its
\* first offset agrees with that.
Exact(m) ==
    m.repl_backlog # None =>
        /\ m.histlen <= m.repl_backlog_size
        /\ m.repl_backlog_off = m.master_repl_offset - m.histlen + 1
        /\ \A k \in 1 .. m.histlen :
              m.repl_backlog[Slot(m, k)] = m.stream[m.master_repl_offset - k + 1]

\* What a slave is sent is what the stream has from the offset it asked for.
RepliesExact(m) ==
    \A offset \in 1 .. m.master_repl_offset + 1 :
        Covers(m, offset) =>
            addReplyReplicationBacklog(m, offset) =
                [k \in 1 .. m.master_repl_offset - offset + 1 |-> m.stream[offset + k - 1]]
==============================================================================
