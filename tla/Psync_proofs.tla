---------------------------- MODULE Psync_proofs ----------------------------
(***************************************************************************)
(* Proofs about replication, for any slaves, connections, databases and    *)
(* sizes of the backlog, and every order of losses, restarts, timeouts and *)
(* children that end.                                                      *)
(*                                                                         *)
(* First the backlog of the master: it is the end of the stream, and a     *)
(* slave that is sent a part of it gets exactly the bytes it asked for.    *)
(*                                                                         *)
(* Then the slaves: a slave is in step with the stream it counts, and its  *)
(* dataset is one the master had.  The inductive invariant is SInv.  It    *)
(* says of every slave what is on its way to it and where that leads: of   *)
(* one that asks, what it asks for; of one that waits, what is gathered    *)
(* for it; of one that is to read a part of the stream, that this part     *)
(* comes after its dataset and offset; of one without the master, what it  *)
(* knew when it lost it.  Bytes under way go along a dataset (Leads) when  *)
(* the commands they complete are the next ones of it, each for the        *)
(* database it was executed in.                                            *)
(***************************************************************************)
EXTENDS Psync, TLAPS

\* A backlog that was made new is no None.
LEMMA BufferType ==
    ASSUME NEW size \in AllSizes
    PROVE  /\ Buffer(size) \in [0 .. size - 1 -> AnyByte]
           /\ Buffer(size) # None
  BY PsyncAssumption DEF Buffer, Hole, AnyByte

\* A function from places to bytes is no None either.
LEMMA BufferIsNotNone ==
    ASSUME NEW size \in AllSizes, NEW b \in [0 .. size - 1 -> AnyByte]
    PROVE  b # None
  BY PsyncAssumption

\* feedReplicationBacklog keeps the backlog exact, also where it goes round.
LEMMA FeedExact ==
    ASSUME NEW M, MasterOK(M), Exact(M), M.repl_backlog # None, NEW byte \in AnyByte
    PROVE  LET F == feedReplicationBacklog(M, byte)
           IN  MasterOK(F) /\ Exact(F) /\ F.repl_backlog # None
  <1> DEFINE F == feedReplicationBacklog(M, byte)
             size == M.repl_backlog_size
  <1>1. /\ size \in Nat \ {0} /\ size \in AllSizes
        /\ M.idx \in 0 .. size - 1
        /\ M.master_repl_offset \in Nat /\ M.stream \in Seq(AnyByte)
        /\ M.histlen \in 0 .. M.master_repl_offset
        /\ Len(M.stream) = M.master_repl_offset
        /\ M.repl_backlog \in [0 .. size - 1 -> AnyByte]
    <2>1. AllSizes \subseteq Nat \ {0}
      BY PsyncAssumption
    <2> QED
      BY <2>1 DEF MasterOK
  <1>2. /\ M.histlen <= size
        /\ M.repl_backlog_off = M.master_repl_offset - M.histlen + 1
        /\ \A k \in 1 .. M.histlen :
              M.repl_backlog[IF k <= M.idx THEN M.idx - k ELSE M.idx - k + size]
                 = M.stream[M.master_repl_offset - k + 1]
    BY DEF Exact, Slot
  <1>3. /\ F.master_repl_offset = M.master_repl_offset + 1
        /\ F.stream = Append(M.stream, byte)
        /\ F.repl_backlog = [M.repl_backlog EXCEPT ![M.idx] = byte]
        /\ F.idx = IF M.idx + 1 = size THEN 0 ELSE M.idx + 1
        /\ F.histlen = IF M.histlen < size THEN M.histlen + 1 ELSE M.histlen
        /\ F.repl_backlog_off = M.master_repl_offset + 1 - F.histlen + 1
        /\ F.repl_backlog_size = size /\ F.last = M.last
    BY DEF feedReplicationBacklog, MasterOK, MasterFields
  <1>4. F = [f \in MasterFields |-> F[f]]
    BY DEF feedReplicationBacklog, MasterOK, MasterFields
  <1> HIDE DEF F, size
  <1>5. /\ F.repl_backlog \in [0 .. size - 1 -> AnyByte]
        /\ F.repl_backlog # None
    <2>1. F.repl_backlog \in [0 .. size - 1 -> AnyByte]
      BY <1>1, <1>3
    <2> QED
      BY <2>1, <1>1, BufferIsNotNone
  <1>6. /\ F.stream \in Seq(AnyByte) /\ Len(F.stream) = F.master_repl_offset
        /\ F.histlen \in 0 .. F.master_repl_offset /\ F.histlen <= size
        /\ F.idx \in 0 .. size - 1 /\ F.master_repl_offset \in Nat
        /\ F.repl_backlog_off = F.master_repl_offset - F.histlen + 1
    <2>1. M.histlen <= size
      BY <1>2
    <2>2. F.stream \in Seq(AnyByte)
      BY <1>1, <1>3
    <2>3. Len(F.stream) = F.master_repl_offset
      BY <1>1, <1>3
    <2>4. F.histlen \in 0 .. F.master_repl_offset /\ F.histlen <= size
      <3> DEFINE h == M.histlen  o == M.master_repl_offset
      <3>1. h \in 0 .. o /\ h <= size /\ o \in Nat /\ size \in Nat
        BY <1>1, <2>1
      <3>2. F.histlen = IF h < size THEN h + 1 ELSE h
        BY <1>3
      <3>3. F.master_repl_offset = o + 1
        BY <1>3
      <3> HIDE DEF h, o
      <3> QED
        BY <3>1, <3>2, <3>3
    <2>5. F.idx \in 0 .. size - 1
      BY <1>1, <1>3
    <2>6. F.master_repl_offset \in Nat
      BY <1>1, <1>3
    <2>7. F.repl_backlog_off = F.master_repl_offset - F.histlen + 1
      <3>1. F.repl_backlog_off = M.master_repl_offset + 1 - F.histlen + 1
        BY <1>3
      <3>2. F.master_repl_offset = M.master_repl_offset + 1
        BY <1>3
      <3>3. M.master_repl_offset \in Nat /\ F.histlen \in Int
        BY <1>1, <2>4, <2>6
      <3> QED
        BY <3>1, <3>2, <3>3
    <2> QED
      BY <2>2, <2>3, <2>4, <2>5, <2>6, <2>7
  <1>7. MasterOK(F)
    BY <1>1, <1>3, <1>4, <1>5, <1>6 DEF MasterOK
  <1>8. \A k \in 1 .. F.histlen :
           F.repl_backlog[Slot(F, k)] = F.stream[F.master_repl_offset - k + 1]
    <2>1. TAKE k \in 1 .. F.histlen
    <2>2. [M.repl_backlog EXCEPT ![M.idx] = byte]
             [IF k <= F.idx THEN F.idx - k ELSE F.idx - k + size]
             = Append(M.stream, byte)[(M.master_repl_offset + 1) - k + 1]
      <3> DEFINE buf == M.repl_backlog  stream == M.stream  off == M.master_repl_offset
                 hist == M.histlen  idx == M.idx  idx2 == F.idx  hist2 == F.histlen
      <3>1. /\ size \in Nat \ {0} /\ idx \in 0 .. size - 1 /\ off \in Nat
            /\ hist \in 0 .. off /\ stream \in Seq(AnyByte) /\ Len(stream) = off
            /\ buf \in [0 .. size - 1 -> AnyByte] /\ hist <= size
        BY <1>1, <1>2
      <3>2. \A i \in 1 .. hist :
               buf[IF i <= idx THEN idx - i ELSE idx - i + size] = stream[off - i + 1]
        BY <1>2
      <3>3. idx2 = (IF idx + 1 = size THEN 0 ELSE idx + 1)
        BY <1>3
      <3>4. hist2 = (IF hist < size THEN hist + 1 ELSE hist)
        BY <1>3
      <3>5. k \in 1 .. hist2
        BY <2>1
      <3> DEFINE slot  == IF k <= idx2 THEN idx2 - k ELSE idx2 - k + size
                 slot1 == IF k - 1 <= idx THEN idx - (k - 1) ELSE idx - (k - 1) + size
      <3>6. SUFFICES [buf EXCEPT ![idx] = byte][slot] = Append(stream, byte)[(off + 1) - k + 1]
        OBVIOUS
      <3> HIDE DEF buf, stream, off, hist, idx, idx2, hist2
      <3>7. CASE k = 1
        <4>1. slot = idx
          BY <3>1, <3>3, <3>7
        <4>2. [buf EXCEPT ![idx] = byte][idx] = byte
          BY <3>1
        <4>3. Append(stream, byte)[off + 1] = byte /\ (off + 1) - k + 1 = off + 1
          BY <3>1, <3>7
        <4> QED
          BY <4>1, <4>2, <4>3
      <3>8. CASE k # 1
        <4>1. k - 1 \in 1 .. hist /\ k <= size
          BY <3>1, <3>4, <3>5, <3>8
        <4>2. slot = slot1 /\ slot \in 0 .. size - 1 /\ slot # idx
          BY <3>1, <3>3, <4>1, <3>8
        <4>3. [buf EXCEPT ![idx] = byte][slot] = buf[slot1]
          <5> HIDE DEF slot, slot1
          <5> QED
            BY <3>1, <4>2
        <4>4. buf[slot1] = stream[off - (k - 1) + 1]
          BY <3>2, <4>1
        <4>5. (off + 1) - k + 1 \in 1 .. off /\ (off + 1) - k + 1 = off - (k - 1) + 1
          BY <3>1, <4>1
        <4>6. Append(stream, byte)[(off + 1) - k + 1] = stream[(off + 1) - k + 1]
          BY <3>1, <4>5
        <4> QED
          BY <4>3, <4>4, <4>5, <4>6
      <3> QED
        BY <3>7, <3>8
    <2>3. /\ F.repl_backlog = [M.repl_backlog EXCEPT ![M.idx] = byte]
          /\ F.stream = Append(M.stream, byte)
          /\ F.master_repl_offset = M.master_repl_offset + 1
          /\ F.repl_backlog_size = size
      BY <1>3
    <2>4. Slot(F, k) = IF k <= F.idx THEN F.idx - k ELSE F.idx - k + size
      BY <2>3 DEF Slot
    <2>5. F.repl_backlog[Slot(F, k)] = Append(M.stream, byte)[(M.master_repl_offset + 1) - k + 1]
      BY <2>2, <2>3, <2>4, Zenon
    <2>6. F.stream[F.master_repl_offset - k + 1]
             = Append(M.stream, byte)[(M.master_repl_offset + 1) - k + 1]
      BY <2>3
    <2> QED
      BY <2>5, <2>6
  <1>9. Exact(F)
    BY <1>3, <1>6, <1>8 DEF Exact
  <1> QED
    BY <1>5, <1>7, <1>9 DEF F

\* A new backlog, after one offset was given up, is empty and exact.
LEMMA CreateExact ==
    ASSUME NEW M, MasterOK(M)
    PROVE  LET F == createReplicationBacklog(M)
           IN  MasterOK(F) /\ Exact(F) /\ F.repl_backlog # None
  <1> DEFINE F == createReplicationBacklog(M)
             size == M.repl_backlog_size
  <1>1. /\ size \in Nat \ {0} /\ size \in AllSizes
        /\ M.master_repl_offset \in Nat /\ M.stream \in Seq(AnyByte)
        /\ Len(M.stream) = M.master_repl_offset
    BY PsyncAssumption DEF MasterOK
  <1>2. /\ F.master_repl_offset = M.master_repl_offset + 1
        /\ F.stream = Append(M.stream, Hole)
        /\ F.repl_backlog = Buffer(size)
        /\ F.idx = 0 /\ F.histlen = 0
        /\ F.repl_backlog_off = M.master_repl_offset + 2
        /\ F.repl_backlog_size = size /\ F.last = M.last
    BY DEF createReplicationBacklog, MasterOK, MasterFields
  <1>3. F = [f \in MasterFields |-> F[f]]
    BY DEF createReplicationBacklog, MasterOK, MasterFields
  <1> HIDE DEF F, size
  <1>4. Hole \in AnyByte
    BY DEF Hole, AnyByte
  <1>5. F.stream \in Seq(AnyByte) /\ Len(F.stream) = F.master_repl_offset
    BY <1>1, <1>2, <1>4
  <1>6. F.repl_backlog \in [0 .. size - 1 -> AnyByte] /\ F.repl_backlog # None
    BY <1>1, <1>2, BufferType
  <1>7. MasterOK(F)
    BY <1>1, <1>2, <1>3, <1>5, <1>6 DEF MasterOK
  <1>8. Exact(F)
    BY <1>1, <1>2 DEF Exact
  <1> QED
    BY <1>6, <1>7, <1>8 DEF F

\* CONFIG SET repl-backlog-size leaves an empty and exact backlog, or none.
LEMMA ResizeExact ==
    ASSUME NEW M, MasterOK(M), Exact(M), NEW newsize \in AllSizes
    PROVE  LET F == resizeReplicationBacklog(M, newsize)
           IN  /\ MasterOK(F) /\ Exact(F)
               /\ M.repl_backlog # None => F.repl_backlog # None
  <1> DEFINE F == resizeReplicationBacklog(M, newsize)
  <1>1. CASE newsize = M.repl_backlog_size
    BY <1>1 DEF resizeReplicationBacklog
  <1>2. CASE newsize # M.repl_backlog_size /\ M.repl_backlog = None
    <2>1. /\ F.repl_backlog_size = newsize /\ F.repl_backlog = None
          /\ F.master_repl_offset = M.master_repl_offset /\ F.stream = M.stream
          /\ F.idx = M.idx /\ F.histlen = M.histlen /\ F.last = M.last
      BY <1>2 DEF resizeReplicationBacklog, MasterOK, MasterFields
    <2>2. F = [f \in MasterFields |-> F[f]]
      BY <1>2 DEF resizeReplicationBacklog, MasterOK, MasterFields
    <2> HIDE DEF F
    <2>3. MasterOK(F)
      BY <2>1, <2>2 DEF MasterOK
    <2>4. Exact(F)
      BY <2>1 DEF Exact
    <2> QED
      BY <2>3, <2>4, <1>2 DEF F
  <1>3. CASE newsize # M.repl_backlog_size /\ M.repl_backlog # None
    <2>1. /\ F.repl_backlog_size = newsize /\ F.repl_backlog = Buffer(newsize)
          /\ F.master_repl_offset = M.master_repl_offset /\ F.stream = M.stream
          /\ F.idx = 0 /\ F.histlen = 0
          /\ F.repl_backlog_off = M.master_repl_offset + 1 /\ F.last = M.last
      BY <1>3 DEF resizeReplicationBacklog, MasterOK, MasterFields
    <2>2. F = [f \in MasterFields |-> F[f]]
      BY <1>3 DEF resizeReplicationBacklog, MasterOK, MasterFields
    <2> HIDE DEF F
    <2>3. /\ newsize \in Nat \ {0} /\ M.master_repl_offset \in Nat
          /\ M.stream \in Seq(AnyByte) /\ Len(M.stream) = M.master_repl_offset
      BY PsyncAssumption DEF MasterOK
    <2>4. F.repl_backlog \in [0 .. newsize - 1 -> AnyByte] /\ F.repl_backlog # None
      BY <2>1, BufferType
    <2>5. MasterOK(F)
      BY <2>1, <2>2, <2>3, <2>4 DEF MasterOK
    <2>6. Exact(F)
      BY <2>1, <2>3 DEF Exact
    <2> QED
      BY <2>4, <2>5, <2>6 DEF F
  <1> QED
    BY <1>1, <1>2, <1>3

\* Without a backlog there is nothing to be exact.
LEMMA FreeExact ==
    ASSUME NEW M, MasterOK(M)
    PROVE  LET F == freeReplicationBacklog(M)
           IN  MasterOK(F) /\ Exact(F)
  <1> DEFINE F == freeReplicationBacklog(M)
  <1>1. /\ F.repl_backlog = None /\ F.repl_backlog_size = M.repl_backlog_size
        /\ F.master_repl_offset = M.master_repl_offset /\ F.stream = M.stream
        /\ F.idx = M.idx /\ F.histlen = M.histlen /\ F.last = M.last
    BY DEF freeReplicationBacklog, MasterOK, MasterFields
  <1>2. F = [f \in MasterFields |-> F[f]]
    BY DEF freeReplicationBacklog, MasterOK, MasterFields
  <1> HIDE DEF F
  <1>3. MasterOK(F)
    BY <1>1, <1>2 DEF MasterOK
  <1>4. Exact(F)
    BY <1>1 DEF Exact
  <1> QED
    BY <1>3, <1>4 DEF F

\* What a master does to its other fields does not matter for its backlog.
SameBacklog(M, F) ==
    /\ F = [f \in MasterFields |-> F[f]] /\ F.last \in Nat
    /\ F.master_repl_offset = M.master_repl_offset /\ F.stream = M.stream
    /\ F.repl_backlog = M.repl_backlog /\ F.repl_backlog_size = M.repl_backlog_size
    /\ F.histlen = M.histlen /\ F.idx = M.idx /\ F.repl_backlog_off = M.repl_backlog_off

LEMMA SameExact ==
    ASSUME NEW M, NEW F, MasterOK(M), SameBacklog(M, F)
    PROVE  MasterOK(F) /\ (Exact(M) => Exact(F))
  <1>1. MasterOK(F)
    BY DEF MasterOK, SameBacklog
  <1>2. ASSUME Exact(M) PROVE Exact(F)
    BY <1>2 DEF Exact, SameBacklog, Slot
  <1> QED
    BY <1>1, <1>2

\* A master that comes up has no backlog.
LEMMA StartOK ==
    ASSUME NEW runid, NEW data, NEW last \in Nat
    PROVE  MasterOK(Start(runid, data, last)) /\ Exact(Start(runid, data, last))
  <1> DEFINE F == Start(runid, data, last)
  <1>1. /\ F.repl_backlog = None /\ F.repl_backlog_size = Size
        /\ F.master_repl_offset = 0 /\ F.stream = <<>>
        /\ F.idx = 0 /\ F.histlen = 0 /\ F.last = last
    BY DEF Start
  <1>2. F = [f \in MasterFields |-> F[f]]
    BY DEF Start, MasterFields
  <1> HIDE DEF F
  <1>3. MasterOK(F)
    BY <1>1, <1>2 DEF MasterOK, AllSizes
  <1>4. Exact(F)
    BY <1>1 DEF Exact
  <1> QED
    BY <1>3, <1>4 DEF F

----------------------------------------------------------------------------
\* The inductive invariant: the types, and that the backlog is exact and there
\* while a slave is attached.  It needs no more: the slaves, the messages and
\* the child do not write the buffer.
IInv ==
    /\ MasterOK(m)
    /\ client = [c \in Conns |-> client[c]]
    /\ BacklogExact

\* A step that makes no slave and keeps the backlog exact.
LEMMA NoNewSlave ==
    ASSUME IInv, MasterOK(m'), Exact(m'), client' = [c \in Conns |-> client'[c]],
           Attached' # {} => Attached # {},
           m.repl_backlog # None => m'.repl_backlog # None
    PROVE  IInv'
  BY DEF IInv, BacklogExact

\* A step that leaves the master and its slaves alone.
LEMMA MasterAway ==
    ASSUME IInv, UNCHANGED <<m, client>>
    PROVE  IInv'
  BY DEF IInv, BacklogExact, Attached, MasterOK, Exact, Slot

\* A write command feeds the backlog up to three bytes.
LEMMA FeedSlavesStep ==
    ASSUME IInv, NEW db \in Dbs, replicationFeedSlaves(db)
    PROVE  IInv'
  <1> DEFINE n    == m.last + 1
             done == [m EXCEPT !.data = Append(@, <<db, n>>), !.last = n]
  <1>1. MasterOK(m) /\ Exact(m) /\ n \in Nat /\ m.last \in Nat
    BY DEF IInv, BacklogExact, MasterOK
  <1>2. SameBacklog(m, done)
    BY <1>1 DEF MasterOK, MasterFields, SameBacklog
  <1> HIDE DEF done
  <1>3. MasterOK(done) /\ Exact(done) /\ done.repl_backlog = m.repl_backlog
    <2>1. done.repl_backlog = m.repl_backlog
      BY <1>2 DEF SameBacklog
    <2> QED
      BY <1>1, <1>2, <2>1, SameExact
  <1>4. CASE m.repl_backlog = None
    <2>1. m' = done /\ client' = client
      BY <1>4 DEF replicationFeedSlaves, done
    <2>2. Attached' = Attached /\ client' = [c \in Conns |-> client'[c]]
      BY <2>1 DEF Attached, IInv
    <2>3. MasterOK(m') /\ Exact(m')
      BY <2>1, <1>3
    <2> QED
      BY <2>2, <2>3, <1>4, NoNewSlave
  <1>5. CASE m.repl_backlog # None
    <2> DEFINE chosen == IF m.slaveseldb = db THEN done
                         ELSE feedReplicationBacklog(done, Select(db))
               half   == feedReplicationBacklog(chosen, First(n))
               fed    == feedReplicationBacklog(half, Rest(n))
               G      == [fed EXCEPT !.slaveseldb = db]
    <2>1. m' = G
      BY <1>5 DEF replicationFeedSlaves, done
    <2>2. /\ \A c \in Conns : client'[c] # None => client[c] # None
          /\ client' = [c \in Conns |-> client'[c]]
      BY <1>5 DEF replicationFeedSlaves
    <2>3. Select(db) \in AnyByte /\ First(n) \in AnyByte /\ Rest(n) \in AnyByte
      BY <1>1, PsyncAssumption DEF Select, First, Rest, AnyByte
    <2>4. MasterOK(chosen) /\ Exact(chosen) /\ chosen.repl_backlog # None
      <3>1. done.repl_backlog # None
        BY <1>3, <1>5
      <3>2. CASE m.slaveseldb = db
        BY <1>3, <3>1, <3>2
      <3>3. CASE m.slaveseldb # db
        BY <1>3, <3>1, <3>3, <2>3, FeedExact
      <3> QED
        BY <3>2, <3>3
    <2> HIDE DEF chosen
    <2>5. MasterOK(half) /\ Exact(half) /\ half.repl_backlog # None
      BY <2>3, <2>4, FeedExact
    <2> HIDE DEF half
    <2>6. MasterOK(fed) /\ Exact(fed) /\ fed.repl_backlog # None
      BY <2>3, <2>5, FeedExact
    <2> HIDE DEF fed
    <2>7. SameBacklog(fed, G)
      BY <2>6 DEF MasterOK, MasterFields, SameBacklog
    <2> HIDE DEF G
    <2>8. MasterOK(G) /\ Exact(G)
      BY <2>6, <2>7, SameExact
    <2>9. G.repl_backlog # None
      BY <2>6, <2>7 DEF SameBacklog
    <2>10. Attached' # {} => Attached # {}
      BY <2>2 DEF Attached
    <2> QED
      BY <2>1, <2>2, <2>8, <2>9, <2>10, NoNewSlave
  <1> QED
    BY <1>4, <1>5

\* A slave that is added finds a backlog, or has one made.
LEMMA AddSlaveStep ==
    ASSUME IInv, NEW c \in Conns, NEW master, NEW replstate, NEW reply, NEW msgs,
           SameBacklog(m, master), AddSlave(c, master, replstate, reply, msgs)
    PROVE  IInv'
  <1> DEFINE forced == [master EXCEPT !.slaveseldb = -1]
  <1>1. MasterOK(master) /\ Exact(master) /\ master.repl_backlog = m.repl_backlog
    <2>1. MasterOK(m) /\ Exact(m)
      BY DEF IInv, BacklogExact
    <2>2. master.repl_backlog = m.repl_backlog
      BY DEF SameBacklog
    <2> QED
      BY <2>1, <2>2, SameExact
  <1>2. SameBacklog(master, forced)
    BY <1>1 DEF MasterOK, MasterFields, SameBacklog
  <1>3. /\ m' = IF Attached = {} /\ m.repl_backlog = None
                THEN createReplicationBacklog(forced) ELSE forced
        /\ client' = [c_1 \in Conns |-> client'[c_1]]
    BY DEF AddSlave, IInv
  <1> HIDE DEF forced
  <1>4. MasterOK(forced) /\ Exact(forced)
    BY <1>1, <1>2, SameExact
  <1>5. forced.repl_backlog = m.repl_backlog
    BY <1>1, <1>2 DEF SameBacklog
  <1>6. CASE Attached = {} /\ m.repl_backlog = None
    <2>1. m' = createReplicationBacklog(forced)
      BY <1>3, <1>6
    <2>2. MasterOK(m') /\ Exact(m') /\ m'.repl_backlog # None
      BY <2>1, <1>4, CreateExact
    <2> QED
      BY <2>2, <1>3 DEF IInv, BacklogExact
  <1>7. CASE ~(Attached = {} /\ m.repl_backlog = None)
    <2>1. m' = forced
      BY <1>3, <1>7
    <2>2. m.repl_backlog # None
      BY <1>7 DEF IInv, BacklogExact
    <2> QED
      BY <2>1, <2>2, <1>3, <1>4, <1>5 DEF IInv, BacklogExact
  <1> QED
    BY <1>6, <1>7

LEMMA MasterStep ==
    ASSUME IInv, Master
    PROVE  IInv'
  <1>1. MasterOK(m) /\ Exact(m) /\ SameBacklog(m, m)
    BY DEF IInv, BacklogExact, SameBacklog, MasterOK
  <1>2. SameBacklog(m, [m EXCEPT !.rdb_child = [rdb |-> m.data]])
    BY <1>1 DEF SameBacklog, MasterOK, MasterFields
  <1>3. SameBacklog(m, [m EXCEPT !.rdb_child = None])
    BY <1>1 DEF SameBacklog, MasterOK, MasterFields
  <1>4. ASSUME NEW db \in Dbs, replicationFeedSlaves(db) PROVE IInv'
    BY <1>4, FeedSlavesStep
  <1>5. ASSUME NEW c \in Conns, syncPartial(c) PROVE IInv'
    <2>1. m.repl_backlog # None /\ m' = m
      BY <1>5 DEF syncPartial, CanContinue, Covers
    <2>2. client' = [d \in Conns |-> client'[d]]
      BY <1>5 DEF syncPartial, IInv
    <2> QED
      BY <1>1, <2>1, <2>2 DEF IInv, BacklogExact
  <1>6. ASSUME NEW c \in Conns, syncFork(c) PROVE IInv'
    <2> DEFINE master == [m EXCEPT !.rdb_child = [rdb |-> m.data]]
    <2>1. AddSlave(c, master, "WAIT_BGSAVE_END", <<>>, <<FullResync(TRUE)>>)
      BY <1>6 DEF syncFork
    <2>2. SameBacklog(m, master)
      BY <1>2
    <2> HIDE DEF master
    <2> QED
      BY <2>1, <2>2, AddSlaveStep
  <1>7. ASSUME NEW c \in Conns, syncWait(c) PROVE IInv'
    <2>1. AddSlave(c, m, "WAIT_BGSAVE_START", <<>>, <<FullResync(FALSE)>>)
      BY <1>7 DEF syncWait
    <2> QED
      BY <2>1, <1>1, AddSlaveStep
  <1>8. ASSUME NEW c \in Conns, NEW d \in Conns, syncAttach(c, d) PROVE IInv'
    <2>1. AddSlave(c, m, "WAIT_BGSAVE_END", client[d].reply, <<FullResync(FALSE)>>)
      BY <1>8 DEF syncAttach
    <2> QED
      BY <2>1, <1>1, AddSlaveStep
  <1>9. CASE rdbSaveBackground
    <2> DEFINE G == [m EXCEPT !.rdb_child = [rdb |-> m.data]]
    <2>1. m' = G /\ client' = client
      BY <1>9 DEF rdbSaveBackground
    <2>2. SameBacklog(m, G)
      BY <1>2
    <2> HIDE DEF G
    <2>3. MasterOK(G) /\ Exact(G)
      BY <1>1, <2>2, SameExact
    <2>4. G.repl_backlog = m.repl_backlog
      BY <2>2 DEF SameBacklog
    <2> QED
      BY <2>1, <2>3, <2>4 DEF IInv, BacklogExact, Attached
  <1>10. ASSUME NEW ok \in BOOLEAN, updateSlavesWaitingBgsave(ok) PROVE IInv'
    <2>1. PICK child : m' = [m EXCEPT !.rdb_child = child]
      BY <1>10 DEF updateSlavesWaitingBgsave
    <2> DEFINE G == [m EXCEPT !.rdb_child = child]
    <2>2. SameBacklog(m, G)
      BY <1>1 DEF SameBacklog, MasterOK, MasterFields
    <2>3. m' = G
      BY <2>1
    <2> HIDE DEF G
    <2>4. MasterOK(G) /\ Exact(G)
      BY <1>1, <2>2, SameExact
    <2>5. G.repl_backlog = m.repl_backlog
      BY <2>2 DEF SameBacklog
    <2>6. /\ client' = [d \in Conns |-> client'[d]]
          /\ \A d \in Conns : client'[d] # None => client[d] # None
      BY <1>10 DEF updateSlavesWaitingBgsave
    <2>7. Attached' # {} => Attached # {}
      BY <2>6 DEF Attached
    <2> QED
      BY <2>3, <2>4, <2>5, <2>6, <2>7, NoNewSlave
  <1>11. ASSUME NEW c \in Conns, sendBulkToSlave(c) PROVE IInv'
    <2>1. client[c] # None /\ m' = m /\ client' = [d \in Conns |-> client'[d]]
      BY <1>11 DEF sendBulkToSlave, IInv
    <2>2. m.repl_backlog # None
      BY <2>1 DEF IInv, BacklogExact, Attached
    <2> QED
      BY <1>1, <2>1, <2>2 DEF IInv, BacklogExact
  <1>12. ASSUME NEW c \in Conns, freeClient(c) PROVE IInv'
    <2>1. /\ m' = m /\ client' = [d \in Conns |-> client'[d]]
          /\ \A d \in Conns : client'[d] # None => client[d] # None
      BY <1>12 DEF freeClient, IInv
    <2>2. Attached' # {} => Attached # {}
      BY <2>1 DEF Attached
    <2> QED
      BY <1>1, <2>1, <2>2 DEF IInv, BacklogExact
  <1>13. CASE BacklogTimeout
    <2>1. Attached = {} /\ m' = freeReplicationBacklog(m) /\ client' = client
      BY <1>13 DEF BacklogTimeout
    <2>2. MasterOK(m') /\ Exact(m')
      BY <2>1, <1>1, FreeExact
    <2> QED
      BY <2>1, <2>2 DEF IInv, BacklogExact, Attached
  <1>14. ASSUME NEW size \in Sizes, ConfigBacklogSize(size) PROVE IInv'
    <2>1. m' = resizeReplicationBacklog(m, size) /\ client' = client /\ size \in AllSizes
      BY <1>14 DEF ConfigBacklogSize, AllSizes
    <2>2. /\ MasterOK(m') /\ Exact(m')
          /\ m.repl_backlog # None => m'.repl_backlog # None
      BY <2>1, <1>1, ResizeExact
    <2> QED
      BY <2>1, <2>2 DEF IInv, BacklogExact, Attached
  <1>15. ASSUME NEW c \in Conns, syncForkFails(c) PROVE IInv'
    <2>1. m' = m /\ client' = client
      BY <1>15 DEF syncForkFails
    <2> QED
      BY <1>1, <2>1 DEF IInv, BacklogExact, Attached
  <1>16. ASSUME NEW saved \in 0 .. Len(m.data), MasterRestart(saved) PROVE IInv'
    <2>1. /\ m' = Start(m.runid + 1, SubSeq(m.data, 1, saved), m.last)
          /\ client' = [c \in Conns |-> None]
      BY <1>16 DEF MasterRestart
    <2>2. m.last \in Nat
      BY <1>1 DEF MasterOK
    <2>4. MasterOK(m') /\ Exact(m')
      BY <2>1, <2>2, StartOK
    <2>5. Attached' = {}
      BY <2>1 DEF Attached
    <2> QED
      BY <2>1, <2>4, <2>5 DEF IInv, BacklogExact
  <1> QED
    BY <1>4, <1>5, <1>6, <1>7, <1>8, <1>9, <1>10, <1>11, <1>12, <1>13, <1>14, <1>15, <1>16
    DEF Master

\* Nothing that a slave does touches the master.
LEMMA SlaveStep ==
    ASSUME IInv, NEW s \in Slaves, Slave(s)
    PROVE  IInv'
  <1>1. UNCHANGED <<m, client>>
    BY DEF Slave, connectWithMaster, ReadContinue, ReadFullResync, readSyncBulkPayload,
           readQueryFromClient, LoseMaster, SlaveRestart, Receive
  <1> QED
    BY <1>1, MasterAway

LEMMA InitIInv == Init => IInv
  <1> SUFFICES ASSUME Init PROVE IInv
    OBVIOUS
  <1>1. MasterOK(m) /\ Exact(m)
    BY StartOK DEF Init
  <1>2. client = [c \in Conns |-> client[c]] /\ Attached = {}
    BY DEF Init, Attached
  <1> QED
    BY <1>1, <1>2 DEF IInv, BacklogExact

LEMMA InductiveIInv == IInv /\ [Next]_vars => IInv'
  <1> SUFFICES ASSUME IInv, [Next]_vars PROVE IInv'
    OBVIOUS
  <1>1. CASE Master
    BY <1>1, MasterStep
  <1>2. ASSUME NEW s \in Slaves, Slave(s) PROVE IInv'
    BY <1>2, SlaveStep
  <1>3. CASE UNCHANGED vars
    BY <1>3, MasterAway DEF vars
  <1> QED
    BY <1>1, <1>2, <1>3 DEF Next

\* The backlog is the end of the replication stream at every time, and it is
\* there while the master has slaves: for all sizes of it, any number of slaves,
\* commands, resyncs, changes of the size, timeouts and restarts.
THEOREM BacklogIsExact == Spec => []BacklogExact
  <1>1. IInv => BacklogExact
    BY DEF IInv
  <1> QED
    BY <1>1, InitIInv, InductiveIInv, PTL DEF Spec

----------------------------------------------------------------------------
LEMMA ModOfSmall ==
    ASSUME NEW n \in Nat \ {0}, NEW x \in 0 .. n + n - 1
    PROVE  x % n = IF x < n THEN x ELSE x - n
  <1>1. CASE x < n
    BY <1>1
  <1>2. CASE x >= n
    BY <1>2
  <1> QED
    BY <1>1, <1>2

\* What addReplyReplicationBacklog reads from an exact backlog, once round the
\* end of the buffer or not, are the bytes from the offset asked for on.
LEMMA RepliesAreExact ==
    ASSUME NEW M, MasterOK(M), Exact(M)
    PROVE  RepliesExact(M)
  <1> SUFFICES ASSUME NEW offset \in 1 .. M.master_repl_offset + 1, Covers(M, offset)
               PROVE  addReplyReplicationBacklog(M, offset) =
                         [k \in 1 .. M.master_repl_offset - offset + 1 |-> M.stream[offset + k - 1]]
    BY DEF RepliesExact
  <1> DEFINE size   == M.repl_backlog_size
             idx    == M.idx
             hist   == M.histlen
             mro    == M.master_repl_offset
             buf    == M.repl_backlog
             stream == M.stream
             off    == M.repl_backlog_off
             skip   == offset - off
             oldest == (idx + (size - hist)) % size
             j      == (oldest + skip) % size
             place(k) == IF j + k - 1 < size THEN j + k - 1 ELSE j + k - 1 - size
             back(k) == IF k <= idx THEN idx - k ELSE idx - k + size
  <1>1. /\ size \in Nat \ {0} /\ idx \in 0 .. size - 1 /\ mro \in Nat
        /\ hist \in 0 .. mro /\ hist <= size /\ off = mro - hist + 1
        /\ offset \in 1 .. mro + 1 /\ offset >= off /\ offset <= off + hist
    BY PsyncAssumption DEF MasterOK, Exact, Covers
  <1>2. \A k \in 1 .. hist : buf[back(k)] = stream[mro - k + 1]
    <2>1. \A k \in 1 .. hist : Slot(M, k) = back(k)
      BY DEF Slot
    <2>2. \A k \in 1 .. hist : buf[Slot(M, k)] = stream[mro - k + 1]
      BY DEF Exact, Covers
    <2> QED
      BY <2>1, <2>2
  <1>3. CASE hist = 0
    <2>1. mro - offset + 1 = 0
      BY <1>1, <1>3
    <2>2. addReplyReplicationBacklog(M, offset) = <<>>
      BY <1>3 DEF addReplyReplicationBacklog
    <2>3. 1 .. mro - offset + 1 = {}
      BY <2>1
    <2> QED
      BY <2>2, <2>3
  <1>4. CASE hist # 0
    <2>1. addReplyReplicationBacklog(M, offset) = [k \in 1 .. hist - skip |-> buf[place(k)]]
      BY <1>4 DEF addReplyReplicationBacklog
    <2> SUFFICES [k \in 1 .. hist - skip |-> buf[place(k)]]
                    = [k \in 1 .. mro - offset + 1 |-> stream[offset + k - 1]]
      BY <2>1
    <2>2. hist - skip = mro - offset + 1 /\ skip \in 0 .. hist
      BY <1>1
    <2>3. oldest = IF idx < hist THEN idx - hist + size ELSE idx - hist
      <3> DEFINE n == size  x == idx + (size - hist)
      <3>1. x \in 0 .. n + n - 1 /\ n \in Nat \ {0}
        BY <1>1
      <3> HIDE DEF n, x
      <3>2. x % n = IF x < n THEN x ELSE x - n
        BY <3>1, ModOfSmall
      <3>3. oldest = x % n
        BY DEF n, x
      <3>4. x = idx + (size - hist) /\ n = size
        BY DEF n, x
      <3> HIDE DEF size, idx, hist, oldest
      <3> QED
        BY <1>1, <3>2, <3>3, <3>4
    <2> HIDE DEF oldest, skip, size, idx, hist, mro, off, buf, stream
    <2>4. oldest \in 0 .. size - 1
      BY <1>1, <2>3
    <2>5. j = IF oldest + skip < size THEN oldest + skip ELSE oldest + skip - size
      <3> DEFINE x == oldest + skip
      <3>1. x \in 0 .. size + size - 1 /\ size \in Nat \ {0}
        BY <1>1, <2>2, <2>4
      <3> HIDE DEF x
      <3>2. x % size = IF x < size THEN x ELSE x - size
        BY <3>1, ModOfSmall
      <3>3. x = oldest + skip /\ j = x % size
        BY DEF x
      <3> HIDE DEF j
      <3> QED
        BY <1>1, <2>2, <2>4, <3>1, <3>2, <3>3
    <2> HIDE DEF j
    <2>6. ASSUME NEW k \in 1 .. hist - skip
          PROVE  buf[place(k)] = stream[offset + k - 1]
      <3> DEFINE b == hist - skip - k + 1
      <3>1. b \in 1 .. hist
        BY <1>1, <2>2
      <3>2. place(k) = back(b)
        BY <1>1, <2>2, <2>3, <2>4, <2>5
      <3>3. mro - b + 1 = offset + k - 1
        BY <1>1, <2>2
      <3> HIDE DEF b, place, back
      <3>4. buf[back(b)] = stream[mro - b + 1]
        BY <1>2, <3>1
      <3> QED
        BY <3>2, <3>3, <3>4
    <2> HIDE DEF place
    <2> QED
      BY <2>2, <2>6
  <1> QED
    BY <1>3, <1>4

\* A slave that may go on is sent exactly the bytes of the stream that it asked
\* for, wherever in the buffer they begin: no byte of an older lap, none twice.
THEOREM ContinueIsExact == Spec => []ContinueExact
  <1>1. IInv => ContinueExact
    BY RepliesAreExact DEF IInv, BacklogExact, ContinueExact
  <1> QED
    BY <1>1, InitIInv, InductiveIInv, PTL DEF Spec

----------------------------------------------------------------------------
(* What a sequence of bytes under way brings to a dataset *)

CmdBytes == {"SELECT", "FIRST", "REST"} \X Nat

\* The numbers of the commands that are complete in P, and of those of D that
\* come after the first n.
Rests(P)    == {P[p][2] : p \in {q \in DOMAIN P : P[q][1] = "REST"}}
Later(n, D) == {D[k][2] : k \in n + 1 .. Len(D)}

\* Who has chosen db before P has chosen x when p bytes of P are read.
Chosen(P, db, p, x) ==
    \/ x = db /\ \A q \in 1 .. p : P[q][1] # "SELECT"
    \/ \E q \in 1 .. p : P[q] = Select(x) /\ \A r \in q + 1 .. p : P[r][1] # "SELECT"

\* The commands are numbered in the order they were executed in.
Numbered(D) == \A j, k \in 1 .. Len(D) : j < k => D[j][2] < D[k][2]
InOrder(P) ==
    \A p, q \in DOMAIN P : p < q /\ P[p][1] = "REST" /\ P[q][1] = "REST" => P[p][2] < P[q][2]

\* A dataset d is on its way to D, and P, read with db chosen, goes along it:
\* the commands of P are the next of D, with none left out, in their databases.
Leads(P, d, db, D) ==
    /\ IsPrefixOf(d, D)
    /\ InOrder(P)
    /\ Rests(P) \subseteq Later(Len(d), D)
    /\ \A a \in Later(Len(d), D), b \in Rests(P) : a < b => a \in Rests(P)
    /\ \A p \in DOMAIN P, k \in Len(d) + 1 .. Len(D) :
          P[p] = Rest(D[k][2]) => Chosen(P, db, p, D[k][1])

\* ... and to the end: with P all of the dataset of the master is there, and the
\* database is chosen that the master takes to be.
Ends(M, P, d, db) ==
    /\ Later(Len(d), M.data) \subseteq Rests(P)
    /\ M.slaveseldb # -1 => Chosen(P, db, Len(P), M.slaveseldb)
Goes(M, P, d, db) == Leads(P, d, db, M.data) /\ Ends(M, P, d, db)

----------------------------------------------------------------------------
(* Places in the stream *)

Suffix(M, off) == [i \in 1 .. M.master_repl_offset - off |-> M.stream[off + i]]
Whole(M, off)  == \A p \in off + 1 .. M.master_repl_offset : M.stream[p][1] # "HOLE"

\* A dataset is that of the offset off: who is sent the rest of the stream, if
\* the rest was fed without a break, gets the dataset of the master.
Placed(M, off, sound, d, db) ==
    /\ off \in 0 .. M.master_repl_offset
    /\ sound /\ M.repl_backlog # None /\ Whole(M, off) => Goes(M, Suffix(M, off), d, db)

\* P is a part of the stream from off on, and if all then up to the end.
PartOf(M, P, off, all) ==
    /\ off + Len(P) <= M.master_repl_offset
    /\ all => off + Len(P) = M.master_repl_offset
    /\ \A i \in 1 .. Len(P) : P[i] = M.stream[off + i]

----------------------------------------------------------------------------
(* The slaves *)

Messages ==
    FullResyncs \cup [type : {"CONTINUE"}] \cup [type : {"RDB"}, data : Datasets]
        \cup [type : {"BYTE"}, byte : CmdBytes]

\* The bytes on a wire after k messages.
Payload(w, k) == [i \in 1 .. Len(w) - k |-> w[k + i].byte]
OnlyBytes(w, k) == \A i \in k + 1 .. Len(w) : w[i] = Byte(w[i].byte) /\ w[i].byte \in CmdBytes

\* The dataset of a run of the master, with M the master and pa what is past.
DataIn(M, pa, run) == IF run = M.runid THEN M.data ELSE pa[run]

\* A slave that will go on, k messages from now, from the offset off of a run
\* of the master with the dataset d: what it will read then.  cl is the master's
\* client for it, or None.
Streams(M, pa, w, k, cl, run, off, exact, sound, d, db) ==
    LET P == Payload(w, k)
    IN /\ OnlyBytes(w, k)
       /\ run \in 1 .. M.runid
       /\ sound => Leads(P, d, db, DataIn(M, pa, run))
       /\ cl # None => run = M.runid /\ cl.replstate = "ONLINE" /\ (sound => Goes(M, P, d, db))
       /\ run = M.runid /\ exact =>
             /\ PartOf(M, P, off, cl # None)
             /\ Placed(M, off, sound, d, db)

\* One that waits for its copy.
Waits(M, cl, run, off, exact) ==
    /\ run \in 1 .. M.runid
    /\ cl # None =>
          /\ run = M.runid /\ cl.replstate # "ONLINE"
          /\ exact => cl.replstate # "WAIT_BGSAVE_START" /\ PartOf(M, cl.reply, off, TRUE)

\* What is in the copies can only be told if those who wait for a child get one.
Forks == ~ForkFails
Sound(slave) == slave.sound /\ Forks

\* What the master keeps for a slave until that has its copy.
ClientOK(M, cl) ==
    /\ cl.reply \in Seq(CmdBytes)
    /\ cl.replstate = "SEND_BULK" => cl.rdb \in Datasets
    /\ Forks =>
          /\ cl.replstate = "WAIT_BGSAVE_START" =>
                /\ M.rdb_child # None /\ Rests(cl.reply) = {}
                /\ M.slaveseldb # -1 => Chosen(cl.reply, 0, Len(cl.reply), M.slaveseldb)
          /\ cl.replstate = "WAIT_BGSAVE_END" =>
                M.rdb_child # None /\ Goes(M, cl.reply, M.rdb_child.rdb, 0)
          /\ cl.replstate = "SEND_BULK" => Goes(M, cl.reply, cl.rdb, 0)

\* The answer on its way to a slave that has asked: none yet, that it may go on,
\* or that it will get a copy, and the copy with what came after it.
Answered(M, pa, slave, w, cl, asked) ==
    LET known == slave.cached_master
    IN \/ /\ w = <<>> /\ cl = None
          /\ asked # None =>
                asked = IF known = None THEN [runid |-> 0, offset |-> -1]
                        ELSE [runid |-> known.replrunid, offset |-> known.reploff + 1]
       \/ /\ asked = None /\ known # None
          /\ Len(w) > 0 /\ w[1].type = "CONTINUE"
          /\ Streams(M, pa, w, 1, cl, known.replrunid, known.reploff, known.exact,
                     Sound(slave) /\ known.exact, slave.data, known.db)
       \/ /\ asked = None
          /\ Len(w) = 1 /\ w[1] \in FullResyncs
          /\ Waits(M, cl, w[1].runid, w[1].offset, w[1].exact)
       \/ /\ asked = None
          /\ Len(w) > 1 /\ w[1] \in FullResyncs /\ w[2].type = "RDB" /\ w[2].data \in Datasets
          /\ Streams(M, pa, w, 2, cl, w[1].runid, w[1].offset, w[1].exact, Forks, w[2].data, 0)

\* The copy on its way to a slave that has the answer.
Transferred(M, pa, slave, w, cl, asked) ==
    LET told == slave.initial
    IN /\ asked = None /\ slave.cached_master = None /\ told \in FullResyncs
       /\ \/ w = <<>> /\ Waits(M, cl, told.runid, told.offset, told.exact)
          \/ /\ Len(w) > 0 /\ w[1].type = "RDB" /\ w[1].data \in Datasets
             /\ Streams(M, pa, w, 1, cl, told.runid, told.offset, told.exact, Forks, w[1].data, 0)

\* What a slave without the master knows of it still holds.
Knows(M, pa, slave) ==
    LET known == slave.cached_master
    IN known # None =>
          /\ known.replrunid \in 1 .. M.runid
          /\ Sound(slave) => IsPrefixOf(slave.data, DataIn(M, pa, known.replrunid))
          /\ known.replrunid = M.runid /\ known.exact =>
                Placed(M, known.reploff, Sound(slave), slave.data, known.db)

SlaveOK(M, pa, slave, w, cl, asked) ==
    /\ Knows(M, pa, slave)
    /\ slave.repl_state = "PSYNC" => Answered(M, pa, slave, w, cl, asked)
    /\ slave.repl_state = "TRANSFER" => Transferred(M, pa, slave, w, cl, asked)
    /\ slave.repl_state = "CONNECTED" =>
          /\ asked = None
          /\ Streams(M, pa, w, 0, cl, slave.master.replrunid, slave.master.reploff,
                     slave.master.exact, Sound(slave), slave.data, slave.master.db)

\* The runs of the master: what each left, and the numbers of its commands; and
\* the backlog has no hole.
RunsOK(M, pa) ==
    /\ pa \in Seq(Datasets) /\ Len(pa) = M.runid - 1
    /\ Numbered(M.data) /\ \A r \in 1 .. Len(pa) : Numbered(pa[r])
    /\ \A k \in 1 .. Len(M.data) : M.data[k][2] <= M.last
    /\ M.slaveseldb \in Nat \cup {-1}
    /\ M.repl_backlog # None => Whole(M, M.repl_backlog_off - 1)

ClientsOK == \A c \in Conns : client[c] # None => req[c] = None /\ ClientOK(m, client[c])
OneEach   == \A s, t \in Slaves : s # t /\ sl[s].conn = sl[t].conn => sl[s].conn = None
SlavesOK  == \A s \in Slaves :
    LET c == sl[s].conn
    IN IF c = None THEN Knows(m, past, sl[s])
       ELSE SlaveOK(m, past, sl[s], wire[c], client[c], req[c])

SInv ==
    /\ BacklogExact /\ TypeOK
    /\ wire \in [Conns -> Seq(Messages)]
    /\ RunsOK(m, past) /\ ClientsOK /\ OneEach /\ SlavesOK
----------------------------------------------------------------------------
(* Lemmas on what is under way *)

\* The numbers in P, without looking at the parts of a byte.
LEMMA RestsOf ==
    ASSUME NEW P \in Seq(CmdBytes)
    PROVE  /\ \A n : n \in Rests(P) <=> \E p \in 1 .. Len(P) : P[p] = Rest(n)
           /\ Rests(P) \subseteq Nat
  <1>1. \A p \in 1 .. Len(P) : P[p] \in CmdBytes
    OBVIOUS
  <1>2. \A b \in CmdBytes : /\ b[2] \in Nat
                            /\ (b[1] = "REST") = (b = <<"REST", b[2]>>)
    BY DEF CmdBytes
  <1>3. DOMAIN P = 1 .. Len(P)
    OBVIOUS
  <1> QED
    BY <1>1, <1>2, <1>3 DEF Rests, Rest

\* The rest of a sequence.
LEMMA TailOf ==
    ASSUME NEW S, NEW P \in Seq(S), P # <<>>
    PROVE  /\ Tail(P) \in Seq(S) /\ Len(P) \in Nat /\ Len(Tail(P)) = Len(P) - 1
           /\ Len(P) > 0 /\ P[1] \in S
           /\ \A p \in 1 .. Len(P) - 1 : Tail(P)[p] = P[p + 1]
  OBVIOUS

\* After the first byte: who had chosen db has chosen what that byte chooses.
LEMMA ChosenTail ==
    ASSUME NEW P \in Seq(CmdBytes), P # <<>>, NEW db, NEW next, NEW x, NEW p \in 1 .. Len(P),
           next = IF P[1][1] = "SELECT" THEN P[1][2] ELSE db,
           Chosen(P, db, p, x)
    PROVE  Chosen(Tail(P), next, p - 1, x)
  <1> DEFINE T == Tail(P)
  <1>1. /\ Len(P) \in Nat /\ Len(P) > 0 /\ P[1] \in CmdBytes
        /\ \A q \in 1 .. Len(P) - 1 : T[q] = P[q + 1]
    BY TailOf
  <1> HIDE DEF T
  <1>2. CASE x = db /\ \A q \in 1 .. p : P[q][1] # "SELECT"
    <2>1. next = x
      BY <1>1, <1>2
    <2>2. \A q \in 1 .. p - 1 : T[q][1] # "SELECT"
      <3> TAKE q \in 1 .. p - 1
      <3>1. q + 1 \in 1 .. p /\ q \in 1 .. Len(P) - 1
        OBVIOUS
      <3> QED
        BY <1>1, <1>2, <3>1
    <2> QED
      BY <2>1, <2>2 DEF Chosen, T
  <1>3. CASE \E q \in 1 .. p : P[q] = Select(x) /\ \A r \in q + 1 .. p : P[r][1] # "SELECT"
    <2>1. PICK q \in 1 .. p : P[q] = Select(x) /\ \A r \in q + 1 .. p : P[r][1] # "SELECT"
      BY <1>3
    <2>2. \A r \in q .. p - 1 : r > 0 /\ r # q - 1 => T[r][1] # "SELECT"
      <3> TAKE r \in q .. p - 1
      <3>1. r + 1 \in q + 1 .. p /\ r \in 1 .. Len(P) - 1
        BY <1>1
      <3> QED
        BY <1>1, <2>1, <3>1
    <2>3. CASE q = 1
      <3>1. next = x
        BY <2>1, <2>3 DEF Select
      <3>2. \A r \in 1 .. p - 1 : T[r][1] # "SELECT"
        BY <2>2, <2>3
      <3> QED
        BY <3>1, <3>2 DEF Chosen, T
    <2>4. CASE q # 1
      <3>1. q - 1 \in 1 .. p - 1 /\ q - 1 \in 1 .. Len(P) - 1 /\ (q - 1) + 1 = q
        BY <2>4, <1>1
      <3>2. T[q - 1] = Select(x)
        BY <1>1, <2>1, <3>1
      <3>3. \A r \in (q - 1) + 1 .. p - 1 : T[r][1] # "SELECT"
        BY <2>2, <3>1
      <3> QED
        BY <3>1, <3>2, <3>3 DEF Chosen, T
    <2> QED
      BY <2>3, <2>4
  <1> QED
    BY <1>2, <1>3 DEF Chosen

\* A byte that ends no command leaves the commands to come.
LEMMA LeadsPart ==
    ASSUME NEW P \in Seq(CmdBytes), P # <<>>, P[1][1] # "REST", NEW d, NEW D \in Datasets,
           NEW db, Leads(P, d, db, D),
           NEW next, next = IF P[1][1] = "SELECT" THEN P[1][2] ELSE db
    PROVE  Leads(Tail(P), d, next, D) /\ Rests(Tail(P)) = Rests(P)
  <1> DEFINE T == Tail(P)
  <1>1. /\ T \in Seq(CmdBytes) /\ Len(P) \in Nat /\ Len(T) = Len(P) - 1 /\ Len(P) > 0
        /\ \A q \in 1 .. Len(P) - 1 : T[q] = P[q + 1]
        /\ DOMAIN P = 1 .. Len(P) /\ DOMAIN T = 1 .. Len(P) - 1
    BY TailOf
  <1> HIDE DEF T
  <1>2. Rests(T) = Rests(P)
    <2>1. ASSUME NEW n, n \in Rests(T) PROVE n \in Rests(P)
      <3>1. PICK q \in 1 .. Len(P) - 1 : T[q] = Rest(n)
        BY <1>1, <2>1, RestsOf
      <3>2. q + 1 \in 1 .. Len(P) /\ P[q + 1] = Rest(n)
        BY <1>1, <3>1
      <3> QED
        BY <3>2, RestsOf
    <2>2. ASSUME NEW n, n \in Rests(P) PROVE n \in Rests(T)
      <3>1. PICK q \in 1 .. Len(P) : P[q] = Rest(n)
        BY <2>2, RestsOf
      <3>2. q # 1
        BY <3>1 DEF Rest
      <3>3. q - 1 \in 1 .. Len(P) - 1 /\ T[q - 1] = Rest(n)
        BY <1>1, <3>1, <3>2
      <3> QED
        BY <1>1, <3>3, RestsOf
    <2> QED
      BY <2>1, <2>2
  <1>3. InOrder(T)
    <2> SUFFICES ASSUME NEW p \in 1 .. Len(P) - 1, NEW q \in 1 .. Len(P) - 1, p < q,
                        T[p][1] = "REST", T[q][1] = "REST"
                 PROVE  T[p][2] < T[q][2]
      BY <1>1 DEF InOrder
    <2>1. p + 1 \in 1 .. Len(P) /\ q + 1 \in 1 .. Len(P) /\ p + 1 < q + 1
      BY <1>1
    <2> QED
      BY <1>1, <2>1 DEF Leads, InOrder
  <1>4. \A p \in DOMAIN T, k \in Len(d) + 1 .. Len(D) :
           T[p] = Rest(D[k][2]) => Chosen(T, next, p, D[k][1])
    <2> SUFFICES ASSUME NEW p \in 1 .. Len(P) - 1, NEW k \in Len(d) + 1 .. Len(D),
                        T[p] = Rest(D[k][2])
                 PROVE  Chosen(T, next, p, D[k][1])
      BY <1>1
    <2>1. p + 1 \in 1 .. Len(P) /\ P[p + 1] = Rest(D[k][2]) /\ (p + 1) - 1 = p
      BY <1>1
    <2>2. Chosen(P, db, p + 1, D[k][1])
      BY <1>1, <2>1 DEF Leads
    <2> QED
      BY <2>1, <2>2, ChosenTail DEF T
  <1> QED
    BY <1>2, <1>3, <1>4 DEF Leads, T

\* A prefix grows by the next element of the whole.
LEMMA PrefixAppend ==
    ASSUME NEW S, NEW d \in Seq(S), NEW D \in Seq(S), IsPrefixOf(d, D),
           NEW k, k = Len(d) + 1, k \in 1 .. Len(D)
    PROVE  IsPrefixOf(Append(d, D[k]), D) /\ Append(d, D[k]) \in Seq(S)
  <1> DEFINE e == Append(d, D[k])
             f == SubSeq(D, 1, Len(e))
  <1>1. /\ e \in Seq(S) /\ Len(e) = Len(d) + 1 /\ Len(e) <= Len(D)
        /\ Len(d) \in Nat /\ Len(D) \in Nat /\ D[k] \in S
    OBVIOUS
  <1>2. f \in Seq(S) /\ Len(f) = Len(e) /\ \A i \in 1 .. Len(e) : f[i] = D[i]
    BY <1>1
  <1>3. \A i \in 1 .. Len(d) : d[i] = D[i]
    <2>1. d = SubSeq(D, 1, Len(d)) /\ Len(d) <= Len(D)
      BY DEF IsPrefixOf
    <2> QED
      BY <2>1
  <1>4. \A i \in 1 .. Len(e) : e[i] = D[i]
    BY <1>1, <1>3
  <1> HIDE DEF e, f
  <1>5. e = f
    BY <1>1, <1>2, <1>4
  <1> QED
    BY <1>1, <1>5 DEF e, f, IsPrefixOf

\* The end of a command makes the dataset the next that the other had.
LEMMA LeadsRest ==
    ASSUME NEW P \in Seq(CmdBytes), P # <<>>, NEW n \in Nat, P[1] = Rest(n),
           NEW d \in Datasets, NEW D \in Datasets, Numbered(D), NEW db, Leads(P, d, db, D)
    PROVE  /\ Leads(Tail(P), Append(d, <<db, n>>), db, D)
           /\ Later(Len(d), D) \subseteq Rests(P) =>
                 Later(Len(d) + 1, D) \subseteq Rests(Tail(P))
  <1> DEFINE T == Tail(P)
             L == Len(d)
             e == Append(d, <<db, n>>)
  <1>1. /\ T \in Seq(CmdBytes) /\ Len(P) \in Nat /\ Len(T) = Len(P) - 1 /\ Len(P) > 0
        /\ \A q \in 1 .. Len(P) - 1 : T[q] = P[q + 1]
        /\ DOMAIN P = 1 .. Len(P) /\ DOMAIN T = 1 .. Len(P) - 1
        /\ P[1][1] = "REST" /\ P[1][2] = n /\ 1 \in 1 .. Len(P)
    BY TailOf DEF Rest
  <1>2. /\ L \in Nat /\ Len(D) \in Nat
        /\ \A k \in 1 .. Len(D) : D[k] \in Nat \X Nat
    BY DEF Datasets
  <1>3. /\ InOrder(P) /\ Rests(P) \subseteq Later(L, D) /\ Rests(P) \subseteq Nat
        /\ \A a \in Later(L, D), b \in Rests(P) : a < b => a \in Rests(P)
        /\ \A k \in L + 1 .. Len(D) : P[1] = Rest(D[k][2]) => Chosen(P, db, 1, D[k][1])
        /\ IsPrefixOf(d, D)
    BY <1>1, RestsOf DEF Leads
  <1> HIDE DEF T, L
  <1>4. \A p \in 2 .. Len(P) : P[p][1] = "REST" => n < P[p][2]
    <2> TAKE p \in 2 .. Len(P)
    <2> QED
      BY <1>1, <1>3 DEF InOrder
  <1>5. Rests(T) = Rests(P) \ {n} /\ n \in Rests(P) /\ \A b \in Rests(T) : n < b
    <2>1. ASSUME NEW b, b \in Rests(T) PROVE b \in Rests(P) /\ n < b
      <3>1. PICK q \in 1 .. Len(P) - 1 : T[q] = Rest(b)
        BY <1>1, <2>1, RestsOf
      <3>2. q + 1 \in 2 .. Len(P) /\ P[q + 1] = Rest(b)
        BY <1>1, <3>1
      <3>3. b \in Rests(P)
        BY <3>2, RestsOf
      <3>4. P[q + 1][1] = "REST" /\ P[q + 1][2] = b
        BY <3>2 DEF Rest
      <3> QED
        BY <1>4, <3>2, <3>3, <3>4
    <2>2. ASSUME NEW b, b \in Rests(P), b # n PROVE b \in Rests(T)
      <3>1. PICK q \in 1 .. Len(P) : P[q] = Rest(b)
        BY <2>2, RestsOf
      <3>2. q # 1
        BY <1>1, <2>2, <3>1 DEF Rest
      <3>3. q - 1 \in 1 .. Len(P) - 1 /\ T[q - 1] = Rest(b)
        BY <1>1, <3>1, <3>2
      <3> QED
        BY <1>1, <3>3, RestsOf
    <2>3. n \in Rests(P)
      BY <1>1, RestsOf
    <2> QED
      BY <2>1, <2>2, <2>3, <1>3
  <1>6. PICK k \in L + 1 .. Len(D) : D[k][2] = n
    BY <1>3, <1>5 DEF Later
  <1>7. k = L + 1
    <2> SUFFICES ASSUME k # L + 1 PROVE FALSE
      OBVIOUS
    <2> DEFINE a == D[L + 1][2]
    <2>1. L + 1 \in 1 .. Len(D) /\ k \in 1 .. Len(D) /\ L + 1 < k
      BY <1>2
    <2>2. a < n
      BY <2>1, <1>6 DEF Numbered
    <2>3. a \in Later(L, D)
      BY <2>1, <1>2 DEF Later
    <2>4. a \in Rests(P) /\ a # n
      BY <1>2, <1>3, <1>5, <2>1, <2>2, <2>3
    <2>5. n < a
      BY <1>5, <2>4
    <2>6. a \in Nat
      BY <1>2, <2>1
    <2> QED
      BY <2>2, <2>5, <2>6
  <1>8. D[L + 1] = <<db, n>> /\ L + 1 \in 1 .. Len(D)
    <2>1. Chosen(P, db, 1, D[L + 1][1])
      BY <1>1, <1>3, <1>6, <1>7
    <2>2. P[1][1] # "SELECT" /\ \A q \in 1 .. 1 : q = 1
      BY <1>1
    <2>3. D[L + 1][1] = db
      BY <1>1, <2>1, <2>2 DEF Chosen, Select
    <2>4. L + 1 \in 1 .. Len(D) /\ D[L + 1] \in Nat \X Nat
      BY <1>2, <1>6, <1>7
    <2> QED
      BY <2>3, <2>4, <1>6, <1>7
  <1>9. /\ IsPrefixOf(e, D)
        /\ Len(e) = L + 1
    <2>1. d \in Seq(Nat \X Nat) /\ D \in Seq(Nat \X Nat)
      BY DEF Datasets
    <2>2. IsPrefixOf(Append(d, D[L + 1]), D)
      BY <1>3, <1>8, <2>1, PrefixAppend DEF L
    <2>3. Len(e) = L + 1
      BY <2>1 DEF L
    <2> QED
      BY <1>8, <2>2, <2>3
  <1> HIDE DEF e
  <1>10. Later(L + 1, D) = Later(L, D) \ {n} /\ \A a \in Later(L + 1, D) : n < a
    <2>1. \A j \in (L + 1) + 1 .. Len(D) : n < D[j][2]
      <3> TAKE j \in (L + 1) + 1 .. Len(D)
      <3>1. j \in 1 .. Len(D) /\ L + 1 < j /\ D[L + 1][2] = n
        BY <1>2, <1>6, <1>7
      <3> QED
        BY <3>1, <1>8 DEF Numbered
    <2>2. \A j \in L + 1 .. Len(D) : j = L + 1 \/ j \in (L + 1) + 1 .. Len(D)
      BY <1>2
    <2>3. \A j \in (L + 1) + 1 .. Len(D) : j \in L + 1 .. Len(D) /\ D[j][2] # n
      <3> TAKE j \in (L + 1) + 1 .. Len(D)
      <3>1. j \in L + 1 .. Len(D) /\ j \in 1 .. Len(D)
        BY <1>2
      <3>2. n < D[j][2] /\ D[j][2] \in Nat
        BY <1>2, <2>1, <3>1
      <3> QED
        BY <3>1, <3>2
    <2>4. D[L + 1][2] = n
      BY <1>6, <1>7
    <2>5. ASSUME NEW a, a \in Later(L + 1, D) PROVE a \in Later(L, D) \ {n} /\ n < a
      BY <2>1, <2>3, <2>5 DEF Later
    <2>6. ASSUME NEW a, a \in Later(L, D) \ {n} PROVE a \in Later(L + 1, D)
      BY <2>2, <2>4, <2>6 DEF Later
    <2> QED
      BY <2>5, <2>6
  <1>11. InOrder(T)
    <2> SUFFICES ASSUME NEW p \in 1 .. Len(P) - 1, NEW q \in 1 .. Len(P) - 1, p < q,
                        T[p][1] = "REST", T[q][1] = "REST"
                 PROVE  T[p][2] < T[q][2]
      BY <1>1 DEF InOrder
    <2>1. p + 1 \in DOMAIN P /\ q + 1 \in DOMAIN P /\ p + 1 < q + 1
      BY <1>1
    <2>2. T[p] = P[p + 1] /\ T[q] = P[q + 1]
      BY <1>1
    <2>3. P[p + 1][2] < P[q + 1][2]
      BY <1>3, <2>1, <2>2 DEF InOrder
    <2> QED
      BY <2>2, <2>3
  <1>12. \A p \in DOMAIN T, j \in Len(e) + 1 .. Len(D) :
            T[p] = Rest(D[j][2]) => Chosen(T, db, p, D[j][1])
    <2> SUFFICES ASSUME NEW p \in 1 .. Len(P) - 1, NEW j \in (L + 1) + 1 .. Len(D),
                        T[p] = Rest(D[j][2])
                 PROVE  Chosen(T, db, p, D[j][1])
      BY <1>1, <1>9
    <2>1. /\ p + 1 \in 1 .. Len(P) /\ P[p + 1] = Rest(D[j][2]) /\ (p + 1) - 1 = p
          /\ j \in L + 1 .. Len(D)
      BY <1>1, <1>2
    <2>2. Chosen(P, db, p + 1, D[j][1])
      BY <1>1, <2>1 DEF Leads, L
    <2>3. db = IF P[1][1] = "SELECT" THEN P[1][2] ELSE db
      BY <1>1
    <2> QED
      BY <2>1, <2>2, <2>3, ChosenTail DEF T
  <1>13. /\ Rests(T) \subseteq Later(Len(e), D)
         /\ \A a \in Later(Len(e), D), b \in Rests(T) : a < b => a \in Rests(T)
    <2>1. \A a \in Later(L + 1, D) : a # n
      BY <1>10
    <2> QED
      BY <1>3, <1>5, <1>9, <1>10, <2>1
  <1>14. Later(L, D) \subseteq Rests(P) => Later(L + 1, D) \subseteq Rests(T)
    BY <1>5, <1>10
  <1> QED
    BY <1>9, <1>11, <1>12, <1>13, <1>14 DEF Leads, T, e, L

\* Places in a sequence that something was added to.
LEMMA AppendOf ==
    ASSUME NEW S, NEW P \in Seq(S), NEW b \in S
    PROVE  /\ Append(P, b) \in Seq(S) /\ Len(P) \in Nat /\ Len(Append(P, b)) = Len(P) + 1
           /\ Append(P, b)[Len(P) + 1] = b
           /\ \A p \in 1 .. Len(P) : Append(P, b)[p] = P[p] /\ P[p] \in S
  OBVIOUS

\* More bytes at the end change nothing for what was read before them.
LEMMA ChosenAppend ==
    ASSUME NEW P \in Seq(CmdBytes), NEW b \in CmdBytes, NEW db, NEW x
    PROVE  /\ \A p \in 1 .. Len(P) : Chosen(P, db, p, x) => Chosen(Append(P, b), db, p, x)
           /\ b[1] # "SELECT" /\ Chosen(P, db, Len(P), x) =>
                 Chosen(Append(P, b), db, Len(P) + 1, x)
           /\ b = Select(x) => Chosen(Append(P, b), db, Len(P) + 1, x)
  <1> DEFINE Q == Append(P, b)
  <1>1. /\ Len(P) \in Nat /\ Q[Len(P) + 1] = b /\ \A p \in 1 .. Len(P) : Q[p] = P[p]
    BY AppendOf
  <1> HIDE DEF Q
  <1>2. ASSUME NEW p \in 1 .. Len(P), Chosen(P, db, p, x) PROVE Chosen(Q, db, p, x)
    <2>1. \A q \in 1 .. p : q \in 1 .. Len(P)
      BY <1>1
    <2>2. CASE x = db /\ \A q \in 1 .. p : P[q][1] # "SELECT"
      BY <1>1, <2>1, <2>2 DEF Chosen
    <2>3. CASE \E q \in 1 .. p : P[q] = Select(x) /\ \A r \in q + 1 .. p : P[r][1] # "SELECT"
      <3>1. PICK q \in 1 .. p : P[q] = Select(x) /\ \A r \in q + 1 .. p : P[r][1] # "SELECT"
        BY <2>3
      <3>2. \A r \in q + 1 .. p : r \in 1 .. Len(P)
        BY <1>1
      <3>3. Q[q] = Select(x) /\ \A r \in q + 1 .. p : Q[r][1] # "SELECT"
        BY <1>1, <2>1, <3>1, <3>2
      <3> QED
        BY <3>3 DEF Chosen
    <2> QED
      BY <1>2, <2>2, <2>3 DEF Chosen
  <1>3. ASSUME b[1] # "SELECT", Chosen(P, db, Len(P), x)
        PROVE  Chosen(Q, db, Len(P) + 1, x)
    <2>1. \A q \in 1 .. Len(P) + 1 : q \in 1 .. Len(P) \/ q = Len(P) + 1
      BY <1>1
    <2>2. CASE x = db /\ \A q \in 1 .. Len(P) : P[q][1] # "SELECT"
      BY <1>1, <1>3, <2>1, <2>2 DEF Chosen
    <2>3. CASE \E q \in 1 .. Len(P) : /\ P[q] = Select(x)
                                      /\ \A r \in q + 1 .. Len(P) : P[r][1] # "SELECT"
      <3>1. PICK q \in 1 .. Len(P) : /\ P[q] = Select(x)
                                     /\ \A r \in q + 1 .. Len(P) : P[r][1] # "SELECT"
        BY <2>3
      <3>2. \A r \in q + 1 .. Len(P) + 1 :
               (r \in 1 .. Len(P) /\ r \in q + 1 .. Len(P)) \/ r = Len(P) + 1
        BY <1>1
      <3>3. Q[q] = Select(x) /\ \A r \in q + 1 .. Len(P) + 1 : Q[r][1] # "SELECT"
        BY <1>1, <1>3, <3>1, <3>2
      <3>4. q \in 1 .. Len(P) + 1
        BY <1>1
      <3> QED
        BY <3>3, <3>4 DEF Chosen
    <2> QED
      BY <1>3, <2>2, <2>3 DEF Chosen
  <1>4. ASSUME b = Select(x) PROVE Chosen(Q, db, Len(P) + 1, x)
    <2>1. Len(P) + 1 \in 1 .. Len(P) + 1 /\ \A r \in (Len(P) + 1) + 1 .. Len(P) + 1 : FALSE
      BY <1>1
    <2> QED
      BY <1>1, <1>4, <2>1 DEF Chosen
  <1> QED
    BY <1>2, <1>3, <1>4 DEF Q

\* The commands of a longer sequence of bytes.
LEMMA RestsAppend ==
    ASSUME NEW P \in Seq(CmdBytes), NEW b \in CmdBytes
    PROVE  Rests(Append(P, b)) = IF b[1] = "REST" THEN Rests(P) \cup {b[2]} ELSE Rests(P)
  <1> DEFINE Q == Append(P, b)
  <1>1. /\ Q \in Seq(CmdBytes) /\ Len(P) \in Nat /\ Len(Q) = Len(P) + 1
        /\ Q[Len(P) + 1] = b /\ \A p \in 1 .. Len(P) : Q[p] = P[p]
    BY AppendOf
  <1> HIDE DEF Q
  <1>2. \A q \in 1 .. Len(P) + 1 : q \in 1 .. Len(P) \/ q = Len(P) + 1
    BY <1>1
  <1>3. \A n : n \in Rests(Q) <=> n \in Rests(P) \/ b = Rest(n)
    <2>1. ASSUME NEW n, n \in Rests(Q) PROVE n \in Rests(P) \/ b = Rest(n)
      <3>1. PICK q \in 1 .. Len(P) + 1 : Q[q] = Rest(n)
        BY <1>1, <2>1, RestsOf
      <3> QED
        BY <1>1, <1>2, <3>1, RestsOf
    <2>2. ASSUME NEW n, n \in Rests(P) PROVE n \in Rests(Q)
      <3>1. PICK q \in 1 .. Len(P) : P[q] = Rest(n)
        BY <2>2, RestsOf
      <3>2. q \in 1 .. Len(Q) /\ Q[q] = Rest(n)
        BY <1>1, <3>1
      <3> QED
        BY <1>1, <3>2, RestsOf
    <2>3. ASSUME NEW n, b = Rest(n) PROVE n \in Rests(Q)
      <3>1. Len(P) + 1 \in 1 .. Len(Q) /\ Q[Len(P) + 1] = Rest(n)
        BY <1>1, <2>3
      <3> QED
        BY <1>1, <3>1, RestsOf
    <2> QED
      BY <2>1, <2>2, <2>3
  <1>4. \A n : b = Rest(n) <=> b[1] = "REST" /\ b[2] = n
    BY DEF CmdBytes, Rest
  <1>5. Rests(Q) = IF b[1] = "REST" THEN Rests(P) \cup {b[2]} ELSE Rests(P)
    BY <1>3, <1>4
  <1> QED
    BY <1>5 DEF Q

\* The commands to come of a longer dataset.
LEMMA LaterAppend ==
    ASSUME NEW D \in Datasets, NEW e \in Nat \X Nat, NEW L \in Nat, L <= Len(D)
    PROVE  /\ Later(L, Append(D, e)) = Later(L, D) \cup {e[2]}
           /\ Later(L, D) \subseteq Nat
  <1> DEFINE E == Append(D, e)
  <1>1. /\ Len(D) \in Nat /\ Len(E) = Len(D) + 1 /\ E[Len(D) + 1] = e
        /\ \A p \in 1 .. Len(D) : E[p] = D[p] /\ D[p] \in Nat \X Nat
    BY AppendOf DEF Datasets
  <1> HIDE DEF E
  <1>2. \A k \in L + 1 .. Len(D) + 1 : k \in L + 1 .. Len(D) \/ k = Len(D) + 1
    BY <1>1
  <1>3. /\ Len(D) + 1 \in L + 1 .. Len(D) + 1
        /\ \A k \in L + 1 .. Len(D) : k \in 1 .. Len(D) /\ k \in L + 1 .. Len(D) + 1
    BY <1>1
  <1>4. ASSUME NEW a, a \in Later(L, E) PROVE a \in Later(L, D) \cup {e[2]}
    BY <1>1, <1>2, <1>3, <1>4 DEF Later
  <1>5. ASSUME NEW a, a \in Later(L, D) PROVE a \in Later(L, E) /\ a \in Nat
    BY <1>1, <1>3, <1>5 DEF Later
  <1>6. e[2] \in Later(L, E)
    BY <1>1, <1>3 DEF Later
  <1> QED
    BY <1>4, <1>5, <1>6 DEF E

\* What IsPrefixOf says place by place.
LEMMA PrefixIs ==
    ASSUME NEW S, NEW d \in Seq(S), NEW D \in Seq(S)
    PROVE  IsPrefixOf(d, D) <=>
              Len(d) <= Len(D) /\ \A p \in 1 .. Len(d) : d[p] = D[p]
  <1> DEFINE g == SubSeq(D, 1, Len(d))
  <1>1. Len(d) \in Nat /\ Len(D) \in Nat /\ DOMAIN d = 1 .. Len(d)
    OBVIOUS
  <1>2. ASSUME Len(d) <= Len(D)
        PROVE  /\ g = [p \in 1 .. Len(d) |-> D[p]]
    <2>1. g = [p \in 1 .. (Len(d) - 1) + 1 |-> D[(1 + p) - 1]]
      BY <1>1, <1>2
    <2>2. (Len(d) - 1) + 1 = Len(d) /\ \A p \in 1 .. Len(d) : (1 + p) - 1 = p
      BY <1>1
    <2> QED
      BY <2>1, <2>2
  <1>3. d = [p \in 1 .. Len(d) |-> d[p]]
    BY <1>1
  <1> HIDE DEF g
  <1> QED
    BY <1>2, <1>3 DEF IsPrefixOf, g

\* A prefix of a dataset is one of the longer dataset.
LEMMA PrefixOfAppend ==
    ASSUME NEW d \in Datasets, NEW D \in Datasets, NEW e \in Nat \X Nat, IsPrefixOf(d, D)
    PROVE  IsPrefixOf(d, Append(D, e))
  <1> DEFINE E == Append(D, e)
  <1>1. /\ Len(d) \in Nat /\ Len(D) \in Nat /\ Len(E) = Len(D) + 1 /\ E \in Seq(Nat \X Nat)
        /\ \A p \in 1 .. Len(D) : E[p] = D[p]
    BY AppendOf DEF Datasets
  <1>2. Len(d) <= Len(D) /\ \A p \in 1 .. Len(d) : d[p] = D[p]
    BY PrefixIs DEF Datasets
  <1> HIDE DEF E
  <1>3. Len(d) <= Len(E) /\ \A p \in 1 .. Len(d) : d[p] = E[p]
    BY <1>1, <1>2
  <1> QED
    BY <1>1, <1>3, PrefixIs DEF E, Datasets

\* Another part of a command under way changes nothing.
LEMMA LeadsAppend ==
    ASSUME NEW P \in Seq(CmdBytes), NEW b \in CmdBytes, b[1] # "REST",
           NEW d, NEW D, NEW db, Leads(P, d, db, D)
    PROVE  Leads(Append(P, b), d, db, D) /\ Rests(Append(P, b)) = Rests(P)
  <1> DEFINE Q == Append(P, b)
  <1>1. /\ Q \in Seq(CmdBytes) /\ Len(P) \in Nat /\ Len(Q) = Len(P) + 1
        /\ Q[Len(P) + 1] = b /\ \A p \in 1 .. Len(P) : Q[p] = P[p]
        /\ DOMAIN Q = 1 .. Len(P) + 1 /\ DOMAIN P = 1 .. Len(P)
    BY AppendOf
  <1>2. Rests(Q) = Rests(P)
    BY RestsAppend
  <1>3. \A q \in DOMAIN Q : Q[q][1] = "REST" => q \in 1 .. Len(P)
    BY <1>1
  <1> HIDE DEF Q
  <1>4. InOrder(Q)
    BY <1>1, <1>3 DEF Leads, InOrder
  <1>5. \A p \in DOMAIN Q, k \in Len(d) + 1 .. Len(D) :
           Q[p] = Rest(D[k][2]) => Chosen(Q, db, p, D[k][1])
    <2> TAKE p \in DOMAIN Q, k \in Len(d) + 1 .. Len(D)
    <2> HAVE Q[p] = Rest(D[k][2])
    <2>1. p \in 1 .. Len(P) /\ P[p] = Rest(D[k][2])
      BY <1>1, <1>3 DEF Rest
    <2>2. Chosen(P, db, p, D[k][1])
      BY <1>1, <2>1 DEF Leads
    <2> QED
      BY <2>1, <2>2, ChosenAppend DEF Q
  <1> QED
    BY <1>2, <1>4, <1>5 DEF Leads, Q

\* A command more of the master, whether it is under way or not.
LEMMA LeadsGrow ==
    ASSUME NEW P \in Seq(CmdBytes), NEW d \in Datasets, NEW D \in Datasets, NEW e \in Nat \X Nat,
           NEW db, Leads(P, d, db, D), \A k \in 1 .. Len(D) : D[k][2] < e[2]
    PROVE  Leads(P, d, db, Append(D, e))
  <1> DEFINE E == Append(D, e)
             L == Len(d)
  <1>1. /\ Len(D) \in Nat /\ Len(E) = Len(D) + 1 /\ E[Len(D) + 1] = e
        /\ \A p \in 1 .. Len(D) : E[p] = D[p] /\ D[p] \in Nat \X Nat
    BY AppendOf DEF Datasets
  <1>2. /\ L \in Nat /\ L <= Len(D)
        /\ Rests(P) \subseteq Later(L, D) /\ Rests(P) \subseteq Nat /\ Later(L, D) \subseteq Nat
        /\ \A a \in Later(L, D), b \in Rests(P) : a < b => a \in Rests(P)
        /\ InOrder(P) /\ IsPrefixOf(d, D)
    BY RestsOf, LaterAppend DEF Leads, IsPrefixOf, Datasets
  <1>3. Later(L, E) = Later(L, D) \cup {e[2]}
    BY <1>2, LaterAppend
  <1>4. \A b \in Later(L, D) : b < e[2]
    <2> TAKE b \in Later(L, D)
    <2>1. PICK k \in L + 1 .. Len(D) : D[k][2] = b
      BY DEF Later
    <2>2. k \in 1 .. Len(D)
      BY <1>1, <1>2
    <2> QED
      BY <2>1, <2>2
  <1>5. IsPrefixOf(d, E)
    BY <1>2, PrefixOfAppend
  <1> HIDE DEF E, L
  <1>6. \A a \in Later(L, E), b \in Rests(P) : a < b => a \in Rests(P)
    <2> TAKE a \in Later(L, E), b \in Rests(P)
    <2> HAVE a < b
    <2>1. b \in Nat /\ b < e[2] /\ e[2] \in Nat
      BY <1>2, <1>4
    <2>2. a # e[2]
      BY <2>1
    <2> QED
      BY <1>2, <1>3, <2>2
  <1>7. \A p \in DOMAIN P, k \in L + 1 .. Len(E) :
           P[p] = Rest(E[k][2]) => Chosen(P, db, p, E[k][1])
    <2> TAKE p \in DOMAIN P, k \in L + 1 .. Len(E)
    <2> HAVE P[p] = Rest(E[k][2])
    <2>1. E[k][2] \in Rests(P)
      BY RestsOf
    <2>2. k # Len(D) + 1
      <3> SUFFICES ASSUME k = Len(D) + 1 PROVE FALSE
        OBVIOUS
      <3>1. e[2] \in Rests(P)
        BY <1>1, <2>1
      <3>2. e[2] < e[2] /\ e[2] \in Nat
        BY <1>2, <1>4, <3>1
      <3> QED
        BY <3>2
    <2>3. k \in L + 1 .. Len(D) /\ E[k] = D[k]
      BY <1>1, <1>2, <2>2
    <2> QED
      BY <2>3 DEF Leads, L
  <1>8. Rests(P) \subseteq Later(L, E)
    BY <1>2, <1>3
  <1> QED
    BY <1>2, <1>5, <1>6, <1>7, <1>8 DEF Leads, E, L

\* The command itself, for one who was sent all before it.
LEMMA LeadsCommand ==
    ASSUME NEW P \in Seq(CmdBytes), NEW d \in Datasets, NEW D \in Datasets,
           NEW x \in Nat, NEW n \in Nat,
           NEW db, Leads(P, d, db, D), \A k \in 1 .. Len(D) : D[k][2] < n,
           Later(Len(d), D) \subseteq Rests(P), Chosen(P, db, Len(P), x)
    PROVE  /\ Leads(Append(P, Rest(n)), d, db, Append(D, <<x, n>>))
           /\ Later(Len(d), Append(D, <<x, n>>)) \subseteq Rests(Append(P, Rest(n)))
  <1> DEFINE e == <<x, n>>
             E == Append(D, e)
             Q == Append(P, Rest(n))
             L == Len(d)
  <1>1. e \in Nat \X Nat /\ e[1] = x /\ e[2] = n
    OBVIOUS
  <1>2. Rest(n) \in CmdBytes /\ Rest(n)[1] = "REST" /\ Rest(n)[2] = n /\ Rest(n)[1] # "SELECT"
    BY DEF CmdBytes, Rest
  <1>3. Leads(P, d, db, E)
    BY <1>1, LeadsGrow
  <1>4. /\ Q \in Seq(CmdBytes) /\ Len(P) \in Nat /\ Len(Q) = Len(P) + 1
        /\ Q[Len(P) + 1] = Rest(n) /\ \A p \in 1 .. Len(P) : Q[p] = P[p]
        /\ DOMAIN Q = 1 .. Len(P) + 1 /\ DOMAIN P = 1 .. Len(P)
    BY <1>2, AppendOf
  <1>5. L \in Nat /\ L <= Len(D) /\ Len(D) \in Nat
    BY DEF Leads, IsPrefixOf, Datasets
  <1>6. Rests(Q) = Rests(P) \cup {n} /\ Later(L, E) = Later(L, D) \cup {n}
    BY <1>1, <1>2, <1>5, RestsAppend, LaterAppend
  <1>7. Len(E) = Len(D) + 1 /\ E[Len(D) + 1] = e /\ \A k \in 1 .. Len(D) : E[k] = D[k]
    BY <1>1, AppendOf DEF Datasets
  <1>8. \A b \in Rests(P) : b < n /\ b \in Nat
    <2> TAKE b \in Rests(P)
    <2>1. b \in Later(L, D) /\ b \in Nat
      BY RestsOf DEF Leads
    <2>2. PICK k \in L + 1 .. Len(D) : D[k][2] = b
      BY <2>1 DEF Later
    <2>3. k \in 1 .. Len(D)
      BY <1>5
    <2> QED
      BY <2>1, <2>2, <2>3
  <1> HIDE DEF e, E, Q, L
  <1>9. InOrder(Q)
    <2> SUFFICES ASSUME NEW p \in 1 .. Len(P) + 1, NEW q \in 1 .. Len(P) + 1, p < q,
                        Q[p][1] = "REST", Q[q][1] = "REST"
                 PROVE  Q[p][2] < Q[q][2]
      BY <1>4 DEF InOrder
    <2>1. p \in 1 .. Len(P) /\ Q[p] = P[p]
      BY <1>4
    <2>2. CASE q = Len(P) + 1
      <3>1. P[p] \in CmdBytes /\ P[p][1] = "REST"
        BY <2>1
      <3>2. P[p] = Rest(P[p][2])
        BY <3>1 DEF CmdBytes, Rest
      <3>3. P[p][2] \in Rests(P)
        BY <2>1, <3>2, RestsOf
      <3> QED
        BY <1>2, <1>4, <1>8, <2>1, <2>2, <3>3
    <2>3. CASE q # Len(P) + 1
      <3>1. q \in 1 .. Len(P) /\ Q[q] = P[q]
        BY <1>4, <2>3
      <3>2. InOrder(P)
        BY <1>3 DEF Leads
      <3> QED
        BY <1>4, <2>1, <3>1, <3>2 DEF InOrder
    <2> QED
      BY <2>2, <2>3
  <1>10. \A a \in Later(L, E), b \in Rests(Q) : a < b => a \in Rests(Q)
    BY <1>6 DEF L
  <1>11. \A p \in DOMAIN Q, k \in L + 1 .. Len(E) :
            Q[p] = Rest(E[k][2]) => Chosen(Q, db, p, E[k][1])
    <2> TAKE p \in DOMAIN Q, k \in L + 1 .. Len(E)
    <2> HAVE Q[p] = Rest(E[k][2])
    <2>1. CASE p = Len(P) + 1
      <3>1. E[k][2] = n
        BY <1>2, <1>4, <2>1 DEF Rest
      <3>2. k = Len(D) + 1
        <4> SUFFICES ASSUME k # Len(D) + 1 PROVE FALSE
          OBVIOUS
        <4>1. k \in 1 .. Len(D) /\ E[k] = D[k]
          BY <1>5, <1>7
        <4>2. n < n
          BY <3>1, <4>1
        <4> QED
          BY <4>2
      <3>3. E[k][1] = x
        BY <1>1, <1>7, <3>2
      <3>4. Chosen(Q, db, Len(P) + 1, x)
        BY <1>2, ChosenAppend DEF Q
      <3> QED
        BY <2>1, <3>3, <3>4
    <2>2. CASE p # Len(P) + 1
      <3>1. p \in 1 .. Len(P) /\ P[p] = Rest(E[k][2])
        BY <1>4, <2>2
      <3>2. Chosen(P, db, p, E[k][1])
        BY <1>3, <1>4, <3>1 DEF Leads, L
      <3> QED
        BY <1>2, <3>1, <3>2, ChosenAppend DEF Q
    <2> QED
      BY <2>1, <2>2
  <1>12. Rests(Q) \subseteq Later(L, E) /\ IsPrefixOf(d, E)
    BY <1>3, <1>6 DEF Leads, L
  <1>13. Later(L, E) \subseteq Rests(Q)
    BY <1>6 DEF L
  <1> QED
    BY <1>9, <1>10, <1>11, <1>12, <1>13 DEF Leads, e, E, Q, L

\* What the master sends for a command n in the database x.
Fed(M, x, n) == (IF M.slaveseldb = x THEN <<>> ELSE <<Select(x)>>) \o <<First(n), Rest(n)>>

\* Bytes that go along a dataset and the bytes of the next command do so together.
LEMMA Joined ==
    ASSUME NEW S, NEW P \in Seq(S), NEW a \in S, NEW b \in S, NEW c \in S
    PROVE  /\ P \o (<<>> \o <<b, c>>) = Append(Append(P, b), c)
           /\ P \o (<<a>> \o <<b, c>>) = Append(Append(Append(P, a), b), c)
           /\ P \o <<a>> = Append(P, a) /\ P \o <<>> = P
  OBVIOUS

\* Who is to get the dataset of the master still is when a command was fed.
LEMMA FedGoes ==
    ASSUME NEW M, NEW N, M.data \in Datasets, NEW x \in Nat, NEW n \in Nat,
           \A k \in 1 .. Len(M.data) : M.data[k][2] < n,
           N.data = Append(M.data, <<x, n>>), N.slaveseldb = x,
           NEW P \in Seq(CmdBytes), NEW d \in Datasets, NEW db, Goes(M, P, d, db)
    PROVE  /\ Goes(N, P \o Fed(M, x, n), d, db)
           /\ P \o Fed(M, x, n) \in Seq(CmdBytes)
  <1> DEFINE D == M.data
             S == IF M.slaveseldb = x THEN P ELSE Append(P, Select(x))
             F == Append(S, First(n))
             R == Append(F, Rest(n))
  <1>1. /\ Select(x) \in CmdBytes /\ First(n) \in CmdBytes /\ Rest(n) \in CmdBytes
        /\ Select(x)[1] = "SELECT" /\ First(n)[1] = "FIRST" /\ Rest(n)[1] = "REST"
    BY DEF Select, First, Rest, CmdBytes
  <1>2. P \o Fed(M, x, n) = R
    BY <1>1, Joined DEF Fed
  <1>3. Leads(P, d, db, D) /\ Later(Len(d), D) \subseteq Rests(P)
    BY DEF Goes, Ends
  <1>4. /\ S \in Seq(CmdBytes) /\ Leads(S, d, db, D) /\ Rests(S) = Rests(P)
        /\ Chosen(S, db, Len(S), x)
    <2>1. CASE M.slaveseldb = x
      <3>1. x # -1
        OBVIOUS
      <3> QED
        BY <1>3, <2>1, <3>1 DEF Goes, Ends
    <2>2. CASE M.slaveseldb # x
      <3>1. S = Append(P, Select(x)) /\ Len(S) = Len(P) + 1 /\ S \in Seq(CmdBytes)
        BY <1>1, <2>2, AppendOf
      <3>2. Leads(S, d, db, D) /\ Rests(S) = Rests(P)
        BY <1>1, <1>3, <3>1, LeadsAppend
      <3>3. Chosen(S, db, Len(S), x)
        BY <1>1, <3>1, ChosenAppend
      <3> QED
        BY <3>1, <3>2, <3>3
    <2> QED
      BY <2>1, <2>2
  <1> HIDE DEF S
  <1>5. /\ F \in Seq(CmdBytes) /\ Leads(F, d, db, D) /\ Rests(F) = Rests(P)
        /\ Len(F) = Len(S) + 1 /\ Chosen(F, db, Len(F), x)
    <2>1. F \in Seq(CmdBytes) /\ Len(F) = Len(S) + 1
      BY <1>1, <1>4, AppendOf
    <2>2. Leads(F, d, db, D) /\ Rests(F) = Rests(P)
      BY <1>1, <1>4, LeadsAppend
    <2>3. Chosen(F, db, Len(S) + 1, x)
      BY <1>1, <1>4, ChosenAppend
    <2> QED
      BY <2>1, <2>2, <2>3
  <1> HIDE DEF F
  <1>6. R \in Seq(CmdBytes) /\ Len(R) = Len(F) + 1
    BY <1>1, <1>5, AppendOf
  <1>7. /\ Leads(R, d, db, Append(D, <<x, n>>))
        /\ Later(Len(d), Append(D, <<x, n>>)) \subseteq Rests(R)
    BY <1>3, <1>5, LeadsCommand
  <1>8. Chosen(R, db, Len(F) + 1, x)
    BY <1>1, <1>5, ChosenAppend
  <1> HIDE DEF R
  <1> QED
    BY <1>2, <1>6, <1>7, <1>8 DEF Goes, Ends

\* One that waits for the child to be forked gets the SELECT.
LEMMA SelectFed ==
    ASSUME NEW M, NEW x \in Nat, NEW P \in Seq(CmdBytes), NEW db, Rests(P) = {},
           M.slaveseldb # -1 => Chosen(P, db, Len(P), M.slaveseldb),
           NEW Q, Q = P \o (IF M.slaveseldb = x THEN <<>> ELSE <<Select(x)>>)
    PROVE  Q \in Seq(CmdBytes) /\ Rests(Q) = {} /\ Chosen(Q, db, Len(Q), x)
  <1>1. Select(x) \in CmdBytes /\ Select(x)[1] # "REST"
    BY DEF Select, CmdBytes
  <1>2. CASE M.slaveseldb = x
    <2>1. Q = P
      BY <1>1, <1>2, Joined
    <2>2. x # -1
      OBVIOUS
    <2> QED
      BY <1>2, <2>1, <2>2
  <1>3. CASE M.slaveseldb # x
    <2>1. Q = Append(P, Select(x))
      BY <1>1, <1>3, Joined
    <2>2. Q \in Seq(CmdBytes) /\ Len(Q) = Len(P) + 1
      BY <1>1, <2>1, AppendOf
    <2> QED
      BY <1>1, <2>1, <2>2, RestsAppend, ChosenAppend
  <1> QED
    BY <1>2, <1>3

\* A slave that reads a byte: what it has then, and the database.
DataRead(b, d, db) == IF b[1] = "REST" THEN Append(d, <<db, b[2]>>) ELSE d
DbRead(b, db) == IF b[1] = "SELECT" THEN b[2] ELSE db

\* After a byte is read, the rest goes along the dataset from where that led.
LEMMA ReadLeads ==
    ASSUME NEW P \in Seq(CmdBytes), P # <<>>, NEW d \in Datasets, NEW D \in Datasets,
           Numbered(D), NEW db \in Nat, Leads(P, d, db, D)
    PROVE  /\ Leads(Tail(P), DataRead(P[1], d, db), DbRead(P[1], db), D)
           /\ Later(Len(d), D) \subseteq Rests(P) =>
                 Later(Len(DataRead(P[1], d, db)), D) \subseteq Rests(Tail(P))
           /\ DataRead(P[1], d, db) \in Datasets /\ DbRead(P[1], db) \in Nat
  <1>1. P[1] \in CmdBytes
    BY TailOf
  <1>2. P[1][2] \in Nat
    BY <1>1 DEF CmdBytes
  <1>3. CASE P[1][1] = "REST"
    <2> DEFINE n == P[1][2]
    <2>1. n \in Nat /\ P[1] = Rest(n)
      BY <1>1, <1>3 DEF CmdBytes, Rest
    <2>2. DataRead(P[1], d, db) = Append(d, <<db, n>>) /\ DbRead(P[1], db) = db
      BY <1>3 DEF DataRead, DbRead
    <2> HIDE DEF n
    <2>3. /\ Leads(Tail(P), Append(d, <<db, n>>), db, D)
          /\ Later(Len(d), D) \subseteq Rests(P) => Later(Len(d) + 1, D) \subseteq Rests(Tail(P))
      BY <2>1, LeadsRest
    <2>4. Append(d, <<db, n>>) \in Datasets /\ Len(Append(d, <<db, n>>)) = Len(d) + 1
      BY <2>1, AppendOf DEF Datasets
    <2> QED
      BY <2>2, <2>3, <2>4
  <1>4. CASE P[1][1] # "REST"
    <2>1. DataRead(P[1], d, db) = d
      BY <1>4 DEF DataRead
    <2>2. Leads(Tail(P), d, DbRead(P[1], db), D) /\ Rests(Tail(P)) = Rests(P)
      BY <1>4, LeadsPart DEF DbRead
    <2>3. DbRead(P[1], db) \in Nat
      BY <1>2 DEF DbRead
    <2> QED
      BY <2>1, <2>2, <2>3
  <1> QED
    BY <1>3, <1>4

\* ... and to the end, if all did.
LEMMA ReadGoes ==
    ASSUME NEW M, M.data \in Datasets, Numbered(M.data),
           NEW P \in Seq(CmdBytes), P # <<>>, NEW d \in Datasets,
           NEW db \in Nat, Goes(M, P, d, db)
    PROVE  Goes(M, Tail(P), DataRead(P[1], d, db), DbRead(P[1], db))
  <1>1. /\ Leads(Tail(P), DataRead(P[1], d, db), DbRead(P[1], db), M.data)
        /\ Later(Len(DataRead(P[1], d, db)), M.data) \subseteq Rests(Tail(P))
    BY ReadLeads DEF Goes, Ends
  <1>2. Len(P) \in 1 .. Len(P) /\ Len(Tail(P)) = Len(P) - 1
    BY TailOf
  <1>3. ASSUME M.slaveseldb # -1
        PROVE  Chosen(Tail(P), DbRead(P[1], db), Len(P) - 1, M.slaveseldb)
    <2>1. Chosen(P, db, Len(P), M.slaveseldb)
      BY <1>3 DEF Goes, Ends
    <2>2. DbRead(P[1], db) = IF P[1][1] = "SELECT" THEN P[1][2] ELSE db
      BY DEF DbRead
    <2> QED
      BY <1>2, <2>1, <2>2, ChosenTail
  <1> QED
    BY <1>1, <1>2, <1>3 DEF Goes, Ends

\* Who has the dataset needs nothing more.
LEMMA NothingToSend ==
    ASSUME NEW D \in Datasets, NEW db
    PROVE  /\ IsPrefixOf(D, D) /\ Leads(<<>>, D, db, D) /\ Later(Len(D), D) = {}
           /\ Rests(<<>>) = {}
  <1>1. Len(D) \in Nat /\ D \in Seq(Nat \X Nat)
    BY DEF Datasets
  <1>2. IsPrefixOf(D, D)
    BY <1>1, PrefixIs
  <1>3. Len(D) + 1 .. Len(D) = {} /\ DOMAIN <<>> = {}
    BY <1>1
  <1>4. Later(Len(D), D) = {} /\ Rests(<<>>) = {}
    BY <1>3 DEF Later, Rests
  <1> QED
    BY <1>2, <1>3, <1>4 DEF Leads, InOrder

----------------------------------------------------------------------------
(* Lemmas on places in the stream *)

\* Two sequences, one after the other.
LEMMA ConcatOf ==
    ASSUME NEW S, NEW P \in Seq(S), NEW B \in Seq(S)
    PROVE  /\ P \o B \in Seq(S) /\ Len(P \o B) = Len(P) + Len(B)
           /\ Len(P) \in Nat /\ Len(B) \in Nat
           /\ \A i \in 1 .. Len(P) : (P \o B)[i] = P[i]
           /\ \A i \in 1 .. Len(B) : (P \o B)[Len(P) + i] = B[i]
  OBVIOUS

\* A function on 1 .. n is a sequence.
LEMMA SeqIs ==
    ASSUME NEW S, NEW P \in Seq(S)
    PROVE  P = [i \in 1 .. Len(P) |-> P[i]]
  OBVIOUS

\* Sequences with the same elements are the same.
LEMMA SameSeq ==
    ASSUME NEW S, NEW T, NEW P \in Seq(S), NEW Q \in Seq(T), Len(P) = Len(Q),
           \A i \in 1 .. Len(P) : P[i] = Q[i]
    PROVE  P = Q
  <1>1. P = [i \in 1 .. Len(P) |-> P[i]] /\ Q = [i \in 1 .. Len(Q) |-> Q[i]]
    OBVIOUS
  <1> QED
    BY <1>1

\* The stream from an offset on.
LEMMA SuffixOf ==
    ASSUME NEW M, MasterOK(M), NEW off \in 0 .. M.master_repl_offset
    PROVE  /\ Suffix(M, off) \in Seq(AnyByte)
           /\ Len(Suffix(M, off)) = M.master_repl_offset - off
           /\ \A i \in 1 .. M.master_repl_offset - off :
                 Suffix(M, off)[i] = M.stream[off + i] /\ off + i \in 1 .. M.master_repl_offset
           /\ Whole(M, off) => Suffix(M, off) \in Seq(CmdBytes)
  <1> DEFINE mro == M.master_repl_offset
             n == mro - off
             F == Suffix(M, off)
  <1>1. /\ mro \in Nat /\ M.stream \in Seq(AnyByte) /\ Len(M.stream) = mro /\ n \in Nat
    BY DEF MasterOK
  <1>2. \A i \in 1 .. n : off + i \in 1 .. mro /\ off + i \in off + 1 .. mro
    BY <1>1
  <1>3. \A j \in 1 .. mro : M.stream[j] \in AnyByte
    BY <1>1
  <1>4. F = [i \in 1 .. n |-> M.stream[off + i]]
    BY DEF Suffix
  <1> HIDE DEF n, mro, F
  <1>5. \A i \in 1 .. n : F[i] = M.stream[off + i] /\ F[i] \in AnyByte
    BY <1>2, <1>3, <1>4
  <1>6. F \in Seq(AnyByte) /\ Len(F) = n
    BY <1>1, <1>4, <1>5
  <1>7. ASSUME Whole(M, off) PROVE F \in Seq(CmdBytes)
    <2>1. \A i \in 1 .. n : F[i][1] # "HOLE"
      BY <1>2, <1>5, <1>7 DEF Whole, mro
    <2>2. \A b \in AnyByte : b[1] # "HOLE" => b \in CmdBytes
      BY DEF AnyByte, CmdBytes
    <2>3. \A i \in 1 .. n : F[i] \in CmdBytes
      BY <1>5, <2>1, <2>2
    <2> QED
      BY <1>1, <1>4, <2>3
  <1> QED
    BY <1>2, <1>5, <1>6, <1>7 DEF F, n, mro

\* A step of the master that executes no command.
Calm(M, N) ==
    /\ N.runid = M.runid /\ N.data = M.data /\ N.last = M.last
    /\ N.slaveseldb \in {M.slaveseldb, -1}
    /\ \/ /\ N.stream = M.stream /\ N.master_repl_offset = M.master_repl_offset
          /\ N.repl_backlog # None => M.repl_backlog # None
       \/ /\ M.repl_backlog = None
          /\ N.stream = Append(M.stream, Hole)
          /\ N.master_repl_offset = M.master_repl_offset + 1

\* What goes to the end of the dataset still does after a calm step of the master.
LEMMA CalmGoes ==
    ASSUME NEW M, NEW N, Calm(M, N), NEW P, NEW d, NEW db, Goes(M, P, d, db)
    PROVE  Goes(N, P, d, db)
  BY DEF Calm, Goes, Ends

\* A hole in the stream ends what could go on.
LEMMA CalmPlaced ==
    ASSUME NEW M, NEW N, MasterOK(M), Calm(M, N), NEW off, NEW sound, NEW d, NEW db,
           Placed(M, off, sound, d, db)
    PROVE  Placed(N, off, sound, d, db)
  <1>1. M.master_repl_offset \in Nat /\ M.stream \in Seq(AnyByte)
        /\ Len(M.stream) = M.master_repl_offset
        /\ off \in 0 .. M.master_repl_offset
    BY DEF MasterOK, Placed
  <1>2. CASE /\ N.stream = M.stream /\ N.master_repl_offset = M.master_repl_offset
             /\ N.repl_backlog # None => M.repl_backlog # None
    <2>1. Suffix(N, off) = Suffix(M, off) /\ Whole(N, off) = Whole(M, off)
      BY <1>2 DEF Suffix, Whole
    <2> QED
      BY <1>2, <2>1, CalmGoes DEF Placed
  <1>3. CASE /\ M.repl_backlog = None
             /\ N.stream = Append(M.stream, Hole)
             /\ N.master_repl_offset = M.master_repl_offset + 1
    <2>1. off \in 0 .. N.master_repl_offset
      BY <1>1, <1>3
    <2>2. N.stream[N.master_repl_offset] = Hole /\ N.master_repl_offset \in off + 1 .. N.master_repl_offset
      BY <1>1, <1>3
    <2>3. ~Whole(N, off)
      BY <2>2 DEF Whole, Hole
    <2> QED
      BY <2>1, <2>3 DEF Placed
  <1> QED
    BY <1>2, <1>3 DEF Calm

\* Nothing of the stream is ever changed.
LEMMA CalmPart ==
    ASSUME NEW M, NEW N, MasterOK(M), Calm(M, N), NEW P, Len(P) \in Nat, NEW off \in Nat,
           NEW all \in BOOLEAN, PartOf(M, P, off, all)
    PROVE  /\ PartOf(N, P, off, FALSE)
           /\ M.repl_backlog # None => PartOf(N, P, off, all)
  <1>1. M.master_repl_offset \in Nat /\ M.stream \in Seq(AnyByte)
        /\ Len(M.stream) = M.master_repl_offset
    BY DEF MasterOK
  <1>2. CASE N.stream = M.stream /\ N.master_repl_offset = M.master_repl_offset
    BY <1>2 DEF PartOf
  <1>3. CASE /\ M.repl_backlog = None
             /\ N.stream = Append(M.stream, Hole)
             /\ N.master_repl_offset = M.master_repl_offset + 1
    <2>1. off + Len(P) <= M.master_repl_offset
      BY DEF PartOf
    <2>2. off + Len(P) <= N.master_repl_offset
      BY <1>1, <1>3, <2>1
    <2>3. \A i \in 1 .. Len(P) : N.stream[off + i] = M.stream[off + i]
      <3> TAKE i \in 1 .. Len(P)
      <3>1. off + i \in 1 .. M.master_repl_offset
        BY <1>1, <2>1
      <3> QED
        BY <1>1, <1>3, <3>1
    <2> QED
      BY <1>3, <2>2, <2>3 DEF PartOf
  <1> QED
    BY <1>2, <1>3 DEF Calm

\* A step that executes the command n in the database x, and feeds it to the
\* stream if there is a backlog.
Feeds(M, N, x, n) ==
    /\ N.runid = M.runid /\ N.rdb_child = M.rdb_child
    /\ N.data = Append(M.data, <<x, n>>) /\ N.last = n
    /\ IF M.repl_backlog = None
       THEN /\ N.repl_backlog = None /\ N.slaveseldb = M.slaveseldb
            /\ N.stream = M.stream /\ N.master_repl_offset = M.master_repl_offset
       ELSE /\ N.repl_backlog # None /\ N.slaveseldb = x
            /\ N.stream = M.stream \o Fed(M, x, n)
            /\ N.master_repl_offset = M.master_repl_offset + Len(Fed(M, x, n))

\* What the master sends for a command are bytes of commands.
LEMMA FedBytes ==
    ASSUME NEW M, NEW x \in Nat, NEW n \in Nat
    PROVE  Fed(M, x, n) \in Seq(CmdBytes) /\ Fed(M, x, n) \in Seq(AnyByte)
           /\ Len(Fed(M, x, n)) \in Nat
  <1>1. /\ Select(x) \in CmdBytes /\ First(n) \in CmdBytes /\ Rest(n) \in CmdBytes
        /\ Select(x) \in AnyByte /\ First(n) \in AnyByte /\ Rest(n) \in AnyByte
    BY DEF Select, First, Rest, CmdBytes, AnyByte
  <1> DEFINE A == IF M.slaveseldb = x THEN <<>> ELSE <<Select(x)>>
             C == <<First(n), Rest(n)>>
  <1>2. /\ A \in Seq(CmdBytes) /\ C \in Seq(CmdBytes) /\ A \in Seq(AnyByte) /\ C \in Seq(AnyByte)
    BY <1>1
  <1> HIDE DEF A, C
  <1>3. A \o C \in Seq(CmdBytes) /\ A \o C \in Seq(AnyByte) /\ Len(A \o C) \in Nat
    BY <1>2
  <1> QED
    BY <1>3 DEF Fed, A, C

\* A dataset of an offset still is after a command was fed.
LEMMA FeedsPlaced ==
    ASSUME NEW M, NEW N, MasterOK(M), M.data \in Datasets, NEW x \in Nat, NEW n \in Nat,
           \A k \in 1 .. Len(M.data) : M.data[k][2] < n, Feeds(M, N, x, n),
           NEW off, NEW sound, NEW d \in Datasets, NEW db, Placed(M, off, sound, d, db)
    PROVE  Placed(N, off, sound, d, db)
  <1> DEFINE B == Fed(M, x, n)
             mro == M.master_repl_offset
  <1>1. mro \in Nat /\ M.stream \in Seq(AnyByte) /\ Len(M.stream) = mro /\ off \in 0 .. mro
    BY DEF MasterOK, Placed
  <1>2. B \in Seq(CmdBytes) /\ B \in Seq(AnyByte) /\ Len(B) \in Nat
    BY FedBytes
  <1>3. CASE M.repl_backlog = None
    BY <1>1, <1>3 DEF Feeds, Placed
  <1>4. CASE M.repl_backlog # None
    <2>1. N.stream = M.stream \o B /\ N.master_repl_offset = mro + Len(B) /\ N.slaveseldb = x
          /\ N.data = Append(M.data, <<x, n>>)
      BY <1>4 DEF Feeds
    <2> HIDE DEF B, mro
    <2>2. off \in 0 .. N.master_repl_offset
      BY <1>1, <1>2, <2>1
    <2>3. SUFFICES ASSUME sound, Whole(N, off)
                   PROVE  Goes(N, Suffix(N, off), d, db)
      BY <2>2 DEF Placed
    <2>4. \A i \in 1 .. mro : N.stream[i] = M.stream[i]
      BY <1>1, <1>2, <2>1, ConcatOf
    <2>5. \A i \in 1 .. Len(B) : N.stream[mro + i] = B[i]
      <3> DEFINE st == M.stream
      <3>1. st \in Seq(AnyByte) /\ B \in Seq(AnyByte)
        BY <1>1, <1>2
      <3> HIDE DEF st
      <3>2. \A i \in 1 .. Len(B) : (st \o B)[Len(st) + i] = B[i]
        BY <3>1, ConcatOf
      <3> QED
        BY <1>1, <2>1, <3>2 DEF st
    <2>6. Whole(M, off)
      <3> SUFFICES ASSUME NEW p \in off + 1 .. mro PROVE M.stream[p][1] # "HOLE"
        BY DEF Whole, mro
      <3>1. p \in 1 .. mro /\ p \in off + 1 .. N.master_repl_offset
        BY <1>1, <1>2, <2>1
      <3> QED
        BY <2>3, <2>4, <3>1 DEF Whole
    <2>7. Goes(M, Suffix(M, off), d, db)
      BY <1>4, <2>3, <2>6 DEF Placed
    <2>8. Suffix(M, off) \in Seq(CmdBytes) /\ Len(Suffix(M, off)) = mro - off
          /\ \A i \in 1 .. mro - off : Suffix(M, off)[i] = M.stream[off + i]
      BY <1>1, <2>6, SuffixOf DEF mro
    <2>9. /\ Goes(N, Suffix(M, off) \o B, d, db)
      BY <2>1, <2>7, <2>8, FedGoes DEF B
    <2>10. Suffix(N, off) = Suffix(M, off) \o B
      <3> DEFINE S == Suffix(M, off)
                 T == S \o B
      <3>1. /\ S \in Seq(CmdBytes) /\ Len(S) = mro - off
            /\ T \in Seq(CmdBytes) /\ Len(T) = Len(S) + Len(B)
            /\ \A i \in 1 .. Len(S) : T[i] = S[i]
            /\ \A i \in 1 .. Len(B) : T[Len(S) + i] = B[i]
        BY <1>2, <2>8, ConcatOf
      <3>2. T = [i \in 1 .. Len(T) |-> T[i]]
        BY <3>1, SeqIs
      <3>3. Len(T) = N.master_repl_offset - off
        BY <1>1, <1>2, <2>1, <3>1
      <3> HIDE DEF S, T
      <3>4. ASSUME NEW i \in 1 .. Len(T) PROVE T[i] = N.stream[off + i]
        <4>1. CASE i <= mro - off
          <5>1. i \in 1 .. Len(S) /\ i \in 1 .. mro - off /\ off + i \in 1 .. mro
            BY <1>1, <3>1, <4>1
          <5> QED
            BY <2>4, <2>8, <3>1, <5>1 DEF S
        <4>2. CASE i > mro - off
          <5> DEFINE j == i - (mro - off)
          <5>1. j \in 1 .. Len(B) /\ i = Len(S) + j /\ off + i = mro + j
            BY <1>1, <1>2, <3>1, <4>2
          <5> HIDE DEF j
          <5> QED
            BY <2>5, <3>1, <5>1
        <4> QED
          BY <1>1, <4>1, <4>2
      <3>5. Suffix(N, off) = [i \in 1 .. Len(T) |-> N.stream[off + i]]
        BY <3>3 DEF Suffix
      <3>6. Suffix(N, off) = T
        BY <3>2, <3>4, <3>5
      <3> QED
        BY <3>6 DEF T, S
    <2> QED
      BY <2>9, <2>10
  <1> QED
    BY <1>3, <1>4

\* A part of the stream that goes to its end still does with the new bytes after it.
LEMMA FeedsPart ==
    ASSUME NEW M, NEW N, MasterOK(M), NEW x \in Nat, NEW n \in Nat, Feeds(M, N, x, n),
           NEW P \in Seq(CmdBytes), NEW off \in Nat, NEW all \in BOOLEAN, PartOf(M, P, off, all)
    PROVE  /\ PartOf(N, P, off, FALSE)
           /\ M.repl_backlog # None /\ all => PartOf(N, P \o Fed(M, x, n), off, TRUE)
  <1> DEFINE B == Fed(M, x, n)
             mro == M.master_repl_offset
  <1>1. mro \in Nat /\ M.stream \in Seq(AnyByte) /\ Len(M.stream) = mro
        /\ off + Len(P) <= mro /\ Len(P) \in Nat
        /\ \A i \in 1 .. Len(P) : P[i] = M.stream[off + i]
    <2>1. Len(P) \in Nat
      OBVIOUS
    <2>2. mro \in Nat /\ M.stream \in Seq(AnyByte) /\ Len(M.stream) = mro
      BY DEF MasterOK
    <2> QED
      BY <2>1, <2>2 DEF PartOf
  <1>2. B \in Seq(CmdBytes) /\ B \in Seq(AnyByte) /\ Len(B) \in Nat
    BY FedBytes
  <1>3. CASE M.repl_backlog = None
    BY <1>1, <1>3 DEF Feeds, PartOf
  <1>4. CASE M.repl_backlog # None
    <2>1. N.stream = M.stream \o B /\ N.master_repl_offset = mro + Len(B)
      BY <1>4 DEF Feeds
    <2> HIDE DEF B, mro
    <2>2. /\ \A i \in 1 .. mro : N.stream[i] = M.stream[i]
          /\ \A i \in 1 .. Len(B) : N.stream[mro + i] = B[i]
      <3> DEFINE st == M.stream
      <3>1. st \in Seq(AnyByte) /\ B \in Seq(AnyByte)
        BY <1>1, <1>2
      <3> HIDE DEF st
      <3>2. /\ \A i \in 1 .. Len(B) : (st \o B)[Len(st) + i] = B[i]
            /\ \A i \in 1 .. Len(st) : (st \o B)[i] = st[i]
        BY <3>1, ConcatOf
      <3> QED
        BY <1>1, <2>1, <3>2 DEF st
    <2>3. \A i \in 1 .. Len(P) : off + i \in 1 .. mro
      BY <1>1
    <2>4. off + Len(P) <= N.master_repl_offset
      BY <1>1, <1>2, <2>1
    <2>5. PartOf(N, P, off, FALSE)
      BY <1>1, <2>2, <2>3, <2>4 DEF PartOf
    <2>6. ASSUME all PROVE PartOf(N, P \o B, off, TRUE)
      <3> DEFINE T == P \o B
      <3>1. /\ Len(T) = Len(P) + Len(B) /\ Len(T) \in Nat
            /\ \A i \in 1 .. Len(P) : T[i] = P[i]
            /\ \A i \in 1 .. Len(B) : T[Len(P) + i] = B[i]
        BY <1>2, ConcatOf
      <3> HIDE DEF T
      <3>2. off + Len(P) = mro
        BY <2>6 DEF PartOf, mro
      <3>3. off + Len(T) = N.master_repl_offset
        <4> DEFINE l == Len(P)  k == Len(B)  t == Len(T)  r == N.master_repl_offset
        <4>1. l \in Nat /\ k \in Nat /\ t = l + k /\ off + l = mro /\ r = mro + k
          BY <1>1, <1>2, <2>1, <3>1, <3>2
        <4> HIDE DEF l, k, t, r
        <4>2. off + t = r
          BY <4>1
        <4> QED
          BY <4>2 DEF t, r
      <3>4. ASSUME NEW i \in 1 .. Len(T) PROVE T[i] = N.stream[off + i]
        <4>1. CASE i <= Len(P)
          <5>1. i \in 1 .. Len(P)
            BY <1>1, <4>1
          <5> QED
            BY <1>1, <2>2, <2>3, <3>1, <5>1
        <4>2. CASE i > Len(P)
          <5> DEFINE j == i - Len(P)
          <5>1. j \in 1 .. Len(B) /\ i = Len(P) + j /\ off + i = mro + j
            <6> DEFINE l == Len(P)  k == Len(B)  t == Len(T)
            <6>1. l \in Nat /\ k \in Nat /\ t = l + k /\ off + l = mro /\ i \in 1 .. t /\ i > l
              BY <1>1, <1>2, <3>1, <3>2, <4>2
            <6> HIDE DEF l, k, t
            <6>2. i - l \in 1 .. k /\ i = l + (i - l) /\ off + i = mro + (i - l)
              BY <6>1
            <6> QED
              BY <6>2 DEF l, k
          <5> HIDE DEF j
          <5> QED
            BY <2>2, <3>1, <5>1
        <4> QED
          BY <1>1, <4>1, <4>2
      <3>5. off + Len(T) <= N.master_repl_offset
        BY <1>1, <1>2, <2>1, <3>3
      <3> QED
        BY <3>3, <3>4, <3>5 DEF PartOf, T
    <2> QED
      BY <2>5, <2>6 DEF B
  <1> QED
    BY <1>3, <1>4

\* A slave that reads the next byte of the stream is in the place after it.
LEMMA ReadPlaced ==
    ASSUME NEW M, MasterOK(M), M.data \in Datasets, Numbered(M.data),
           NEW off, NEW sound, NEW d \in Datasets, NEW db \in Nat, Placed(M, off, sound, d, db),
           off < M.master_repl_offset, NEW b \in CmdBytes, b = M.stream[off + 1]
    PROVE  Placed(M, off + 1, sound, DataRead(b, d, db), DbRead(b, db))
  <1> DEFINE mro == M.master_repl_offset
             S == Suffix(M, off)
             T == Suffix(M, off + 1)
  <1>1. mro \in Nat /\ off \in 0 .. mro /\ off < mro /\ off + 1 \in 0 .. mro
    BY DEF MasterOK, Placed
  <1>2. SUFFICES ASSUME sound, M.repl_backlog # None, Whole(M, off + 1)
                 PROVE  Goes(M, T, DataRead(b, d, db), DbRead(b, db))
    BY <1>1 DEF Placed
  <1>3. Whole(M, off)
    <2> SUFFICES ASSUME NEW p \in off + 1 .. mro PROVE M.stream[p][1] # "HOLE"
      BY DEF Whole
    <2>1. CASE p = off + 1
      BY <2>1 DEF CmdBytes
    <2>2. CASE p # off + 1
      <3>1. p \in (off + 1) + 1 .. mro
        BY <1>1, <2>2
      <3> QED
        BY <1>2, <3>1 DEF Whole
    <2> QED
      BY <2>1, <2>2
  <1>4. /\ S \in Seq(CmdBytes) /\ Len(S) = mro - off
        /\ \A i \in 1 .. mro - off : S[i] = M.stream[off + i]
    BY <1>1, <1>3, SuffixOf
  <1>5. /\ T \in Seq(AnyByte) /\ Len(T) = mro - (off + 1)
        /\ \A i \in 1 .. mro - (off + 1) : T[i] = M.stream[(off + 1) + i]
    BY <1>1, SuffixOf
  <1>6. Goes(M, S, d, db)
    BY <1>2, <1>3 DEF Placed
  <1> HIDE DEF S, T, mro
  <1>7. S # <<>> /\ S[1] = b
    BY <1>1, <1>4
  <1>8. Goes(M, Tail(S), DataRead(b, d, db), DbRead(b, db))
    BY <1>4, <1>6, <1>7, ReadGoes
  <1>9. T = Tail(S)
    <2>1. /\ Tail(S) \in Seq(CmdBytes) /\ Len(Tail(S)) = (mro - off) - 1
          /\ \A p \in 1 .. (mro - off) - 1 : Tail(S)[p] = S[p + 1]
      BY <1>4, <1>7, TailOf
    <2>2. (mro - off) - 1 = mro - (off + 1)
      BY <1>1
    <2>3. \A p \in 1 .. mro - (off + 1) : p + 1 \in 1 .. mro - off /\ off + (p + 1) = (off + 1) + p
      BY <1>1
    <2>4. \A p \in 1 .. mro - (off + 1) : T[p] = Tail(S)[p]
      BY <1>4, <1>5, <2>1, <2>2, <2>3
    <2> QED
      BY <1>5, <2>1, <2>2, <2>4, SameSeq
  <1> QED
    BY <1>8, <1>9 DEF T

\* A part of the stream without its first byte is the part from the next offset on.
LEMMA ReadPart ==
    ASSUME NEW M, MasterOK(M), NEW P \in Seq(CmdBytes), P # <<>>, NEW off \in Nat,
           NEW all \in BOOLEAN, PartOf(M, P, off, all)
    PROVE  /\ PartOf(M, Tail(P), off + 1, all)
           /\ P[1] = M.stream[off + 1] /\ off < M.master_repl_offset
  <1>1. /\ M.master_repl_offset \in Nat /\ Len(P) \in Nat /\ Len(P) > 0
        /\ Len(Tail(P)) = Len(P) - 1
        /\ \A p \in 1 .. Len(P) - 1 : Tail(P)[p] = P[p + 1]
    BY TailOf DEF MasterOK
  <1>2. /\ off + Len(P) <= M.master_repl_offset
        /\ all => off + Len(P) = M.master_repl_offset
        /\ \A i \in 1 .. Len(P) : P[i] = M.stream[off + i]
    BY DEF PartOf
  <1>3. \A i \in 1 .. Len(P) - 1 : i + 1 \in 1 .. Len(P) /\ off + (i + 1) = (off + 1) + i
    BY <1>1
  <1>4. \A i \in 1 .. Len(P) - 1 : Tail(P)[i] = M.stream[(off + 1) + i]
    BY <1>1, <1>2, <1>3
  <1>5. /\ (off + 1) + Len(Tail(P)) <= M.master_repl_offset
        /\ all => (off + 1) + Len(Tail(P)) = M.master_repl_offset
    BY <1>1, <1>2
  <1>6. 1 \in 1 .. Len(P) /\ off < M.master_repl_offset
    BY <1>1, <1>2
  <1> QED
    BY <1>1, <1>2, <1>4, <1>5, <1>6 DEF PartOf

----------------------------------------------------------------------------
(* Lemmas on the slaves that a step does not reach *)

\* The bytes on a wire.
LEMMA PayloadOf ==
    ASSUME NEW w \in Seq(Messages), NEW k \in Nat, k <= Len(w), OnlyBytes(w, k)
    PROVE  /\ Payload(w, k) \in Seq(CmdBytes) /\ Len(Payload(w, k)) = Len(w) - k
           /\ \A i \in 1 .. Len(w) - k : Payload(w, k)[i] = w[k + i].byte
  <1>1. Len(w) \in Nat /\ Len(w) - k \in Nat
    OBVIOUS
  <1>2. \A i \in 1 .. Len(w) - k : w[k + i].byte \in CmdBytes
    <2> TAKE i \in 1 .. Len(w) - k
    <2>1. k + i \in k + 1 .. Len(w)
      BY <1>1
    <2> QED
      BY <2>1 DEF OnlyBytes
  <1> QED
    BY <1>1, <1>2 DEF Payload

\* A calm step of the master changes the dataset of no run.
LEMMA CalmData ==
    ASSUME NEW M, NEW N, Calm(M, N), NEW pa, NEW run
    PROVE  DataIn(N, pa, run) = DataIn(M, pa, run)
  BY DEF Calm, DataIn

\* ... nor what a slave will read.
LEMMA CalmStreams ==
    ASSUME NEW M, NEW N, MasterOK(M), Calm(M, N), NEW pa,
           NEW w \in Seq(Messages), NEW k \in Nat, k <= Len(w),
           NEW cl, NEW cl2, cl2 \in {cl, None}, M.repl_backlog = None => cl2 = None,
           NEW run, NEW off \in Nat, NEW exact, NEW sound, NEW d, NEW db,
           Streams(M, pa, w, k, cl, run, off, exact, sound, d, db)
    PROVE  Streams(N, pa, w, k, cl2, run, off, exact, sound, d, db)
  <1> DEFINE P == Payload(w, k)
  <1>1. /\ OnlyBytes(w, k) /\ run \in 1 .. M.runid
        /\ sound => Leads(P, d, db, DataIn(M, pa, run))
        /\ cl # None => run = M.runid /\ cl.replstate = "ONLINE" /\ (sound => Goes(M, P, d, db))
        /\ run = M.runid /\ exact => PartOf(M, P, off, cl # None) /\ Placed(M, off, sound, d, db)
    BY DEF Streams
  <1>2. P \in Seq(CmdBytes) /\ Len(P) \in Nat
    BY <1>1, PayloadOf
  <1> HIDE DEF P
  <1>3. DataIn(N, pa, run) = DataIn(M, pa, run) /\ N.runid = M.runid
    BY CalmData DEF Calm
  <1>4. cl2 # None => (sound => Goes(N, P, d, db))
    BY <1>1, CalmGoes
  <1>5. ASSUME run = M.runid, exact
        PROVE  PartOf(N, P, off, cl2 # None) /\ Placed(N, off, sound, d, db)
    <2>1. Placed(N, off, sound, d, db)
      BY <1>1, <1>5, CalmPlaced
    <2>2. PartOf(M, P, off, cl # None) /\ (cl # None) \in BOOLEAN
      BY <1>1, <1>5
    <2>3. PartOf(N, P, off, FALSE) /\ (M.repl_backlog # None => PartOf(N, P, off, cl # None))
      BY <1>2, <2>2, CalmPart
    <2>4. PartOf(N, P, off, cl2 # None)
      <3>1. CASE cl2 = None
        BY <2>3, <3>1
      <3>2. CASE cl2 # None
        BY <2>3, <3>2
      <3> QED
        BY <3>1, <3>2
    <2> QED
      BY <2>1, <2>4
  <1> QED
    BY <1>1, <1>3, <1>4, <1>5 DEF Streams, P

\* ... nor what one that waits is told.
LEMMA CalmWaits ==
    ASSUME NEW M, NEW N, MasterOK(M), Calm(M, N), NEW cl, NEW cl2,
           cl # None => cl.reply \in Seq(CmdBytes),
           \/ cl2 = None
           \/ /\ cl # None /\ M.repl_backlog # None /\ cl2.reply = cl.reply
              /\ cl2.replstate # "ONLINE"
              /\ cl2.replstate = "WAIT_BGSAVE_START" => cl.replstate = "WAIT_BGSAVE_START",
           NEW run, NEW off \in Nat, NEW exact, Waits(M, cl, run, off, exact)
    PROVE  Waits(N, cl2, run, off, exact)
  <1>1. N.runid = M.runid
    BY DEF Calm
  <1>2. CASE cl2 = None
    BY <1>1, <1>2 DEF Waits
  <1>3. CASE cl2 # None
    <2>1. /\ cl # None /\ M.repl_backlog # None /\ cl2.reply = cl.reply
          /\ cl2.replstate # "ONLINE"
          /\ cl2.replstate = "WAIT_BGSAVE_START" => cl.replstate = "WAIT_BGSAVE_START"
      BY <1>3
    <2>2. ASSUME exact PROVE PartOf(N, cl2.reply, off, TRUE)
      <3>1. PartOf(M, cl.reply, off, TRUE)
        BY <2>1, <2>2 DEF Waits
      <3> DEFINE P == cl.reply
      <3>0. P \in Seq(CmdBytes)
        BY <2>1
      <3> HIDE DEF P
      <3>3. Len(P) \in Nat
        BY <3>0
      <3>2. PartOf(N, cl.reply, off, TRUE)
        BY <2>1, <3>1, <3>3, CalmPart DEF P
      <3> QED
        BY <2>1, <3>2
    <2> QED
      BY <1>1, <2>1, <2>2 DEF Waits
  <1> QED
    BY <1>2, <1>3

\* ... nor what one without the master knows of it.
LEMMA CalmKnows ==
    ASSUME NEW M, NEW N, MasterOK(M), Calm(M, N), NEW pa, NEW slave, Knows(M, pa, slave)
    PROVE  Knows(N, pa, slave)
  <1> DEFINE known == slave.cached_master
  <1>1. N.runid = M.runid
    BY DEF Calm
  <1>2. \A run : DataIn(N, pa, run) = DataIn(M, pa, run)
    BY CalmData
  <1>3. ASSUME Placed(M, known.reploff, Sound(slave), slave.data, known.db)
        PROVE  Placed(N, known.reploff, Sound(slave), slave.data, known.db)
    BY <1>3, CalmPlaced
  <1> QED
    BY <1>1, <1>2, <1>3 DEF Knows

\* A slave and its wire are left alone by a step that keeps what it waits for
\* and what it will read.
LEMMA SlaveCarried ==
    ASSUME NEW M, NEW N, NEW pa, NEW pb, NEW slave, SlaveTyped(slave), NEW w \in Seq(Messages),
           NEW cl, NEW cl2, cl = None => cl2 = None, NEW asked, NEW asked2, asked2 \in {asked, None},
           Knows(N, pb, slave),
           \A run, off, exact : off \in Nat /\ Waits(M, cl, run, off, exact)
                                   => Waits(N, cl2, run, off, exact),
           \A k, run, off, exact, sound, d, db :
              k \in Nat /\ k <= Len(w) /\ off \in Nat
              /\ Streams(M, pa, w, k, cl, run, off, exact, sound, d, db)
              => Streams(N, pb, w, k, cl2, run, off, exact, sound, d, db),
           SlaveOK(M, pa, slave, w, cl, asked)
    PROVE  SlaveOK(N, pb, slave, w, cl2, asked2)
  <1> DEFINE known == slave.cached_master
  <1>1. /\ known \in {None} \cup MasterClients /\ slave.master \in {None} \cup MasterClients
        /\ slave.repl_state = "CONNECTED" => slave.master \in MasterClients
    BY DEF SlaveTyped
  <1>2. \A x \in MasterClients : x.reploff \in Nat
    BY DEF MasterClients
  <1>3. \A x \in FullResyncs : x.offset \in Nat
    BY DEF FullResyncs
  <1>4. ASSUME slave.repl_state = "PSYNC" PROVE Answered(N, pb, slave, w, cl2, asked2)
    <2>1. Answered(M, pa, slave, w, cl, asked)
      BY <1>4 DEF SlaveOK
    <2>2. CASE /\ w = <<>> /\ cl = None
               /\ asked # None =>
                     asked = IF known = None THEN [runid |-> 0, offset |-> -1]
                             ELSE [runid |-> known.replrunid, offset |-> known.reploff + 1]
      BY <2>2 DEF Answered
    <2>3. CASE /\ asked = None /\ known # None /\ Len(w) > 0 /\ w[1].type = "CONTINUE"
               /\ Streams(M, pa, w, 1, cl, known.replrunid, known.reploff, known.exact,
                          Sound(slave) /\ known.exact, slave.data, known.db)
      <3>1. known.reploff \in Nat /\ 1 \in Nat /\ 1 <= Len(w)
        BY <1>1, <1>2, <2>3
      <3>2. Streams(N, pb, w, 1, cl2, known.replrunid, known.reploff, known.exact,
                    Sound(slave) /\ known.exact, slave.data, known.db)
        BY <2>3, <3>1
      <3> QED
        BY <2>3, <3>2 DEF Answered
    <2>4. CASE /\ asked = None /\ Len(w) = 1 /\ w[1] \in FullResyncs
               /\ Waits(M, cl, w[1].runid, w[1].offset, w[1].exact)
      <3>1. w[1].offset \in Nat
        BY <1>3, <2>4
      <3>2. Waits(N, cl2, w[1].runid, w[1].offset, w[1].exact)
        BY <2>4, <3>1
      <3> QED
        BY <2>4, <3>2 DEF Answered
    <2>5. CASE /\ asked = None /\ Len(w) > 1 /\ w[1] \in FullResyncs
               /\ w[2].type = "RDB" /\ w[2].data \in Datasets
               /\ Streams(M, pa, w, 2, cl, w[1].runid, w[1].offset, w[1].exact,
                          Forks, w[2].data, 0)
      <3>1. w[1].offset \in Nat /\ 2 \in Nat /\ 2 <= Len(w)
        BY <1>3, <2>5
      <3>2. Streams(N, pb, w, 2, cl2, w[1].runid, w[1].offset, w[1].exact, Forks, w[2].data, 0)
        BY <2>5, <3>1
      <3> QED
        BY <2>5, <3>2 DEF Answered
    <2> QED
      BY <2>1, <2>2, <2>3, <2>4, <2>5 DEF Answered
  <1>5. ASSUME slave.repl_state = "TRANSFER" PROVE Transferred(N, pb, slave, w, cl2, asked2)
    <2> DEFINE told == slave.initial
    <2>1. Transferred(M, pa, slave, w, cl, asked)
      BY <1>5 DEF SlaveOK
    <2>2. told \in FullResyncs /\ told.offset \in Nat
      BY <1>3, <2>1 DEF Transferred
    <2>3. CASE w = <<>> /\ Waits(M, cl, told.runid, told.offset, told.exact)
      <3>1. Waits(N, cl2, told.runid, told.offset, told.exact)
        BY <2>2, <2>3
      <3> QED
        BY <2>1, <2>3, <3>1 DEF Transferred
    <2>4. CASE /\ Len(w) > 0 /\ w[1].type = "RDB" /\ w[1].data \in Datasets
               /\ Streams(M, pa, w, 1, cl, told.runid, told.offset, told.exact,
                          Forks, w[1].data, 0)
      <3>1. 1 \in Nat /\ 1 <= Len(w)
        BY <2>4
      <3>2. Streams(N, pb, w, 1, cl2, told.runid, told.offset, told.exact, Forks, w[1].data, 0)
        BY <2>2, <2>4, <3>1
      <3> QED
        BY <2>1, <2>4, <3>2 DEF Transferred
    <2> QED
      BY <2>1, <2>3, <2>4 DEF Transferred
  <1>6. ASSUME slave.repl_state = "CONNECTED"
         PROVE  /\ asked2 = None
                /\ Streams(N, pb, w, 0, cl2, slave.master.replrunid, slave.master.reploff,
                           slave.master.exact, Sound(slave), slave.data, slave.master.db)
    <2>1. /\ asked = None
          /\ Streams(M, pa, w, 0, cl, slave.master.replrunid, slave.master.reploff,
                     slave.master.exact, Sound(slave), slave.data, slave.master.db)
      BY <1>6 DEF SlaveOK
    <2>2. slave.master.reploff \in Nat /\ 0 \in Nat /\ 0 <= Len(w)
      BY <1>1, <1>2, <1>6
    <2> QED
      BY <2>1, <2>2
  <1> QED
    BY <1>4, <1>5, <1>6 DEF SlaveOK

\* The master's client for a slave is left alone, closed, or goes on waiting.
Turned(cl, cl2) ==
    \/ cl2 \in {cl, None}
    \/ /\ cl # None /\ cl.replstate # "ONLINE" /\ cl2.reply = cl.reply
       /\ cl2.replstate \notin {"ONLINE", "WAIT_BGSAVE_START"}

\* A slave and its wire are left alone, and the request on it, or it is dropped.
LEMMA CalmSlave ==
    ASSUME NEW M, NEW N, MasterOK(M), Calm(M, N), NEW pa,
           NEW slave, SlaveTyped(slave), NEW w \in Seq(Messages),
           NEW cl, NEW cl2, NEW asked, NEW asked2,
           cl # None => cl.reply \in Seq(CmdBytes),
           Turned(cl, cl2), M.repl_backlog = None => cl2 = None, asked2 \in {asked, None},
           SlaveOK(M, pa, slave, w, cl, asked)
    PROVE  SlaveOK(N, pa, slave, w, cl2, asked2)
  <1> DEFINE known == slave.cached_master
  <1>1. /\ known \in {None} \cup MasterClients /\ slave.master \in {None} \cup MasterClients
        /\ slave.repl_state = "CONNECTED" => slave.master \in MasterClients
    BY DEF SlaveTyped
  <1>2. \A x \in MasterClients : x.reploff \in Nat
    BY DEF MasterClients
  <1>3. \A x \in FullResyncs : x.offset \in Nat
    BY DEF FullResyncs
  <1>4. N.runid = M.runid
    BY DEF Calm
  <1>5. Knows(N, pa, slave)
    BY CalmKnows DEF SlaveOK
  <1>6. \A run, off, exact : off \in Nat /\ Waits(M, cl, run, off, exact)
                                => Waits(N, cl2, run, off, exact)
    <2> TAKE run, off, exact
    <2> HAVE off \in Nat /\ Waits(M, cl, run, off, exact)
    <2>1. CASE cl2 = None
      BY <2>1, CalmWaits
    <2>2. CASE cl2 # None
      <3>1. /\ cl # None /\ M.repl_backlog # None /\ cl.replstate # "ONLINE"
            /\ cl2.reply = cl.reply /\ cl2.replstate # "ONLINE"
            /\ cl2.replstate = "WAIT_BGSAVE_START" => cl.replstate = "WAIT_BGSAVE_START"
        BY <2>2 DEF Waits, Turned
      <3> QED
        BY <3>1, CalmWaits
    <2> QED
      BY <2>1, <2>2
  <1>7. \A k, run, off, exact, sound, d, db :
           k \in Nat /\ k <= Len(w) /\ off \in Nat
           /\ Streams(M, pa, w, k, cl, run, off, exact, sound, d, db)
           => Streams(N, pa, w, k, cl2, run, off, exact, sound, d, db)
    <2> TAKE k, run, off, exact, sound, d, db
    <2> HAVE /\ k \in Nat /\ k <= Len(w) /\ off \in Nat
             /\ Streams(M, pa, w, k, cl, run, off, exact, sound, d, db)
    <2>1. cl2 \in {cl, None}
      BY DEF Streams, Turned
    <2> QED
      BY <2>1, CalmStreams
  <1>8. cl = None => cl2 = None
    BY DEF Turned
  <1> QED
    BY <1>5, <1>6, <1>7, <1>8, SlaveCarried

----------------------------------------------------------------------------
(* Lemmas on the slaves when a command is executed *)

\* The wire after more bytes were written to it.
LEMMA PayloadFed ==
    ASSUME NEW w \in Seq(Messages), NEW k \in Nat, k <= Len(w), OnlyBytes(w, k),
           NEW B \in Seq(CmdBytes)
    PROVE  /\ w \o Bytes(B) \in Seq(Messages) /\ Len(w \o Bytes(B)) = Len(w) + Len(B)
           /\ \A i \in 1 .. Len(w) : (w \o Bytes(B))[i] = w[i]
           /\ OnlyBytes(w \o Bytes(B), k)
           /\ Payload(w \o Bytes(B), k) = Payload(w, k) \o B
  <1> DEFINE C == Bytes(B)
             v == w \o C
             P == Payload(w, k)
             Q == P \o B
  <1>1. Len(w) \in Nat /\ Len(B) \in Nat /\ Len(w) - k \in Nat
    OBVIOUS
  <1>2. /\ C = [i \in 1 .. Len(B) |-> Byte(B[i])]
        /\ \A i \in 1 .. Len(B) : C[i] = Byte(B[i]) /\ B[i] \in CmdBytes
    BY DEF Bytes
  <1>3. \A b \in CmdBytes : Byte(b) \in Messages /\ Byte(b).byte = b
    BY DEF Byte, Messages
  <1>4. C \in Seq(Messages) /\ Len(C) = Len(B)
    BY <1>1, <1>2, <1>3
  <1>5. P \in Seq(CmdBytes) /\ Len(P) = Len(w) - k
        /\ \A i \in 1 .. Len(w) - k : P[i] = w[k + i].byte
    BY PayloadOf
  <1> HIDE DEF C, P
  <1>6. /\ v \in Seq(Messages) /\ Len(v) = Len(w) + Len(B)
        /\ \A i \in 1 .. Len(w) : v[i] = w[i]
        /\ \A i \in 1 .. Len(B) : v[Len(w) + i] = C[i]
    <2>1. /\ v \in Seq(Messages) /\ Len(v) = Len(w) + Len(C)
          /\ \A i \in 1 .. Len(w) : v[i] = w[i]
          /\ \A i \in 1 .. Len(C) : v[Len(w) + i] = C[i]
      BY <1>4
    <2> QED
      BY <1>4, <2>1
  <1>7. /\ Q \in Seq(CmdBytes) /\ Len(Q) = (Len(w) - k) + Len(B)
        /\ \A i \in 1 .. Len(P) : Q[i] = P[i]
        /\ \A i \in 1 .. Len(B) : Q[Len(P) + i] = B[i]
    <2>1. /\ Q \in Seq(CmdBytes) /\ Len(Q) = Len(P) + Len(B)
          /\ \A i \in 1 .. Len(P) : Q[i] = P[i]
          /\ \A i \in 1 .. Len(B) : Q[Len(P) + i] = B[i]
      BY <1>5
    <2> QED
      BY <1>5, <2>1
  <1> HIDE DEF v, Q
  <1>8. OnlyBytes(v, k)
    <2> SUFFICES ASSUME NEW i \in k + 1 .. Len(w) + Len(B)
                 PROVE  v[i] = Byte(v[i].byte) /\ v[i].byte \in CmdBytes
      BY <1>6 DEF OnlyBytes
    <2>1. CASE i <= Len(w)
      <3>1. i \in k + 1 .. Len(w) /\ i \in 1 .. Len(w)
        BY <1>1, <2>1
      <3> QED
        BY <1>6, <3>1 DEF OnlyBytes
    <2>2. CASE i > Len(w)
      <3> DEFINE j == i - Len(w)
      <3>1. j \in 1 .. Len(B) /\ i = Len(w) + j
        BY <1>1, <2>2
      <3> HIDE DEF j
      <3>2. v[i] = Byte(B[j]) /\ B[j] \in CmdBytes
        BY <1>2, <1>6, <3>1
      <3> QED
        BY <1>3, <3>2
    <2> QED
      BY <1>1, <2>1, <2>2
  <1>9. Payload(v, k) = Q
    <2>1. k <= Len(v) /\ Len(v) - k = (Len(w) - k) + Len(B)
      BY <1>1, <1>6
    <2>2. /\ Payload(v, k) \in Seq(CmdBytes) /\ Len(Payload(v, k)) = Len(v) - k
          /\ \A i \in 1 .. Len(v) - k : Payload(v, k)[i] = v[k + i].byte
      BY <1>6, <1>8, <2>1, PayloadOf
    <2>3. ASSUME NEW i \in 1 .. (Len(w) - k) + Len(B) PROVE v[k + i].byte = Q[i]
      <3>1. CASE i <= Len(w) - k
        <4>1. i \in 1 .. Len(w) - k /\ k + i \in 1 .. Len(w) /\ i \in 1 .. Len(P)
          BY <1>1, <1>5, <3>1
        <4> QED
          BY <1>5, <1>6, <1>7, <4>1
      <3>2. CASE i > Len(w) - k
        <4> DEFINE j == i - (Len(w) - k)
        <4>1. j \in 1 .. Len(B) /\ k + i = Len(w) + j /\ i = Len(P) + j
          BY <1>1, <1>5, <3>2
        <4> HIDE DEF j
        <4>2. v[k + i] = Byte(B[j]) /\ B[j] \in CmdBytes /\ Q[i] = B[j]
          BY <1>2, <1>6, <1>7, <4>1
        <4> QED
          BY <1>3, <4>2
      <3> QED
        BY <1>1, <3>1, <3>2
    <2> QED
      BY <1>7, <2>1, <2>2, <2>3, SameSeq
  <1> QED
    BY <1>6, <1>8, <1>9 DEF v, Q, C, P

\* A slave that reads the stream, when a command is fed.
LEMMA FeedsStreams ==
    ASSUME NEW M, NEW N, MasterOK(M), M.data \in Datasets, NEW x \in Nat, NEW n \in Nat,
           \A k \in 1 .. Len(M.data) : M.data[k][2] < n, Feeds(M, N, x, n),
           NEW pa, \A r \in 1 .. M.runid - 1 : pa[r] \in Datasets,
           NEW w \in Seq(Messages), NEW k \in Nat, k <= Len(w),
           NEW cl, M.repl_backlog = None => cl = None,
           NEW run, NEW off \in Nat, NEW exact, NEW sound, NEW d \in Datasets, NEW db,
           Streams(M, pa, w, k, cl, run, off, exact, sound, d, db)
    PROVE  Streams(N, pa, IF cl = None THEN w ELSE w \o Bytes(Fed(M, x, n)), k, cl,
                   run, off, exact, sound, d, db)
  <1> DEFINE B == Fed(M, x, n)
             v == IF cl = None THEN w ELSE w \o Bytes(B)
             P == Payload(w, k)
             Q == IF cl = None THEN P ELSE P \o B
             all == cl # None
  <1>1. /\ OnlyBytes(w, k) /\ run \in 1 .. M.runid
        /\ sound => Leads(P, d, db, DataIn(M, pa, run))
        /\ cl # None => run = M.runid /\ cl.replstate = "ONLINE" /\ (sound => Goes(M, P, d, db))
        /\ run = M.runid /\ exact => PartOf(M, P, off, all) /\ Placed(M, off, sound, d, db)
    BY DEF Streams
  <1>2. P \in Seq(CmdBytes) /\ B \in Seq(CmdBytes)
    BY <1>1, PayloadOf, FedBytes
  <1>3. /\ N.runid = M.runid /\ N.data = Append(M.data, <<x, n>>)
        /\ M.repl_backlog # None => N.slaveseldb = x
    BY DEF Feeds
  <1>4. OnlyBytes(v, k) /\ Payload(v, k) = Q
    BY <1>1, <1>2, PayloadFed
  <1> HIDE DEF v, P, B
  <1>5. ASSUME cl # None, sound PROVE Goes(N, Q, d, db)
    <2>1. Goes(M, P, d, db) /\ N.slaveseldb = x
      BY <1>1, <1>3, <1>5
    <2>2. Goes(N, P \o B, d, db)
      BY <1>2, <1>3, <2>1, FedGoes DEF B
    <2> QED
      BY <1>5, <2>2
  <1>6. ASSUME sound PROVE Leads(Q, d, db, DataIn(N, pa, run))
    <2>1. CASE cl # None
      BY <1>1, <1>3, <1>5, <1>6, <2>1 DEF Goes, DataIn
    <2>2. CASE cl = None /\ run = M.runid
      <3>1. Leads(P, d, db, M.data)
        BY <1>1, <1>6, <2>2 DEF DataIn
      <3>2. <<x, n>> \in Nat \X Nat /\ <<x, n>>[2] = n
        OBVIOUS
      <3>3. Leads(P, d, db, Append(M.data, <<x, n>>))
        BY <1>2, <3>1, <3>2, LeadsGrow
      <3> QED
        BY <1>3, <2>2, <3>3 DEF DataIn
    <2>3. CASE cl = None /\ run # M.runid
      BY <1>1, <1>3, <1>6, <2>3 DEF DataIn
    <2> QED
      BY <2>1, <2>2, <2>3
  <1>7. ASSUME run = M.runid, exact
        PROVE  PartOf(N, Q, off, all) /\ Placed(N, off, sound, d, db)
    <2>1. Placed(N, off, sound, d, db)
      BY <1>1, <1>7, FeedsPlaced
    <2>2. PartOf(M, P, off, all) /\ all \in BOOLEAN
      BY <1>1, <1>7
    <2>3. PartOf(N, P, off, FALSE) /\ (M.repl_backlog # None /\ all => PartOf(N, P \o B, off, TRUE))
      BY <1>2, <2>2, FeedsPart DEF B
    <2>4. PartOf(N, Q, off, all)
      <3>1. CASE cl = None
        BY <2>3, <3>1
      <3>2. CASE cl # None
        BY <2>3, <3>2
      <3> QED
        BY <3>1, <3>2
    <2> QED
      BY <2>1, <2>4
  <1>8. Streams(N, pa, v, k, cl, run, off, exact, sound, d, db)
    BY <1>1, <1>3, <1>4, <1>5, <1>6, <1>7 DEF Streams
  <1> QED
    BY <1>8 DEF v, B

\* What the master has for its client cl after the command n in the database x.
FedClient(M, x, n, cl, cl2) ==
    IF cl = None THEN cl2 = None
    ELSE IF cl.replstate = "ONLINE" THEN cl2 = cl
    ELSE /\ cl2 # None /\ cl2.replstate = cl.replstate /\ cl2.rdb = cl.rdb
         /\ cl2.reply = cl.reply \o
               (IF cl.replstate = "WAIT_BGSAVE_START"
                THEN IF M.slaveseldb = x THEN <<>> ELSE <<Select(x)>>
                ELSE Fed(M, x, n))

\* A slave that waits for its copy, when a command is fed.
LEMMA FeedsWaits ==
    ASSUME NEW M, NEW N, MasterOK(M), NEW x \in Nat, NEW n \in Nat, Feeds(M, N, x, n),
           NEW cl, NEW cl2, FedClient(M, x, n, cl, cl2),
           M.repl_backlog = None => cl = None, cl # None => cl.reply \in Seq(CmdBytes),
           NEW run, NEW off \in Nat, NEW exact, Waits(M, cl, run, off, exact)
    PROVE  Waits(N, cl2, run, off, exact)
  <1>1. N.runid = M.runid
    BY DEF Feeds
  <1>2. CASE cl = None
    BY <1>1, <1>2 DEF Waits, FedClient
  <1>3. CASE cl # None
    <2>1. /\ run = M.runid /\ cl.replstate # "ONLINE" /\ M.repl_backlog # None
          /\ cl2 # None /\ cl2.replstate = cl.replstate
      BY <1>3 DEF Waits, FedClient
    <2>2. ASSUME exact PROVE cl.replstate # "WAIT_BGSAVE_START" /\ PartOf(N, cl2.reply, off, TRUE)
      <3> DEFINE P == cl.reply
      <3>1. cl.replstate # "WAIT_BGSAVE_START" /\ PartOf(M, P, off, TRUE) /\ P \in Seq(CmdBytes)
        BY <1>3, <2>2 DEF Waits
      <3>2. cl2.reply = P \o Fed(M, x, n)
        BY <1>3, <2>1, <3>1 DEF FedClient
      <3> HIDE DEF P
      <3>3. PartOf(N, P \o Fed(M, x, n), off, TRUE)
        BY <2>1, <3>1, FeedsPart
      <3> QED
        BY <3>1, <3>2, <3>3
    <2> QED
      BY <1>1, <2>1, <2>2 DEF Waits
  <1> QED
    BY <1>2, <1>3

\* A slave without the master, when a command is fed.
LEMMA FeedsKnows ==
    ASSUME NEW M, NEW N, MasterOK(M), M.data \in Datasets, NEW x \in Nat, NEW n \in Nat,
           \A k \in 1 .. Len(M.data) : M.data[k][2] < n, Feeds(M, N, x, n),
           NEW pa, NEW slave, slave.data \in Datasets, Knows(M, pa, slave)
    PROVE  Knows(N, pa, slave)
  <1> DEFINE known == slave.cached_master
  <1>1. N.runid = M.runid /\ N.data = Append(M.data, <<x, n>>) /\ <<x, n>> \in Nat \X Nat
    BY DEF Feeds
  <1>2. ASSUME NEW run, IsPrefixOf(slave.data, DataIn(M, pa, run))
        PROVE  IsPrefixOf(slave.data, DataIn(N, pa, run))
    BY <1>1, <1>2, PrefixOfAppend DEF DataIn
  <1>3. ASSUME Placed(M, known.reploff, Sound(slave), slave.data, known.db)
        PROVE  Placed(N, known.reploff, Sound(slave), slave.data, known.db)
    BY <1>3, FeedsPlaced
  <1> QED
    BY <1>1, <1>2, <1>3 DEF Knows

\* Any slave, when a command is fed.
LEMMA FeedsSlave ==
    ASSUME NEW M, NEW N, MasterOK(M), M.data \in Datasets, NEW x \in Nat, NEW n \in Nat,
           \A k \in 1 .. Len(M.data) : M.data[k][2] < n, Feeds(M, N, x, n),
           NEW pa, \A r \in 1 .. M.runid - 1 : pa[r] \in Datasets,
           NEW slave, SlaveTyped(slave), NEW w \in Seq(Messages),
           NEW cl, NEW cl2, FedClient(M, x, n, cl, cl2), NEW asked,
           M.repl_backlog = None => cl = None, cl # None => cl.reply \in Seq(CmdBytes),
           NEW v, cl # None /\ cl.replstate = "ONLINE" => v = w \o Bytes(Fed(M, x, n)),
           ~(cl # None /\ cl.replstate = "ONLINE") => v = w,
           SlaveOK(M, pa, slave, w, cl, asked)
    PROVE  SlaveOK(N, pa, slave, v, cl2, asked)
  <1> DEFINE known == slave.cached_master
             B == Fed(M, x, n)
  <1>1. /\ known \in {None} \cup MasterClients /\ slave.master \in {None} \cup MasterClients
        /\ slave.repl_state = "CONNECTED" => slave.master \in MasterClients
        /\ slave.data \in Datasets
    BY DEF SlaveTyped
  <1>2. \A y \in MasterClients : y.reploff \in Nat
    BY DEF MasterClients
  <1>3. \A y \in FullResyncs : y.offset \in Nat
    BY DEF FullResyncs
  <1>4. B \in Seq(CmdBytes)
    BY FedBytes
  <1> HIDE DEF B
  <1>5. Knows(N, pa, slave)
    BY <1>1, FeedsKnows DEF SlaveOK
  <1>6. \A run, off, exact : off \in Nat /\ Waits(M, cl, run, off, exact)
                                => Waits(N, cl2, run, off, exact) /\ v = w
    <2> TAKE run, off, exact
    <2> HAVE off \in Nat /\ Waits(M, cl, run, off, exact)
    <2>1. Waits(N, cl2, run, off, exact)
      BY FeedsWaits
    <2>2. v = w
      BY DEF Waits
    <2> QED
      BY <2>1, <2>2
  <1>7. \A k, run, off, exact, sound, d, db :
           k \in Nat /\ k <= Len(w) /\ off \in Nat /\ d \in Datasets
           /\ Streams(M, pa, w, k, cl, run, off, exact, sound, d, db)
           => /\ Streams(N, pa, v, k, cl2, run, off, exact, sound, d, db)
              /\ Len(v) >= Len(w) /\ Len(v) \in Nat
              /\ \A i \in 1 .. Len(w) : v[i] = w[i]
    <2> TAKE k, run, off, exact, sound, d, db
    <2> HAVE /\ k \in Nat /\ k <= Len(w) /\ off \in Nat /\ d \in Datasets
             /\ Streams(M, pa, w, k, cl, run, off, exact, sound, d, db)
    <2>1. /\ OnlyBytes(w, k)
          /\ cl # None => cl.replstate = "ONLINE"
      BY DEF Streams
    <2>2. cl2 = cl /\ v = IF cl = None THEN w ELSE w \o Bytes(B)
      BY <2>1 DEF FedClient, B
    <2>3. Streams(N, pa, v, k, cl2, run, off, exact, sound, d, db)
      BY <2>2, FeedsStreams DEF B
    <2>4. Len(v) >= Len(w) /\ Len(v) \in Nat /\ \A i \in 1 .. Len(w) : v[i] = w[i]
      <3>1. CASE cl = None
        BY <2>2, <3>1
      <3>2. CASE cl # None
        <4>1. /\ Len(w \o Bytes(B)) = Len(w) + Len(B) /\ Len(w) \in Nat /\ Len(B) \in Nat
              /\ \A i \in 1 .. Len(w) : (w \o Bytes(B))[i] = w[i]
          BY <1>4, <2>1, PayloadFed
        <4> QED
          BY <2>2, <3>2, <4>1
      <3> QED
        BY <3>1, <3>2
    <2> QED
      BY <2>3, <2>4
  <1>8. ASSUME slave.repl_state = "PSYNC" PROVE Answered(N, pa, slave, v, cl2, asked)
    <2>1. Answered(M, pa, slave, w, cl, asked)
      BY <1>8 DEF SlaveOK
    <2>2. CASE /\ w = <<>> /\ cl = None
               /\ asked # None =>
                     asked = IF known = None THEN [runid |-> 0, offset |-> -1]
                             ELSE [runid |-> known.replrunid, offset |-> known.reploff + 1]
      <3>1. v = w /\ cl2 = None
        BY <2>2 DEF FedClient
      <3> QED
        BY <2>2, <3>1 DEF Answered
    <2>3. CASE /\ asked = None /\ known # None /\ Len(w) > 0 /\ w[1].type = "CONTINUE"
               /\ Streams(M, pa, w, 1, cl, known.replrunid, known.reploff, known.exact,
                          Sound(slave) /\ known.exact, slave.data, known.db)
      <3>1. known.reploff \in Nat /\ 1 \in Nat /\ 1 <= Len(w) /\ 1 \in 1 .. Len(w)
        BY <1>1, <1>2, <2>3
      <3>2. /\ Streams(N, pa, v, 1, cl2, known.replrunid, known.reploff, known.exact,
                       Sound(slave) /\ known.exact, slave.data, known.db)
            /\ Len(v) > 0 /\ v[1] = w[1]
        BY <1>1, <1>7, <2>3, <3>1
      <3> QED
        BY <2>3, <3>2 DEF Answered
    <2>4. CASE /\ asked = None /\ Len(w) = 1 /\ w[1] \in FullResyncs
               /\ Waits(M, cl, w[1].runid, w[1].offset, w[1].exact)
      <3>1. w[1].offset \in Nat
        BY <1>3, <2>4
      <3>2. Waits(N, cl2, w[1].runid, w[1].offset, w[1].exact) /\ v = w
        BY <1>6, <2>4, <3>1
      <3> QED
        BY <2>4, <3>2 DEF Answered
    <2>5. CASE /\ asked = None /\ Len(w) > 1 /\ w[1] \in FullResyncs
               /\ w[2].type = "RDB" /\ w[2].data \in Datasets
               /\ Streams(M, pa, w, 2, cl, w[1].runid, w[1].offset, w[1].exact,
                          Forks, w[2].data, 0)
      <3>1. w[1].offset \in Nat /\ 2 \in Nat /\ 2 <= Len(w) /\ {1, 2} \subseteq 1 .. Len(w)
        BY <1>3, <2>5
      <3>2. /\ Streams(N, pa, v, 2, cl2, w[1].runid, w[1].offset, w[1].exact, Forks, w[2].data, 0)
            /\ Len(v) > 1 /\ v[1] = w[1] /\ v[2] = w[2]
        BY <1>7, <2>5, <3>1
      <3> QED
        BY <2>5, <3>2 DEF Answered
    <2> QED
      BY <2>1, <2>2, <2>3, <2>4, <2>5 DEF Answered
  <1>9. ASSUME slave.repl_state = "TRANSFER" PROVE Transferred(N, pa, slave, v, cl2, asked)
    <2> DEFINE told == slave.initial
    <2>1. Transferred(M, pa, slave, w, cl, asked)
      BY <1>9 DEF SlaveOK
    <2>2. told \in FullResyncs /\ told.offset \in Nat
      BY <1>3, <2>1 DEF Transferred
    <2>3. CASE w = <<>> /\ Waits(M, cl, told.runid, told.offset, told.exact)
      <3>1. Waits(N, cl2, told.runid, told.offset, told.exact) /\ v = w
        BY <1>6, <2>2, <2>3
      <3> QED
        BY <2>1, <2>3, <3>1 DEF Transferred
    <2>4. CASE /\ Len(w) > 0 /\ w[1].type = "RDB" /\ w[1].data \in Datasets
               /\ Streams(M, pa, w, 1, cl, told.runid, told.offset, told.exact,
                          Forks, w[1].data, 0)
      <3>1. 1 \in Nat /\ 1 <= Len(w) /\ 1 \in 1 .. Len(w)
        BY <2>4
      <3>2. /\ Streams(N, pa, v, 1, cl2, told.runid, told.offset, told.exact, Forks, w[1].data, 0)
            /\ Len(v) > 0 /\ v[1] = w[1]
        BY <1>7, <2>2, <2>4, <3>1
      <3> QED
        BY <2>1, <2>4, <3>2 DEF Transferred
    <2> QED
      BY <2>1, <2>3, <2>4 DEF Transferred
  <1>10. ASSUME slave.repl_state = "CONNECTED"
         PROVE  /\ asked = None
                /\ Streams(N, pa, v, 0, cl2, slave.master.replrunid, slave.master.reploff,
                           slave.master.exact, Sound(slave), slave.data, slave.master.db)
    <2>1. /\ asked = None
          /\ Streams(M, pa, w, 0, cl, slave.master.replrunid, slave.master.reploff,
                     slave.master.exact, Sound(slave), slave.data, slave.master.db)
      BY <1>10 DEF SlaveOK
    <2>2. slave.master.reploff \in Nat /\ 0 \in Nat /\ 0 <= Len(w)
      BY <1>1, <1>2, <1>10
    <2> QED
      BY <1>1, <1>7, <2>1, <2>2
  <1> QED
    BY <1>5, <1>8, <1>9, <1>10 DEF SlaveOK

\* What is kept for a slave that waits is still what it will need.
LEMMA FeedsClient ==
    ASSUME NEW M, NEW N, M.data \in Datasets, NEW x \in Nat, NEW n \in Nat,
           \A k \in 1 .. Len(M.data) : M.data[k][2] < n, Feeds(M, N, x, n),
           M.repl_backlog # None, M.rdb_child \in {None} \cup [rdb : Datasets],
           NEW cl, NEW cl2, cl # None, FedClient(M, x, n, cl, cl2), ClientOK(M, cl)
    PROVE  ClientOK(N, cl2)
  <1> DEFINE P == cl.reply
  <1>1. N.slaveseldb = x /\ N.rdb_child = M.rdb_child /\ N.data = Append(M.data, <<x, n>>)
        /\ x # -1
    BY DEF Feeds
  <1>2. P \in Seq(CmdBytes)
    BY DEF ClientOK
  <1>3. CASE cl.replstate = "ONLINE"
    <2>1. cl2 = cl
      BY <1>3 DEF FedClient
    <2> QED
      BY <1>2, <1>3, <2>1 DEF ClientOK
  <1>4. CASE cl.replstate = "WAIT_BGSAVE_START" /\ Forks
    <2>1. /\ M.rdb_child # None /\ Rests(P) = {}
          /\ M.slaveseldb # -1 => Chosen(P, 0, Len(P), M.slaveseldb)
      BY <1>4 DEF ClientOK
    <2>2. /\ cl2.replstate = cl.replstate
          /\ cl2.reply = P \o (IF M.slaveseldb = x THEN <<>> ELSE <<Select(x)>>)
      BY <1>4 DEF FedClient
    <2> HIDE DEF P
    <2>3. cl2.reply \in Seq(CmdBytes) /\ Rests(cl2.reply) = {}
          /\ Chosen(cl2.reply, 0, Len(cl2.reply), x)
      BY <1>2, <2>1, <2>2, SelectFed
    <2> QED
      BY <1>1, <1>4, <2>1, <2>2, <2>3 DEF ClientOK
  <1>5. CASE cl.replstate = "WAIT_BGSAVE_END" /\ Forks
    <2>1. M.rdb_child # None /\ Goes(M, P, M.rdb_child.rdb, 0) /\ M.rdb_child.rdb \in Datasets
      BY <1>5 DEF ClientOK
    <2>2. cl2.replstate = cl.replstate /\ cl2.reply = P \o Fed(M, x, n)
      BY <1>5 DEF FedClient
    <2> HIDE DEF P
    <2>3. Goes(N, P \o Fed(M, x, n), M.rdb_child.rdb, 0) /\ P \o Fed(M, x, n) \in Seq(CmdBytes)
      BY <1>1, <1>2, <2>1, FedGoes
    <2> QED
      BY <1>1, <1>5, <2>1, <2>2, <2>3 DEF ClientOK
  <1>6. CASE cl.replstate = "SEND_BULK" /\ Forks
    <2>1. cl.rdb \in Datasets /\ Goes(M, P, cl.rdb, 0)
      BY <1>6 DEF ClientOK
    <2>2. cl2.replstate = cl.replstate /\ cl2.reply = P \o Fed(M, x, n) /\ cl2.rdb = cl.rdb
      BY <1>6 DEF FedClient
    <2> HIDE DEF P
    <2>3. Goes(N, P \o Fed(M, x, n), cl.rdb, 0) /\ P \o Fed(M, x, n) \in Seq(CmdBytes)
      BY <1>1, <1>2, <2>1, FedGoes
    <2> QED
      BY <1>1, <1>6, <2>1, <2>2, <2>3 DEF ClientOK
  <1>7. CASE /\ cl.replstate # "ONLINE"
             /\ Forks => cl.replstate \notin {"WAIT_BGSAVE_START", "WAIT_BGSAVE_END", "SEND_BULK"}
    <2>1. cl2.replstate = cl.replstate /\ cl2.rdb = cl.rdb
      BY <1>7 DEF FedClient
    <2>2. <<Select(x)>> \in Seq(CmdBytes) /\ <<>> \in Seq(CmdBytes) /\ Fed(M, x, n) \in Seq(CmdBytes)
      <3>1. Select(x) \in CmdBytes
        BY DEF Select, CmdBytes
      <3> QED
        BY <3>1, FedBytes
    <2> HIDE DEF P
    <2>3. /\ P \o Fed(M, x, n) \in Seq(CmdBytes) /\ P \o <<Select(x)>> \in Seq(CmdBytes)
          /\ P \o <<>> \in Seq(CmdBytes)
      BY <1>2, <2>2, ConcatOf
    <2>4. cl2.reply \in Seq(CmdBytes)
      BY <1>7, <2>3 DEF FedClient, P
    <2> QED
      BY <1>7, <2>1, <2>4 DEF ClientOK
  <1> QED
    BY <1>3, <1>4, <1>5, <1>6, <1>7

----------------------------------------------------------------------------
(* The steps of the master keep the invariant *)

\* What is known of the master's client for a slave.
LEMMA ClientsTyped ==
    ASSUME SInv, NEW c \in Conns
    PROVE  /\ client[c] \in {None} \cup SlaveClients
           /\ client[c] # None => client[c].reply \in Seq(CmdBytes)
           /\ m.repl_backlog = None => client[c] = None
           /\ MasterOK(m) /\ m.data \in Datasets /\ Numbered(m.data)
  BY DEF SInv, TypeOK, ClientsOK, ClientOK, BacklogExact, Attached, RunsOK

\* What a step of the master has to show when it does not reach the slaves.
LEMMA SlavesLeft ==
    ASSUME SInv, Calm(m, m'), UNCHANGED <<wire, sl, past>>,
           \A c \in Conns : /\ Turned(client[c], client'[c])
                            /\ m.repl_backlog = None => client'[c] = None
                            /\ req'[c] \in {req[c], None}
    PROVE  SlavesOK' /\ OneEach'
  <1>1. OneEach'
    BY DEF SInv, OneEach
  <1>2. ASSUME NEW s \in Slaves
        PROVE  LET c == sl[s].conn
               IN IF c = None THEN Knows(m', past, sl[s])
                  ELSE SlaveOK(m', past, sl[s], wire[c], client'[c], req'[c])
    <2> DEFINE c == sl[s].conn
    <2>1. /\ MasterOK(m) /\ SlaveTyped(sl[s]) /\ c \in {None} \cup Conns
          /\ IF c = None THEN Knows(m, past, sl[s])
             ELSE SlaveOK(m, past, sl[s], wire[c], client[c], req[c])
      BY DEF SInv, TypeOK, SlavesOK, SlaveTyped
    <2>2. CASE c = None
      BY <2>1, <2>2, CalmKnows
    <2>3. CASE c # None
      <3>1. c \in Conns /\ wire[c] \in Seq(Messages)
        BY <2>1, <2>3 DEF SInv
      <3>2. client[c] # None => client[c].reply \in Seq(CmdBytes)
        BY <3>1, ClientsTyped
      <3> HIDE DEF c
      <3>3. SlaveOK(m', past, sl[s], wire[c], client'[c], req'[c])
        BY <2>1, <2>3, <3>1, <3>2, CalmSlave DEF c
      <3> QED
        BY <2>3, <3>3 DEF c
    <2> QED
      BY <2>2, <2>3
  <1> QED
    BY <1>1, <1>2 DEF SlavesOK

\* ... and the clients.
LEMMA CalmClient ==
    ASSUME NEW M, NEW N, Calm(M, N), NEW cl, ClientOK(M, cl),
           M.rdb_child # None => N.rdb_child = M.rdb_child
    PROVE  ClientOK(N, cl)
  <1>1. \A P, d, db : Goes(M, P, d, db) => Goes(N, P, d, db)
    BY CalmGoes
  <1>2. N.slaveseldb # -1 => M.slaveseldb # -1 /\ N.slaveseldb = M.slaveseldb
    BY DEF Calm
  <1> QED
    BY <1>1, <1>2 DEF ClientOK

\* The runs of the master after a calm step.
LEMMA CalmRuns ==
    ASSUME NEW M, NEW N, Calm(M, N), NEW pa, RunsOK(M, pa),
           N.repl_backlog # None => Whole(N, N.repl_backlog_off - 1)
    PROVE  RunsOK(N, pa)
  BY DEF RunsOK, Calm

\* A step that changes the master only, or closes clients and drops requests.
LEMMA QuietStep ==
    ASSUME SInv, IInv', Calm(m, m'), UNCHANGED <<wire, sl, past>>,
           m.rdb_child # None => m'.rdb_child = m.rdb_child,
           m'.rdb_child \in {None} \cup [rdb : Datasets],
           m'.repl_backlog # None => Whole(m', m'.repl_backlog_off - 1),
           client' = [c \in Conns |-> client'[c]], req' = [c \in Conns |-> req'[c]],
           \A c \in Conns : client'[c] \in {client[c], None} /\ req'[c] \in {req[c], None}
    PROVE  SInv'
  <1>1. BacklogExact' /\ MasterOK(m')
    BY DEF IInv
  <1>2. TypeOK'
    <2>1. m'.runid \in Nat \ {0} /\ m'.data \in Datasets
      BY DEF SInv, TypeOK, Calm
    <2>2. client' \in [Conns -> {None} \cup SlaveClients]
      BY DEF SInv, TypeOK
    <2>3. req' \in [Conns -> {None} \cup Requests]
      BY DEF SInv, TypeOK
    <2> QED
      BY <1>1, <2>1, <2>2, <2>3 DEF SInv, TypeOK
  <1>3. (wire \in [Conns -> Seq(Messages)])'
    BY DEF SInv
  <1>4. RunsOK(m', past')
    BY CalmRuns DEF SInv
  <1>5. ClientsOK'
    <2> SUFFICES ASSUME NEW c \in Conns, client'[c] # None
                 PROVE  req'[c] = None /\ ClientOK(m', client'[c])
      BY DEF ClientsOK
    <2>1. client'[c] = client[c] /\ client[c] # None
      OBVIOUS
    <2>2. req[c] = None /\ ClientOK(m, client[c])
      BY <2>1 DEF SInv, ClientsOK
    <2> QED
      BY <2>1, <2>2, CalmClient
  <1>6. SlavesOK' /\ OneEach'
    <2>1. \A c \in Conns : /\ Turned(client[c], client'[c])
                           /\ m.repl_backlog = None => client'[c] = None
                           /\ req'[c] \in {req[c], None}
      BY ClientsTyped DEF Turned
    <2> QED
      BY <2>1, SlavesLeft
  <1> QED
    BY <1>1, <1>2, <1>3, <1>4, <1>5, <1>6 DEF SInv

\* What the invariant says of the master.
LEMMA InvFacts ==
    ASSUME SInv
    PROVE  /\ IInv /\ MasterOK(m) /\ Exact(m) /\ m.rdb_child \in {None} \cup [rdb : Datasets]
           /\ m.data \in Datasets /\ m.runid \in Nat \ {0}
           /\ m.repl_backlog # None => Whole(m, m.repl_backlog_off - 1)
           /\ client = [c \in Conns |-> client[c]] /\ req = [c \in Conns |-> req[c]]
           /\ wire = [c \in Conns |-> wire[c]]
  BY DEF SInv, TypeOK, IInv, BacklogExact, RunsOK

\* The steps of the master that touch no wire.
LEMMA QuietSteps ==
    ASSUME SInv, IInv',
           \/ rdbSaveBackground \/ \E c \in Conns : freeClient(c)
           \/ BacklogTimeout \/ \E size \in Sizes : ConfigBacklogSize(size)
    PROVE  SInv'
  <1> DEFINE IsRec == m = [f \in MasterFields |-> m[f]]
  <1>1. IsRec /\ m.repl_backlog # None => Whole(m, m.repl_backlog_off - 1)
    BY InvFacts DEF MasterOK
  <1>2. CASE rdbSaveBackground
    <2>1. /\ m.rdb_child = None /\ m' = [m EXCEPT !.rdb_child = [rdb |-> m.data]]
          /\ UNCHANGED <<client, req, wire, sl, past>>
      BY <1>2 DEF rdbSaveBackground
    <2>2. /\ m'.rdb_child = [rdb |-> m.data]
          /\ m'.stream = m.stream /\ m'.master_repl_offset = m.master_repl_offset
          /\ m'.repl_backlog = m.repl_backlog /\ m'.repl_backlog_off = m.repl_backlog_off
          /\ Calm(m, m')
      BY <2>1, InvFacts DEF MasterOK, MasterFields, Calm
    <2>3. m'.rdb_child \in {None} \cup [rdb : Datasets]
      BY <2>2, InvFacts
    <2>4. m'.repl_backlog # None => Whole(m', m'.repl_backlog_off - 1)
      BY <1>1, <2>2, InvFacts DEF Whole
    <2>5. client' = [c \in Conns |-> client'[c]] /\ req' = [c \in Conns |-> req'[c]]
      BY <2>1, InvFacts
    <2> QED
      BY <2>1, <2>2, <2>3, <2>4, <2>5, QuietStep
  <1>3. ASSUME NEW c \in Conns, freeClient(c) PROVE SInv'
    <2>1. /\ m' = m /\ UNCHANGED <<wire, sl, past>>
          /\ client' = [client EXCEPT ![c] = None] /\ req' = [req EXCEPT ![c] = None]
      BY <1>3 DEF freeClient
    <2>2. Calm(m, m')
      BY <2>1 DEF Calm
    <2>3. /\ client' = [d \in Conns |-> client'[d]] /\ req' = [d \in Conns |-> req'[d]]
          /\ \A d \in Conns : client'[d] \in {client[d], None} /\ req'[d] \in {req[d], None}
      BY <2>1, InvFacts
    <2> QED
      BY <2>1, <2>2, <2>3, InvFacts, QuietStep
  <1>4. CASE BacklogTimeout
    <2>1. m' = freeReplicationBacklog(m) /\ UNCHANGED <<client, req, wire, sl, past>>
      BY <1>4 DEF BacklogTimeout
    <2>2. m'.repl_backlog = None /\ m'.rdb_child = m.rdb_child /\ Calm(m, m')
      BY <2>1, InvFacts DEF freeReplicationBacklog, MasterOK, MasterFields, Calm
    <2>3. client' = [c \in Conns |-> client'[c]] /\ req' = [c \in Conns |-> req'[c]]
      BY <2>1, InvFacts
    <2> QED
      BY <2>1, <2>2, <2>3, InvFacts, QuietStep
  <1>5. ASSUME NEW size \in Sizes, ConfigBacklogSize(size) PROVE SInv'
    <2>1. m' = resizeReplicationBacklog(m, size) /\ UNCHANGED <<client, req, wire, sl, past>>
      BY <1>5 DEF ConfigBacklogSize
    <2>2. /\ m'.rdb_child = m.rdb_child /\ Calm(m, m')
          /\ m'.stream = m.stream /\ m'.master_repl_offset = m.master_repl_offset
          /\ \/ m'.repl_backlog = None
             \/ m'.repl_backlog = m.repl_backlog /\ m'.repl_backlog_off = m.repl_backlog_off
             \/ m'.repl_backlog_off = m.master_repl_offset + 1
      BY <2>1, InvFacts DEF resizeReplicationBacklog, MasterOK, MasterFields, Calm
    <2>3. m'.repl_backlog # None => Whole(m', m'.repl_backlog_off - 1)
      <3>1. m.master_repl_offset \in Nat
        BY InvFacts DEF MasterOK
      <3> QED
        BY <2>2, <3>1, InvFacts DEF Whole
    <2>4. client' = [c \in Conns |-> client'[c]] /\ req' = [c \in Conns |-> req'[c]]
      BY <2>1, InvFacts
    <2> QED
      BY <2>1, <2>2, <2>3, <2>4, InvFacts, QuietStep
  <1> QED
    BY <1>2, <1>3, <1>4, <1>5

\* No slave is on a connection twice, so that who reads c is one.
LEMMA OneReader ==
    ASSUME SInv, NEW s \in Slaves, NEW t \in Slaves, NEW c \in Conns,
           sl[s].conn = c, sl[t].conn = c
    PROVE  s = t
  BY PsyncAssumption DEF SInv, OneEach

\* A slave whose request the master has not read yet.
LEMMA Asks ==
    ASSUME SInv, NEW s \in Slaves, NEW c \in Conns, sl[s].conn = c, req[c] # None
    PROVE  /\ sl[s].repl_state = "PSYNC" /\ wire[c] = <<>> /\ client[c] = None
           /\ Knows(m, past, sl[s])
           /\ req[c] = IF sl[s].cached_master = None THEN [runid |-> 0, offset |-> -1]
                       ELSE [runid |-> sl[s].cached_master.replrunid,
                             offset |-> sl[s].cached_master.reploff + 1]
  <1>1. SlaveTyped(sl[s]) /\ c # None
    BY PsyncAssumption DEF SInv, TypeOK
  <1>2. SlaveOK(m, past, sl[s], wire[c], client[c], req[c])
    BY <1>1 DEF SInv, SlavesOK
  <1>3. sl[s].repl_state = "PSYNC"
    BY <1>1, <1>2 DEF SlaveTyped, SlaveOK, Transferred
  <1> QED
    BY <1>2, <1>3 DEF SlaveOK, Answered

\* What a step has to show that answers on one connection.
LEMMA OneReached ==
    ASSUME SInv, Calm(m, m'), UNCHANGED <<sl, past>>, NEW c \in Conns,
           \A d \in Conns \ {c} : /\ Turned(client[d], client'[d])
                                  /\ m.repl_backlog = None => client'[d] = None
                                  /\ req'[d] \in {req[d], None} /\ wire'[d] = wire[d],
           \A s \in Slaves : sl[s].conn = c =>
               SlaveOK(m', past, sl[s], wire'[c], client'[c], req'[c])
    PROVE  SlavesOK' /\ OneEach'
  <1>1. OneEach'
    BY DEF SInv, OneEach
  <1>2. ASSUME NEW s \in Slaves
        PROVE  LET d == sl[s].conn
               IN IF d = None THEN Knows(m', past, sl[s])
                  ELSE SlaveOK(m', past, sl[s], wire'[d], client'[d], req'[d])
    <2> DEFINE d == sl[s].conn
    <2>1. /\ MasterOK(m) /\ SlaveTyped(sl[s]) /\ d \in {None} \cup Conns
          /\ IF d = None THEN Knows(m, past, sl[s])
             ELSE SlaveOK(m, past, sl[s], wire[d], client[d], req[d])
      BY DEF SInv, TypeOK, SlavesOK, SlaveTyped
    <2>2. CASE d = None
      BY <2>1, <2>2, CalmKnows
    <2>3. CASE d = c
      BY <2>3, PsyncAssumption
    <2>4. CASE d \in Conns \ {c}
      <3>1. d # None /\ wire[d] \in Seq(Messages)
        BY <2>4, PsyncAssumption DEF SInv
      <3>2. client[d] # None => client[d].reply \in Seq(CmdBytes)
        BY <2>4, ClientsTyped
      <3> HIDE DEF d
      <3>3. SlaveOK(m', past, sl[s], wire[d], client'[d], req'[d])
        BY <2>1, <2>4, <3>1, <3>2, CalmSlave DEF d
      <3> QED
        BY <2>4, <3>1, <3>3 DEF d
    <2> QED
      BY <2>1, <2>2, <2>3, <2>4
  <1> QED
    BY <1>1, <1>2 DEF SlavesOK

\* A slave that may go on is sent the rest of the stream from its place.
LEMMA PartialStep ==
    ASSUME SInv, IInv', NEW c \in Conns, syncPartial(c)
    PROVE  SInv'
  <1> DEFINE o == req[c].offset
             B == addReplyReplicationBacklog(m, o)
             msgs == <<[type |-> "CONTINUE"]>> \o Bytes(B)
             cl == [replstate |-> "ONLINE", reply |-> <<>>, rdb |-> None]
             mro == m.master_repl_offset
  <1>1. /\ req[c] # None /\ CanContinue(req[c]) /\ m' = m /\ UNCHANGED <<sl, past>>
        /\ client' = [client EXCEPT ![c] = cl] /\ req' = [req EXCEPT ![c] = None]
        /\ wire' = [wire EXCEPT ![c] = Write(wire, c, msgs)]
    BY DEF syncPartial
  <1>2. /\ MasterOK(m) /\ Exact(m) /\ mro \in Nat /\ m.histlen \in 0 .. mro
        /\ m.repl_backlog # None /\ m.repl_backlog_off = mro - m.histlen + 1
        /\ o >= m.repl_backlog_off /\ o <= m.repl_backlog_off + m.histlen
        /\ req[c].runid = m.runid /\ o \in Int /\ m.runid \in Nat \ {0}
        /\ Whole(m, m.repl_backlog_off - 1)
    <2>1. req[c] \in Requests
      BY <1>1 DEF SInv, TypeOK
    <2> QED
      BY <1>1, <2>1, InvFacts DEF CanContinue, Covers, MasterOK, Exact, Requests
  <1>3. o \in 1 .. mro + 1 /\ o - 1 \in 0 .. mro
    BY <1>2
  <1>4. B = Suffix(m, o - 1)
    <2>1. B = [k \in 1 .. mro - o + 1 |-> m.stream[o + k - 1]]
      BY <1>1, <1>2, <1>3, RepliesAreExact DEF RepliesExact, CanContinue
    <2>2. mro - o + 1 = mro - (o - 1) /\ \A k \in 1 .. mro - o + 1 : o + k - 1 = (o - 1) + k
      BY <1>2, <1>3
    <2> QED
      BY <2>1, <2>2 DEF Suffix
  <1>5. Whole(m, o - 1)
    BY <1>2, <1>3 DEF Whole
  <1>6. /\ B \in Seq(CmdBytes) /\ Len(B) = mro - (o - 1)
        /\ \A i \in 1 .. mro - (o - 1) : B[i] = m.stream[(o - 1) + i]
    <2> DEFINE off == o - 1
    <2>1. off \in 0 .. mro /\ Whole(m, off) /\ B = Suffix(m, off) /\ MasterOK(m)
      BY <1>2, <1>3, <1>4, <1>5
    <2> HIDE DEF off, B
    <2>2. /\ Suffix(m, off) \in Seq(CmdBytes) /\ Len(Suffix(m, off)) = mro - off
          /\ \A i \in 1 .. mro - off : Suffix(m, off)[i] = m.stream[off + i]
      BY <2>1, SuffixOf
    <2> QED
      BY <2>1, <2>2 DEF off
  <1> HIDE DEF B
  <1>7. /\ msgs \in Seq(Messages) /\ Len(msgs) > 0 /\ msgs[1].type = "CONTINUE"
        /\ OnlyBytes(msgs, 1) /\ Payload(msgs, 1) = B
    <2> DEFINE h == <<[type |-> "CONTINUE"]>>
    <2>1. [type |-> "CONTINUE"] \in Messages
      BY DEF Messages
    <2>2. h \in Seq(Messages) /\ Len(h) = 1 /\ h[1] = [type |-> "CONTINUE"]
      BY <2>1
    <2> HIDE DEF h
    <2>3. OnlyBytes(h, 1) /\ Payload(h, 1) = <<>>
      <3>1. OnlyBytes(h, 1)
        BY <2>2 DEF OnlyBytes
      <3>2. Payload(h, 1) \in Seq(CmdBytes) /\ Len(Payload(h, 1)) = 0
        <4> DEFINE k == 1
        <4>1. k \in Nat /\ k <= Len(h) /\ OnlyBytes(h, k) /\ Len(h) - k = 0
          BY <2>2, <3>1
        <4> HIDE DEF k
        <4>2. Payload(h, k) \in Seq(CmdBytes) /\ Len(Payload(h, k)) = Len(h) - k
          BY <2>2, <4>1, PayloadOf
        <4> QED
          BY <4>1, <4>2 DEF k
      <3> QED
        BY <3>1, <3>2
    <2>4. /\ h \o Bytes(B) \in Seq(Messages) /\ Len(h \o Bytes(B)) = Len(h) + Len(B)
          /\ \A i \in 1 .. Len(h) : (h \o Bytes(B))[i] = h[i]
          /\ OnlyBytes(h \o Bytes(B), 1)
          /\ Payload(h \o Bytes(B), 1) = <<>> \o B
      <3> DEFINE k == 1
      <3>1. k \in Nat /\ k <= Len(h) /\ OnlyBytes(h, k) /\ Payload(h, k) = <<>>
        BY <2>2, <2>3
      <3> HIDE DEF k
      <3>2. /\ h \o Bytes(B) \in Seq(Messages) /\ Len(h \o Bytes(B)) = Len(h) + Len(B)
            /\ \A i \in 1 .. Len(h) : (h \o Bytes(B))[i] = h[i]
            /\ OnlyBytes(h \o Bytes(B), k)
            /\ Payload(h \o Bytes(B), k) = Payload(h, k) \o B
        BY <1>6, <2>2, <3>1, PayloadFed
      <3> QED
        BY <3>1, <3>2 DEF k
    <2>5. <<>> \o B = B /\ 1 \in 1 .. Len(h) /\ Len(B) \in Nat
      BY <1>6, <2>2
    <2>6. Len(h \o Bytes(B)) > 0 /\ (h \o Bytes(B))[1].type = "CONTINUE"
      BY <2>2, <2>4, <2>5
    <2> QED
      BY <2>4, <2>5, <2>6 DEF h
  <1> HIDE DEF msgs, cl
  <1>8. cl \in SlaveClients /\ cl # None /\ cl.replstate = "ONLINE" /\ cl.reply = <<>>
    <2>1. <<>> \in Seq(AnyByte)
      OBVIOUS
    <2>2. cl \in SlaveClients /\ cl.replstate = "ONLINE" /\ cl.reply = <<>>
      BY <2>1 DEF cl, SlaveClients
    <2> QED
      BY <2>2, PsyncAssumption
  <1>9. /\ client' \in [Conns -> {None} \cup SlaveClients] /\ req' \in [Conns -> {None} \cup Requests]
        /\ client'[c] = cl /\ req'[c] = None
        /\ \A d \in Conns \ {c} : client'[d] = client[d] /\ req'[d] = req[d] /\ wire'[d] = wire[d]
        /\ wire'[c] = Write(wire, c, msgs)
    BY <1>1, <1>8 DEF SInv, TypeOK
  <1>10. wire' \in [Conns -> Seq(Messages)]
    <2>1. wire[c] \o msgs \in Seq(Messages)
      <3>1. wire[c] \in Seq(Messages)
        BY DEF SInv
      <3> QED
        BY <1>7, <3>1, ConcatOf
    <2> QED
      BY <1>1, <2>1 DEF SInv, Write
  <1>11. Calm(m, m')
    BY <1>1 DEF Calm
  <1>12. ASSUME NEW s \in Slaves, sl[s].conn = c
         PROVE  SlaveOK(m', past, sl[s], wire'[c], client'[c], req'[c])
    <2> DEFINE known == sl[s].cached_master
    <2>1. /\ sl[s].repl_state = "PSYNC" /\ wire[c] = <<>>
          /\ Knows(m, past, sl[s])
          /\ req[c] = IF known = None THEN [runid |-> 0, offset |-> -1]
                      ELSE [runid |-> known.replrunid, offset |-> known.reploff + 1]
      BY <1>1, <1>12, Asks
    <2>2. known # None /\ known.replrunid = m.runid /\ o = known.reploff + 1
      <3>1. req[c].runid # 0
        BY <1>2
      <3> QED
        BY <1>2, <2>1, <3>1
    <2>3. known \in MasterClients /\ known.reploff \in Nat /\ o - 1 = known.reploff
      BY <2>2 DEF SInv, TypeOK, SlaveTyped, MasterClients
    <2>4. wire'[c] = msgs
      <3>1. Read(c)
        BY <1>12 DEF Read
      <3>2. <<>> \o msgs = msgs
        BY <1>7
      <3> QED
        BY <1>9, <2>1, <3>1, <3>2 DEF Write
    <2> DEFINE sound == Sound(sl[s]) /\ known.exact
    <2>5. ASSUME known.exact
          PROVE  Placed(m, known.reploff, sound, sl[s].data, known.db)
      BY <2>1, <2>2, <2>5 DEF Knows, Placed
    <2>6. ASSUME sound PROVE Goes(m, B, sl[s].data, known.db)
      BY <1>2, <1>4, <1>5, <2>3, <2>5, <2>6 DEF Placed
    <2>7. PartOf(m, B, known.reploff, TRUE)
      <3>1. known.reploff + Len(B) = mro
        BY <1>2, <1>6, <2>3
      <3>2. known.reploff = o - 1 /\ mro = m.master_repl_offset
        BY <1>2, <2>3
      <3>3. \A i \in 1 .. Len(B) : B[i] = m.stream[known.reploff + i]
        BY <1>6, <3>2
      <3> QED
        BY <1>2, <1>3, <1>6, <2>3, <3>1, <3>2, <3>3 DEF PartOf
    <2>8. Streams(m, past, msgs, 1, cl, known.replrunid, known.reploff, known.exact,
                  sound, sl[s].data, known.db)
      <3>1. known.replrunid \in 1 .. m.runid
        BY <1>2, <2>2
      <3>2. sound => Leads(B, sl[s].data, known.db, DataIn(m, past, known.replrunid))
        BY <2>2, <2>6 DEF Goes, DataIn
      <3>3. (cl # None) = TRUE
        BY <1>8
      <3> HIDE DEF sound
      <3> QED
        BY <1>7, <1>8, <2>2, <2>5, <2>6, <2>7, <3>1, <3>2, <3>3 DEF Streams
    <2>9. Answered(m, past, sl[s], msgs, cl, None)
      BY <1>7, <2>2, <2>8 DEF Answered
    <2> QED
      BY <1>1, <1>9, <2>1, <2>4, <2>9 DEF SlaveOK
  <1>13. SlavesOK' /\ OneEach'
    <2>1. \A d \in Conns \ {c} : /\ Turned(client[d], client'[d])
                                 /\ m.repl_backlog = None => client'[d] = None
                                 /\ req'[d] \in {req[d], None} /\ wire'[d] = wire[d]
      BY <1>2, <1>9 DEF Turned
    <2> QED
      BY <1>1, <1>11, <1>12, <2>1, OneReached
  <1>14. ClientsOK'
    <2> SUFFICES ASSUME NEW d \in Conns, client'[d] # None
                 PROVE  req'[d] = None /\ ClientOK(m', client'[d])
      BY DEF ClientsOK
    <2>1. CASE d = c
      <3>1. <<>> \in Seq(CmdBytes)
        OBVIOUS
      <3> QED
        BY <1>8, <1>9, <2>1, <3>1 DEF ClientOK
    <2>2. CASE d # c
      BY <1>1, <1>9, <2>2 DEF SInv, ClientsOK
    <2> QED
      BY <2>1, <2>2
  <1>15. TypeOK'
    BY <1>1, <1>9 DEF SInv, TypeOK
  <1> QED
    BY <1>1, <1>10, <1>13, <1>14, <1>15 DEF SInv, IInv

\* The master after syncCommand has made a slave.
LEMMA MasterOfSlave ==
    ASSUME SInv, IInv', NEW c \in Conns, NEW master, NEW replstate, NEW reply, NEW msgs,
           master \in {m, [m EXCEPT !.rdb_child = [rdb |-> m.data]]},
           AddSlave(c, master, replstate, reply, msgs)
    PROVE  /\ Calm(m, m') /\ m'.slaveseldb = -1 /\ m'.rdb_child = master.rdb_child
           /\ \A exact : FullResync(exact).offset = m'.master_repl_offset
           /\ m'.repl_backlog # None => Whole(m', m'.repl_backlog_off - 1)
  <1> DEFINE forced == [master EXCEPT !.slaveseldb = -1]
  <1>1. m' = IF Attached = {} /\ m.repl_backlog = None
             THEN createReplicationBacklog(forced) ELSE forced
    BY DEF AddSlave
  <1>2. /\ m = [f \in MasterFields |-> m[f]] /\ m.master_repl_offset \in Nat
        /\ m.repl_backlog # None => Whole(m, m.repl_backlog_off - 1)
        /\ Attached # {} => m.repl_backlog # None
    BY InvFacts DEF MasterOK, SInv, BacklogExact
  <1>3. /\ forced = [f \in MasterFields |-> forced[f]]
        /\ forced.runid = m.runid /\ forced.data = m.data /\ forced.last = m.last
        /\ forced.slaveseldb = -1 /\ forced.rdb_child = master.rdb_child
        /\ forced.stream = m.stream /\ forced.master_repl_offset = m.master_repl_offset
        /\ forced.repl_backlog = m.repl_backlog /\ forced.repl_backlog_off = m.repl_backlog_off
    <2>1. CASE master = m
      BY <1>2, <2>1 DEF MasterFields
    <2>2. CASE master = [m EXCEPT !.rdb_child = [rdb |-> m.data]]
      BY <1>2, <2>2 DEF MasterFields
    <2> QED
      BY <2>1, <2>2
  <1> HIDE DEF forced
  <1>4. CASE Attached = {} /\ m.repl_backlog = None
    <2>1. m' = createReplicationBacklog(forced)
      BY <1>1, <1>4
    <2>2. /\ m'.runid = m.runid /\ m'.data = m.data /\ m'.last = m.last
          /\ m'.slaveseldb = -1 /\ m'.rdb_child = master.rdb_child
          /\ m'.stream = Append(m.stream, Hole)
          /\ m'.master_repl_offset = m.master_repl_offset + 1
          /\ m'.repl_backlog_off = m.master_repl_offset + 2
      BY <1>3, <2>1 DEF createReplicationBacklog, MasterFields
    <2>3. Whole(m', m'.repl_backlog_off - 1)
      BY <1>2, <2>2 DEF Whole
    <2>4. \A exact : FullResync(exact).offset = m'.master_repl_offset
      BY <1>4, <2>2 DEF FullResync
    <2> QED
      BY <1>4, <2>2, <2>3, <2>4 DEF Calm
  <1>5. CASE ~(Attached = {} /\ m.repl_backlog = None)
    <2>1. m' = forced /\ m.repl_backlog # None
      BY <1>1, <1>2, <1>5
    <2>2. Whole(m', m'.repl_backlog_off - 1)
      BY <1>2, <1>3, <2>1 DEF Whole
    <2>3. \A exact : FullResync(exact).offset = m'.master_repl_offset
      BY <1>3, <2>1 DEF FullResync
    <2>4. Calm(m, m')
      BY <1>3, <2>1 DEF Calm
    <2> QED
      BY <1>3, <2>1, <2>2, <2>3, <2>4
  <1> QED
    BY <1>4, <1>5

\* A new slave is told the offset of now; the copy is that of now, or not exact.
LEMMA NewSlave ==
    ASSUME SInv, IInv', NEW c \in Conns, req[c] # None,
           NEW master, master \in {m, [m EXCEPT !.rdb_child = [rdb |-> m.data]]},
           m.rdb_child # None => master.rdb_child = m.rdb_child,
           NEW replstate \in {"WAIT_BGSAVE_START", "WAIT_BGSAVE_END"},
           NEW reply \in Seq(CmdBytes), NEW exact \in BOOLEAN,
           exact => replstate = "WAIT_BGSAVE_END" /\ reply = <<>>,
           AddSlave(c, master, replstate, reply, <<FullResync(exact)>>),
           ClientOK(m', [replstate |-> replstate, reply |-> reply, rdb |-> None])
    PROVE  SInv'
  <1> DEFINE cl == [replstate |-> replstate, reply |-> reply, rdb |-> None]
             told == FullResync(exact)
             msgs == <<told>>
  <1>1. /\ client' = [client EXCEPT ![c] = cl] /\ req' = [req EXCEPT ![c] = None]
        /\ wire' = [wire EXCEPT ![c] = Write(wire, c, msgs)] /\ UNCHANGED <<sl, past>>
    BY DEF AddSlave
  <1>2. /\ Calm(m, m') /\ m'.slaveseldb = -1 /\ m'.rdb_child = master.rdb_child
        /\ told.offset = m'.master_repl_offset
        /\ m'.repl_backlog # None => Whole(m', m'.repl_backlog_off - 1)
    BY MasterOfSlave
  <1>3. /\ MasterOK(m) /\ m.runid \in Nat \ {0} /\ m'.runid = m.runid /\ MasterOK(m')
        /\ m'.data = m.data /\ BacklogExact' /\ m'.master_repl_offset \in Nat
    BY <1>2, InvFacts DEF Calm, IInv, MasterOK
  <1>4. /\ told \in FullResyncs /\ told.runid = m.runid /\ told.exact = exact
    BY <1>2, <1>3 DEF FullResync, FullResyncs
  <1>5. msgs \in Seq(Messages) /\ Len(msgs) = 1 /\ msgs[1] = told
    <2>1. told \in Messages
      BY <1>4 DEF Messages
    <2> HIDE DEF told
    <2> QED
      BY <2>1
  <1> HIDE DEF msgs, told
  <1>6. /\ cl \in SlaveClients /\ cl # None /\ cl.replstate = replstate /\ cl.reply = reply
        /\ cl.replstate # "ONLINE"
    <2>1. reply \in Seq(AnyByte)
      <3>1. \A b \in CmdBytes : b \in AnyByte
        BY DEF CmdBytes, AnyByte
      <3> QED
        BY <3>1
    <2>2. cl \in SlaveClients
      BY <2>1 DEF SlaveClients
    <2> QED
      BY <2>2, PsyncAssumption
  <1>7. ClientOK(m', cl)
    OBVIOUS
  <1> HIDE DEF cl
  <1>8. /\ client' \in [Conns -> {None} \cup SlaveClients] /\ req' \in [Conns -> {None} \cup Requests]
        /\ client'[c] = cl /\ req'[c] = None
        /\ \A d \in Conns \ {c} : client'[d] = client[d] /\ req'[d] = req[d] /\ wire'[d] = wire[d]
        /\ wire'[c] = Write(wire, c, msgs)
    BY <1>1, <1>6 DEF SInv, TypeOK
  <1>9. wire' \in [Conns -> Seq(Messages)]
    <2>1. wire[c] \o msgs \in Seq(Messages)
      <3>1. wire[c] \in Seq(Messages)
        BY DEF SInv
      <3> QED
        BY <1>5, <3>1, ConcatOf
    <2> QED
      BY <1>1, <2>1 DEF SInv, Write
  <1>10. ASSUME NEW s \in Slaves, sl[s].conn = c
         PROVE  SlaveOK(m', past, sl[s], wire'[c], client'[c], req'[c])
    <2>1. sl[s].repl_state = "PSYNC" /\ wire[c] = <<>> /\ Knows(m, past, sl[s])
      BY <1>10, Asks
    <2>2. wire'[c] = msgs
      <3>1. Read(c)
        BY <1>10 DEF Read
      <3>2. <<>> \o msgs = msgs
        BY <1>5
      <3> QED
        BY <1>8, <2>1, <3>1, <3>2 DEF Write
    <2>3. Knows(m', past, sl[s])
      BY <1>2, <1>3, <2>1, CalmKnows
    <2>4. ASSUME exact PROVE PartOf(m', cl.reply, told.offset, TRUE)
      <3>1. cl.reply = <<>>
        BY <1>6, <2>4
      <3>2. Len(<<>>) = 0 /\ told.offset + 0 = m'.master_repl_offset
        BY <1>2, <1>3
      <3> QED
        BY <1>2, <1>3, <3>1, <3>2 DEF PartOf
    <2>5. Waits(m', cl, told.runid, told.offset, told.exact)
      <3>1. told.runid \in 1 .. m'.runid /\ told.runid = m'.runid
        BY <1>3, <1>4
      <3> QED
        BY <1>4, <1>6, <2>4, <3>1 DEF Waits
    <2>6. Answered(m', past, sl[s], msgs, cl, None)
      BY <1>4, <1>5, <2>5 DEF Answered
    <2> QED
      BY <1>8, <2>1, <2>2, <2>3, <2>6 DEF SlaveOK
  <1>11. SlavesOK' /\ OneEach'
    <2>1. \A d \in Conns \ {c} : /\ Turned(client[d], client'[d])
                                 /\ m.repl_backlog = None => client'[d] = None
                                 /\ req'[d] \in {req[d], None} /\ wire'[d] = wire[d]
      BY <1>8, ClientsTyped DEF Turned
    <2> QED
      BY <1>1, <1>2, <1>10, <2>1, OneReached
  <1>12. ClientsOK'
    <2> SUFFICES ASSUME NEW d \in Conns, client'[d] # None
                 PROVE  req'[d] = None /\ ClientOK(m', client'[d])
      BY DEF ClientsOK
    <2>1. CASE d = c
      BY <1>7, <1>8, <2>1
    <2>2. CASE d # c
      <3>1. client'[d] = client[d] /\ req'[d] = req[d]
        BY <1>8, <2>2
      <3>2. req[d] = None /\ ClientOK(m, client[d])
        BY <3>1 DEF SInv, ClientsOK
      <3>3. ClientOK(m', client[d])
        BY <1>2, <3>2, CalmClient
      <3> QED
        BY <3>1, <3>2, <3>3
    <2> QED
      BY <2>1, <2>2
  <1>13. TypeOK'
    <2>1. m'.rdb_child \in {None} \cup [rdb : Datasets]
      <3>1. CASE master = m
        BY <1>2, <3>1, InvFacts
      <3>2. CASE master = [m EXCEPT !.rdb_child = [rdb |-> m.data]]
        <4>1. m.data \in Datasets /\ m = [f \in MasterFields |-> m[f]]
          BY InvFacts DEF MasterOK
        <4>2. master.rdb_child = [rdb |-> m.data]
          BY <3>2, <4>1 DEF MasterFields
        <4> QED
          BY <1>2, <4>1, <4>2
      <3> QED
        BY <3>1, <3>2
    <2> QED
      BY <1>1, <1>3, <1>8, <2>1, InvFacts DEF SInv, TypeOK
  <1>14. RunsOK(m', past')
    BY <1>1, <1>2, CalmRuns DEF SInv
  <1> QED
    BY <1>3, <1>9, <1>11, <1>12, <1>13, <1>14 DEF SInv

\* The fork for a slave that asks fails: it was told of a copy that never comes.
LEMMA ForkFailsStep ==
    ASSUME SInv, IInv', NEW c \in Conns, syncForkFails(c)
    PROVE  SInv'
  <1> DEFINE told == FullResync(FALSE)
             msgs == <<told>>
  <1>1. /\ req[c] # None /\ UNCHANGED <<m, client, sl, past>>
        /\ req' = [req EXCEPT ![c] = None]
        /\ wire' = [wire EXCEPT ![c] = Write(wire, c, msgs)]
    BY DEF syncForkFails, AsksForCopy
  <1>2. /\ m.master_repl_offset \in Nat /\ m.runid \in Nat \ {0}
        /\ client[c] = None
    BY <1>1, InvFacts DEF MasterOK, SInv, ClientsOK
  <1>3. told \in FullResyncs /\ told.runid = m.runid
    BY <1>2 DEF FullResync, FullResyncs
  <1>4. msgs \in Seq(Messages) /\ Len(msgs) = 1 /\ msgs[1] = told
    <2>1. told \in Messages
      BY <1>3 DEF Messages
    <2> HIDE DEF told
    <2> QED
      BY <2>1
  <1> HIDE DEF msgs, told
  <1>5. /\ req' \in [Conns -> {None} \cup Requests] /\ req'[c] = None
        /\ \A d \in Conns \ {c} : req'[d] = req[d] /\ wire'[d] = wire[d]
        /\ wire'[c] = Write(wire, c, msgs)
    BY <1>1 DEF SInv, TypeOK
  <1>6. wire' \in [Conns -> Seq(Messages)]
    <2>1. wire[c] \o msgs \in Seq(Messages)
      <3>1. wire[c] \in Seq(Messages)
        BY DEF SInv
      <3> QED
        BY <1>4, <3>1, ConcatOf
    <2> QED
      BY <1>1, <2>1 DEF SInv, Write
  <1>7. ASSUME NEW s \in Slaves, sl[s].conn = c
        PROVE  SlaveOK(m', past, sl[s], wire'[c], client'[c], req'[c])
    <2>1. sl[s].repl_state = "PSYNC" /\ wire[c] = <<>> /\ Knows(m, past, sl[s])
      BY <1>1, <1>7, Asks
    <2>2. wire'[c] = msgs
      <3>1. Read(c)
        BY <1>7 DEF Read
      <3>2. <<>> \o msgs = msgs
        BY <1>4
      <3> QED
        BY <1>5, <2>1, <3>1, <3>2 DEF Write
    <2>3. Waits(m, None, told.runid, told.offset, told.exact)
      BY <1>2, <1>3 DEF Waits
    <2>4. Answered(m, past, sl[s], msgs, None, None)
      BY <1>3, <1>4, <2>3 DEF Answered
    <2> QED
      BY <1>1, <1>2, <1>5, <2>1, <2>2, <2>4 DEF SlaveOK
  <1>8. SlavesOK' /\ OneEach'
    <2>1. Calm(m, m')
      BY <1>1 DEF Calm
    <2>2. \A d \in Conns \ {c} : /\ Turned(client[d], client'[d])
                                 /\ m.repl_backlog = None => client'[d] = None
                                 /\ req'[d] \in {req[d], None} /\ wire'[d] = wire[d]
      BY <1>1, <1>5, InvFacts DEF Turned, BacklogExact, Attached, SInv
    <2> QED
      BY <1>1, <1>7, <2>1, <2>2, OneReached
  <1>9. ClientsOK'
    BY <1>1, <1>2, <1>5 DEF SInv, ClientsOK
  <1>10. TypeOK' /\ BacklogExact' /\ RunsOK(m', past')
    BY <1>1, <1>5 DEF SInv, TypeOK, BacklogExact, Attached
  <1> QED
    BY <1>6, <1>8, <1>9, <1>10 DEF SInv

\* The three ways a slave that asks for a copy is taken.
LEMMA NewSlaves ==
    ASSUME SInv, IInv', NEW c \in Conns,
           syncFork(c) \/ syncWait(c) \/ \E d \in Conns : syncAttach(c, d)
    PROVE  SInv'
  <1> DEFINE Kept(replstate, reply) == [replstate |-> replstate, reply |-> reply, rdb |-> None]
  <1>1. /\ <<>> \in Seq(CmdBytes) /\ Rests(<<>>) = {} /\ m = [f \in MasterFields |-> m[f]]
        /\ Leads(<<>>, m.data, 0, m.data) /\ Later(Len(m.data), m.data) = {}
    BY InvFacts, NothingToSend DEF MasterOK
  <1>2. CASE syncFork(c)
    <2> DEFINE master == [m EXCEPT !.rdb_child = [rdb |-> m.data]]
    <2>1. /\ req[c] # None /\ m.rdb_child = None
          /\ AddSlave(c, master, "WAIT_BGSAVE_END", <<>>, <<FullResync(TRUE)>>)
      BY <1>2 DEF syncFork, AsksForCopy
    <2>2. /\ master.rdb_child = [rdb |-> m.data]
          /\ master \in {m, [m EXCEPT !.rdb_child = [rdb |-> m.data]]}
      BY <1>1 DEF MasterFields
    <2> HIDE DEF master
    <2>3. Calm(m, m') /\ m'.slaveseldb = -1 /\ m'.rdb_child = master.rdb_child
      BY <2>1, <2>2, MasterOfSlave
    <2>4. /\ m'.rdb_child = [rdb |-> m.data] /\ m'.rdb_child.rdb = m.data
          /\ m'.rdb_child # None /\ m'.data = m.data
      <3>1. [rdb |-> m.data] \in [rdb : Datasets]
        BY InvFacts
      <3> QED
        BY <2>2, <2>3, <3>1, PsyncAssumption DEF Calm
    <2>5. Goes(m', <<>>, m'.rdb_child.rdb, 0)
      BY <1>1, <2>3, <2>4 DEF Goes, Ends
    <2>6. ClientOK(m', Kept("WAIT_BGSAVE_END", <<>>))
      BY <1>1, <2>4, <2>5 DEF ClientOK
    <2> QED
      BY <1>1, <2>1, <2>2, <2>6, NewSlave
  <1>3. CASE syncWait(c)
    <2>1. /\ req[c] # None /\ m.rdb_child # None
          /\ AddSlave(c, m, "WAIT_BGSAVE_START", <<>>, <<FullResync(FALSE)>>)
      BY <1>3 DEF syncWait, AsksForCopy
    <2>2. m'.slaveseldb = -1 /\ m'.rdb_child = m.rdb_child
      BY <2>1, MasterOfSlave
    <2>3. ClientOK(m', Kept("WAIT_BGSAVE_START", <<>>))
      BY <1>1, <2>1, <2>2 DEF ClientOK
    <2> QED
      BY <1>1, <2>1, <2>3, NewSlave
  <1>4. ASSUME NEW d \in Conns, syncAttach(c, d) PROVE SInv'
    <2> DEFINE P == client[d].reply
    <2>1. /\ req[c] # None /\ m.rdb_child # None
          /\ client[d] # None /\ client[d].replstate = "WAIT_BGSAVE_END"
          /\ AddSlave(c, m, "WAIT_BGSAVE_END", P, <<FullResync(FALSE)>>)
      BY <1>4 DEF syncAttach, AsksForCopy, Attached
    <2>2. Calm(m, m') /\ m'.rdb_child = m.rdb_child
      BY <2>1, MasterOfSlave
    <2>3. ClientOK(m, client[d])
      BY <2>1 DEF SInv, ClientsOK
    <2>4. P \in Seq(CmdBytes) /\ (Forks => Goes(m, P, m.rdb_child.rdb, 0))
      BY <2>1, <2>3 DEF ClientOK
    <2> HIDE DEF P
    <2>5. Forks => Goes(m', P, m'.rdb_child.rdb, 0)
      BY <2>2, <2>4, CalmGoes
    <2>6. ClientOK(m', Kept("WAIT_BGSAVE_END", P))
      BY <2>1, <2>2, <2>4, <2>5 DEF ClientOK
    <2> QED
      BY <2>1, <2>4, <2>6, NewSlave
  <1> QED
    BY <1>2, <1>3, <1>4

\* The child has ended: who waited for it is to get what it wrote, or nothing.
LEMMA ChildStep ==
    ASSUME SInv, IInv', NEW ok \in BOOLEAN, updateSlavesWaitingBgsave(ok)
    PROVE  SInv'
  <1> DEFINE is(c, state) == client[c] # None /\ client[c].replstate = state
             next(c) ==
               IF is(c, "WAIT_BGSAVE_START") THEN [client[c] EXCEPT !.replstate = "WAIT_BGSAVE_END"]
               ELSE IF ~is(c, "WAIT_BGSAVE_END") THEN client[c]
               ELSE IF ok THEN [client[c] EXCEPT !.replstate = "SEND_BULK", !.rdb = m.rdb_child.rdb]
               ELSE None
             startbgsave == \E c \in Conns : is(c, "WAIT_BGSAVE_START")
  <1>1. /\ m.rdb_child # None /\ client' = [c \in Conns |-> next(c)]
        /\ \E forked \in BOOLEAN :
              /\ startbgsave /\ ~forked => ForkFails
              /\ m' = [m EXCEPT !.rdb_child = IF forked THEN [rdb |-> m.data] ELSE None]
        /\ UNCHANGED <<req, wire, sl, past>>
    BY DEF updateSlavesWaitingBgsave
  <1>2. PICK forked \in BOOLEAN :
              /\ startbgsave /\ ~forked => ForkFails
              /\ m' = [m EXCEPT !.rdb_child = IF forked THEN [rdb |-> m.data] ELSE None]
    BY <1>1
  <1>3. /\ m = [f \in MasterFields |-> m[f]] /\ m.data \in Datasets
        /\ m.rdb_child \in {None} \cup [rdb : Datasets]
        /\ m.repl_backlog # None => Whole(m, m.repl_backlog_off - 1)
    BY InvFacts DEF MasterOK
  <1>4. /\ m'.rdb_child = IF forked THEN [rdb |-> m.data] ELSE None
        /\ m'.data = m.data /\ m'.slaveseldb = m.slaveseldb /\ m'.runid = m.runid
        /\ m'.stream = m.stream /\ m'.master_repl_offset = m.master_repl_offset
        /\ m'.repl_backlog = m.repl_backlog /\ m'.repl_backlog_off = m.repl_backlog_off
        /\ Calm(m, m')
    BY <1>2, <1>3 DEF MasterFields, Calm
  <1>5. m.rdb_child.rdb \in Datasets
    BY <1>1, <1>3
  <1>6. BacklogExact' /\ MasterOK(m')
    BY DEF IInv
  <1>7. m'.rdb_child \in {None} \cup [rdb : Datasets]
    BY <1>3, <1>4
  <1>8. \A P, d, db : Goes(m, P, d, db) => Goes(m', P, d, db)
    BY <1>4, CalmGoes
  <1>9. ASSUME NEW c \in Conns
        PROVE  /\ next(c) \in {None} \cup SlaveClients /\ Turned(client[c], next(c))
               /\ m.repl_backlog = None => next(c) = None
               /\ next(c) # None => client[c] # None /\ ClientOK(m', next(c))
    <2> DEFINE cl == client[c]
               P  == cl.reply
    <2>1. /\ cl \in {None} \cup SlaveClients /\ (cl # None => P \in Seq(CmdBytes))
          /\ m.repl_backlog = None => cl = None
          /\ cl # None => ClientOK(m, cl)
      BY ClientsTyped DEF SInv, ClientsOK
    <2>2. CASE is(c, "WAIT_BGSAVE_START")
      <3> DEFINE cl2 == [cl EXCEPT !.replstate = "WAIT_BGSAVE_END"]
      <3>1. next(c) = cl2 /\ cl # None /\ cl.replstate = "WAIT_BGSAVE_START" /\ cl \in SlaveClients
        BY <2>1, <2>2
      <3>2. cl2.replstate = "WAIT_BGSAVE_END" /\ cl2.reply = P /\ cl2 \in SlaveClients
        BY <3>1 DEF SlaveClients
      <3> HIDE DEF cl2, next
      <3>3. ASSUME Forks PROVE m'.rdb_child # None /\ Goes(m', P, m'.rdb_child.rdb, 0)
        <4>1. /\ Rests(P) = {} /\ P \in Seq(CmdBytes)
              /\ m.slaveseldb # -1 => Chosen(P, 0, Len(P), m.slaveseldb)
          BY <2>1, <3>1, <3>3 DEF ClientOK
        <4>2. m'.rdb_child = [rdb |-> m.data] /\ m'.rdb_child # None /\ m'.rdb_child.rdb = m.data
          <5>1. forked
            BY <1>2, <2>2, <3>3 DEF Forks
          <5>2. [rdb |-> m.data] \in [rdb : Datasets]
            BY <1>3
          <5> QED
            BY <1>4, <5>1, <5>2, PsyncAssumption
        <4> HIDE DEF P, cl
        <4>3. \A p \in DOMAIN P : P[p][1] # "REST" /\ \A n : P[p] # Rest(n)
          <5>1. \A n : Rest(n)[1] = "REST"
            BY DEF Rest
          <5> QED
            BY <4>1, <5>1 DEF Rests
        <4>4. IsPrefixOf(m.data, m.data) /\ Later(Len(m.data), m.data) = {}
          BY <1>3, NothingToSend
        <4>5. Leads(P, m.data, 0, m.data)
          BY <4>1, <4>3, <4>4 DEF Leads, InOrder
        <4> QED
          BY <1>4, <4>1, <4>2, <4>4, <4>5 DEF Goes, Ends
      <3>4. ClientOK(m', cl2)
        BY <2>1, <3>1, <3>2, <3>3 DEF ClientOK
      <3>5. Turned(cl, cl2)
        BY <3>1, <3>2 DEF Turned
      <3> QED
        BY <2>1, <3>1, <3>2, <3>4, <3>5
    <2>3. CASE ~is(c, "WAIT_BGSAVE_START") /\ ~is(c, "WAIT_BGSAVE_END")
      <3>1. next(c) = cl
        BY <2>3
      <3> HIDE DEF next
      <3>2. cl # None => cl.replstate \in {"SEND_BULK", "ONLINE"}
        BY <2>1, <2>3 DEF SlaveClients
      <3>3. cl # None => ClientOK(m', cl)
        BY <1>8, <2>1, <3>2 DEF ClientOK
      <3> QED
        BY <2>1, <3>1, <3>3 DEF Turned
    <2>4. CASE is(c, "WAIT_BGSAVE_END") /\ ok
      <3> DEFINE cl2 == [cl EXCEPT !.replstate = "SEND_BULK", !.rdb = m.rdb_child.rdb]
      <3>1. next(c) = cl2 /\ cl # None /\ cl.replstate = "WAIT_BGSAVE_END" /\ cl \in SlaveClients
        BY <2>1, <2>4
      <3>2. /\ cl2.replstate = "SEND_BULK" /\ cl2.reply = P /\ cl2.rdb = m.rdb_child.rdb
            /\ cl2 \in SlaveClients
        BY <1>5, <3>1 DEF SlaveClients
      <3> HIDE DEF cl2, next
      <3>3. ClientOK(m', cl2)
        BY <1>5, <1>8, <2>1, <3>1, <3>2 DEF ClientOK
      <3>4. Turned(cl, cl2)
        BY <3>1, <3>2 DEF Turned
      <3> QED
        BY <2>1, <3>1, <3>2, <3>3, <3>4
    <2>5. CASE is(c, "WAIT_BGSAVE_END") /\ ~ok
      <3>1. next(c) = None
        BY <2>5
      <3> QED
        BY <3>1 DEF Turned
    <2> QED
      BY <2>2, <2>3, <2>4, <2>5
  <1>10. \A c \in Conns : client'[c] = next(c)
    BY <1>1
  <1>11. client' \in [Conns -> {None} \cup SlaveClients]
    BY <1>1, <1>9
  <1> HIDE DEF next
  <1>12. TypeOK'
    BY <1>1, <1>3, <1>4, <1>6, <1>7, <1>11, InvFacts DEF SInv, TypeOK
  <1>13. RunsOK(m', past')
    <2>1. m'.repl_backlog # None => Whole(m', m'.repl_backlog_off - 1)
      BY <1>3, <1>4 DEF Whole
    <2> QED
      BY <1>1, <1>4, <2>1, CalmRuns DEF SInv
  <1>14. ClientsOK'
    BY <1>1, <1>9, <1>10 DEF SInv, ClientsOK
  <1>15. SlavesOK' /\ OneEach'
    BY <1>1, <1>4, <1>9, <1>10, SlavesLeft
  <1> QED
    BY <1>1, <1>6, <1>12, <1>13, <1>14, <1>15 DEF SInv

\* Three sequences, one after the other.
LEMMA ConcatThree ==
    ASSUME NEW S, NEW P \in Seq(S), NEW Q \in Seq(S), NEW R \in Seq(S)
    PROVE  P \o (Q \o R) = (P \o Q) \o R
  OBVIOUS

\* The copy is sent, and after it what was kept.
LEMMA BulkBytes ==
    ASSUME NEW h \in Seq(Messages), NEW P \in Seq(CmdBytes)
    PROVE  /\ h \o Bytes(P) \in Seq(Messages) /\ Len(h \o Bytes(P)) = Len(h) + Len(P)
           /\ \A i \in 1 .. Len(h) : (h \o Bytes(P))[i] = h[i]
           /\ \A k \in Nat : k = Len(h) => /\ OnlyBytes(h \o Bytes(P), k)
                                         /\ Payload(h \o Bytes(P), k) = P
  <1> SUFFICES ASSUME NEW k \in Nat, k = Len(h)
               PROVE  /\ h \o Bytes(P) \in Seq(Messages) /\ Len(h \o Bytes(P)) = Len(h) + Len(P)
                      /\ \A i \in 1 .. Len(h) : (h \o Bytes(P))[i] = h[i]
                      /\ OnlyBytes(h \o Bytes(P), k)
                      /\ Payload(h \o Bytes(P), k) = P
    <2>1. Len(h) \in Nat
      OBVIOUS
    <2> QED
      BY <2>1
  <1>1. k <= Len(h) /\ OnlyBytes(h, k)
    BY DEF OnlyBytes
  <1>2. Payload(h, k) = <<>>
    <2>1. Payload(h, k) \in Seq(CmdBytes) /\ Len(Payload(h, k)) = 0
      BY <1>1, PayloadOf
    <2> QED
      BY <2>1
  <1>3. <<>> \o P = P
    OBVIOUS
  <1> QED
    BY <1>1, <1>2, <1>3, PayloadFed

\* A slave whose copy is sent reads that and what came after it.
LEMMA BulkStreams ==
    ASSUME NEW M, MasterOK(M), NEW pa, NEW cl, ClientOK(M, cl), cl # None,
           cl.replstate = "SEND_BULK", NEW cl2, cl2.replstate = "ONLINE",
           NEW run, NEW off \in Nat, NEW exact, Waits(M, cl, run, off, exact),
           NEW v, NEW k, OnlyBytes(v, k), Payload(v, k) = cl.reply
    PROVE  Streams(M, pa, v, k, cl2, run, off, exact, Forks, cl.rdb, 0)
  <1> DEFINE P == cl.reply
  <1>1. P \in Seq(CmdBytes) /\ (Forks => Goes(M, P, cl.rdb, 0)) /\ Payload(v, k) = P
    BY DEF ClientOK
  <1>2. /\ run \in 1 .. M.runid /\ run = M.runid
        /\ exact => PartOf(M, P, off, TRUE)
    BY DEF Waits
  <1> HIDE DEF P
  <1>3. Len(P) \in Nat
    BY <1>1
  <1>4. ASSUME exact PROVE Placed(M, off, Forks, cl.rdb, 0)
    <2>1. /\ off + Len(P) = M.master_repl_offset /\ M.master_repl_offset \in Nat
          /\ \A i \in 1 .. Len(P) : P[i] = M.stream[off + i]
      BY <1>2, <1>4 DEF PartOf, MasterOK
    <2>2. off \in 0 .. M.master_repl_offset /\ M.master_repl_offset - off = Len(P)
      BY <1>3, <2>1
    <2>3. Suffix(M, off) = P
      BY <1>1, <2>1, <2>2, SeqIs DEF Suffix
    <2> QED
      BY <1>1, <2>2, <2>3 DEF Placed
  <1>5. Forks => Leads(P, cl.rdb, 0, DataIn(M, pa, run))
    BY <1>1, <1>2 DEF Goes, DataIn
  <1>6. PartOf(M, P, off, TRUE) => PartOf(M, P, off, cl2 # None)
    BY DEF PartOf
  <1> QED
    BY <1>1, <1>2, <1>4, <1>5, <1>6 DEF Streams

\* The copy is sent.
LEMMA BulkStep ==
    ASSUME SInv, IInv', NEW c \in Conns, sendBulkToSlave(c)
    PROVE  SInv'
  <1> DEFINE cl == client[c]
             h  == <<[type |-> "RDB", data |-> cl.rdb]>>
             msgs == h \o Bytes(cl.reply)
             cl2 == [replstate |-> "ONLINE", reply |-> <<>>, rdb |-> None]
  <1>1. /\ cl # None /\ cl.replstate = "SEND_BULK" /\ UNCHANGED <<m, req, sl, past>>
        /\ wire' = [wire EXCEPT ![c] = Write(wire, c, msgs)]
        /\ client' = [client EXCEPT ![c] = cl2]
    BY DEF sendBulkToSlave
  <1>2. /\ MasterOK(m) /\ m.repl_backlog # None /\ cl.reply \in Seq(CmdBytes)
        /\ ClientOK(m, cl) /\ req[c] = None /\ cl.rdb \in Datasets
    BY <1>1, ClientsTyped DEF SInv, ClientsOK, ClientOK
  <1>3. cl2 \in SlaveClients /\ cl2 # None /\ cl2.replstate = "ONLINE" /\ ClientOK(m, cl2)
    <2>1. cl2 \in SlaveClients
      BY DEF SlaveClients
    <2>2. cl2.reply \in Seq(CmdBytes)
      OBVIOUS
    <2> QED
      BY <2>1, <2>2, PsyncAssumption DEF ClientOK
  <1>4. /\ h \in Seq(Messages) /\ Len(h) = 1 /\ h[1].type = "RDB" /\ h[1].data = cl.rdb
    <2>1. [type |-> "RDB", data |-> cl.rdb] \in Messages
      BY <1>2 DEF Messages
    <2> QED
      BY <2>1
  <1> HIDE DEF cl2, h
  <1>5. Bytes(cl.reply) \in Seq(Messages)
    <2> DEFINE P == cl.reply
    <2>1. P \in Seq(CmdBytes) /\ Len(P) \in Nat /\ DOMAIN P = 1 .. Len(P)
      BY <1>2
    <2> HIDE DEF P
    <2>2. \A i \in 1 .. Len(P) : Byte(P[i]) \in Messages
      BY <2>1 DEF Byte, Messages
    <2>3. Bytes(P) \in Seq(Messages)
      BY <2>1, <2>2 DEF Bytes
    <2> QED
      BY <2>3 DEF P
  <1>6. wire[c] \in Seq(Messages) /\ msgs \in Seq(Messages)
        /\ wire[c] \o msgs = (wire[c] \o h) \o Bytes(cl.reply)
        /\ wire[c] \o h \in Seq(Messages) /\ wire[c] \o msgs \in Seq(Messages)
    <2>1. wire[c] \in Seq(Messages)
      BY DEF SInv
    <2>2. msgs \in Seq(Messages) /\ wire[c] \o h \in Seq(Messages)
      BY <1>4, <1>5, <2>1, ConcatOf
    <2>3. wire[c] \o msgs = (wire[c] \o h) \o Bytes(cl.reply)
      <3> DEFINE w == wire[c]
                 R == Bytes(cl.reply)
      <3>1. w \in Seq(Messages) /\ h \in Seq(Messages) /\ R \in Seq(Messages)
        BY <1>4, <1>5, <2>1
      <3> HIDE DEF w, R
      <3>2. w \o (h \o R) = (w \o h) \o R
        BY <3>1, ConcatThree
      <3> QED
        BY <3>2 DEF w, R
    <2> HIDE DEF msgs
    <2>4. wire[c] \o msgs \in Seq(Messages)
      BY <2>1, <2>2, ConcatOf
    <2> QED
      BY <2>1, <2>2, <2>3, <2>4 DEF msgs
  <1>7. wire' \in [Conns -> Seq(Messages)]
    BY <1>1, <1>6 DEF SInv, Write
  <1>8. /\ client' \in [Conns -> {None} \cup SlaveClients] /\ client'[c] = cl2
        /\ \A d \in Conns \ {c} : client'[d] = client[d] /\ wire'[d] = wire[d]
        /\ wire'[c] = Write(wire, c, msgs)
    BY <1>1, <1>3 DEF SInv, TypeOK
  <1>9. ASSUME NEW s \in Slaves, sl[s].conn = c
        PROVE  SlaveOK(m', past, sl[s], wire'[c], client'[c], req'[c])
    <2> DEFINE told == sl[s].initial
               w == wire[c]
               v == wire'[c]
    <2>1. SlaveTyped(sl[s]) /\ SlaveOK(m, past, sl[s], w, cl, None)
      BY <1>2, <1>9, PsyncAssumption DEF SInv, TypeOK, SlavesOK
    <2>2. v = (w \o h) \o Bytes(cl.reply)
      <3>1. Read(c)
        BY <1>9 DEF Read
      <3> QED
        BY <1>6, <1>8, <3>1 DEF Write
    <2>3. sl[s].repl_state # "CONNECTED"
      BY <1>1, <2>1 DEF SlaveOK, Streams
    <2>a. ASSUME NEW g \in Seq(Messages), NEW k \in Nat, k = Len(g), v = g \o Bytes(cl.reply),
                 NEW run, NEW off \in Nat, NEW exact, Waits(m, cl, run, off, exact)
          PROVE  /\ Len(v) >= k /\ Len(v) \in Nat /\ \A i \in 1 .. k : v[i] = g[i]
                 /\ Streams(m, past, v, k, cl2, run, off, exact, Forks, cl.rdb, 0)
      <3> DEFINE P == cl.reply
      <3>1. P \in Seq(CmdBytes) /\ v = g \o Bytes(P) /\ Len(P) \in Nat
        BY <1>2, <2>a
      <3> HIDE DEF P, v, cl
      <3>2. /\ Len(v) = Len(g) + Len(P) /\ \A i \in 1 .. Len(g) : v[i] = g[i]
            /\ OnlyBytes(v, k) /\ Payload(v, k) = P
        BY <2>a, <3>1, BulkBytes
      <3>3. Streams(m, past, v, k, cl2, run, off, exact, Forks, cl.rdb, 0)
        BY <1>1, <1>2, <1>3, <2>a, <3>2, BulkStreams DEF P
      <3> QED
        BY <2>a, <3>1, <3>2, <3>3
    <2>4. ASSUME sl[s].repl_state = "PSYNC" PROVE Answered(m, past, sl[s], v, cl2, None)
      <3>1. Len(w) = 1 /\ w[1] \in FullResyncs /\ Waits(m, cl, w[1].runid, w[1].offset, w[1].exact)
        BY <1>1, <2>1, <2>4 DEF SlaveOK, Answered, Streams
      <3>2. w[1].offset \in Nat
        BY <3>1 DEF FullResyncs
      <3>3. /\ w \o h \in Seq(Messages) /\ Len(w \o h) = 2
            /\ (w \o h)[1] = w[1] /\ (w \o h)[2] = h[1]
        BY <1>4, <1>6, <3>1
      <3>4. /\ Len(v) >= 2 /\ Len(v) \in Nat /\ v[1] = w[1] /\ v[2] = h[1]
            /\ Streams(m, past, v, 2, cl2, w[1].runid, w[1].offset, w[1].exact, Forks, cl.rdb, 0)
        <4> DEFINE g == w \o h
        <4>1. g \in Seq(Messages) /\ Len(g) = 2 /\ g[1] = w[1] /\ g[2] = h[1] /\ v = g \o Bytes(cl.reply)
          BY <2>2, <3>3
        <4> HIDE DEF g, v, w, cl
        <4> QED
          <5> DEFINE k == 2
                     off == w[1].offset
                     run == w[1].runid
                     ex == w[1].exact
          <5>1. /\ k \in Nat /\ k = Len(g) /\ k = 2 /\ off \in Nat /\ Waits(m, cl, run, off, ex)
            BY <3>1, <3>2, <4>1
          <5> HIDE DEF k, off, run, ex
          <5>2. /\ Len(v) >= k /\ Len(v) \in Nat /\ \A i \in 1 .. k : v[i] = g[i]
                /\ Streams(m, past, v, k, cl2, run, off, ex, Forks, cl.rdb, 0)
            BY <2>a, <4>1, <5>1
          <5>3. 1 \in 1 .. k /\ 2 \in 1 .. k
            BY <5>1
          <5> QED
            BY <4>1, <5>1, <5>2, <5>3 DEF off, run, ex
      <3> HIDE DEF v, w, cl
      <3> QED
        BY <1>2, <1>4, <3>1, <3>4 DEF Answered
    <2>5. ASSUME sl[s].repl_state = "TRANSFER" PROVE Transferred(m, past, sl[s], v, cl2, None)
      <3>1. /\ w = <<>> /\ Waits(m, cl, told.runid, told.offset, told.exact)
            /\ sl[s].cached_master = None /\ told \in FullResyncs
        BY <1>1, <2>1, <2>5 DEF SlaveOK, Transferred, Streams
      <3>2. told.offset \in Nat
        BY <3>1 DEF FullResyncs
      <3>3. w \o h = h
        BY <1>4, <3>1
      <3>4. v = h \o Bytes(cl.reply)
        BY <2>2, <3>3
      <3> HIDE DEF v, w, cl
      <3>5. /\ Len(v) >= 1 /\ Len(v) \in Nat /\ v[1] = h[1]
            /\ Streams(m, past, v, 1, cl2, told.runid, told.offset, told.exact, Forks, cl.rdb, 0)
        <4> DEFINE k == 1
                   off == told.offset
                   run == told.runid
                   ex == told.exact
        <4>1. /\ k \in Nat /\ k = Len(h) /\ k = 1 /\ off \in Nat /\ Waits(m, cl, run, off, ex)
          BY <1>4, <3>1, <3>2
        <4> HIDE DEF k, off, run, ex
        <4>2. /\ Len(v) >= k /\ Len(v) \in Nat /\ \A i \in 1 .. k : v[i] = h[i]
              /\ Streams(m, past, v, k, cl2, run, off, ex, Forks, cl.rdb, 0)
          BY <1>4, <2>a, <3>4, <4>1
        <4> QED
          BY <4>1, <4>2 DEF off, run, ex
      <3> QED
        BY <1>2, <1>4, <3>1, <3>5 DEF Transferred
    <2>6. SlaveOK(m, past, sl[s], v, cl2, None)
      BY <2>1, <2>3, <2>4, <2>5 DEF SlaveOK
    <2> QED
      BY <1>1, <1>2, <1>8, <2>6
  <1>10. SlavesOK' /\ OneEach'
    <2>1. \A d \in Conns \ {c} : /\ Turned(client[d], client'[d])
                                 /\ m.repl_backlog = None => client'[d] = None
                                 /\ req'[d] \in {req[d], None} /\ wire'[d] = wire[d]
      BY <1>1, <1>2, <1>8 DEF Turned
    <2>2. Calm(m, m')
      BY <1>1 DEF Calm
    <2> QED
      BY <1>1, <1>9, <2>1, <2>2, OneReached
  <1>11. ClientsOK'
    <2> SUFFICES ASSUME NEW d \in Conns, client'[d] # None
                 PROVE  req'[d] = None /\ ClientOK(m', client'[d])
      BY DEF ClientsOK
    <2>1. CASE d = c
      BY <1>1, <1>2, <1>3, <1>8, <2>1
    <2>2. CASE d # c
      BY <1>1, <1>8, <2>2 DEF SInv, ClientsOK
    <2> QED
      BY <2>1, <2>2
  <1>12. TypeOK'
    BY <1>1, <1>8 DEF SInv, TypeOK
  <1> QED
    BY <1>1, <1>7, <1>10, <1>11, <1>12 DEF SInv, IInv

\* A byte that is fed leaves everything but the stream and its backlog, and
\* makes no hole.
LEMMA FeedWhole ==
    ASSUME NEW M, MasterOK(M), Exact(M), M.repl_backlog # None, NEW byte \in CmdBytes,
           Whole(M, M.repl_backlog_off - 1), NEW F, F = feedReplicationBacklog(M, byte)
    PROVE  /\ MasterOK(F) /\ Exact(F) /\ F.repl_backlog # None
           /\ Whole(F, F.repl_backlog_off - 1)
           /\ F.stream = Append(M.stream, byte)
           /\ F.master_repl_offset = M.master_repl_offset + 1
           /\ F.runid = M.runid /\ F.data = M.data /\ F.last = M.last
           /\ F.slaveseldb = M.slaveseldb /\ F.rdb_child = M.rdb_child
  <1>1. byte \in AnyByte /\ byte[1] # "HOLE"
    BY DEF CmdBytes, AnyByte
  <1>2. MasterOK(F) /\ Exact(F) /\ F.repl_backlog # None
    BY <1>1, FeedExact
  <1>3. /\ M = [f \in MasterFields |-> M[f]] /\ M.master_repl_offset \in Nat
        /\ M.stream \in Seq(AnyByte) /\ Len(M.stream) = M.master_repl_offset
        /\ M.histlen \in Nat /\ F.histlen \in Nat
        /\ M.repl_backlog_off = M.master_repl_offset - M.histlen + 1
        /\ F.repl_backlog_off = F.master_repl_offset - F.histlen + 1
    BY <1>2 DEF MasterOK, Exact
  <1>4. /\ F.stream = Append(M.stream, byte)
        /\ F.master_repl_offset = M.master_repl_offset + 1
        /\ F.runid = M.runid /\ F.data = M.data /\ F.last = M.last
        /\ F.slaveseldb = M.slaveseldb /\ F.rdb_child = M.rdb_child
        /\ F.histlen \in {M.histlen, M.histlen + 1}
    BY <1>3 DEF feedReplicationBacklog, MasterFields
  <1>5. Whole(F, F.repl_backlog_off - 1)
    <2> SUFFICES ASSUME NEW p \in F.repl_backlog_off - 1 + 1 .. F.master_repl_offset
                 PROVE  F.stream[p][1] # "HOLE"
      BY DEF Whole
    <2>1. CASE p = M.master_repl_offset + 1
      <3>1. F.stream[p] = byte
        BY <1>1, <1>3, <1>4, <2>1
      <3> QED
        BY <1>1, <3>1
    <2>2. CASE p # M.master_repl_offset + 1
      <3>1. /\ p \in M.repl_backlog_off - 1 + 1 .. M.master_repl_offset
            /\ p \in 1 .. M.master_repl_offset
        <4>1. M.histlen <= M.master_repl_offset
          BY DEF MasterOK
        <4> DEFINE o == M.master_repl_offset
                   h == M.histlen
                   g == F.histlen
        <4>2. /\ o \in Nat /\ h \in Nat /\ g \in {h, h + 1} /\ h <= o
              /\ M.repl_backlog_off = o - h + 1
              /\ F.repl_backlog_off = (o + 1) - g + 1 /\ F.master_repl_offset = o + 1
          BY <1>3, <1>4, <4>1
        <4>3. p \in F.repl_backlog_off - 1 + 1 .. o + 1 /\ p # o + 1
          BY <2>2, <4>2
        <4> HIDE DEF o, h, g
        <4>4. p \in Int /\ p <= o /\ p >= (o + 1) - g + 1 /\ o - h + 1 >= 1
          BY <4>2, <4>3
        <4>5. p >= o - h + 1
          BY <4>2, <4>4
        <4>6. p \in M.repl_backlog_off - 1 + 1 .. o /\ p \in 1 .. o
          BY <4>2, <4>4, <4>5
        <4> QED
          BY <4>6 DEF o
      <3>2. F.stream[p] = M.stream[p]
        <4>1. \A q \in 1 .. Len(M.stream) : Append(M.stream, byte)[q] = M.stream[q]
          BY <1>1, <1>3, AppendOf
        <4> QED
          BY <1>3, <1>4, <3>1, <4>1
      <3> QED
        BY <3>1, <3>2 DEF Whole
    <2> QED
      BY <2>1, <2>2
  <1> QED
    BY <1>2, <1>4, <1>5

\* The next command has the next number.
LEMMA NumberedAppend ==
    ASSUME NEW D \in Datasets, Numbered(D), NEW e \in Nat \X Nat,
           \A k \in 1 .. Len(D) : D[k][2] < e[2]
    PROVE  Numbered(Append(D, e)) /\ Append(D, e) \in Datasets
  <1>1. /\ Append(D, e) \in Datasets /\ Len(D) \in Nat /\ Len(Append(D, e)) = Len(D) + 1
        /\ Append(D, e)[Len(D) + 1] = e
        /\ \A p \in 1 .. Len(D) : Append(D, e)[p] = D[p]
    BY AppendOf DEF Datasets
  <1>2. ASSUME NEW j \in 1 .. Len(D) + 1, NEW k \in 1 .. Len(D) + 1, j < k
        PROVE  Append(D, e)[j][2] < Append(D, e)[k][2]
    <2>1. j \in 1 .. Len(D)
      BY <1>1, <1>2
    <2>2. CASE k = Len(D) + 1
      BY <1>1, <2>1, <2>2
    <2>3. CASE k \in 1 .. Len(D)
      BY <1>1, <1>2, <2>1, <2>3 DEF Numbered
    <2> QED
      BY <1>1, <2>2, <2>3
  <1> QED
    BY <1>1, <1>2 DEF Numbered

\* The master that has executed a command and fed it.
LEMMA FedMaster ==
    ASSUME SInv, IInv', NEW db \in Dbs, replicationFeedSlaves(db)
    PROVE  /\ m.last \in Nat /\ Feeds(m, m', db, m.last + 1)
           /\ m'.repl_backlog # None => Whole(m', m'.repl_backlog_off - 1)
  <1> DEFINE n       == m.last + 1
             select  == IF m.slaveseldb = db THEN <<>> ELSE <<Select(db)>>
             done    == [m EXCEPT !.data = Append(@, <<db, n>>), !.last = n]
             chosen  == IF m.slaveseldb = db THEN done
                        ELSE feedReplicationBacklog(done, Select(db))
             one     == feedReplicationBacklog(chosen, First(n))
             fed     == feedReplicationBacklog(one, Rest(n))
  <1>1. IF m.repl_backlog = None THEN m' = done ELSE m' = [fed EXCEPT !.slaveseldb = db]
    BY DEF replicationFeedSlaves
  <1>2. /\ MasterOK(m) /\ Exact(m) /\ m = [f \in MasterFields |-> m[f]] /\ m.last \in Nat
        /\ m.repl_backlog # None => Whole(m, m.repl_backlog_off - 1)
    BY InvFacts DEF MasterOK
  <1>3. /\ SameBacklog(m, done) /\ done.runid = m.runid /\ done.rdb_child = m.rdb_child
        /\ done.data = Append(m.data, <<db, n>>) /\ done.last = n
        /\ done.slaveseldb = m.slaveseldb
    <2> DEFINE data == Append(m.data, <<db, n>>)
    <2>0. done = [m EXCEPT !.data = data, !.last = n] /\ n \in Nat
      BY <1>2
    <2> HIDE DEF data, n
    <2>1. /\ done = [f \in MasterFields |-> done[f]] /\ done.last = n /\ n \in Nat
          /\ done.runid = m.runid /\ done.rdb_child = m.rdb_child
          /\ done.data = data /\ done.slaveseldb = m.slaveseldb
      BY <1>2, <2>0 DEF MasterFields
    <2>2. /\ done.master_repl_offset = m.master_repl_offset /\ done.stream = m.stream
          /\ done.repl_backlog = m.repl_backlog /\ done.repl_backlog_size = m.repl_backlog_size
          /\ done.histlen = m.histlen /\ done.idx = m.idx
          /\ done.repl_backlog_off = m.repl_backlog_off
      BY <1>2 DEF MasterFields
    <2> HIDE DEF done
    <2> QED
      BY <2>1, <2>2 DEF SameBacklog, data, n
  <1>4. n \in Nat /\ db \in Nat
    BY <1>2, PsyncAssumption
  <1>5. {Select(db), First(n), Rest(n)} \subseteq CmdBytes
    BY <1>4 DEF Select, First, Rest, CmdBytes
  <1>6. MasterOK(done) /\ Exact(done)
    BY <1>2, <1>3, SameExact
  <1> HIDE DEF done
  <1>7. CASE m.repl_backlog = None
    BY <1>1, <1>2, <1>3, <1>7 DEF Feeds, SameBacklog
  <1>8. CASE m.repl_backlog # None
    <2> DEFINE Fine(M, S) ==
                  /\ MasterOK(M) /\ Exact(M) /\ M.repl_backlog # None
                  /\ Whole(M, M.repl_backlog_off - 1)
                  /\ M.runid = m.runid /\ M.data = Append(m.data, <<db, n>>) /\ M.last = n
                  /\ M.slaveseldb = m.slaveseldb /\ M.rdb_child = m.rdb_child
                  /\ M.stream = S /\ M.master_repl_offset = Len(S)
    <2>1. Fine(done, m.stream)
      <3>1. Whole(done, done.repl_backlog_off - 1)
        BY <1>2, <1>3, <1>8 DEF Whole, SameBacklog
      <3> QED
        BY <1>2, <1>3, <1>6, <1>8, <3>1 DEF SameBacklog, MasterOK
    <2>2. ASSUME NEW M, NEW S \in Seq(AnyByte), Fine(M, S), NEW b \in CmdBytes
          PROVE  Fine(feedReplicationBacklog(M, b), Append(S, b)) /\ Append(S, b) \in Seq(AnyByte)
      <3>1. b \in AnyByte
        BY DEF CmdBytes, AnyByte
      <3>2. Append(S, b) \in Seq(AnyByte) /\ Len(Append(S, b)) = Len(S) + 1
        BY <3>1, AppendOf
      <3> DEFINE F == feedReplicationBacklog(M, b)
      <3>3. F = feedReplicationBacklog(M, b)
        OBVIOUS
      <3> HIDE DEF F
      <3>4. /\ MasterOK(F) /\ Exact(F) /\ F.repl_backlog # None
            /\ Whole(F, F.repl_backlog_off - 1)
            /\ F.stream = Append(M.stream, b)
            /\ F.master_repl_offset = M.master_repl_offset + 1
            /\ F.runid = M.runid /\ F.data = M.data /\ F.last = M.last
            /\ F.slaveseldb = M.slaveseldb /\ F.rdb_child = M.rdb_child
        BY <2>2, <3>3, FeedWhole
      <3> QED
        BY <2>2, <3>2, <3>3, <3>4
    <2> HIDE DEF Fine
    <2>3. m.stream \in Seq(AnyByte) /\ m.master_repl_offset = Len(m.stream)
      BY <1>2 DEF MasterOK
    <2> DEFINE S == IF m.slaveseldb = db THEN m.stream ELSE Append(m.stream, Select(db))
    <2>4. Fine(chosen, S) /\ S \in Seq(AnyByte)
      BY <1>5, <2>1, <2>2, <2>3
    <2> HIDE DEF chosen, S
    <2>5. Fine(one, Append(S, First(n))) /\ Append(S, First(n)) \in Seq(AnyByte)
      BY <1>5, <2>2, <2>4
    <2> DEFINE T == Append(S, First(n))
    <2> HIDE DEF one, T
    <2>6. Fine(fed, Append(T, Rest(n))) /\ Append(T, Rest(n)) \in Seq(AnyByte)
      BY <1>5, <2>2, <2>5 DEF T
    <2> HIDE DEF fed
    <2>7. Append(T, Rest(n)) = m.stream \o Fed(m, db, n)
      <3>1. {Select(db), First(n), Rest(n)} \subseteq AnyByte
        BY <1>5 DEF CmdBytes, AnyByte
      <3> DEFINE P == m.stream
      <3>2. /\ P \o (<<>> \o <<First(n), Rest(n)>>) = Append(Append(P, First(n)), Rest(n))
            /\ P \o (<<Select(db)>> \o <<First(n), Rest(n)>>)
                  = Append(Append(Append(P, Select(db)), First(n)), Rest(n))
        BY <2>3, <3>1, Joined
      <3>3. CASE m.slaveseldb = db
        BY <3>2, <3>3 DEF T, S, Fed
      <3>4. CASE m.slaveseldb # db
        BY <3>2, <3>4 DEF T, S, Fed
      <3> QED
        BY <3>3, <3>4
    <2>8. Len(m.stream \o Fed(m, db, n)) = Len(m.stream) + Len(Fed(m, db, n))
      BY <1>4, <2>3, FedBytes, ConcatOf
    <2>9. m' = [fed EXCEPT !.slaveseldb = db] /\ fed = [f \in MasterFields |-> fed[f]]
      BY <1>1, <1>8, <2>6 DEF Fine, MasterOK
    <2>10. /\ m'.runid = fed.runid /\ m'.rdb_child = fed.rdb_child /\ m'.data = fed.data
           /\ m'.last = fed.last /\ m'.repl_backlog = fed.repl_backlog
           /\ m'.slaveseldb = db /\ m'.stream = fed.stream
           /\ m'.master_repl_offset = fed.master_repl_offset
           /\ m'.repl_backlog_off = fed.repl_backlog_off
      BY <2>9 DEF MasterFields
    <2>11. Whole(m', m'.repl_backlog_off - 1)
      BY <2>6, <2>10 DEF Fine, Whole
    <2> QED
      BY <1>2, <1>8, <2>3, <2>6, <2>7, <2>8, <2>10, <2>11 DEF Fine, Feeds
  <1> QED
    BY <1>2, <1>7, <1>8

\* A command is executed.
LEMMA FeedStep ==
    ASSUME SInv, IInv', NEW db \in Dbs, replicationFeedSlaves(db)
    PROVE  SInv'
  <1> DEFINE n       == m.last + 1
             select  == IF m.slaveseldb = db THEN <<>> ELSE <<Select(db)>>
             new(c)  == FeedFor(c, select, <<First(n), Rest(n)>>)
             B       == Fed(m, db, n)
  <1>1. /\ n \in Nat /\ db \in Nat /\ m.last \in Nat /\ Feeds(m, m', db, n)
        /\ m'.repl_backlog # None => Whole(m', m'.repl_backlog_off - 1)
        /\ UNCHANGED <<req, sl, past>>
    <2>1. db \in Nat
      BY PsyncAssumption
    <2>2. UNCHANGED <<req, sl, past>>
      BY DEF replicationFeedSlaves
    <2>3. /\ m.last \in Nat /\ Feeds(m, m', db, n)
          /\ m'.repl_backlog # None => Whole(m', m'.repl_backlog_off - 1)
      BY FedMaster
    <2>4. n \in Nat
      BY <2>3
    <2> QED
      BY <2>1, <2>2, <2>3, <2>4
  <1>2. /\ MasterOK(m) /\ m.data \in Datasets /\ Numbered(m.data) /\ m.runid \in Nat \ {0}
        /\ \A k \in 1 .. Len(m.data) : m.data[k][2] < n
        /\ \A r \in 1 .. m.runid - 1 : past[r] \in Datasets
        /\ m.rdb_child \in {None} \cup [rdb : Datasets]
    <2>1. /\ m.data \in Datasets /\ \A k \in 1 .. Len(m.data) : m.data[k][2] <= m.last
          /\ past \in Seq(Datasets) /\ Len(past) = m.runid - 1 /\ m.runid \in Nat \ {0}
      BY InvFacts DEF SInv, RunsOK
    <2>2. \A k \in 1 .. Len(m.data) : m.data[k][2] \in Nat
      BY <2>1 DEF Datasets
    <2>3. \A k \in 1 .. Len(m.data) : m.data[k][2] < n
      BY <1>1, <2>1, <2>2
    <2> QED
      BY <2>1, <2>3, InvFacts DEF SInv, RunsOK
  <1>3. /\ select \in Seq(CmdBytes) /\ select \in Seq(AnyByte)
        /\ B \in Seq(CmdBytes) /\ B \in Seq(AnyByte)
    <2>1. Select(db) \in CmdBytes /\ Select(db) \in AnyByte
      BY <1>1 DEF Select, CmdBytes, AnyByte
    <2> QED
      BY <1>1, <2>1, FedBytes
  <1>4. \A c \in Conns : /\ client[c] # None /\ client[c].replstate = "WAIT_BGSAVE_START" => new(c) = select
                         /\ client[c] # None /\ client[c].replstate # "WAIT_BGSAVE_START" => new(c) = B
    BY DEF FeedFor, Fed
  <1> DEFINE next(c) == IF client[c] = None \/ client[c].replstate = "ONLINE" THEN client[c]
                        ELSE [client[c] EXCEPT !.reply = @ \o new(c)]
             sent(c) == IF client[c] # None /\ client[c].replstate = "ONLINE"
                        THEN Write(wire, c, Bytes(B)) ELSE wire[c]
  <1>5. client' = [c \in Conns |-> next(c)] /\ wire' = [c \in Conns |-> sent(c)]
    <2>1. CASE m.repl_backlog = None
      <3>1. UNCHANGED <<client, wire>>
        BY <2>1 DEF replicationFeedSlaves
      <3>2. \A c \in Conns : next(c) = client[c] /\ sent(c) = wire[c]
        BY <2>1, ClientsTyped
      <3> QED
        BY <3>1, <3>2, InvFacts
    <2>2. CASE m.repl_backlog # None
      <3>1. /\ client' = [c \in Conns |-> next(c)]
            /\ wire' = [c \in Conns |->
                  IF client[c] # None /\ client[c].replstate = "ONLINE"
                  THEN Write(wire, c, Bytes(new(c))) ELSE wire[c]]
        BY <2>2 DEF replicationFeedSlaves
      <3> HIDE DEF new, next, B
      <3>2. wire' = [c \in Conns |-> sent(c)]
        BY <1>4, <3>1
      <3> QED
        BY <3>1, <3>2
    <2> QED
      BY <2>1, <2>2
  <1> HIDE DEF select, new
  <1>6. ASSUME NEW c \in Conns
        PROVE  /\ next(c) \in {None} \cup SlaveClients /\ FedClient(m, db, n, client[c], next(c))
               /\ next(c) # None => client[c] # None
    <2> DEFINE cl == client[c]
               P  == cl.reply
    <2>1. cl \in {None} \cup SlaveClients
      BY ClientsTyped
    <2>2. CASE cl = None
      BY <2>2 DEF FedClient
    <2>3. CASE cl # None /\ cl.replstate = "ONLINE"
      BY <2>1, <2>3 DEF FedClient
    <2>4. CASE cl # None /\ cl.replstate # "ONLINE"
      <3>1. next(c) = [cl EXCEPT !.reply = P \o new(c)] /\ cl \in SlaveClients
        BY <2>1, <2>4
      <3>2. P \in Seq(AnyByte) /\ new(c) \in Seq(AnyByte)
        BY <1>3, <1>4, <2>4, <3>1 DEF SlaveClients
      <3> HIDE DEF P, next
      <3>3. P \o new(c) \in Seq(AnyByte)
        BY <3>2, ConcatOf
      <3>4. /\ next(c) \in SlaveClients /\ next(c).replstate = cl.replstate
            /\ next(c).rdb = cl.rdb /\ next(c).reply = P \o new(c)
        BY <3>1, <3>3 DEF SlaveClients
      <3>5. next(c) # None
        BY <3>4, PsyncAssumption
      <3> QED
        BY <1>4, <2>4, <3>4, <3>5 DEF FedClient, P, select
    <2> QED
      BY <2>2, <2>3, <2>4
  <1> HIDE DEF next, B
  <1>7. client' \in [Conns -> {None} \cup SlaveClients] /\ \A c \in Conns : client'[c] = next(c)
    BY <1>5, <1>6
  <1>8. wire' \in [Conns -> Seq(Messages)] /\ \A c \in Conns : wire'[c] = sent(c)
    <2>1. ASSUME NEW c \in Conns PROVE wire[c] \in Seq(Messages) /\ wire[c] \o Bytes(B) \in Seq(Messages)
      <3>1. wire[c] \in Seq(Messages)
        BY DEF SInv
      <3> QED
        BY <1>3, <3>1, BulkBytes
    <2> QED
      BY <1>5, <2>1 DEF Write
  <1>9. BacklogExact' /\ MasterOK(m')
    BY DEF IInv
  <1>10. /\ m'.data = Append(m.data, <<db, n>>) /\ m'.last = n /\ m'.runid = m.runid
         /\ m'.rdb_child = m.rdb_child /\ m'.slaveseldb \in {m.slaveseldb, db}
    BY <1>1 DEF Feeds
  <1>11. Numbered(m'.data) /\ m'.data \in Datasets
    <2>1. <<db, n>> \in Nat \X Nat /\ <<db, n>>[2] = n
      BY <1>1
    <2> QED
      BY <1>2, <1>10, <2>1, NumberedAppend
  <1>12. TypeOK'
    BY <1>1, <1>2, <1>7, <1>9, <1>10, <1>11 DEF SInv, TypeOK
  <1>13. RunsOK(m', past')
    <2>1. \A k \in 1 .. Len(m'.data) : m'.data[k][2] <= m'.last
      <3>1. /\ Len(m.data) \in Nat /\ Len(m'.data) = Len(m.data) + 1
            /\ m'.data[Len(m.data) + 1] = <<db, n>>
            /\ \A k \in 1 .. Len(m.data) : m'.data[k] = m.data[k]
        <4>1. <<db, n>> \in Nat \X Nat
          BY <1>1
        <4> QED
          BY <1>2, <1>10, <4>1, AppendOf DEF Datasets
      <3> SUFFICES ASSUME NEW k \in 1 .. Len(m'.data) PROVE m'.data[k][2] <= n
        BY <1>10
      <3>2. CASE k = Len(m.data) + 1
        BY <1>1, <3>1, <3>2
      <3>3. CASE k \in 1 .. Len(m.data)
        <4>1. m'.data[k] = m.data[k] /\ m.data[k][2] < n /\ m.data[k][2] \in Nat
          BY <1>2, <3>1, <3>3 DEF Datasets
        <4> QED
          BY <1>1, <4>1
      <3> QED
        BY <3>1, <3>2, <3>3
    <2> QED
      BY <1>1, <1>10, <1>11, <2>1 DEF SInv, RunsOK
  <1>14. ClientsOK'
    <2> SUFFICES ASSUME NEW c \in Conns, client'[c] # None
                 PROVE  req'[c] = None /\ ClientOK(m', client'[c])
      BY DEF ClientsOK
    <2>1. client[c] # None /\ client'[c] = next(c) /\ FedClient(m, db, n, client[c], next(c))
      BY <1>6, <1>7
    <2>2. req[c] = None /\ ClientOK(m, client[c]) /\ m.repl_backlog # None
      BY <2>1, ClientsTyped DEF SInv, ClientsOK
    <2> HIDE DEF n
    <2>3. ClientOK(m', next(c))
      BY <1>1, <1>2, <2>1, <2>2, FeedsClient
    <2> QED
      BY <1>1, <2>1, <2>2, <2>3
  <1>15. OneEach'
    BY <1>1 DEF SInv, OneEach
  <1>16. SlavesOK'
    <2> SUFFICES ASSUME NEW s \in Slaves
                 PROVE  LET c == sl[s].conn
                        IN IF c = None THEN Knows(m', past, sl[s])
                           ELSE SlaveOK(m', past, sl[s], wire'[c], client'[c], req[c])
      BY <1>1 DEF SlavesOK
    <2> DEFINE c == sl[s].conn
    <2>1. /\ SlaveTyped(sl[s]) /\ c \in {None} \cup Conns /\ sl[s].data \in Datasets
          /\ IF c = None THEN Knows(m, past, sl[s])
             ELSE SlaveOK(m, past, sl[s], wire[c], client[c], req[c])
      BY DEF SInv, TypeOK, SlavesOK, SlaveTyped
    <2>2. CASE c = None
      <3> HIDE DEF n
      <3>1. Knows(m', past, sl[s])
        BY <1>1, <1>2, <2>1, <2>2, FeedsKnows
      <3> QED
        BY <2>2, <3>1
    <2>3. CASE c # None
      <3>1. c \in Conns /\ wire[c] \in Seq(Messages)
        BY <2>1, <2>3 DEF SInv
      <3>2. /\ client[c] # None => client[c].reply \in Seq(CmdBytes)
            /\ m.repl_backlog = None => client[c] = None
        BY <3>1, ClientsTyped
      <3>3. Read(c)
        BY DEF Read
      <3> DEFINE v == wire'[c]
      <3>4. /\ v = IF client[c] # None /\ client[c].replstate = "ONLINE"
                   THEN wire[c] \o Bytes(B) ELSE wire[c]
            /\ FedClient(m, db, n, client[c], client'[c])
        BY <1>6, <1>7, <1>8, <3>1, <3>3 DEF Write
      <3> HIDE DEF c, n, v
      <3>5. SlaveOK(m', past, sl[s], v, client'[c], req[c])
        <4> DEFINE w   == wire[c]
                   cl  == client[c]
                   cl2 == client'[c]
                   asked == req[c]
                   slave == sl[s]
        <4>1. /\ MasterOK(m) /\ m.data \in Datasets /\ db \in Nat /\ n \in Nat
              /\ \A k \in 1 .. Len(m.data) : m.data[k][2] < n
              /\ Feeds(m, m', db, n) /\ \A r \in 1 .. m.runid - 1 : past[r] \in Datasets
              /\ SlaveTyped(slave) /\ w \in Seq(Messages) /\ FedClient(m, db, n, cl, cl2)
              /\ m.repl_backlog = None => cl = None
              /\ cl # None => cl.reply \in Seq(CmdBytes)
              /\ SlaveOK(m, past, slave, w, cl, asked)
              /\ cl # None /\ cl.replstate = "ONLINE" => v = w \o Bytes(Fed(m, db, n))
              /\ ~(cl # None /\ cl.replstate = "ONLINE") => v = w
          BY <1>1, <1>2, <2>1, <2>3, <3>1, <3>2, <3>4 DEF B
        <4> HIDE DEF w, cl, cl2, asked, slave
        <4>2. SlaveOK(m', past, slave, v, cl2, asked)
          BY <4>1, FeedsSlave
        <4> QED
          BY <4>2 DEF w, cl, cl2, asked, slave
      <3> QED
        BY <2>3, <3>5 DEF c, v
    <2> QED
      BY <2>2, <2>3
  <1> QED
    BY <1>8, <1>9, <1>12, <1>13, <1>14, <1>15, <1>16 DEF SInv

\* The master that comes up again: all it knew of its slaves is gone, and what
\* they had of it is the dataset of a run that is past.
LEMMA RestartData ==
    ASSUME NEW M, NEW N, NEW pa \in Seq(Datasets), M.runid \in Nat \ {0}, Len(pa) = M.runid - 1,
           M.data \in Datasets, N.runid = M.runid + 1,
           NEW run \in 1 .. M.runid
    PROVE  /\ DataIn(N, Append(pa, M.data), run) = DataIn(M, pa, run)
           /\ run \in 1 .. N.runid /\ run # N.runid
  <1>1. /\ Len(pa) \in Nat /\ Append(pa, M.data)[Len(pa) + 1] = M.data
        /\ \A p \in 1 .. Len(pa) : Append(pa, M.data)[p] = pa[p]
    <2> DEFINE b == M.data
    <2>1. b \in Datasets
      OBVIOUS
    <2> HIDE DEF b
    <2>2. /\ Len(pa) \in Nat /\ Append(pa, b)[Len(pa) + 1] = b
          /\ \A p \in 1 .. Len(pa) : Append(pa, b)[p] = pa[p]
      BY <2>1, AppendOf
    <2> QED
      BY <2>2 DEF b
  <1>2. run \in 1 .. N.runid /\ run # N.runid
    OBVIOUS
  <1>3. CASE run = M.runid
    BY <1>1, <1>2, <1>3 DEF DataIn
  <1>4. CASE run # M.runid
    <2>1. run \in 1 .. Len(pa)
      BY <1>4
    <2> QED
      BY <1>1, <1>2, <1>4, <2>1 DEF DataIn
  <1> QED
    BY <1>2, <1>3, <1>4

\* What a slave without the master knows, when that restarts.
LEMMA RestartKnows ==
    ASSUME NEW M, NEW N, NEW pa \in Seq(Datasets), M.runid \in Nat \ {0}, Len(pa) = M.runid - 1,
           M.data \in Datasets, N.runid = M.runid + 1, NEW slave, Knows(M, pa, slave)
    PROVE  Knows(N, Append(pa, M.data), slave)
  <1>1. \A run \in 1 .. M.runid : /\ DataIn(N, Append(pa, M.data), run) = DataIn(M, pa, run)
                                  /\ run \in 1 .. N.runid /\ run # N.runid
    BY RestartData
  <1> QED
    BY <1>1 DEF Knows

\* What a slave will read, when the master restarts.
LEMMA RestartStreams ==
    ASSUME NEW M, NEW N, NEW pa, NEW pb, NEW gone, gone = None,
           \A r \in 1 .. M.runid : /\ DataIn(N, pb, r) = DataIn(M, pa, r)
                                    /\ r \in 1 .. N.runid /\ r # N.runid,
           NEW w, NEW k \in Nat, NEW cl, NEW run, NEW off \in Nat, NEW exact, NEW sound, NEW d, NEW db,
           Streams(M, pa, w, k, cl, run, off, exact, sound, d, db)
    PROVE  Streams(N, pb, w, k, gone, run, off, exact, sound, d, db)
  <1> DEFINE P == Payload(w, k)
  <1>1. /\ OnlyBytes(w, k) /\ run \in 1 .. M.runid
        /\ sound => Leads(P, d, db, DataIn(M, pa, run))
    BY DEF Streams
  <1> HIDE DEF P
  <1>2. /\ run \in 1 .. N.runid /\ run # N.runid
        /\ sound => Leads(P, d, db, DataIn(N, pb, run))
    BY <1>1
  <1> QED
    BY <1>1, <1>2 DEF Streams, P

\* A slave of a run that is past.
LEMMA SlaveOfPast ==
    ASSUME NEW M, NEW N, NEW pa, NEW pb,
           \A r \in 1 .. M.runid : /\ DataIn(N, pb, r) = DataIn(M, pa, r)
                                  /\ r \in 1 .. N.runid /\ r # N.runid,
           NEW slave, SlaveTyped(slave), NEW w \in Seq(Messages), NEW cl, NEW asked,
           SlaveOK(M, pa, slave, w, cl, asked), NEW gone, gone = None
    PROVE  SlaveOK(N, pb, slave, w, gone, gone)
  <1>1. Knows(N, pb, slave)
    BY DEF SlaveOK, Knows
  <1>2. \A run, off, exact : off \in Nat /\ Waits(M, cl, run, off, exact)
                                => Waits(N, gone, run, off, exact)
    BY DEF Waits
  <1>3. ASSUME NEW k, NEW run, NEW off, NEW exact, NEW sound, NEW d, NEW db,
               k \in Nat, k <= Len(w), off \in Nat,
               Streams(M, pa, w, k, cl, run, off, exact, sound, d, db)
        PROVE  Streams(N, pb, w, k, gone, run, off, exact, sound, d, db)
    BY <1>3, RestartStreams
  <1>4. \A k, run, off, exact, sound, d, db :
           k \in Nat /\ k <= Len(w) /\ off \in Nat
           /\ Streams(M, pa, w, k, cl, run, off, exact, sound, d, db)
           => Streams(N, pb, w, k, gone, run, off, exact, sound, d, db)
    BY <1>3
  <1> QED
    BY <1>1, <1>2, <1>4, SlaveCarried

\* Any slave, when the master restarts.
LEMMA RestartSlave ==
    ASSUME NEW M, NEW N, NEW pa \in Seq(Datasets), M.runid \in Nat \ {0}, Len(pa) = M.runid - 1,
           M.data \in Datasets, N.runid = M.runid + 1,
           NEW slave, SlaveTyped(slave), NEW w \in Seq(Messages), NEW cl, NEW asked,
           SlaveOK(M, pa, slave, w, cl, asked)
    PROVE  SlaveOK(N, Append(pa, M.data), slave, w, None, None)
  <1> DEFINE pb == Append(pa, M.data)
  <1>1. \A r \in 1 .. M.runid : /\ DataIn(N, pb, r) = DataIn(M, pa, r)
                                /\ r \in 1 .. N.runid /\ r # N.runid
    BY RestartData
  <1> HIDE DEF pb
  <1>2. SlaveOK(N, pb, slave, w, None, None)
    BY <1>1, SlaveOfPast
  <1> QED
    BY <1>2 DEF pb

\* The master restarts.
LEMMA RestartStep ==
    ASSUME SInv, IInv', NEW saved \in 0 .. Len(m.data), MasterRestart(saved)
    PROVE  SInv'
  <1> DEFINE data == SubSeq(m.data, 1, saved)
  <1>1. /\ m' = Start(m.runid + 1, data, m.last) /\ past' = Append(past, m.data)
        /\ client' = [c \in Conns |-> None] /\ req' = [c \in Conns |-> None]
        /\ UNCHANGED <<wire, sl>>
    BY DEF MasterRestart
  <1>2. /\ m.data \in Datasets /\ m.runid \in Nat \ {0} /\ m.last \in Nat /\ Numbered(m.data)
        /\ past \in Seq(Datasets) /\ Len(past) = m.runid - 1
        /\ \A r \in 1 .. Len(past) : Numbered(past[r])
        /\ \A k \in 1 .. Len(m.data) : m.data[k][2] <= m.last
    BY InvFacts DEF SInv, RunsOK, MasterOK
  <1>3. /\ data \in Datasets /\ Len(data) = saved /\ Len(m.data) \in Nat
        /\ \A k \in 1 .. saved : data[k] = m.data[k] /\ k \in 1 .. Len(m.data)
    BY <1>2 DEF Datasets
  <1> HIDE DEF data
  <1>4. /\ m'.runid = m.runid + 1 /\ m'.data = data /\ m'.last = m.last
        /\ m'.slaveseldb = -1 /\ m'.rdb_child = None /\ m'.repl_backlog = None
    BY <1>1 DEF Start
  <1>5. BacklogExact' /\ MasterOK(m')
    BY DEF IInv
  <1>6. TypeOK'
    <2>1. /\ client' \in [Conns -> {None} \cup SlaveClients]
          /\ req' \in [Conns -> {None} \cup Requests]
      BY <1>1
    <2> QED
      BY <1>1, <1>2, <1>3, <1>4, <1>5, <2>1 DEF SInv, TypeOK
  <1>7. RunsOK(m', past')
    <2>1. /\ past' \in Seq(Datasets) /\ Len(past') = m'.runid - 1
          /\ past'[Len(past) + 1] = m.data /\ \A r \in 1 .. Len(past) : past'[r] = past[r]
      BY <1>1, <1>2, <1>4, AppendOf
    <2>2. Numbered(m'.data) /\ \A k \in 1 .. Len(m'.data) : m'.data[k][2] <= m'.last
      BY <1>2, <1>3, <1>4 DEF Numbered
    <2>3. \A r \in 1 .. Len(past') : Numbered(past'[r])
      <3> TAKE r \in 1 .. Len(past')
      <3>1. Len(past') = Len(past) + 1 /\ Len(past) \in Nat
        BY <1>2, <1>4, <2>1
      <3>2. CASE r = Len(past) + 1
        BY <1>2, <2>1, <3>2
      <3>3. CASE r \in 1 .. Len(past)
        BY <1>2, <2>1, <3>3
      <3> QED
        BY <3>1, <3>2, <3>3
    <2> QED
      BY <1>4, <2>1, <2>2, <2>3 DEF RunsOK
  <1>8. ClientsOK'
    BY <1>1 DEF ClientsOK
  <1>9. OneEach'
    BY <1>1 DEF SInv, OneEach
  <1>10. SlavesOK'
    <2> SUFFICES ASSUME NEW s \in Slaves
                 PROVE  LET c == sl[s].conn
                        IN IF c = None THEN Knows(m', past', sl[s])
                           ELSE SlaveOK(m', past', sl[s], wire[c], client'[c], req'[c])
      BY <1>1 DEF SlavesOK
    <2> DEFINE c == sl[s].conn
    <2>1. /\ SlaveTyped(sl[s]) /\ c \in {None} \cup Conns
          /\ IF c = None THEN Knows(m, past, sl[s])
             ELSE SlaveOK(m, past, sl[s], wire[c], client[c], req[c])
      BY DEF SInv, TypeOK, SlavesOK, SlaveTyped
    <2> DEFINE N == m'
    <2>2. N.runid = m.runid + 1 /\ past' = Append(past, m.data)
      BY <1>1, <1>4
    <2> HIDE DEF N
    <2>3. CASE c = None
      <3>1. Knows(N, Append(past, m.data), sl[s])
        BY <1>2, <2>1, <2>2, <2>3, RestartKnows
      <3> QED
        BY <2>2, <2>3, <3>1 DEF N
    <2>4. CASE c # None
      <3>1. c \in Conns /\ wire[c] \in Seq(Messages) /\ client'[c] = None /\ req'[c] = None
        BY <1>1, <2>1, <2>4 DEF SInv
      <3> HIDE DEF c
      <3>2. SlaveOK(N, Append(past, m.data), sl[s], wire[c], None, None)
        BY <1>2, <2>1, <2>2, <2>4, <3>1, RestartSlave DEF c
      <3> QED
        BY <2>2, <2>4, <3>1, <3>2 DEF N, c
    <2> QED
      BY <2>3, <2>4
  <1>11. (wire \in [Conns -> Seq(Messages)])'
    BY <1>1 DEF SInv
  <1> QED
    BY <1>5, <1>6, <1>7, <1>8, <1>9, <1>10, <1>11 DEF SInv

----------------------------------------------------------------------------
(* The steps of the slaves keep the invariant *)

\* The slave has read a message of the answer or of the copy: k are left.
LEMMA TailStreams ==
    ASSUME NEW M, NEW pa, NEW w \in Seq(Messages), w # <<>>, NEW k \in Nat, k + 1 <= Len(w),
           NEW cl, NEW run, NEW off, NEW exact, NEW sound, NEW d, NEW db,
           Streams(M, pa, w, k + 1, cl, run, off, exact, sound, d, db)
    PROVE  Streams(M, pa, Tail(w), k, cl, run, off, exact, sound, d, db)
  <1>1. /\ Tail(w) \in Seq(Messages) /\ Len(w) \in Nat /\ Len(Tail(w)) = Len(w) - 1
        /\ \A p \in 1 .. Len(w) - 1 : Tail(w)[p] = w[p + 1]
    BY TailOf
  <1>2. OnlyBytes(w, k + 1)
    BY DEF Streams
  <1>3. ASSUME NEW i \in 1 .. Len(w) - (k + 1)
        PROVE  /\ Tail(w)[k + i] = w[(k + 1) + i]
               /\ w[(k + 1) + i] = Byte(w[(k + 1) + i].byte) /\ w[(k + 1) + i].byte \in CmdBytes
    <2>1. k + i \in 1 .. Len(w) - 1 /\ (k + i) + 1 = (k + 1) + i /\ (k + 1) + i \in (k + 1) + 1 .. Len(w)
      BY <1>1
    <2> QED
      BY <1>1, <1>2, <2>1 DEF OnlyBytes
  <1>4. OnlyBytes(Tail(w), k)
    <2> SUFFICES ASSUME NEW j \in k + 1 .. Len(Tail(w))
                 PROVE  Tail(w)[j] = Byte(Tail(w)[j].byte) /\ Tail(w)[j].byte \in CmdBytes
      BY DEF OnlyBytes
    <2>1. j - k \in 1 .. Len(w) - (k + 1) /\ k + (j - k) = j
      BY <1>1
    <2> QED
      BY <1>3, <2>1
  <1>5. Payload(Tail(w), k) = Payload(w, k + 1)
    <2>1. Len(Tail(w)) - k = Len(w) - (k + 1)
      BY <1>1
    <2> QED
      BY <1>3, <2>1 DEF Payload
  <1> QED
    BY <1>4, <1>5 DEF Streams

\* The bytes of a wire that carries nothing else.
LEMMA PayloadAll ==
    ASSUME NEW w \in Seq(Messages), OnlyBytes(w, 0)
    PROVE  /\ Payload(w, 0) \in Seq(CmdBytes) /\ Len(Payload(w, 0)) = Len(w)
           /\ \A i \in 1 .. Len(w) : Payload(w, 0)[i] = w[i].byte
  <1>1. Len(w) \in Nat /\ Len(w) - 0 = Len(w) /\ 0 <= Len(w) /\ 0 \in Nat
    OBVIOUS
  <1> QED
    BY <1>1, PayloadOf

\* ... or a byte of the stream.
LEMMA ReadStreams ==
    ASSUME NEW M, MasterOK(M), M.data \in Datasets, Numbered(M.data),
           NEW pa, \A r \in 1 .. M.runid - 1 : pa[r] \in Datasets /\ Numbered(pa[r]),
           M.runid \in Nat \ {0},
           NEW w \in Seq(Messages), w # <<>>, NEW cl, NEW run, NEW off \in Nat, NEW exact,
           NEW sound, NEW d \in Datasets, NEW db \in Nat,
           Streams(M, pa, w, 0, cl, run, off, exact, sound, d, db),
           NEW b, b = w[1].byte
    PROVE  /\ Streams(M, pa, Tail(w), 0, cl, run, off + 1, exact, sound,
                      DataRead(b, d, db), DbRead(b, db))
           /\ b \in CmdBytes /\ DataRead(b, d, db) \in Datasets /\ DbRead(b, db) \in Nat
  <1> DEFINE P == Payload(w, 0)
             Q == Payload(Tail(w), 0)
             D == DataIn(M, pa, run)
             e == DataRead(b, d, db)
             x == DbRead(b, db)
             all == cl # None
  <1>1. /\ OnlyBytes(w, 0) /\ run \in 1 .. M.runid
        /\ sound => Leads(P, d, db, D)
        /\ cl # None => run = M.runid /\ cl.replstate = "ONLINE" /\ (sound => Goes(M, P, d, db))
        /\ run = M.runid /\ exact => PartOf(M, P, off, all) /\ Placed(M, off, sound, d, db)
    BY DEF Streams
  <1>2. /\ Tail(w) \in Seq(Messages) /\ Len(w) \in Nat /\ Len(Tail(w)) = Len(w) - 1 /\ Len(w) > 0
        /\ \A p \in 1 .. Len(w) - 1 : Tail(w)[p] = w[p + 1]
    BY TailOf
  <1>3. /\ P \in Seq(CmdBytes) /\ Len(P) = Len(w)
        /\ \A i \in 1 .. Len(w) : P[i] = w[i].byte
    BY <1>1, <1>2, PayloadOf
  <1>4. P # <<>> /\ P[1] = b /\ b \in CmdBytes
    BY <1>2, <1>3
  <1>5. OnlyBytes(Tail(w), 0)
    <2> SUFFICES ASSUME NEW j \in 1 .. Len(w) - 1
                 PROVE  Tail(w)[j] = Byte(Tail(w)[j].byte) /\ Tail(w)[j].byte \in CmdBytes
      BY <1>2 DEF OnlyBytes
    <2>1. Tail(w)[j] = w[j + 1] /\ j + 1 \in 0 + 1 .. Len(w)
      BY <1>2
    <2> QED
      BY <1>1, <2>1 DEF OnlyBytes
  <1>6. Q = Tail(P)
    <2>1. /\ Tail(P) \in Seq(CmdBytes) /\ Len(Tail(P)) = Len(w) - 1
          /\ \A p \in 1 .. Len(w) - 1 : Tail(P)[p] = P[p + 1]
      BY <1>3, <1>4, TailOf
    <2>2. /\ Q \in Seq(CmdBytes) /\ Len(Q) = Len(w) - 1
          /\ \A i \in 1 .. Len(w) - 1 : Q[i] = Tail(w)[i].byte
      <3> DEFINE v == Tail(w)
      <3>1. v \in Seq(Messages) /\ OnlyBytes(v, 0)
        BY <1>2, <1>5
      <3> HIDE DEF v
      <3>2. /\ Payload(v, 0) \in Seq(CmdBytes) /\ Len(Payload(v, 0)) = Len(v)
            /\ \A i \in 1 .. Len(v) : Payload(v, 0)[i] = v[i].byte
        BY <3>1, PayloadAll
      <3> QED
        BY <1>2, <3>2 DEF v
    <2>3. ASSUME NEW i \in 1 .. Len(w) - 1 PROVE Q[i] = Tail(P)[i]
      <3>1. i + 1 \in 1 .. Len(w)
        BY <1>2
      <3> QED
        BY <1>2, <1>3, <2>1, <2>2, <3>1
    <2> HIDE DEF P, Q
    <2> QED
      BY <2>1, <2>2, <2>3, SameSeq
  <1>7. D \in Datasets /\ Numbered(D)
    BY <1>1 DEF DataIn
  <1> HIDE DEF P, Q, D, e, x
  <1>8. e \in Datasets /\ x \in Nat
    <2>1. CASE b[1] = "REST"
      <3>1. b[2] \in Nat /\ <<db, b[2]>> \in Nat \X Nat
        BY <1>4 DEF CmdBytes
      <3> QED
        BY <1>4, <2>1, <3>1, AppendOf DEF e, x, DataRead, DbRead, Datasets
    <2>2. CASE b[1] # "REST"
      BY <1>4, <2>2 DEF e, x, DataRead, DbRead, CmdBytes
    <2> QED
      BY <2>1, <2>2
  <1>9. sound => Leads(Q, e, x, D)
    BY <1>1, <1>3, <1>4, <1>6, <1>7, ReadLeads DEF e, x
  <1>10. cl # None => (sound => Goes(M, Q, e, x))
    BY <1>1, <1>3, <1>4, <1>6, ReadGoes DEF e, x
  <1>11. ASSUME run = M.runid, exact
         PROVE  PartOf(M, Q, off + 1, all) /\ Placed(M, off + 1, sound, e, x)
    <2>1. PartOf(M, P, off, all) /\ Placed(M, off, sound, d, db) /\ all \in BOOLEAN
      BY <1>1, <1>11
    <2>2. /\ PartOf(M, Tail(P), off + 1, all)
          /\ P[1] = M.stream[off + 1] /\ off < M.master_repl_offset
      <3>1. P \in Seq(CmdBytes) /\ P # <<>> /\ off \in Nat
        BY <1>3, <1>4
      <3> QED
        BY <2>1, <3>1, ReadPart
    <2>3. Placed(M, off + 1, sound, e, x)
      BY <1>4, <2>1, <2>2, ReadPlaced DEF e, x
    <2> QED
      BY <1>6, <2>2, <2>3
  <1>12. Streams(M, pa, Tail(w), 0, cl, run, off + 1, exact, sound, e, x)
    BY <1>1, <1>5, <1>9, <1>10, <1>11 DEF Streams, Q, D
  <1> QED
    BY <1>4, <1>8, <1>12 DEF e, x

\* What a step of one slave has to show.
LEMMA OneMoves ==
    ASSUME SInv, IInv', NEW s \in Slaves, UNCHANGED <<m, client, past>>,
           sl' = [t \in Slaves |-> IF t = s THEN sl'[s] ELSE sl[t]], SlaveTyped(sl'[s]),
           wire' \in [Conns -> Seq(Messages)], req' \in [Conns -> {None} \cup Requests],
           \A t \in Slaves \ {s} : LET c == sl[t].conn
                                   IN c # None => /\ wire'[c] = wire[c] /\ req'[c] = req[c]
                                                  /\ sl'[s].conn # c,
           \A c \in Conns : client[c] # None => req'[c] = None,
           LET c == sl'[s].conn
           IN IF c = None THEN Knows(m, past, sl'[s])
              ELSE SlaveOK(m, past, sl'[s], wire'[c], client[c], req'[c])
    PROVE  SInv'
  <1>1. /\ sl' = [t \in Slaves |-> sl'[t]]
        /\ \A t \in Slaves \ {s} : sl'[t] = sl[t]
    OBVIOUS
  <1>2. TypeOK'
    <2>1. \A t \in Slaves : SlaveTyped(sl'[t])
      BY <1>1 DEF SInv, TypeOK
    <2> QED
      BY <1>1, <2>1 DEF SInv, TypeOK
  <1>3. ClientsOK'
    BY DEF SInv, ClientsOK
  <1>4. OneEach'
    <2> SUFFICES ASSUME NEW t \in Slaves, NEW u \in Slaves, t # u, sl'[t].conn = sl'[u].conn
                 PROVE  sl'[t].conn = None
      BY DEF OneEach
    <2>1. CASE t = s
      BY <1>1, <2>1
    <2>2. CASE u = s
      BY <1>1, <2>2
    <2>3. CASE t # s /\ u # s
      BY <1>1, <2>3 DEF SInv, OneEach
    <2> QED
      BY <2>1, <2>2, <2>3
  <1>5. SlavesOK'
    <2> SUFFICES ASSUME NEW t \in Slaves
                 PROVE  LET c == sl'[t].conn
                        IN IF c = None THEN Knows(m, past, sl'[t])
                           ELSE SlaveOK(m, past, sl'[t], wire'[c], client[c], req'[c])
      BY DEF SlavesOK
    <2>1. CASE t = s
      BY <2>1
    <2>2. CASE t # s
      <3>1. LET c == sl[t].conn
            IN IF c = None THEN Knows(m, past, sl[t])
               ELSE SlaveOK(m, past, sl[t], wire[c], client[c], req[c])
        BY DEF SInv, SlavesOK
      <3> QED
        BY <1>1, <2>2, <3>1
    <2> QED
      BY <2>1, <2>2
  <1>6. RunsOK(m', past') /\ BacklogExact'
    BY DEF SInv, IInv
  <1> QED
    BY <1>2, <1>3, <1>4, <1>5, <1>6 DEF SInv

\* What is known of a slave; and its connection is its own.
LEMMA SlaveFacts ==
    ASSUME SInv, NEW s \in Slaves
    PROVE  /\ SlaveTyped(sl[s]) /\ sl[s].conn \in {None} \cup Conns
           /\ IF sl[s].conn = None THEN Knows(m, past, sl[s])
              ELSE SlaveOK(m, past, sl[s], wire[sl[s].conn], client[sl[s].conn], req[sl[s].conn])
           /\ sl[s].repl_state # "CONNECT" => sl[s].conn \in Conns
           /\ sl = [t \in Slaves |-> sl[t]] /\ wire \in [Conns -> Seq(Messages)]
           /\ req \in [Conns -> {None} \cup Requests]
           /\ \A t \in Slaves \ {s} : sl[t].conn # None => sl[t].conn # sl[s].conn
           /\ \A c \in Conns : client[c] # None => req[c] = None
  BY DEF SInv, TypeOK, SlaveTyped, SlavesOK, OneEach, ClientsOK

\* One slave moves, and reads from its connection or leaves it.
LEMMA Received ==
    ASSUME SInv, IInv', NEW s \in Slaves, sl[s].repl_state # "CONNECT",
           NEW slave, SlaveTyped(slave), slave.conn \in {None, sl[s].conn},
           sl' = [sl EXCEPT ![s] = slave],
           NEW v \in Seq(Messages), wire' = [wire EXCEPT ![sl[s].conn] = v],
           UNCHANGED <<m, client, req, past>>,
           IF slave.conn = None THEN Knows(m, past, slave)
           ELSE SlaveOK(m, past, slave, v, client[sl[s].conn], req[sl[s].conn])
    PROVE  SInv'
  <1> DEFINE c == sl[s].conn
  <1>1. /\ c \in Conns /\ sl = [t \in Slaves |-> sl[t]] /\ wire \in [Conns -> Seq(Messages)]
        /\ req \in [Conns -> {None} \cup Requests]
        /\ \A t \in Slaves \ {s} : sl[t].conn # None => sl[t].conn # c
        /\ \A d \in Conns : client[d] # None => req[d] = None
    BY SlaveFacts
  <1>2. c # None
    BY <1>1, PsyncAssumption
  <1> HIDE DEF c
  <1>3. /\ sl'[s] = slave /\ sl' = [t \in Slaves |-> IF t = s THEN sl'[s] ELSE sl[t]]
        /\ wire' = [wire EXCEPT ![c] = v] /\ slave.conn \in {None, c}
    BY <1>1 DEF c
  <1>4. /\ wire' \in [Conns -> Seq(Messages)] /\ wire'[c] = v
        /\ \A d \in Conns : d # c => wire'[d] = wire[d]
    BY <1>1, <1>3
  <1>5. \A t \in Slaves \ {s} : sl[t].conn \in {None} \cup Conns
    BY SlaveFacts
  <1>6. ASSUME NEW t \in Slaves \ {s}, sl[t].conn # None
        PROVE  /\ wire'[sl[t].conn] = wire[sl[t].conn] /\ req'[sl[t].conn] = req[sl[t].conn]
               /\ sl'[s].conn # sl[t].conn
    <2>1. sl[t].conn \in Conns /\ sl[t].conn # c
      BY <1>1, <1>5, <1>6
    <2> QED
      BY <1>3, <1>4, <1>6, <2>1
  <1>7. LET x == sl'[s].conn
        IN IF x = None THEN Knows(m, past, sl'[s])
           ELSE SlaveOK(m, past, sl'[s], wire'[x], client[x], req'[x])
    <2>1. CASE slave.conn = None
      BY <1>3, <2>1
    <2>2. CASE slave.conn # None
      <3>1. slave.conn = c /\ SlaveOK(m, past, slave, v, client[c], req[c])
        BY <1>3, <2>2 DEF c
      <3> QED
        BY <1>3, <1>4, <2>2, <3>1
    <2> QED
      BY <2>1, <2>2
  <1>8. req' \in [Conns -> {None} \cup Requests]
        /\ \A d \in Conns : client[d] # None => req'[d] = None
    BY <1>1
  <1> QED
    BY <1>3, <1>4, <1>6, <1>7, <1>8, OneMoves

\* What holds of a sound dataset is claimed of fewer.
LEMMA LessSound ==
    ASSUME NEW M, NEW pa, NEW w, NEW k, NEW cl, NEW run, NEW off, NEW exact,
           NEW a, NEW b, b => a, NEW d, NEW db,
           Streams(M, pa, w, k, cl, run, off, exact, a, d, db)
    PROVE  Streams(M, pa, w, k, cl, run, off, exact, b, d, db)
  BY DEF Streams, Placed

\* The message a slave reads.
LEMMA Reads ==
    ASSUME SInv, NEW s \in Slaves, NEW repl_state, repl_state # "CONNECT", NEW type,
           Receive(s, repl_state, type)
    PROVE  LET c == sl[s].conn
               w == wire[c]
           IN /\ c \in Conns /\ sl[s].repl_state = repl_state /\ SlaveTyped(sl[s])
              /\ w \in Seq(Messages) /\ w # <<>> /\ Message(s) = w[1] /\ w[1].type = type
              /\ Len(w) \in Nat /\ Len(w) > 0 /\ Tail(w) \in Seq(Messages)
              /\ wire' = [wire EXCEPT ![c] = Tail(w)] /\ UNCHANGED <<m, client, req, past>>
              /\ SlaveOK(m, past, sl[s], w, client[c], req[c])
  <1> DEFINE c == sl[s].conn
             w == wire[c]
  <1>1. /\ sl[s].repl_state = repl_state /\ w # <<>> /\ Head(w).type = type
        /\ wire' = [wire EXCEPT ![c] = Tail(@)] /\ UNCHANGED <<m, client, req, past>>
    BY DEF Receive
  <1>2. /\ c \in Conns /\ SlaveTyped(sl[s]) /\ wire \in [Conns -> Seq(Messages)]
        /\ c # None => SlaveOK(m, past, sl[s], w, client[c], req[c])
    BY <1>1, SlaveFacts
  <1>3. c # None
    BY <1>2, PsyncAssumption
  <1>4. w \in Seq(Messages) /\ wire' = [wire EXCEPT ![c] = Tail(w)]
    BY <1>1, <1>2
  <1>5. Message(s) = Head(w)
    BY DEF Message
  <1> HIDE DEF w, c
  <1>6. Head(w) = w[1] /\ Tail(w) \in Seq(Messages) /\ Len(w) \in Nat /\ Len(w) > 0
    BY <1>1, <1>4, TailOf
  <1> QED
    BY <1>1, <1>2, <1>3, <1>4, <1>5, <1>6 DEF w, c

\* The slave reads that it may go on.
LEMMA ContinueStep ==
    ASSUME SInv, IInv', NEW s \in Slaves, ReadContinue(s)
    PROVE  SInv'
  <1> DEFINE c == sl[s].conn
             w == wire[c]
             old == sl[s]
             known == old.cached_master
             slave == [old EXCEPT !.repl_state = "CONNECTED", !.master = known,
                                  !.cached_master = None, !.sound = @ /\ known.exact]
  <1>1. /\ Receive(s, "PSYNC", "CONTINUE")
        /\ sl' = [sl EXCEPT ![s] = slave]
    <2>1. sl = [t \in Slaves |-> sl[t]]
      BY SlaveFacts
    <2> QED
      BY <2>1 DEF ReadContinue
  <1>2. /\ c \in Conns /\ old.repl_state = "PSYNC" /\ SlaveTyped(old)
        /\ w \in Seq(Messages) /\ w # <<>> /\ w[1].type = "CONTINUE"
        /\ Len(w) \in Nat /\ Len(w) > 0 /\ Tail(w) \in Seq(Messages)
        /\ wire' = [wire EXCEPT ![c] = Tail(w)] /\ UNCHANGED <<m, client, req, past>>
        /\ SlaveOK(m, past, old, w, client[c], req[c])
    BY <1>1, Reads
  <1> HIDE DEF c, w, old
  <1>3. Answered(m, past, old, w, client[c], req[c])
    BY <1>2 DEF SlaveOK
  <1>4. \A x \in FullResyncs : x.type # "CONTINUE"
    BY DEF FullResyncs
  <1>5. /\ req[c] = None /\ known # None
        /\ Streams(m, past, w, 1, client[c], known.replrunid, known.reploff, known.exact,
                   Sound(old) /\ known.exact, old.data, known.db)
    BY <1>2, <1>3, <1>4 DEF Answered
  <1>6. Streams(m, past, Tail(w), 0, client[c], known.replrunid, known.reploff, known.exact,
                Sound(old) /\ known.exact, old.data, known.db)
    <2> DEFINE k == 0
               sound == Sound(old) /\ known.exact
    <2>1. k \in Nat /\ k + 1 <= Len(w) /\ k + 1 = 1
      BY <1>2
    <2>2. Streams(m, past, w, k + 1, client[c], known.replrunid, known.reploff, known.exact,
                  sound, old.data, known.db)
      BY <1>5, <2>1
    <2> HIDE DEF k, sound
    <2>3. Streams(m, past, Tail(w), k, client[c], known.replrunid, known.reploff, known.exact,
                  sound, old.data, known.db)
      BY <1>2, <2>1, <2>2, TailStreams
    <2> QED
      BY <2>3 DEF k, sound
  <1>7. /\ slave.repl_state = "CONNECTED" /\ slave.conn = c /\ slave.master = known
        /\ slave.cached_master = None /\ slave.data = old.data
        /\ slave.sound = (old.sound /\ known.exact)
    BY <1>2 DEF SlaveTyped, c, old
  <1>8. SlaveTyped(slave)
    <2>1. known \in MasterClients
      BY <1>2, <1>5 DEF SlaveTyped
    <2>2. known.exact \in BOOLEAN
      BY <2>1 DEF MasterClients
    <2> QED
      BY <1>2, <1>5, <2>1, <2>2 DEF SlaveTyped
  <1> HIDE DEF slave
  <1>9. Streams(m, past, Tail(w), 0, client[c], slave.master.replrunid, slave.master.reploff,
                slave.master.exact, Sound(slave), slave.data, slave.master.db)
    <2> DEFINE a == Sound(old) /\ known.exact
               b == Sound(slave)
    <2>1. b => a
      BY <1>7 DEF Sound
    <2> HIDE DEF b
    <2>2. Streams(m, past, Tail(w), 0, client[c], known.replrunid, known.reploff, known.exact,
                  b, old.data, known.db)
      BY <1>6, <2>1, LessSound
    <2> QED
      BY <1>7, <2>2 DEF b
  <1>10. SlaveOK(m, past, slave, Tail(w), client[c], req[c])
    BY <1>5, <1>7, <1>9 DEF SlaveOK, Knows
  <1>11. c # None
    BY <1>2, PsyncAssumption
  <1> QED
    BY <1>1, <1>2, <1>7, <1>8, <1>10, <1>11, Received DEF c, old

\* The slave reads that it will get a copy.
LEMMA FullResyncStep ==
    ASSUME SInv, IInv', NEW s \in Slaves, ReadFullResync(s)
    PROVE  SInv'
  <1> DEFINE c == sl[s].conn
             w == wire[c]
             old == sl[s]
             told == w[1]
             slave == [old EXCEPT !.repl_state = "TRANSFER", !.cached_master = None,
                                  !.initial = told]
  <1>1. Receive(s, "PSYNC", "FULLRESYNC")
    BY DEF ReadFullResync
  <1>2. /\ c \in Conns /\ old.repl_state = "PSYNC" /\ SlaveTyped(old) /\ Message(s) = told
        /\ w \in Seq(Messages) /\ w # <<>> /\ told.type = "FULLRESYNC"
        /\ Len(w) \in Nat /\ Len(w) > 0 /\ Tail(w) \in Seq(Messages)
        /\ wire' = [wire EXCEPT ![c] = Tail(w)] /\ UNCHANGED <<m, client, req, past>>
        /\ SlaveOK(m, past, old, w, client[c], req[c])
    BY <1>1, Reads
  <1>3. sl' = [sl EXCEPT ![s] = slave]
    <2>1. sl = [t \in Slaves |-> sl[t]]
      BY SlaveFacts
    <2> QED
      BY <1>2, <2>1 DEF ReadFullResync
  <1> HIDE DEF c, w, old
  <1>4. Answered(m, past, old, w, client[c], req[c])
    BY <1>2 DEF SlaveOK
  <1>5. /\ slave.repl_state = "TRANSFER" /\ slave.conn = c /\ slave.cached_master = None
        /\ slave.initial = told
    BY <1>2 DEF SlaveTyped, c, old
  <1>6. req[c] = None /\ told \in FullResyncs
    BY <1>2, <1>4 DEF Answered
  <1>7. SlaveTyped(slave)
    BY <1>2, <1>6 DEF SlaveTyped
  <1>8. \/ Tail(w) = <<>> /\ Waits(m, client[c], told.runid, told.offset, told.exact)
        \/ /\ Len(Tail(w)) > 0 /\ Tail(w)[1].type = "RDB" /\ Tail(w)[1].data \in Datasets
           /\ Streams(m, past, Tail(w), 1, client[c], told.runid, told.offset, told.exact,
                      Forks, Tail(w)[1].data, 0)
    <2>1. Len(Tail(w)) = Len(w) - 1 /\ \A p \in 1 .. Len(w) - 1 : Tail(w)[p] = w[p + 1]
      BY <1>2, TailOf
    <2>2. CASE Len(w) = 1 /\ Waits(m, client[c], told.runid, told.offset, told.exact)
      <3>1. Tail(w) = <<>>
        <4> DEFINE v == Tail(w)
        <4>1. v \in Seq(Messages) /\ Len(v) = 0
          BY <1>2, <2>1, <2>2
        <4> HIDE DEF v
        <4>2. v = <<>>
          BY <4>1
        <4> QED
          BY <4>2 DEF v
      <3> QED
        BY <2>2, <3>1
    <2>3. CASE /\ Len(w) > 1 /\ w[2].type = "RDB" /\ w[2].data \in Datasets
               /\ Streams(m, past, w, 2, client[c], told.runid, told.offset, told.exact,
                          Forks, w[2].data, 0)
      <3>1. Tail(w)[1] = w[2] /\ Len(Tail(w)) > 0
        BY <1>2, <2>1, <2>3
      <3> DEFINE k == 1
                 d == w[2].data
                 db == 0
      <3>2. k \in Nat /\ k + 1 <= Len(w) /\ k + 1 = 2
        BY <1>2, <2>3
      <3>3. Streams(m, past, w, k + 1, client[c], told.runid, told.offset, told.exact, Forks, d, db)
        BY <2>3, <3>2
      <3> HIDE DEF k, d, db
      <3>4. Streams(m, past, Tail(w), k, client[c], told.runid, told.offset, told.exact, Forks, d, db)
        BY <1>2, <3>2, <3>3, TailStreams
      <3>5. Streams(m, past, Tail(w), 1, client[c], told.runid, told.offset, told.exact, Forks,
                    w[2].data, 0)
        BY <3>4 DEF k, d, db
      <3> QED
        BY <2>3, <3>1, <3>5
    <2> QED
      BY <1>2, <1>4, <2>2, <2>3 DEF Answered
  <1> HIDE DEF slave, told
  <1>9. SlaveOK(m, past, slave, Tail(w), client[c], req[c])
    BY <1>5, <1>6, <1>8 DEF SlaveOK, Knows, Transferred
  <1>10. c # None
    BY <1>2, PsyncAssumption
  <1> QED
    BY <1>2, <1>3, <1>5, <1>7, <1>9, <1>10, Received DEF c, old

\* The slave has the copy.
LEMMA BulkPayloadStep ==
    ASSUME SInv, IInv', NEW s \in Slaves, readSyncBulkPayload(s)
    PROVE  SInv'
  <1> DEFINE c == sl[s].conn
             w == wire[c]
             old == sl[s]
             told == old.initial
             data == w[1].data
             master == [replrunid |-> told.runid, reploff |-> told.offset, exact |-> told.exact,
                        querybuf |-> <<>>, db |-> 0]
             slave == [old EXCEPT !.repl_state = "CONNECTED", !.data = data, !.sound = TRUE,
                                  !.initial = None, !.master = master]
  <1>1. Receive(s, "TRANSFER", "RDB")
    BY DEF readSyncBulkPayload
  <1>2. /\ c \in Conns /\ old.repl_state = "TRANSFER" /\ SlaveTyped(old) /\ Message(s) = w[1]
        /\ w \in Seq(Messages) /\ w # <<>> /\ w[1].type = "RDB"
        /\ Len(w) \in Nat /\ Len(w) > 0 /\ Tail(w) \in Seq(Messages)
        /\ wire' = [wire EXCEPT ![c] = Tail(w)] /\ UNCHANGED <<m, client, req, past>>
        /\ SlaveOK(m, past, old, w, client[c], req[c])
    BY <1>1, Reads
  <1>3. sl' = [sl EXCEPT ![s] = slave]
    <2>1. sl = [t \in Slaves |-> sl[t]]
      BY SlaveFacts
    <2> QED
      BY <1>2, <2>1 DEF readSyncBulkPayload
  <1> HIDE DEF c, w, old
  <1>4. Transferred(m, past, old, w, client[c], req[c])
    BY <1>2 DEF SlaveOK
  <1>5. /\ req[c] = None /\ told \in FullResyncs /\ data \in Datasets
        /\ Streams(m, past, w, 1, client[c], told.runid, told.offset, told.exact, Forks, data, 0)
    BY <1>2, <1>4 DEF Transferred
  <1>6. master \in MasterClients
    BY <1>5 DEF MasterClients, FullResyncs
  <1>7. master # None
    BY <1>6, PsyncAssumption
  <1> HIDE DEF data
  <1>8. /\ slave.repl_state = "CONNECTED" /\ slave.conn = c /\ slave.cached_master = None
        /\ slave.master.replrunid = told.runid /\ slave.master.reploff = told.offset
        /\ slave.master.exact = told.exact /\ slave.master.db = 0
        /\ slave.data = data /\ slave.sound = TRUE
    <2>1. old.cached_master = None
      BY <1>4 DEF Transferred
    <2> QED
      BY <1>2, <2>1 DEF SlaveTyped, c, old
  <1>9. SlaveTyped(slave)
    <2> HIDE DEF master
    <2>1. old.cached_master = None
      BY <1>4 DEF Transferred
    <2> QED
      BY <1>2, <1>5, <1>6, <1>7, <2>1 DEF SlaveTyped
  <1> HIDE DEF slave, told
  <1>10. Streams(m, past, Tail(w), 0, client[c], told.runid, told.offset, told.exact,
                 Sound(slave), data, 0)
    <2> DEFINE k == 0
               a == Forks
               b == Sound(slave)
    <2>1. k \in Nat /\ k + 1 <= Len(w) /\ k + 1 = 1
      BY <1>2
    <2>2. b => a
      BY DEF Sound
    <2>3. Streams(m, past, w, k + 1, client[c], told.runid, told.offset, told.exact, a, data, k)
      BY <1>5, <2>1
    <2> HIDE DEF k, a, b
    <2>4. Streams(m, past, Tail(w), k, client[c], told.runid, told.offset, told.exact, a, data, k)
      BY <1>2, <2>1, <2>3, TailStreams
    <2>5. Streams(m, past, Tail(w), k, client[c], told.runid, told.offset, told.exact, b, data, k)
      BY <2>2, <2>4, LessSound
    <2> QED
      BY <2>5 DEF k, b
  <1>11. SlaveOK(m, past, slave, Tail(w), client[c], req[c])
    BY <1>5, <1>8, <1>10 DEF SlaveOK, Knows
  <1>12. c # None
    BY <1>2, PsyncAssumption
  <1> QED
    BY <1>2, <1>3, <1>8, <1>9, <1>11, <1>12, Received DEF c, old

\* The slave reads a byte of the stream.
LEMMA QueryStep ==
    ASSUME SInv, IInv', NEW s \in Slaves, readQueryFromClient(s)
    PROVE  SInv'
  <1> DEFINE c == sl[s].conn
             w == wire[c]
             old == sl[s]
             cl == old.master
             b == w[1].byte
             d == DataRead(b, old.data, cl.db)
             db == DbRead(b, cl.db)
             slave == sl'[s]
  <1>1. Receive(s, "CONNECTED", "BYTE")
    BY DEF readQueryFromClient
  <1>2. /\ c \in Conns /\ old.repl_state = "CONNECTED" /\ SlaveTyped(old) /\ Message(s) = w[1]
        /\ w \in Seq(Messages) /\ w # <<>>
        /\ Len(w) \in Nat /\ Len(w) > 0 /\ Tail(w) \in Seq(Messages)
        /\ wire' = [wire EXCEPT ![c] = Tail(w)] /\ UNCHANGED <<m, client, req, past>>
        /\ SlaveOK(m, past, old, w, client[c], req[c])
    BY <1>1, Reads
  <1>3. sl = [t \in Slaves |-> sl[t]]
    BY SlaveFacts
  <1>4. /\ req[c] = None
        /\ Streams(m, past, w, 0, client[c], cl.replrunid, cl.reploff, cl.exact,
                   Sound(old), old.data, cl.db)
    BY <1>2 DEF SlaveOK
  <1>5. /\ cl \in MasterClients /\ old.data \in Datasets /\ cl.reploff \in Nat /\ cl.db \in Nat
        /\ old.cached_master = None
    BY <1>2 DEF SlaveTyped, MasterClients
  <1>6. /\ Streams(m, past, Tail(w), 0, client[c], cl.replrunid, cl.reploff + 1, cl.exact,
                   Sound(old), d, db)
        /\ b \in CmdBytes /\ d \in Datasets /\ db \in Nat
    <2>1. /\ MasterOK(m) /\ m.data \in Datasets /\ Numbered(m.data) /\ m.runid \in Nat \ {0}
          /\ \A r \in 1 .. m.runid - 1 : past[r] \in Datasets /\ Numbered(past[r])
      BY InvFacts DEF SInv, RunsOK
    <2> DEFINE run == cl.replrunid
               off == cl.reploff
               exact == cl.exact
               sound == Sound(old)
               data == old.data
               dbid == cl.db
               k == client[c]
    <2>2. /\ Streams(m, past, w, 0, k, run, off, exact, sound, data, dbid)
          /\ off \in Nat /\ data \in Datasets /\ dbid \in Nat /\ w \in Seq(Messages) /\ w # <<>>
      BY <1>2, <1>4, <1>5
    <2>3. b = w[1].byte
      OBVIOUS
    <2> HIDE DEF c, w, old, cl, b, run, off, exact, sound, data, dbid, k
    <2>4. /\ Streams(m, past, Tail(w), 0, k, run, off + 1, exact, sound,
                     DataRead(b, data, dbid), DbRead(b, dbid))
          /\ b \in CmdBytes /\ DataRead(b, data, dbid) \in Datasets /\ DbRead(b, dbid) \in Nat
      BY <2>1, <2>2, <2>3, ReadStreams
    <2> QED
      BY <2>4 DEF run, off, exact, sound, data, dbid, k
  <1>7. \E querybuf \in Seq(AnyByte) :
           sl' = [sl EXCEPT ![s] = [old EXCEPT !.master = [cl EXCEPT !.reploff = cl.reploff + 1,
                                                                    !.db = db,
                                                                    !.querybuf = querybuf],
                                               !.data = d]]
    <2>1. b \in AnyByte /\ cl.querybuf \in Seq(AnyByte)
      BY <1>5, <1>6 DEF MasterClients, CmdBytes, AnyByte
    <2> DEFINE new == [cl EXCEPT !.reploff = @ + 1]
               moved(x, y, q) ==
                   [sl EXCEPT ![s] = [old EXCEPT !.master = [cl EXCEPT !.reploff = cl.reploff + 1,
                                                            !.db = x, !.querybuf = q],
                                                 !.data = y]]
    <2>2. /\ new.db = cl.db /\ new.querybuf = cl.querybuf
          /\ \A q : [new EXCEPT !.querybuf = q] =
                       [cl EXCEPT !.reploff = cl.reploff + 1, !.db = cl.db, !.querybuf = q]
          /\ \A x : [new EXCEPT !.db = x] =
                       [cl EXCEPT !.reploff = cl.reploff + 1, !.db = x, !.querybuf = cl.querybuf]
      BY <1>5 DEF MasterClients
    <2>3. \A x, y : [old EXCEPT !.master = x, !.data = old.data] = [old EXCEPT !.master = x]
      BY <1>2 DEF SlaveTyped
    <2>4. CASE b[1] = "SELECT" /\ sl' = [sl EXCEPT ![s].master = [new EXCEPT !.db = b[2]]]
      <3>1. d = old.data /\ db = b[2]
        BY <2>4 DEF DataRead, DbRead
      <3>2. sl' = [sl EXCEPT ![s] = [old EXCEPT !.master = [new EXCEPT !.db = b[2]]]]
        BY <1>3, <2>4
      <3> HIDE DEF old, cl, new, b, d, db
      <3>3. sl' = moved(db, d, cl.querybuf)
        BY <2>2, <2>3, <3>1, <3>2
      <3> QED
        BY <2>1, <3>3
    <2>5. CASE b[1] = "FIRST" /\ sl' = [sl EXCEPT ![s].master = [new EXCEPT !.querybuf = <<b>>]]
      <3>1. d = old.data /\ db = cl.db
        BY <2>5 DEF DataRead, DbRead
      <3>2. sl' = [sl EXCEPT ![s] = [old EXCEPT !.master = [new EXCEPT !.querybuf = <<b>>]]]
        BY <1>3, <2>5
      <3>3. <<b>> \in Seq(AnyByte)
        BY <2>1
      <3> HIDE DEF old, cl, new, b, d, db
      <3>4. sl' = moved(db, d, <<b>>)
        BY <2>2, <2>3, <3>1, <3>2
      <3> QED
        BY <3>3, <3>4
    <2>6. CASE /\ b[1] = "REST"
               /\ sl' = [sl EXCEPT ![s].master = [new EXCEPT !.querybuf = <<>>],
                                   ![s].data = Append(@, <<new.db, b[2]>>)]
      <3>1. d = Append(old.data, <<cl.db, b[2]>>) /\ db = cl.db
        BY <2>6 DEF DataRead, DbRead
      <3>2. sl' = [sl EXCEPT ![s] = [old EXCEPT !.master = [new EXCEPT !.querybuf = <<>>],
                                                !.data = Append(old.data, <<new.db, b[2]>>)]]
        <4> DEFINE x == [new EXCEPT !.querybuf = <<>>]
                   e == <<new.db, b[2]>>
        <4>1. sl' = [sl EXCEPT ![s].master = x, ![s].data = Append(@, e)]
          BY <2>6
        <4> HIDE DEF x, e, b, new
        <4>2. [old EXCEPT !.master = x].data = old.data
          BY <1>2 DEF SlaveTyped
        <4>3. sl' = [sl EXCEPT ![s] = [old EXCEPT !.master = x, !.data = Append(old.data, e)]]
          BY <1>3, <4>1, <4>2
        <4> QED
          BY <4>3 DEF x, e
      <3>3. <<>> \in Seq(AnyByte)
        OBVIOUS
      <3> HIDE DEF old, cl, new, b, d, db
      <3>4. sl' = moved(db, d, <<>>)
        BY <2>2, <2>3, <3>1, <3>2
      <3> QED
        BY <3>3, <3>4
    <2> QED
      BY <1>2, <2>4, <2>5, <2>6 DEF readQueryFromClient
  <1>8. PICK querybuf \in Seq(AnyByte) :
           sl' = [sl EXCEPT ![s] = [old EXCEPT !.master = [cl EXCEPT !.reploff = cl.reploff + 1,
                                                                    !.db = db,
                                                                    !.querybuf = querybuf],
                                               !.data = d]]
    BY <1>7
  <1> DEFINE master == [cl EXCEPT !.reploff = cl.reploff + 1, !.db = db, !.querybuf = querybuf]
             next == [old EXCEPT !.master = master, !.data = d]
  <1>9. sl' = [sl EXCEPT ![s] = next]
    BY <1>8
  <1> HIDE DEF c, w, old, b, d, db
  <1>10. /\ master \in MasterClients /\ master.replrunid = cl.replrunid
         /\ master.reploff = cl.reploff + 1 /\ master.exact = cl.exact /\ master.db = db
    <2> DEFINE off == cl.reploff + 1
    <2>1. /\ cl \in MasterClients /\ off \in Nat /\ db \in Nat /\ querybuf \in Seq(AnyByte)
          /\ master = [cl EXCEPT !.reploff = off, !.db = db, !.querybuf = querybuf]
      BY <1>5, <1>6
    <2> HIDE DEF cl, off, master
    <2>2. /\ master.replrunid = cl.replrunid /\ master.reploff = off
          /\ master.exact = cl.exact /\ master.db = db /\ master.querybuf = querybuf
      BY <2>1 DEF MasterClients
    <2>3. master \in MasterClients
      BY <2>1 DEF MasterClients
    <2> QED
      BY <2>2, <2>3 DEF off
  <1>11. master # None
    BY <1>10, PsyncAssumption
  <1> HIDE DEF master
  <1>12. /\ next.repl_state = "CONNECTED" /\ next.conn = c /\ next.cached_master = None
         /\ next.master = master /\ next.data = d /\ next.sound = old.sound
    BY <1>2, <1>5 DEF SlaveTyped, c, old
  <1>13. SlaveTyped(next)
    BY <1>2, <1>5, <1>6, <1>10, <1>11 DEF SlaveTyped
  <1> HIDE DEF next
  <1>14. Streams(m, past, Tail(w), 0, client[c], next.master.replrunid, next.master.reploff,
                 next.master.exact, Sound(next), next.data, next.master.db)
    <2> DEFINE x == Sound(old)
               y == Sound(next)
    <2>1. y => x
      BY <1>12 DEF Sound
    <2> HIDE DEF y
    <2>2. Streams(m, past, Tail(w), 0, client[c], cl.replrunid, cl.reploff + 1, cl.exact, y, d, db)
      BY <1>6, <2>1, LessSound
    <2> QED
      BY <1>10, <1>12, <2>2 DEF y
  <1>15. SlaveOK(m, past, next, Tail(w), client[c], req[c])
    BY <1>4, <1>12, <1>14 DEF SlaveOK, Knows
  <1>16. c # None
    BY <1>2, PsyncAssumption
  <1> QED
    BY <1>2, <1>9, <1>12, <1>13, <1>15, <1>16, Received DEF c, old

\* The slave loses its connection.
LEMMA LoseStep ==
    ASSUME SInv, IInv', NEW s \in Slaves, LoseMaster(s)
    PROVE  SInv'
  <1> DEFINE c == sl[s].conn
             w == wire[c]
             old == sl[s]
             slave == [old EXCEPT !.repl_state = "CONNECT", !.conn = None, !.initial = None,
                                  !.cached_master = old.master, !.master = None]
  <1>1. /\ old.repl_state # "CONNECT" /\ wire' = [wire EXCEPT ![c] = <<>>]
        /\ UNCHANGED <<m, client, req, past>>
    BY DEF LoseMaster
  <1>2. /\ SlaveTyped(old) /\ c \in Conns /\ sl = [t \in Slaves |-> sl[t]]
        /\ c # None => SlaveOK(m, past, old, w, client[c], req[c])
    BY <1>1, SlaveFacts
  <1>3. c # None
    BY <1>2, PsyncAssumption
  <1>4. sl' = [sl EXCEPT ![s] = slave]
    BY <1>2 DEF LoseMaster
  <1> HIDE DEF c, w, old
  <1>5. /\ slave.conn = None /\ slave.cached_master = old.master
        /\ slave.data = old.data /\ slave.sound = old.sound
    BY <1>2 DEF SlaveTyped
  <1>6. SlaveTyped(slave)
    BY <1>2, PsyncAssumption DEF SlaveTyped
  <1> HIDE DEF slave
  <1>7. Knows(m, past, slave)
    <2>1. CASE old.repl_state # "CONNECTED"
      <3>1. slave.cached_master = None
        BY <1>2, <1>5, <2>1 DEF SlaveTyped
      <3> QED
        BY <3>1 DEF Knows
    <2>2. CASE old.repl_state = "CONNECTED"
      <3> DEFINE known == old.master
                 a == Sound(old)
      <3>1. Streams(m, past, w, 0, client[c], known.replrunid, known.reploff, known.exact,
                    a, old.data, known.db)
        BY <1>2, <1>3, <2>2 DEF SlaveOK
      <3> HIDE DEF known
      <3>2. /\ known.replrunid \in 1 .. m.runid
            /\ a => IsPrefixOf(old.data, DataIn(m, past, known.replrunid))
            /\ known.replrunid = m.runid /\ known.exact =>
                  Placed(m, known.reploff, a, old.data, known.db)
        BY <3>1 DEF Streams, Leads
      <3>3. slave.cached_master = known /\ Sound(slave) => a
        BY <1>5 DEF Sound, known
      <3>4. known.replrunid = m.runid /\ known.exact =>
                  Placed(m, known.reploff, Sound(slave), old.data, known.db)
        BY <1>5, <3>2 DEF Placed, Sound
      <3> QED
        BY <1>5, <3>2, <3>3, <3>4 DEF Knows, known, Sound
    <2> QED
      BY <2>1, <2>2
  <1>8. <<>> \in Seq(Messages)
    OBVIOUS
  <1> QED
    BY <1>1, <1>4, <1>5, <1>6, <1>7, <1>8, Received DEF c, old

\* The slave restarts.
LEMMA SlaveRestartStep ==
    ASSUME SInv, IInv', NEW s \in Slaves, SlaveRestart(s)
    PROVE  SInv'
  <1> DEFINE old == sl[s]
             slave == [old EXCEPT !.cached_master = None]
  <1>1. /\ SlaveTyped(old) /\ sl = [t \in Slaves |-> sl[t]] /\ wire \in [Conns -> Seq(Messages)]
        /\ req \in [Conns -> {None} \cup Requests]
        /\ \A t \in Slaves \ {s} : sl[t].conn # None => sl[t].conn # sl[s].conn
        /\ \A c \in Conns : client[c] # None => req[c] = None
    BY SlaveFacts
  <1>2. /\ sl' = [sl EXCEPT ![s] = slave] /\ UNCHANGED <<m, client, req, wire, past>>
        /\ old.repl_state = "CONNECT"
    BY <1>1 DEF SlaveRestart
  <1>3. old.conn = None
    BY <1>1, <1>2 DEF SlaveTyped
  <1> HIDE DEF old
  <1>4. SlaveTyped(slave) /\ slave.conn = None /\ slave.cached_master = None
    BY <1>1, <1>3 DEF SlaveTyped
  <1> HIDE DEF slave
  <1>5. sl'[s] = slave /\ sl' = [t \in Slaves |-> IF t = s THEN sl'[s] ELSE sl[t]]
    BY <1>1, <1>2
  <1>6. Knows(m, past, slave)
    BY <1>4 DEF Knows
  <1>7. \A t \in Slaves \ {s} : LET c == sl[t].conn
                                IN c # None => /\ wire'[c] = wire[c] /\ req'[c] = req[c]
                                               /\ sl'[s].conn # c
    BY <1>2, <1>4, <1>5
  <1>8. LET c == sl'[s].conn
        IN IF c = None THEN Knows(m, past, sl'[s])
           ELSE SlaveOK(m, past, sl'[s], wire'[c], client[c], req'[c])
    BY <1>4, <1>5, <1>6
  <1>9. /\ wire' \in [Conns -> Seq(Messages)] /\ req' \in [Conns -> {None} \cup Requests]
        /\ \A c \in Conns : client[c] # None => req'[c] = None
    BY <1>1, <1>2
  <1> QED
    BY <1>2, <1>4, <1>5, <1>7, <1>8, <1>9, OneMoves

\* The slave connects and asks.
LEMMA ConnectStep ==
    ASSUME SInv, IInv', NEW s \in Slaves, NEW c \in Conns, connectWithMaster(s, c)
    PROVE  SInv'
  <1> DEFINE old == sl[s]
             known == old.cached_master
             asked == IF known = None THEN [runid |-> 0, offset |-> -1]
                      ELSE [runid |-> known.replrunid, offset |-> known.reploff + 1]
             slave == [old EXCEPT !.repl_state = "PSYNC", !.conn = c]
  <1>1. /\ SlaveTyped(old) /\ sl = [t \in Slaves |-> sl[t]] /\ wire \in [Conns -> Seq(Messages)]
        /\ req \in [Conns -> {None} \cup Requests]
        /\ \A d \in Conns : client[d] # None => req[d] = None
        /\ old.conn = None => Knows(m, past, old)
    BY SlaveFacts
  <1>2. /\ old.repl_state = "CONNECT" /\ client[c] = None /\ req[c] = None
        /\ \A t \in Slaves : sl[t].conn # c
        /\ req' = [req EXCEPT ![c] = asked] /\ wire' = [wire EXCEPT ![c] = <<>>]
        /\ UNCHANGED <<m, client, past>>
    BY DEF connectWithMaster, Read
  <1>3. sl' = [sl EXCEPT ![s] = slave]
    BY <1>1 DEF connectWithMaster
  <1>4. old.conn = None /\ known \in {None} \cup MasterClients
    BY <1>1, <1>2 DEF SlaveTyped
  <1>5. c # None
    BY PsyncAssumption
  <1>6. asked \in Requests
    BY <1>4 DEF Requests, MasterClients
  <1>7. Knows(m, past, old)
    BY <1>1, <1>4
  <1> HIDE DEF old
  <1>8. /\ SlaveTyped(slave) /\ slave.repl_state = "PSYNC" /\ slave.conn = c
        /\ slave.cached_master = known /\ slave.data = old.data /\ slave.sound = old.sound
    BY <1>1, <1>2, <1>4, <1>5 DEF SlaveTyped
  <1>9. asked = IF slave.cached_master = None THEN [runid |-> 0, offset |-> -1]
                ELSE [runid |-> slave.cached_master.replrunid,
                      offset |-> slave.cached_master.reploff + 1]
    BY <1>8
  <1> HIDE DEF slave, known, asked
  <1>10. Knows(m, past, slave)
    BY <1>7, <1>8 DEF Knows, known, Sound
  <1>11. SlaveOK(m, past, slave, <<>>, client[c], asked)
    <2>1. Answered(m, past, slave, <<>>, client[c], asked)
      BY <1>2, <1>9 DEF Answered
    <2> QED
      BY <1>8, <1>10, <2>1 DEF SlaveOK
  <1>12. /\ sl'[s] = slave /\ sl' = [t \in Slaves |-> IF t = s THEN sl'[s] ELSE sl[t]]
         /\ wire'[c] = <<>> /\ req'[c] = asked
    BY <1>1, <1>2, <1>3
  <1>13. /\ wire' \in [Conns -> Seq(Messages)] /\ req' \in [Conns -> {None} \cup Requests]
         /\ \A d \in Conns : client[d] # None => req'[d] = None
    BY <1>1, <1>2, <1>6
  <1>14. ASSUME NEW t \in Slaves \ {s}, sl[t].conn # None
         PROVE  /\ wire'[sl[t].conn] = wire[sl[t].conn] /\ req'[sl[t].conn] = req[sl[t].conn]
                /\ sl'[s].conn # sl[t].conn
    <2>1. sl[t].conn \in Conns /\ sl[t].conn # c
      BY <1>2, <1>14, SlaveFacts
    <2> QED
      BY <1>1, <1>2, <1>8, <1>12, <2>1
  <1>15. LET x == sl'[s].conn
         IN IF x = None THEN Knows(m, past, sl'[s])
            ELSE SlaveOK(m, past, sl'[s], wire'[x], client[x], req'[x])
    BY <1>5, <1>8, <1>11, <1>12
  <1> QED
    BY <1>2, <1>8, <1>12, <1>13, <1>14, <1>15, OneMoves

----------------------------------------------------------------------------
(* The invariant holds, and what it says *)

\* The invariant holds at the start ...
LEMMA InitSInv == Init => SInv
  <1> SUFFICES ASSUME Init PROVE SInv
    OBVIOUS
  <1>1. BacklogExact /\ MasterOK(m)
    BY InitIInv DEF IInv
  <1>2. /\ m.runid = 1 /\ m.data = <<>> /\ m.last = 0 /\ m.rdb_child = None
        /\ m.slaveseldb = -1 /\ m.repl_backlog = None /\ past = <<>>
    BY DEF Init, Start
  <1>3. m.data \in Datasets /\ past \in Seq(Datasets) /\ Len(m.data) = 0 /\ Len(past) = 0
    BY <1>2 DEF Datasets
  <1>4. SlaveTyped(Unsynced) /\ Unsynced.conn = None /\ Unsynced.cached_master = None
    <2>1. <<>> \in Datasets
      BY DEF Datasets
    <2> QED
      BY <2>1 DEF SlaveTyped, Unsynced
  <1>5. TypeOK
    BY <1>1, <1>2, <1>3, <1>4 DEF Init, TypeOK
  <1>6. wire \in [Conns -> Seq(Messages)]
    BY DEF Init
  <1>7. RunsOK(m, past)
    BY <1>2, <1>3 DEF RunsOK, Numbered
  <1>8. ClientsOK /\ OneEach
    BY <1>4 DEF Init, ClientsOK, OneEach
  <1>9. SlavesOK
    BY <1>4 DEF Init, SlavesOK, Knows
  <1> QED
    BY <1>1, <1>5, <1>6, <1>7, <1>8, <1>9 DEF SInv

\* ... after every step of the master ...
LEMMA MasterSInv ==
    ASSUME SInv, IInv', Master
    PROVE  SInv'
  <1>1. ASSUME NEW db \in Dbs, replicationFeedSlaves(db) PROVE SInv'
    BY <1>1, FeedStep
  <1>2. ASSUME NEW c \in Conns, syncPartial(c) PROVE SInv'
    BY <1>2, PartialStep
  <1>3. ASSUME NEW c \in Conns, syncFork(c) \/ syncWait(c) \/ \E d \in Conns : syncAttach(c, d)
        PROVE  SInv'
    BY <1>3, NewSlaves
  <1>4. ASSUME NEW ok \in BOOLEAN, updateSlavesWaitingBgsave(ok) PROVE SInv'
    BY <1>4, ChildStep
  <1>5. ASSUME NEW c \in Conns, sendBulkToSlave(c) PROVE SInv'
    BY <1>5, BulkStep
  <1>6. CASE \/ rdbSaveBackground \/ \E c \in Conns : freeClient(c)
             \/ BacklogTimeout \/ \E size \in Sizes : ConfigBacklogSize(size)
    BY <1>6, QuietSteps
  <1>7. ASSUME NEW saved \in 0 .. Len(m.data), MasterRestart(saved) PROVE SInv'
    BY <1>7, RestartStep
  <1>8. ASSUME NEW c \in Conns, syncForkFails(c) PROVE SInv'
    BY <1>8, ForkFailsStep
  <1> QED
    BY <1>1, <1>2, <1>3, <1>4, <1>5, <1>6, <1>7, <1>8 DEF Master

\* ... and of a slave.
LEMMA SlaveSInv ==
    ASSUME SInv, IInv', NEW s \in Slaves, Slave(s)
    PROVE  SInv'
  <1>1. ASSUME NEW c \in Conns, connectWithMaster(s, c) PROVE SInv'
    BY <1>1, ConnectStep
  <1>2. CASE ReadContinue(s)
    BY <1>2, ContinueStep
  <1>3. CASE ReadFullResync(s)
    BY <1>3, FullResyncStep
  <1>4. CASE readSyncBulkPayload(s)
    BY <1>4, BulkPayloadStep
  <1>5. CASE readQueryFromClient(s)
    BY <1>5, QueryStep
  <1>6. CASE LoseMaster(s)
    BY <1>6, LoseStep
  <1>7. CASE SlaveRestart(s)
    BY <1>7, SlaveRestartStep
  <1> QED
    BY <1>1, <1>2, <1>3, <1>4, <1>5, <1>6, <1>7 DEF Slave

\* The invariant is inductive.
LEMMA InductiveSInv == SInv /\ [Next]_vars => SInv'
  <1> SUFFICES ASSUME SInv, [Next]_vars PROVE SInv'
    OBVIOUS
  <1>1. IInv'
    BY InductiveIInv, InvFacts
  <1>2. CASE Master
    BY <1>1, <1>2, MasterSInv
  <1>3. ASSUME NEW s \in Slaves, Slave(s) PROVE SInv'
    BY <1>1, <1>3, SlaveSInv
  <1>4. CASE UNCHANGED vars
    BY <1>4 DEF vars, SInv, BacklogExact, Attached, TypeOK, ClientsOK, OneEach, SlavesOK
  <1> QED
    BY <1>2, <1>3, <1>4 DEF Next

\* Connected slaves are in step by the invariant ...
LEMMA SInvInStep == SInv => InStep
  <1> SUFFICES ASSUME SInv, NEW s \in Slaves, sl[s].repl_state = "CONNECTED",
                      sl[s].master.exact, sl[s].master.replrunid = m.runid,
                      NEW i \in 1 .. Len(wire[sl[s].conn])
               PROVE  /\ sl[s].master.reploff + i <= m.master_repl_offset
                      /\ wire[sl[s].conn][i] = Byte(m.stream[sl[s].master.reploff + i])
    BY DEF InStep, SInv
  <1> DEFINE c == sl[s].conn
             w == wire[c]
             cl == sl[s].master
  <1>1. /\ SlaveTyped(sl[s]) /\ c \in Conns /\ wire \in [Conns -> Seq(Messages)]
        /\ c # None => SlaveOK(m, past, sl[s], w, client[c], req[c])
    BY SlaveFacts
  <1>2. c # None
    BY <1>1, PsyncAssumption
  <1>3. /\ OnlyBytes(w, 0) /\ PartOf(m, Payload(w, 0), cl.reploff, client[c] # None)
    BY <1>1, <1>2 DEF SlaveOK, Streams
  <1>4. w \in Seq(Messages) /\ cl.reploff \in Nat /\ m.master_repl_offset \in Nat
    BY <1>1, InvFacts DEF SlaveTyped, MasterClients, MasterOK
  <1> DEFINE P == Payload(w, 0)
  <1> HIDE DEF c, w, cl
  <1>5. Len(P) = Len(w) /\ \A j \in 1 .. Len(w) : P[j] = w[j].byte
    BY <1>3, <1>4, PayloadAll
  <1>6. w[i] = Byte(w[i].byte) /\ i \in 1 .. Len(w) /\ i \in 0 + 1 .. Len(w)
    BY <1>3 DEF OnlyBytes, w, c
  <1>7. /\ cl.reploff + Len(P) <= m.master_repl_offset
        /\ \A j \in 1 .. Len(P) : P[j] = m.stream[cl.reploff + j]
    BY <1>3 DEF PartOf
  <1>8. cl.reploff + i <= m.master_repl_offset /\ w[i] = Byte(m.stream[cl.reploff + i])
    <2> HIDE DEF P
    <2> QED
      BY <1>4, <1>5, <1>6, <1>7
  <1> QED
    BY <1>8 DEF c, w, cl

\* ... and sound slaves follow, if the copies can be told.
LEMMA SInvFollow ==
    ASSUME SInv, ~ForkFails
    PROVE  SoundSlavesFollow
  <1> SUFFICES ASSUME NEW s \in Slaves, sl[s].sound, Client(s) # None
               PROVE  IsPrefixOf(sl[s].data, DataOf(Client(s).replrunid))
    BY DEF SoundSlavesFollow, Follows
  <1>1. \A run : DataOf(run) = DataIn(m, past, run)
    BY DEF DataOf, DataIn
  <1>2. Sound(sl[s])
    BY DEF Sound, Forks
  <1>3. /\ SlaveTyped(sl[s]) /\ sl[s].conn \in {None} \cup Conns
        /\ IF sl[s].conn = None THEN Knows(m, past, sl[s])
           ELSE SlaveOK(m, past, sl[s], wire[sl[s].conn], client[sl[s].conn], req[sl[s].conn])
    BY SlaveFacts
  <1>4. CASE sl[s].master # None
    <2>1. sl[s].repl_state = "CONNECTED" /\ sl[s].conn # None /\ Client(s) = sl[s].master
      BY <1>3, <1>4 DEF SlaveTyped, Client
    <2>2. IsPrefixOf(sl[s].data, DataIn(m, past, sl[s].master.replrunid))
      BY <1>2, <1>3, <2>1 DEF SlaveOK, Streams, Leads
    <2> QED
      BY <1>1, <2>1, <2>2
  <1>5. CASE sl[s].master = None
    <2>1. Client(s) = sl[s].cached_master /\ sl[s].cached_master # None
      BY <1>5 DEF Client
    <2>2. Knows(m, past, sl[s])
      BY <1>3 DEF SlaveOK
    <2> QED
      BY <1>1, <1>2, <2>1, <2>2 DEF Knows
  <1> QED
    BY <1>4, <1>5

\* A connected slave that was told the offset of its copy has counted every
\* byte of the stream but those under way, and all is of its type: whatever was
\* lost, timed out, restarted, resized or freed in between.
THEOREM SlavesInStep == Spec => []InStep
  <1>1. Spec => []SInv
    BY InitSInv, InductiveSInv, PTL DEF Spec
  <1> QED
    BY <1>1, SInvInStep, PTL

\* If fork never fails for a slave whose turn has come, the dataset of a slave
\* is what its master had some time ago, unless the slave went on from an
\* offset that was not that of its copy.
THEOREM SoundFollow ==
    ASSUME ~ForkFails
    PROVE  Spec => []SoundSlavesFollow
  <1>1. SInv => SoundSlavesFollow
    BY SInvFollow
  <1>2. Spec => []SInv
    BY InitSInv, InductiveSInv, PTL DEF Spec
  <1> QED
    BY <1>1, <1>2, PTL
=============================================================================
