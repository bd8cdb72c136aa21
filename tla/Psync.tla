-------------------------------- MODULE Psync --------------------------------
(***************************************************************************)
(* Master-slave replication of redis 2.8 (replication.c, networking.c):    *)
(* the master feeds its slaves and its backlog with what it executes; a    *)
(* slave that lost its connection asks to go on from the offset it counted *)
(* to, and gets what is missing or a new copy of the dataset, which a      *)
(* child of the master writes while the stream goes on.  Either side may   *)
(* notice the loss of a connection late, so a slave may be there twice.    *)
(***************************************************************************)
EXTENDS Backlog, FiniteSets

CONSTANTS
    Slaves,
    Conns,         \* connections, each used again when both sides have left it
    Dbs,           \* databases commands are for
    Size,          \* repl-backlog-size as configured
    Sizes,         \* sizes it may be changed to, once in a run of the master
    MaxCmds,       \* bound: commands executed
    MaxRestarts,   \* bound: restarts of the master
    MaxOffset,     \* bound: the offset up to which a backlog is freed
    SaveFails,     \* may a child that writes the dataset fail
    ForkFails      \* may fork fail when a waiting slave's turn has come

AllSizes == {Size} \cup Sizes

Datasets == Seq(Nat \X Nat)      \* the commands that made it, with their numbers

Requests     == [runid : Nat, offset : Int]
SlaveClients == [replstate : {"WAIT_BGSAVE_START", "WAIT_BGSAVE_END", "SEND_BULK", "ONLINE"},
                 reply : Seq(AnyByte), rdb : {None} \cup Datasets]
MasterClients == [replrunid : Nat, reploff : Nat, exact : BOOLEAN,
                  querybuf : Seq(AnyByte), db : Nat]
FullResyncs  == [type : {"FULLRESYNC"}, runid : Nat, exact : BOOLEAN, offset : Nat]

\* None is NULL: no object of the program.
ASSUME PsyncAssumption ==
    /\ AllSizes \subseteq Nat \ {0}
    /\ {MaxCmds, MaxRestarts, MaxOffset} \subseteq Nat /\ Dbs \subseteq Nat
    /\ \A n \in AllSizes : None \notin [0 .. n - 1 -> AnyByte]
    /\ None \notin Slaves \cup Conns /\ {SaveFails, ForkFails} \subseteq BOOLEAN
    /\ None \notin Requests /\ None \notin SlaveClients
    /\ None \notin MasterClients /\ None \notin [rdb : Datasets]

VARIABLES
    m,             \* the master, see Start
    client,        \* the master's slaves: for a connection None or the state of the slave
    req,           \* the PSYNC on a connection that the master has not read yet, or None
    wire,          \* what the master wrote to a connection and the slave has not read
    sl,            \* the slaves, see Unsynced
    past           \* ghost: the dataset of each earlier run of the master

vars == <<m, client, req, wire, sl, past>>

----------------------------------------------------------------------------
\* A master that comes up with a dataset.
Start(runid, data, last) ==
    [runid |-> runid, data |-> data,
     last |-> last,                  \* ghost: the number of the last command
     master_repl_offset |-> 0, stream |-> <<>>,
     repl_backlog |-> None, repl_backlog_size |-> Size,
     histlen |-> 0, idx |-> 0, repl_backlog_off |-> 0,
     slaveseldb |-> -1,
     rdb_child |-> None]             \* None, or the dataset the child saves

\* A slave without a master: repl_state is CONNECT.
Unsynced ==
    [repl_state |-> "CONNECT", conn |-> None,
     master |-> None,                \* the client of the master ...
     cached_master |-> None,         \* ... or of the master it lost
     initial |-> None,               \* repl_master_runid, repl_master_initial_offset
     data |-> <<>>,
     sound |-> TRUE]                 \* ghost: never went on from an offset that is not exact

Init ==
    /\ m = Start(1, <<>>, 0)
    /\ client = [c \in Conns |-> None]
    /\ req = [c \in Conns |-> None]
    /\ wire = [c \in Conns |-> <<>>]
    /\ sl = [s \in Slaves |-> Unsynced]
    /\ past = <<>>

----------------------------------------------------------------------------
(* The stream: a command is two bytes, so that it can be read in parts *)

Select(db) == <<"SELECT", db>>
First(n)   == <<"FIRST", n>>
Rest(n)    == <<"REST", n>>

Byte(b)   == [type |-> "BYTE", byte |-> b]
Bytes(bs) == [i \in DOMAIN bs |-> Byte(bs[i])]

\* What goes to a connection its slave has left is lost.
Read(c) == \E s \in Slaves : sl[s].conn = c
Write(w, c, msgs) == IF Read(c) THEN w[c] \o msgs ELSE w[c]

----------------------------------------------------------------------------
(* The master *)

Attached == {c \in Conns : client[c] # None}

\* mutant: nothing for a slave that waits for the child to be forked.
FeedFor_later(c, select, command) ==
    IF client[c] = None \/ client[c].replstate = "WAIT_BGSAVE_START" THEN <<>>
    ELSE select \o command

\* What replicationFeedSlaves adds to the output buffer of a slave; one that
\* waits for the child to be forked gets the SELECT only.
FeedFor(c, select, command) ==
    IF client[c] = None THEN <<>>
    ELSE IF client[c].replstate = "WAIT_BGSAVE_START" THEN select
    ELSE select \o command

\* A write command, number n, of a client of the master.
replicationFeedSlaves(db) ==
    /\ m.last < MaxCmds
    /\ LET n       == m.last + 1
           select  == IF m.slaveseldb = db THEN <<>> ELSE <<Select(db)>>
           done    == [m EXCEPT !.data = Append(@, <<db, n>>), !.last = n]
           chosen  == IF m.slaveseldb = db THEN done
                      ELSE feedReplicationBacklog(done, Select(db))
           fed     == feedReplicationBacklog(feedReplicationBacklog(chosen, First(n)), Rest(n))
           new(c)  == FeedFor(c, select, <<First(n), Rest(n)>>)
       IN IF m.repl_backlog = None THEN m' = done /\ UNCHANGED <<client, wire>>
          ELSE /\ m' = [fed EXCEPT !.slaveseldb = db]
               /\ client' = [c \in Conns |->
                     IF client[c] = None \/ client[c].replstate = "ONLINE" THEN client[c]
                     ELSE [client[c] EXCEPT !.reply = @ \o new(c)]]
               /\ wire' = [c \in Conns |->
                     IF client[c] # None /\ client[c].replstate = "ONLINE"
                     THEN Write(wire, c, Bytes(new(c))) ELSE wire[c]]
    /\ UNCHANGED <<req, sl, past>>

\* masterTryPartialResynchronization says yes.
CanContinue(r) == r.runid = m.runid /\ Covers(m, r.offset)

syncPartial(c) ==
    /\ req[c] # None /\ CanContinue(req[c])
    /\ client' = [client EXCEPT ![c] = [replstate |-> "ONLINE", reply |-> <<>>, rdb |-> None]]
    /\ wire' = [wire EXCEPT ![c] = Write(wire, c,
           <<[type |-> "CONTINUE"]>> \o Bytes(addReplyReplicationBacklog(m, req[c].offset)))]
    /\ req' = [req EXCEPT ![c] = None]
    /\ UNCHANGED <<m, sl, past>>

\* mutant: the offset of now, though the backlog is yet to be made.
FullResync_now(exact) ==
    [type |-> "FULLRESYNC", runid |-> m.runid, exact |-> exact,
     offset |-> m.master_repl_offset]

\* ... or no: the slave is told the run and the offset of now, or the one the
\* backlog will begin with.  Whether that is the offset of the dataset the
\* slave will get, the ghost exact says.
FullResync(exact) ==
    [type |-> "FULLRESYNC", runid |-> m.runid, exact |-> exact,
     offset |-> IF m.repl_backlog = None THEN m.master_repl_offset + 1 ELSE m.master_repl_offset]

\* The rest of syncCommand for a slave that is to be in replstate: the master
\* and its slaves after it, msgs written.
AddSlave(c, master, replstate, reply, msgs) ==
    LET forced == [master EXCEPT !.slaveseldb = -1]
    IN /\ m' = IF Attached = {} /\ m.repl_backlog = None
               THEN createReplicationBacklog(forced) ELSE forced
       /\ client' = [client EXCEPT ![c] = [replstate |-> replstate, reply |-> reply, rdb |-> None]]
       /\ wire' = [wire EXCEPT ![c] = Write(wire, c, msgs)]
       /\ req' = [req EXCEPT ![c] = None]
       /\ UNCHANGED <<sl, past>>

AsksForCopy(c) == req[c] # None /\ ~CanContinue(req[c])

\* No child is there: one is forked.
syncFork(c) ==
    /\ AsksForCopy(c) /\ m.rdb_child = None
    /\ AddSlave(c, [m EXCEPT !.rdb_child = [rdb |-> m.data]], "WAIT_BGSAVE_END", <<>>,
                <<FullResync(TRUE)>>)

\* The fork fails, when the answer is written already: the error that comes
\* after it stands for LoseMaster of the slave in TRANSFER.  The connection is
\* no slave's, and no backlog is made.
syncForkFails(c) ==
    /\ AsksForCopy(c) /\ m.rdb_child = None
    /\ wire' = [wire EXCEPT ![c] = Write(wire, c, <<FullResync(FALSE)>>)]
    /\ req' = [req EXCEPT ![c] = None]
    /\ UNCHANGED <<m, client, sl, past>>

\* A child is there for another slave: what that one is to get is copied.
syncAttach(c, d) ==
    /\ AsksForCopy(c) /\ m.rdb_child # None
    /\ d \in Attached /\ client[d].replstate = "WAIT_BGSAVE_END"
    /\ AddSlave(c, m, "WAIT_BGSAVE_END", client[d].reply, <<FullResync(FALSE)>>)

\* A child is there, but nobody gathers what is executed meanwhile.
syncWait(c) ==
    /\ AsksForCopy(c) /\ m.rdb_child # None
    /\ \A d \in Attached : client[d].replstate # "WAIT_BGSAVE_END"
    /\ AddSlave(c, m, "WAIT_BGSAVE_START", <<>>, <<FullResync(FALSE)>>)

\* BGSAVE by a command or a save point.
rdbSaveBackground ==
    /\ m.rdb_child = None
    /\ m' = [m EXCEPT !.rdb_child = [rdb |-> m.data]]
    /\ UNCHANGED <<client, req, wire, sl, past>>

\* updateSlavesWaitingBgsave when the child has ended: who waited for it is sent
\* its file, or closed if it failed; who waited for the next is marked before
\* that is forked, and is not looked for again if it cannot be.
updateSlavesWaitingBgsave(ok) ==
    /\ m.rdb_child # None
    /\ ok \/ SaveFails
    /\ LET is(c, state) == client[c] # None /\ client[c].replstate = state
           next(c) ==
               IF is(c, "WAIT_BGSAVE_START") THEN [client[c] EXCEPT !.replstate = "WAIT_BGSAVE_END"]
               ELSE IF ~is(c, "WAIT_BGSAVE_END") THEN client[c]
               ELSE IF ok THEN [client[c] EXCEPT !.replstate = "SEND_BULK", !.rdb = m.rdb_child.rdb]
               ELSE None
           startbgsave == \E c \in Conns : is(c, "WAIT_BGSAVE_START")
       IN /\ client' = [c \in Conns |-> next(c)]
          /\ \E forked \in BOOLEAN :
                /\ forked => startbgsave
                /\ startbgsave /\ ~forked => ForkFails
                /\ m' = [m EXCEPT !.rdb_child = IF forked THEN [rdb |-> m.data] ELSE None]
    /\ UNCHANGED <<req, wire, sl, past>>

\* The whole file is sent; putSlaveOnline lets the output buffer go after it.
sendBulkToSlave(c) ==
    /\ client[c] # None /\ client[c].replstate = "SEND_BULK"
    /\ wire' = [wire EXCEPT ![c] = Write(wire, c,
           <<[type |-> "RDB", data |-> client[c].rdb]>> \o Bytes(client[c].reply))]
    /\ client' = [client EXCEPT ![c] = [replstate |-> "ONLINE", reply |-> <<>>, rdb |-> None]]
    /\ UNCHANGED <<m, req, sl, past>>

\* freeClient for a slave: a timeout, an error, a full output buffer.
freeClient(c) ==
    /\ client[c] # None \/ req[c] # None
    /\ client' = [client EXCEPT ![c] = None]
    /\ req' = [req EXCEPT ![c] = None]
    /\ UNCHANGED <<m, wire, sl, past>>

\* replicationCron when no slave was there for repl-backlog-ttl.
BacklogTimeout ==
    /\ Attached = {} /\ m.repl_backlog # None
    /\ m.master_repl_offset <= MaxOffset
    /\ m' = freeReplicationBacklog(m)
    /\ UNCHANGED <<client, req, wire, sl, past>>

ConfigBacklogSize(size) ==
    /\ m.repl_backlog_size = Size
    /\ m' = resizeReplicationBacklog(m, size)
    /\ UNCHANGED <<client, req, wire, sl, past>>

\* The master comes up again with another run id and what it had saved.
MasterRestart(saved) ==
    /\ m.runid <= MaxRestarts
    /\ m' = Start(m.runid + 1, SubSeq(m.data, 1, saved), m.last)
    /\ past' = Append(past, m.data)
    /\ client' = [c \in Conns |-> None]
    /\ req' = [c \in Conns |-> None]
    /\ UNCHANGED <<wire, sl>>

----------------------------------------------------------------------------
(* A slave *)

\* replicationCron, connectWithMaster and syncWithMaster, which sends a PSYNC
\* and waits for the answer.
connectWithMaster(s, c) ==
    /\ sl[s].repl_state = "CONNECT"
    /\ client[c] = None /\ req[c] = None /\ ~Read(c)
    /\ LET known == sl[s].cached_master
       IN req' = [req EXCEPT ![c] =
              IF known = None THEN [runid |-> 0, offset |-> -1]
              ELSE [runid |-> known.replrunid, offset |-> known.reploff + 1]]
    /\ sl' = [sl EXCEPT ![s].repl_state = "PSYNC", ![s].conn = c]
    /\ wire' = [wire EXCEPT ![c] = <<>>]
    /\ UNCHANGED <<m, client, past>>

\* The slave reads a message of some type in some state.
Receive(s, repl_state, type) ==
    /\ sl[s].repl_state = repl_state
    /\ wire[sl[s].conn] # <<>> /\ Head(wire[sl[s].conn]).type = type
    /\ wire' = [wire EXCEPT ![sl[s].conn] = Tail(@)]
    /\ UNCHANGED <<m, client, req, past>>

Message(s) == Head(wire[sl[s].conn])

\* slaveTryPartialResynchronization: the two answers.
ReadContinue(s) ==
    /\ Receive(s, "PSYNC", "CONTINUE")
    /\ sl' = [sl EXCEPT ![s].repl_state = "CONNECTED",
                        ![s].master = sl[s].cached_master, ![s].cached_master = None,
                        ![s].sound = @ /\ sl[s].cached_master.exact]

ReadFullResync(s) ==
    /\ Receive(s, "PSYNC", "FULLRESYNC")
    /\ sl' = [sl EXCEPT ![s].repl_state = "TRANSFER", ![s].cached_master = None,
                        ![s].initial = Message(s)]

\* readSyncBulkPayload has it all: the dataset is replaced.
readSyncBulkPayload(s) ==
    /\ Receive(s, "TRANSFER", "RDB")
    /\ sl' = [sl EXCEPT ![s].repl_state = "CONNECTED", ![s].data = Message(s).data,
                        ![s].sound = TRUE, ![s].initial = None,
                        ![s].master = [replrunid |-> sl[s].initial.runid,
                                       reploff |-> sl[s].initial.offset,
                                       exact |-> sl[s].initial.exact,
                                       querybuf |-> <<>>, db |-> 0]]

\* readQueryFromClient for the master's client: the byte is counted, and a
\* command executed when it is complete.
readQueryFromClient(s) ==
    /\ Receive(s, "CONNECTED", "BYTE")
    /\ LET b  == Message(s).byte
           cl == [sl[s].master EXCEPT !.reploff = @ + 1]
       IN \/ /\ b[1] = "SELECT"
             /\ sl' = [sl EXCEPT ![s].master = [cl EXCEPT !.db = b[2]]]
          \/ /\ b[1] = "FIRST"
             /\ sl' = [sl EXCEPT ![s].master = [cl EXCEPT !.querybuf = <<b>>]]
          \/ /\ b[1] = "REST"
             /\ sl' = [sl EXCEPT ![s].master = [cl EXCEPT !.querybuf = <<>>],
                                 ![s].data = Append(@, <<cl.db, b[2]>>)]

\* The connection is lost for the slave: in the middle of the handshake or of
\* the transfer it starts again without what it knew, later it keeps the
\* master's client (replicationCacheMaster).
LoseMaster(s) ==
    /\ sl[s].repl_state # "CONNECT"
    /\ sl' = [sl EXCEPT ![s].repl_state = "CONNECT", ![s].conn = None, ![s].initial = None,
                        ![s].cached_master = sl[s].master, ![s].master = None]
    /\ wire' = [wire EXCEPT ![sl[s].conn] = <<>>]
    /\ UNCHANGED <<m, client, req, past>>

\* The slave restarts, with the dataset it had.
SlaveRestart(s) ==
    /\ sl[s].repl_state = "CONNECT" /\ sl[s].cached_master # None
    /\ sl' = [sl EXCEPT ![s].cached_master = None]
    /\ UNCHANGED <<m, client, req, wire, past>>

----------------------------------------------------------------------------
Master ==
    \/ \E db \in Dbs : replicationFeedSlaves(db)
    \/ \E c \in Conns : syncPartial(c) \/ syncFork(c) \/ syncForkFails(c) \/ syncWait(c)
    \/ \E c, d \in Conns : syncAttach(c, d)
    \/ rdbSaveBackground
    \/ \E ok \in BOOLEAN : updateSlavesWaitingBgsave(ok)
    \/ \E c \in Conns : sendBulkToSlave(c) \/ freeClient(c)
    \/ BacklogTimeout
    \/ \E size \in Sizes : ConfigBacklogSize(size)
    \/ \E saved \in 0 .. Len(m.data) : MasterRestart(saved)

Slave(s) ==
    \/ \E c \in Conns : connectWithMaster(s, c)
    \/ ReadContinue(s) \/ ReadFullResync(s) \/ readSyncBulkPayload(s)
    \/ readQueryFromClient(s)
    \/ LoseMaster(s) \/ SlaveRestart(s)

Next == Master \/ \E s \in Slaves : Slave(s)

Spec == Init /\ [][Next]_vars

----------------------------------------------------------------------------
(* Properties *)

MasterFields ==
    {"runid", "data", "last", "master_repl_offset", "stream", "repl_backlog",
     "repl_backlog_size", "histlen", "idx", "repl_backlog_off", "slaveseldb", "rdb_child"}

MasterOK(master) ==
    /\ master = [f \in MasterFields |-> master[f]]
    /\ master.last \in Nat /\ master.master_repl_offset \in Nat
    /\ master.stream \in Seq(AnyByte) /\ Len(master.stream) = master.master_repl_offset
    /\ master.repl_backlog_size \in AllSizes
    /\ master.histlen \in 0 .. master.master_repl_offset
    /\ master.idx \in Nat
    /\ master.repl_backlog # None =>
          /\ master.repl_backlog \in [0 .. master.repl_backlog_size - 1 -> AnyByte]
          /\ master.idx < master.repl_backlog_size

SlaveTyped(slave) ==
    /\ slave \in [repl_state : {"CONNECT", "PSYNC", "TRANSFER", "CONNECTED"},
                  conn : {None} \cup Conns,
                  master : {None} \cup MasterClients,
                  cached_master : {None} \cup MasterClients,
                  initial : {None} \cup FullResyncs,
                  data : Datasets, sound : BOOLEAN]
    /\ (slave.conn = None) = (slave.repl_state = "CONNECT")
    /\ (slave.master # None) = (slave.repl_state = "CONNECTED")
    /\ slave.cached_master # None => slave.repl_state \in {"CONNECT", "PSYNC"}

\* The types; and a slave has the master's client exactly when it is connected,
\* or else may have the client of the master it lost.
TypeOK ==
    /\ MasterOK(m)
    /\ m.runid \in Nat \ {0} /\ m.data \in Datasets
    /\ m.rdb_child \in {None} \cup [rdb : Datasets]
    /\ client \in [Conns -> {None} \cup SlaveClients]
    /\ req \in [Conns -> {None} \cup Requests]
    /\ sl = [s \in Slaves |-> sl[s]] /\ \A s \in Slaves : SlaveTyped(sl[s])

\* The backlog is the end of the stream, whatever its size and however often
\* it went round, was resized or freed; and "we can't have slaves attached and
\* no backlog".
BacklogExact ==
    /\ Attached # {} => m.repl_backlog # None
    /\ Exact(m)

\* A slave that asks for what it missed gets that, byte for byte.
ContinueExact == RepliesExact(m)

\* A slave that is connected, and was told the offset its copy belongs to, has
\* counted every byte but those under way: what it reads next is what the
\* master's stream has at the offset it reads it for.  (The types come with it.)
InStep ==
    TypeOK /\ \A s \in Slaves :
        LET cl == sl[s].master
            w  == wire[sl[s].conn]
        IN sl[s].repl_state = "CONNECTED" /\ cl.exact /\ cl.replrunid = m.runid =>
              \A i \in 1 .. Len(w) :
                  /\ cl.reploff + i <= m.master_repl_offset
                  /\ w[i] = Byte(m.stream[cl.reploff + i])

\* The dataset of that run of the master which the slave's came from.
DataOf(runid) == IF runid = m.runid THEN m.data ELSE past[runid]
IsPrefixOf(d, e) == Len(d) <= Len(e) /\ d = SubSeq(e, 1, Len(d))

Client(s) == IF sl[s].master # None THEN sl[s].master ELSE sl[s].cached_master
Follows(s) == Client(s) # None => IsPrefixOf(sl[s].data, DataOf(Client(s).replrunid))

\* A slave's dataset is what the master had some time ago, whatever was lost or
\* taken up again, unless it went on from an offset that was not that of its copy.
SoundSlavesFollow == \A s \in Slaves : sl[s].sound => Follows(s)

\* "So the slave knows the new runid and offset to try a PSYNC later if the
\* connection with the master is lost": a partial resync is never wrong.
SlavesFollow == \A s \in Slaves : Follows(s)
==============================================================================
