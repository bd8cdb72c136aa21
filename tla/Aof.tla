--------------------------------- MODULE Aof ---------------------------------
(***************************************************************************)
(* The append only file of redis 2.8 (aof.c): commands go to aof_buf and,  *)
(* while a child rewrites the file, to the rewrite buffer as well; the     *)
(* buffer is written before each turn of the event loop; the child's file, *)
(* with the rewrite buffer behind it, replaces the old one; a restart      *)
(* replays what it finds.  The server is one thread: a step of the model   *)
(* is a step of its event loop, and processes may be killed between two.   *)
(***************************************************************************)
EXTENDS Naturals, Sequences

CONSTANTS
    Dbs,           \* databases
    MaxCmds,       \* bound: commands of the dataset
    MaxFile,       \* bound: the length of the file to which commands are added
    Policies,      \* the appendfsync settings to start with
    Transactions,  \* do clients use MULTI
    Pipelined,     \* do clients send a command before they have the last reply
    LoadTruncated, \* aof-load-truncated
    DiskFails,     \* may writes, ftruncate, fork, open and rename fail
    DirtyStop,     \* may the file be switched off with a buffer that was not written
    None

ASSUME AofAssumption ==
    /\ {MaxCmds, MaxFile} \subseteq Nat /\ None \notin Dbs
    /\ Policies \subseteq {"always", "everysec", "no"}
    /\ {Transactions, Pipelined, LoadTruncated, DiskFails, DirtyStop} \subseteq BOOLEAN

VARIABLES
    data,          \* the dataset: the commands it comes from, <<db, number>>
    aof,           \* the aof_ fields of the server
    disk,          \* external: the append only file
    child,         \* the rewrite child: None, or its temp file
    at,            \* place in the event loop; "renamed" in the middle of
                   \* backgroundRewriteDoneHandler, "down" without a server
    replies,       \* the client's: "none", "pending", or "writable" when they can be sent
    acked,         \* ghost: commands whose reply was sent
    aof_fsync      \* the setting, from Policies

vars == <<data, aof, disk, child, at, replies, acked, aof_fsync>>

----------------------------------------------------------------------------
(* The file: a record is written as a head and a tail, so that it can be torn *)

Select(db) == <<"SELECT", db>>
Cmd(n)     == <<"COMMAND", n>>
Multi      == <<"MULTI">>
Exec       == <<"EXEC">>
Dump(d)    == <<"DUMP", d>>      \* what rewriteAppendOnlyFile writes for d

Part(i) == IF i % 2 = 1 THEN "head" ELSE "tail"

Halves(recs) == [i \in 1 .. 2 * Len(recs) |-> [part |-> Part(i), rec |-> recs[(i + 1) \div 2]]]

\* The whole records, whether half of one is left, and whether it can be parsed.
Records(f)    == [i \in 1 .. Len(f) \div 2 |-> f[2 * i].rec]
Torn(f)       == Len(f) % 2 = 1
WellFormed(f) == \A i \in DOMAIN f : f[i].part = Part(i)

\* loadAppendOnlyFile runs one record in a fake client.  A command is run at
\* once, after a MULTI too: only processCommand would queue it.  A dump leaves
\* the client in some database: None says that no command may rely on it.
Replay1(c, rec) ==
    CASE rec[1] = "SELECT"  -> [c EXCEPT !.db = rec[2]]
      [] rec[1] = "DUMP"    -> [c EXCEPT !.data = rec[2], !.db = None]
      [] rec[1] = "MULTI"   -> [c EXCEPT !.multi = TRUE]
      [] rec[1] = "EXEC"    -> [c EXCEPT !.multi = FALSE]
      [] rec[1] = "COMMAND" -> [c EXCEPT !.data = Append(@, <<c.db, rec[2]>>)]

\* The fake client after some records.
After(recs) ==
    LET after[i \in 0 .. Len(recs)] ==
            IF i = 0 THEN [db |-> 0, multi |-> FALSE, data |-> <<>>]
                     ELSE Replay1(after[i - 1], recs[i])
    IN after[Len(recs)]

Replay(f) == After(Records(f))

Loaded(f) == Replay(f).data

----------------------------------------------------------------------------
NoBuffers ==
    [aof_state |-> "on", aof_selected_db |-> None, aof_buf |-> <<>>,
     rewrite_buf |-> <<>>, aof_fd |-> "open", aof_current_size |-> 0,
     aof_last_write_status |-> "ok", scheduled |-> FALSE,
     postponed |-> "no",   \* aof_flush_postponed_start: "yes", or "long" after two seconds
     sync_in_progress |-> FALSE]   \* bioPendingJobsOfType(REDIS_BIO_AOF_FSYNC) # 0

Init ==
    /\ data = <<>> /\ aof = NoBuffers
    /\ disk = <<>>
    /\ child = None
    /\ at = "top"
    /\ replies = "none"
    /\ acked = 0
    /\ aof_fsync \in Policies

----------------------------------------------------------------------------
(* feedAppendOnlyFile *)

\* mutant: the rewrite buffer is not fed once the file is complete.
feedAppendOnlyFile_once(a, db, recs) ==
    LET buf == Halves((IF db = a.aof_selected_db THEN <<>> ELSE <<Select(db)>>) \o recs)
    IN CASE a.aof_state = "off"  -> a
         [] a.aof_state = "on"   -> [a EXCEPT !.aof_selected_db = db, !.aof_buf = @ \o buf]
         [] a.aof_state = "wait" -> [a EXCEPT !.aof_selected_db = db,
                                       !.rewrite_buf = IF child # None THEN @ \o buf ELSE @]

\* SELECT first when the last one was for another database; to aof_buf when
\* the file is complete, to the rewrite buffer while there is a child.
feedAppendOnlyFile(a, db, recs) ==
    LET buf == Halves((IF db = a.aof_selected_db THEN <<>> ELSE <<Select(db)>>) \o recs)
    IN IF a.aof_state = "off" THEN a
       ELSE [a EXCEPT !.aof_selected_db = db,
                      !.aof_buf = IF a.aof_state = "on" THEN @ \o buf ELSE @,
                      !.rewrite_buf = IF child # None THEN @ \o buf ELSE @]

\* A client's command, or transaction of two, is executed.  Writes are refused
\* after a write error.
Execute(db, n) ==
    /\ at = "events"
    /\ Len(data) + n <= MaxCmds /\ Len(disk) + Len(aof.aof_buf) <= MaxFile
    /\ aof.aof_last_write_status = "ok"
    /\ Pipelined \/ replies = "none"
    /\ n = 2 => Transactions
    /\ LET cmds == [i \in 1 .. n |-> Cmd(Len(data) + i)]
       IN aof' = feedAppendOnlyFile(aof, db, IF n = 1 THEN cmds
                                             ELSE <<Multi>> \o cmds \o <<Exec>>)
    /\ data' = data \o [i \in 1 .. n |-> <<db, Len(data) + i>>]
    /\ replies' = IF replies = "writable" THEN replies ELSE "pending"
    /\ UNCHANGED <<disk, child, at, acked, aof_fsync>>

\* The reply is sent: to a client whose socket the last poll found writable.
\* What it executed after that poll, before this, is answered as well.
sendReplyToClient ==
    /\ at = "events" /\ replies = "writable"
    /\ acked' = Len(data)
    /\ replies' = "none"
    /\ UNCHANGED <<data, aof, disk, child, at, aof_fsync>>

----------------------------------------------------------------------------
(* flushAppendOnlyFile: the states it can leave the server and the disk in *)

\* After a complete write; with everysec an fsync is under way then, if a
\* second is over since the last.
Flushed(a, d) ==
    {[disk |-> d \o a.aof_buf,
      aof  |-> [a EXCEPT !.aof_buf = <<>>, !.aof_last_write_status = "ok",
                         !.aof_current_size = @ + Len(a.aof_buf), !.sync_in_progress = s]] :
        s \in IF aof_fsync = "everysec" THEN {a.sync_in_progress, TRUE} ELSE {FALSE}}

\* After a write that failed, n halves of the buffer in the file; ftruncate
\* takes them back or fails too.
NotFlushed(a, d, n, truncated) ==
    LET short == d \o SubSeq(a.aof_buf, 1, n)
        e     == [a EXCEPT !.aof_last_write_status = "err"]
    IN IF n > 0 /\ ~truncated
       THEN [aof |-> [e EXCEPT !.aof_current_size = @ + n,
                               !.aof_buf = SubSeq(@, n + 1, Len(@))],
             disk |-> short]
       ELSE [aof |-> e,
             disk |-> IF n > 0 THEN SubSeq(short, 1, a.aof_current_size) ELSE d]

\* mutant: the error is logged, as with the other settings.
ExitsOn_never(r) == FALSE

\* With "always" the server exits after an error.
ExitsOn(r) == aof_fsync = "always" /\ r.aof.aof_last_write_status = "err"

flushAppendOnlyFile(force) ==
    LET a == [aof EXCEPT !.postponed = "no"]
    IN IF aof.aof_buf = <<>> THEN {[aof |-> aof, disk |-> disk]}
       ELSE IF aof_fsync = "everysec" /\ ~force /\ aof.sync_in_progress /\ aof.postponed # "long"
       THEN {[aof |-> [aof EXCEPT !.postponed = "yes"], disk |-> disk]}
       ELSE IF aof.aof_fd # "open" THEN {NotFlushed(a, disk, 0, FALSE)}
       ELSE Flushed(a, disk) \cup
            IF DiskFails
            THEN {NotFlushed(a, disk, n, t) : n \in 0 .. Len(a.aof_buf) - 1, t \in BOOLEAN}
            ELSE {}

\* The server is gone, its memory with it.
Gone ==
    /\ at' = "down" /\ data' = <<>> /\ aof' = NoBuffers /\ child' = None
    /\ replies' = "none"

Flush(force, next) ==
    \E r \in flushAppendOnlyFile(force) :
        /\ disk' = r.disk
        /\ IF ExitsOn(r) THEN Gone
           ELSE aof' = r.aof /\ at' = next /\ UNCHANGED <<data, child, replies>>

beforeSleep ==
    /\ at = "top"
    /\ Flush(FALSE, "poll")
    /\ UNCHANGED <<acked, aof_fsync>>

\* aeApiPoll, and all handlers done: the client may be ready to take its replies.
Poll ==
    /\ at = "poll" /\ at' = "events"
    /\ replies' \in IF replies = "none" THEN {"none"} ELSE {"pending", "writable"}
    /\ UNCHANGED <<data, aof, disk, child, acked, aof_fsync>>

EventsDone ==
    /\ at = "events" /\ at' = "top"
    /\ replies' = IF replies = "none" THEN "none" ELSE "pending"
    /\ UNCHANGED <<data, aof, disk, child, acked, aof_fsync>>

\* serverCron retries a flush that was postponed or that failed.
CronFlush ==
    /\ at = "events"
    /\ aof.postponed # "no" \/ aof.aof_last_write_status = "err"
    /\ Flush(FALSE, at)
    /\ UNCHANGED <<acked, aof_fsync>>

----------------------------------------------------------------------------
(* The rewrite *)

\* The fork of rewriteAppendOnlyFileBackground: the child writes down the
\* dataset of now, and a SELECT will begin the differences.
Fork(a) ==
    /\ child = None
    /\ child' = [temp |-> IF data = <<>> THEN <<>> ELSE Halves(<<Dump(data)>>)]
    /\ aof' = [a EXCEPT !.scheduled = FALSE, !.aof_selected_db = None]

\* BGREWRITEAOF, the rewrite scheduled, or the growth of the file.
rewriteAppendOnlyFileBackground ==
    /\ at = "events"
    /\ Fork(aof)
    /\ UNCHANGED <<data, disk, at, replies, acked, aof_fsync>>

\* mutant: a rewrite that failed is not scheduled again.
Cleanup_unscheduled(a) ==
    /\ child' = None
    /\ aof' = [a EXCEPT !.rewrite_buf = <<>>]

\* "cleanup:" of backgroundRewriteDoneHandler; a rewrite the server waits for
\* is scheduled again.
Cleanup(a) ==
    /\ child' = None
    /\ aof' = [a EXCEPT !.rewrite_buf = <<>>,
                        !.scheduled = IF a.aof_state = "wait" THEN TRUE ELSE @]

\* backgroundRewriteDoneHandler when the child failed, or its file cannot be
\* opened, completed or renamed.
RewriteFailed ==
    /\ at = "events"
    /\ child # None /\ DiskFails
    /\ Cleanup(aof)
    /\ UNCHANGED <<data, disk, at, replies, acked, aof_fsync>>

\* mutant: renamed before the differences are written.
Rename_early ==
    /\ at = "events" /\ at' = "renamed"
    /\ child # None
    /\ disk' = child.temp
    /\ UNCHANGED <<data, aof, child, replies, acked, aof_fsync>>

\* When it succeeded the rewrite buffer is written behind its file, and that
\* renamed.
Rename ==
    /\ at = "events" /\ at' = "renamed"
    /\ child # None
    /\ disk' = child.temp \o aof.rewrite_buf
    /\ UNCHANGED <<data, aof, child, replies, acked, aof_fsync>>

\* ... and the rest of that handler: the server goes on with the new file,
\* unless it takes the append only file for closed.
RewriteDone ==
    /\ at = "renamed" /\ at' = "events"
    /\ LET switched == [aof EXCEPT !.aof_fd = "open", !.aof_selected_db = None,
                                   !.aof_current_size = Len(disk), !.aof_buf = <<>>,
                                   !.sync_in_progress = aof_fsync = "everysec"]
           a == IF aof.aof_fd = "none" THEN aof ELSE switched
       IN Cleanup([a EXCEPT !.aof_state = IF @ = "wait" THEN "on" ELSE @])
    /\ UNCHANGED <<data, disk, replies, acked, aof_fsync>>

----------------------------------------------------------------------------
(* CONFIG SET appendonly *)

stopAppendOnly ==
    /\ at = "events" /\ aof.aof_state # "off"
    /\ \E r \in flushAppendOnlyFile(TRUE) :
          /\ disk' = r.disk
          /\ IF ExitsOn(r) THEN Gone
             ELSE /\ DirtyStop \/ r.aof.aof_buf = <<>>
                  /\ aof' = [r.aof EXCEPT !.aof_fd = "none", !.aof_selected_db = None,
                                          !.aof_state = "off",
                                          !.rewrite_buf = IF child # None THEN <<>> ELSE @]
                  /\ child' = None
                  /\ UNCHANGED <<data, at, replies>>
    /\ UNCHANGED <<acked, aof_fsync>>

startAppendOnly ==
    /\ at = "events" /\ aof.aof_state = "off"
    /\ Fork([aof EXCEPT !.aof_fd = "open", !.aof_state = "wait"])
    /\ UNCHANGED <<data, disk, at, replies, acked, aof_fsync>>

\* open fails; or a child is there already, or fork fails, and the descriptor
\* is closed but still in aof_fd.
startFails ==
    /\ at = "events" /\ aof.aof_state = "off"
    /\ \E fd \in {"none", "closed"} :
          /\ DiskFails \/ (fd = "closed" /\ child # None)
          /\ aof' = [aof EXCEPT !.aof_fd = fd]
    /\ UNCHANGED <<data, disk, child, at, replies, acked, aof_fsync>>

----------------------------------------------------------------------------
(* The clock, the fsync thread, crashes *)

\* serverCron sees that two seconds are over.
Tick ==
    /\ at = "events" /\ aof.postponed = "yes"
    /\ aof' = [aof EXCEPT !.postponed = "long"]
    /\ UNCHANGED <<data, disk, child, at, replies, acked, aof_fsync>>

\* bio.c's thread is done with the fsync jobs.
bioFsync ==
    /\ aof.sync_in_progress
    /\ aof' = [aof EXCEPT !.sync_in_progress = FALSE]
    /\ UNCHANGED <<data, disk, child, at, replies, acked, aof_fsync>>

\* SHUTDOWN: prepareForShutdown, then exit: fsync, but no flush.
Shutdown ==
    /\ at = "events"
    /\ ~(aof.aof_state = "wait" /\ child # None)
    /\ Gone
    /\ UNCHANGED <<disk, acked, aof_fsync>>

\* The server is killed; what it wrote stays in the file.
Crash ==
    /\ at # "down"
    /\ Gone
    /\ UNCHANGED <<disk, acked, aof_fsync>>

\* A restart with appendonly yes: loadAppendOnlyFile.  At an unexpected end of
\* the file it gives up, or cuts the file after the last whole record; a file
\* that does not parse it refuses.
Restart ==
    /\ at = "down"
    /\ WellFormed(disk)
    /\ Torn(disk) \/ Replay(disk).multi => LoadTruncated
    /\ disk' = SubSeq(disk, 1, 2 * (Len(disk) \div 2))
    /\ aof' = [aof EXCEPT !.aof_current_size = Len(disk')]
    /\ data' = Loaded(disk)
    /\ acked' = IF acked > Len(data') THEN Len(data') ELSE acked
    /\ at' = "top"
    /\ UNCHANGED <<child, replies, aof_fsync>>

----------------------------------------------------------------------------
Server ==
    \/ beforeSleep \/ Poll \/ EventsDone \/ CronFlush \/ RewriteDone
    \/ Rename \/ RewriteFailed

Environment ==
    \/ \E db \in Dbs, n \in 1 .. 2 : Execute(db, n)
    \/ sendReplyToClient
    \/ rewriteAppendOnlyFileBackground
    \/ stopAppendOnly \/ startAppendOnly \/ startFails
    \/ Tick \/ bioFsync \/ Shutdown \/ Crash \/ Restart

Next == Server \/ Environment

Spec == Init /\ [][Next]_vars

\* The event loop goes round and serverCron with it; and of the forks, the
\* children and the renames not all fail.
Fairness ==
    /\ WF_vars(beforeSleep) /\ WF_vars(Poll) /\ WF_vars(EventsDone) /\ WF_vars(RewriteDone)
    /\ SF_vars(aof.scheduled /\ rewriteAppendOnlyFileBackground)
    /\ SF_vars(Rename)

FairSpec == Spec /\ Fairness

----------------------------------------------------------------------------
(* Properties *)

TypeOK ==
    /\ aof.aof_state \in {"on", "wait", "off"}
    /\ aof.aof_selected_db \in Dbs \cup {None}
    /\ aof.aof_fd \in {"none", "closed", "open"}
    /\ aof.postponed \in {"no", "yes", "long"} /\ replies \in {"none", "pending", "writable"}
    /\ at \in {"top", "poll", "events", "renamed", "down"}
    /\ acked \in 0 .. MaxCmds
    /\ aof.rewrite_buf # <<>> => child # None

\* With the file complete, what it holds and what is still to be written give
\* back the dataset, each command once, in order and in its database; and the
\* size ftruncate would cut the file to is the size of the file.  (The types
\* come with it.)
Recoverable ==
    /\ TypeOK
    /\ aof.aof_state = "on" /\ at \in {"top", "poll", "events"} =>
          /\ WellFormed(disk \o aof.aof_buf)
          /\ Loaded(disk \o aof.aof_buf) = data
          /\ aof.aof_current_size = Len(disk)

\* "We'll deliver the MULTI/..../EXEC block as a whole and both the AOF and the
\* replication link will have the same consistency and atomicity guarantees":
\* a server that runs has no half of a transaction.
WholeTransactions ==
    aof.aof_state = "on" /\ at \in {"top", "poll", "events"} =>
        LET recs == Records(disk \o aof.aof_buf)
            IsCommand(i) == i \in DOMAIN recs /\ recs[i][1] = "COMMAND"
        IN \A i \in DOMAIN recs : recs[i] = Multi /\ IsCommand(i + 1) => IsCommand(i + 2)

\* "This should be ... before the client will get a positive reply about the
\* operation performed": with appendfsync always, a command whose reply was
\* sent is found by a restart, whenever the server is killed.
AckedSurvive ==
    aof_fsync = "always" /\ aof.aof_state = "on" /\ at # "down" => acked <= Len(Loaded(disk))

\* CONFIG SET appendonly yes: the rewrite is tried until the file is complete.
SwitchedOn == aof.aof_state = "wait" ~> aof.aof_state # "wait"

Durable == INSTANCE DurableLog WITH
    log  <- IF at = "down" THEN Loaded(disk) ELSE data,
    kept <- Len(Loaded(disk))

\* A crash takes the end of the log only, and never what the file kept, through
\* failed writes, rewrites and switching the file off and on.
DurableSpec == Durable!Spec
==============================================================================
