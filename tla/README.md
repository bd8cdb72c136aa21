# Formal models of memcached 1.2.8, libevent 1.2 and redis 2.8

The repository collects several programs with reading comments. This
development is about three of them:

- `src/memcached-1.2.8`, a cache server whose worker threads share one item
  store; it is small enough to be modelled nearly whole;
- `src/libevent-release-1.2`, the event loop memcached runs on: the base, the
  loop, epoll and signals;
- `src/redis-2.8/src`, of which the two parts that have to survive crashes and
  lost connections are modelled: the append only file and replication.

File names are those of these directories. The other programs (PHP 4 and 5, the
Zend notes, lwan, tcpcopy) and the rest of libevent and redis are listed as not
modelled in `PROJECT.json`, with the reason.

## 1. Inventory

### memcached

**Threads.** The dispatch thread accepts connections and runs two timers (the
clock, every second; deferred deletes, every five). Worker threads each run an
event loop and own the connections handed to them. They share the item store
under `cache_lock`, the allocator under `slabs_lock`, statistics under
`stats_lock`, and the list of free connections and the accept switch under
`conn_lock` (`thread.c`).

| component | state | operations | hard about it | correct when |
|---|---|---|---|---|
| hash table, `assoc.c` | two bucket arrays, `hashpower`, `expanding`, `expand_bucket`, `hash_items` | find, insert, delete, expand, move a bucket | a growth done in steps between the other operations; a calloc that fails | it is a set of keys to its callers, no key is unreachable or chained twice, a growth ends |
| slab allocator, `slabs.c` | for each class its free list, its newest page, its list of pages; memory used | alloc, free, new page | limits, arrays that grow by doubling, each of three allocations that may fail | a chunk has one owner, none is forgotten, arrays stay in their room, memory is bounded |
| items, `items.c` | flags, reference count, time, expiry and cas id of each item; LRU lists | alloc (evict, tail repair), link, unlink, remove, update, replace, get, flush | lazy expiry, delete locks and flush decide visibility at lookups; references outlive the lock | table, list and flags agree, references are exact, the LRU is sorted |
| commands, `memcached.c` 776-930, 1196-1790 | the command a connection is in, with the item it holds | get, set, add, replace, append, prepend, cas, incr, decr, delete, flush_all | each is several lock sections, with the steps of others between them | lookups see a store that only loses values; a cas id names one value; locks of deleted keys are kept |
| deferred deletes, clock, `memcached.c` 2536-2602 | `todelete`, `current_time` | defer, run the queue, tick | references owned by a queue, a queue that cannot grow | the queue holds exactly the items marked deleted and empties |
| dispatch and accept control, `thread.c` 94-405, `memcached.c` 446-470, 1929-1960, 2041-2069 | listening switch, a queue and a pipe for each worker | accept, stop listening, dispatch, take up, close, listen again | two threads exchange work through a queue and a pipe; descriptors run out | a connection has one owner, none waits unnoticed, the server can listen again |
| connection state machine, `memcached.c` 2031-2255 | state, buffers, item and suffix lists | read, parse, nread, swallow, write, close, UDP | bytes come and go in any portions; error paths that must release what the success path does; UDP | references in the lists are released, a request's data is never read as a command, each request has one reply, a connection waits for the event it needs |
| statistics, `stats.c` | counters by key prefix | find, record, dump | prefixes of prefixes | each prefix has its own counters |
| start-up, `daemon.c`, `thread_init` | count of started threads | wait for all | condition variable | no dispatch before the workers wait |

**Interactions.** Commands call the items, the items call the table and the
allocator, all by function call under `cache_lock` (`slabs_lock` is taken
inside it). Connections reach commands through libevent callbacks. The dispatch
thread and the workers meet in the connection queues, the pipes and the accept
switch; the timers and the workers in `cache_lock`.

### libevent

| component | state | operations | hard about it | correct when |
|---|---|---|---|---|
| event base, `event.c` 360-820 | queues (timeout tree, inserted, signal, active by priority), `event_count`, `event_count_active`; in each event its flags, result, calls left and a pointer to the loop's local `ncalls` | add, del, active, priority, loopexit, loop | callbacks call back into the base and delete the very events the loop is about to call; one pass finds an event in several ways | flags, queues and counters agree; what was deleted is not called; what occurred is |
| epoll, `epoll.c` | for each descriptor a reader and a writer; the kernel's registration | add, del, dispatch | two events share a registration; `epoll_ctl` fails after the event was queued | what is registered is exactly what is inserted |
| signals, `signal.c` | the mask, `evsigcaught`, `evsignal_caught`, a socket pair with an event of its own | add, del, recalc, deliver, process, the handler | the handler runs between any two instructions of the loop; signals are blocked while the loop works | a caught signal is delivered, and wakes a loop that sleeps |
| other back ends, `evbuffer`, `bufferevent`, http, dns | | | | |

**Interactions.** One thread runs `event_base_loop`, and its callbacks are the
program. The signal handler shares two variables and the socket pair with it.
The kernel is reached by `epoll_ctl` and `epoll_wait`.

### redis

| component | state | operations | hard about it | correct when |
|---|---|---|---|---|
| append only file, `aof.c` and its callers in `redis.c`, `ae.c` | `aof_buf`, the rewrite buffer, `aof_state`, `aof_fd`, `aof_selected_db`, size, error status, postponed flush; the file; the rewrite child and its file | feed, flush, rewrite, its end, switch on and off, load | writes fail or are short, `ftruncate` fails; commands go to two buffers while a child rewrites; the process is killed between any two steps; replies race the flush | file and buffer give back the dataset; what the file kept stays; what was acknowledged is there; switching on succeeds in the end |
| replication, `replication.c`, `networking.c` | master: stream offset, backlog, slaves with their output buffers, child that saves; slave: state of the handshake, client of the master with its offset, cached master, dataset | feed, PSYNC, full and partial resynchronization, save, send, cache and resurrect the master, drop, resize, restart | connections are lost with data under way and noticed late, or on one side only; copies made earlier or later than asked for; a circular buffer that is freed and made again | the backlog is the end of the stream; what is sent on is what was missed; a slave's dataset is one the master had |
| the rest: data types, RDB, expiry, scripts, publish, Sentinel | | | | |

**Interactions.** The server is one thread with an event loop (`beforeSleep`,
poll, handlers, `serverCron`). `call` feeds both parts. Children write files
and end at any time; the thread of `bio.c` does fsyncs. Masters and slaves share
connections only.

The hazards that follow from all this, each at its line, are in `PROJECT.json`.
Further ones, known and not covered: in memcached, memory that runs out in the
middle of a get's reply, whose items are then not released
(`memcached.c:1352`); UDP connections that come to `conn_closing` (2244);
`errno` compared with ERANGE and never reset (1499); `stats_prefix_find` comparing only a prefix's
length (`stats.c:83`); the nesting of locks with `do_slabs_reassign`
(`slabs.c:347`); a failing write to the notify pipe (`thread.c:403`); the
listening event changed by a worker while its loop runs (`memcached.c:1938`); a
clock that is set back (2544). In redis: after the last write of a second
nothing fsyncs until there is a further one; SHUTDOWN fsyncs without writing a
buffer whose flush was postponed (`redis.c:2219`); a rewrite empties `aof_buf`
and leaves the error status of an earlier write, so that writes stay refused;
`startAppendOnly` that fails leaves a closed descriptor in `aof_fd`
(`aof.c:201`, modelled as `startFails`); slaves of slaves.
In libevent: `evsignal_del` casts `SIG_DFL` to a struct, so that the handler stays
after the event is deleted (`signal.c:140`); `ev_signal` is static, so two bases share it.

## 2. The modules

| module | models | builds on |
|---|---|---|
| `KeySet` | abstract: what the table promises, a set of keys | |
| `Assoc` | `assoc.c` | refines `KeySet` |
| `Slabs` | `slabs.c` | |
| `Items` | `items.c`, as operators on a record | what `KeySet` and `NoSharing` promise |
| `LossyStore` | abstract: what clients are promised, a store that may lose values | |
| `Cache` | the commands, the deferred deletes and the clock | `Items`; refines `LossyStore` |
| `CasRead` | gets, cas and incr in place, where they look at items between and within lock sections | `Cache` |
| `Lru` | the LRU queue of `items.c` as pointers, and the walks along it | what `Items` takes for a sequence |
| `Dispatch` | dispatch and accept control | |
| `ConnMachine` | `drive_machine` for one TCP connection | what `Cache` does to items: hold and release |
| `EventBase` | the calls of `event.c`, `epoll.c` and `signal.c`, as operators on a base | |
| `EventLoop` | the loop, the program in its callbacks, the signal handler, the kernel | `EventBase` |
| `DurableLog` | abstract: a log of which a crash takes the end, but nothing that was kept | |
| `Aof` | the append only file | refines `DurableLog` |
| `Backlog` | the replication backlog, as operators on the master's record | |
| `Psync` | master and slaves | `Backlog` |
| `Assoc_proofs`, `Slabs_proofs`, `Cache_proofs`, `CasRead_proofs`, `ConnMachine_proofs`, `EventLoop_proofs`, `Aof_proofs`, `Psync_proofs` | theorems about the module of that name; `Assoc_proofs` has those about `Lru` too, the other way in which items are chained, and `Slabs_proofs` those about `Dispatch`, a component as small | |
| `MCAssoc`, `MCSlabs`, `MCCache`, `MCCasRead`, `MCLru`, `MCDispatch`, `MCConn`, `MCEvent`, `MCAof`, `MCPsync` | instances for TLC | |

**Assoc.** The tables are functions from bucket numbers to sets of keys. A
chain is a set because no operation depends on its order; that no key is on it
twice is the assertion of `assoc_insert`, and `NoSecondCopy` shows the two
tables never share one. All of a call is one step: it runs under `cache_lock`.
The table's size is kept instead of its exponent `hashpower`.
`do_assoc_move_next_bucket` is an action as well as part of `assoc_expand`:
every connection calls it when it has finished a request and returns to
`conn_read` (`memcached.c:543`).

**Slabs.** A chunk is a pair of a page number and a place in the page. `held`
is a ghost: who was given what. `lost` is a ghost for the chunks a
`do_slabs_free` drops when `realloc` refuses. `malloc` and `realloc` may fail
whenever they are called.

**Items and Cache.** `Items` turns each function of `items.c` into an operator
from the cache before the call to the cache after it, and `Cache` composes them
into actions, one for each lock section of `thread.c`; `conn[s].at` is where in
its command the connection is and `conn[s].it` the item it holds meanwhile. A
command of the code corresponds to these steps:

| command | steps |
|---|---|
| get | `process_get_command`, `item_update`, (the answer is written) `item_remove` |
| set, add, ... | `process_update_command`, (the data arrives) `complete_nread`, `item_remove`; without memory `alloc_failed`, `item_unlink`, `item_remove` |
| incr, decr | `process_arithmetic_command`, `add_delta`, `item_remove` |
| delete | `process_delete_command`, `item_unlink`, `item_remove`; or `defer_delete` |
| flush_all | `flush_all` (no lock), `item_flush_expired` |

The build modelled is `memcached-debug`, the one the tests run: `Makefile.am`
compiles `memcached` with `NDEBUG`, and there a failed assertion is a corrupt
store instead of a stop. A failed assertion sets `cache.halted` to its
function; the same field records a thread that waits for its own lock.

What the two leave out: one slab class (eviction never crosses classes; a chunk
is taken from the free ones in any order, which `Slabs` shows is all a caller
may rely on); a get of several keys is as many gets of one; the delta of incr
and decr is 1; times are relative and not negative; failing `realloc`s inside
the allocator are in `Slabs` only. What remains in a freed chunk is forgotten,
except its flags and expiry, which the delete queue may still look at. Each
connection is taken to have a thread of its own, which allows every
interleaving that fewer threads do.

**CasRead.** Cache takes what a command does in one lock section for one step,
and reads an item's id and data with the lookup. Here a gets is the lookup
(`gets`), the printing of the id (`print_cas`, memcached.c:1278), `item_update`
(`gets_update`), the sending of the data, a character at a time and as late as
the socket likes (`send`, 1985), and the `release`. An incr or decr that fits is
cut as well: the new id (`delta_begin`), each character (`delta_write`), the end
of the section (`delta_end`); `writing` is that section, and while it is open
all steps that take `cache_lock` wait (`cache_lock_free`), but those of a gets
that do not take it. A cas is sent with the id of the connection's last gets.
The other commands are the actions of `Cache`. The ghost `stored` has the data
that each id was given to, and `overwritten` the ids whose item was changed in
place.

**Lru.** `heads`, `tails`, `next` and `prev` of one class, with what an item that
is not linked still has in its fields. A link, an unlink and a move to the head
are one step; the search of an eviction, that of the tail repair and the loop of
flush_all are a step for each turn (`walk`), since an item is unlinked under the
pointer. An item's time is the number of its last link or move, so that the
order is total; `reference` stands for the commands that hold items.

**Dispatch.** An action is a lock section or a system call. `clients` stands for
the kernel's listen queue. Connections are descriptors; what a worker does on
one is `Cache`'s business. A failing write to a pipe, a failing `cqi_new` and
other errors of `accept` are left out.

**ConnMachine.** One connection, its client and its socket; an action is one
turn of the loop in `drive_machine`, or of the one in `try_read_network`, and the
client's steps come between. The stream is made of units: a request line, or a
part of a data block, of which the last has the line end; the read buffer, its
size and `rlbytes` count units. What arrives is any prefix of what was sent, so
a read may end anywhere between units. A reply is a sequence of parts ("value",
"end", "text"), and `transmit` sends any number of them; a part sent in pieces
would change nothing. `full` is the state of the socket's send buffer, `peer`
tells of a client that closed its side or broke the connection off. `refs` is a
ghost that counts `item_get` and `item_alloc` against `item_remove`, `owed` one
for the replies the client waits for. `process_command` answers get, update
(storage commands) and quit; all others answer by `out_string` at once, as
"simple". `fits` says whether `item_alloc` finds room, `long` whether the (last)
key is too long.

`Cache` and `ConnMachine` cut the same commands in two ways: `Cache` has the
store and takes it that a connection reads its data and releases what it holds;
`ConnMachine` has the reading and the releasing (`RefsHeld`, `Framed`), and
counts items only. Not in it: UDP, memory that runs out while a get's reply is
built, and the suffix list of gets, which goes along with the item list. When
the read buffer cannot grow before the first command, `add_iov` writes to
`msglist[-1]`: the model lets the process end there, or the text be lost.

**EventBase and EventLoop.** `EventBase` gives for each call the base it leaves.
`EventLoop` cuts `event_base_loop` where something else may come in between: the
top of a pass (`Recalc`), the handling of held-back signals
(`evsignal_deliver`), the entry of `epoll_wait`, its sleep and its return with
all that follows up to the first callback (`epoll_dispatch`, one step because
nothing but a signal can come in, and a signal is blocked there or caught
before), the choice of the next event, and each callback. In a callback, or outside the
loop, the program makes any call for any event (`program_add`, `program_del`,
`program_active`, `event_priority_set`); a signal is an action (`Signal`) that
can come at any place, and is held in `sigpending` while it is blocked.
`ev_pncalls` is the pointer an event keeps into the frame of
`event_process_active`: "frame" while that function runs and "stale" after it;
a deletion through a stale one may or may not hit the local of the frame that
runs then (`Hits`). The timeout tree is a countdown for each event; events
whose time has come are called in any order, which is more than the tree
allows. `deleted` is a ghost for the events the program deleted and did not
touch since, `unwatched` one for the events whose `epoll_ctl` failed. `ready`
stands for the kernel's view of the descriptors. What a dispatch does for each
event of a list is `ForEach`, with the functions as operators (`Step`). Left out: `timeout_correct`,
`event_once`, `event_pending`, the growth of the table of descriptors, the other
results of `epoll_wait`.

**DurableLog, Aof.** The server is one thread, so a step is one handler of a
turn of its event loop, and a kill may come between any two. A command is a
record, `<<db, number>>` in the dataset and `SELECT`/`COMMAND` in the file; a
record is written as two halves, so that a write can be short within it. A
dataset is the sequence of commands it comes from; the child's file has one
record (`Dump`) for the dataset it was forked with. `Replay1` is the loader's
treatment of one record. `flushAppendOnlyFile` is the set of outcomes of that
function, with all its early returns; the end of a rewrite is two steps
(`Rename`, `RewriteDone`), as a kill between them leaves the new file with the
old memory. The seconds of the postponed flush are three values, "no", "yes"
and "long". `acked` is a ghost for the commands whose reply was sent. The disk
keeps what was written when the process is killed; loss of power, and so what
an fsync is for, is not modelled. `DurableSpec` maps `log` to the dataset and
`kept` to what a restart would read from the file now.

**Backlog, Psync.** Commands are appended to a byte stream: `SELECT` when the
database changes, and two bytes for each command, so that the backlog can
begin, and a connection break, in the middle of one. A backlog is a function
from places to bytes with `idx`, `histlen` and `off`, as in the code, and the
ghost `stream` is everything ever counted by `master_repl_offset`. A connection
may be left by either side first: the master's end is `client[c]`, the slave's
is `sl[s].conn`, and what the master writes to a connection its slave has left
is lost. `req` and `wire` are what is under way. When the fork for a slave that
asks fails (`syncForkFails`), the slave was told the offset and gets an error
instead of the copy, at which it gives up the transfer: that is its
`LoseMaster`, which may come at any time. The child's RDB file is the
dataset it was forked with. A slave keeps `master` or `cached_master`, the
client with its offset. `exact` is a ghost of a connection that says whether the
offset its slave was told is that of the copy it gets, `sound` one of a slave
that never went on from an offset that is not, and `past` holds the dataset of
earlier runs of the master.

## 3. What is checked

Every cfg is checked to the end; the numbers are distinct states.

| run | question | states |
|---|---|---|
| assoc | Is the table, growing twice or unable to, a set of keys at every step? Does a growth end? | 900 |
| slabs | Does every order of allocations and frees, with failures, keep the allocator's promises? | 89,000 |
| cache_ops | Are references exact and is what lookups see a lossy store, over all commands but flush_all and deferred delete, with evictions and failed allocations? | 141,000 |
| cache_time | The same with expiry, delete locks, flush_all and both timers, and no get: do queue and marks agree, is a lock respected, does what was flushed stay invisible? | 1,509,000 |
| cas_read | Does a cas replace just what its client was sent, though gets reads without the lock and incr writes in place? Do the id and the data of a reply belong together? | 1,010,000 |
| lru | Do the pointers stay one list in the order of use, and do eviction and flush_all take the items they should, with no walk led out of it? | 1,405,000 |
| dispatch | Has every descriptor one owner and every queued connection a wakeup, and is a queued connection taken up? | 70,000 |
| conn | Do client and server agree on requests, data and replies, are references released, does the connection wait for the right event, and is every request served? | 248,000 |
| eventloop | Do flags, queues, counters and the kernel's table agree whatever callbacks do? Is a deleted event left alone, and one that occurred called? | 284,000 |
| aof | Do file and buffer give back the dataset, and the file all that was kept or acknowledged, through failures, rewrites and kills? Does switching on succeed? | 263,000 |
| psync | Is the backlog the end of the stream, is a partial resync exact, and has a slave a dataset of the master's, through losses, restarts and resizes? | 2,511,000 |

**Bounds.** *assoc*: seven keys whose hashes collide in the table of two, four
and eight buckets in different ways; two growths happen, and the third fails for
want of memory. *slabs*: two classes of different size, first room 1 in the
arrays so that they grow, a limit that some pages hit, four pages; both kinds of
start (with the preallocated block and without) are initial states. *cache*: two
connections are what every race in the code needs; two keys for eviction of one
by the other, three chunks so that an old item, a new one and another key's are
there at once, one key and two chunks where the clock makes more states. `MaxCas` bounds the
number of changes (nothing is asked for after it), `MaxTime` the clock: it goes
past it only until the delete locks are over, as no timer may be cut off by a
bound. `Base` is 2 and `Wrap` 4, so that an incr makes a number longer and then
wraps; `UpdateInterval` is 1 or 3 instead of 60, so that both sides of the
comparison occur; `DeleteRoom` 1, so that the queue grows; `RepairAge` is out of
reach but in the instance `MCCacheLive`. *cas_read*: one key, and three
chunks, so that the item a gets is sending is replaced and its chunk could be
used again; values of one and two digits and a `Wrap` of 4, so that an incr makes
its text longer, keeps its length, and shortens it; `UpdateInterval` is such that
`item_update` changes nothing, the case in which its taking the lock matters.
*lru*: four items, so that there are a middle and two ends around a walk, and six
links or moves (`MaxTime`), more than the items; `Tries` 2 instead of 50, so that
searches give up. *dispatch*: three descriptors and three
workers let the descriptors run out and every worker have its turn; one client
waits at a time, and more would only delay the next accept. *conn*: three
requests are one being served, one behind it in the buffer and one in the
socket; a data block is two units, so that it can be split; the buffer is two,
so that a line and its block do not fit, it grows, and shrinks again (`HighWat`
3); `ReqsPerEvent` 2 allows one read for each event. *eventloop*: a persistent
reader and a one-shot writer of one descriptor, so that they share its
registration, and a persistent signal, each of which may be given a timeout of
0 or 1 ticks; two calls of the program (an addition or activation that sets
something up, and a deletion at the wrong moment) and one signal; two
priorities. The loop is entered without flags, since `EVLOOP_ONCE` and
`NONBLOCK` only leave it earlier. *aof*: two databases for the `SELECT`s, two
commands, which may be one transaction of two, and a file of up to three
records to which commands are added; rewrites, failures and kills are not
bounded. With one command more the run takes longer than is useful; all that
has to do with order shows with two. *psync*: one slave
with two connections, one of which the master may still take for alive; a
backlog of four bytes that two commands with their `SELECT` overflow, resized to
three; a restart of the master and one time that the backlog is freed. A second
slave only adds a second user of the same copy, as a second connection of one
slave does too.
Symmetry is used where the values are interchangeable and no liveness property
is checked.

**What is left out of runs because properties fail with it**, and is in the
instances of section 4 instead: three requests in *conn*, see there;
`SelfActive` in *eventloop*: a callback that activates its own event clears
`ev_pncalls`, and a deletion after that does not stop the calls left, so that
`DeletesWork` fails; `Pipelined` in *aof*, and `DirtyStop`, switching the file
off while its last write failed, whose buffer a later switching on writes to the
new file again; `ForkFails` in *psync*, the fork that fails when the turn of a
waiting slave has come. (One that fails for a slave that asks is in the run.)

**Fairness.** `Assoc`: the move of the next bucket is weakly fair, which is to
say that requests go on: each connection that finishes one makes a move
(`memcached.c:543`). Only `GrowthEnds` uses it; without requests a growth rests,
and nothing needs it. `Cache`: the two timers are weakly fair: libevent calls a timer
that is over and each handler sets itself again (`memcached.c` 2547-2583). No
client is assumed to do anything.
`Dispatch`: the dispatch thread and each worker are weakly fair, being threads
with an event loop; `connect` and `conn_close` are up to the clients.
`ConnMachine`: the worker that drives the connection is weakly fair (libevent 1.2
is level-triggered, so an event that was not used up fires again), and so is a
client's reading of what it was sent: without it a full socket stays full.
Nothing makes it send. `EventLoop`: the loop goes on (weak fairness of `Loop`,
with its ENABLED written out as `CanGoOn`, since TLC would have to enumerate
every order of events for it), callbacks return, and the clock ticks; no
descriptor has to become ready and no signal to come. `CalledBack` (which is about timers, signals and descriptors that are ready) is for the
first priority: one of a lower priority may starve (event.c:295). It is for
programs that make finitely many calls, as `MaxCalls` bounds them: callbacks that
activate each other for ever keep `event_process_active` in one queue
(event.c:318), and then every other event starves. `Aof`: the
loop goes round (`beforeSleep`, `Poll`, `EventsDone`, `RewriteDone` weakly
fair); and of the scheduled rewrites, and of the renames, not all fail (strongly
fair): without that nothing could make the file complete. Safety properties
use none of it.

**Deadlock** is checked in all runs but three: `dispatch`, where a server that no
longer listens has nothing to do (see `CanListenAgain` below), `conn`,
whose client may have sent all it wants, and `lru`, which stops at `MaxTime`. In
`Cache` a stopped server stutters by `Halted`.

## 4. Where the code and its documents differ

One has a run of its own, whose trace shows how it comes about; the others
are instances to be run by hand, `tlc -config <cfg> <module>`, each with the one
property that TLC finds violated.

| run or cfg | module | property | what happens | said otherwise by |
|---|---|---|---|---|
| run duplicate | `MCCache` | `NoDuplicate` | incr replaces an item that is not in the table any more: two items of a key | assertion, assoc.c:584 |
| MCFlushGet | `MCCache` | `FlushedStayGone` | a get that began before flush_all makes the item visible after it | doc/protocol.txt:527 |
| MCCasTorn | `MCCasRead` | `FetchedAlways` | a gets prints the id, an incr in place gives the item a new id and new text, and the gets sends that text, or half of it, under the old id | doc/protocol.txt:238 |
| MCDeafRace | `MCDispatch` | `CanListenAgain` | the last connection closes just before the server stops listening: for ever | ChangeLog:6 |
| MCLongKey | `MCConn` | `InStep` | a get whose second key is too long has a reply with a value and no end | doc/protocol.txt:219 |
| MCSignalWake | `MCEvent` | `SignalsWake` | a signal between the loop's reading of the socket pair's event and its adding it again leaves the loop asleep | comment "Wake up our notification mechanism", signal.c |
| MCAofMulti | `MCAof` | `WholeTransactions` | a kill in the middle of a transaction's write leaves half of it in the dataset after the restart | comments, multi.c:150, aof.c:654 |
| MCAofPipelined | `MCAof` | `AckedSurvive` | a socket that was writable and readable in one poll sends the reply of a command that is not in the file yet | comment, aof.c:488; ae.c:410 |
| MCPsyncOffset | `MCPsync` | `SlavesFollow` | a slave is told the offset of now with a copy of an earlier or later moment, and goes on from the wrong place after a lost connection | comment, replication.c:493 |
| MCPsyncFork | `MCPsync` | `SoundSlavesFollow` | the fork for waiting slaves fails after they were marked; the next child's copy is followed by commands it has already | replication.c:751 |

`MCCacheLive` is an instance of `MCCache` that passes (`DeletesEnd`, 21,000
states): every deferred delete is carried out, also when tail repair takes the
items away.

The models contain some neighbours of these that have no instance: the
race of `duplicate` with a delete instead of the set gives the deleted key a
value again; a delayed flush_all makes visible what an earlier one hid, for
`oldest_live` is one variable; connections that fail in `conn_new` do not make
the server listen again (`ConnNewFails`); a delete queue that cannot grow makes
`do_defer_delete` take `cache_lock` a second time (`halted = "cache_lock"`); and
first pages of classes go beyond `-m`, which `MemBounded` bounds. Two deferred
deletes whose lookups both come first queue an item twice, and the assertion of
`item_delete_lock_over` (items.c:445) fails at the second entry. An incr or decr
that found its item before a delete with a time, and writes a longer number after
it, puts a new item under the locked key (memcached.c:1521), so that
`DeleteLocked` does not hold with them. Tail repair
takes the delete queue's reference to an item whose lock is longer than
`RepairAge`, against the comment at items.c:147.

Three requests are left out of the run `conn`, as its properties do not hold with
them: the get of `MCLongKey`; a set with noreply that finds no room
(`TooLargeNoreply`), whose data is then read as a command, against the comment
"swallow the data line" (memcached.c:1416), so that `Framed` and `InStep` fail;
and a storage command with a key that is too long, whose data is not swallowed
either (1381). `Served` needs `ReqsPerEvent` to be at least 2: with `-R 1` a
connection is never read (2077).

The passing runs of `Cache` show where the promises hold. `cache_ops` and
`cache_time` contain the race of `duplicate` and that of two deferred deletes;
their invariants speak of a server no assertion has stopped, so
they show that nothing is wrong before the assertion, and that a revived key is
still a value with a new cas id. `cache_time` has no get and no delayed flush,
and all items are younger than `RepairAge` in the runs that check reference
counts. `cas_read` has the torn replies of `MCCasTorn`, and `CasSound`
shows that they do no harm to a cas: such an id is older than the data, and its
cas fails. That the data is never older than its id rests on `item_update`, which
takes `cache_lock` after the id is printed even when it has nothing to do; its
mutant `gets_update_unlocked` shows what an early return before the lock would
lead to. `psync` has the behaviour of `MCPsyncOffset` too: its `InStep` and
`SoundSlavesFollow` speak of the slaves whose offset was exact, and show that
nothing else goes wrong.

## 5. What is proved

TLAPS proves these for all values of the constants that satisfy the module's
assumption.

*`Assoc_proofs`*, for any finite set of keys, any hash function and any size.
The inductive invariant `IInv` says where each key is: `Layout(S)` puts every
key of `S` into exactly one bucket of exactly one of the two tables, the old one
if its bucket there is not below `expand_bucket`, and `Sizes` keeps the table
sizes and the position in range. The type invariant is not inductive without
it, because the move writes a bucket chosen by a key's hash. From it follow
`TypeCorrect`, `NeverStranded` (a chained key is found), `NeverCopied`,
`AlwaysCounted` and `ImplementsKeySet`: growth is invisible to callers.

*`Slabs_proofs`*, for any classes, page sizes and limit. `IInv` joins the types,
the facts about pages (`PagesInv`: pages are numbered once and belong to one
class) and, for each class, how its chunks are divided into held, listed, uncut
and lost ones. One lemma for each way to serve an allocation or a free shows
that it keeps the class's part, and `OtherClass` that it leaves the others
alone. From it follow `TypeCorrect`, `NeverShared`, `AlwaysConserved`,
`AlwaysInRoom` and `AlwaysEndPageCounted`. `AlwaysMemBounded` needs the types only: `MemBounded`
is inductive with them, as a page that is not the first of its class is refused at the limit,
and a first one is counted in `OnlyPages`. That a sum over classes changes with the one class
that does (`SumMoves`) is induction over the recursive function in `SumOf`, done, as everywhere here,
by the least number that would contradict it (`Smallest`).

*`Cache_proofs`*, for any finite set of connections, any keys, items, values and
times, and every interleaving of the commands' steps, the clock and the delete
timer: `AlwaysLinkedExactly`, `AlwaysRefcountExact` and `AlwaysMarked`, the latter
being a part of `DeletedAreQueued`. The functions of `items.c` are proved
first, one by one, and most lemmas say the same of them (`Goes(c, d, refs)`): a
sound cache `c` becomes a sound cache `d` with the reference counts `refs` and the
same items marked deleted, or an assertion of the code has stopped the server. `Sound` is: the types, `Linked` (flags, table and list), `FreeBut` (an
item is free just when it is neither linked nor held), and `Young`. That the list has each item once is
`Lists`, of which lemmas say what a new head, a place less and an item moved to
the head do to it. The loops of flush_all and of the delete timer are recursive
functions; that each of their steps keeps the cache sound gives the whole
(`Smallest`: the first step that did not would contradict the one before). The
inductive invariant `IInv` adds what each connection holds between its lock
sections (`ConnOK`) and that references are counted by it (`Counted`): an item's
count is the number of connections that hold it and of its entries in the queue.
Without `ConnOK` a second lock section could release an item it never held.

The condition is `NoneOld`: while evictions are on, no linked item is older than
`RepairAge`, so that tail repair (`items.c:144`), which frees an item whatever its
count is, has nothing to take. The runs `cache_ops` and `cache_time`, which check
the properties (`AlwaysMarked` as a part of `DeletedAreQueued`), meet it, since
their clock ends earlier; section 4 says what tail
repair does to an item that is held. `WithoutEviction` needs no condition: with
`-M` there is no tail repair. `CacheAssumption` says that there are finitely many
connections; counting who holds an item rests on that.

`CacheLossy`, also in *`Cache_proofs`*, is the refinement `StoreSpec`: what lookups
return is `LossyStore`. The functions of `items.c` have a second lemma each for it
(`Does(c, d, h, new)`): every key's item is out of the table or has the data, the
cas id, the times and the mark it had, except that the key `h` may have got a cas
id nothing had before; and no chunk but `new` changes its key for another. A tail
repair or a failed assertion makes no difference to that, so it needs only types,
`Tabled`, and an exact list, `Trim`; and it composes (`DoesThen`), which gives
`do_store_item`, the largest of them, from its parts (`StoreDoes`). `StepActs`
sums up the commands' steps: such a change with a chunk that nobody holds
(`Acts`), a lock set on an item (`Locks`), a move in the list, or the clock. While
the clock stands each is a step of the store (`DoesStore`, `LocksStore`); when it
moves on, nothing becomes visible that was not (`ClockStore`). The latter is why `Timely`, the invariant, says that an item marked
deleted has a time that ends its lock, which is then its expiry, and that
`oldest_live` is in the past. There are two conditions more. `NoRevival`: a
flushed item stays flushed, that is, where there is flush_all there is neither get
nor a delay; `MCFlushGet` is an instance in which it comes back, and a delay
moves `oldest_live` away from what it hid. And the time of a delete is positive: a
negative one could end the lock at the time 0, which means never to expire. The
run `cache_ops` meets both; the theorem has clock, delete locks and flush_all besides.

`LockHolds`, in the same module, is `DeleteLocked`: a key that was deleted with a
time gets a new item only from set and cas. Where a step gives a locked key
another item is known from `StepActs`: in `do_store_item`, under the key of the item
the connection holds (`Stores`, `LockedStore`). That this is the key the command
was sent for needs an invariant, since between the two lock sections others free
and reuse chunks: `Awaited` says it of every connection in conn_nread. It is kept
because only a chunk without references gets another key (`KeyStays`), and what a
connection holds has a reference and a key (`InHand`). To which places a step can
bring a connection is `StepKeeps`. The condition that there are no commands of
arithmetic is needed (section 4) and met by the run `cache_time`.

`AlwaysQueued` is `DeletedAreQueued` with the types of all the state, in a stopped
server too. `FInv` adds to `IInv` what the types need: data is of digits and blanks,
and no cas id is above `last_cas` (`Worded`); the delete queue fits its room. That
the text of a number is of digits, and that the number of a text is one, is
induction over a recursive function; `SpellingExists` and `CountingExists` do it
with the least number for which there is no such function (`Smallest`). Each
function of `items.c` gets a third lemma (`Stamps(c, d, new, j)`): data and cas ids
change only of the chunk `new`, which was free, and of `j`, which is linked with
the next cas id. The same lemmas say that the list stays in the order of use
(`Tidy`), without which flush_all could stop its walk too early.

`AlwaysFlushed` is `FlushedStayGone`, with the condition `NoRevival` above. The walk
of `do_item_flush_expired` ends at the first item that was last used before
`oldest_live`, and as the list is ordered all behind it are `flushed` as well
(`FlushStamps`); the invariant `Gone` says that they stay so while they are linked,
since without a get only a new cas id brings a new time (`GoneWay`, `GoneDoes`). The
run `cache_time` meets the condition.

*`CasRead_proofs`*, from the lemmas of `Cache_proofs`, for the same: `AlwaysTogether`
and `CasReplacesSeen`. They are `FetchedTogether` and `CasSound` of
`CasRead`, under the condition `NoneOld` alone: the text a gets is sent goes with the id it
printed, and a cas that is stored replaces what its client was sent. `CInv` has
`Answered` (what a client was sent is a part of what its cas id was given to), which holds in
a stopped server too, and while the server runs `Strong`: `IInv`, the lists and
types above, and who may still look at what. An item that lookups, a gets or an incr
may look at (`Seen`) has an id of its own and the data of that id, unless it is
being written (`Named`); what of it is written (`Inplace`); the item of a storage
command is held by nobody else and not linked, and that of a cas has the id its client got
(`Alone`); the item of a gets has the id that was printed until it is changed in
place, and then the id is `overwritten` (`Reads`). That the commands of `Cache` keep this is `CarriesOn`:
a locked step gives data and an id to at most two chunks, the one it takes from the
free ones and the one it links (`Carries`), which nobody looks at. What remains is
the steps that `Cache` does not have, without the lock or between its
sections. `CasAssumption` says that the null pointer is no
connection. The run `cas_read` meets `NoneOld`: its clock stands still.

*`Assoc_proofs`* about `Lru`, for any finite set of items, any number of tries and any limits:
`AlwaysChained`, `AlwaysInOrder`, `AlwaysSizeExact`, `AlwaysWalkInQueue`,
`AlwaysEvictsOldest` and `AlwaysFlushTakesAll`. Reachability along pointers would
need induction; instead `InOrder` says for each item that nothing linked has a
time between its own and the next's, which a link or an unlink changes only
around the item it is about, and with the two ends makes the list complete. The
walks' invariants say what lies behind them: all items older than the one
searched are held, and all newer than the one that flush_all is at are out.

*`ConnMachine_proofs`*, for any requests, any sizes of buffers and blocks, any
number of requests, and every pattern of arrivals and failures: `AlwaysAwake`
and `NothingLeaks`. The latter is `RefsHeld` under the condition `NoLongGet`,
which the run `conn` meets as well; without it the property is false (see
`MCLongKey`). `IInv` says in which states a connection may hold an item
(`Holds`: in nread it does, and a list is left in mwrite only, until the
closing), since otherwise a command could overwrite one, and where the reading
of `try_read_network` begins (`Reader`), since it is there that the connection
decides to wait. `ConnOK` has the types that this rests on: a read buffer that
is not longer than its size, so that what a read adds is a part of the socket's.
`GoesOn` and `Stops` are the two ways a turn of the loop ends, and each action
has a lemma that uses one of them. `FirstLineIn`, that the first line end
exists, comes from the well-foundedness of `<`.

The second half of *`ConnMachine_proofs`* is about the stream. `AlwaysFramed`: the
server and the client agree on where a request begins, for any requests and blocks, and however they are cut
into reads. Its condition `Refusable`, which the run `conn` meets as well, says
that a storage command is refused only for want of room and then with an answer;
the refusals it excludes are those of section 4, after which the data is read as
commands. That a block of `k` units is at the head of the stream says nothing of
the block behind the next request, so the invariant is `Framing(S, k)`: the
stream begins with `k` units of data and every request in it has its whole block
behind it. It is stated of what the read buffer, the socket and the client hold
together, so that a byte that moves from one to the next changes nothing
(`MovedToSocket`, `MovedToBuffer`), and only the four ways to change the stream
need it: a request sent (`RequestSent`), a request taken (`RequestRead`, where
the first line end must be the first unit), and data taken (`DataRead`) by
conn_nread or conn_swallow. `Quiet` is needed too: noreply must be forgotten
when a command ends, or the next refusal would not swallow.

On the framing rests `AlwaysInStep`, `InStep` for the same instances: every
request that asks for an answer has one, and one only. `NoLongGet` is a condition
here too (`MCLongKey` is what happens otherwise). The invariant `OInv` counts: the client awaits as
many replies as there are requests that ask for one (`Asked`) in the read buffer,
the socket and the client's hands together, and the one the connection is about to give (`Due`):
a storage command that waits for its data, a text that is still to be added, or
a reply that is not all sent. That a reply is sent once needs more: what is in `out` is
one reply and only its last part ends it (`OneReply`), so that the bytes of a
partial write end it only when the last one is gone (`SentParts`), and where
`out` is empty in a state that writes, a text is still to come, for which there
is room in the message (`OutFits`). That data is never counted as a request is
`Framing`. Each command has a lemma that says what it adds (`GetReplies`,
`UpdateReplies`, `CommandReplies`): one reply, now or later, or, with noreply,
none. `ConnAssumption` says that a get has no noreply: there the word would be
one more key. `ConnTyped` says that the counters of the connection never go
below zero, and that the budget of requests is never exceeded.

The end of *`Slabs_proofs`* is about `Dispatch`, whose definitions have names of
their own, for any descriptors, clients and number of workers:
`OnlyOnePlace` and `AlwaysNotified`. `DispatchInv` adds to
the types that the dispatch thread's locals have values where it is about to
push or to notify, that queues hold no descriptor twice, and `Placed`, which
counts the dispatch thread's hand as a place: without it a push could make a
second owner. Lemmas say what pushing and peeking do to a queue (`Pushed`,
`Peeked`), that the round robin names a worker (`NextThread`), and that nothing
else moves (`StillPlaced`).

*`EventLoop_proofs`*, for any finite sets of events and descriptors, any signals
and priorities, any program that calls libevent between and in its callbacks, and
every interleaving of the loop with the clock, the kernel and the signals:
`AlwaysQueuesExact`, `AlwaysKernelExact` and `DeletesAlwaysWork`. The functions of
`event.c` come first, from `event_queue_remove` and `event_queue_insert` up: each
makes a sound base a sound base, and changes the flags of no event but its own
(`Touches`). `Sound` is: the types; `Exact`, which is what `QueuesExact` says of
the counters and queues; `Slotted`, which is `KernelExact`; and `Registered`, that
only what has a descriptor is inserted. That the queues have each event once is
`Lists`; that a counter is the size of four sets together rests on `CountMore`
and `CountLess`. Between the insertion of an event and its slot a base is not
sound, so the two are one step of the proof (`WatchSound`, `UnwatchSound`), and
the event may take the slot only because `EventAssumption` gives two events of a
descriptor different directions (`SlotsApart`). A pass over a list of events or
descriptors is a recursive function (`ForEach`): `Does` and `Fits` say what is
done for one of them and for whom, `DoingSound` that the whole keeps the base
sound, by the first element after which it would not be (`Smallest`).
`DeletesAlwaysWork` has two invariants more: `Rests`, that an event the program
deleted has no flag left, which `Touches` keeps for all calls about others, and
`Calls`, that while an event is called back `event_del` finds the count of its
calls by the pointer in the event, and that none is left for a deleted one. The
condition is that no callback activates its own event, as in the run:
`event_active` would replace that pointer, and the calls could not be cut short.

*`Aof_proofs`*, for any databases, any number of commands and any length of the
file: `AlwaysRecoverable`, `AlwaysAckedSurvive` and `AofDurable`, the refinement of
`DurableLog`. `DirtyStop` is excluded in all three and `Pipelined` in the second,
as in the run `aof`; section 4 and the end of section 3 say what happens with
them. The argument rests on `Replay`, a function defined by recursion over the
records of a file. What it does with one record more (`AfterOne`) is proved from
its runs: `Runs(r, recs, n)` says that `r` holds the loader's client after each of
the first `n` records, and two runs over the same records are equal, since
where they first differ they would differ one place before (`Smallest`, from the
well-foundedness of `<`). From there on recursion is not needed: `Sound` says
that the loader can read the records and that its dataset only grows, and
`FedFile`, `Dumped` and `Cut` what a command, a rewrite and the loader's
truncation make of a file. `Recoverable` is not inductive, since it is silent
about the child's file and about a server that waits for it: `IInv` says of the
file and the buffer (`FileOK`), and of the child's file and the rewrite buffer
(`ChildOK`), that they hold the dataset, and which database a command that
comes next may take for granted (`Holds`); that the file alone holds a beginning
of it; and that the child's file holds at least what the old one does, without
which a rename would lose what was kept. `Outcome` sums up all ways a flush can
end. `AInv`, for the acknowledged commands, adds that between a poll and the
replies nothing is left in the buffer.

*`Psync_proofs`*, for any slaves, connections, databases and sizes of the
backlog: `BacklogIsExact` and `ContinueIsExact`. `IInv` is `MasterOK`, that
`client` is a function on the connections, and `BacklogExact`. The heart is
`FeedExact`: after a byte was fed, whether the index goes round or not, the byte
at each distance from the end is the stream's. That what is sent for an accepted
offset is exact follows from it for all offsets at once.

The second half of *`Psync_proofs`*, for the same: `SlavesInStep` and `SoundFollow`, what
replication is for. Neither property is inductive: a slave that is connected got
there from a copy, a wait and an offset, or from a cached master, and each of
these has to be right before it matters. `SInv` says, for every slave, what is on
its way to it and where that leads. `Leads(P, d, db, D)`: the commands that the
bytes `P` complete are the next ones of the dataset `D` after `d`, none left out,
each for the database it was executed in when `P` is read with `db` chosen;
`Goes` adds that with them all of the master's dataset is there. `Placed` says of
an offset that the rest of the stream leads on from it, `PartOf` that what is
under way is a part of the stream; `Leads` survives a byte that is fed to a slave
(at the end of `P`) and one that is read (at its head). A slave in each state
of the handshake has a case of the invariant: what it asks for, what is gathered
for it while a child saves, what comes behind the copy, what it knew when it
lost its master; and one for a slave of an earlier run of the master. The proof
has one part for each kind of step: feeding, the cron and its children,
connections, the backlog, the slave's own reading and the restarts; what a step
does not touch is carried over by `SlaveCarried`. `SoundFollow` has the assumption that forks do
not fail, which the run `psync` meets as well: `MCPsyncFork` is what happens
otherwise. `PsyncAssumption` says, for both, that `None`, the null pointer, is none of the
objects.

The types of `Assoc` and `Slabs` (`TypeCorrect`), the counters `hash_items`,
`end_page_free` and `sizes`, and `NeverCopied` are proved for all instances and
need no run.

So every safety invariant, action property and refinement that a passing run
checks is stated by a theorem, under the conditions named above. Only
model-checked is liveness (`GrowthEnds`, `DeletesEnd`, `TakenUp`, `Served`,
`CalledBack`, `SwitchedOn`), which is out of the prover's reach.

## 6. Plan

Done, in this order: `Assoc`, `Slabs`, `Items`, `Cache`, `Dispatch`,
`ConnMachine`, then `EventBase` and `EventLoop`, on which `Dispatch` and
`ConnMachine` rely, then `Aof` and `Psync`, where crashes and lost connections
are, `Lru` and `CasRead`; and the proofs named above.

Next modules:

1. `ConnMachine` for UDP (datagrams, a connection that never closes), the
   suffix list, and memory that runs out in the middle of a get's reply.
2. `Psync` with slaves of slaves and the acknowledgements of `REPLCONF`; `Aof`
   with loss of power, where fsyncs count, and with expiring keys.
3. `Locks`: the nesting of the five locks, with `do_slabs_reassign`, for
   deadlock.
4. `SlabSizes`: the chunk sizes of `slabs_init` and `slabs_clsid`, against the
   smallest class that fits.
5. `ThreadInit`: the start of the workers; `StatsPrefix`: the prefix table
   against one counter for each prefix.

Next theorems: that `Lru` implements the sequence of `Items`.

Not planned: option parsing, sockets, the wording of answers, the statistics
texts, the binary protocol draft in `doc/`, other operating systems' paths;
libevent's other back ends and its users; redis's data types and file formats.
The interpreters (PHP, Zend), lwan and tcpcopy are separate programs: large,
mostly sequential or library code, or in need of a project of their own.
