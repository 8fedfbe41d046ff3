# Verification of miniredis

TLA+ models of miniredis (`src/src/*.c`), TLC configurations that check them on
small instances, and TLAPS proofs. `PROJECT.json` lists the parts of the
system, the runs, the mutants that show each property can fail, the source
lines behind every definition, the findings, the hazards and the theorems.

## The system and its parts

One process runs an event loop (`server.c`). It accepts clients, parses RESP
commands (`resp.c`), and hands each one to `dispatch_command` (`db.c`), which
appends a write to the append-only log before it executes it (`aof.c`). After
each batch of events, at least every 100 ms, it runs the active expiry cycle,
the periodic fsync and the reaping of children. BGSAVE and BGREWRITEAOF fork
children that serialise the dataset of the moment of the fork and rename a
temporary file over the snapshot or the log. A start loads the snapshot and
then replays the log on top of it.

| part | source | module | status |
|---|---|---|---|
| append-only log, rewrites, reaping, stop, crash, start | `aof.c`, `server.c`, `db.c` | `Aof`, `DurableLog`, `AofProofs`, `AofOrderProofs` | all but fsync |
| contents of the log: rewrite stream and replay | `aof.c` | `Keyspace` | modelled |
| string, key, counter and expiry commands, glob matching | `db.c`, `object.c`, `util.c` | `DbCore`, `Glob` | modelled |
| list, hash, set and sorted-set commands | `db.c` | `DbTypes` | modelled |
| dispatch, lazy and active expiry, the clock | `db.c` | `Keyspace`, `DbTable` | modelled |
| snapshot | `rdb.c`, `db.c`, `server.c` | `Rdb`, `RdbProofs` | modelled |
| hash table, with the cursor of the expiry cycle | `dict.c`, `db.c` | `Dict`, `DbTable`, `KeyMap` | all but the random entry |
| linked list, skip list and zset | `list.c`, `zskiplist.c` | `List`, `ZSkiplist`, `Objects`, `Container` | modelled |
| RESP parser | `resp.c`, `util.c` | `Resp` | modelled |
| clients and both event loops | `server.c` | `EventLoop`, `EventLoopProofs` | modelled |
| publish and subscribe | `pubsub.c` | `Pubsub`, `Registry` | modelled |
| buffers, hashing, logging, command line | `dynbuf.c`, `siphash.c`, `main.c` | | no property to state |

`MCAof`, `MCKeyspace`, `MCObjects`, `MCDbTable`, `MCEventLoop` and `MCPubsub` hold the
finite instances; `Rdb` is run as it is.

## How the modules correspond to the code

### `Aof`: the log as a file among processes

A write is a number, in order of execution; a dataset is the sequence of the
writes that made it; a file is the sequence of its frames, and `Torn` a fragment
of one. The server and every child have a program counter: `aof_rewrite` is
`RwOpen`, `RwWrite`, `RwRename` or `RwFail`, run by the server for REWRITEAOF
and by a child for BGREWRITEAOF. `g_aof_fd`, `aofpath` and `tmppath` are inodes,
so a descriptor of a file that was replaced is a descriptor of an unlinked
inode, as in the kernel. `reap_children` is two steps, because a child can exit
between the clearing of `g_sigchld` and `waitpid`. `aof_append_command` and
`aof_reopen` may fail. A new server starts only when no child of the old one
is left: children inherit the listening socket, and `create_listener` would fail.

Two history variables are never read by the actions: `executed`, every
write executed, and `mishaps`, the ways in which the behaviour left the path on
which the log is complete. The constant `Allowed` says which combinations a run
explores. Each property names the mishaps under which it is claimed.

`DurableLog` is the promise: one step puts a write in log and memory, a stop
loses the memory, a start brings back the log. `Aof` implements it with
`log <- Recoverable`, the log on disk completed by the rewrite buffer while a
child that has renamed its file waits to be reaped.

### `DbCore`, `DbTypes`, `Keyspace`: the commands and what the log makes of them

A command of `db.c` is an operator of the same name: it takes the dictionary,
the clock and its arguments, and answers the new dictionary and the reply, with
every early return. `lookup_key` removes an expired key. Integers have the
range of `LLMax` and wrap as the build computes them; a second is `Sec`
milliseconds; strings are sequences of characters with a zero byte, at which an
argument ends. A reply keeps what a client can tell apart: an array has the
length it announces, which often comes from a pass of its own over a table, and the
elements it sends.

`Keyspace` runs them: `dispatch_command` logs and executes, `db_expire_cycle`
removes any set of expired keys, `cmd_rewriteaof` replaces the log by the
commands `aof_rewrite_key` writes (in batches of `Batch`, 64 in the code),
`Restart` replays it, `Tick` advances the clock. Appends and rewrites succeed
here; their failures are the subject of `Aof`. The clock is read once per
command: KEYS, SINTER and SDIFF read it several times (see the hazards). A
behaviour draws its commands from one family, so that one run covers several.

ZADD and HINCRBYFLOAT create a missing key before they find out that they fail, and
leave it empty. A rewrite has no command for an empty container. The history variable
`hollow`, which no action reads, remembers whether the first has happened (`"made"`) and
whether a rewrite has lost such a key (`"lost"`); properties that hold only without it
name it.

KEYS asks `Glob`, a translation of the recursive matcher over byte codes. Next to
it stands what `util.h` promises: a pattern is a sequence of stars and of sets of
bytes, and a name matches if some prefix lengths lead through all of them.

### `Rdb`: the snapshot file

A dataset has one number per key, a file is a sequence of such records, and one
`write(2)` writes one of them at its descriptor's offset. `rdb_save` is
`RdbStart` (serialise), `RdbOpen` (create or truncate `<path>.tmp`), `RdbWrite`,
`RdbRename` or `RdbFail`, run by the server for SAVE and at shutdown and by a
child for BGSAVE. `rdb_load` keeps the records before the first unreadable one.

### `List`, `Dict`, `ZSkiplist`, `Objects`: what is behind the commands

A structure is a value with addresses: a list is its head, tail, length and a map
from addresses to nodes, a skip list the same with levels and spans, and freeing a
node takes it out of the map, so that a stale address is a failing lookup. A table
has its chains as sequences and the hash function its seed gives; every growth,
chain and iteration order of `dict.c` is there. `Objects` runs every operation that
`db.c` performs on a list or a sorted set, with any height for a new node, and is
shown to implement `Container`: a sequence, or a map from members to scores.

`DbTable` is the keyspace as that table, with `expire_cursor`, growth under the
cursor and FLUSHALL, which replaces the table and leaves the cursor. Of an object
only the state of its deadline is kept. It implements `KeyMap`, a map that keys
leave only when they are deleted or have expired.

### `EventLoop` and `Resp`: the clients

A peer has a script, a list of commands in bytes with at most one malformed
item; it connects, sends up to the next of its `Cuts`, reads replies when it likes,
shuts down or is reset. `link` is the kernel's side of a connection and `client`
the fields of the struct. A handler of an event is one step (`HangUp`,
`HandleClient`), because nothing else runs in the process: `read_client` calls recv
in chunks of `READ_CHUNK`, drains the buffer through the parser of `Resp` and
dispatches; `write_client` sends what the socket takes. The accept loop is one step
per connection. `epoll_wait` returns at most `EPOLL_MAX_EVENTS` events in any order, except
that descriptors it had no room for come first the next time; `select` returns all
of them in the order of the array. `accept` and `epoll_ctl` may fail. A reply is its
command, so that a reply in the wrong place shows.

### `Pubsub`: the registry of channels

The table of channels and the lists of clients are those of `Dict` and `List`.
No command reaches them; the callers are the ones `pubsub.h` describes, and a client
that disconnects calls `pubsub_unsubscribe_all` before it is freed. The counter of a
new client is any value of `Leftover`, negative ones included, as `client_init` does not
set it; the history variable `negative` holds the clients that ever started below zero.
`Registry` is a relation between clients and channels and says what each call returns.

## What the runs check

Passing runs:

| run | shows |
|---|---|
| `aof_safety` | with one mishap of any kind, or any combination of nested rewrites, failed children, crashes, stops and torn frames: log and memory are complete as long as there was none; the server appends to the live file; stops and crashes never duplicate a write; without mishaps `Aof` implements `DurableLog` |
| `aof_live` | a background rewrite does not stay in flight, every child is reaped |
| `db_commands` | for every type: no command writes to an object of another type; an error reply means that nothing changed, except that ZADD keeps the pairs before a score that does not parse and that ZADD and HINCRBYFLOAT keep the key they created (`ErrorsConfined`); no list or set is ever empty, nor a hash or sorted set unless such an error left it so; replaying the file, rewritten or not, gives back exactly the dataset (any outcome of SPOP) unless a rewrite has passed over a key left empty; arrays have the length they announce, except ZRANGEBYSCORE with a LIMIT offset beyond the matches; LTRIM, LINDEX and LREM agree with LRANGE, the rank and score queries of sorted sets with each other |
| `db_expiry` | whether an expired key was already removed shows nowhere (DEL and DBSIZE apart); a rewrite keeps every live key, its value and its deadline, whenever it is replayed; KEYS lists the live keys its pattern describes, and the matcher agrees with the reading of patterns on 2,700 patterns |
| `objects` | links, both ends, spans, backward pointers and the dictionary of a sorted set stay sound; searches by rank, key and score find what a scan finds; the structures implement `Container` |
| `db_table` | entries stay in the chain of their hash, once and counted; the table implements `KeyMap`; every expired key is swept although commands move the table under the cursor |
| `event_loop` | commands and replies are neither lost, repeated nor reordered, however the stream is cut and the output is taken; no event of a round outlives its client; output is watched; only a huge command trips the input cap; every complete command is answered, in both loops; a signal ends the loop |
| `pubsub` | a list names a client that is gone only if its counter once started below zero; until a counter does, every step of the registry is one of `Registry` |
| `rdb_saves` | as long as no two saves overlap, the snapshot is always a whole dataset, a clean stop persists, and no save goes back to an older dataset, with failures, kill -9 and leftover temporary files; every save ends, whatever other savers do to its file |

Runs that must find a violation. Each states what a comment or the README of the
repository says; `findings` in `PROJECT.json` quotes the line.

| run | the code |
|---|---|
| `aof_early_reap` | takes the exit of a BGSAVE child for the rewrite child's: the rewrite buffer goes to the file about to be replaced |
| `db_conditional` | replays SETNX on a key that had expired and is alive again: the replay refuses what the server had done, and the key has another value (`ReplayKeepsContents`; deadlines, which the README says are computed anew, do not count) |
| `rdb_overlap` | shares one temporary file among all savers: a half-written snapshot |

What the properties leave out, because the code does not do it, and how to see it:

- `Aof`, by adding the mishap to `Allowed` and to the premise of `LogComplete`:
  a failed rewrite child (`child_failed`) and REWRITEAOF during a background rewrite (`nested_rewrite`) put writes into the log twice; SIGTERM
  during a background rewrite (`stop_in_rewrite`) and kill -9 between the child's
  rename and the reaping (`crash_in_rewrite`) lose the buffered ones; frames
  behind a torn one (`torn_crash`) are lost at the next replay; a log replayed on
  top of a snapshot (`rdb_base`) is applied twice.
- `Keyspace`, with commands of the alphabets, by dropping the exception or the premise:
  a bad score in the middle of a ZADD leaves the pairs before it behind an error reply
  (`ErrorsConfined`); ZADD and HINCRBYFLOAT that fail on a missing key leave an empty
  container (`NoEmptyContainer`), which a rewrite loses (`ReplayReproduces`); a LIMIT
  offset beyond the matches announces a negative count as a huge one
  (`RepliesFramed`); DEL and DBSIZE count expired keys (`ExpiryInvisible`).
- `Keyspace`, by adding the command to an alphabet: SETRANGE beyond the end pads with
  zero bytes, at which a rewritten string is cut (`ReplayReproduces`); DECR can store the
  least integer, which cannot be read back.
- `Keyspace`, by dropping the liveness of the key from `RewriteKeepsLive`: SET with
  a PXAT in the past stores no deadline, and a rewritten log has such a SET for a
  string that expired before the restart, which then comes back for ever.
- `EventLoop`: a command longer than `MAX_QUERY_BUF` less a chunk is never received,
  although the parser accepts bulk strings of eight times that size; the last flush
  of a closing client drops what the socket does not take.
- `Pubsub`: subscribing twice to a channel counts twice and is listed once, so that
  the count a client is told can exceed its channels. From a negative counter left
  over from malloc one SUBSCRIBE leads to zero while the client is listed, and
  `pubsub_unsubscribe_all` leaves a freed client in the lists (`SubscribersLive` without
  `negative`).
- `Rdb`: a BGSAVE child that is still running at a clean stop replaces the final
  snapshot (`StopPersists` without its premise).

### Bounds

`Aof`: two children (a rewriter and a BGSAVE child, or two generations of
rewriters) and four inodes: the log, the file the server still has open, the
temporary file, and a spare; two writes, one before and one after a fork; two
rewrite or save commands, which is what every mishap takes. Children and inodes
are interchangeable, so the safety runs use symmetry; the liveness run
does not. Deadlock is not checked for `Aof`: a bounded run stops when its
writes and starts are used up.

`Keyspace`: two keys, two elements (three members of sorted sets) and three writes
per behaviour; reads, rewrites, restarts and cycles do not count. Each alphabet
holds commands of another type and a malformed write; sorted sets also meet a ZADD whose
first or second score does not parse, and a LIMIT offset of 3, beyond one or two matches. Batches are of two, so
that lists reach several batches and an incomplete one; integers go up to 9, so
that one INCR overflows; the clock goes to 3, with deadlines before, at and
after it.

`Rdb`: the server and one child, two keys, two writes, three files (the snapshot,
the temporary file, and one that was replaced while open). The properties speak
of saves that do not overlap, for which a second child adds nothing; one child
is enough for the overlap of `rdb_overlap`.

`Objects`: lists of up to four nodes, so that `list_node_at` walks from either end
and a node has neighbours on both sides; three members, two scores and heights up
to three, the most at which a level is skipped, opened and closed again; a table
that grows once or twice. `DbTable`: three keys, hash functions that collide until
the table has grown or not at all, and a cycle of one key, so that the cursor stops
at every bucket. `Pubsub`: two clients and two channels, in one bucket or in two, and
counters that start at -1, 0 or 1 and go up to 3, beyond the number of channels.

`EventLoop`: three peers, two places in the client table and two in the event
array, so that one is refused and one is left out of a round; four scripts with all
forms of arguments, an empty command, QUIT, garbage and a command too big; packets
end at `Cuts`, chunks of 9 bytes cut the rest, and a socket holds one reply, so that
sends are partial. `MaxTroubles` allows one failing call, reset, shutdown or
signal per behaviour, `Leavers` says whose connection may break, and peers connect in
the order `Order`, as they are told apart only by their scripts. Deadlock is not
checked: a behaviour ends when every peer has said everything.

`Glob`: stars, question marks and letters up to four bytes, and every class of up to
four bytes of two letters, dash, bang and bracket, alone, before a star and behind one.

### Fairness

`Aof!FairSpec`: weak fairness of each process inside `aof_rewrite` or a save (the
kernel runs ready processes, and their system calls return) and of the two steps
of reaping (the loop reaches `reap_children` after every wait of at most 100 ms).
Commands, crashes, stops and starts are not fair. `Rdb!FairSpec`: weak fairness of
each process inside `rdb_save`, for the same reason. Nothing is assumed of the
order in which processes run. `DbTable!FairSpec`: weak fairness of the expiry cycle,
which every round of the loop calls. `EventLoop!FairSpec`: weak fairness of waiting,
compaction and the end of the loop, and that a round of events comes to an end
(`[]<>~Handling`), which holds as every handler is enabled at its event, uses it up and
never blocks on its non-blocking socket; the peers read what arrives. That
`epoll_wait` starts with the descriptors it left out is what the kernel's ready list
does; without it a full event array could starve a client.

## What is proved

`AofProofs`, for any sets of children and inodes and any bounds, from
`AofAssumption` alone (distinct names, `{} \in Allowed`, natural bounds):

- `TypeCorrect`: `TypeOK`, with the descriptor discipline of `aof_rewrite`.
- `CompleteByPhaseHolds`: the inductive invariant. `LogComplete` is not inductive:
  that the log stays complete over a rename depends on what the temporary
  file holds and on which writes the buffer has, so `CleanInv` says it phase by
  phase. At most one process is inside `aof_rewrite`; its temporary file is
  neither the log nor open for appending; until the rename the log alone
  equals `executed`, and the image of a child followed by the buffer does too;
  from the rename to the reaping, log and buffer together do.
- `LogCompleteHolds` follows from it.
- `LogsToLiveFileHolds` has its own inductive strengthening, because it is
  claimed after mishaps as well.
- `Refinement`: a behaviour without mishaps implements `DurableLog`; initial
  states map to initial states, and every step to a step or a stutter.

`AofOrderProofs`, from the same assumption:

- `NeverTwiceHolds`: `NeverTwice`. Its inductive invariant, `OrderInv`, has the phases
  of `CleanInv`, but a crash has made equality with `executed` too much to ask: the
  log may end in a torn frame or lack writes, and the child of a dead server can still
  rename its file over the log. What remains is order. The log up to its first torn
  frame (`Ordered`), the dataset, and the image of a child followed by the buffer
  (`Whole`) hold increasing write numbers, none beyond the last executed one, so
  that the next write may be appended to each of them.

`EventLoopProofs`, for any peers, scripts and sizes and any parser, from
`LoopAssumption`:

- `EventsStayGood`: `NoStaleEvent`, the safety of the pointers in a batch of events.
- `OutputIsWatched`: `Armed`.

Both rest on `LoopInv`. An event is good only because a round starts with the
clients that exist and are not closing, each handler uses up the one event of its
client, and no client leaves the array before the compaction that ends the round.
`Shape` ties the array to the connections: a member of the array is open, everyone
else has the fields `client_init` gives, and the backlog holds queued connections, once
each, so that accepting never adds a client that is already there. `Round` is
`NoStaleEvent` with the absence of closing clients between rounds. `Watch` extends
`Armed` to the middle of a round: but for closing clients, a registration always
agrees with the output, after every handler.

`RdbProofs`, for any number of keys, files, writes and children, from `RdbAssumption`:

- `TypeCorrect`: `TypeOK`, with the descriptor discipline of `rdb_save`.
- `SnapshotWholeHolds`, `StopPersistsHolds` and `NeverOlderHolds`:
  `SnapshotWholeAlone`, `StopPersistsAlone` and `NeverOlder`.

They rest on `Shape` and `Alone`. That a rename puts a whole dataset in place depends
on everything the saver did before, so `Alone` follows it: while no two saves have
overlapped there is one saver at most, the temporary file is its own, is not the
snapshot and holds its image up to its offset (`OneSaver`). Order is kept
because the image of a running save lies, key by key, between the snapshot and
the dataset in memory; after a clean stop nobody saves and the snapshot is the
dataset of the stop (`OneSnapshot`).

The proof of each invariant has one step per action. The invariants of the proofs hold
on the instances of `aof_safety`, `event_loop` and `rdb_saves`, where TLC tried them first.

Only model-checked: liveness (`RewriteEnds`, `ZombiesReaped`, `SavesEnd`,
`ExpiredSwept`, `Answered`, `StopEnds`), as the prover has no fairness;
everything about `Keyspace`, whose replay is a fold over the log, that is, an induction
over data; `Objects`, `DbTable`, `Pubsub` and the parser, whose operators are
recursive.

## What is not modelled

- fsync and loss of power: the page cache survives in all models.
- Encodings: bytes of snapshot records and of floating-point numbers; RESP frames are
  modelled as input (`Resp`) and as records in the log.
- Wrong numbers of arguments of reads, unknown commands, INFO, COMMAND, PING and
  ECHO: they change no dataset.
- Memory ownership other than of list and skip-list nodes and of clients, allocation,
  logging, the random numbers and the hash function itself.
- Errors that end the loop: a failing `epoll_create`, `epoll_wait` or `select`.
- `dict_random_entry`: SPOP may draw any member.
- A command in the middle of which the clock moves (KEYS, SINTER and SDIFF read it
  several times).
