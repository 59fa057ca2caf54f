# Verification of plainframework

TLA+ models of the core of plainframework (`src/pf/core`), TLC configurations
that check them on small instances, and TLAPS proofs of the results that matter
most for every instance. `PROJECT.json` is the index: components, runs, the line
ranges each definition stands for, findings, hazards and theorems.

## The system

The framework is a set of services a game or application server is built from.
One process runs a kernel thread and one thread each for the net, the database,
the script environment and the cache; several processes may share a segment of
memory that holds the database cache.

| part | state | operations | interacts with |
|---|---|---|---|
| share lock (`sys/memory/share.cc`) | one atomic byte per mutex, in shared memory | `lock`, `unlock`, guard `unique_lock` | reads `app.status` and `app.cmdmodel` of its process |
| group pool (same file) | dense arrays of items, `pool_position` | `alloc`, `free` (moves the last item into the hole) | DBStore |
| share map (`sys/memory/sharemap.cc`) | nodes in a pool, hash chains by node number | `set`, `get`, `remove`, `pop_front`, iterators | `key_map_`, `query_map_`, `recycle_map_` of DBStore |
| DBStore (`cache/db_store.cc`) | items with status and hook time, `key_map_`, `query_map_`, `forgetlist_`, workers | `put`, `forever`, `hook`, `forget`, `flush`, `query`, `waitquery`, `tick` | the three above, the database, script functions |
| database (`db/`) | connection, ready flag, result of a statement | `query`, `fetch`, statement building | DBStore::query |
| thread pool (`sys/thread.tcc`) | task queue, workers, stop flag | `enqueue`, worker loop, destructor | DBStore::tick |
| kernel (`engine/`) | threads, tasks, stop flag, `app.status` | `init`, `run`, `newthread`, `enqueue`, `stop`, `loop` | everything |
| connection pool and manager (`net/connection/`) | slots, id set, manager ids, packet queue | `create`, `add`, `remove`, `erase`, `destroy`, queue push and pop, `tick` | sockets, connections |
| connection and protocol (`net/connection/basic.cc`, `net/protocol/`) | flags, packet index | `process_input`, `process_output`, `process_command`, `send` | streams |
| streams (`net/stream/`) | a ring of bytes that grows, head, tail | `fill`, `read`, `peek`, `skip`; `write`, `flush`; `resize`, `clear` | socket |

What is hard about it: a lock that several processes share and that gives up when
its own process stops; arrays that move items while maps and iterators hold their
indexes; lists of keys that are worked off ticks later, by another thread, after
the item may have changed; rings of bytes with three ways to receive and two to
send, any of which may stop in the middle; threads that start and stop in an order
the status variables do not enforce.

What makes each part correct: the lock excludes and never hangs a stopped process;
the pool and `key_map_` agree, so that every key finds its own item; a statement is
executed once; a waiting key is queried and an expired item forgotten; a ring is a
queue of bytes, and packets come out of it at their borders; the hash chains of the
share map are a dictionary; tasks run in order and a stop ends the threads before the
main thread leaves; a connection that is up stands in the id set where it says, and a
new one gets a slot nobody uses. The hazards, each at its line, are in `PROJECT.json`.

## Modules

| module | models | from |
|---|---|---|
| `ShareLock` | the lock, its users and the status of their processes | `share.cc` 328-367, `share.h` 93-113, `kernel.cc` 61-89 |
| `ShareLock_proofs` | theorems about it | |
| `Cache` | the abstract cache: a map from keys to entries | `storeinterface.h` |
| `Store` | DBStore called by one thread at a time, on GroupPool | `db_store.cc`, `share.cc` 510-550, `query.cc`, lua `cache.cc` |
| `Store_proofs` | theorems about it | |
| `StoreFlush` | `Store` with the nodes of `key_map_` and the loop of `flush` | `db_store.cc` 882-888, `sharemap.cc` 100-145 |
| `StoreTick` | `tick`, `query_map_`, `forgetlist_` and the workers | `db_store.cc` 639-643 and 890-927, `thread.tcc` 21-63 |
| `StoreTick_proofs` | theorems about it | |
| `StreamBasic` | operators on a ring: resize, length, content | `stream/basic.cc` |
| `ByteQueue` | the abstract queue of bytes | what a byte stream promises |
| `StreamInput` | `fill`, `read`, `skip` of an input stream, as actions for `Protocol` | `stream/input.cc` |
| `Protocol` | the tick of a connection that receives: `process_input`, `command` and the packets it reads | `net/protocol/basic.cc` 22-135, `net/connection/basic.cc` 62-141, `manager/epoll.cc` |
| `Protocol_proofs` | theorems about it, that it implements `ByteQueue` among them | |
| `StreamOutput` | `write` and `flush` of an output stream | `stream/output.cc` |
| `Stream_proofs` | lemmas about rings, theorems about `StreamOutput` | |
| `Dictionary` | the abstract map: the last value of each key | `sharemap.h` |
| `ShareMap` | the hash map in shared memory: pool, chains, buckets | `sharemap.cc` |
| `ShareMap_proofs` | theorems about it, that it implements `Dictionary` among them | |
| `Kernel` | `run`, the threads, `loop`, `enqueue`, `stop`, the end of the program | `kernel.cc`, `kernel.tcc`, `thread.tcc` 100-180, `application.cc` 178-193 |
| `Kernel_proofs` | theorems about it | |
| `ConnManager` | slots, id set and tick of a net manager | `connection/pool.cc`, `manager/interface.cc`, `connector.cc`, `epoll.cc`, `basic.cc` |
| `Listener` | the same manager when it listens: `accept` and its loop; composes `ConnManager` | `manager/listener.cc`, `epoll.cc` 106-119 |
| `ConnManager_proofs` | theorems about both | |
| `MC*` | constants of the runs | |

Definitions named `Mutant...` are changed forms of the definition that follows
them, as a slip in the code would make it. No specification uses them; putting
one in the place of its original must violate the property `PROJECT.json` pairs it
with, which shows that the property says something.

### ShareLock

`mutex` is the atomic byte; `phase` is `app.status` per process, `starting` before
`run`, `running`, `stopped` after `stop`; `pc`, `flag`, `tries` are the position
and locals of a thread in `lock`, its section and `unlock`; `owns` is history: the
exchange of this guard succeeded. One action is one access to shared state:
`Lock` (entry and first test), `Acquire` (a successful exchange), `LockBreak`,
`Unlock` (entry and first test), `Release`, `UnlockBreak`, `Retry` (a failed exchange
counted) and `ForceUnlock` (the unconditional `mutex.exchange(type)`). The weak
exchange may fail spuriously, so `Retry` does not look at the mutex. A failed
exchange of `lock` changes nothing.
A thread may lock before `Kernel::run` has marked its process running, since `run` starts
the threads first: it passes `lock` untouched. `overrun` is history: `run` marked a process
while one of its threads was between `lock` and `unlock`. From then on that thread is in a
section it does not own, and its `unlock` writes its flag over that of the owner, so
exclusion (`ExclusionUntilOverrun`) and `OnlyOwnerReleases` are stated up to that moment;
`Exclusion` without it is what `ShareLockStartup` refutes. `LeftBehindByStop` holds before
and after.

### Store

`position`, `slot`: the arrays of GroupPool, one per table; `index`: `key_map_`; `db`: the
row of each key. An item is its key, its data (statement text or fetched rows), whether it
is text, its status and whether it was hooked. `columns` is not part of an item: a table
with `same_columns` has one header for all of them (`share.cc` 455), which the last select
that found something wrote, whatever its key, and which neither `alloc` nor `free` clears.
For a table without `same_columns` GroupPool multiplies by its own size, 0 (`share.cc` 391),
and reserves no slots, so there is none in the model. A select is the text and, in the
header, the columns it fetches. `Add` and `Replace` are `put` and `forever` of a new and a
cached key; `Write` and `SetStatus` are what script functions do to an item, the first only
when the table's header is known, and perhaps only in part; `Query` is `query` with one of
three answers of the database: it fails, it is done, or it is done and a fetch finds more
than fits, which leaves cut-off rows (`Partial`), a header that was overwritten and the
status of an error; `Forget` is `forget` as a whole: the query, `free` with its swap, the
rewritten `key_map_` entry of the moved item and the removal. A failing early return leaves
everything unchanged and is no action. Each table is assumed to have a share key of its own:
the configuration may give several tables one pool, which the model leaves out. A slot
nobody uses is `Blank`, whatever bytes are left in it, since `alloc` clears a slot before it
gives it away. `Cache` is what callers are told: a map that an operation changes at one key
only, and a header per table that only an operation on a key of that table changes. `View`
maps the arrays to it.

### StoreFlush, StoreTick

`StoreFlush` extends `Store` by the order of the nodes in `key_map_` and the cursor of
the iterator; each turn of the loop of `flush` is one step. `StoreTick` keeps of an
item only whether it is there and whether its time is set, because that is all `tick`
looks at, and adds the lists, the timer of the check, the task queue and the
workers. `tick` is one action with its three parts in order; a worker takes a task and
carries its calls out one by one. `pop_front` keeps the order of nodes the map really
has: the last node takes the place of the first.

### StreamBasic, StreamInput, StreamOutput

A stream is the record of its buffer, its length, head and tail. `Fill` is one action:
it holds all branches of `fill`, with the number of bytes each receive returns chosen
freely, and bytes that come to the socket between two receives are covered by letting
each receive stop early. A fill that receives nothing changes nothing and is no step.
`Write` copies what `write` does with the head and tail it read first. `Flush` is
`process_output` with `flush`; each send takes any part of what it is offered.
`Disconnect` and `Clear` are the clearing of the connection after an error, or when
its slot is given away; `clear` does not shrink the ring. Encryption and compression,
which are off by default, are left out.

### Protocol

Extends `StreamInput`. `phase`, `left` and `count` are where the tick is: `Input` is
`process_input` of a connection epoll has reported, `CommandHeader` a turn of the loop of
`command` that finds a complete packet, up to the `skip` of its header, `ReadField` one
read of the packet's own `read`, `Execute` its answer (continue or break), `CommandEnd`
the end of the loop. `pending` is history: the packets that were sent and not executed.
The peer sends well-formed packets, as `send` builds them; a header has two bytes, the
id and the length. `Disconnect` stands for every error return (a receive that fails, a
packet that is refused) and for a connection the program drops.

epoll reports a socket edge-triggered: `Input` fills when bytes are at the socket, since
what one fill leaves there has come after it (it stops only when a receive got less than
it asked for or `available` was 0), except for a stream that is full with head 0
(`Stuck`), for which `fill` returns without a receive. Such a stream is filled when it
is reported again, which the model does not count on.

### ShareMap

`node` is the pool with the key, value and links of each node, `bucket` the first node of
each chain, `position` the nodes in use. `Found` follows a chain as `getref` does, one turn
of its loop being `After`. The loop of `getref` ends at the node of the key or at the end of
the chain; the walk of the model takes as many turns as there are nodes and stays where it
is when it is over, so that it would stop, and find nothing, if a chain were a ring. That
these turns suffice for every chain is part of the proof of `MapIsDictionary`.
`Insert` is `set` of a new key (`newnode`, `addnode`), `Replace` of one that is there;
`Erase` is `remove` with `delete_obj`: unlink, move the last node into the place, give its
neighbours or its bucket the new number. `pop_front` and `pop_back` are `Erase` of the
first or the last node. `Hash`, the bucket of a key, is any function. The model has one
caller at a time, does not insert into a full pool (`newnode` would read the number of a
null node, `sharemap.cc` 299-301) and has keys no longer than their area and values shorter
than theirs: the zero that ends a value of `valuesize_` characters (`sharemap.cc` 246) would
be the first byte of the next node, in its `key`, which the map itself never reads.

### Kernel

One action is one access to shared state of the main thread (`NewThread`, `SetRunning`,
`LoopCheck`, `LoopFront`, `LoopTake`, `LoopPop`, `LoopUnlink`, `LoopTask`, `WaitEnd`, `Exit`,
`Join`), of a thread `newthread` made (`Start`, `Collect`, `CheckStop`, `Work`, `Leave`), of a
caller of `enqueue` (`EnqueueBegin`, `EnqueueMove`, `EnqueueEnd`), or of a
call of `stop` (`StopBegin` to `StopFlag`), which comes from a signal at any moment, once
or twice. What a thread ticks is `Work`, and its result is not used: the test of
`kernel.tcc` 65 compares a future with bool and is never true. `timedout` is the 30
seconds `loop` waits; `forceexit` decides between `exit(0)` and the joins of `~Kernel`.
`asked` is history: a stop began when `run` was in its loop and all threads were running.

The loop looks at `tasks_`, moves the first task out and removes its place without the mutex
`enqueue` holds, so each of these is a step of its own between which an enqueue may take
any of its steps. That is a data race, of which the model has the outcomes a `std::deque` of
libstdc++ can produce, on accesses to aligned words: the front and the end of the queue are
words of their own, a push stores the task before it moves the end, and what the two sides
share is the map of the nodes (`NodeSize` tasks each, the first node in use up to `Offset`).
A push that takes a new node may move the map (`EnqueueMove`), a pop of the last task of a
node reads it (`LoopUnlink`). When these meet, `torn` is set, and the pop may go on, end the
program or lose any number of tasks.

### ConnManager, Listener

`slot` holds of each connection whether it has a socket (`ready`), its flags `empty_` and
`disconnect_` and its `managerid_`; `position` and `free` are the pool's, `idset` and `size`
the manager's. At first a slot is `Unused`, as the constructor makes it: `disconnect_` is
false and there is no socket; one that was used and given back is `Cleared`. A connection is
up (`Live`) when it has a socket and is not disconnected.

The tick is its parts in order (`phase`), each a loop over the events (`input`) or over the
id set with the length read before it; `Skip`, `Serve` and `Drop` are one turn. `Drop` is
`remove` of the current connection, whatever step of it failed. A turn of the command loop is
two steps, since `process_command` keeps the connection while its packets are executed
(`held`): `Execute`, then `Executed` or `ExecuteFails`, which removes it whatever has become of
it. Between two ticks, and while packets execute, the program connects, sends, removes any
connection or disconnects one, which clears it and leaves it in the id set. In `input` the
model goes over the connections epoll reported in any order.

`remove` does not ask whether the connection is up, and neither does the model: `again`
counts the removals of one that is not (by the program, or by `ExecuteFails` after the
program). Its `managerid_` is -1, so `erase` writes before the array (`idset[-1]`, which is
`Before` at first), takes the last id out and leaves that connection without a place (`Lost`),
and the pool counts the slot free once more. With an empty set it takes `idset[-1]` for the
last id: when that is an id, `size_` goes round to `SizeWidth - 1`. What the loops then read
behind the array is not modelled (`RunsWild`); the invariants say what holds until then.
`remove` returns early when the place is not below `RemoveLimit`, which is the size of a
pointer: the id then stays in the set although its connection is gone.

`Listener` adds what a manager that listens does instead of connecting: the event of the
listening socket, and `Accept` with the slot it clears after `create` marked it taken. The
loop over `accept` counts in the variable of the outer loop, as the code does.

## Runs

| run | instance | shows |
|---|---|---|
| `ShareLock` | 3 threads, 2 processes, 2 flags, 1 failed try before the forced exchange | `ExclusionUntilOverrun`, `LeftBehindByStop`, `OnlyOwnerReleases`, and under fairness `StopFreesThreads`, `SomeoneEnters` |
| `ShareLockStartup` | 4 threads, 3 processes, one of them in the recover model | `Exclusion` is violated |
| `Store` | 3 keys, one table of 2 slots, 1 row content, 2 selects, all statuses | `SlotsMatchKeys`, `ImplementsCache`, `StatementRunsOnce` |
| `StoreFlush` | 2 keys | `FlushRemovesAll` is violated |
| `StoreTick` | 3 keys, 2 of them put, one worker, one waiting task | `ListedOnce`, `WaitingIsQueried`, `HookedIsForgotten` |
| `StoreForever` | 1 key | `ForeverStays` is violated |
| `StreamOutput` | ring of 4 bytes, maximum 6, writes of 1 to 3 bytes | `FlushKeepsOrder`, `WriteBeforeSendAppends` |
| `StreamWrap` | the same | `WriteAppends` is violated |
| `Protocol` | ring of 5 bytes, maximum 7, packets of 3 and 4 bytes, 2 sent at once, 2 in a tick | `Framed`, `BodyIsReceived`, `ImplementsByteQueue`, under fairness `PacketsAreExecuted` |
| `ShareMap` | 5 keys, 4 of one bucket, pool of 4 nodes, 2 values | `ChainsAgree`, `ImplementsDictionary` |
| `Kernel` | 2 threads, 3 tasks, nodes of 2 tasks with the first half used, 2 stops | `TasksInOrder`, `NoWorkAfterLeaving`, under fairness `StopOfRunningEnds`, `TaskRuns` |
| `ConnManager` | 3 slots, `RemoveLimit` 2, 1 disconnect, 1 removal of what is gone, 1 connection with bytes each way at once, 1 client, 2 accepts in a tick; connects or listens | `LiveAreManaged`, `Packed`, `ConnectorFreeIsCounted`, `ConnectTakesFreeSlot`, under fairness `ConnectorSendIsServed` |

Why the bounds are enough. *ShareLock*: two threads in one process and one in another
give every pair; a third contender adds no new kind of step, and the forced exchange is
reached with any `MaxTries`. A process in the recover model only passes by, and is in the
run that needs no liveness. The theorems lift the safety part to all values. *Store*: two slots are the fewest in which
a freed slot can be first, last or only, and three keys the fewest that find the table
full; a key's symmetry is sound because nothing distinguishes keys. Two selects are the
fewest for which a header changes. *StoreTick*: three
keys are the fewest for which `pop_front` changes the order; one worker and one waiting
task suffice for a forget to overtake a put, and the cap on tasks (`MaxTasks`) only
delays `Tick`. `QueueSize` is one more than the keys, so that the list is never full
while a key is missing. *Streams*: a ring of three or four bytes has every relation of
head, tail and end, and a ring that has grown is reached by every branch. `MaxLength`
is a bound of the model only. *Protocol*: the packets fill the ring exactly (4 of its 4
usable bytes) or nearly, so every cut of a packet by the end of the buffer, a resize or
a receive occurs; `MaxPending` bounds what is on its way, and two packets in a tick make
the count of `command` matter. *ShareMap*: four nodes let a chain have a first, a middle
and a last node while the last node of the pool is any of them or of another chain; keys
of one bucket are interchangeable. *Kernel*: two threads are the fewest of which one can
be stopped while another starts, two stops what `--stop` sends; of three tasks the first
ends a node and the second and third fill one, so the map can be moved while a node is
unlinked; `TasksInOrder` and `NoWorkAfterLeaving` are proved for all values. *ConnManager*: with three slots the tick
removes the first connection, moves the last to its place and has one in between;
`CountWidth` stands for 2^32, `SizeWidth` for 2^16, `RemoveLimit` for the size of a pointer,
8 where the default of `MaxSize` is 1024: with 2 and 3 the last place is over it, so that an
id stays in the set whose slot is given away again. `Before` is an id, which lets `size_` go
round; bytes that are no id end `erase` early. `MaxAgain`, one removal of what is gone, shows
one connection without a place, which may be the one that is removed next; `MaxBusy` and
`MaxBacklog` only bound what is under way. The theorems hold for all values of them.

Fairness. `ShareLock`: threads are scheduled (weak fairness), critical sections end,
and the exchange in `unlock` that finds its value again and again succeeds once (strong
fairness of `Release`): a weak exchange may fail spuriously, but not for ever. Nothing
makes a thread lock or a process run or stop. `Acquire` is only weakly fair: the
property is that someone enters, not that everyone does, since the lock has no queue.
`StoreTick`: the cache thread calls `tick` in each frame, time passes, workers run.
Callers are not fair. `Protocol`: the net thread ticks again and again; the peer need not
send. `Kernel`: the threads and the main thread are scheduled, and a call of `stop` and one
of `enqueue` run to their ends; nobody has to stop or enqueue. `ConnManager`: the thread of
a manager that connects ticks it, the execution of a packet returns, and nothing is assumed
once `size_` has gone round. The tick of one that listens is not assumed to end: after an accept
that fails the outer loop goes on at the second event, and can come to the listener again
for ever (`epoll.cc` 116).

Three properties hold with a premise the code does not give. `WaitingIsQueried` assumes
that callers stop adding keys at some time: the newest key is moved to the front, so an
old one can be passed over for ever. `PacketsAreExecuted` has the premise `FitsRing`, that a
packet is shorter than the ring at its first size; without it the property is false: `fill`
leaves a stream that is full with head 0 as it is (`input.cc` 117-120), and packets may have
up to 100 KB (`packet/config.h`) where the ring starts with 64 KB. The framing of packets
and the refinement do not need it. `ConnectorSendIsServed` ends with the first removal of a
connection that is gone: it can take another one out of the id set, to which no tick
comes any more.

## Findings

* `kernel.cc:79` sets `app.status` after the threads have started. A thread that locked
  before does not have the lock, and another takes it (`ShareLockStartup`).
* `flush` leaves every other key; with an odd number of keys it does not end
  (`StoreFlush`).
* a key in `forgetlist_` that was forgotten and stored again with `forever` is
  forgotten by the worker (`StoreForever`).
* `Output::write` loses the last byte of the buffer when it goes over the end, and
  writes at the old place in a ring that `resize` has moved (`StreamWrap`). Both need a
  send that took only a part: before one, writes are right
  (`WriteBeforeSendAppends`).

Four more properties are stated beside the code they are about, are false of it, and have
no run of their own; as a property of the module's run each gives its trace:

* `UpdateIsSaved` (`Store`): `db_store.cc:763`
  builds updates with a query object that is not initialised, the text stays empty, and a
  row marked `kQueryUpdate` is never saved.
* `StopEnds` (`Kernel`): a stop that comes before `kernel.cc:79` is overwritten there, and
  `thread::stop` passes over a thread that has not yet marked itself running; the program
  goes on, or its main thread waits for a thread nobody stops.
* `NeverTorn` (`Kernel`): `loop` removes a task without the mutex of `enqueue`
  (`kernel.cc:207-212`); a push that moves the map of the queue meets a pop that unlinks a
  node.
* `AcceptTakesFreeSlot` (`Listener`): `accept` clears the slot `create` has just marked as
  taken (`listener.cc:37`), so a connection that is up looks empty and a later accept may
  take its slot.

Nor is every connection that is up in the id set: `process_command` removes a connection its
packet may have removed (`epoll.cc:209-214`, `interface.cc:135`), which takes the last one
out. `LiveAreManaged` says how many this can cost, one for each such removal.

Seen while reading and not modelled: the packet queue of a manager is null until its first
resize, and the first `send` to it dereferences it (`interface.cc` 223); a slot for which
`Connection::init` fails is never given back (`connector.cc` 15-18).

## Proofs

`ShareLock_proofs`, for any processes, threads, flags and tries, with threads that lock before
their process is marked. The properties are not inductive: that two threads are not in
the section says nothing about who may take the mutex next. The invariant `LockInv` adds,
until `run` overran a section, that a thread which owns the mutex finds its own flag there,
that owners are unique, and that a thread in its section whose process is up is an owner; the
forced exchange then writes the flag that is there already, or follows a stop. What stays
true afterwards is that a flag in the mutex is that of a thread on its way to its `unlock`
(`WriterIsInside`), unless a process stopped. `TypeCorrect`, `MutualExclusion` and
`NothingLeftBehind` follow, `NoTheft` is an action property of its steps.

`Store_proofs`, for any keys, tables, sizes and statuses. `StoreInv` is the conjunction of
`TypeOK` and `SlotsMatchKeys`; it is inductive because the second conjunct states the
agreement in both directions: every cached key has its slot and every used slot its
key. Lemmas treat the three kinds of steps: one that changes an item in place, `Add`, and
`Forget` with and without a move. `StoreTypes`, `KeysFindTheirSlots` and `StoreIsCache`, the
refinement: the same lemmas show that a step on one key is a step of `Cache` on that key
and that what is seen of all others stays (`ViewChanges`), and that the header changes for
the table of that key only, also when a fetch is cut off. That `Add` finds its table
below its size is a count of keys against a count of slots: `key_map_` is an injection
of the table's keys into the slots in use (`TableCount`). `RunsOnce` is the action property
that a row changes only by a statement that was marked and whose mark is gone afterwards.

`Kernel_proofs`, for any numbers of threads, tasks and stops. `KernelInv` adds to the
properties how many threads are counted (`Tallied`, the cardinality of a set), what a
thread's status says of where it is, and `AskedInv`: how far a stop of the running engine
has come, namely that it sees all threads, has stopped those before the one it is at, and
stops all of them before `app.status`. For the tasks, `TaskInv` says that the queue the loop
found with a task still has it at each of its unlocked steps, whatever an enqueue does
between them, and that a task in hand is held only between the take and its run; past
`torn` nothing is claimed of the order. `KernelTypes`, `TasksRunInOrder` and
`MainWaitsForWork` follow; the property behind the last one alone is not inductive, since it does not say that the
main thread leaves its loop only after the stop has passed all threads.

`ConnManager_proofs`, for any sizes, any `RemoveLimit` and anything before the id set, for managers
that connect and that listen, and however often what is gone is removed. That every
connection that is up has its place is not true; what is inductive is the other direction
(`Managed`: a place that a connection names holds that connection) with `Packed`, the types
and a count: no more connections are up without a place than there were removals of
what was gone (`LostInv`). `RemoveStep` shows it for `remove`: of a connection in its place,
whose place the last one takes (and may be `RemoveLimit` or more, when the set stays as it
is), and of one that is gone, which costs at most one its place (`LostMoves`). `LiveIsTaken`,
which holds for managers that connect only, adds that a connection is up exactly when it is
not marked empty; from it follow `ConnectTakesNoLiveSlot` (an action property) and
`FreeSlotsAreCounted`, where each step changes the empty slots, the disconnects and the
second removals by as much as the pool's count, taken modulo `CountWidth`
(`CountGoesRound`).

`StoreTick_proofs`, for any finite set of keys and any limits. `TickInv` is `TypeOK` and
`ListedOnce`, which is inductive once a lemma says what `pop_front`, with the node it moves,
leaves of a list without doubles. `TickTypes` and `KeysAreListedOnce` follow. The keys are
finitely many by assumption, since the check puts a list of them in `forgetlist_`.

`Stream_proofs`, for rings of any length, holds first what the proofs about both streams rest
on: the bytes that are taken off the front and the ones that stay make up what the ring held
(`TakenContent`), over the end of the buffer too (`OverTheEnd`), and `Resized` keeps all of it
(`ResizedKeepsContent`). About the sending stream it proves `OutputIsStream`, the types;
`FlushInOrder`, that what a flush gave to the socket and what it left make up what the ring
held, by cases on whether the flush sends one part or two and where it stops;
`FirstWritesAppend`, for a write that fits and for one that makes the ring grow. The last one
needs that nothing was sent yet: the finding above shows what a write does after a send.

`Protocol_proofs`, for buffers, receives and packets of any length under `ProtocolAssumption`,
which does not ask whether a packet fits the ring, has two parts.

* `ProtocolReadsQueue`: `Protocol` implements `ByteQueue`. The invariant `RingInv` says that
  the ring is a ring and that what a packet has left is a number, for which the bytes are
  numbers by the assumption. `FillStage` describes a fill that is under way: what it has
  taken off the socket stands behind what the stream held. One receive keeps it, so does the
  second one at the front of the buffer, and so does the receive after a resize; hence a
  whole `Fill` is one `Receive` of the queue. `read` and `skip` are the queue's, `disconnect`
  is its `Clear`, and the other steps of the tick change no byte.
* `PacketsStayFramed`, `BodiesAreReceived` and `ProtocolTypes` follow from `FrameInv`.
  `Framed` alone is not inductive: it does not say that a packet is there while its body is
  read, that no more is left of it than its body has, nor that the rest of it is in the ring
  and not at the socket, without which a read could fail. `BodyInv` adds these. A step is
  then a step on the bytes of ring and socket together: a packet that is sent comes behind
  all others (`BehindMore`), the header that is skipped is the one of the first packet and
  its body follows (`BehindFirst`), a field is taken off the front of what is left
  (`DropHolds`), and a fill moves nothing (`FillHolds`).

`ShareMap_proofs`, for any keys, values, size and hash. `ChainsAgree` is not enough for an
induction: a ring of nodes that no bucket points to satisfies it, and a key in it is never
found. `MapInv` says instead that there is an order of the nodes which rises along every
chain, and states of `ChainsAgree` both directions of each link. `remove` is two steps in the
proof, as in the code: `UnlinkedChained`, that the chains are whole without the node, for the
four cases of its neighbours, and `MovedChained`, that they stay so when the last node gets
its number, the order going along with it. `MapStaysOrdered`, `MapTypes` and
`ChainsStayWhole` follow. For `MapIsDictionary` the walk has to reach the node of the key. It
passes every node of the chain up to that one, since the first node in the order that it
missed would come right behind one it passed (`WalkArrives`); and it has turns enough, since
the order rises from turn to turn, so that it passes no node twice and the used nodes are
at least as many as the turns taken (`RoomBehind`). Then `get` answers what the used nodes hold
(`GetFinds`), and each operation changes that at one key, as one of `Dictionary` does.

`ConnManager_proofs` also proves the types of both kinds of manager
(`NetVariablesKeepTheirTypes`), with the places of the tick's loops in their bounds.

Two of these proofs are about something recursive: the walk along a chain, and the packets laid
end to end (`FlattenSeq`). The induction theorems of the library take an operator as a parameter
and cannot be used; the proofs take the least number for which the claim is false, which
exists because `<` is well-founded on the numbers (`LeastNumber`), and show that the claim
is false for the number before it.

Only model-checked: liveness, which is `StopFreesThreads`, `SomeoneEnters`, `WaitingIsQueried`,
`HookedIsForgotten`, `StopOfRunningEnds`, `TaskRuns`, `ConnectorSendIsServed` and
`PacketsAreExecuted`. It rests on fairness and ENABLED, which the prover does not treat. Every
invariant, action property and refinement of a passing run is proved. The properties of the
violated runs are false, as their findings say.

## Plan

Done, in this order: `ShareLock`, `Store`, `StoreFlush`, `StoreTick`, the streams,
`Protocol`, `ShareMap`, `Kernel`, `ConnManager` with `Listener`, and the proofs above. Left:

1. Two threads in DBStore and in the share map: `put`, `query` and `forget` with the item's
   mutex in the slot that `free` moves, `set` and `remove` with the lookup before the lock.
2. The sending side of `Protocol` over `StreamOutput`, with a write that fails.

## Not modelled, and why

ODBC, sockets, epoll and select, files, processes, logging, string and time helpers are
calls to the system or formatting; the models keep what they may answer. The script
interpreters only bind functions. Encryption and compression of streams are optional
filters around third-party code. `forgetall`, `increment`, `decrement` and `recycle` of
DBStore are left out: nothing but an explicit call ever fills `recycle_map_`. The packet
queue and `destroy` of the connection manager are not used by anything that runs, see
above; select and iocp are other systems' ways to the events of epoll. Vendored libraries (lua,
iconv, zlib, minilzo) are not this project's code.
