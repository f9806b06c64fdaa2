# A TLA+ development of basket

basket is a library of distributed data structures for MPI programs: a hash map,
ordered maps and sets, queues, a clock and a sequencer, each split into one shard
per server. This directory holds TLA+ models of its concurrent core, TLC
configurations that check them on small instances, and TLAPS proofs for every
number of processes, servers, keys and values. `PROJECT.json` ties every
definition to the lines of C++ it models, lists the runs, the mutations of the
code that each property detects, the hazards and the theorems.

## 1. The system

### Components

| component | state | operations | source |
|---|---|---|---|
| `unordered_map` | per server: a boost hash map and an `interprocess_mutex` in a memory-mapped file; `binding_map` | `Put`, `Get`, `Erase`, `GetAllData`, `GetAllDataInServer`, `*WithCallback`, `Bind`, `Call` | `include/basket/unordered_map/` |
| `map`, `multimap`, `set` | the same with a tree | `Put`, `Get`, `Erase`, `Contains` (a range), `GetAllData`; set: `SeekFirst`, `PopFirst`, `SeekFirstN`, `Size` | `include/basket/{map,multimap,set}/` |
| `queue` | per server: a boost deque and a mutex | `Push`, `Pop`, `Size`, `WaitForElement` | `include/basket/queue/` |
| `priority_queue` | per server: a heap and a mutex | `Push`, `Pop`, `Top`, `Size` | `include/basket/priority_queue/` |
| RPC call path (`RPC`) | server: listening port, `RPC_THREADS` workers, bound functions; client: server list | `bind`, `run`, `call`, `callWithTimeout`, `async_call` | `communication/rpc_lib.{h,cpp}` |
| `RPCFactory`, `Singleton` | one `RPC` per port, one instance per type | `GetRPC`, `GetInstance` | `rpc_factory.h`, `singleton.h` |
| `ConfigurationManager` | role and placement of the process, server list | `LoadServers`, `ConfigureDefault*` | `configuration_manager.h` |
| `global_sequence` | per server: a counter and a mutex | `GetNextSequence`, `GetNextSequenceServer` | `sequencer/` |
| `global_clock` | per server: a start time and a mutex | `GetTime`, `GetTimeServer` | `clock/` |
| macros, `CharStruct`, `AutoTrace` | none that matters here | RPC wrappers, strings, logging | `common/` |
| tests | none | drivers; `simple_test` is a small protocol of its own | `test/` |

### How they interact

Every operation of every container has the same frame. The caller computes a
server index `key_int`, by a hash of the key or from an argument. If it is the
caller's own server and `server_on_node` holds, the caller runs the `Local*`
function itself, on the file it has mapped. Otherwise `RPC_CALL_WRAPPER` opens a
connection to the server, where one of `RPC_THREADS` worker threads runs the same
`Local*` function and answers. Calls are synchronous. So the actors that meet in
a shard are all processes of the server's node and all worker threads of the
server, and nothing but the `interprocess_mutex` in the mapped file, which each
`Local*` function takes with a `scoped_lock`, orders them. Two functions leave it
out: `queue::LocalWaitForElement`, which polls `size()` without end, and
`set::LocalSize`.

### What is hard, and what makes it correct

* **Interleaving inside a `Local*` function.** It looks something up and acts on
  what it found. Correct: the look-up is still valid when it is used
  (`IteratorFresh`, `ItFresh`, `FrontFresh` and `TopFresh`, conjuncts of each module's
  `IndInv`, `ShardInv` or `ScanInv`), a key has one node (`OneHome`, and `OneNodePerKey` in
  `ShardInv`), and operations are linearizable (`Linearizable`), those that erase
  and insert in two steps (`multimap::Put`) and those without a lock (`set::Size`)
  included.
* **Two addresses for one key.** `unordered_map::Put` and the callback operations
  truncate the hash to 16 bits and then reduce it; `Get` and `Erase` reduce and then
  truncate. Correct: a key is looked for where it was put (`MissIsAbsence`).
* **Operations over several servers.** `GetAllData` and `Contains` visit the servers
  in turn, a lock at a time. Correct: the result is sandwiched between what was
  always and what was ever in the map (`ScanSound`, `ScanFindsAll`, `ScanKeysOnce`).
* **A branch for one element.** `LocalContainsInServer` treats a shard of exactly one
  element apart, and the two branches disagree about the bounds. Correct: the general
  branch is the range (`ScanIsRange`); what the other adds or leaves out is known
  (`OneElementErrs`, `StraysAreAlone`, `ScanForgetsOnlyStart`, `MultimapFindsKey`).
* **Limits.** The segment is of fixed size; the port of a call is an `int16_t`.
  Correct: a failed insertion changes nothing, releases the lock and frees the worker;
  the port called is the port listened on (`PortsMeet`).
* **Waiting.** A call waits for a worker, then for the mutex; `WaitForElement` waits
  for data while it occupies a worker. Correct: calls drain (`CallsDrain`), a consumer
  and its producers finish (`Terminates`), and the pop after a wait succeeds
  (`PopAfterWaitSucceeds`).
* **Start-up.** Servers remove, create and fill backing files and bind handlers, some of
  them before the state that the handlers use exists; clients open the files and look
  objects up by name. Correct: no handler runs too early (`HandlersFindState`), every
  constructor succeeds (`NobodyFails`), and a client works on the object of its own server
  (`ClientsMeetServer`).
* **Crashes and reruns.** A job that loses a process leaves its files behind, with a mutex
  whose holder died perhaps. RPC errors are handled by nobody. Correct: what an earlier job
  left is never used (`ClientsMeetServer`, `NoStaleLock`), and some later job runs to its
  end (`Recovers`).
* **Configuration.** `num_servers` is copied into a container before the server list is
  read. Correct: it is known which statement of the program decides what each container
  counts (`NumServersAgree`), and a server is called where it listens (`HostsMeet`, which
  Thallium's server does not satisfy).

`PROJECT.json` lists each of these hazards at its line.

## 2. The modules

| module | role |
|---|---|
| `RpcContainer` | the frame of a call: `Dispatch`, `Accept`, `Acquire`, `Advance`, `Release`, `Finish`; `LockDiscipline` |
| `Routing` | the two routes of a hash, and port arithmetic with its 16-bit conversions |
| `RangeScan` | the range query of one shard in `map`, `set` and `multimap`, branch by branch |
| `PureCheck` | `Routing`, `RangeScan` and `Configuration` over ranges of inputs; a process's start runs a statement at a time |
| `AtomicMap` | what a distributed map promises: one map, operations that happen in an instant |
| `UnorderedMap` | `unordered_map`, on `RpcContainer` and `Routing`; refines `AtomicMap` |
| `UnorderedMapScan` | `UnorderedMap` with two history variables for what a `GetAllData` may return |
| `OrderedMap` | `map` and `multimap`, on `RpcContainer`, `Routing` and `RangeScan`; refines `AtomicMap` |
| `AtomicSet` | what a distributed set promises: an ordered set per server |
| `OrderedSet`, `OrderedSetScan` | `set`, likewise; refines `AtomicSet`; with history variables for `Contains` |
| `ValueBags` | the contents of a `std::priority_queue`, as a bag: `WithValue`, `WithoutValue`, `BagSize`, `IsGreatest` |
| `AtomicQueue`, `AtomicPriorityQueue` | what the queues promise |
| `Queue`, `PriorityQueue` | `queue` and `priority_queue`, on `RpcContainer`; refine the two |
| `QueueConsumer` | the program of `test/simple_test.cpp`, for any number of producers and rounds, on `Queue` |
| `GlobalSequence` | `global_sequence`, on `RpcContainer` |
| `Configuration` | `ConfigurationManager` and `RPCFactory` as functions; checked by `PureCheck` |
| `StartUp` | constructors, destructors and calls of a container, of `global_sequence` or of `global_clock` around its backing file, with crashes and reruns of the job |
| `MC*` | instances for TLC |
| `SharedProofs` (of `RpcContainer` and `PureCheck`, and the lemmas the others share), `UnorderedMapProofs`, `OrderedMapProofs`, `OrderedSetProofs`, `GlobalSequenceProofs`, `QueueProofs`, `PriorityQueueProofs`, `StartUpProofs` | TLAPS proofs |

### State and actions against the code

`stage[c]` is the program counter of process `c`'s call, whoever executes it: `sent`
(request on its way or queued), `entry` (first line of the `Local*` function), `read`
(in the scope of the lock, looking at the structure), `apply` (acting on what was
found), `unlock` (return value built, lock still held), `reply` (lock released).
`target[c]` is `key_int`; `mutex[s]` is the `interprocess_mutex` of server `s`'s
segment. A process has one call at a time, so the state of a call executed by a
worker thread is also kept under its caller's name; the worker threads themselves
are counted (`Busy(s)`, at most `RpcThreads`).

In `UnorderedMap`, `shard[s]` is the server's hash map, as a set of key-value pairs,
so that a duplicate node, which the code must avoid, can be represented. `it[c]` is
the iterator the look-up returned: the set of nodes it found. `res[c]` is the return
value. `got[c][s]` is the part of `final_values` that `GetAllData` has appended from server
`s`, whatever was there before. The one line
`myHashMap->insert_or_assign(key, data)` becomes `Find` and one of `PutAssign`,
`PutInsert` and `PutExhausted`, because inside it the look-up precedes the write and
other actors may run between the two if the lock is not exclusive. `LocalGet` and `LocalErase` are
split likewise. Each operation goes `Put`/`Get`/`Erase`/`GetAllData`, possibly
`ServeRequest`, `Lock`, `Find`, an applying step, `Unlock`, `Return`; a `GetAllData`
goes round `NextServer` once per server.

In `Queue`, `queue[s]` is the deque, `front[c]` the copy `LocalPop` makes before
`pop_front`. `PushReserve` finds the room and `PushBack` links the element.
`WaitForElement` goes from `entry` to `reply` without the lock. While some call is in
`apply` on the deque, its unlocked `size()` is a data race and may come out either
way; `WaitSeesElement` and `WaitSpins` are then both possible.

`OrderedMap` stands for two classes that differ in `LocalPut` and
`LocalContainsInServer` only; `kind`, chosen at the start, says which of them a
behaviour is about. `tree[s]` is the server's tree as a set of key-value pairs. `map`
inserts or assigns as `unordered_map` does. `multimap::LocalPut` erases what `find`
returned (`PutErase`) and inserts (`PutInsert`); `gone[c]` holds the erased pair in
between, so that the refinement can say that it still counts.

In `OrderedSet`, `tree[s]` is a set of numbers and `it[c]` what `find(key)` or
`begin()` points to. `LocalSize` goes from `entry` to `reply` without the lock; it
reads one word, which an `insert` or `erase` under way has or has not changed yet. The
remote branch of `SeekFirstN` converts a pair of `bool` and key to a pair of `bool` and
vector and does not compile when it is instantiated, so that the model has the local
branch only.

`RangeScan` writes an iterator as the key it points to. `ScanStart` is
`lower_bound(key_start)` with the step back and forth that follows it, `ScanLoop` the
loop up to `key_end`. `multimap` compares keys by their own `Contains`, which is
equality in every key type of the repository.

In `PriorityQueue`, `heap[s]` is a bag of numbers and `top[c]` the copy of `top()`
that `LocalPop` makes before `pop()`. `PushReserve` finds the room in the vector,
`PushUp` appends the element and moves it to its place. `size()` is `BagSize`, the number
of copies of all values; that this is the cardinality that the standard module `Bags`
defines by recursion is `SizeAssumption` of `MCPriorityQueue`, which TLC evaluates on all
bags of up to three copies of each value.

In `GlobalSequence`, `value[s]` is the counter. `++*value` is `ReadValue`, which takes
`copy[c]`, and `Increment`, which writes it back incremented. Two history variables
serve the properties: `issued[s]`, the numbers of a server in the order of the writes,
and `since[c]`, how many there were when the call began. `GetNextSequence` does not
compare servers as the other operations do; it uses the caller's own server, on the
mapping or by an RPC.

`StartUp` follows one object of one of three kinds (`kind`) through an MPI job, and the
job through its reruns. A process is a script: `at[p]` counts the statements of its
constructor and destructor it has done, and each action `At(p, step)` is one of them. A
container's server goes `file_mapping::remove`, `managed_mapped_file(create_only)`, the two
`segment.construct`, `bind`; those of `global_sequence` and `global_clock` bind first and
construct the object before the mutex (`ContainerScript`, `SequenceScript`). A client on
the node opens the file and calls `segment.find`. `dir` is the directory, `file[i]` an
inode with the object and the mutex constructed in it, `maps[p]` what `p` has mapped; a
file that is removed while it is mapped lives on, as it does in POSIX. `file[i].old` says
that it was made by an earlier job. A call is `Invoke`, for an RPC `Accept`, then `Lock`,
`Unlock`, `Return`, any `Local*` function being a critical section here. `wild` is a
handler that runs before the pointers it follows are set: it may bring the server down or
return anything. `fate[p]` says whether `p` was killed (`crashed`) or ended by an exception
or a null pointer in its constructor or its call. `NextJob` is the next `mpirun` after a
job that has lost a process: the linked files stay, with the locks of the dead.
The tests wait in `MPI_Barrier` between the servers' constructors and the clients', and
before they delete; `program.barrier` is FALSE for programs without the first of the two.

`Configuration` says what each statement of a process's start (`Configure*`, an assignment
to `NUM_SERVERS`, construction of a container on a port) does to what the process knows,
`Knowledge`. The state of `PureCheck` is its `input`: for the functions a tuple of arguments,
which never changes; for a process the server list file, the statements executed so far and
its knowledge after them, and `ExecuteStatement` is the next statement of the program,
whatever it is. `MaxStatements` bounds the length of programs.

### Abstractions

* A key is a model value, in the ordered containers a number, with a hash, which is any
  natural number; a value is a model value, in the priority queue a number. `Compare` is
  its default, `std::less`; the vectors that ordered scans return are sets. The order of
  pairs in a hash map and in the vector of `GetAllData` is left out.
* A segment of `memory_allocated` bytes is a number of nodes, `Capacity`. Fragmentation
  and rehashing are left out: the model's allocator fails exactly when the nodes are
  used up. The abstract specifications allow failure at any time for an absent key.
* An exception is an outcome (`bad_alloc`) of the operation. With rpclib,
  `suppress_exceptions` turns it into an error answer that `call` throws again.
* In the modules of the containers connections are reliable, processes stay up, and the
  constructors have finished before the first call. `StartUp` is about when this is so: a
  process that dies or a server that cannot be reached ends the job, because nothing in
  basket catches the error or unlocks a dead process's mutex, so that no container
  operation goes on after a crash within the same job.
* `Inodes` bounds how many files exist at a time and never matters in the instance: each
  server links one at most, and each process maps one at most.
* The counter of a `global_sequence` is a natural number; its 2^64 values outlast any
  program. `MaxCalls` bounds how many numbers each process asks for.
* A server list is a number of servers; `MY_SERVER` and `SERVER_ON_NODE` are constants
  per process. Every combination the configuration can produce is allowed.

## 3. What is model-checked

All runs but the two marked *violation* pass.

| run | instance | what it shows |
|---|---|---|
| `umap` | 2 processes (1 local to server 0, 1 always remote), 2 servers, 2 keys at home in one shard that holds one node, hashes 65536 and 2, 2 values, 1 worker; 30 125 states | `IndInv` (with types, `LockDiscipline` and `IteratorFresh`), `OneHome`, `MissIsAbsence`, `Linearizable`, `CallsDrain` |
| `umap_scan` | 2 processes, each may scan while the other puts and erases, a key on each server; 187 988 states | `ScanInv`, `ScanSound`, `ScanFindsAll`, `ScanKeysOnce` |
| `pure` | hashes around 0, 2^16 and 2^17, 17 server counts, ports around 2^15; all shards and queries over 7 keys; all process starts of up to 4 statements over server lists of up to 2 lines; 80 918 states | `RoutesAgreeIfDivides`, `PortsMeet`, `ScanIsRange`, `OneElementErrs`, `MultimapFindsKey`, `NumServersAgree` |
| `ordered_map` | 2 processes (1 local, 1 remote), 3 servers, 3 keys in a shard that holds two, 2 values, both classes; 1 171 602 states | `ShardInv`, `StraysAreAlone`, `ScanForgetsOnlyStart`, `Linearizable` |
| `ordered_set` | 2 processes on 2 nodes, one of them scanning, 2 servers, 3 keys in a shard that holds two and one in the other; 1 396 269 states | `ScanInv` (with `ShardInv`), `ScanSound`, `ScanFindsAll`, `StraysAreAlone`, `Linearizable` |
| `queue` | 3 processes (2 local, 1 remote), a deque of 2 elements; 113 383 states | `IndInv`, `Linearizable` |
| `queue_consumer` | a remote consumer, 2 producers with 2 pushes each, 2 workers; 22 493 states | `PopAfterWaitSucceeds`, `Terminates` |
| `priority_queue` | 3 processes (2 local, 1 remote), 3 values, a vector of 2 elements; 461 620 states | `IndInv`, `Linearizable` |
| `sequence` | 3 processes (2 local to server 0, 1 remote) with 2 calls each to any of 2 servers, 1 worker; 247 000 states | `IndInv`, `NumbersInOrder`, `LaterCallsGetGreaterNumbers` |
| `start_up` | each kind of object; server 0 alone or with server 1 on the node; a client on server 0's mapping and one that uses RPCs; with the tests' barrier up to 2 processes killed at any points, without it one server and one process killed; 62 118 states | `IndInv`, `NobodyFails`, `HandlersFindState`, `ClientsMeetServer`, `NoStaleLock`, `Recovers` |
| `umap_three_servers` | *violation*: 1 process, 3 servers, hash 65536 | `MissIsAbsence` fails: `Put` goes to server 0, `Get` to server 1 |
| `thallium_hosts` | *violation*: lists of up to 4 hosts, servers on ranks that need not be their index | `HostsMeet` fails: server 0 on rank 1 listens on the list's second entry, or behind its end |

Why the bounds are enough. What can go wrong in a shard is a race of two actors, so
two processes show it, and three, where the state space allows them, a third that
waits meanwhile. Two servers give a scan a first and a second leg. One worker thread
makes remote calls queue. Two keys are enough for an exhausted segment and for a scan
that has passed one shard and not the other; hashes on both sides of 2^16 matter for
the routes only. Two calls per process let one begin after another has returned. Three
keys and room for two give the ordered containers shards of none, one and two
elements, an exhausted segment, and a key before, in and after a range; `Contains(1, 1)`
and `Contains(1, 2)` are called on them, and `PureCheck` has all ranges. Scans change
nothing, so that one process that scans (`Scanners`) is enough where the others change
things. Two kills let a rerun be killed in its turn, over files that two earlier
jobs have left in different states; two servers are the least that can share a file name,
and two clients the least that reach a mutex by the mapping and by an RPC. The proofs
remove these bounds for every safety property of the passing runs.

`sequence` turns the deadlock check off, because every process stops after `MaxCalls`
calls; so do `queue_consumer` and `start_up`, whose programs end. The other runs have it
on.

`PortsMeet` states what the arithmetic gives: with rpclib the `int16_t` port of a call
is always the port listened on, because two conversions undo each other; with Thallium,
whose address is text, exactly while `RPC_PORT` plus the server index stay below 2^15.

The comment over `LocalPut` and `Put` of `unordered_map` (`unordered_map.cpp:140` and `154`)
promises `false` for a `Put` that fails. No path returns it: with the segment exhausted
`insert_or_assign` leaves with the allocator's exception, which is what `PutExhausted` and
`AtomicMap` have, and what `Linearizable` is checked with.

### What Contains returns

On a shard of two elements or more `Contains` is the range with both bounds included.
On a shard of one element `set` returns that element if it is not below `key_start`,
`map` if it is above `key_start`, and `multimap` in any case. So a caller of `map` can
miss the element with `key_start` itself, and a caller of any of the three can get an
element from beyond the range, at most one per server. Nothing in the repository says
what `Contains` should return there; the properties state what a caller can rely on.

### Start-up

The conditions of the `StartUp` properties say what a program has to do. With the tests'
barrier, and unless two servers of a node share one file name, all of it holds.

* *Without a barrier* a client may open a file that is not there yet, or find nothing in
  it, and a remote call may come before its function is bound; the containers bind last,
  so that even then no handler sees unset pointers. `global_sequence` and `global_clock`
  bind first, and only the barrier keeps calls away (`HandlersFindState`).
* *Two servers of one node.* `global_sequence` and `global_clock` name their file without
  the server's index. The second server removes the first one's link, or finds the name
  taken and throws, and clients of the first find the second one's file or none. For
  `global_sequence` a client then has null pointers, since the object's name does have the
  index, and never another server's counter; for `global_clock`, whose object is `"Time"`
  whoever made it, it reads the clock of the wrong server. Hence `Distinct` in
  `NobodyFails` and the condition in `ClientsMeetServer`.
* *Killed processes.* A mutex whose holder died is never unlocked. What saves the next job
  is that servers remove and create their files anew before any client opens them
  (`NoStaleLock`, `Recovers`).

`NumServersAgree` says which number of servers each container of a process has, in a program
of any statements in any order: what the last statement before its construction that set
`NUM_SERVERS` left behind. A `Configure*` and the first container on a port leave the number
of hosts of the list, an assignment the number it assigns. Two consequences: the very first
container, constructed without a `Configure*` call, counts the default of one or what the
program assigned, while later ones count the list; and a number assigned after the first
container lasts as long as the process keeps to its ports. The processes of a program route
alike if all of them configure first and assign nothing.

`HostsMeet` states what `src/README.md:84-85` says of `my_server`, "the relative rank of your
server (if servers are on ranks 3 and 5, server relative ranks are still 0 and 1)": a server
is reached by its relative rank, on whatever rank it runs. With Thallium it is not.
`src/src/basket/communication/rpc_lib.cpp:68` indexes the list with the rank in
`MPI_COMM_WORLD`, unchecked, and the clients with the relative rank. The test programs are
run with two ranks per server (`src/test/CMakeLists.txt:44`), which puts server 0 on rank 1:
it listens on the host of server 1, or with the one host of `src/test/server_list` on
whatever lies behind the list. rpclib servers name no host and are not concerned.

### Fairness

`UnorderedMap!FairSpec` and `QueueConsumer!ProgramSpec` assume weak fairness of each
process's own steps: the operating system runs a thread that can go on. Nothing is
assumed about the order in which an `interprocess_mutex` or a worker thread is given to
those that wait, since neither promises any. Hence `CallsDrain` is conditional: if
processes stop making new calls, those under way return. Without the condition a call
may starve behind others. `Terminates` needs no such condition because the program is
finite.

`StartUp!Spec` assumes weak fairness of each server's and each client's own steps, of the
steps of each call, whoever executes it, and of `NextJob`: `mpirun` ends a job that has
lost a process, and the job is submitted again. Nothing has to crash, and `kills` bounds
how often it happens, without which no job need ever finish.

### The consumer and the worker threads

`queue_consumer` has two worker threads. With the default `RPC_THREADS` of 1
(`configuration_manager.h`) and a consumer that waits from another node, `Terminates`
does not hold: `LocalWaitForElement` occupies the only worker, and the remote `Push`
that would end the wait is never served. In `test/simple_test.cpp` the consumer is the
server process, which polls its own mapping and occupies no worker. Generally a queue
needs more workers than remote processes that may wait on it at the same time.

## 4. What is proved

For every set of processes, every number of servers up to 2^16, every placement, every
set of keys with any hash function, every set of values and every capacity, under the
assumptions named in `RpcContainer`, `UnorderedMap`, `OrderedMap`, `OrderedSet`, `Queue`,
`PriorityQueue`, `QueueConsumer`, `GlobalSequence`, `StartUp` and `PureCheck` (any hashes, any
server counts and ports of 16 bits, any finite set of keys, any host names, files and
programs of any length):

* `TypeCorrect`, `MutualExclusion`, `IteratorsStayFresh`, `OneHomePerKey`
  (`UnorderedMapProofs`): the safety invariants of the runs.
* `MissesAreAbsences`: `MissIsAbsence`, if the two routes agree on every key; and
  `MissesAreAbsencesByDivision`, whenever the number of servers divides 2^16.
  `SharedProofs` shows that the routes then agree on every hash
  (`DividingServersAgree`) and that otherwise they disagree on 65536
  (`OtherServersDisagree`), so the condition is exact: `RoutesAgreeExactly`
  (`RoutesAgreeIfDivides`).
* `ImplementsAtomicMap` (`UnorderedMapProofs`): if the routes agree, every behaviour
  of `UnorderedMap` is one of `AtomicMap`.
* `ScansInductive`, `ScansAreSound`, `ScansFindAll` and `ScansReadKeysOnce`
  (`UnorderedMapProofs`): what a `GetAllData` over any number of servers returns, while any
  number of processes put and erase (`ScanInv`, `ScanSound`, `ScanFindsAll`,
  `ScanKeysOnce`). They need no assumption on the routes.
* `OrderedMapProofs`: `Inductive` (`ShardInv`), `ScansStrayAlone` (`StraysAreAlone`),
  `ScansForgetOnlyStart` (`ScanForgetsOnlyStart`) and `ImplementsAtomicMap` (every
  behaviour of `map` and of `multimap` is one of `AtomicMap`, whatever the number of
  servers and the hash function).
* `OrderedSetProofs`: `Inductive` (`ShardInv`), `ImplementsAtomicSet` (every behaviour of
  `OrderedSet` is one of `AtomicSet`, the unlocked `Size` included), `ScansInductive`
  (`ScanInv`), `ScansAreSound`, `ScansFindAll` and `ScansStrayAlone` (`ScanSound`,
  `ScanFindsAll`, `StraysAreAlone`: `Contains` and `GetAllData` over any number of servers).
* `ScansAreRanges`, `SetScanForgetsNothing`, `MapScanForgetsOnlyStart` and
  `MultimapScanFindsKey` (`SharedProofs`): the range query of `map` and `set` and the
  one-key query of `multimap`, for every shard and range; with them `ScansAreExact`
  (`ScanIsRange`), `OneElementErrsSo` (`OneElementErrs`) and `MultimapFindsItsKey`
  (`MultimapFindsKey`).
* `PortsMeetExactly` (`PortsMeet`, in `SharedProofs`), for every `RPC_PORT`, number of
  servers and hash.
* `InputTypeCorrect` and `NumServersCounted` (`SharedProofs`): what a process knows stays
  well typed, and `NumServersAgree`, for server list files of any length and programs of any
  length and any statements.
* `SequenceHasNoGapsOrRepeats` and `SequenceIsMonotonic` (`GlobalSequenceProofs`):
  `NumbersInOrder` and `LaterCallsGetGreaterNumbers`, for every number of calls.
* `QueueProofs`: `Inductive` (the queue's `IndInv`), `ImplementsAtomicQueue` (every
  behaviour of `Queue` is one of `AtomicQueue`), and `PopsSucceed`
  (`PopAfterWaitSucceeds`, for every number of producers and rounds).
* `PriorityQueueProofs`: `Inductive` (the priority queue's `IndInv`) and
  `ImplementsAtomicPriorityQueue` (every behaviour of `PriorityQueue` is one of
  `AtomicPriorityQueue`).
* `StartUpProofs`: `Inductive`, `ConstructorsSucceed` (`NobodyFails`), `HandlersSafe`,
  `ClientsMeet` and `LocksAreNew` (`NoStaleLock`), for every number of servers, clients,
  files and kills and however many reruns.

**The argument.** `IteratorFresh` is not inductive: it says nothing of who else may
write while a call is in `apply`. `IndInv` adds `LockDiscipline` (only the holder of a
shard's mutex is between `read` and `unlock` there), `OneHome`, and `CallShape` (a call
stays on the route of its key from call to return, and only operations on a key are ever
in `apply`). A write by process `d` to shard `s` then means that `d` holds the mutex of
`s`, so no other call with a live look-up is on `s`. `LockedMiss` adds what a `Get` knows
after a miss while it still holds the lock. `MissIsAbsence` follows from `LockedMiss`
and `OneHome`: the key is not in the shard of its `Get` route, all its nodes are in the
shard of its `Put` route, and the two are the same. `Inductive` has one lemma per action
group, and under it a step per disturbed conjunct.

**The refinement.** The abstract map is the union of the shards. A call is pending
until its applying step, which is the linearization point, and done afterwards.
`Find`, `Lock`, `Unlock` and all of `GetAllData` stutter. In an applying step
`IteratorFresh` identifies the look-up with the shard, and `OneHome` with agreeing
routes identifies the shard's nodes of the key with those of the whole map.

**The ordered maps.** `OneNodePerKey` needs `IteratorFresh`, as above, and `KeysAtHome`.
The hard part is `multimap`'s `LocalPut`, which erases in one step and inserts in another.
`GapHeld` says that in between the shard lacks the node but has room for one, so that the
insert can neither fail nor overflow: `PutExhausted` is impossible there, and the abstract
map need not be able to lose a pair. In the refinement the abstract map is the union of
the shards and of what such calls hold in `gone`, so that `PutErase` stutters and the
insert replaces the pair at once; that no other call sees the gap follows from
`Exclusion`, since all calls on the key are on one server. A scan's result of a shard is
what the theorems of `SharedProofs` say of that shard at the instant of the read
(`ScanFresh`), and a shard of two nodes or more is scanned exactly.

**The set.** `IteratorFresh` says of `begin()` that it is still the smallest key, so it
matters that an insert of a smaller one holds the lock. In the refinement a call with a
lock takes effect in its applying step, or for `SeekFirstN` in its loop, and `Size`, which
has none, at the instant it reads the word: `ReadsSimulate` needs nothing of
`LockDiscipline`. That a pop returns a key of a shard exactly if there is one
(`FirstOfNonEmpty`) is that every non-empty set of numbers has a least member.

**Scans over several servers.** That a scan forgets nothing is not inductive: it speaks of
the end of a scan. `FoundSoFar` speaks of its middle, through `Unread`, the servers a scan
has not read yet: `NextServer` leaves them as they are, since the server it addresses next
is the least of them beyond the own one (`NextIsUnread`), and a read takes out one. What
stayed in the map since the call began and is at home on a server that has been read was
there when it was read (`HistorySound`, and `OneHome` or `KeysAtHome`), so it is in the
result. A scan begins with every server unread (`BegunIsUnread`, `Begins`), whatever was
there before. `CollectedAtHome` gives `ScanKeysOnce`: two pairs of a key in the result come
from the same server, hence from the same read, since a scan has nothing yet of a server it
has still to read (in `OrderedMap` and `OrderedSet` that is `ReadOnce`). A read appends to
what is there, so that a second visit of a server would break all of this.

**The sequence.** That the numbers are 1, 2, 3, ... is not inductive: it does not say
what the next one will be. `IndInv` adds `ValueCounts` (the counter equals the number of
numbers issued), `CopyFresh` (what a call in `apply` has read is still the counter's
value) and `BegunBefore` (a call began when there were no more numbers than now).
`CopyFresh` survives another call's `Increment` because the two would hold the same
mutex. `IncrementIssuesNext` says what a write does to all of this; `Frame` and
`QuietStep` say what the other steps leave alone.

**The queue.** `FrontFresh` (a `Pop` in `apply` holds a copy of the deque's head, or
found it empty) needs `LockDiscipline`, like `IteratorFresh`, and `RoomReserved`: a `Push`
that found room still has it when it appends, so that the deque never exceeds
`Capacity`. The linearization points are `PushBack`, `PopFront` and the exhausted or empty
outcomes; `Size` and the poll of `WaitForElement` take effect when they read. For
`PopsSucceed` the consumer's invariant says that from the moment `WaitForElement` has seen
an element until `Pop` has taken one, the deque holds an element or a `Push` is about to
append one (`ElementPromised`): only `Pop` shortens the deque, and nobody else pops; and a
`Pop` that reads under the lock finds no `Push` in the middle.

**The priority queue.** `TopFresh` (the value a `Pop` or `Top` has copied is still the
greatest of the shard) and `RoomReserved` need `LockDiscipline`, as in the queue. What is
new is the data. A bag's size is the cardinality of its `Copies`, pairs of a value and a
number, so that a value more is a pair more (`AddIsOneMore`) and a value less a pair less
(`RemoveIsOneLess`), without induction; that a bag which is not empty has a greatest value
(`GreatestIsOnTop`) is that a non-empty finite set of numbers has a greatest member
(`FiniteHasGreatest`, by a counterexample of the least size). In the refinement `PushUp`, `PopRemove`,
`TopFound` and the empty or exhausted outcomes are the linearization points; `PopRemove`
removes what is on top when it executes and returns what was on top before, and `TopFresh`
makes the two one value.

**Configuration.** `NumServersAgree` is not inductive: it speaks of the containers that
exist and not of what the next one will count. `CountsFollow` adds that `NUM_SERVERS` is now
what the last statement that set it left behind, that there is an RPC for exactly the ports
that the program has constructed on, and that there are as many counts as statements that
construct. A statement more leaves the past of the program as it was (`Longer`, `Places`),
and `NumAfterAppend` and `NumAfterLast` say what it does to the last count;
`StatementCounts` puts this together for each kind of statement. `InputTypeCorrect` shows that every start of a process is one that the property
speaks of: the recursive function behind `ServerList` exists (`ServerListUnfolds`) and yields
a sequence of the file's hosts (`ServerListType`), both by the shortest list of lines that
would be a counterexample.

**The ports.** A sum of two numbers of 16 bits, reduced modulo 2^16, is the sum or 2^16 less
(`Words`), and the conversion to `int16_t` and back gives the same again (`CallPortOf`).

**Start-up.** None of the four properties is inductive. `FoundIsOwn` (what a client found
belongs to its server) needs `ObjectsAreNew`: the object in a file of this job is there
because its server constructed it there and has that file mapped or has ended; and
`FilesAreNew`: after `RemoveOld` a server's name leads to no file of an earlier job.
`LinksDiffer` keeps two names from one inode, so that a removal touches one server's file
only. `CallsInPlace` and `AfterBarrier` tie calls to the script, `DeleteTogether` keeps a
server's destructor from running under a client. `Serving` and `Attached` follow a file
from its creation to the last client's exit where names are not shared; they say that the
next step of every process succeeds, which is `NobodyFails`. `NoDeadLocks` extends
`NoStaleLock` from the mapped files to all files of this job. `NextJob` establishes all of
it anew, since nothing is mapped and every linked file is marked old. Each conjunct has a
lemma of its own that takes it over every action (`ExitStep`, `LocksStep`, `OwnNames`,
`ServingStep`, `AttachedStep`, `FailsStep`, ...), and `StepHolds` puts them together.

**The range scan.** The step back from `lower_bound` leads to a key below `key_start`
whenever there is one, so it is always undone (`ScanStartIsLowerBound`); the loop then
starts at the least key of the range, or at one beyond it, and stops at the first key
above `key_end` (`ManyBranchIsRange`).

**The frame.** `SharedProofs` proves once, for every container, that the steps of
`RpcContainer` keep types and `LockDiscipline`, and that two calls inside their locks are
on different servers (`Exclusion`). The container's module contributes only that its own
steps advance from one holding stage to the next.

`SharedProofs` also has the lemmas about remainders, least members and range scans that
the container modules cite; it extends `PureCheck`, so that in those modules `input` is one
more variable, of which their specifications say nothing.

**What stays with TLC.** Liveness (`CallsDrain`, `Terminates`, `Recovers`), which is out
of the prover's reach; that `BagSize` is the cardinality `Bags` defines by recursion, which
would need induction over data; and the two runs that expect a violation.

## 5. The plan

Done: the frame, `unordered_map`, the ordered containers, the queues, the consumer, the
sequence, start-up with crashes and reruns, the configuration; the proofs of section 4.
What is left is two objects in one job of `StartUp`, for what they share: the `RPC` of a
port and the handlers bound to it.

## 6. What is not modelled

* **Callbacks** (`Bind`, `Call`, `*WithCallback` of `unordered_map`). No program of the
  repository uses them. The variants for functions that return nothing do not compile when
  they are instantiated, `Call` runs off its end without returning what the callback
  returned, and `binding_map` keeps the address of a parameter that is gone when `Bind`
  returns. Whatever such a program does is undefined from its first call on, so that a
  model would have no behaviour to be faithful to.
* **`async_call` and `callWithTimeout`.** They have no caller; no container operation has a
  timeout or a retry.
* **`global_clock`'s own `RPC`**, from `Singleton<RPC>` instead of the factory, which with
  rpclib listens on a port that a container's `RPC` may have: a question about two objects
  of one process.
* **A second thread** that constructs while `GetRPC` has overwritten `RPC_PORT`, or in
  `Singleton`. Nothing in the repository starts one.
* `CharStruct`, the serialization of keys and values, `AutoTrace`, the build files and the
  Mercury patch hold data or text and no protocol. The RDMA transfer functions of
  `rpc_lib.cpp` are experiments without a caller.
* rpclib, Thallium and boost are modelled only by what basket relies on: a request is
  executed once by one of the workers and answered, an `interprocess_mutex` is exclusive,
  and a mapping outlives the link of its file.
