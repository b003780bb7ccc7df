# A TLA+ development for study-struct

study-struct is a collection of small, independent programs: exercises on data
structures and algorithms (C, C++, Python, Go), programs that use Redis and MySQL
together, two Go programs about goroutines and channels, a take-away ordering
server, a shared-memory ring buffer, and tools that search process maps and ELF
symbols. There is no common core. This development takes the programs one by one,
those first in which several actors share state, and says of each what must hold,
checks it with TLC on small instances and, for what matters most, proves it with
TLAPS for every instance.

## Inventory

| part | state | operations | who interacts, and how | hard behaviour | correct when |
|---|---|---|---|---|---|
| `Golang/Redis-Mysql` | table `Process`, Redis strings `process:<pid>` | get, upsert (insert or update), delete | callers in any number, through Redis and MySQL only | requests of several calls interleave; a request is lost, or its answer is; a caller dies; entries expire | an entry is the row, or goes away; no PID shows another's row; an acknowledged write is stored once |
| `Golang/day19.go` | channel as a semaphore, WaitGroup | start, send, run, receive, done, close | a main goroutine and one per task | any goroutine may take any ID; close against send | never more than the limit running; close is last; all complete |
| `Golang/goruntine_pool.go` | two buffered channels | produce, work, print, close | main, workers, printer | blocking on full channels, a sleep instead of a wait, a send on a closed channel | each job printed once, no lock-up |
| `Golang/takeout` orders | tables `orders`, `groups`; Redis `order:<id>`, `group:<id>`, `order_status_<id>` | place, query, accept, publish, grab, complete, weekly clean-up | handler goroutines through MySQL transactions and Redis | snapshots and row locks, Redis writes inside transactions, failed commits, crashes, a cache nobody refreshes | one rider and one group per order; rider and group together; an answer of success is true |
| `Golang/takeout` dispatch | the list of riders of one request, channels `rider_<id>` | notify a rider, wait, take the next | a handler, Redis, riders | publish errors and a retry without an end, a slice edited in place | every rider in reach is asked once; a request ends once Redis is back |
| `Golang/takeout` hall | list `public_hall` | pop ten orders | - | nothing in the repository pushes to it or calls the function | not modelled |
| `Golang/takeout` accounts | tables `users`, `shops`, `riders`; Redis `token:*` | register, log in, authenticate | handlers | check, then insert; where a token is kept | names unique; a fresh token is accepted |
| `Golang/takeout` messages, products | tables `messages`, `products`; Redis caches | send, read; add, list | handlers, the clean-up | a cache that is not refreshed, a slow reader that writes an old list back, save, then publish | what was announced can be read in the end |
| `Golang/redis/List-A-B` | a Redis list | push, blocking pop | a producer, three consumers | a consumer dies after the pop | no message is consumed twice |
| `RingBuffer` | head, tail, bytes in shared memory | write, read | two processes | a full buffer, a message that wraps around | what is read is what was written, in order |
| `day12-pthread.c` | a counter and a range per thread | read block by block, count | threads of one file | look-ahead over the end of a range; unsigned arithmetic | the sum is the number of words; every thread ends |
| `day19-LRU.cpp` | doubly linked list, hash, size | get, put, free | sequential | long sequences of calls | refines an abstract LRU cache |
| `redis-log` | a log file, a Redis database | set with retry, replay | one process and its own log | the log grows while it is read | a replay restores what was set, and ends |
| `Single-threaded CPU` | binary heap | order tasks | sequential | ties, idle time | shortest task first, smallest index on a tie |
| `Redis_data_struct` | hash table, list, set, skip list (and a string, not modelled) | insert, find, delete | sequential | chains, duplicates, levels | each refines a set, map or sequence |
| `ELF/rbtree.c` | tree with colours | insert, erase, iterate, replace | sequential | rotations | search tree, no red-red edge, equal black heights |
| `ELF/vma.c`, `ELF/main.c`, `VMA/*.cpp` | tables, trees and arrays of parsed mappings | read a maps file, find an address, free | the files change between calls | lines that are read in two pieces, not at all or past the end of an array, one global map for all addresses, error paths that free some blocks | the region found holds the address, as the file had it; nothing leaks |
| `ELF/elf.c` symbol caches | two tables of ELF objects, a shared list of symbol tables | insert or count, delete | sequential | equal hashes, uninitialised pointers, failing reads, entries without a name | shared tables stay alive and belong to one file |
| `ELF/elf.c` timer | the start times it has read | walk `/proc`, clean up | a timer against processes that end and start | PIDs used again between two reads, names with spaces in the line that is split at spaces | no process that runs is cleaned up |
| `day*` exercises | arrays, lists, trees | one function each | sequential | zero, duplicates, boundaries | the function's problem statement |
| demos (`goredis.go`, `Crud.go`, `login.go`, `malloc.c`, `vector_add.cu`, ...) | none of their own | straight-line calls | - | - | not modelled |

PROJECT.json lists the same parts with their files, which of them are modelled, and every hazard at its line.

The take-away server registers the path `/shops` twice (`main.go:665` and `666`),
which makes `http.HandleFunc` panic when the program starts. The models are about
the handlers, that is, about the program with one of the two lines removed.

## What is modelled

### ProcessCache (`Golang/Redis-Mysql`)

A client is inside one of the three calls, at one of their requests; `call[c].at`
is the request it is about to make, `key` the cache key, which the code computes
once at the beginning, and `proc` the `Process` it works with. Each request to
Redis or MySQL is one action named after the function that makes it. Since no call
holds anything between two requests, that is exactly the interleaving of several
callers. `Outcomes` says what can happen to a request: done, done but answered with
an error, or not done. MySQL transactions have one statement, so they are one action
each. `Expire` is the ten-minute limit every `SetToCache` passes, `Crash` the end of
a caller (`log.Fatal` in `main`, or a kill). `Contents` stands for the columns other
than the PID. `executed` is a history variable.

`ProcessStore` is what callers may expect: the table alone, in which a query answers
with the row of that moment and a write takes effect at most once.

Two specifications: `Spec` lets any calls overlap; in `DisciplinedSpec` calls about
one PID do not overlap (as in `main`, which makes one call after the other), a
program asks only for PIDs that rows can have, and updates only rows that exist.

### TaskLimiter (`Golang/day19.go`)

`Add`, `Go`, `EndLoop` and `Close` are the main goroutine; `Send`, `Finish`,
`Receive` and `Done` the goroutine of a task. A send on the closed channel is a state
of its own, `panic`, shown never to be reached.

### WorkerPool (`Golang/goruntine_pool.go`)

`Produce`, `CloseJobs`, `CloseResults`, `Exit` are main, `TakeJob`, `SendResult`,
`WorkerReturns` a worker, `PrintResult` the printer. The two seconds of sleep are an action
that may come at any moment. `SendResult` on the closed channel ends the process.
`RandNums` gives each job its number, `DigitSum` is the worker's loop.

### TakeoutOrders (`Golang/takeout`)

A worker is a handler goroutine; `req[w]` is the request it handles and the step it
is at. One action per request to MySQL or Redis:

| handler | actions |
|---|---|
| `handleOrder` | `Order`, `InsertOrder`, `SetOrderHash`, `CacheOrder` |
| `handleOrderStatus` | `OrderStatus`, `GetStatus`, `QueryStatus`, `FillStatus` |
| `handleAcceptOrder` | `ChangeStatus`, `UpdateOrderStatus`, `Requery` |
| `handlePublishDeliveryOrder`, `handleCompleteOrder` | `ChangeStatus`, `UpdateOrderStatus` |
| `handleRiderGrabOrder` | `Grab`, `ReadOrder`, `ClaimOrder`, `InsertGroup`, `SetGroupHash`, `CommitGrab` |
| `CleanUpOldRecords` | `CleanUpOldRecords` (its statement on `orders`) |

What MySQL does is modelled from how the code uses it: `Begin()` asks for the default
level, so the SELECTs of a grab read one snapshot, while its UPDATE waits for the row
lock and changes the newest version; AUTO_INCREMENT values are not given back; the
foreign keys of `db.txt` hold. The table of `db.txt` has no column `status`, which
`UpdateOrderStatus` writes: with that table only the failing outcome of the action
can happen, with a table that has the column both can. Two steps that cannot be told
apart by anybody else are one action (the two SELECTs of a grab; the UPDATE and the
deferred commit of `UpdateOrderStatus`). `contested` is a history variable.

Not in this module: `InsertOrder`, `DeleteOrder` and `UserPlaceOrder`, which nothing calls.

### TakeoutDispatch, TakeoutLists (`Golang/takeout`)

`TakeoutDispatch` is `handNotifyNearbyRider` for one request; the handlers of two share
nothing they write. The list of riders is a sequence edited by position, as the slice is.
While Redis is away `Publish` leaves the state as it is: that is the turn of the loop
after `continue`. Waiting two seconds is a step; the answer is random in the code too.
The `SELECT` names a column `logged_in` that `db.txt` does not have: with that table
only its error can happen.

`TakeoutLists` has the two lists behind caches that nobody refreshes, the messages of
a group and the products of a shop, with one group and one shop. The handlers have
the same steps and differ where a failing cache sends them: `ReadCache`. A cached
list is the set of its entries; `Save` and `Announce` are the two writes of a sender
(row and channel, row and hash). `QueryRows` answers
with any part of the rows: a connection that breaks during the iteration ends it, and
`rows.Err` is never asked, so that a partial list is shown and cached.
`CleanUpMessages` is the second statement of
`CleanUpOldRecords`; that it does not run when the first one failed is one more way
for it not to happen. `deleted` is a history variable.

### LogSyncer (`redis-log`)

The state is how many lines are in the current log file, how many lines of the file
`sync_logs` has opened are unread, and whether that file has been renamed. A line's
field behind the first dash is its level, so every line is answered by a warning in
the log. `MaxLines` stands for the ten megabytes after which the handler renames the
file. The tests of the repository write `SET` lines into a log and expect them in
Redis; no line of any such log gets that far.

### LruCache (`day19-LRU.cpp`)

`node[n]` is the `Node` at address n, or `NULL` when it is not allocated; `cache` is
the `lruCache`, with its table. `Unlink`, `AddToHead`, `MoveToHead` and `RemoveTail` are
the functions on the list, as operators from one memory to the next; `Create`, `Get`,
`Update`, `Insert` (the two halves of `lruCachePut`) and `Free` the calls. The program
has one thread, so a call is one action. malloc gives any free address, or none: a
failed `Put` stores nothing. A freed node is `NULL`, so that a pointer to it shows.
`lost` is a history variable: the sentinel that `lruCacheCreate` forgets when it gets no
memory for the other one.

`LruStore` is what the program's own tests expect: the entries in the order of their
last use, at most capacity of them. `Entries`, the walk over the list, is the
refinement mapping.

### OrderedStore, RbOps, RbTree (`ELF/rbtree.c`, `ELF/rbtree.h`)

`RbOps` has the functions on a tree as operators from one tree to the next: links,
rotations, one iteration of the insertion's and of the erasure's loop, each of their
cases by name, erasure before the colours, replacement, and the traversals in order
and in postorder. `RbTree` is a caller: `Insert`, `Erase`, `Replace` are calls and the
iterations of the two loops are actions, so that what the comments of the loops claim
can be said of the states between them. `OrderedStore` is the promise: a sequence of
nodes in the order of their keys; the tree read from left to right is the refinement mapping, and
within a loop the store stutters. The augmented variants run the same code around
callbacks that nobody defines.

### MapsFile, ProcessMaps, VmaMap, VmaPid, VmaSearch, MapPrograms

Four programs answer which mapping holds an address. `MapsFile` has what they share:
the maps files, which the kernel rewrites between calls, and the last answer with the
lines it was found among. A line says where its mapping starts and ends and how it is
written, as far as one of the programs depends on it: with a path name or without, longer
than one `fgets` of `ELF/vma.c`, or with a range of more characters than Vma-search has
room for. `ProcessMaps` is the table of `ELF/main.c` over the parser
of `ELF/vma.c` (its trees are `RbOps`), `VmaMap` is `VMA/vma.cpp`, `VmaPid` is
`VMA/pid.cpp`, `VmaSearch` is `VMA/Vma-search` with its heap of named blocks and its
error paths. `MapPrograms` chooses one of them. The functions are sequential, so a
call is a step, except in `VmaSearch`, whose run reads the files of a process one after the
other while the process may end.

Each program has its own way of not reading a line as it is written, and the answer is
compared with the whole file all the same; `FindsMapping` names the exceptions.
- `ELF/vma.c` reads 255 characters at a time. The second piece of a longer line has no
  numbers in it, and becomes a mapping with the start and the end that `malloc` returned
  (`Pieces`, `Garbage`): a file with such a line may be answered wrong.
- `Vma-search` asks `sscanf` for six fields and drops a mapping without a path name
  (`Kept`). The headers of its siblings (`VMA/vma.cpp:5`, `VMA/pid.cpp:5`) say of the same
  search that an address leads to its line; for these mappings it answers nothing.
- It reads the range into 32 bytes. Two addresses of 16 digits, as `[vsyscall]` has them,
  are 33 characters and overrun the array, which is undefined: the run ends, the end of the
  mapping is read wrong (`Spills`), or nothing happens. From the first such mapping on its
  answers are not compared.
- The `realloc` for each line is not checked either (`MayCrash`), and a `strdup` that fails
  leaves a mapping without a name.

Permissions, offsets and names are only printed and are not modelled. That `ELF/vma.c`
clears `flags` once and then adds the permissions of every line to it (`vma.c:23`), so that
each mapping is shown with those of all before it, takes one file of two lines to see.

`main` of `ELF/main.c` never allocates its two tables and stops at its first access; the
calls are modelled for a caller that allocates them, as `main` means to.

### ElfSymbols (`ELF/elf.c`, `ELF/main.c`)

Both tables of ELF objects, the list of symbol tables they share, reference counts,
and what a failed initialisation leaves in an object. What libelf reads is an outcome.
Allocations fail: a cache entry whose `strdup` failed has no name, and the search that
comes to it reads through the null pointer (`NamelessEntry`); a table whose next symbol
cannot be allocated is forgotten (`process_symbol_table`). `cleanup_system` empties the
first 1024 slots of 8191 only (`FREED_SLOTS`). An object in the slot of `upsert_elf` is
taken for whichever file has the same hash value; no property that holds excludes it.
A symbol is inserted by `rb_insert_color` without `rb_link_node`, so that no table ever
has a symbol in it: the model says so in its head and has tables without contents.

### ProcScan (`ELF/elf.c`)

The timer's walk over `/proc`, one action per read, while processes start, end and change
their names. The code splits `stat` at spaces and takes the 22nd word. The second field is
the name of the process in brackets, in which spaces may be; `gaps` counts them, and
`Words22` says what the word is then: the start time without a space, with one
`itrealvalue`, which is always 0, with two `num_threads` and with more a field before it,
which change while the process lives. `seen`, `timed` and `cleaned` are history variables.

### WordCount (`day12-pthread.c`, `.cpp`)

Every thread, block by block, over every text up to `MaxText` bytes (a byte is a space
or not): what a read returns, the cut at the last space of the look-ahead, the unsigned
subtraction modulo `SizeT`, failing reads and allocations, the mutex of the `.cpp`, main's
joins in order.

### RingBuffer (`RingBuffer`)

`ringbuffer_write` and `ringbuffer_read` byte by byte, with the one store that
publishes each. `mishap` becomes true when a message takes all the space that is left,
which makes the ring look empty, or when a header crosses the end of the buffer, which
`memcpy` does not wrap. The processes around the functions do not compile (the header
declares other parameters than the definition has, and nothing defines
`ringbuffer_init`); the functions are modelled for one writer and one reader of a ring
that starts empty, which is what the processes set out to be.

### RedisTable, RedisList, SkipList (`Redis_data_struct`)

Memory with addresses and links on one side (`mem`), what the successful calls add up to
on the other (`contents`); each module has one property that reads the structure as the
code's own search or walk does and compares. Levels of the skip list are any that its random
function returns.

### TaskScheduler (`Single-threaded CPU`)

`getOrder` with its heap: a step admits one task, or hands one out. Sorting leaves equal
arrivals in any order. Time is an `int` (`IntRange`). `compareTasks` subtracts one arrival
from another and would sort wrong if that overflowed; arrivals that are not negative, as in
the problem statement, do not (`SchedulerAssumption`).

### MC modules

`MCGoroutines` chooses the limiter or the pool at the start, and asks for the fairness of
that program only. `MCSequential` and `MCPrograms` choose one of several programs at the start; the others
stay at one initial state, so the runs check the sum of the state spaces. In `MCPrograms`
the fairness of a program that was not chosen asks for nothing: in its initial state no
fair action is enabled.

## Runs

| run | specification | checks | result |
|---|---|---|---|
| `pc_overlap` | `FairSpec`, 2 clients, 2 contents, 1 PID (and key 0) | `KeyedByPid`, `ExecutedBeforeCached`, `AgreesOnceWritesEnd` | hold |
| `pc_disciplined` | `DisciplinedSpec`, 2 PIDs | `CacheTransparent`, `ImplementsStore` | hold |
| `goroutines` | `AllSpec`: 4 tasks, 2 slots; 4 jobs, 2 workers, channels of 1 | limiter: the limit, the close after the last use, completion; pool: each job once, panic only if late, all printed unless main wakes up (`PoolEmpties`) | hold |
| `to_orders` | `FairSpec`, 2 workers, 2 riders, 1 order, 2 groups | exclusion, rider and group together, whole groups, one group unless contested, taken stays taken, cached statuses settle (`StatusSettles`) | hold |
| `to_one_group` | `Spec` | `OneGroupPerOrder` | violated: two overlapping grabs both succeed |
| `lru_cache` | `Spec`, 4 keys, capacities 0, 1, 3, 6 nodes | `ListAndHashAgree`, `NothingElseLeaks`, `ImplementsStore` | hold |
| `rb_tree` | `Spec`, 9 nodes, two with the same key | red-black tree between calls, the invariants of both loops, complete walks, `KeepsOrder` (refinement) | hold |
| `sequential` | `AllSpec` | the mapping that is found is the file's (`FindsMapping`), a successful run frees all, shared symbol tables, the data structures, the heap | hold |
| `cpu_order` | `Spec` | `ShortestFirst` | violated: a shorter task that has arrived is passed over |
| `programs` | `Spec` | ring, word count, timer, dispatch, cached lists, log replay | hold |
| `scan_reused` | `Spec`, 1 PID | `DiffersOnlyIfReused` | violated: a process that changes its name or starts a thread is cleaned up |
| `wc_total` | `Spec` | `MainPrintsTotal` | violated: a thread reads for ever |

The violated properties are statements of the repository's own comments and texts;
PROJECT.json quotes them under "findings". `wc_total` is a liveness property under
`Fairness`: all threads run, and the one in question runs for ever. `scan_reused` checks
what `elf.c:534` says of two different start times; `CleansOnlyGone` in `programs` is what
remains true: a live process is cleaned up only if a read failed or if its name made one of
the two words something else than a start time.

Two properties are about what caches come to. Overlapping calls of `ProcessCache` do leave
old rows in Redis, by a reader that writes back late or by two updates whose cache writes
cross. `AgreesOnceWritesEnd` says that once no client writes to a table any more, the cache
comes to agree with it for good, whatever queries that are still under way write back
and however many follow; `StatusSettles` says the same of the cached status of orders. Both
depend on the expiry of entries and on what the calls do: a hit that renewed its entry, as
many caches have it, would keep an old row alive.

Three disagreements with the code's words are modelled and have no run: an upsert of a
missing row stores nothing and an insert caches its row under `process:0` (`ProcessCache`),
and an acknowledged status change may not be stored (`UpdateOrderStatus` in
`TakeoutOrders`). The main function of `goruntine_pool.go` waits by sleeping, so that
results can be missing when it closes the channel (`CloseResults`).

Bounds. `MaxPid`, `MaxOrder`, `MaxGroup` are the largest values of AUTO_INCREMENT
columns; an insert beyond them fails, as one into a full column does. Two clients are
enough for every pairwise race, two contents for a stale entry and a lost update, one
PID plus key 0 for the confusion of keys in `pc_overlap` (the theorems cover any
number). Four jobs over channels of one and two workers fill both channels and all
hands with a job left over. In `to_orders` two handlers compete for one order, and two
groups let both of them win; a week of several orders in one clean-up is beyond the
run and covered by the proof.

In `lru_cache` six nodes are two sentinels and a list of three with one too many during a
`Put`; four keys make one go, capacity 0 is refused, capacity 1 is the smallest list.
After a failed creation fewer nodes are left and puts fail for lack of memory. The
addresses are symmetric: no call compares them.

`rb_tree`: nine nodes make black heights of one to three and every case of both loops
on both sides; two nodes share a key. `sequential`:
processes 1 and 3 share a slot of the table; the layouts are an empty file, adjacent
mappings with a gap and one without a path, a long line and a wide range, and five mappings,
enough to turn the tree; what `malloc` returned is an empty mapping or one over several lines
(`Garbage`; its ends are also what a wide range may be read as). Three ELF files, two of
which share a slot, the third one beyond `FREED_SLOTS`, so that `cleanup_system` misses it;
two of three keys share a slot; four nodes for the lists; five tasks, so that the heap is
put right over two levels, arrivals at 0 and 5 and `IntRange` 16, so that an `int` overflows.
`programs`: two threads with blocks of two bytes and a look-ahead of one over all texts
of at most six bytes, so that words lie across blocks and chunks; a ring of nine bytes
with headers of two and messages of at most three, four of them, which goes around more
than once; two PIDs, `MaxStarts` 4, so that a PID is used again, names without a space,
with one and with more (`gaps`), and counters of two values, so that a word can change while
the process lives (`Counters`); three riders; two
handlers over the lists and two entries; a log of five lines.

Fairness. `ProcessCache`, `TakeoutOrders`, `TakeoutLists`: only the expiry of cache
entries is fair (every entry is written with an expiry time, and Redis drops it then); no
client has to make progress, so the properties about caches hold also of clients that stop
in the middle of a call. `TaskLimiter` and `WorkerPool`: goroutines that can run do run; the end of
main's sleep is not assumed in `WorkerPool`, so that `PoolEmpties` speaks of however long
a sleep. `TakeoutDispatch`: the handler runs and MySQL answers; that
Redis stays up from some time on is an assumption of `DispatchEnds`. `LogSyncer`: the one
thread runs once it is in `sync_logs`; Redis may be away for ever. `WordCount`: threads
are scheduled (weak), a mutex that is free again and again is got (strong), main
goes on joining; reads need not fail. Deadlock is checked where the system goes on; the
runs with `CHECK_DEADLOCK FALSE` are of programs that end.

## Proofs

`ProcessCacheProofs`: `TypeCorrect`, `CacheKeyedByPid` and `CacheBehindDatabase` for
`Spec`, from the inductive invariant `CacheInv`; `DisciplinedCacheTransparent` for
`DisciplinedSpec`, from `DisciplinedInv`. The properties are not inductive alone: a
`SetToCache` writes what its client has been holding since an earlier request, so
`RequestsOK` says what a client at each request holds; transparency further needs that
a busy client is alone with its PID, that an acknowledged delete has left no entry, and
that what a fill is about to write is the row. Assumption: `ConstantsAssumption`.

It also proves `CacheImplementsStore`, that `DisciplinedSpec` implements
`ProcessStore`, by step simulation: a call begins in both, the one statement that
reaches MySQL is the store's `Commit`, a read its `Answer`, and what concerns Redis only
is a stutter. It needs `DisciplinedInv`, because an answer out of the cache has to be the
row of that moment.

`TakeoutOrdersProofs`: `ClaimExclusive`, `RiderAndGroupTogether`, `GroupsStayWhole`,
`OneGroup` and `TakenForGood` for `Spec`, from `OrdersInv`. The claims about rows and
groups are not inductive alone: they need what a grab relies on between its requests
(`RequestOK`: the row it locked is there, its group ID is not yet a row, its hash is
written before its commit), that a lock belongs to a grab in its transaction and no two
grabs have one group ID (`LocksOK`), that IDs not handed out name no row (`CountersOK`)
and that an order two grabs are working on is contested (`ContestedOK`). One lemma per
step that changes a row, a lock or a group, three for the steps that do not
(`QuietStep`, `AbortStep`, `StatusEntryStep`). The proof covers a clean-up that deletes
several orders at a time. Assumption: `OrdersAssumption`.

`GoroutinesProofs`, the limiter: `ConcurrencyBound` and `CloseIsLast`, from `LimiterInv`: the
channel holds as many IDs as there are tasks between send and receive (`SlotPerHolder`, a
theorem of its own), and the WaitGroup counts the goroutines alive. The pool:
`JobsAreConserved` and `PanicMeansLate`, from `PoolInv`. A
job's places are counted as positions of sequences and as hands, so the proof of each
action follows one position from a channel to a hand, and from there to the next
channel or the paper; the invariant adds that a worker holds a job exactly between its receive
and its send, and that what is in no place has not been produced. That a panic means
unprinted results takes an injection: with all results on paper no worker has a job
left to send. The theorems are about each program by itself; `EachByItself` carries them over
to the composition the run checks. Assumptions: `PoolAssumption` and `LimiterAssumption`, any
number of jobs, workers, tasks and slots.

`LruCacheProofs`: `ListKeepsWhole`, `OnlySentinelsLeak` and `LruImplementsStore`, for any
keys, addresses and capacities, from `LruInv`. Between calls there is a sequence of distinct
nodes from the head to the tail, each the `next` of the one before it and the `prev` of the
one behind it (`Linked`), whose keys are distinct and are what the table leads to; every
allocated node is in it or is lost. What the code does to the pointers is taking a node out
of that sequence and putting one at its front, and the lemmas about `Unlink` and `AddToHead`
say so once for all four calls. The walk of the property (`Following`) and the refinement
mapping (`Entries`) are shown to be that sequence, so that a call on the pointers is a
call of `LruStore` on the entries. `LruAssumption` says that the addresses are finitely many and
that the null pointer is neither an address nor a structure.

`RbShapeProofs` and `RbTreeProofs`: `TreeIsRedBlack`, `InsertionRepairs` and `ErasureRepairs`, for any number of
nodes and any keys, from `RbInv`: between two steps the tree has at most the one defect that
the loop under way is about to repair or pass upwards. Parent and child pointers that agree
may still form a ring, so the invariant gives every node a position and an interval of
positions that encloses those of its children (`Shape`). A rotation leaves all of them alone,
a new leaf makes room for itself, and a replacement takes over its victim's; that is also why
the ways down of the code end (`TreeInduction`, `WayExists`). Black heights are a function of
the nodes that adds up at each of them, with a term for the gap of an erasure (`Even`), from
which `BalancedHeight` derives what `BlackHeight` returns. For each case of `__rb_insert` and
`____rb_erase_color` one lemma says what its stores come to node by node, and another that this
keeps or mends the colours and the heights (`FlipRepairs`, `GparentRepairs`, `ParentTurns`;
`RedSiblingTurns`, `SiblingFlips`, `NearTurnKeeps`, `ParentTurnRepairs`). The double rotations
leave pointers that the next case stores anew; the lemmas state the tree up to those. The erasure of
a node with two children is shown to be that of its successor and then a replacement
(`MovedReplaces`). That the sibling exists, which the code takes for granted, is
`SiblingFound`. The run checks the stated properties and not `RbInv` itself, whose positions
and heights TLC would have to guess.

`TreeKeepsOrder`, that `RbTree` implements `OrderedStore`, rests on the same positions. The
nodes of a subtree read from left to right are a sequence with growing positions that holds
exactly that subtree (`InOrder`, by `TreeInduction`), and a finite set has only one such sequence;
so whatever keeps the positions and what hangs in the tree keeps the sequence, which covers
every iteration of both loops. Linking, erasing and replacing change positions, but not the
order of the nodes that stay (`SameOrder`). That a new node is linked at the place its key has
comes from the way down the callers take: every node at which it turned is on the correct
side of the free place (`PlaceFree`).

`WalksComplete` is about what callers see. `rb_next` leads from the last node of a left subtree
to the node above it and from there to the first node of the right subtree, and `rb_prev` is its
mirror image (`NeighbourJoins`); so the walks of two subtrees and of the node between them join
to that of the whole (`LineJoins`). The postorder walk joins both subtrees first and the node
last (`PostJoins`). The claim includes that the walks end (`WalkGoes`), and that the cached
leftmost node is the first of `InOrder` in every state, which is an invariant of its own
(`FirstCached`): `Insert` may put a new node before it, `Erase` takes `rb_next` for it.
Assumptions: `NullAssumption` and `KeyAssumption`, that null is no node and keys are integers.
The nodes may be infinitely many: that only finitely many hang in the tree is part of `RbInv`.

`ProgramsProofs`: four of the programs of `MCPrograms`, each for every value of its
constants. `ScanCleansOnlyGone`, from `ScanInv`: start times are handed out once, so two of
them, where both words read are start times, tell whether the process the scan saw first is
still there; the hypothesis is that the absent value is none of the scan's own records. `DispatchSkipsNobody`, from
`DispatchInv`: the slice enumerates the riders in reach who have not refused; the work is in
two lemmas about taking one position out of a sequence. `RingDeliversWhole`, from `RingInv`:
every byte ever written gets a number, the tail and the head are the numbers of the next byte to
read and to write modulo the size, and while nothing is amiss they are less than one ring
apart; so the cell of a byte that is not yet read is written by nobody else, and the
bytes of a header and its message are those that were put there.
`WordsCountedOnce`, from `WordsInv`: a thread that has read up to some byte has counted the
spaces behind a word so far and knows whether the last byte was in one (`ScanCounts`, an
induction over the bytes of a block); its offset never leaves the file, so the unsigned length,
the distance to the end of the chunk modulo `SizeT`, is 0 nowhere but there, and a
thread that wrapped around never returns a count; and after `j` joins main has the words that
end in the first `j` chunks, and one more for each cut through a word (`ChunkAdds`). The
assumption is `WordCountAssumption`: sizes are positive and a size_t holds any file's length.

`SequentialProofs`: four parts of `MCSequential`. `SymbolsSharedSafely`, from `ElfInv`: objects and cache entries are claims of a file to a symbol
table; a call repeats a claim the cache makes for the same file, makes one to a table nobody had,
or makes none, and tables are freed only at the end of `main` (`GetSymbols`, `ClaimAdded`).
Entries that lost their name claim their table for nobody: a search ends at the first of them,
so that it never answers with what lies behind.
`AnsweredRunsFreeAll`, from `SearchInv`: at every step of a run the blocks that are allocated are
among those the loops at the end of `main` reach. `SchedulerHandsOutLeast`, from `CpuInv`:
the heap and the result hold each admitted task once, and every node is less than its children.
One call of `heapifyUp` or `heapifyDown` moves the only place that may be out of order one level
up or down; that the last call has put it right before the calls run out is an induction over
a measure (`TurnsEnd`), and that the root of an ordered heap is the least is one over positions
(`LeastAt`).

`LookupsFind`, from `MapsInv`: what a program keeps of a process is made
of a file that it has read, and the last answer is right. That is enough because every answer
comes from what is kept, however old, and `answer.file` is the file it is made of. The rest is
one lemma for each form. `TreeSearched` is about `ELF/vma.c`: `TreeIsBuilt` inserts the pieces
one by one into a tree that stays a search tree with agreeing links, and `SearchFinds` goes down
it; both come from the lemmas of `RbShapeProofs` about `__rb_insert` and the way down the callers
take, which are there for any tree and serve `RbTreeProofs` as well. With short lines the
pieces are the lines (`ParsedIsBuilt`). `MapSearched` is `VMA/vma.cpp`: the greatest start that is not behind the address is the
start of the only mapping that can hold it. `AddressesSearched` is `VMA/pid.cpp`, where one
mapping at most has written the entry of an address, and `ArraySearched` is `Vma-search`, whose
array is the named lines in their order: the line that holds the address is among them if it
is named, and no other line can answer in its place unless the end of a wide one before it
was read wrong.

Assumptions: `SequentialAssumption`, which is that of the symbol caches and of the scheduler;
`LayoutsAssumption`, that the kernel writes mappings in address order and none is empty; and
`MapProgramsAssumption`, that sizes are positive, that null is none of the programs' structures,
and that `MaxVmas`, the number of nodes the model has for a tree, is enough for every file.

Induction. The library's induction theorems take an operator as a parameter, which no
installed prover can instantiate. Where a proof needs induction over numbers it takes the
set of those for which the claim fails, in which the well-founded order finds a least element
(`WFMin`), and shows that there is none. That reaches recursive functions with numbers for
their arguments, as in `heapifyDown` or the loop over a block of bytes (`SetInduction`).

Only model-checked: liveness, which is out of the prover's reach, and with it what the caches
come to in `ProcessCache`, `TakeoutOrders` and `TakeoutLists`; and one invariant. `StructuresRight` follows the chains of three structures, and
compares them with sequences made by `SelectSeq`, which the prover does not expand.

## Not modelled

- The hall (`GetOrderListFromMQ`): no handler runs it and nothing pushes to its list.
- Accounts and tokens: registration is one insert after one lookup, a login one write, the
  middleware one lookup. The hazards there are listed (a token is stored under the user's
  ID and looked up under itself, shop names are checked before they are inserted); they
  show with one or two calls and need no model.
- The shop lists: reads of tables that do not change while the server runs.
- `redis/List-A-B`: one atomic push and one atomic pop, each in a loop. A consumer that
  dies after `BRPop` takes the message with it, by what `BRPop` is.
- `String_SDS.c`: a length and a copy of bytes. The exercises `day3` to `day18` and the
  demos: one function each over an array, or calls in sequence, which a unit test
  covers.
- `ELF/symbol_table.c`, `ELF/clock_interrupt.c`: calls of libelf in sequence and of the
  kernel's perf events.
- `InsertOrder`, `DeleteOrder`, `UserPlaceOrder`, `get_symbol_name_by_address`, the
  augmented red-black trees: code that nothing calls.

## Plan

The modules the first plan named are written. What is left, in this order:

1. Proofs that follow the pointers of `RedisTable`, `RedisList` and `SkipList`, with the
   sequences of nodes of `LruCacheProofs`.
2. Larger rings in the run: a ring whose size is not a multiple of anything in the messages,
   with more messages, once the byte steps are replaced by blocks where nobody can look in
   between. The proof covers them.
3. If the server gets a caller for the hall: popped orders that an error loses.
