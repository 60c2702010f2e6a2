# Verification of the ECE344 projects

TLA+ models of the concurrent and stateful programs of this repository, checked
with TLC on small instances. For the threads package with its locks, for the
server (its request buffer, its file cache and a connection) and for the block map
of the file system, what the runs check of safety is also proved with TLAPS, for
every size. Line numbers below are those of the files under `src/`.

## The system

The repository holds four independent programs that grow out of one course.

| component | sources | state | operations |
|---|---|---|---|
| threads package | `threads/thread.c`, `thread.h` | `thread_array` (state, context, stack, `next_ready`), `ready_queue_head_id`, `ready_queue_tail_id`, `exit_array`, `current_thread` | `thread_init`, `thread_create`, `thread_yield`, `thread_exit`, `thread_kill`, `thread_stub` |
| preemption | `threads/interrupt.c` | the signal mask, the timer | `interrupt_handler`, `interrupts_set` |
| sleep, locks, condition variables | `threads/thread.c` 612-986 | wait queues over `Wait_queue[]`, `lock->l`, `acquired_thread_id` | `wait_queue_*`, `thread_sleep`, `thread_wakeup`, `lock_*`, `cv_*` |
| request buffer of the web server | `webserver/server_thread.c` 505-541, `server.c` | ring `buf`, `in`, `out`, a mutex and two condition variables | `server_request`, `thread_init` (worker loop) |
| file cache of the web server | `webserver/server_thread.c` 90-503, `request.c` | hash table, LRU list, `occupied_cache_size`, `reference_count` | `do_server_request`, `cache_lookup`, `find_LRU`, `set_LRU`, `hashtable_insert`, `evict_LRU_hash` |
| requests and socket I/O | `webserver/common.c`, `request.c`, `client.c` | two byte streams, the buffer of `struct rio`, the line being read, the reply being written | `rio_write`, `rio_readb`, `rio_readlineb`, `request_init`, `request_read_headers`, `request_sendfile`, `client_send`, `client_print` |
| block map of files | `fs/read_write.c`, parts of `inode.c`, `super.c`, `bitmap.c` | direct, indirect and doubly indirect pointers, block freemap | `testfs_read_data`, `testfs_write_data`, `testfs_free_blocks`, `testfs_remove_inode` |
| inodes, directories, commands | `fs/inode.c`, `dir.c`, `file.c`, `super.c`, `testfs.c` | inodes on disk and in memory, reference counts, dirty flags, directory entries, counters | `cd`, `ls`, `lsr`, `create`, `mkdir`, `rm`, `stat`, `read`, `write`, `quit` |
| device | `fs/block.c`, `super.c` | the blocks in the device file | `write_blocks`, `testfs_init_super_block`, `testfs_close_super_block` |
| not modelled | `client_simple.c`, `fileset.c`, `warmup/`, the SQL files, tests | | |

How the parts meet:

* Client threads call the threads package; between two calls the timer may
  interrupt any of them, which is a `thread_yield(THREAD_ANY)`. Inside the
  package the signal is blocked, so a call runs to its end or to its context
  switch. The locks use the same ready queue: a thread is in it, in a wait queue,
  running, exited and not yet reaped, or not in use.
* In the server the main thread hands connections to workers through the ring;
  each worker serves its connection from the cache, giving up `cache_lock`
  between the critical sections of one request. It reads the request and writes
  the reply over a connection whose other end is a client, which may go away.
* In testfs a command works on the current directory, on inodes that are in
  memory while they are referenced, and through the block map on the device. It
  is sequential; what is hard is what a command leaves when it fails halfway, and
  what it leaves on the device when the program ends between two of its writes.

What makes each part correct, and what is hard to test, is listed in the
`hazards` of `PROJECT.json`, each with its line: lists that are threaded through
one array and rely on every operation to leave no old link; exited threads that
are reaped by whoever runs next; lost wakeups; a lock that is taken again before
a woken thread looks at it; a ring whose two condition variables are signalled
only at the edges; a cache entry that is evicted while another thread has its
address; a reply cut into pieces by sockets and buffers, and loops that wait for
a line that never comes; allocation that runs out of space between a pointer and
its block; a crash between two writes that belong together.

## Modules

```
ThreadList <- Threads   <- MCThreads <- MCScheduler <- ThreadsProofs
                   ^                     (Scheduler, the promise) ^
                   |                                              |
                  Sync  <- MCSync    <- MCMonitor    <- SyncProofs
                                         (Monitor, the promise)

RequestBuffer <- MCRequestBuffer <- RequestBufferProofs   Channel  (promise)
FileCache     <- MCFileCache     <- FileCacheProofs       LRUCache (promise)
Connection    <- ConnectionProofs                         Exchange (promise)
BlockMap      <- BlockMapProofs
Testfs        <- TestfsProofs

Counting  <- ThreadsProofs, FileCacheProofs, ConnectionProofs, BlockMapProofs, TestfsProofs
```

* **ThreadList** - the linked queues: `head`, `tail` and the array of links.
  `Enqueue`, `Unlink` and the set of `Listed` threads are what the code's loops
  over `next_ready` do.
* **Threads** - one action per function of the package. `pc[t]` says where thread
  `t` is suspended: in `thread_stub` (it never ran), in `thread_yield`, exited, in
  client code, or not in use. `Resume` is what a thread does behind the context
  switch: it reaps the exited threads (`clean_exit_array`) and returns. `ExitFill`
  is what `exit_array` holds at the start; the code's initialiser leaves zeros.
* **Sync** - wait queues, lock and condition variable on top of `Threads`, one
  object of each kind. `lock_acquire` and `cv_wait` switch threads inside, so they
  have several steps and `pc` values of their own. What `thread.c` takes for
  granted of its clients is a set of named `Rules`. A queue that holds what nobody
  put there is `spoiled`: a new lock or condition variable whose memory does not
  happen to look like an empty queue (`840`, `916`), and a queue whose last thread
  was woken alone (`750`). The call that first uses one makes the process `wild`,
  and the model stops there; everything else goes on beside a spoiled queue.
* **Scheduler**, **Monitor** - what `thread.h` promises, without links, control
  blocks or stacks: a FIFO queue and results; sleepers that are woken in order, a
  lock that one thread has.
* **RequestBuffer** - the ring. A critical section under `sv->lock` is one step.
  A signal wakes one waiter, spurious wakeups are allowed. **Channel** is the
  bounded FIFO channel it implements.
* **FileCache** - hash table with chains, LRU list, eviction and the steps of a
  request; a critical section under `cache_lock` is one step. `wild` is raised
  when a step uses a pointer to freed memory and the process may do anything; the
  model stops there, and the read of `iter->next` right behind `free(iter)` (306)
  is taken to find the old value, as it does with glibc. **LRUCache** is the
  cache by use it implements.
* **Connection** - one client and one worker over a socket. A call of `write` moves
  any part of what is left, a call of `read` any part of what has come, and
  `rio_readlineb` makes lines of it; the text is a sequence of words, each with the
  number it says or adds to the checksum. Behind the newline, or the end of the
  buffer, of a line the code of `request.c` and `client.c` goes on by one step
  per line. The streams, the closing of sockets and the reset of a connection are
  external, as TCP has them. What `strcmp` and `sscanf` find in a buffer nothing
  was written to is any outcome. What `request_readfile` can read, and what it
  could not read and an earlier request left in the cache as an empty file, is fixed
  by `Readable` and `CachedEmpty`: it is looked up once in a connection, and
  connections share nothing else here. **Exchange** is the promise: who asks for a file
  gets it whole, every other request is noticed as refused.
* **BlockMap** - the pointers of inodes and the freemap, in units of blocks. A
  write is one step and inside it the operators pass a record that follows the
  code's order of allocations. `fate` tells how the program fares: `abort` for a
  failed assertion, `wild` beyond the end of an array, `torn` behind the wrong
  release at `read_write.c:294`; the model stops in these. What line 294 leaves
  behind is stated (`BlocksOwnedOnce`); what later commands make of it, once the
  freed indirect block is given to another file, is not followed. After the failed
  write of line 260 the model goes on with the empty doubly indirect block.
* **Testfs** - the commands on the directory tree, one step each. `disk` is the
  device, and a command is the sequence of writes it makes there (`Put`), in the
  order of the code: `Writes` makes them all, `Crash` the first few, whereupon the
  next start reads what is there (`testfs_init_super_block`; there is no
  recovery). A write survives the end of the program, because `write_blocks` calls
  `fseek`, which flushes it; losing what the operating system has cached is not
  modelled. `fate` is `abort` after a failed assertion and `stale` when a new file
  takes a free inode that a crash has left with old contents (`inode.c:211`): the
  model stops there, and what is said of the time after a crash is said up to there.
  The freemap of inodes has bits beyond the last inode (`FreemapBits`), which a
  create takes and gives back (`inode.c:206`), a crash in between not excluded. A
  write takes any number of blocks before its inode is written; that a pointer block
  reaches the device before `block_count` does is not seen, as pointers are a matter
  of `BlockMap`.

* **Counting** - facts the proofs share: least numbers, induction over sets of
  numbers, sums over finite sets and the folds of the library that compute them.

The definitions named "faulty variant" are not used by the models: each is a
plausible mistake in the operator it stands before, and shows that a property
notices it (`mutants` in `PROJECT.json`).

## Runs

| run | instance | what it shows |
|---|---|---|
| `threads` | 4 threads, all sorts of arguments | type, shape of the ready queue, every thread in one place, stacks owned, only exited threads are reaped, no thread starves, refinement of `Scheduler` |
| `sync` | 3 threads, lock, condition variable and a bare queue, all sorts of arguments | wait queues hold exactly the sleepers and a spoiled one has none, mutual exclusion, nobody sleeps on a free lock, the holder can run, who sleeps for the lock is woken; refinement of `Monitor` up to the first use of a spoiled queue |
| `request_buffer` | 3 workers, ring for 2, 5 connections | the ring neither loses, repeats nor reorders, no wakeup is lost, every connection is taken, refinement of `Channel` |
| `connection` | 3 files, lines of 2 words, a read buffer of 3, a socket of 6 | whatever the pieces, a client gets the file it asked for or fails if there is none (refinement of `Exchange`); the worker comes back for the next connection |
| `file_cache` | 2 workers, 5 files, cache of 3 units, reads that fail, a shared row | table, list and `occupied_cache_size` agree, what is being sent stays, refinement of `LRUCache` |
| `blocks` | 2 files, 1 direct block, 2 pointers in a block, device of 5 blocks | until a write comes to `read_write.c:294`, blocks are owned once and data reads back; that write leaks blocks and leaves one file on its freed indirect block, and does nothing worse; of the small files exactly those whose write failed at `read_write.c:260` and whose size ends before that block fail `inode.c:224` when they are removed |
| `testfs` | 4 inodes, 3 blocks, 3 entries in a block, 2 names, 1 crash | the tree, the in-memory inodes and the counters agree after any sequence of commands; after a crash every entry in the tree still leads to an inode of its own (which says nothing of its blocks), and the counters cover what is in use; both up to the first create that takes a free inode with its old contents (`inode.c:211`) |

Five runs end in a violation on purpose: each shows a place where the code does
not do what one of its comments, headers or assertions says.

| run | what happens |
|---|---|
| `cold_reap` | `exit_array` starts as `{-1, 0, 0, ...}` (`thread.c:40`), so the first reaping goes on through the zeros and frees thread 0's control block, which cuts its link when thread 0 is in the ready queue |
| `wake_last` | `thread_wakeup(queue, 0)` on a queue with one thread leaves the queue non-empty with a head that does not sleep there (`thread.c:750`) |
| `hit_evicted` | between `cache_lookup` and `find_LRU` the entry may be evicted and freed by another thread (`server_thread.c:464`) |
| `row_cut` | evicting the first of several components of a row leaves the row pointing at the freed one (`server_thread.c:300`); the others are listed but cannot be found |
| `remove_large` | removing a file with several blocks in the third layer fails `assert(in->in.block_count == 0)` (`inode.c:224`), because `read_write.c:493` counts pointer blocks as data blocks |

Other disagreements met while modelling, which have no run of their own:

* `thread_kill` never kills thread 0 (`thread.c:538`) although `thread.h:83`
  promises any available thread; it lets `-7..-1` and `THREAD_MAX_THREADS`
  through its range check (`527`). Both are in the runs `threads` and `sync`;
  there `Scheduler` and `Monitor` leave the answer to such a call open
  (`Unpromised`), and demand that it changes nothing else.
* `lock_release` frees the lock whoever calls it (`893`, the test is commented
  out); `wait_queue_destroy` does not look whether the queue is empty (`653`);
  the process ends under sleeping threads when the last other one returns
  (`127`); `lock_create` and `cv_create` leave their wait queue uninitialised
  (`840`, `916`), so that memory full of zeros says thread 0 sleeps there, against
  `thread.h:95` and `121`. In `Sync` the first two are excluded by `Rules`; the
  last is modelled, with any memory, up to the first use of such a queue.
* `max_requests = 0` is accepted (`server.c:41`) and makes a ring that is always
  full: with `MaxRequests = 0` TLC refutes `EveryConnectionTaken`.
* `evict_LRU_hash` answers false when it had to evict everything
  (`server_thread.c:312`), and the file is not cached though there is room; a
  file that could not be read is cached as an empty one (`482`). Its reader is
  sent both an error and an empty reply, which the client notices; the next one
  finds it in the cache (`466`) and gets a success with nothing in it, which the
  client notices unless an empty file is what it expects.
* `request_read_headers` does not look at the result of `Rio_readlineb`
  (`request.c:64`): when the client goes away before the empty line the worker
  never comes back. `WorkerReturns` has the premise that the client has sent its
  whole request, and TLC refutes it without. A line that fills its buffer gets its
  terminator behind the buffer (`common.c:163`). A reset connection ends the
  server with all its workers (`common.c:183`).
* `testfs_allocate_block` frees `i_indirect` where it means `i_dindirect`
  (`read_write.c:294`), and keeps an empty doubly indirect block when it runs out
  of space for the third layer (`260`), which the removal of a file whose size
  ends before it forgets. A long write is compared with `MAX_FILE_SIZE` at its
  ends only (`384`). `EFBIG` is returned positive at 23, 132 and 359.
* `ls` of a file loses a reference (`dir.c:311`), so `quit` fails the assertion
  of `inode.c:43`; a create without room for its entry leaves the directory dirty
  and with the largest size (`dir.c:227`), so the next lookup of a missing name
  fails the assertion of `dir.c:29`. Both are in `Testfs`, whose `fate` becomes
  `abort`.
* A removal frees the inode (`inode.c:227`) before it writes the empty inode
  (`228`), and `testfs_create_inode` believes what it finds in a free inode: after
  a crash in between, the next file has the old size and blocks. Its removal then
  frees blocks that may be another file's by now, and more blocks are in use than
  the super block counts. `Testfs` comes to that create and stops (`stale`);
  `CountersCover` says that a crash leaves one such inode at most.
* In the warm-up programs, `sp_destroy` uses a head that may be uninitialised and
  `wc_init` goes one past the end of a text that does not end in white space.

### Bounds

* Threads: 4 of 1024 in `threads`, 3 in `sync`. Four give a queue with a head, a
  middle and an end beside the running thread, all places an operation can take a
  thread from; the safety of `Threads` and `Sync` is proved for any number. With three threads and all
  objects there can be a holder and two waiters, or a holder, a lock waiter and a
  sleeper; with four the state space is ten times what a run can take.
* The arguments of `thread_yield` and `thread_kill` are all identifiers, the
  control codes and numbers at and beyond each end of the accepted range.
* Ring: room for 2 of `max_requests`, so that empty, half full, full and the
  wrap all occur, with 5 connections to go round it; its safety is proved for
  any size. `Connections` bounds an otherwise endless run.
* Cache: 3 units with files of 1, 1, 1, 2 and 4, so that evictions take one or
  several entries, must skip one that is being sent, and can fail; two of the
  names share a row. Two workers are enough for every pair of steps of two
  requests. Symmetric workers and files are merged; no liveness is checked there.
  Its safety is proved for any files, sizes, workers and capacity.
* Connection: `MaxLine` = 2 is the longest header line of the model, so a line of
  three words is cut; `RioSize` = 3 makes the read buffer end inside and between
  lines, and hold parts of two; `SocketSize` = 6 is the length of a request, which
  the code relies on to fit (its client writes all of it before it reads), while
  a reply does not fit. One file has an empty line and a line that is cut, one
  is empty, one cannot be read, and one cannot be read and is cached as empty. Only one connection is open at a time; others
  share nothing with it but the process. Its safety is proved for any sizes from
  `MaxLine` = 2 and `SocketSize` = 6 on.
* Files: 1 + 2 + 4 blocks (`NR_DIRECT_BLOCKS`, `NR_INDIRECT_BLOCKS`) instead of
  10 + 2048 + 2048^2; the device of 5 blocks runs out at every step of an
  allocation, and has room for two blocks of the third layer.
  `remove_large` has 6. Writes cover up to `MaxLength` = 3 blocks. The properties
  of `blocks` are proved for any numbers.
* Directory tree: a directory's block is full with three entries, so that the
  first entry that needs a second block comes early; a name takes the place of a
  removed one of its length, and a longer one does not. Four inodes and three
  blocks are the least with which an entry does not fit into a directory below the
  root, so that a directory of the largest size is removed later. `FreemapBits` = 5
  is one bit that is not of an inode (65536 bits for 16384 inodes in the code). `MaxListed` = 1
  bounds the references `ls` loses, `MaxCrashes` = 1 the crashes: the properties
  speak of the device after a crash and all commands that follow it; two crashes
  were checked once and take too long for a run.

### Fairness

* `Threads`: weak fairness of `Resume` - a thread that has been given the
  processor goes on; strong fairness of `interrupt_handler` - the timer is armed
  again by every handler and its signal stays pending while it is blocked, so a
  thread that keeps calling the package is interrupted between two calls.
* `Sync`: the same for the steps inside `lock_acquire` and `thread_sleep`, and
  strong fairness of `lock_release` for each thread: a holder releases the lock
  in the end, as the clients in `test_thread.c` do. Nothing is assumed of signals:
  no property says that a sleeper on a condition variable is woken.
* `RequestBuffer`: weak fairness of `server_request` and of each worker's steps:
  a thread outside a wait gets the mutex in the end and `do_server_request`
  returns. A waiter is woken by a signal only: spurious wakeups may happen and are
  not relied on.
* `Connection`: weak fairness of the steps of each process: it goes on unless it
  waits for the other side. A call that a signal interrupts is made again, and
  signals do not come for ever. A client may be killed at any time and is not
  obliged to start. `WorkerReturns` is what the fairness of `served` in
  `RequestBuffer` rests on, for clients that send their request whole.
* `FileCache`, `BlockMap`, `Testfs` have no liveness properties.

## Proofs

Each `...Proofs` module extends the component's and proves about its
specification for all values of its constants. Where a proof needs more than the
declared assumptions, the theorem says so:

| hypothesis | where | why |
|---|---|---|
| `ExitFill = Nil` | Threads, Sync | the code's initialiser of `exit_array` leaves zeros; `cold_reap` shows what happens then |
| `DestroyRules` | Sync, all theorems | clients destroy no wait queue with sleepers and no lock that a thread inside a call still uses; `thread.c:653` and `858` do not look |
| `Rules = EveryRule` | Sync, the holder of the lock and the refinement of `Monitor` | `thread.c:893` frees the lock whoever calls; the holder may acquire again and spin (`877`), or exit with the lock. `thread.h:98`, `132`, `143`, `149` and `153` ask the package to check two of the rules, which it does not |
| `NoFileLikePage` | Connection, the theorem about `Exchange` | the client sees by length and checksum alone whether it got a file or the page that refuses its method (`request.c:118`); no file may have both of that page |
| `NoneExpectedEmpty` | Connection, the same theorem | a file that cannot be read but is cached comes as a success with an empty body (`server_thread.c:466`); a client that expects an empty file takes it for that one |

**Threads** (`ThreadsProofs`): `TypeOK`, `ReadyListIntact`, `OnePlace`,
`StacksOwned`, `ReapedBeforeUser`, `OnlySuspendedRun` and `ReapsOnlyExited`. The
inductive invariant is

    IInv == TypeOK /\ ReadyListIntact /\ OnePlace /\ StacksOwned /\ ExitArrayShape

The properties alone are not inductive: that reaping touches exited threads only
depends on `exit_array` using its first entry alone, and on that entry being empty
while client code runs (`ExitArrayShape`). There is one lemma per action, and they
rest on the lemmas at the head of the module, which say what `Enqueue` and `Unlink`
do to the chain and to the set of listed threads of any well-formed queue. `Listed` is
defined as the least set closed under the links, so these proofs need neither
recursion nor induction.

**Sync** (`SyncProofs`): `SyncTypeOK`, `WaitersIntact`, `SyncOnePlace`,
`MutualExclusion`, `NoSleepOnFreeLock` and `HolderRunnable`. The queues are
inductive by themselves, whoever uses the lock:

    SyncIInv == SyncTypeOK /\ WaitersIntact /\ Placed /\ StacksOwned
                           /\ SyncExitArrayShape /\ LockShape

and `MutualExclusion` and `HolderRunnable` need `HolderShape` besides.

`Placed` says that the current thread is in no ready queue, that a listed thread is
inside a call it can be resumed in, and that one which only lost the processor
(`stub`, `yield`) is listed: without it `SyncOnePlace` could not exclude that
`thread_wakeup` puts a thread into the ready queue which is there already.
`LockShape`: while `l = 0` nobody sleeps for the lock, because `lock_release` wakes
them all, and each of them looks at `l` again when it runs. `HolderShape`: while
`l = 1` there is one holder, it runs or is ready, and it does not itself want the
lock. What a spoiled queue holds is not read by any step but the one to `wild`, so
the proof asks of it only that nobody sleeps in it.

**The orders** (`ThreadsProofs`, `SyncProofs`): `Threads` implements
`Scheduler`, and `Sync` implements `Monitor`. The set of listed threads does not
say in which order they come, so `ThreadsProofs` also proves which sequence a
chain stands for (`Chain`, `Walk`), that there is only one, and what `Enqueue`,
`Unlink` and `Splice` do to it. Then every action is one call of the promise with
one of its outcomes, or a stutter; the invariants above give the guards.

**RequestBuffer** (`RequestBufferProofs`): `TypeOK`, `RingHoldsPending`,
`ServedOnce`, `SomebodyAwake` and `MainNotForgotten` for every set of workers,
every `MaxRequests` (0 included) and every number of connections. The conjunction
is inductive; the work is the index arithmetic modulo the size of the ring, which
`OccupiedFacts`, `PutFacts` and `TakeFacts` do once. `BufferIsChannel` proves that
the ring takes the steps of `Channel` (`Chan!Safety`, the promise without its
fairness).

**FileCache** (`FileCacheProofs`): `TypeOK`, `ListAndTableAgree`, `OccupiedExact`,
`SentStaysCached` and the refinement of `LRUCache`, for all files, sizes, rows and
capacities and every finite set of workers. The inductive invariant is

    IInv == CacheInv /\ ThreadsInv

`CacheInv` says that the list has each file once, that the table is `Sound` (every
row is a chain of distinct files of that row, or cut at its head, and the rows
together hold exactly the files of the list) and that `occupied` is the size of
what is listed. `ThreadsInv` counts the senders, and says that a thread which has
found an entry still finds it in the list, or has an address that is `stale`
(`HitOrStale`): that is the state in which `find_LRU` may add a reference. An
eviction is a fold of `hash_delete` over a sequence that is picked from the list by
position. The folds of the library are functions defined by recursion over a set;
`FreedByContent` and `TablesWithout` show what they compute. The size of a set of
files is taken as the number of its bytes, `Content`, whose cardinality adds up
over disjoint sets. That the eviction loop drops no more than it must
(`EvictionOrder`) is the heart of the refinement. The steps that would follow a
pointer to freed memory are those of `GoesWild`, after which the model stops; the
theorems speak of the states up to there, and `hit_evicted` and `row_cut` show
that there are such steps.

**Connection** (`ConnectionProofs`): `TypeOK`, and that `Connection` takes the steps
of `Exchange` (`Ex!Safety`), for all files and contents but those the two
hypotheses above except, and all sizes of lines, read buffers and sockets. The inductive invariant is

    IInv == TypeOK /\ SocketShape /\ LineShape /\ RequestFlow /\ ReplyFlow

`Rest(p)` is all that side `p` has still to read: the line it is collecting, its
`rio_buf`, what is on its way, and what the other side has still to write. No step
of `Write`, `Fill` or `Collect` changes it, wherever the pieces end (`WriteKeeps`,
`ReadKeeps`), except that a write to a closed socket loses what it takes.
`RequestFlow` and `ReplyFlow` say which suffix of the request, or of the reply that
is due, `Rest` is at each stage, and what the client knows by then of length and
checksum. `LineShape` says that a line under way has no newline before its last
word and is shorter than its buffer; with it the next line of a suffix that begins
with a word and a newline is these two words (`LineOfTwo`). `SocketShape` says who
has closed what, and that a connection is reset under a live client only after a
refusal: that is why a reset never costs a client a file. `BodyRead` shows what the
assertions of `client_print` (`client.c` 84-88) find at the end of the input. That
the checksum is a number needs an induction over the library's fold, which
`Counting` does once.

**BlockMap** (`BlockMapProofs`): `TypeOK`, `BlocksOwnedOnce`, `ReadsBack` and the
action property `RemovesSmallFiles`, for every finite set of files, all numbers of
direct blocks, of pointers in a block, and of blocks of the device, and writes of
any length. The inductive invariant is `TypeOK` and, while `fate` is `ok`,

    Fits /\ Clean /\ Leafy /\ Holds
         /\ block_count counts what is Filled /\ i_size covers what is written

and, when it is `torn`, that the blocks are `Tattered` at one file.

`Own` is the table of all places of all files a pointer can stand in (`Spots`: the
data blocks, the blocks of the third layer, the indirect and the doubly indirect
one) with the block each holds. `Fits` says that no block stands in two places and
that those which stand in one are the bits set in the freemap. `Clean` says that a
free block is all zeros, on which the code relies when it takes a new block for a
pointer block: without it a fresh indirect block would bring old pointers. `Leafy`
says that no block of the third layer is empty: that is what the code restores when
the space runs out behind a new one. `Holds` relates the places of data to what was
written.

A write is a loop over blocks, each with up to three allocations, and the proof
follows it: `Link...` says how one new pointer changes `Own` (a single place),
`Grow...` what one allocation does to the invariant, `Undo`, `GiveBack` and `Tear`
what is left when the space runs out between a pointer block and what it is for,
`Serve` puts these together for `testfs_allocate_block`, and `Loop` carries an
invariant through `For`. Removal is four loops, two of them nested; `Removed(L, row,
P, T)` says that the blocks in the places `P` have gone and nothing else, which
holds for whatever places the loops come to (`FreeAll`), also those of a large file
that they stop short of. The assertion of `inode.c:224` then tells whether `P` was
everything (`AllOfThem`); and for a file that needs at most the first row of the
third layer it was (`SmallGone`), unless the file ends before its doubly indirect
block and that one is empty (`EmptyDouble`): the loops pass it over.

**Testfs** (`TestfsProofs`): `TypeOK`, `TreeIntact`, `MemoryAgrees`,
`CountersExact`, `EntriesLeadToInodes` and `CountersCover`, for every number of
inodes, bits of their freemap, blocks and entries in a block, all names and their lengths, and any number
of crashes. The inductive invariant is

    IInv == Memory /\ Good(disk, crashes)
                   /\ (crashes = 0 => Exact(disk, Tree(entries, disk.inode)))

`Good(d, c)` is what a device keeps through crashes: the directories the root leads
to (`Tree`, the least set closed under the entries, so that there is no recursion in
it) have the `Shape` of a tree, each with its two own entries, one entry for each
inode and no name twice, and what they use is covered by the freemaps and counters,
which are apart by `c` at most, as many free inodes at most having their old contents
(`Cover`). The theorems about crashes reach as far as the model does: to the first
create that takes such an inode. `Exact` is what the first crash may make
false: that nothing else is marked or has a block. `Memory` is `MemoryAgrees` with
the types of what is not on the device, and says that the current directory is in
the tree.

`TreeIntact` and the other properties are not inductive, since they say nothing
between the writes of a command. A command is a sequence of writes, and `Safely(d,
s, y, k)` says that `s` leads from `d` to `y` over devices which the next start reads
as good ones, `k` crashes counted. Sequences are put together (`SafelyThen`) from
single writes, from pairs of a freemap with its counter, and from any number of such
pairs for the blocks of a write or a removal (`PairStages`, `BlocksSafely`); `Creates`, `Removes` and
`Written` are the commands. The point of each is the order the code writes in: before
the entry of a new inode is on the device nothing leads to it (`EarlyGood`), an entry
without the size of its directory is read or not (`Unsized`), and a removal makes the
entry invalid first, so that what follows changes only what nothing leads to any more
(`KeepsDropped`). How the tree changes with an entry more or less is said once
(`TreeGrows`, `TreeShrinks`, `AddedShape`, `Dropped`).

That `Below(Root)`, which goes down as many levels as there are inodes, is this least
set (`BelowIs`) is a pigeonhole: each level has one inode more, or is the last. That
the assertions of `super.c` 220 and 251 hold follows from `CountersCover`: what is
removed is in use.

Induction over data is done without the library's induction theorems, which the
provers cannot instantiate: `LeastNat` (a set of numbers that is not empty has a
least element) and `AllNat` are stated of sets of numbers, and a proof by
induction names the set of those for which its claim holds.

Only model-checked: liveness, which is out of the prover's reach, so also that an
exchange ends (`WF_vars(Conclude)` in `Exchange`). Every invariant that a passing run
checks is proved.

## Not modelled

* The contents of contexts and stacks, signal delivery inside the handler's
  logging, and the time between signals. A running thread that is interrupted is
  always in client code, as every function of the package blocks the signal.
* Offsets inside a block, and the last `memcpy` of `testfs_read_data`
  (`read_write.c:168`), which copies more than it should: this is about bytes.
  Entries of a directory that cross into the next block are left out for the same
  reason.
* The loss of writes that the operating system has not yet put on the device, and
  crashes inside the block map of one file (`BlockMap` takes a command whole).
* The characters of requests and replies, MIME types, command parsing and
  formatting; the generator of file sets; the SQL files.
* The warm-up programs: small sequential functions over a list and a table, whose
  disagreements are named above.

## Plan

1. `Testfs`: entries that cross a block boundary.
2. `Connection` composed with `FileCache`, so that two workers share what a reset
   connection leaves; `BlockMap` with crashes between the writes of an allocation.
