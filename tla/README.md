# A TLA+ verification of Systems-drills

The repository is a collection of small C and C++ programs: concurrency drills, a ring
buffer in two versions, two per-CPU loggers, a bounded buffer, an RCU-style
address table, two processes on pipes, a message parser, a game, and a number
of sequential exercises. They do not call each
other; what they have in common is ideas (a queue, a counter, a log) and the
modules here follow those ideas: several programs are shown to implement one
abstract specification.

Paths below are relative to the repository's sources.

## 1. Inventory

| Program | State | Operations | What is hard about it |
|---|---|---|---|
| `concurrency/01-mutex/mutex.c` | `lock_word`, the counter, `c_lock` | `my_lock`, `my_unlock`, `worker`, `worker_lock`, `main` | the futex word is overwritten by newcomers; sleep and wake race; `counter++` is two accesses |
| `concurrency/02-atomic/atomic.c` | the counter | `worker_explicit`, `worker_generic`, `main` | the total, whatever the memory order |
| `concurrency/03-handoff/handoff.c` | a struct and a flag | `write_handoff`, `read_try`, `read_spin`, `check_log` | publication of plain memory through a flag |
| `concurrency/04-cas/cas.c` | one `atomic_long` | `my_add`, `my_max`, three workers, `run_threads` | stale snapshots, spurious failure, retry |
| `SPSC_Ring_buffer/rb.c` | buffer, `head`, `tail` | `ring_write`, `ring_read`, two tests | acquire/release only; indices that wrap; stale indices |
| `SPSC_Ring_buffer/rb_lock.c` | the same, a mutex, two conditions | try and blocking operations | lost signals |
| `Interview/bounded_buffer.c` | `struct bq`, `seen` | `bq_init`, `bq_destroy`, `bq_put`, `bq_get`, workers | several producers and consumers on two conditions; failures half way |
| `Interview/mock1_rcu.c` | `current`, the tables, `readers[].seq`, `writer_lock` | `read_begin`, `read_end`, `translate`, `region_add`, `wait_for_readers` | freeing a table readers may hold, under weak memory; starvation of the writer |
| `Interview/mock1.c` and the table of `mock1_rcu.c` | an array of regions | `region_add`, `translate` | unsigned wrapping, overlap, binary search, comparing with neighbours only |
| `CPU_logger/cpu_logger_lock.c` | `g_log`, `g_count`, `g_busy`, staging buffers | `try_begin_write`, `wait_begin_write`, `end_write`, `flush` | copying with no mutex held; a full staging buffer; lost broadcasts |
| `CPU_logger/cpu_logger_lock_free.c` | `head`, slots with `seq` | `log_write`, `log_read` | torn entries; slots reused when the log wraps |
| `Interview/builds/01-tictactoe/tictactoe.c` | the board, whose turn it is | `set_board`, `make_move`, `count_dir`, `is_win`, `parse_input`, tests, `main` | judging a board by the last move; the edges of a flat array; bad input |
| `concurrency/00-visible_race/visible_race.c` | a `volatile` counter | `worker`, `main` | how wrong the total can be |
| `ping-pong/main.c`, `main2.c` | two pipes, two processes | `read_byte`, `write_byte`, the two loops, `waitpid` | end of file needs every copy of the write end closed; either process may die with the byte in flight |
| `Interview/mock4.c` | buffer, offset, a 16-bit counter | `parse_msgs`, `handle_msg` | messages that end with the buffer; the counter wraps |
| `Interview/leetcode/08-parking-lot.c` | `occupied` flags, `free_count` | `create_lot`, `assigner`, `deassigner` | counts the search trusts; stale tickets |
| `Interview/leetcode/11-lru-cache.cpp` | a list, a map of iterators into it | `get`, `put` | iterators that dangle; the order of use |
| `Interview/leetcode/03-...c`, `04-...c` | a grid and queues of fixed size | `numberOfIslands`, `orangesRotting` | a cell queued twice; a minute that runs into the next |
| `Interview/leetcode/01-two-sum.c` | a hash map with open addressing | `probe_map`, `set_map`, `get_map`, `twoSum` | collisions, wrapping, termination of the probe |
| the other files of `Interview/leetcode/`, `pool_allocator/pa.c`, `next_pow2` of the rings | | pure functions | edges: empty inputs, overlap, equal keys, the largest value |

The hazards this code is exposed to are listed, line by line, in
`PROJECT.json` with the properties that would catch each.

## 2. Modules

| Module | Models | Abstract specification it implements |
|---|---|---|
| `AtomicCounter` | `atomic.c` | |
| `LockedCounter` | `mutex.c` run with `pthread` | `AtomicCounter` (proved) |
| `FutexMutex` | `mutex.c` run with `mine` | `LockedCounter` (proved) |
| `BoundedFifo` | a first-in first-out queue of limited length (abstract) | |
| `SpscRing` | `rb.c` | `BoundedFifo` (proved) |
| `LockRing` | `rb_lock.c` | `BoundedFifo` (proved) |
| `BoundedBuffer` | `bounded_buffer.c` | `BoundedFifo` (proved) |
| `Rcu` | `mock1_rcu.c`: readers, replacement and reclamation of the table | |
| `RegionTable` | `mock1.c` and `mock1_rcu.c`: what is in a table and how it is searched | |
| `LoggerCpus` | the CPUs and entries of both loggers (constants) | |
| `CpuLoggerLock` | `cpu_logger_lock.c` | |
| `LockFreeLog` | `cpu_logger_lock_free.c` | |
| `Cas` | `cas.c` | |
| `Handoff` | `handoff.c` | |
| `TicTacToe` | `tictactoe.c` | |
| `PingPong` | `ping-pong/main.c` and `main2.c` | |
| `VisibleRace` | `visible_race.c` | |
| `MessageParser` | `mock4.c` | |
| `ParkingLot` | `08-parking-lot.c` | |
| `LruCache` | `11-lru-cache.cpp` | |
| `Grid`, `Islands`, `RottingOranges` | `03-number-of-islands.c`, `04-rotting-oranges.c` | |
| `TwoSum` | `01-two-sum.c` | |
| `Lists` | `02-valid-parentheses.c`, `05-reverse-linked-list.c`, `06-merge-two-sorted-lists.c`, the free list of `pa.c` | |
| `Arrays` | `07-merge-intervals.cpp`, `09-memcpy-memmove.c`, `10-stl-refresher.cpp`, `12-sudoku-validator.c`, `13-ship-packages.c`, `14-merge-intervals.c`, `next_pow2` | |
| `Program`, `RegionProgram`, `RaceProgram`, `ParserProgram`, `CacheProgram` | `RegionTable`, `VisibleRace`, `MessageParser` and `LruCache`, each as one of several programs: constants, variables and what is asked of it | |
| `Programs` | these four with `ParkingLot`, `Islands` and `RottingOranges` | |
| `MCFutexMutex`, `MCDrills`, `MCSequential` | instances for TLC | |
| `RingLemmas` | lemmas on `%`, and on what a write and a read do to the sequence a ring holds | |
| `ExerciseProofs` (of `FutexMutex`, `LockedCounter`, `ParkingLot`, `VisibleRace`), `ContainerProofs` (of `SpscRing`, `LruCache`), `BoundedBufferProofs`, `RegionProofs` (of `Rcu`, `RegionTable`), `RecordProofs` (of `CpuLoggerLock`, `MessageParser`, `Islands`), `LockFreeLogProofs`, `DrillProofs` (of `Cas`, `Handoff`, `PingPong`, `LockRing`) | theorems | |

In every module a thread's program counter (`pc`) names the access to shared
memory it makes next. An action is one such access with the thread-local
computation up to the next one. `mainPc` is where `main` is: it creates the
threads, which run as soon as they are created, joins them, and when it
returns early the process ends, threads included. An operator whose name
extends that of the action after it (`LockSlow`, `LockSlowStealing`) is a
deliberately wrong version of that action; it takes part in nothing, and serves
to confirm that a property fails when the code is changed that way.

**FutexMutex.** Each `atomic_exchange` is an action. The kernel is external:
`FutexWait` compares and sleeps in one step, or returns because the word
changed; `FutexInterrupt` sends a sleeper back at any time; `FutexWake` makes one
sleeper runnable. `counter++` is `Load` and `Store`.

**SpscRing.** `rb.c` relies on acquire and release only, so an index is not a
variable but the sequence of values it was given (`headLog`, `tailLog`), each
with the number of slot accesses its release hands over. A load returns any
message not older than the last one the thread saw, and takes over its view.
`RaceFree` states that the accesses to a slot are ordered by those views.
Indices are `% Wrap`.

**BoundedBuffer, LockRing, CpuLoggerLock.** The pthread mutex and conditions
are external: a mutex is the set of its owners, a wait releases the mutex and
sleeps in one step, a signal wakes one waiter if there is one, and a waiter may
wake for no reason. A woken thread must get the mutex again before it goes on.

**Rcu.** A table is an address with a set of regions; `malloc` may hand out an
address freed before. The release store of `read_end` goes through a store
buffer, from which it reaches memory late (`Flush`); the `seq_cst` store of
`read_begin` leaves nothing in it. Of `seq` the writer uses the parity and
whether it is still the value it loaded first, and the model keeps these two.

**RegionTable.** The linear table of `mock1.c` and the sorted one of
`mock1_rcu.c` receive the same calls; arithmetic is unsigned with maximum
`UMax`. The binary search and the insertion are the loops of the source as
functions.

**TicTacToe.** The board is the flat array of the code. A move, the verdict and
what `main` makes of it are one action; a line that `sscanf` cannot read and a
move that `make_move` refuses change nothing. The tests of `test_tictactoe` are
a table of boards and results that `main` evaluates before it plays, with the
operators the game uses.

**LockFreeLog.** A copy is a step per word and a word holds its ticket, so a
torn entry has words that differ. The fences keep each side's accesses in
program order. `lapped` remembers whether a ticket was reserved while an older
ticket of the same slot was not yet published.

**Cas.** A first load may return an older value; a weak compare-and-swap
returns the current one, and may fail for no reason.

**Handoff.** Plain stores become visible and plain loads happen in any order,
except across the release store and the acquire load of the flag.

**PingPong.** The state is which process holds which end of which pipe, and how
many bytes each pipe contains. Every `close` is a step. A read returns a byte,
or end of file when nobody holds the write end; a write to a pipe nobody reads
kills the writer; any read or write may fail for another reason, and then the
process dies, which closes its ends. The two programs differ in what they
refuse, in the order of their closes and in what the parent does at an
unexpected end of file.

**VisibleRace.** `(*counter)++` is a load and a store.

**MessageParser.** A byte is below `Base` and the counter below its square, as
2^8 and 2^16 are. `handled` is the history of the calls of `handle_msg`.

**LruCache.** The list is a sequence of addresses and the map holds addresses;
an evicted node's address is the first to be reused. `uses` is the history from
which the property computes what should be in the cache.

**ParkingLot.** `assigner` and `deassigner` in any order, the latter with any
ticket, also one for no spot or one used before.

**Islands, RottingOranges, TwoSum.** One action per turn of the loop. `TwoSum`
leaves open what the hash of a key is, among the first and the last slot.

**Lists, Arrays.** One step computes the result from the argument with the
loops of the source as operators; the property compares it with a definition
that has no loop: a balanced string, the points a set of intervals covers, the
least capacity over all ways to cut the packages.

## 3. What TLC checks

One run per question; all bounds are the constants of the `.cfg` files.

| Run | Instance | Shows |
|---|---|---|
| `futex` | 3 threads, 2 turns | mutual exclusion; a sleeper is never forgotten; the asserted total; everybody finishes; implements `LockedCounter` |
| `spsc_ring` | 4 slots, indices below 8, 14 items | no race, and order, although indices wrap almost twice; both threads finish; implements `BoundedFifo` |
| `bounded_buffer` | 2 producers, 2 consumers, 2 slots, 3 items each | no lost signal; at the end every value was recorded once, and every failure path has released exactly what was acquired; everybody finishes; implements `BoundedFifo` |
| `rcu` | 2 vCPUs, 2 writers, 3 regions, 2 addresses | no use after free; reads are monotone; a published table never changes; nothing leaks; the writer is not starved |
| `sequential` | the programs of eleven modules, listed below | the results of every program of which only safety is asked |
| `cpu_logger` | 3 CPUs, 3 entries, room to stage 2 | one owner; whoever sleeps has an owner to wake it; at every moment log and staging hold each CPU's entries once and in order, and staging never overflows; everybody finishes |
| `lock_free_log` | 2 CPUs, 3 entries, 2 slots, 2 words, 1 reader | unless a writer was lapped: accepted entries are whole, an even `seq` means committed, and at the end the last tickets are all committed |
| `drills` | `cas.c`: 3 threads, 2 turns; `rb_lock.c`: 2 slots, indices below 4, 7 items; `handoff.c`: both readers; `ping-pong/`: 0, 1 and 3 exchanges | the totals `main` asserts, and the maximum is that of the offers so far; whoever sees the flag sees the struct; the locked ring is a `BoundedFifo`; one byte is in play, the ends of file mean what they should and the report is true; all four end |

`MCDrills` puts small independent programs into one state space: the initial
state chooses which one was started, and the others do not move. `MCSequential`
does the same for the programs of which only safety is asked. Those of
`Programs` have variables and constants of their own, so that the proofs can
extend the very modules the run is about and speak of the same properties; the
others share their variables. The instances:

| Property | Instance | Shows |
|---|---|---|
| `SameVerdicts`, `TranslationsExact` | addresses 0..5, 3 regions | the sorted table stays sorted and disjoint and gives the verdicts of the unsorted one; every address translates as its region says, or not at all |
| `VerdictExact` | 3 by 3 to the end, 4 by 4 up to 5 marks, rows of 3 or 4 | after every move the verdict is that of the whole board, and the players alternate |
| `RaceOutcome` | 4 threads, 2 turns | the total is at most the number of increments, and at least 2 |
| `ParsedExactly` | bytes below 3, every buffer up to 8 bytes | what was handled, written out again, is what was consumed; -1 exactly where no message is left to read |
| `LruExact` | 3 keys, 2 values, capacities 0 to 2, 3 addresses, 4 uses | the cache holds the keys used last with the values put last; no iterator dangles |
| `LotHonest` | 2 levels of 1 small, 2 medium and 1 large spot | `free_count` is the number of free spots; every vehicle gets the smallest free spot that fits, and is refused only if none does |
| `IslandsExact`, `MinutesExact` | every grid of 2 by 4 | no cell is queued twice, every island is counted once; rotting through two queues is all oranges rotting at once |
| `ExercisesExact` | strings and lists up to 4, intervals in 0..3, 5 bytes of memory, 4 packages, 4 by 4 boards with two numbers, 8-bit `next_pow2` | each returns what its reference definition says |

Four runs show that the code does something a comment or an assertion of the
repository excludes:

* `message_count`: `mock4.c:25` says that `parse_msgs` returns the number of
  messages; it counts them in 16 bits (here 2), so that 65536 messages without
  payload are handled and 0 is returned.
* `futex_negative`: `main` refuses a repetition count of 0 only; with a
  negative one the assertion at `mutex.c:117` fails (also `atomic.c:60`, `:84`).
* `bounded_buffer_destroy`: when a later thread cannot be created, `main` calls
  `bq_destroy` while earlier threads use the queue, against
  `bounded_buffer.c:17`.
* `lock_free_log_lapped`: a writer that stalls for a whole lap shares its slot
  with a later one, and `log_read` accepts a mixed entry, against
  `cpu_logger_lock_free.c:53` and `:70`. `main` keeps the log from wrapping.

A comment that is not quite true without harm: `mutex.c:21` says of the word "1 =
locked and nobody waiting", but the exchange of the fast path writes 1 over a
2. Whoever overwrote the 2 writes it again, which is what `NoLostWakeup` says.

**Why the bounds are enough.** The protocols distinguish a thread from the
others, not how many others there are. Three futex threads are a holder, a
sleeper and the newcomer who overwrites the word. Two producers and two
consumers on two slots reach every combination of waiting, woken and overtaken
threads on either condition, and go round the ring. Two addresses are enough
for an address to be freed and handed out while a reader that entered before is
still inside. Indices wrap within every ring run, and the log wraps three
times. Parent and child of ping-pong are two in the program too, and three
exchanges are a first, a middle and a last one. A 2 by 4 grid has islands
around corners, several at once, and a cell with two neighbours in the queue; two
numbers on a board are enough for a clash; capacities 0, 1 and 2 are the ones
where eviction meets the node just inserted, the only other one, and one of
several. Where the bound matters for every value the property is proved
(section 4).

**Deadlock** is not checked where programs end, since the end of `main` is a
state without successors; that they do end is a liveness property of the run
instead. The programs of `MCSequential` have none: whether a game ends is up to
its players, tables, lot and cache accept calls for ever, and the loops of the
exercises are bounded by their arguments.

**Fairness.** Every thread that can run is eventually run (weak fairness of its
steps), which the scheduler gives. Beyond this:

* `SpscRing`, `Handoff`, `Rcu`: a store becomes visible after finite time, so a
  thread that keeps loading does not see the old value for ever.
* `Cas`: strong fairness of success: a weak compare-and-swap that could succeed
  again and again does not fail each time. C guarantees no more than that for a
  single thread, and without it `my_add` need not end.
* `BoundedBuffer`, `LockRing`: spurious wakeups end. A waiter that wakes, takes
  the mutex and waits again for ever could keep the mutex from the others.
* `PingPong`: a process that is not blocked runs; no call has to fail, and any
  may.
* `Rcu`: nobody has to start a section or a `region_add`, only to finish it.
* Not assumed: fair mutexes, any order in which waiters are woken, the absence
  of interrupts.

## 4. What is proved

The proofs hold for every value of the constants that satisfies the named
assumptions. Every safety property of a passing run is proved, except
`VerdictExact`, `MinutesExact` and `ExercisesExact` (section 5). Each inductive
invariant was checked by TLC on the instance of its run first. A theorem about
one of the `...Program` modules states the property of the component and the one
the run checks, which is the same with the name of the program in front.

**ExerciseProofs, the mutex.** `LockRefinement`: the mutex-guarded load and store
implement `AtomicCounter`. The inductive invariant says that the holders are
the threads between lock and unlock and at most one, that the holder's copy of
the counter is still the counter when it stores, and that each thread's loop
variable agrees with where it is. The store is the abstract increment, all
other worker steps are invisible.

**ExerciseProofs, the futex.** `TypeCorrect`, `Exclusion`, `WakeupSafety`,
`TotalSafety`, and `FutexRefinement` to `LockedCounter`. Mutual exclusion alone is
not inductive, since any exchange may return 0 as far as it says; what is needed
is that the word is 0 exactly when nobody holds the lock (`WordTellsHeld`). The
lost wakeup needs the disjunction in `NoLostWakeup`: the word is 2, or somebody
is about to write 2, or a wake is on its way. A thread that waits in whatever
way maps to one in `pthread_mutex_lock`. `TotalSafety` counts: the counter is the
number of pairs of a thread and a turn whose store has happened, and when all
workers have been joined these are all pairs. It assumes a positive repetition
count; for a negative one the run `futex_negative` shows the assertion false.

**ExerciseProofs, the parking lot.** `LotIsHonest`, for every number of levels and
spots. That the counts agree with the flags is inductive with the types, since
taking a spot changes one flag and one count by one; it is what makes the
shortcut of `assigner` right, which passes over a size without looking when its
count is 0. The counts `create_lot` computes are the sizes of a product of two
intervals.

**ExerciseProofs, the visible race.** `RaceSafety`, for every number of
increments. That nothing is made up is a count: no loaded value exceeds the
increments made. That at least two survive needs to know who can still store a
1: only a thread in its first turn, since a later load comes after a store of
its own (`ThreadInv`); so a total below 2 is never the last one.

**ContainerProofs, the ring.** `TypeCorrect`, `RaceSafety`, `OrderSafety`, `CapacitySafety`
and `RingIsFifo`, for every capacity, every multiple of it as index range and
any number of items. The inductive invariant counts in unbounded numbers: the
`n`-th message of an index has value `n` modulo `Wrap` and a view of `n`
accesses; what each side has seen of the other is at most what the other did
and at most a capacity behind its own count. From that the wrapped difference
of the indices is the unbounded one, because it lies between 0 and the
capacity, which is less than the range. For the refinement a value is in the
queue from the store of `head` to the store of `tail`: the slot written before
the former is the one past the queue, and the other slots of the queue are
different ones (`RingPut`, `RingGet` in `RingLemmas`).

**ContainerProofs, the cache.** `CacheSafety`, for any keys, values and
capacities, 0 included, and wherever new nodes are allocated. The inductive
invariant has a part on memory (`Linked`: the map leads to the node with its
key, every node in the list is led to, and no address is in the list twice) and
a part on time (`ByRecency`, `Absent`, `Current`: the list is in the order of the
last uses, a key that is not in it was used before all that are, and the values
are the ones put last). `LruExact` compares with the history of uses and is not
inductive by itself: which key an eviction drops follows from the order of the
whole list.

**DrillProofs.** The theorems on the four programs are about their own
specifications; `DrillsSafety` carries them over to the one the run checks.

* `cas.c`: `CasSafety` is the inductive invariant behind `MaxSafety` and
  `TotalsSafety`: no thread's copy is ahead of the counter, a thread's loop
  variable agrees with where it is, and the counter is the number of completed
  turns, or the largest completed offer. A first load may be stale; a
  compare-and-swap succeeds only on the current value, so a completed turn
  counts once.
* `handoff.c`: `HandoffSafety` needs that the flag is set only after every field,
  and that the reader checks only after it has seen the flag.
* ping-pong: `PingPongSafety`, with two additions to `InStep`: which label each
  process can be at given the other's (`Places`), and which ends a process in
  its loop still holds and has still to close (`Ends`). The second is what
  makes an end of file mean that the other process is gone: as long as it runs
  it holds its write end, and nobody else does once the closes are done.
* `rb_lock.c`: `LockRingIsFifo`, under the try and the blocking operations. The
  invariant is that the wrapped difference of the indices is at most the
  capacity; each critical section is one step of the queue or none.

**BoundedBufferProofs.** `SignalSafety`: no signal is lost, for any number of
producers and consumers and any capacity. `NoLostSignal` is inductive with the
type invariant, and counts: a put takes one producer from those awake and one
free slot with it, and adds an item; then either no consumer waits, or the
signal adds one to the consumers awake. A thread that waits does so because
there is nothing for it: no slot or no item to be accounted for.

`BufferIsFifo` rests on `head` being `(tail + count) % Cap` (`RingInv`).
`EndsCleanly` is about the end of `main` and needs a ledger of what happens
before: a value that was put is in exactly one place, the queue, the hands of
one consumer, or recorded (`OnePlace`), and the values recorded are as many as
the consumers' completed turns (`TurnsRecord`). When everybody is done there
are as many turns as values, so all are recorded. `ResInv` follows `bq_init`
through its error labels: at each, what is set up is what the label undoes.

**RegionProofs, readers and reclamation.** `GracePeriod`, `Monotonicity`, `LeakFreedom` and `Immutability`,
for any number of vCPUs, writers, regions and addresses. `NoUseAfterFree` is not
inductive: that a table is allocated now says nothing of who is about to free
it. `GraceInv` says why it is safe: a reader inside a section holds the
published table, or one that a `region_add` has replaced and will not free
before it has waited for this very reader (`Awaits`: it has not come to the
reader yet, or it spins on it and no store of the reader has become visible
since). It rests on `ReadersInv`, that from the store in `read_begin` to the
one in `read_end` the reader's `seq` is odd in memory: this is where the
`seq_cst` order is used. `LiveInv` says which addresses are allocated,
`AddInv` that a new table holds what the old one held, `LockInv` that there is
one `region_add` at a time.

**RegionProofs, the tables.** `RegionVerdicts` and `RegionTranslations`, for
every address width and table size. The two tables hold the same regions, which
do not wrap and are pairwise disjoint, and the sorted one is in order. From this
the two comparisons with the neighbours of the place found suffice for all
regions. The place is found by a bisection of which the invariant says that
everything up to `lo` starts at or below the address and everything from `hi` on
above it (`Bisecting`).

**RecordProofs, the logger.** `Ownership` and `BroadcastSafety`. Neither is inductive
alone: what is needed is that `g_busy` is set exactly while some CPU flushes
(`BusyMeansFlushing`). The owner clears it and wakes everybody under the mutex,
and a CPU goes to sleep under the same mutex after it has seen it set.

`LogSafety`: nothing is lost, doubled or reordered. A staging buffer holds the
last entries its CPU made, in order (`CpuInv`); the log holds each CPU's entries
up to the first that is not copied yet. `flush` drops an entry silently when the
log is full. That this does not happen follows from counting: the log has
`g_count` different entries (`StagingInv`), the one about to be copied is not
among them, and there is room for all of them.

**RecordProofs, the parser.** `ParserSafety`, for every buffer and every size of
a byte. `ParsedExactly` is inductive with the types. The work is in arithmetic:
two bytes are the quotient and the remainder of one number only, so the header
that was read is the one that would be written, and where the parser gives up no
header fits.

**RecordProofs, the islands.** `IslandSafety`, for a grid of any size.
`IslandsExact` speaks of the moments between two floods; `IslandInv` holds during
one too: a cell that has sunk is in the queue or has no land left around it, no
land is left behind the scan, and the islands counted are those with a cell that
has sunk. When the queue is empty what has sunk is closed under neighbours, so
an island that was touched has sunk whole. That the four directions reach each
neighbour once (`AroundExact`) makes the number of cells ever put the number of
cells sunk, at most rows times columns.

**LockFreeLogProofs.** `LockFreeConsistency` and `LockFreeCommits`, for any
number of writers, readers, slots and words, as long as no writer has been
lapped. The inductive invariant (`UnlappedInv`) holds until then: a writer in
flight has one of the last `LOG_SLOTS` tickets, and so a slot of its own
(`Apart`, by the injectivity of `%` on that many numbers); in its slot `seq` is
older than its own mark or is that mark, and the words copied so far are its
own; a slot with an even `seq` holds that ticket's entry in every word; each of
the last `LOG_SLOTS` tickets is committed or in flight. `seq` only grows, so a
reader that finds the value it started with has copied from an entry nobody
touched (`ReaderInv`). `head` is the number of turns for which a ticket was
taken (`CountInv`). That a lapped writer breaks the property is the run
`lock_free_log_lapped`.

Assumptions: at least one slot, item, turn and word; the index range is a
multiple of at least two of the capacity (`init_ring` accepts powers of two
only, and indices have 64 bits); finite sets of threads and CPUs, not empty
for the futex and the loggers, and as many consumers as producers, as in `main`; in `CpuLoggerLock` a place in the log
for every entry, for which `main` lowers the number of CPUs; in `Rcu` a natural
number of readers and a first region; in `ParkingLot` a lot that `create_lot`
accepts; natural numbers of rows, columns, table entries, capacities and
addresses; a byte with at least one bit; for the cache, an address that no node
has.

## 5. What is only model-checked

* Liveness (`Termination`, `WriterNotStarved`, `EveryDrillEnds`): fairness and
  `ENABLED` are out of the prover's reach.
* `VerdictExact` and `ExercisesExact`: what the loops and recursive operators of
  `TicTacToe`, `Lists` and `Arrays` compute for every input would need induction
  over data, which the installed provers do not do. The result of `TwoSum` is
  asked for in the same property and is checked with them.
* `MinutesExact`: the reference, `RottenAfter`, is a recursive function over the
  minutes. It is checked on every box of the instance only.
* The four runs that end in a violation.

## 6. Not modelled

* Argument parsing except in `tictactoe.c`, printing, timing, thread pinning,
  and the failures of `pthread_join`, `pthread_mutex_lock` and the like that
  the programs do not handle.
* What is undefined in the code and so has no behaviour to model: joining a
  thread whose creation failed and was not checked (`visible_race.c:43`,
  `cpu_logger_lock.c:145`; the loggers' models take creation to succeed),
  `allocate` on an empty pool (`pa.c:40` assigns where it should compare), a
  pool of 0 blocks, `build_array` of length 0 in `06-merge-two-sorted-lists.c`.
* `pa.c` has no operation that gives a block back, and its `main` never calls
  `allocate`; the model is the list and the calls that empty it.
* `test_single_thread` of `rb.c` is sequential and is represented by the indices
  it leaves behind. The test functions of the exercises are replaced by all
  inputs up to the bounds.
* Failed allocations in the exercises that end the process before anything has
  happened. `14-merge-intervals.c` returns `NULL` and leaves `*out_n` alone then.
* In `Rcu` the reasons for which `region_add` refuses a region under the lock
  are one action, since they are the same to readers; `RegionTable` tells them
  apart.

Payloads are numbers that identify them.

## 7. Running

    tlc -config Rcu.cfg Rcu          # likewise for every run of PROJECT.json
    tlapm RegionProofs.tla           # likewise RingLemmas and every module named ...Proofs
