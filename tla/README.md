# HWMonitor in TLA+

A model of HWMonitor, a terminal monitor for Linux written in C11: one process
that samples disks, network interfaces, processor and memory in four threads and
draws what they found in a fifth.  The modules below are translated from the C
sources.  TLC checks them on small instances.  TLAPS proves every invariant and
every refinement that the passing runs check, for every value of the constants;
liveness is left to TLC.

## The system

| Component | State | Operations | Talks to |
|---|---|---|---|
| `main.c` samplers | `ldevices`, `lnet_devs`, `g_cpu_info`, `g_mem_info`, one mutex each; the readings on each thread's stack | take a reading, sleep, take another, compare, install the result in the global | the UI through globals and mutexes, the keypad through `sample_rate_mul` and `programm_exit` |
| `main.c` UI | frame state, ncurses | per frame: lock a global, draw it, unlock; at the end join, destroy the mutexes, dump | samplers |
| `main.c` keypad, signals | `programm_exit`, `sample_rate_mul` (atomic) | F10, UP, DOWN; SIGINT/SIGTERM; SIGUSR1 (debug build) | everyone |
| `allocators.c` | `g_alloc_ht`: what is allocated (debug build) | `zalloc`, `zrealloc`, `zfree`, dump | libc, hash table, log |
| `concurrent_hashtable.c` | chains, a spinlock and a counter per bin, an atomic total | `ht_set`, `ht_get`, `ht_del`, `ht_size`, `ht_bin_size`, `ht_foreach`, `ht_destroy` | allocation registry |
| `log.c` | the log's spinlock, `stdlog` | `_log` | every component |
| `dynamic_allocator.c` | block, `size`, `used` | append, cut, copy, join, remove | `string.c` |
| `string.c` | none of its own | split, strip, search, compare, convert | device readers |
| `double_linked_list.c` | head, tail, size, nodes | push, pop, iterate, traverse, merge, release | device readers, UI |
| `blk_dev.c`, `net_dev.c`, `cpu_dev.c`, `mem_dev.c` | a list or a struct per reading | read /sys, /proc, `df`, `lsblk`; compare two readings | kernel, samplers |
| `timer.c`, `utils.c` | none | sleep, read files, run commands, format | device readers |
| `fifo.c`, `lifo.c` | nodes, head, top, size | push, pop, release | their tests |
| `vector.c` | a byte buffer and a size | add, get, set, foreach, release | nobody |
| `binary_tree.c` | nodes by hash | set, get, leftmost, traverse, release | its tests |
| `crc64.c` | none | checksum | hash functions, tests |

What is hard in it:

- **Threads over shared pointers.**  A sampler releases the list the UI may be
  drawing.  `cpu_info_get` stores the global pointer before it fills the block.
  The rate may be changed while a sampler sleeps.
- **Shutdown.**  A key or a signal can come anywhere; mutexes are destroyed and
  allocations dumped after the joins.
- **A registry next to the heap.**  The two are changed one after the other, so
  every order of the steps of several threads matters, and every failure.
- **Lock-per-bin hash table** with a total read without a lock and a traversal
  that sees one bin at a time.
- **Signal handlers that take locks**, libc's among them, and a log function that
  logs.
- **A kernel that does not stand still** between two readings, or between `df`
  and `lsblk` of the same reading: counters wrap, disks come and go.
- **Boundaries** in the byte buffers, in `string_split` and in the links of the
  lists.
- **Numbers that are not what they seem**: a quotient of 0 by 0 cast to an
  integer, a speed of -1 read digit by digit, ten numbers expected where an older
  kernel prints seven, a loop bound that shrinks with the loop.

`PROJECT.json` lists each hazard at its line, with the properties that watch it
or the reason why none does.

## Modules

| Module | Models | Against |
|---|---|---|
| `HWMonitor`, `HWMonitorMC` | the process of `main.c` | its invariants; `HWMonitorProofs` |
| `Allocators`, `AllocatorsMC` | `allocators.c`, debug build | its invariants; `AllocatorsProofs` |
| `ConcurrentHashtable`, `ConcurrentHashtableMC` | `concurrent_hashtable.c` | `HashMap`, an atomic map; `ConcurrentHashtableProofs` |
| `DebugLocks` | the locks of `log.c`, of the registry up to its destruction, and of libc's heap; the SIGUSR1 handler | its invariants, liveness; `DebugLocksProofs` |
| `DynamicAllocator` | `dynamic_allocator.c` | `ByteStrings`; `DynamicAllocatorProofs` |
| `Links` | the loop that follows pointers to the end | |
| `LinkedList`, `LinkedListMC` | `double_linked_list.c` | `Queues` |
| `Lines`, `BinaryTree`, `Vector` | `fifo.c` and `lifo.c`, `binary_tree.c`, `vector.c` | `Collections`: sequences, a map, an array |
| `ContainersMC` | one of the four containers at a time | `ContainersProofs` |
| `Strings` | `string_split`, `string_strip` and what they call | definitions of words and trimming; `StringsProofs` |
| `BlockDevices`, `BlockDevicesMC` | a sampling round of `blk_dev.c` next to the kernel | a history of the real traffic; `ReadingsProofs` |
| `NetDevices` | a sampling round of `net_dev.c` next to the kernel | a history of the bytes that passed |
| `Processor` | `cpu_dev_get` twice and `cpu_dev_diff_usage` next to the kernel | a history of the ticks |
| `ProcFiles` | the loops of `cpu_info_get` and `mem_info_get` | the lines of the text they read |
| `Meters` | the bars that `main.c` draws of `Processor` and `ProcFiles` | bars without gaps |
| `ReadingsMC` | one of `Processor`, `ProcFiles` with `Meters`, and `NetDevices` at a time | `ReadingsProofs` |

Definitions whose names begin like another and are commented as a *mutant* are
plausible bugs of the definition they follow; nothing refers to them, and
putting one in place of its original breaks the property named in
`PROJECT.json`.

### HWMonitor

`programm_exit` and `sample_rate_mul` are the atomics of the same names; the C
program starts with 100 and has no upper limit, here the rate starts anywhere in
`1..MaxMul` and UP stops there.  A sampler `d` is a thread with its global, its
mutex `mtx[d]` and a pool of `Blocks`: a block stands for a whole reading, list
and all, and its content is only what the UI may do with it (`"partial"`,
`"ready"`, `"skewed"`).  Samplers differ in two ways, given by constants:
`Rebuilt` (processor, memory: release the old block and build the new one in the
global, under the mutex) and `Diffed` (block devices, network, processor: two
readings with a sleep between them).

| Actions | Code |
|---|---|
| `CheckExit` | head of `start_*_sample`, the rate read there |
| `ScanA`, `Sleep`, `ScanB`, `Diff` | `blkdev_sample`, `net_dev_sample`, `cpu_dev_usage` |
| `Enter`, `Retire`, `Publish`, `Leave` | `blk_dev_set_globals` and its siblings |
| `Build`, `Fill` | `cpu_info_get(&g_cpu_info)`, `mem_info_get(&g_mem_info)` under the mutex |
| `StartKeypad` to `SleepFrame` | `ncurses_window`, per panel: lock, look, draw, unlock |
| `Join`, `DestroyMutexes`, `Return` | the end of `main` |
| `KeyF10`, `KeyUp`, `KeyDown`, `SigExit` | `ncurses_keypad`, `sig_handler` |

### Allocators and ConcurrentHashtable

`heap` and `reg` are what libc and the registry say of each address.  A call is
two or three steps: the heap's, the deletion of the old entry, the insertion of
the new one.  `excused` is a history variable: the blocks whose missing entry is
explained by a failure or by the race described under *Findings*.  One call on
the registry is one step of `Allocators`; that this is sound is what
`ConcurrentHashtable` shows with `Linearizable`, where a call is a sequence of
steps under the bin's lock, and insertions and deletions take effect when the
atomic total is changed.  `ht_foreach` is not atomic and is checked by
`TraversalWeaklyConsistent` instead.  Items are nodes with `next` pointers, as in
the code; values are blocks that have to be released once.  `Chain(i)`, the items
of a bin, is the least set that has the bin's first item and with an item the one
after it: a definition that needs no recursion and assumes no order.

### DebugLocks

A call is reduced to the list of locks it takes one after the other: the bins',
the log's, and `Heap`, the lock inside libc that `malloc`, `free`, `fopen` and the
like take, which is no more recursive than the spinlocks.  Calls are
stacked per thread: a SIGUSR1 pushes the dump on whatever thread it interrupts,
a failing `time` pushes the message that `_log` logs with its lock held, and
`ht_set` and `ht_del` push a visit to the heap on top of their bin's lock
(`EnterHeap`), since they allocate and release under it.  The dump itself goes
to the heap for its file: `fopen` between its two passes over the bins, `fclose`
at the end.

One lock stands for libc's arenas and caches: the worst of what an allocator may
do.  A visit that finds memory without the lock is one that is not made.  The log's
lock has no visit to the heap inside it, because the buffer of its stream and the
time zone are allocated by the first message, before there are threads.  libc's
locks of streams can be taken again by their owner and are left out, and so are a
file that cannot be opened, where `ht_hist_dump_csv` frees what `strerror`
returned, and what else a handler that is not async-signal-safe may break.

The threads are the samplers (`Joined`), `Main` and the `Keypad`'s: the first
return and are joined (`Return`), then `Main` destroys the registry
(`Shutdown`, `Destroyed`), while the detached keypad's thread stays.  From the
start of `ht_destroy` on, a call that wants the lock of a bin finds freed memory
or no table; that it crashes is one of its two outcomes, `Crash`.

### DynamicAllocator, Strings, LinkedList

The buffers are records of the block and `used`, and each function of
`dynamic_allocator.c` is an action on them; `ByteStrings` has the same operations
on plain sequences and a refinement mapping that takes the first `used` bytes.
`da_realloc` is called from outside only to make room before a file is read
(`utils.c`), and only that is an action.  Arguments stay within the content, as the
callers' do, and go one past the range that a function checks; `Strings` models
`string_remove_dubseq` with the bytes it reads past the block, since nothing there
keeps it within.  `Strings` runs one call at a time, byte by byte.
`LinkedList` keeps nodes and pointers, `Queues` sequences.  `Along` of `Links` is
what a loop over the nodes comes by, in the order of the pointers and at most as
many nodes as there are; it is a function over the number of steps.  The comparisons only
read; `Read` calls them with all arguments at once.

### Lines, BinaryTree, Vector

Only tests and one unused helper call these, so the models allow every order of
calls.  A queue is a chain of nodes from `head` to `top`, a stack one from
`head`; `wild` records a write to a released node.  A caller may push NULL, and
then the loops of `fifo_release` and `lifo_release` end there: `Collections`
says so, with the number of nodes that are left behind.  `BinaryTree` takes the
recursive functions as the path to a hash (`Path`) or the order in which nodes
are visited (`PostOrder`); the abstract map answers with any order.  In `Vector`
an address from `vector_get` is lent to the caller; after `vector_add` outgrew
the block, what is read there may be anything.

### BlockDevices

`Transfer`, `Mount`, `Unmount`, `Unplug` and `Plug` are the kernel's, possible
between any two steps of the sampler: `ReadDir`, `ReadStat`, `EndDir`
(`blk_dev_scan`), `Df`, `Lsblk`, `Sleep`, `Diff`, `Publish`.  Counters are modulo
`Modulus` (2^64 in the code).  Disks are matched by their names, as in the code.
The history `traffic` counts what was really transferred.

### Processor, ProcFiles, Meters, NetDevices

`Processor` has the kernel's `Tick` and `Correct` (it may lower its estimate of
the time spent waiting for disks) between `ReadFirst` and `ReadSecond`.  A kernel
that prints seven numbers leaves the last entries of `istats` uninitialized:
they are any number.  A quotient of 0 by 0 cast to `ulong` is 0 or `Huge`.
Doubles are taken as exact; the code's rounding may show one percent less.  The
sums (`IdleSum`, `NonIdle`, `Total`) name their fields as the code does; a field
an instance does not have is 0.

`ProcFiles` runs the two loops over a text given as a sequence of kinds of lines,
or of keys with numbers.  A string is known by the line it was copied from, which
is enough to tell the first processor's name from a later one and to count the
copies that nobody releases.

`Meters` has no state of its own: `Lit` is what `ncurses_bar_render` draws for
`cpu_usage` and for the fields of `g_mem_info`.  A cast of "not a number" to
`int64` gives `Lowest`, and subtracting from it overflows, with either outcome.

`NetDevices` reads the files of an interface one after the other (`ReadSpeed`,
`ReadRx`, `ReadTx`); bytes pass (`Pass`) and interfaces vanish and appear between
any two.  Counters are modulo `Wrap`, the arithmetic on the speed modulo
`Range64`.  A speed is the sequence of numbers that `string_to_u64` makes of its
characters, -3 for the minus sign; `ToU64` and the number a text `Said` are
recursive functions over it.  The use of the bandwidth is kept as a
fraction; the time between the readings is left out of it.

## What the runs check

| Run | Instance | Properties |
|---|---|---|
| `HWMonitorSafety` | samplers `cpu`, `blk`, `mem`; 3 blocks each; rates 1..2 | `ReaderSeesComplete`, `OwnedOnce`, `TeardownIsQuiet` |
| `HWMonitorExit` | samplers `cpu`, `blk`; fair | `ExitCompletes` |
| `ConcurrentHashtable` | 2 threads, 1 of which traverses; 2 bins, 4 hashes, 3 nodes, 3 values, 1 failure | `ChainsSound`, `ReleasedOnce`, `TraversalWeaklyConsistent`, `Linearizable` |
| `Allocators` | 3 threads, 3 addresses, 2 sizes, failures | `NoPhantom`, `SizesAgree`, `AccountedUnlessExcused` |
| `AllocatorsRace` | the same without failures | `RegistryCoversLive` is violated |
| `DebugLocks` | a sampler, `Main`, the keypad's thread; 2 bins, 2 signals, 1 failing `time`, 1 visit to the heap under a bin's lock | `OwnersHold`, `HoldAndWaitExplained`, `RegistryOutlivesUse`, `LocksReleased`, `HandlerReturns` |
| `DynamicAllocator` | 2 buffers, 2 bytes, up to 4 bytes long, first buffer 2 | `RoomIsZero`, `ImplementsStrings` |
| `Containers` | 2 lists, 4 nodes, 2 items; a queue and a stack on 3 nodes; trees of 3 hashes and 4 pointers; a vector with room for 2, up to 3 elements | `ContainersTypeOK`, `LinkedBothWays`, `ImplementsQueues`, `ImplementsCollections` |
| `LinkedListMerge` | the same lists, and merged ones are released | `MergedListsReleasable` is violated |
| `BlockDevices` | 2 disks, counters modulo 3 | `SpeedsAreTraffic`, `UsageMatchesSize` |
| `Readings` | 4 fields modulo 3, up to 2 ticks; cpuinfo of up to 4 lines; meminfo of 4 to 10 pairs; 2 interfaces, counters modulo 3, speeds -1, 10 and none | `UsageIsBusyShare`, `InfoOfFirstProcessor`, `MemInfoOfTwoThirds`, `BarsWithoutGap`, `NetShowsTraffic` |
| `Strings` | all strings of up to 5 bytes over 4 kinds of byte, both delimiters, up to 2 matching bytes behind the block | `StripTrims`, `SplitGivesWords`, `OverreadOnlyShort`, `SplitEnds` |

Each passing run with invariants also checks its module's `TypeOK`, except
`BlockDevices`, where `SpeedsAreTraffic` already fails on a number out of range.

Why the bounds are enough to show the cases they are for:

- *HWMonitor*: the three samplers are the three kinds of behaviour; the network's
  sampler takes the same steps as the block devices', with its own mutex and
  global.  A sampler has at most its global and two readings in use, so three
  blocks never run out.  Two rates are enough to press a key during the sleep.
  The proofs cover every other number.
- *ConcurrentHashtable*: three hashes share a bin, so the removed item can be the
  only one, the first, in the middle or the last.  Two threads are every pair of
  operations; the symmetry of values and nodes is sound because both are only
  compared for equality.
- *Allocators*: the race needs two threads and two addresses; the third of each
  leaves one block in use next to it.
- *DebugLocks*: two bins let a thread hold one and wait for another; two signals
  put a handler on two threads at once.  The threads are one of each kind.  One
  visit to the heap while a bin is held stands for the three that `ht_del` makes
  one after the other; the proofs are for any number.
- *DynamicAllocator*: contents pass the initial buffer of 2 and grow to twice it.
- *Containers*: four nodes merge two lists of two; three nodes are a first, a
  middle and a last one; three hashes give every shape of tree up to the chain; the
  vector's third element is the one that moves it.
- *Readings*: one field of each kind, and one that is counted in another
  (`guest`); two ticks can be both work, both idle or one of each, and wrap a
  counter modulo 3.  Four lines hold two processors.  With four to ten pairs the
  loop's two thirds end before, between and behind the pairs that matter.  An
  interface that says -1 and then 10, next to one whose speed cannot be read, are
  the texts that the code tells apart; `Range64` is small, but larger than a speed
  of two digits in units of `MB`, which is 8 here so that eight bits divide it as
  they divide the code's 2^20.
- *BlockDevices*: modulo 3 a difference differs from its opposite, and a counter
  wraps inside a window.  A window sees fewer sectors than the modulus, or no
  counter could tell.
- *Strings*: five bytes hold a delimiter at each end, a run, and words of
  different lengths.

`DebugLocks` is the only run without a deadlock check: two threads there really
can stop for ever, which is what its properties are about.

### Fairness

`HWMonitor`: weak fairness of the main thread and of each sampler, since a thread
that can run is scheduled.  Nothing is assumed of keys and signals.  Weak
fairness is enough although mutexes are contended, because after the request to
leave each thread takes a mutex only a bounded number of times more.
`DebugLocks`: weak fairness of the steps of calls that were begun; nobody has to
begin one.  Strong fairness is only assumed where a thread holds a bin's lock and
waits for the heap's: it gets it between the calls of the others, which sleep in
each round (`nsleepd` of the samplers, the pause of each frame; `HW_NO_SLEEP` is
commented out in `CMakeLists.txt`).  Under weak fairness the others could have the
heap every time it looks, for ever, and its bin's lock would not be
released.  `HandlerReturns` does not need it, as the others come to rest.  `Strings`: a function that was called goes on.  The other modules are
checked for safety only.

## What is proved

The modules whose names end in `Proofs` hold the theorems; the invariants are
those that the runs check.

**HWMonitor**, for any finite or infinite sets of samplers and blocks and any
order of panels, from `KindsAssumption` (every sampler rebuilds its global or
compares two readings), `PanelsAssumption`, `MaxMulAssumption` and
`DistinctAssumption`.  None of the properties is inductive alone: that a drawn
snapshot is ready depends on who holds the mutex, on which pointer has the block,
and on how far its sampler is.  The invariant `IInv` has for each sampler
`MutexInv` (the mutex is its own exactly between `Enter` and `Leave`, and the
UI's only from `look` to `unlock`), `KindInv` (the kinds visit only their steps),
`PointerInv` (which pointers are set at which step and what they point to; before
the comparison the rate is the interval slept) and `HeapInv` (a block is in use
exactly when one pointer has it, and no two have the same); then `DrawInv` and
`DoneInv` for the main thread.  Steps of one sampler leave the others alone
(`SamplerFrame`), which makes the induction one sampler at a time
(`SamplerStep`), then the main thread's steps (`MainStep`, `DrawStep`,
`DoneStep`).  `DrawsComplete`, `OneOwner` and `QuietTeardown` follow from
`Invariance`; `TypeCorrect` is proved first.

**Allocators**, for any threads, addresses and sizes, with and without failures.
The strengthening is `HolderInv`: an address is held by at most one thread, as
the owner of the block, as the caller about to register it or as the one about to
release it, and a held address is in use.  A thread that moved a block no longer
holds the old address, which is exactly the gap the race uses.  `NothingPhantom`,
`SizesCorrect` and `MissingExplained` follow.

**DebugLocks**, for any set of joined threads, any number of bins, signals,
failing calls of `time` and visits to the heap under a bin's lock, and therefore
any nesting of handlers.  `LockInv` says of
every call on a stack, not only the running one, that what it holds is its own,
and of every owned lock that exactly one call holds it; `WaitInv` that a call
below the running one holds a lock only if its thread was interrupted, or if the
lock is a bin's and the running call, right above it, is at the heap; `LifeInv`
that threads that ended have no calls, that the registry goes after all of them,
and that on main and on the keypad's thread every call but a handler then only
needs the log or the heap.  Three lemmas about sequences (`Pushed`, `Changed`, `Popped`) carry
all that happens to a stack.  `OwnersCorrect`, `WaitExplained` and
`RegistryLastUse` follow.

**BlockDevices** (in `ReadingsProofs`), for any disks, any sizes, and counters of any width.
`TrafficInv` follows a disk through a round: until the second reading its counter
is the first reading plus the traffic, modulo the width, and the second reading
then keeps that sum; `DifferenceIsTransfer` says that the difference, modulo the
width, gives the traffic back.  `UsageInv` holds of both readings at every point,
of which `UsageMatchesSize` looks at the last.  The assumption is that less than the
width passes between two readings, as the action `Transfer` states.  `DisksTyped`,
`DiskSpeedsCorrect` and `DiskUsageCorrect` follow.

**ConcurrentHashtable**, for any threads, hashes, values, addresses and number of
bins.  The proof has three parts.
(1) `OwnInv`: a live block is in one thread's hand, in one item, or lost, and in
only one of them.  Neither the locks nor the order of the chains are needed for
it: a block changes hands in one step.
(2) `ProtocolInv`: a thread between lock and unlock owns its bin's lock
(`LockInv`); pointers lead from item to item of one bin, to each from one place
only, and every item is reachable from the head of its bin (`ShapeInv`); `prev` and
`item` of a walk are neighbours in the chain of the locked bin, and what is sought
is not behind the walker (`WalkInv`); an item linked but not counted, or counted but not
linked, belongs to one thread at one step (`PendingInv`), so the counters are what
the chains hold up to those (`CountInv`); and what a traversal has seen is what it
had to see of the bins behind it (`VisitInv`).  Every step of a thread leaves the
other bins alone, and `Exclusive` says that nobody else is in its own.
Reachability through `next` is a least closed set; the lemmas `Reach...` say what
linking in front and unlinking do to it.  `TypeCorrect`, `ChainsCorrect`,
`TraversalCorrect` and `ReleasesCorrect` follow.
(3) `LinearizabilityCorrect`, the refinement of `HashMap`: `Cell` says in one
relation what the abstract map holds for a hash, and each step changes the cell of
at most one hash.  The assumptions are that there is a bin and that NULL is
none of the threads, values, addresses, answers and calls.  That `Destroy`
finds every thread idle is how `main` calls it, a guard of the model.

**DynamicAllocator**, for any handles, bytes, initial buffer and contents up to any
`MaxLen`.  `Good` says of a block that the content fits and that what is behind it
is zero.  For each operation a lemma (`Appended`, `Cropped`, `Popped`, `Joined`,
`Removed`, ...) says that it keeps a block good, and what string it leaves;
`BuffersCorrect`, `RoomCorrect` and the refinement of `ByteStrings`,
`StringsCorrect`, rest on these.  The comparisons stop at the first difference:
`MemcmpIsPrefix` says that they answer what the strings of `ByteStrings` do.
`NoneAssumption`: a missing buffer is neither a buffer nor a string.

**Strings**, for any alphabet and inputs up to any `MaxLen`.  A word is known by
where it starts; `Count` says how many start up to an index, which makes the n-th
word the one with count n (`NthIs`, `NthExists`).  `PoppedInv` says that what
`string_rstrip_ws` popped were blanks; `ReducedInv` that the words and the
question whether the string starts with the delimiter are still those of the
trimmed input, which `RunGone` proves for the removal of a run of delimiters; and
`CutInv` that the tokens are the words that start before `cb`, and an empty one in
front.  That no run is left (`NoRun`) is what makes it right that `string_split`
never looks at the first byte of a token.  `SplitCorrect`, `StripCorrect`,
`OverreadCorrect` and `StringsTypeCorrect` follow.  The delimiters are blanks
(`AlphabetAssumption`), as the two that the program passes are.

**Processor**, for any width of the counters, any number of ticks below it, and any
fields.  A tick adds one to one of the two sums (`IdleTick`, `BusyTick`), counted
fields that are part of others included; so modulo the width the differences of the
sums are the ticks since the first reading (`DifferenceIsMore`), and `UsageCorrect`
is about their quotient.

**ProcFiles** and **Meters**, for files of any length.  `InfoInv` and `MemInv`
describe the structure being filled after each line or pair by the lines before it;
`TwoThirds` is the arithmetic of `mem_info_get`'s bound, which shrinks by two while
the index grows by one.  `CpuFilesAssumption` and `MemFilesAssumption` say that a
file is a sequence of the kinds of lines the code tells apart.
`LowestAssumption` bounds the numbers of a file to those whose fiftyfold an int64
holds, about 180 exabytes of memory, since the kernel counts it in kB.

**NetDevices**, for any interfaces that come and go at any time and counters of any
width.  `NetTracked` follows every counter: from its first reading on it is that
reading plus what passed, modulo the width, until the second reading, unless the
interface was replaced (`CHANGED`).  `SpeedOfText` says that the arithmetic of
`net_dev_diff` on the speed gives the link's, for every text of it: `ToU64IsSaid`
proves by induction over the digits that `string_to_u64` is what the text says
modulo 2^64.  `LinkAssumption` is what is needed: a link's file says -1 or a number
whose bytes per second fit in 64 bits, as the kernel's file, an int of Mbit/s, does;
and the code's 2^64 and 2^20 are multiples of eight.

**LinkedList**, for any number of lists, nodes and items.  `IsChain` says that a
sequence of different nodes is linked from a head to the null pointer, and
`AlongChain` that following the pointers then comes by exactly that sequence,
however many other nodes there are.  `LInv` says of each list in use that one and
the same sequence is the chain of `next` from its head, that it ends at its tail,
that `prev` leads from each node but the first to the one in front, that the size
is its length, and that the nodes allocated are the disjoint union of these
sequences.  `LinkedBothWays` alone is not inductive: a push
needs to know that the new node is in no list, a merge that the two lists share
none.  A lemma for each operation (`PushKeeps`, `PopKeeps`, `MergeKeeps`, ...) gives
the sequences after it; `ListsStayLinked` and `ListsNeverBreak` follow, and with
the data along the sequences (`ItemsIn`) the refinement of `Queues`,
`ListsImplementQueues`.  All are for callers that do not release a list that was
merged away (`~ReleasesBoth`): with one that does they are false, as
`LinkedListMerge` shows.

**Lines**, for any cells and pointers, NULL among them.  `LinesInv` is the same kind
of invariant with one direction, the queue's `top` being the last node; a release
that stops at a NULL leaves nodes allocated that no line has (`LinePopKeeps`,
`LineReleaseKeeps`).

**BinaryTree**, for any addresses and hashes.  The invariant, `TreeInv`, speaks of
the searches and not of the order in subtrees: there is a `way` for every hash, in
the tree or not, that is the chain of the turns a search for it takes, and each node is
at the end of the way for its own hash (`Ways`).  From this it follows that hashes
are unique, that a search finds what is there (`FoundIs`), that the way of a
largest hash only turns left and ends where `bt_node_left` does (`LeftWay`), and
that the subtree of a node is the set of those whose ways come by it
(`UnderSplit`).  The recursion of the traversal is followed level by level
(`PostOrderIs`, `PostOrderLists`): however deep the tree, it comes by each node
once, so that every pointer is released once (`StoredOnce`).  That a new node leaves
the ways right is `TreeInvGrowBelow`.

**Vector**, for any first room and any number of elements.  The block never gets
smaller than its first room, so elements can only move when there are that many.
`ContainersTyped` joins the four invariants, and `ContainersImplementCollections`
is the refinement of `Collections` by queue, stack, tree and vector.  The
assumptions on the containers are that there are finitely many addresses and that
hashes are natural numbers (`NodesAssumption`, `CellsAssumption`,
`TreeAssumption`), that there is room for one element (`RoomAssumption`), and that
the null values are no addresses and nothing that a container holds
(`NullAssumption`, `NoneAssumption`, `VoidAssumption`, `NilAssumption`,
`NovecAssumption`, `NullsAssumption`).

Natural induction, where the argument needs it (`Induction` in `ReadingsProofs`,
`StringsProofs` and `ContainersProofs`), is stated for a set of numbers and rests on the library's theorem
that the order of the naturals is well founded; the library's own induction theorems
take an operator.

Only model-checked: liveness (`ExitCompletes`, `LocksReleased`,
`HandlerReturns`, `SplitEnds`).  Its proofs would go through ENABLED of the fair
actions, which this version of TLAPS does not reason about.  The two runs that find
a violation have nothing to prove.

## Findings

- `AllocatorsRace`: `_zrealloc` deletes the entry of the old address after
  `realloc` gave it back.  A second thread whose `malloc` returns this address in
  between registers it and then loses the entry, and `alloc_dump_summary` reports
  less than is allocated.
- `LinkedListMerge`: `list_merge` leaves the second list with its old head;
  releasing both, as `test_list` does, walks and releases the moved nodes twice.

Seen while modelling, without a run of their own:

- The SIGUSR1 handler can wait for a lock its own thread holds
  (`HoldAndWaitExplained` excuses exactly that), as can `_log` when `time` fails.
  No spinlock need be held for it: a signal that comes in a plain `malloc` or `free`
  is enough, because the dump's `fopen` allocates.  A thread that allocates in
  `ht_set` meanwhile waits for the same heap with its bin's lock held, and whoever
  needs that bin waits for it.
  A SIGUSR1 that comes while `main` shuts the registry down, or whose dump still
  runs on the keypad's thread, meets a registry that is gone
  (`RegistryOutlivesUse`).
- `mem_info_get` compares its index with a length it lowers by two a round, so it
  stops after two thirds of the pairs; SwapFree is early enough in the file today.
- On a machine without swap the swap's load is 0 / 0, and its bar is what the cast
  of that gives.  `cpu_dev_diff_usage` divides by zero when no tick passed.
- On a kernel that prints no clock in /proc/cpuinfo, `cpu_info_get` copies the
  name once per processor and loses all but the last copy, in each round.
- A link of less than 8 Mbit/s has the speed 0 for `net_dev_diff`, which then
  appends "0 Mbits" to the number that is already there: 5 becomes 50.  A link
  that is down says -1, which is read as an enormous speed.  The use of the
  bandwidth is a fraction of one, printed with a percent sign (`main.c:559`), and
  infinite for `lo`.
- `string_split` refuses an empty string without making a list, and `cpu_info_get`
  iterates over it all the same: an unreadable /proc/cpuinfo ends the process.
- `fifo_release` and `lifo_release` stop at the first NULL that was pushed.
- `da_comparez` takes a prefix for an equal string; `string_comparez` does not.
- `list_traverse` forward, after a `list_pop_head`, goes on into the released
  node.
- `string_map_region` refuses indices when they are inside the string
  (`string.c:326`), which its one caller never notices since it starts at 0.
- `da_crop_tail` drops from the front and `da_pop_head` from the end.
- The block and network speeds divide by the sleep alone, while reading `df` and
  `lsblk` takes time too.
- The refused reduction in `string_remove_dubseq` is retried with the same
  arguments.

## What is not modelled

Drawing, except the bars, and formatting; what happens before the threads start;
the text formats of /proc, /sys, `df` and `lsblk`, of which the models keep what
the loops over them tell apart; what a regular expression matches; labels and
models of disks; `ht_hist_dump_csv`'s file; `popen` and the buffers of `utils.c`;
`list_remove` and `list_crop_tail`, after which a list cannot be used;
`string_find_last_char` and `bt_node_create`, which nothing calls; the rounding of
doubles; `crc64.c`, whose table is data.  
Left out of the modules' failures are these: the two unchecked `calloc`s of
`alloc_set_info` (`allocators.c:46`, `51`), whose failure ends the process;
`realloc` failing in `da_realloc`; the range checks of `da_sub` and `da_remove`
for arguments no caller passes; `used` written directly after a file is
read (`utils.c:98`); a /proc/stat that cannot be opened; a disk that vanishes between
`fopen` and `fread`; `list_merge` with an empty list, which after pops has a tail that
was released (`double_linked_list.c:137`); and the flag of `fifo_release` and
`lifo_release` that says whether the data is released too.

An array of fixed size that a newer
kernel overruns (`blk_dev.c:443`) is listed as a hazard; for `cpu_dev.c:48` only
the opposite case, numbers that are missing, is modelled.

## Plan

Done, in this order: `HWMonitor` with proofs, `ConcurrentHashtable` with
`HashMap`, `Allocators` with proofs, `DebugLocks`, `DynamicAllocator`,
`LinkedList`, `BlockDevices`, `Strings`; then `Processor`, `ProcFiles`, `Meters`
and `NetDevices`, the end of the registry in `DebugLocks`, and `Lines`,
`BinaryTree` and `Vector` with `Collections`; then the proofs about `DebugLocks`,
`BlockDevices`, `ConcurrentHashtable` and its refinement, `DynamicAllocator` and
its refinement, the readings, and `Strings`; and at last, with `Links` in the place
of recursive operators, those about `LinkedList`, `Lines`, `BinaryTree` and
`Vector` with both refinements.

What could come next are the text formats of `df`, `lsblk` and /proc, over the
tokens that `Strings` cuts them into.
