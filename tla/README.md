# dlh in TLA+

dlh is a small C++ library for Linux that replaces the C and C++ runtime:
system calls, memory, threads and locks, containers, streams, strings, parsers
and sockets, without libc. This directory models the parts of it in which control
is hard: the locks, the life of threads, memory allocation, the containers, and
what reads and writes text (streams, the socket client, the formatter, strings,
numbers, the command line). TLC checks the models on small instances and TLAPS
proves the most important invariants of the concurrent parts, of the allocator, of
the containers but for the trees, of the streams and the socket client, and of the
parsers of numbers and of the command line, for every instance.

To check a model: `tlc -config MCMutex.cfg MCMutex.tla`. To check a proof:
`tlapm MutexProofs.tla`. Comments in the modules name the functions and, where
it matters, the lines they stand for; `PROJECT.json` has the complete map.

## 1. The system

Paths are relative to the repository: `include/dlh/` and `src/`.

### Components that keep state and interact

| Component | Code | State | Operations | Used by |
|---|---|---|---|---|
| Mutex, Guarded | `mutex.hpp`, `mutex.cpp` | one futex word | lock (with timeout), trylock, unlock | everything below that locks |
| RWLock | `rwlock.hpp` | counter, two mutexes | read/write lock, trylock, unlock | programs |
| MutexRecursive | `mutex_rec.hpp` | mutex, owner, recursion | lock, trylock, unlock | programs |
| Thread | `thread.hpp`, `thread.cpp` | descriptor in the thread's own stack mapping, the kernel's thread | create, exit, join, detach, kill | programs |
| Allocator::Buddy | `alloc_buddy.hpp` | free lists, tree bits, limits, headers | malloc, resize, free, size | Memory |
| Memory | `mem.hpp`, `mem.cpp` | one Buddy, one Mutex, mappings with headers | alloc, alloc_array, realloc, free | containers, strings, streams, new and delete, atexit |
| Elements | `container/internal/elements.hpp` | array of nodes, capacity, count | allocate a slot, resize, clear | HashSet, TreeSet |
| HashSet, HashMap | `container/hash.hpp` | bucket array, chains of node indices | insert, erase, find, resize, reorganize, iterate | programs, parsers |
| TreeSet, TreeMap | `container/tree.hpp` | AVL tree of node indices | insert, erase, find, bounds, iterate | programs |
| Vector | `container/vector.hpp` | array, size, capacity | push, pop, insert, erase, resize, copy, move, `+=` | programs, Arguments |
| List | `container/list.hpp` | doubly linked nodes | push, pop, insert, extract, erase | programs |
| Output streams | `stream/` | buffer, fill level, modifiers, descriptor | write, `<<`, format, flush | Log, stdio |
| Log | `log.hpp`, `log.cpp` | level, sink, a stream | entry, set, output | programs |
| Sockets | `socket.hpp`, `socket_client.cpp` | descriptor | connect, disconnect, send, recv, recv a line | programs |
| Arguments | `parser/arguments.hpp` | parameters, values, positional and terminal words | parse, set, has | programs |
| Exit functions | `libstdcxx/atexit.cpp` | table that grows by realloc | register | programs |

### Components without state of their own

String and StrPtr, the other parsers (configuration, integers, ar), date
and time, hash functions, random numbers and helpers, environment, the wrappers
for files, directories and pages, system call stubs, process start and the C
names for all of these.

### How they interact, and what is hard

*Calls.* RWLock and MutexRecursive are made of Mutexes. Memory calls Buddy
under a Mutex, and every container, string and stream ends up in Memory.
`Memory::realloc` is where most callers meet a failure in the middle.

*Shared state.* A futex word is read by threads and by the kernel, a thread's
descriptor by its creator, by the thread, by whoever joins it and by the kernel
after the thread is gone. MutexRecursive and Memory read shared variables before
they lock.

*Failures.* Any system call fails: a wait with EINTR, EAGAIN or a timeout; mmap,
mremap, munmap and the RESERVE of the allocator for want of memory; clone.

*What makes each component correct.*

- Locks: exclusion, agreement of the counters with who is inside, no lost
  wake-up, progress, no call that gives up without a timeout.
- Thread: a stack stays mapped as long as somebody stands on it and not for
  ever; a join tells the truth and returns; the assertions hold.
- Buddy: blocks tile the tree, bits and lists agree, free memory coalesces,
  nothing outside reserved memory is touched, allocations never overlap, calls
  return, also when memory runs out half way.
- Memory: each block has one owner on every path through every call, contents
  survive a realloc, a mapping is never given to the allocator or the other way
  round, one call at a time in the allocator.
- Containers: each is the abstract mapping or sequence it stands for after any
  sequence of calls, growth included, and refused growth as long as it leaves the
  memory there is; indices stay inside their arrays; chains, links and balances
  agree.
- Streams, socket client: no byte lost, repeated or out of order across flushes
  and partial reads, but for the filling of a character that fills the buffer.
- Formatter, strings, numbers, arguments: what the documentation, or C where the
  library takes over a function of C, says of the same input.

The hazards, with the line at which each bites and the property that would catch
it, are in `PROJECT.json`.

## 2. The plan

Order of work: what everything else stands on comes first.

| # | Modules | Subject | Abstract specification | State |
|---|---|---|---|---|
| 1 | `LockSpec`, `Mutex`, `MutexProofs` | the futex mutex | `LockSpec` | checked, proved |
| 2 | `RWLock`, `RWLockProofs`, `MutexRecursive`, `MutexRecursiveProofs` | locks made of it | over `LockSpec` | checked, proved |
| 3 | `Thread`, `ThreadProofs` | threads with the kernel's part | | checked, proved |
| 4 | `HeapSpec`, `Buddy`, `BuddyProofs` | the allocator | `HeapSpec` | checked, proved |
| 5 | `Memory`, `MemoryProofs` | alloc, realloc, free | over `LockSpec` and the promise of `HeapSpec` | checked, proved |
| 6 | `DictSpec`, `Elements`, `HashSet`, `Dictionaries`, `TreeSet` | the associative containers, over a memory that may refuse | `DictSpec`: mappings | checked; the hash sets proved in `ContainersProofs` |
| 7 | `SeqSpec`, `Vector`, `List`, `LinearContainers`, `ContainersProofs` | the sequences | `SeqSpec`: sequences | checked, proved |
| 8 | `Stream`, `LineClient`, `Channels`, `ChannelsProofs` | buffers that are flushed, lines that arrive in pieces | a byte sequence | checked, proved |
| 9 | `Format`, `Strings`, `Numbers`, `Arguments`, `Texts` | directives, search, replacement, splitting, integers, command line | what C says of the same directive; definitions over bounded inputs; a command line as a whole | checked; Numbers and Arguments proved in `ChannelsProofs` |

`LinearContainers` composes Vector and List, `Dictionaries` adds the hash sets,
`MCContainers` the trees; `Channels` composes Stream and LineClient, `Texts` adds
Numbers and Arguments, `MCText` the rest of 9: one specification whose initial
states are those of all its modules, each of which then runs on its own.

## 3. The modules

Every module has one action per step of the code that other actors can tell
apart; where there are no other actors that is a whole operation. `pc`, or `at`,
holds the place in the code. Definitions named "Mutant" are
not part of the specification: each is a version of a definition with a plausible
mistake, which shows that some property notices it.

Compositions: `RWLock`, `MutexRecursive` and `Memory` do not contain `Mutex`.
They use `LockSpec`, and `ImplementsLock`, which is proved, says that the Mutex of
the code is such a lock. `Memory` likewise contains not the tree of `Buddy` but
what `HeapSpec` says of it: a malloc returns an address that is not out or fails.

### LockSpec and Mutex

`LockSpec` is the lock callers rely on: a holder, calls that wait (with or
without a timeout), `Take` only when it is free, `GiveUp` only with a timeout.

`Mutex` has the futex word `var`, and each action is one atomic instruction or
one futex call of `mutex.cpp`: the compare-and-swap of lock and trylock, the
exchange of lines 16 and 33, FUTEX_WAIT (the kernel compares the word again),
the ways out of it (woken, EINTR, ETIMEDOUT), the exchange and the FUTEX_WAKE of
unlock. Signals may arrive and timeouts expire at any time. Memory is
sequentially consistent: the code uses acquire and release orderings on a single
word, for which the order of modifications is total.

### RWLock

`block`, `reader` and `global` are the fields. Each of the six operations is cut
at every lock, unlock and access of `block`. `global` may be unlocked by another
thread than the one that locked it, which is why `Mutex` has `Unlock(t, s)`.

### MutexRecursive

`owner` and `recursion` are read by `check` before the inner mutex is held.
`Leaders` are the threads whose gettid() is their getpid(): the owner field says
0 (`Single`) for them. `depth[t]`, which the code does not have, counts the locks
t has yet to undo. The reading of `owner` and of `recursion` in one condition is
one step: only the owner can change them to values that make the condition true
for another thread, and `OneOwner` is what would fail otherwise.

### Thread

A slot is an address mmap returns; the descriptor `desc[a]` lies in it.
`task[i]` is thread i as the kernel sees it, `KernelClearTid` and `KernelWake`
what the kernel does for CLONE_CHILD_CLEARTID. A user owns the handle of a thread
until it joins or detaches it, and gets it back when a join fails.

`policy` says what program and kernel do: whether threads are detached, and
whether mmap returns an address again. Together these two break `TidMeansUsed`
(see the findings), so the passing run has programs with each of them alone.

### HeapSpec and Buddy

`HeapSpec` is any allocator: allocations lie in the range, with room for a
header, and no two share a byte. `Buddy` has the fields of the class (`max_ptr`,
`bucket_limit`, the lists, the bits) and the local variables of a running call;
each step is one round of a loop of malloc, lower_bucket_limit or free, so that
the invariants are checked in the middle of the loops too. RESERVE may fail
whenever it is called. Lists are sequences, because the code pushes and pops at
the end and the order decides which block is handed out.

Sizes are words of the machine, less than `Modulus`. The code adds the header to a
size before it looks at either (`Gross`): the sum may wrap around, and malloc or
resize then grant one of the smallest blocks and store the size that was asked for.
And bucket_for_request doubles a power of two until it is large enough, which never
happens for a sum beyond the greatest power of two (`LoopEnds`): malloc refuses such
sizes before, resize does not and spins (`ResizeSpins`, `Spin`). `Genuine` are the
allocations whose sum has not wrapped around; it is these that `HeapSpec` speaks of.

### Memory

`heap` and `maps` are the blocks of the allocator and the mappings; `size` the
headers; `data` what a block holds: whatever was there, zeros, or what a thread
wrote. A thread in no call owns at most one block (`held`), which it may write
to, resize, free. `job` holds the arguments and the local variables of a call.
The size is read by `ReadSize` before the mutex is locked, as in the code, and the
guarded sections are left by `Leave` only, as Guarded does. `Room` is what is left
of a mapping after MemoryMap has added its header to the size, which wraps around
too; `SizeAssumption` keeps to sizes for which neither this nor Buddy goes wrong: up
to half of what a size_t can hold, less the header of a mapping.

### Elements, HashSet, TreeSet and DictSpec

`Elements` is the node array both containers extend: a record with capacity, next
free slot, count and nodes, and the operations on it. A `HashSet` adds its buckets
and chains, a `TreeSet` its root and, in the nodes, balances and links. The slots
are those of the code, with 0 for none, and so are the algorithms: chains are
linked at the head, `reorder` fills gaps from the end, a node with two children is
replaced by its neighbour in the code's choice of direction, rotations change the
same links. What a reader of the code sees as one call is one action. Allocations
may fail in each of them, in two ways. A block that is, or shall be, a mapping of its
own stays as it is when Memory::realloc fails, and so does the container. A small block has
been freed by then (finding 3), while Elements::resize keeps `_node` and
`_capacity`: `ReallocLoses` leaves the container without its nodes, and `Broken`.

The code constructs a new node before it knows whether there is a slot for it,
divides by a number of buckets that may be 0 and does not look at what it gets
from a set that was moved away. Where that leads outside the container's own
memory, or into an assertion, status becomes `Broken` and nothing follows. The
abstract specifications therefore speak of the calls before. Extracted nodes and
their owners are part of the model, with the moved-out value they leave.

`DictSpec` is what users rely on: each container is a mapping, changed by the
operations of a mapping and by nothing else. It promises this as long as the containers
are `sound`; a step that breaks them ends the promise. Which operation was asked for
is not part of its state: that emplace inserts and erase erases is what the lemmas of
`ContainersProofs` say of each operation.

### Vector, List and SeqSpec

`Vector` is the array of cells with its size. `List` has the links of all nodes,
which can be in a list, extracted by the caller or unused. `SeqSpec` is a sequence
for each, and what the last removal gave back, as long as the containers are `sound`.
`Vector::reserve` stores what realloc returns without looking at it: when realloc
fails the vector has its new capacity, its size and no cells (`Becomes`), and
`SeqSpec` promises nothing from there on.

### Stream, LineClient and Format

`Stream` has the buffer of BufferStream, OutputStream and Log. A byte that does
not fit calls the virtual flush, which may write to a descriptor, in part or in
vain, or, in Log, first puts more bytes into the same buffer. So the calls in
progress are a stack, one byte or one system call per step. Bytes are numbered in
the order in which callers write them. `WriteChar` is the operator for a single
character after setw, which does not flush before it has written the filling to the
right of the character: `outside.filling` remembers which bytes are such filling.

`LineClient` is Socket::Client between the peer, whose bytes arrive in pieces of
any length, and its caller: it looks at what is there (MSG_PEEK), decides where
the line ends and takes as much. The kernel's queue is modelled from how the
client uses it. Datagrams keep their bounds and lose what is not taken at once.

`Format` reads a format character by character through the states of
BufferStream::format, including those it falls through, with the width, precision
and flags that are kept in the stream, to the directives for characters, strings and
integers: c, s, d, i, u, o, b, x and X. Next to it stands a definition of what C's
printf writes for the same directives.

### Strings, Numbers and Arguments

The functions are operators that follow the loops of the code; the state machine
around them enumerates their inputs by growing them. Next to them are definitions
that say what the result should be in terms of occurrences and pieces.

A text may read as a number (`Reading`) that not even the largest type holds. What
parse does with it is up to its test for overflow, which notices some of them only;
`exact` says that the number fits, and `Agrees` speaks of the value only then.

In `Arguments` each word of a command line is a step of `parse`, and the history of
the calls says what the parameters should be. The property looks at a command line
as a whole: which words are the values of the word before, where the options end,
and from these what each word is (`Roles`) and which values the call gives to which
parameter (`Values`). `Args` is what the constructor takes of the list; it is a
constant, assumed to be `Constructed`, so that it is computed once.

## 4. What is checked

| Run | Module, cfg | Instance | Shows |
|---|---|---|---|
| mutex | `MCMutex.cfg` | 4 threads | exclusion, no lost wake-up, `LockSpec` is implemented, progress |
| rwlock | `MCRWLock.cfg` | 4 threads | writers are alone, `block` counts the readers through failed trylocks, who holds the inner lock for whom, progress |
| mutex_rec | `MCMutexRecursive.cfg` | main thread and 3 others, limit 3 | one owner despite the unguarded reads, assertions, recursion equals depth, progress |
| mutex_rec_separate | `MCMutexRecursiveSeparate.cfg` | one thread of the four is separate | finding 1 |
| thread | `MCThread.cfg` | 2 users, 2 threads, 2 addresses | stacks stay mapped, ids tell the truth, joins return and tell the truth, mappings are reclaimed |
| thread_reuse | `MCThreadReuse.cfg` | the same, detach and address reuse together | finding 2 |
| buddy | `MCBuddy.cfg` | blocks of 4 to 32 bytes, 7 request sizes, 7-bit words | tiling, bits, coalescing, reserved memory, `HeapSpec` for the sizes that do not overflow, malloc and free return |
| memory | `MCMemory.cfg` | 2 threads, 3 + 2 addresses, 5-bit sizes | ownership, contents, kinds, serial use of the allocator |
| realloc | `MCMemoryRealloc.cfg` | the same | finding 3 |
| containers | `MCContainers.cfg` | 2 hash sets, 2 trees, 2 vectors, 2 lists in a small memory that may refuse; a tree of 12 keys | chains, balances and links agree, searches and walks meet what they should, every container is the mapping or the sequence it stands for, until memory is lost |
| hash_full | `MCContainersFull.cfg` | one set of each, allocations do not fail | finding 4 |
| text | `MCText.cfg` | a buffer of 4 bytes, 5 bytes from a peer, all formats, strings and numbers of up to 5 characters, command lines of up to 4 words | no byte is lost, repeated or out of order, but for the filling of a character; functions do what they promise, but for the cases listed with the property |

### Bounds, and why they are enough

- *Mutex, RWLock:* four threads allow a holder, a waiter that sleeps, one that
  was woken and a newcomer at once; for RWLock two readers, a writer that waits
  and a thread in trylock. The safety properties are proved for any number.
- *MutexRecursive:* a recursion limit of 3 instead of 2^64 - 1 lets runs reach
  it. The behaviour there (the owner waits for itself) is the code's. Symmetry is
  not used, as DeadlockFree is a liveness property.
- *Thread:* `MaxTasks` = 2 creations and two addresses: one thread can reuse the
  other's address. Two users race for creations, joins and detaches. A program
  that has created its threads and joined them stops, so deadlock is no error.
- *Buddy:* `Depth` = 3: the tree grows three times, from one leaf to the whole
  range, a free merges three times. `Chunk` = 8 is two smallest blocks, so that the
  end of reserved memory lies inside larger blocks. `Prefix` is what the bucket
  array takes at the start of the reserved memory. In the default build it (344
  bytes) and its list entry are less than one smallest block (1024); then the
  last block of the range can never be handed out. With `Prefix` = 3 chunks and
  range fit so that the whole range can be, which makes more of the code
  reachable. Words have 7 bits: 127 and the header wrap around to 0, and no power of
  two in a word reaches 101, so that a resize to 100 never returns.
- *Memory:* three addresses of the allocator, since a realloc needs a second
  while it holds one and the other thread has the third. Sizes are 0, 2 (small)
  and 5 (large, `Threshold` = 5), counts 1 and 7; `Modulus` = 32, so that 7 * 2 fits
  and 7 * 5 wraps around to 3. Symmetry on threads and addresses is sound: they are only
  compared for equality, and the run has no liveness property.

- *Containers:* the smallest capacity is 3 slots instead of 16, and a set can
  grow to 6, so that it grows twice, reorganises and is refused memory in between.
  The hashes of the three keys collide in the smaller arrays and part in the
  larger one. Trees of three keys reach every shape with every failure of memory;
  the cases in which an erasure rotates at several levels, or twice at one, need
  more nodes, for which there is the tree of 12 keys. Vectors expand from 1 cell,
  lists share three nodes: a head, a tail and one between. The containers and the
  values are symmetric only as far as MCSymmetry says; keys are not.
- *Streams:* a buffer of 4 bytes and texts of 1 and 2, 5 in all, with a colour reset of
  2: writes end before, at and behind the end of the buffer, and the reset fills it. A
  character with and without filling meets a buffer of every level. Levels are NONE and
  one more, as only the comparison with the limit counts.
- *LineClient:* the peer's text has an empty line, one of several bytes and one
  without end; rooms of 2 and 4 bytes are shorter and longer than lines.
- *Format:* five characters have flags, a width, a precision and a length in all their
  combinations of two or three. The alphabet has 20 characters: the directives above,
  all flags, one digit more, the lengths h and l, and `%`, `.` and `*`; between
  directives only those of `Literals` are read, as the code echoes all others like them.
  The types have 4, 8 and 16 bits, so that -3 and 300 fit some of them.
- *Strings, Numbers:* a needle that repeats its own beginning needs four
  characters, and a haystack one more. The digits 8, a and b are at and above the bases
  8 and 10. The largest type has 6 bits, so that texts of five digits overflow it.
- *Arguments:* four words in two calls: a name and its value twice, or a
  terminator and what follows it.

### Fairness

- *Mutex:* a thread in a call that can take a step does so, and a holder unlocks.
  No fairness for signals, timeouts or new calls. That is what the scheduler
  gives and what Guarded does. It does not promise any single thread the lock,
  since newcomers overtake, and `DeadlockFree` says only that somebody gets it.
- *RWLock:* the same for its steps; weak fairness of a step that takes an inner
  mutex is no more than the Mutex's `DeadlockFree`, as the properties need only
  that somebody gets it. Writers may starve.
- *MutexRecursive:* steps inside calls are fair; that callers give locks back is
  a hypothesis of `DeadlockFree` itself, for a thread at the limit never does.
- *Thread:* thread functions return, the kernel ends threads that exit, users in
  a call go on. Signals that interrupt a join are not fair.
- *Buddy:* a running call takes its next step. *Memory*, the containers and the
  modules of text have no liveness properties: their operations end because each
  loop runs over a finite structure, and a program may stop at any time.

## 5. What is proved

All proofs are by TLAPS, for every value of the constants that satisfies the
named assumption of the module.

**MutexProofs** (assumes: `NoThread` is no thread). `TypeCorrect`; `Excludes`:
mutual exclusion is not inductive alone, since letting a thread in on UNLOCKED
needs to know that UNLOCKED means free, so the invariant is `MutualExclusion`
and `WordMatchesHolder` together. `WakeupsAreKept`: `NoLostWakeup` is inductive
as it stands. `Implements`: each action is a step of LockSpec or a stutter, where
the invariant gives the value of the refined holder.

**RWLockProofs** (assumes: finitely many threads, `NoThread` not one of them).
`Agreement`: the invariant says that `block` is the number of counted threads,
that the thread in a ".count", ".global", ".done" place is the holder of the
reader mutex and hence alone there, and who `global` is held for. `GlobalLocked`
and `Exclusive` follow.

**MutexRecursiveProofs** (assumes: distinct values, a recursion limit of at least
1, and, as a hypothesis of the theorems, `OneLeader`: no thread but one has a
thread id equal to its process id). The invariant says what `owner` and
`recursion` are while nobody holds the inner mutex (`AtRest`), what they are at
each place of its holder (`Inside`), and that every other thread is at none of
those places (`Outside`). So a thread that `check` lets through is the holder,
whatever happens between its reads. `TypeCorrect`, `Exclusive`, `Assertions` and
`DepthIsRecursion` follow. Without `OneLeader` they are false (finding 1).

**MemoryProofs** (assumes: the allocator's and mmap's addresses are distinct and not
Null; and, by `SizeAssumption`, sizes, and products of sizes and counts that a size_t
can hold, up to half of what it can hold less the header of a mapping: beyond that the
allocator or MemoryMap::create go wrong, see section 6). `IInv` says at each place in
the code what the call looks like (`Shape`), in which memory its block lives (`Kind`),
that all blocks belong to the threads, one each (`Owned`), that no block of the
allocator has size 0 (`Sized`), and `Serial`. The main lemma is `Frame`: a step of t
touches only what t owns or nobody owned, so that it disturbs neither `Shape` nor `Kind`
of another thread; thus what ReadSize has read without the mutex stays true.
`TypeCorrect`, `Owners`, `Kinds` and `Serialised` follow. `Contents` needs a second
invariant upon the first, `Stored`: which of the blocks of a call has the contents at
which place, that a realloc has its caller's block until it frees it, and that the size
in hand is at least what was asked for, for an array because a product that passes the
test `bytes / size == nmemb` has not wrapped around (`NoOverflow`).

**ThreadProofs** (assumes: `NoSlot` is no address, and, as a hypothesis of the
theorems, `Separate`: a program does not detach threads, or addresses are not
handed out again). The properties are not inductive: that join may unmap rests on
the thread id it has read, on nobody else working on the thread, and on the
address being that thread's still. `IInv` says who has an address from mmap to the
kernel's last store there (`Life`, `Stack`), what a user in a call may rely on at
each place (`Place`), that no two users work on one thread or new address (`Apart`),
and who unmaps what a thread that was joined leaves (`JoinedRight`). One lemma per
action shows that it is kept; `StacksStay`, `TidTells`, `JoinsWait` and
`NothingIsLeft` follow. Without `Separate` the second is false (finding 2).

**BuddyProofs** (assumes: sizes are positive, a list entry and a header fit into a
smallest block). The properties speak of bytes; the invariant `IInv`, which holds
after every round of every loop, speaks of blocks on lists. `Whole`: the free
blocks, the blocks behind allocations and the block in the hand of a running call
tile the subtree in use. `Fits`: the bit of a parent is set if just one of its
children is on a list. `Apart`: no two buddies are both on a list, not even while a
block is being divided or merged, since that block is in hand. `Reserved`: what the
code writes into (the entry of a free block, the bytes of an allocation) lies below
`max`. `Calls`: the node in hand is a block of the tree, and large enough for the
request. Each action exchanges a few blocks, and lemmas about sets of blocks say
what that preserves: `TilesSplit`, `TilesMerge`, `FitsTake`, `FitsMerge` and
others; a second group relates lists to sets (push, pop, unlink). From `IInv`
follow `BlocksPartition`, `FreeIsCoalesced`, `OnlyReserved`, `TypeCorrect`, and
`Refinement`: each step is one of `HeapSpec` or a stutter, so that what `Memory`
takes for granted is what the allocator does. Requests are any that a word holds. The
block behind an allocation is that of the sum as the machine computes it, so that the
invariant needs no exception for sizes that wrap around; `Refinement` is about the
others (`Genuine`), as an allocation of which the size does not fit its block is none of
`HeapSpec`. `WidthAssumption` says that the range is at most the greatest power of
two that a word holds. `BitsTellTheTruth` is more than
`Fits`, as `BitsAreRight` asks whether every byte below a node is unused, which may
be so only because some larger block around it is free; its proof looks at the
deepest free block over a node and shows that with `Apart` the two agree.
The powers of two are a recursive function. That it has a solution, and its
monotony, are shown by induction over a set of numbers (`NumberInduction`, from
the well-foundedness of < on Nat), which needs no operator as a parameter.

**ContainersProofs**, the sequences (assume `LinearAssumption`: the first capacity is not 0,
what stands for an empty cell, for nullptr and for nothing is no element and no
node, and there are finitely many containers and nodes). The theorems are about the
specification of `LinearContainers`, any number of vectors or of lists;
`MCContainers` extends it with values and with the other containers, and none of its
further steps is possible in a state of these.

*Vector.* The loops of emplace, remove, resize, reserve and expand compute what
`InsertAt`, `RemoveAt` and `SubSeq` say of a sequence, cell by cell, for a vector of
any length (`ShiftedInserts`, `ClosedRemoves`, `TrimmedTruncates`, `ReserveKeeps`,
`ExpandMakesRoom`), and the loop of the copies and of `+=` appends each element
once, by induction over its rounds (`ExtendedAppends`). The invariant `AllVectors`
says that, as long as nothing is broken, the elements fit into the cells and no cell
before the last of them is empty. `VectorStep` puts this together: every operation
keeps the invariant and is a step of `SeqSpec`, or one that changes nothing a caller may
rely on; or it breaks the vector, if realloc fails or memory of others is written.
`VectorsAreSequences` is the refinement, which promises nothing after the latter.

*List.* What `NodesOf` finds by walking from a head says little about links
elsewhere, so the invariant `ListInv` goes the other way: there is a sequence
without repetitions for each list that head, tail, size and both links of each of
its nodes represent (`IsChain`), no node is in two of them, and the extracted node is
in none. `Enters` and `Leaves` say which links an insertion or a removal at a place
changes; `LinkedIn` and `LinkedOut` show that the chain becomes `InsertAt` or
`RemoveAt`, and one lemma per operation (`PushFrontEnters`, `InsertBeforeEnters`,
`DeleteLeaves`, ...) that its assignments are such a change. `Walked` proves by
induction along the chain that NodesOf finds it; `PopsAll` that clear ends with an
empty list. `LinearInvHolds` is the invariant of both; `LinksAlwaysAgree` and the
refinement `ListsAreSequences` follow.

**ContainersProofs**, the hash sets (assume `DictionaryAssumption`: the hashes are
numbers; the smallest capacity is at least 3 slots and gives at least one bucket;
nullptr, an empty slot and a value that was moved away are no nodes, no handles and no
values; the capacities callers ask for are numbers). The theorems are about the
specification of the hash sets in `Dictionaries`: any number of them, any hash function,
any keys, values and sizes, with allocations that fail. If one leaves the old block, as
for mappings, all that follows holds; if it releases the old block, the set is lost
(`HashLost`), as it is when memory of others is written, and nothing is said of what
comes after.

What a search or a walk meets says little about a table, so the invariant says what the
table looks like. `Good` of a set is: its nodes are nodes, as many as it counts, below
the next free slot, no two with one key and each with the hash of its key (`NodesOK`);
it has buckets unless it is empty, its own unless it has no capacity (`TableOK`); and
there is, for each bucket, a sequence without repetitions of exactly the active slots
whose hash selects it, which the bucket and both links of each of its nodes represent
(`ChainsOK`). `HashInv`, which holds as long as `HashLost` does not, is `Good` for each
set, and that the slot of an extracted node is a free one below the next (`OutFree`).
One group of lemmas says what the operators do to it: `LinkAdds` puts a node at the head
of a chain, `UnlinkTakes` takes it out at any place, `BucketizeGood` chains all nodes
anew, whatever the links were (`DescendingList`: the slots of a bucket, in descending
order, are such a sequence), `ReorderKeeps` follows the loop that fills gaps from the
end by induction over its rounds, `ResizeKeeps`, `IncreaseKeeps`, `RefilledKeeps` and
`RebuiltKeeps` combine these for growth, refused growth, and copies. Each says two
things: the result is `Good`, and `DataOf`, the set of entries it holds, has changed by
what the operation is for or not at all. `ChainIs` shows, by induction along the
recursive function that walks a chain, that it finds the sequence; hence `FindsIt`: find
returns the one node with the key, or the next free slot if there is none.

One lemma per operation (`HashEmplaceStep`, `HashExtractStep`, `HashMoveElementsStep`, ...)
puts this together. `MapOf` turns the entries of a set into a mapping, and a step of the
code is the step `MapStep` of the mappings; so `HashInvariant` and the refinement
`HashMapsAreMappings` follow from the same lemmas. `HashRightAlways` needs in
addition that the iterators meet every node once: `WalkMeetsAll` is an induction over
the rounds of a walk in which the set of the slots passed grows by one each time
(`BeforeIsWay`, forwards and backwards), and `FewBuckets` that the buckets that are
in use are no more than the nodes.

**ChannelsProofs** (assumes `ChannelAssumption`: the buffer has at least 2 bytes, one of
them for the final zero, there is a level above NONE, the reset has a length, rooms and
lengths are positive, and `NoSocket` is no descriptor socket returns).
The theorems on streams and clients are about the specification of `Channels`, whose
initial states are those of a stream or of a client; those on numbers and
arguments, about the specifications of these modules, as `Texts` instantiates them.
The first two properties say that several sequences, one
behind the other, are the bytes that were written, in their order: what arrived,
the rest of the buffer and what the calls in progress are still to put; or the
lines returned, what the call has in hand and the queue. `Carries` is that
statement, and a step moves bytes over the border between two of the sequences
(`Brackets3` to `Brackets5`), cuts a part out (`Cut`), puts a colour reset in between
(`Coloured`) or adds new bytes (`Continued`). Sequences of sequences are flattened with
FlattenSeq of the community modules, a recursive function; `FlatOfJoined` shows by
induction over a set of numbers that it agrees with concatenation.

*Stream.* Delivers is not inductive: that no byte of a caller ever lacks room in a class
that flushes, unless it is the filling of a character, rests on what the stack of calls
looks like. `StreamHolds` says that only the innermost loop of OutputStream::flush can
have begun, and that an entry of Log waits only for a flush (`Sound`); that a full
buffer is flushed before anything but a colour reset is put into it, and that an entry
goes on with an empty buffer (`InTime`, `FlushIsNext`); and that all that is in the
buffer or on its way into it is of the severity that the filter of Log will look at
(`OneSeverity`), so that what it hides it hides rightly. `PushRule`, `PopRule` and
`PuttingRule` say what pushing and popping a frame does to these; one lemma per action
follows (`PutKeeps`, `FlushShownKeeps`, `DrainKeeps`, ...). `StreamsLoseNothing` is the
theorem.

*Client.* `ClientHolds` says that what a look has seen is still at the front of the
queue when it is taken (`Seen`), however much arrives in between, that no end of line
is in hand while the client looks for one, and that what send has reported and
what it is about to report is what was accepted. `ClientsGetEveryByte` follows.

*Numbers* (assumes `NumbersAssumption`: digits are from 0 to 15 and no spaces, the largest
type has an even number of values and no other has more). The loop over the digits has no
invariant of its own in the property, so there are two: `RefusesAll` says that the
loop gives up at the first character that is neither a digit below or at the base
nor of the one kind of space, and for good; `AcceptsFine` that as long as the number
meant fits into the largest type the value is that number, which only grows, so
that the test for a value that got smaller does not fire. Trimming twice is
trimming once, so that the recursive descent through sign and prefix sees the same
text as `Reading`. `WrappedRule` says when the conversion to a signed or a smaller
type gives the same number back: exactly if it is in range. `TextsAreNumbers`
combines these for all texts, types and signs.

*Arguments* (assumes `ArgumentsAssumption`: `Args` is what the constructor takes, the
marker `NoValue` is no word, `List` is a sequence). The property recomputes everything
from the whole history, and parse does it word by word. So the first lemmas say
what one element more changes in each recursive function (`PlacesOfMore`, `KeptOfMore`,
`FlagsOfMore`, `EndAfter`), and then what one word more does to a command line:
the words before keep their roles (`RolesAfter`), but not their values, since the
value of the last name may be the word that has just come. `Ready` is a command line's
values without one that is still awaited, and `ReadyAfterMore` and `ReadyAfterValue` say
how they grow. In the invariant (`Consistent`), parse in the midst of a command line
(`Progress`) keeps what the earlier calls and the ready values give; it awaits a value
exactly if the last word is a name that takes one (`Open`), has seen the terminator
exactly if the words have an end, and has an error exactly if a word so far is
unknown, a value was rejected or came twice. Between two calls (`Between`) this is so for
all calls, with what only the end of a command line can tell: a value or a required
parameter that is missing. One lemma per action follows (`ValueKeeps`, `NameKeeps`,
`EndOfParseKeeps`, `SetByNameKeeps`, ...). `OptionsAreParsed` is the theorem; how a
single value is read and matched is left as it is defined, for any words.

Only model-checked:

- everything under fairness (the progress properties of Mutex, RWLock,
  MutexRecursive, Thread, and `CallsReturn` of Buddy): TLAPS does not reason about
  ENABLED;
- the trees (`TreeRight`, `TreeImplements`): insertion and erasure rebalance along
  the path to the root, and what holds in the middle of that loop (one subtree has
  changed its height and is to be told to its parent) has to be stated for trees that
  are slots of an array; this induction is not done;
- the formatter and the strings (`FormatAgrees`, `StringsAgree`): each compares two
  algorithms that take a text apart in different ways, over folds and recursions with
  an invariant of their own for each function and each exception; the runs compare
  them on all short inputs.

## 6. Findings

1. `MutexRecursive` takes owner 0 for "me" in every thread with gettid() =
   getpid(). A thread created as `separate` is one too, so that it and the main
   thread can both believe they own the mutex: `assert(recursion > 0)`
   (`mutex_rec.hpp:23`) fails, or without assertions both own it.
2. A detached thread unmaps its stack before SYS_exit; the kernel then clears the
   thread id at that address (`thread.cpp:85-93`). If the address has a new thread
   by then, its descriptor says unused while it runs.
3. `realloc` to another small size frees the old block also if no new one was
   found (`mem.cpp:233-240`); its callers keep using the old pointer. For hash sets and
   trees the models follow this into `ReallocLoses`.
4. A hash set whose slots have all been used and which has been emptied by erase
   makes no room for the next element: `increase` calls only `reorganize`, which
   does nothing for an empty set (`hash.hpp:574`, `672-674`). The element is
   written over the buckets.

The comment `TODO: racy without locks...` in `Thread::detach` is right: a thread
that tests `detached()` just before it is marked leaves its stack mapped for ever.
`Reclaimed` therefore speaks of threads created detached and of joined ones.

Other observations that came up, without a run of their own. The models do what
the code does in each of these cases; where a property would fail, its comment
names the case.

- *Thread:* `assert(pid == that->tid)` (`thread.cpp:65`) reads a field that the
  kernel clears, and memory a detached thread unmaps, when the new thread is
  quicker than its creator. Only builds without NDEBUG have it.
- *Buddy:* the header is added to a size before it is compared with anything
  (`alloc_buddy.hpp:331`, `443`). Close to the greatest size the sum wraps around: malloc
  hands out one of the smallest blocks, and resize agrees to any size if the block is one of
  these. resize to a size beyond the greatest power of two looks for its bucket for ever.
  Memory passes on any size (`mem.cpp:214`). MemoryMap adds its header in the same way
  (`mem.cpp:120`, `136`) and maps less than was asked for.
- *Buddy:* malloc tries only the last block of a list; if that ends where the
  range ends it returns 0, although another block of the list lies in reserved
  memory (`alloc_buddy.hpp:388-398`).
- *HashSet:* `clear` and `insert(Node&&)` rely on buckets and slots that a set
  that was moved away, or is full, does not have.
- *Vector:* `v += v` never ends; `reserve` does not look at what realloc returned, so that a
  vector that cannot grow loses its elements (`vector.hpp:401`); `emplace` in the middle
  of a full vector moves the last element to the cell behind the array (`vector.hpp:428`).
- *MutexRecursive:* at the greatest recursion count the owner waits for itself
  (`mutex_rec.hpp:22`). `DeadlockFree` supposes that callers come back to no lock at all
  and says nothing of this case, for which 2^64 calls of lock are needed.
- *List:* `pop_front` and `pop_back` return whether a node is left, not whether
  one was removed.
- *Streams:* the flush in the destructor of BufferStream is that of BufferStream
  (`buffer.hpp:89`), so that an OutputStream loses what it has not flushed. A character
  that fills the buffer leaves no room for its filling to the right, and flush comes
  after both (`buffer.cpp:173-181`): the filling is dropped.
- *format* differs from printf where `Format!OwnWay` says: it reads the argument of
  `%ld` as an int, writes 0x for a 0 with `#`, takes widths modulo 256, and others.
- *Strings:* the prefix table of `find` knows prefixes of one character only, so
  that needles whose longer prefix comes again are overlooked ("aaab" in "aaaab");
  `ends_with` is true for a longer end; `replace` may leave the final zero out;
  `replace_inplace` copies beyond the end of its copy when text follows the last match,
  and leaves the old characters behind a result that ends with one (`string.cpp:218-239`).
- *Numbers:* a digit may equal the base (0b2 is 2, 1a is 20), and a product that
  wraps around is noticed only if it gets smaller than the value before.
- *Arguments:* vectors of long long are never set, `set(name, value)` returns
  nothing for an unknown name, rejected numbers are stored all the same, and a
  parameter stays present from one parse to the next.
- *atexit:* the table doubles at each registration, as its condition compares a
  capacity in bytes with a number of entries the wrong way round; after a few
  dozen there is no memory for the next. Nothing calls the registered functions.

## 7. What is not modelled

- Weak memory orderings; the life time of the memory a lock lies in.
- `Thread::kill` and two users of one thread handle; TLS and stack layout, guard
  pages.
- The program break variant of Memory, sizes beyond half of what a size_t can hold in
  Memory (`SizeAssumption`; Buddy has them), and the copy, set and compare loops of
  `mem.hpp`.
- What a program does with a container that has lost its memory, or after it wrote to
  memory of others.
- Floating point numbers, `%n` and `%p` of format; the source position and wording
  of log messages; several threads on one stream, which has no lock and promises
  nothing.
- `Arguments::help`, the configuration file and ar archives: layout and lookup.
- The exit functions: one table, whose flaw is listed above; no two steps of it
  make a question for a model checker.
- Date and time, hash functions, random numbers and the other parts without state
  (section 1), where a test of the function is the better tool.
- The wrappers of system calls, files, directories and sockets, which keep a
  descriptor; what they do to their callers is part of the callers' modules.
