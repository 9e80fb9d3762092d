# A verification project for dbprimkit

dbprimkit is a Rust crate of database primitives: a lock-free ring buffer, a spin
lock, appenders to rotated files, skip list maps and sets (an ordinary and a
lock-free one) and a write ahead log. These TLA+ modules model the parts in
which threads, tasks, crashes or all of them make the order of steps matter, and
the ordinary skip list, whose links are remembered across calls. TLC checks them
on small instances; TLAPS proves, for every size and number of threads, the
safety of the ring buffer, of the spin lock, of the epochs and of the entries of
the lock-free map, of the appender with its crashes and cut-off switches, of the
write ahead log with its crashes and reopenings, and of the ordinary skip list with
its searches; that the ring buffer implements a bounded
queue; that the skip list implements a sorted map; and, for lists of one or two
levels, that the lock-free map keeps its levels sound and uses no freed node. Paths below are relative to
the repository.

## 1. Inventory

| Component | State | Operations | What is hard | What makes it correct |
|---|---|---|---|---|
| Ring buffer, `src/ringbuffer.rs` | array of cells, each a sequence number and data; counters `head`, `tail` | `push`, `pop`, `push_for_sp`, `pop_for_sc`, `len`, drop | every access is a separate atomic; stale tickets; weak exchange; wrap of the ring | bounded FIFO; no cell shared; refusals justified |
| Spin lock, `src/sync/spinlock.rs` | one atomic word, the value | `lock`, `try_lock`, guard deref and drop | mutual exclusion with spurious failures; the retry count | one guard at a time; no lost update |
| Lock-free map, entries, `src/skiplist/map/lockfree.rs` | per node a word of flags and a reference count | `get`, `get_mut`, `EntryRef::drop`, `insert` on a present key, `remove`, `remove_wo_kv`, collection | two words changed in separate steps, flags decided by a count read earlier | no use after free, no leak, one writer, one removal |
| Lock-free map, epochs, same file | global epoch with a pending flag, a slot per thread, three garbage lists, `gb_cnt` | pin, repin, unpin, `put_garbage`, `adv_epoch`, `clear_garbage` | epoch read and published in two steps while another thread advances it | no reachable node is freed; garbage is collected once |
| Lock-free map, links, same file | marked next pointers per level | `search`, `search_ext`, `link_nodes`, `unlink_nodes`, lookups, iteration, `clear` | linking and unlinking level by level, an exchange at a time | each level a sorted sublist; calls behave as atomic ones |
| Ordinary map and sets, `src/skiplist/map/ordinary.rs`, `src/skiplist/set/` | sequential skip list | map and set operations, entry API, cursors | predecessor vectors kept across changes; set relations | refines an ordered map; relations agree with the mathematical ones |
| Appenders, `src/appender/` | current rotation file, its number and size | `append`, `flush`, switching, removing the oldest | removal before creation; errors or a dropped future between steps; names after a restart | order by name; the limit; nothing reported is lost |
| Write ahead log, `src/wal.rs`, `src/wal/sync.rs` | data and manifest rotations on disk; ring, `min_lsn`, `max_lsn`, `flush_lsn` in memory; a flushing thread with buffer and counters | open, `append`, `advance_lsn`, flush, rotation, removal, stop, restoring, reading | callers and flusher concurrent; crash at any step; entries split over blocks, flushed in part | what is reported persisted survives, can be found and read, and its LSN is never used again |
| Async log, `src/wal/async.rs` | the same, and a configuration saved with the log | the same, with awaits; `WalInstance::new` | `stop` does not wait for the flushing task; the configuration file is written over | as above, with an old task still at work |
| I/O backends, `src/io.rs` | files | open, read, write, sync, list, remove | left to the operating system | |
| `src/lib.rs`, placeholders (`btree`, `arena`, `bloomfilter`, `lsm`) | none of interest | | | |

Interactions: the log's callers hand entries to the flushing thread through
`LogRingBuffer` (the ring buffer's code with the LSN as its ticket) and read
`min_lsn` and `max_lsn` of the shared `ControlBlock`; the flushing thread drives
two appenders, for data and manifest, whose rotators list, create and remove
files through an I/O backend. Names of data rotations are made from `flush_lsn`.
In the lock-free map every call pins an epoch before it walks the links; an
`EntryRef` outlives the pin by its reference count. The registry of epoch slots
is guarded by the spin lock.

`PROJECT.json` lists the hazards line by line.

## 2. Modules and code

| Module | Models | Correspondence |
|---|---|---|
| `BoundedFifo` | what a ring buffer promises | an abstract queue of places: given out, completed, taken, left |
| `RingBuffer` | `src/ringbuffer.rs` | one action per load, store, exchange or data access of `push` and `pop`; `mode` says which of the two entry points each side uses (the docs forbid mixing), `MayPush` and `MayPop` that a single producer or consumer is single; `claim` and `served` are history |
| `SpinLock` | `src/sync/spinlock.rs` | `Lock` and `TryLock` call; `Acquire`, `TryFails` are the exchange; `Read`, `Write`, `Drop` what a thread does with the guard, `*guard += 1` in two steps |
| `EntryRef` | flags, `refcnt` and fate of one node | `pc` names the step of the call; `seen` is the local `flags`; a failed exchange (also a spurious one) goes back to where the flags are looked at |
| `EpochReclaim` | epochs and garbage | each of the five accesses of `LocalEpochPinner::new` is a step, and so is each access of the scan in `adv_epoch`; `reach` is what a thread may have a pointer to; the loop's order over slots is arbitrary |
| `ConcurrentSet` | what a concurrent sorted map promises of its keys | an update takes effect in one step of its call; a lookup answers what held at a moment of its call |
| `LockFreeList` | the links in `src/skiplist/map/lockfree.rs` | one action per load, store and exchange of a link; `walk` is where a search or a loop over the levels is, `ents` the `PrecVec`; the keys of `ConcurrentSet` are those on level 0 without the flag `DELETED` |
| `OrderedMap` | what an ordered map with an entry API promises | a dictionary, the key of the entry in the caller's hands, the latest result |
| `OrdinaryMap` | `src/skiplist/map/ordinary.rs` | one action per call; a node is named by its key, `next` has a link per level and node; `entry` keeps the links collected when it was made, as the code does; the searches are recursive functions down the levels |
| `SkipListSets` | the relations of `src/skiplist/set/ordinary.rs` | an iterator is the sequence it yields, on the current map and any other set; `is_disjoint` and its like compare ends as the code does |
| `Rotation` | files of an appender, names of rotations | a directory is a function from names to content and how much of it is synced; `Surviving` is what a crash leaves |
| `RotAppender` | `src/appender/async.rs` | one action per await of `append`, `flush` and the switch, and `SwitchCut`, `AppendCut` where a call is given up |
| `Wal` | `src/wal/sync.rs`, the formats of `src/wal.rs`, and of `src/appender/sync.rs` what they use | `data`, `mani` are the files, with how much is synced; `pc` is the flushing thread's place and `then` its return addresses (`flush_data_blocks` may call `flush_mani_entry` or `remove_no_use_rots`) |
| `WalConfig` | `TunableConfig`, `init_config`, `save_config` | a text is its fields, the digits of the others and its end; saving is two steps, and writes over what is there |
| `WalAsync` | `src/wal/async.rs`, over `WalConfig` and `Rotation` | a record `task` and a control block for each log opened, so that the task of a stopped writer goes on beside the next writer or the next reader; `reader` is a stream: the names it listed, the open rotation, the next LSN |
| `SyncProofs` (ring buffer and spin lock), `EpochReclaimProofs`, `EntryRefProofs`, `LockFreeListProofs`, `RotAppenderProofs`, `OrdinaryMapProofs`, `WalProofs`, `WalAsyncProofs` | | theorems |
| `MCEntryRef`, `MCLockFreeList`, `MCWalAsync` | | symmetry sets and values for the runs |

Definitions with an underscore in their names (`PushClaim_Add`) are variants with
a plausible slip, at least one for each property; they are not part of a
specification.

What the models leave out, deliberately:

* Memory order. Atomics are sequentially consistent. Weak exchanges may fail
  without a reason everywhere.
* Ticket counters are unbounded integers: `usize` does not wrap within the life
  of a ring. `gb_cnt` and the counter of `len` may go below zero, which in the code
  is a very large number: the test against the threshold takes that into account.
* In `EntryRef` a node is collected when no call is in progress that may have found
  it: this is what epochs promise, and `EpochReclaim` shows when they keep it.
  `LockFreeList` takes them at their word too: a node in the garbage is freed as
  soon as no call is left that was in progress when it got there.
* `LockFreeList` leaves out what `EntryRef` is about: values, entries in use or being
  updated, reference counts. A new height is any legal one; each thread makes one
  call, on a list that calls made before. What a failed exchange stores in the new
  node is stored in the same step. A behaviour ends when null was dereferenced or
  a linked node freed (`crashed`).
* In `Wal` sizes are in units: a block has its header and `BlockUnits` units, the
  header of an entry takes one. Checksums and encodings are abstracted: a
  block is its header and parts, and what a reader would decode is in them.
* In all models with files a write reaches the disk in whole blocks, units or
  entries of the manifest. Of what was not synced any part from the front on may
  survive a crash; created or removed names stay so, although nothing syncs the
  directory.
* In `Wal` a crash and a failing I/O call are one action, `Halt`: both end the
  flushing thread, and nothing is opened before it has ended. `Stop` comes when no
  `advance_lsn` is in flight, because `stop` consumes the writer. How many idle
  turns come before a flush is left open.
* In `WalAsync` every entry fills a block. Listing the names, reading the end of a
  rotation, opening, writing, syncing and removing one are a step each. A writer
  dropped without `stop` leaves a task that goes on for good; that state space was
  too large to be part of the run. A reader's own I/O errors are left out: a
  stream may fail at any time for that reason.
* In `WalConfig` the two fields that matter are written as a whole or not at all: a
  crash in the middle of their digits could also leave another number.
* In `OrdinaryMap` a mutable reference handed out is `InsertOccupied` with the
  result ignored. `Spec` removes through an entry only when its links were collected
  with its node in the list; `SpecAll` always, see the findings.

## 3. Runs

| Run | Instance | Shows |
|---|---|---|
| `ringbuffer` | 2 producers, 2 consumers, 2 cells, 2 pushes each, all four modes | the safety properties, `RingInv`, refinement of `BoundedFifo`, justified refusals, every accepted item is served |
| `spinlock` | 3 threads, 0 or 1 retries, 2 calls each | exclusion, no lost update, somebody gets a free lock |
| `entry_ref` | 2 `get`, 2 `get_mut`, 1 each of insert, `remove`, `remove_wo_kv` | no use after free, no leak, one writer, one removal |
| `epoch` | 3 threads, 2 nodes, any garbage is enough to advance | safe unless a pin was overtaken; exact garbage lists; one advance at a time, and it ends while others keep pinning |
| `lockfree_list` | 3 threads on the list of a high node 1 and a low node 3, of which one at most looks up, iterates or clears | sound levels, no use after free, refinement of `ConcurrentSet` |
| `lockfree_progress` | 2 writers on each of the 27 lists of 3 keys and 2 levels, an exchange may fail for no reason | all calls return, and `len` is right then |
| `lockfree_gap` | inserts of 1 and 2 and a removal of 2 on the empty list, 3 levels | `LevelsSorted` is violated: see findings |
| `wal` | below | durability, names of rotations, no LSN used again, everything needed readable |
| `wal_progress` | 2 entries, opened once | what is appended is reported persisted in the end |
| `wal_async` | 2 LSNs, 1 when a caller asks for a configuration, rotations of 1 block, opened twice, for writing or reading | what was reported is kept, once; streams are whole; the configuration fits the data |
| `rot_appender` | 5 appends, limits 0 to 3, rotations of 2 units, opened twice | order by name, nothing reported lost, the writer's file is kept, the limit holds |
| `ordinary_map` | 4 keys, 3 levels, 2 values | sound list and counter, queries and set relations right, refinement of `OrderedMap` |

### Bounds, and why they are enough

* Ring: four tickets on two cells take the ring round twice, so each cell is free,
  full and stale for some thread; two threads on each side make every pair of
  concurrent calls. The proofs cover all other sizes but one.
* `entry_ref`: each pair of users of the same kind that can disturb each other is
  there, and users repeat. The proofs cover any number of them.
* `epoch`: three threads are a reader, one that removes and one that advances
  between the steps of either; the epoch is cyclic, so runs are unbounded in
  length, and freed nodes are allocated again. The proofs cover the rest.
* `lockfree_list`: a predecessor can be removed, and a node linked into the gap, while
  a third thread passes; on two levels a node is half linked or half unlinked.
  A gap between 1 and 3 and a key behind all others make each exchange fail for each
  of its reasons. `lockfree_progress` has every list of three keys instead.
* `wal`: blocks of three units, buffers and rotations of two blocks, entries of one
  and five units: an entry may share a block with others, fill the rest, or be split
  over three blocks, begin in one flush and end in another, and end where a
  rotation is due. Three LSNs fill two data rotations; two manifest entries make
  the manifest switch; two opens give a crash, a recovery and a second crash
  with all of it again. With two advancers and sizes 1 and 3 the invariants
  were checked too (20 million states, too many for a regular run).
* `wal_async`: each block ends a rotation, so two entries switch twice and a rotation
  can be removed; two manifest entries switch the manifest; a second opening meets
  the first task in every one of its steps. Blocks are of 2 to 4 units, buffers of
  up to 8. Callers ask for 3 and 5, which `sanitize` must repair, in a longer text, or
  for the default again in a shorter one; they do so while the log has one LSN at
  most (`MaxAskedLsn`), which is enough for a block to be written before the sizes
  change and read afterwards. With two LSNs then, the properties were checked as
  well (5.4 million states).
* `rot_appender`: two removals, around a creation that was cut off, and a reopening
  with another limit between any of the steps.
* `ordinary_map`: every shape of four nodes on three levels is reached, so a search
  leaves each level at the root, at a node it came with, or at a new one, and meets
  its key above level 0 or not. The other set of a relation is each of the sixteen.

### Fairness

* `RingBuffer`: each thread inside a call goes on, and consumers poll.
* `SpinLock`: the scheduler runs every thread and guards are dropped; that a lock
  that is free and tried again and again is taken by someone (`WF` over all of
  them) excludes only exchanges that fail for ever without a reason. No fairness
  between waiters: the lock has no queue.
* `EpochReclaim`: pins that began are finished, calls end, `adv_epoch` goes on.
  Searches may pin again for ever.
* `LockFreeList`: each thread goes on with its call; exchanges fail without a reason
  a bounded number of times.
* `Wal`: `WF` for the flushing thread, which is a loop without blocking calls, and
  `SF` for the flush of an idle log: `log_check_cnt` grows on idle turns, and idle
  turns come again and again when appends are bounded.

Deadlock is checked for the ring buffer, where consumers may always poll, for the
epochs, for the lock-free list, whose only rest is that all calls have returned, and
for the ordinary map. The other systems stop in some states by themselves: calls
used up, the node freed, the log opened as often as the bound allows.

### Findings

The run `lockfree_gap` finds that a node can be garbage and still be reached from
the heads. When the exchange on a level other than 0 fails, `link_nodes` goes on with the
next level (`src/skiplist/map/lockfree.rs:1003`), and the new node may be on level 2
and not on level 1, where it links, by the store in line 977 or 996, to a node that
it is not in front of. A removal of that node comes down at the new one, finds its
link on level 1, and unlinks the node there; the link that really leads to the node,
from the head of level 1, stays. The node is retired, and later freed. A lookup begun
after that uses it: with a fourth thread that calls `get`, `NoUseAfterFree` is violated
too. The comment above the store says that nobody can change the link (`:975`).

In the same way an insertion may link its node behind the one that is not on level
1, and the retry's store overwrites that link: the other node is complete but not on
level 1, and its removal looks for it there for ever (`LevelsComplete`, on a list with
the nodes 2 and 3 on two and three levels). Neither needs an exchange that fails
without a reason; with one (`MaxSpurious = 1`) two insertions are enough for the
latter. With one or two levels there is no level to skip, and `LinksSound` and
`NoUseAfterFree` hold, as section 4 proves; no more is claimed of the other properties
of `LockFreeList` either.

What else was met has no run of its own. Each is reproduced by adding the
invariant named to the configuration named.

Lock-free map:

* `NoNullDereference` (`LockFreeListProgress.cfg`). `link_nodes` takes the pointer which
  a failed exchange returned for a node and compares its key. It is null when the
  node searched up to was the last of its level and was unlinked since, or when the
  predecessor had no successor and was marked: an insertion that races with a removal
  dereferences a null pointer (`src/skiplist/map/lockfree.rs:993`).
* `NoLinkedFreed` (`LockFreeList.cfg` with four writers, the list of a node 1 on two levels
  and 2 on one, and `Writes` insert 3 twice, remove 1 and remove 3). An insertion gives
  up its node as soon as an exchange finds another with the same key, on any level;
  the comment says this is detected on level 0 (`src/skiplist/map/lockfree.rs:952`). One
  insertion searches; the other links its node 3 behind 1 on both levels; 1 is
  unlinked from level 0 and 1, and 3 after it, so that the marked links of 1 still lead
  to 3. The first insertion links its node on level 0 behind 2, fails on level 1 at the
  marked link of 1 and finds the 3 that is gone: it frees its own node, which is
  linked, and inserts another.
* `DroppedOnce` (`EntryRef.cfg`). What `remove` returned may be dropped once more. A
  getter drops its reference: it loads the flags, clears `IN_USE`; `remove` now takes
  key and value, the garbage is collected; the getter's decrement is the last one,
  and the flags it loaded do not say that key and value were taken.
* `ExclusiveUse` (`EntryRef.cfg`). `get_mut` and `remove` can succeed while a shared
  `EntryRef` is in use: `get` sets or sees `IN_USE` and counts itself in a later
  step, and between the two another holder drops its reference, sees a count of
  at most two and clears the flag.
* `NoUseAfterFree` (`EpochReclaim.cfg`). A pin can protect nothing.
  `LocalEpochPinner::new` loads the epoch and stores it in its slot later; when the
  epoch is advanced in between the slot holds an epoch nobody waits for, and a
  second advance frees nodes the thread can reach. `SafeUnlessOvertaken` says it is
  the only way.
* `gb_cnt` may wrap below zero, because a removal counts its node behind the push.
  `GarbageCount` (`EpochReclaim.cfg`) says what it is; TLC finds that it holds, but it
  is in no regular run.
* `ClearOverlaps = TRUE` (`LockFreeList.cfg`) violates `LinksSound`: when `clear`
  overlaps an insertion, nodes are linked to garbage; a removal may then look for
  ever for the node it unlinks, and a node may get into the garbage twice.
* What `ConcurrentSet` promises less than an atomic map: `contains_key` may be true,
  and `first_entry` and `last_entry` `None`, while a removal that took effect has not
  returned; an iteration sees no single moment. `len` is not reduced by `clear`, and
  wraps below zero when a removal counts before the insertion does.
* `take_kv` moves the key out of a node, and `replace` of the lock-free set swaps
  it, while traversers may compare with it.
* The slots of a thread are in a `Vec` that moves when the thread uses a fifth map,
  while the registry keeps their addresses (`src/skiplist/map/lockfree.rs:266`), and
  `get_map_epoch` returns a reference that outlives its lock.

Ring buffer: with one cell two items are pushed without a pop (`CapacityBound`
with `Size = 1`).

Write ahead log, with `Wal.cfg`:

* `SwitchReopens`. A crash between the switch to a new data rotation and its first
  block leaves a log that cannot be opened, although the comment in
  `flush_data_blocks` provides for that case.
* `MinLsnReadable`. `min_lsn` may be lost and the rotations of the smaller one removed:
  the flushing thread copies `min_lsn` when it starts and takes it for persisted; a
  caller may have advanced it by then.
* `MaxLsnPersisted`. `get_max_lsn` of a reopened log may cover an entry of which only
  a part was written.
* Two more cases restrict properties of `Wal` and are recorded in the variable
  `faults`: a manifest that was just switched and is empty makes LSNs begin again at
  1, whatever the data hold (in `WalAsync`, where it also happens without a crash,
  `blank`); and a block with a header only, left when an entry does not fit and
  the rotation is due behind a reopened file, makes the next rotation be named 1.
  A log with torn entries is excepted from reading as far as the torn entry goes.

Async log (`WalAsync.cfg`):

* A log opened again while the task of a stopped writer has entries in hand
  (`clash`) gives LSNs twice: `KeptOnce` without that condition is violated.
* A reader opened then may tell of a `get_min_lsn` whose rotation the old task
  removes before the stream is made. `StreamsWhole` says that only LSNs which
  `advance_lsn` gave up are concerned.
* `save_config` does not truncate: a shorter text over a longer one does not parse,
  and neither does one cut short by a crash; the log cannot be opened then.
* A `bulk_flush_size` that is no multiple of the block size becomes a number of
  blocks where bytes are meant.

Appender (`RotAppender.cfg`): a limit lowered on reopening is never enforced on the
rotations there are. With `max_rot` 1 or 2 a switch cut off behind the removal (`risky`)
may leave the writer on a file without a name, and a `flush` that returned `Ok` is
lost. Numbers restart at 0 if the only rotation was removed before a crash.

Ordinary map and set:

* `LenIsExact` under `SpecAll` (`SkipListSets.cfg`): removing through the
  `OccupiedEntry` that an insertion into a vacant entry returned takes out the
  successor too, or reads a null pointer: the entry still has the links from before
  the insertion.
* `is_disjoint`, `is_subset` and `is_superset` compare the ends of the two sets alone:
  {1, 3} and {2} are said to be not disjoint, and {2} a subset of {1, 3}. `SetsAgree`
  states the direction that does hold.

## 4. Proofs

**Ring buffer.** `SyncProofs` proves, for all sets of producers and consumers,
every number of pushes and every `Size` but 1: type correctness (for 1 too), the
inductive invariant `RingInv`, and from it `CapacityBound`, `ExclusiveCell`,
`TicketDelivery`, `QuiescentComplete`, `EmptyIsJustified` and `FullIsJustified`.
Assumptions: `Size` is a positive number, no thread is on both sides, `None` is no
item. `Size # 1` is needed: in a ring of one cell the sequence number of a full
cell equals that of a free cell one round later.

The argument: `CapacityBound` is not inductive, because it says nothing of what the
cells hold. `RingInv` says of each of the last `Size` tickets in which of five stages
its cell is (`CellInv`), who is responsible for the stage (`WriterInv`,
`TakerInv`), how counters and history differ while a single producer or consumer
is between two stores (`SingleProducerInv`, `SingleConsumerInv`), and that what a
thread saw in a cell is still so as long as the counter has not moved
(`SnapshotInv`), which is what the exchange tests. The proof knows `%` by three
lemmas alone: cells repeat every `Size` tickets (`CellWrap`), no sooner
(`CellDistinct`), and the first round is the identity (`CellSmall`). Sequence
numbers only grow (`StaleInv`), and so a stale ticket is never taken for a full ring.

The theorem `Refinement` of the same module proves `ImplementsFifo` from it: the queue's
places are the tickets between what was left and what was claimed. A claim is the abstract
`Enqueue`, publishing `Complete`, reading the data `Dequeue`, giving the cell back
`Leave`, an answer `None` the abstract one, and every other step a stutter. The queue
has room for a claim because consumers that have not given back their cell can be
counted into an interval of tickets, which with the items spans at most `Size`.

**Spin lock.** `SyncProofs` also proves `LockInv` for any number of threads and
retries below `usize::MAX`, and from it `MutualExclusion`, `NoLostUpdate` and
`TryBound`. The invariant adds that the word is 1 exactly while there is a guard,
that a copy read through a guard is still the value, and that the counter of the loop
is the number of attempts.

**Epochs.** `EpochReclaimProofs` proves `SafeUnlessOvertaken`, `OneAdvance` and
`GarbageOnce` for any set of threads, any finite set of nodes and any threshold. The
invariant says where each node is (`PlaceInv`), that the pending flag belongs to the
one thread that has announced the next epoch (`AdvanceInv`), that a removal puts its
node into the list of the epoch it is pinned in (`GarbageInv`), that a pinned thread
is in the global epoch, or in the one before and still to be seen by the scan
(`PinInv`), and therefore that the list being cleared, the one behind the epoch to
come, has no node which a thread may reach (`ReachInv`).

**Entries.** `EntryRefProofs` proves `NoUseAfterFree`, `NoLeak`, `SingleWriter` and
`OneRemoval` for any finite set of users in five disjoint kinds. The count is the
number of those who hold or are about to give back a reference, the map among them
(`CountInv`), so the last decrement is the last use; the flags say who writes or
removes (`FlagInv`, `RemoveInv`): an exchange succeeds only on the flags it was
decided by; and key and value are in the node until a remove takes them or the node
is freed (`TakenInv`).

**Links of the lock-free list.** `LockFreeListProofs` proves `LinksSound`,
`NoUseAfterFree` and `LenCounts` for any threads and keys, any list that calls made
before, any calls of the threads, and exchanges that fail without a reason as often as
they like. `Setting` states the two hypotheses besides `ListAssumption`: there are at
most two levels, and `clear` does not overlap with writers. Both are needed: three levels violate `LinksSound`
in the run `lockfree_gap`, and with `ClearOverlaps` TLC finds it violated on two.
Lookups and iterations may overlap with everything. The model ends a behaviour where
the code would dereference null or free a linked node (see the findings): nothing is
claimed of what comes behind.

The first two say what is found from the heads; what they rest on is that an exchange
which succeeds on a link found long ago still does the right thing. `Inv` has five
parts besides types:

* `Control`: what each step of a call may rely on in `walk`, `ents` and `node`, and
  how far its insertion or removal has come.
* `Graph`: each level has the nodes that are on it (`On`) and those that were
  (`Was`). Links lead to larger keys and to nodes that are or were on the level
  (`Ascends`), and those of the nodes on it to the next one there (`Chained`); a
  mark stands for `deleted` (`Marks`).
* `Removals`: one removal at a time owns a node; below the level its marking has come
  to, the links of the node are marked.
* `Clears`: what `clear` cut off is collected in its order, and no writer is there.
* `Regions`: each call has on every level a set of nodes to which it may come. It has
  the nodes of the level, is closed under the links, on each level part of that on
  level 0, and safe: its nodes are in the list, or in the garbage and waiting for
  this call. For a writer, its nodes are on the level or marked there. So what a
  search notes is a node on the level or one whose link cannot be exchanged any more,
  which is why comparing the link with an unmarked one is enough. Without regions
  nothing would exclude a search that leaves the list by the link of a removed node
  and comes to one that was freed.

There is one lemma per action (`LinkNext`, `UnlinkNext`, `ClearCollectNext` and so on).
Actions that take no node on or off a level share `SameLevelsStep`, and those that leave
the links alone `QuietStep`. `OnLevel`, the nodes found from a head, is a recursive
function in the model: it is contained in `On`, which is closed under the links
(`ReachedIn`), and all of `On` is in it (`OnReached`): a node on the level is found in
no more steps than there are nodes in front of it.

`LenCounts` is proved from `Inv` for lists on which `clear`, which does not count, is not
called (`NoClear`): the counter and the insertions that have linked a node and not
counted it are as many as the nodes that are kept and the removals under way (`CountOk`).
For this a node that is being linked must not be deleted (`Fresh`), and the kept nodes
must have different keys, which `Chained` says of level 0.

**Appender.** `RotAppenderProofs` proves `InOrder`, `WriterListed`, `AckedKept` and
`LimitKept` for any limits, sizes of rotations and payloads, any number of calls and
of openings, whatever is cut off or lost in a crash. Assumed is what `RotAppender`
states: sizes and limits are numbers, and no payload is empty. `InOrder` is not
inductive, because where an append goes is decided by the writer's name, not by the
order of names. The invariant adds that the file being written is the last, but for
one empty file that a switch created before it was cut off (`LastWritten`); that such a
file is there only then (`Ahead`), so that counting the files before one is added is
enough (`RoomLeft`); that the file being written still has its name
(`TargetListed`); that all other files are synced (`OthersSynced`), which is why one
`sync_all` makes all that was written persistent; and that the units of a payload on
disk are all there or all synced (`WholeThere`, `AckedSynced`), counted as pairs of a
name and a place, so that a crash that cuts the end of a file cannot reach them. The
lemmas in front say what each operator of `Rotation` does to a directory, and
how it changes the units of each call (`UnitsWritten`, `UnitsRemoved`).

**Ordinary map.** `OrdinaryMapProofs` proves `ListInv`, `QueriesAgree`, `LenIsExact` and
the refinement `ImplementsMap` for any number of keys and 1 to 32 levels, the bound of
the code. The invariant gives each link its meaning: on each level a node is linked to
the least node behind it that is high enough (`Linked`); a vacant entry remembers on
every level the last node in front of its key (`VacantKnows`), and an occupied entry
with links of its own those that lead to its node (`OccupiedKnows`). So what `link_nodes`
and `unlink_nodes` change can be said of one level at a time (`LinkKeeps`,
`UnlinkKeeps`). The searches are recursive functions; what one returns is proved in two
steps: some function satisfies its equation, given explicitly (`WalkExists`) or built
from its end, and all that do agree where it counts, because the greatest node at
which they did not would be followed by a greater one (`WalkEnds`). Thus a level is left
at the last node in front of the key (`LastBeforeIs`, `PathIs`), `search` and
`search_ext` find exactly the keys present, an inclusive, exclusive or missing start is a
threshold (`ThresholdIs`) which makes the search of `range` the same walk
(`LastUnmetIs`, `SearchFirstIs`), and iteration lists the keys in order (`VisitedIs`).
With this the dictionary of `OrderedMap` is the function `value`, and each call is the
operation it names. `SetsAgree` of `SkipListSets` is proved in the same module: an iterator
over two sets is a walk over pairs of places (`Steps`), which ends because each step
goes nearer to the ends of both (`SidesFall`), and which yields what is left on both sides
because the key it passes is the least of that (`NextSideIs`, `StepsYield`). `LenIsExact` and the refinement are about `Spec`; under `SpecAll` they
are false, see the findings.

**Write ahead log.** `WalProofs` proves `Durable`, `RotationNames`, `NoReuse` and `ReadBack`
for any sizes of blocks, buffers, rotations, manifests, the ring and payloads, any set of
threads that call `advance_lsn`, and any number of appends, crashes and reopenings.
Assumed is what `Wal` states: sizes are positive numbers, those of payloads may be
zero. `Durable` says nothing of what is on its way to the disk, so it is not inductive.
`IInv` was checked by TLC on instances like that of the run before it was proved. It has,
besides types (`TypeInv`):

* `Control`: what may be on the stack `then` at each label, and what is in the buffer there.
* `Numbers`: the LSNs in the ring are those behind the ones popped, the entry being
  packed is the last of these, and neither `max_flushed_lsn` nor `max_lsn` is ahead of
  what was put into blocks in full (`Finished`).
* `Advanced`: no copy of `min_lsn`, in memory, in the manifest or in a header, is beyond
  what callers gave up. So a rotation that is removed had nothing needed.
* `Synced`: all but the last rotation are synced, and the last one too unless it was just
  written. So a crash cuts the last file alone.
* `Manifest`: what the manifest is like after each step and each crash. While its first
  entry is not synced nothing was appended (`Beginning`), which is why an empty log and
  one that lost everything look different.
* `Log`: of the *stream*, the parts in the files followed by those in the buffer while
  they are not in the file yet. LSNs do not go back in it and names separate them
  (`Ordered`, `Ascending`, `Named`); headers name the last LSN of their block
  (`Headers`); what is new comes behind all that is there (`Behind`); what is not synced
  was not reported, and what was is not beyond the last synced header (`Acked`); and of
  each entry that is needed and not torn as much is there as was packed, each part where
  the one before ended (`Whole`, `Tiled`).

`Manifest` and `Log` are claimed only as long as `faults` is empty, which is the condition
of the properties. The stream makes most steps short: a write moves blocks from the
buffer to the file and leaves the stream alone, so does every step on the way to it
(`LogElsewhere`), a part is put behind the others (`LogPut`), a crash cuts the end off
(`LogCut`), and a removal takes the front (`LogRemove`, `TailTiled`). Sums are avoided: that
an entry is complete is said by where each part begins and ends, not by adding up.
`NoReuse` comes from `Reopened`: what `restore_lsn` finds in the last header of the last
rotation is the last LSN of the stream, and not below `acked`; a rotation that was just
switched to and is empty is refused (see `SwitchReopens` in the findings).

`ReadBack` needs one more invariant, `Openings`: a header names the first entry of its
block, a first or middle part is never empty, and a block that is empty so far and has
room names the entry that comes into it. From it and `Log` it follows that names and headers lead to the block
where an entry begins, and that what is read from there is every part of this and later
entries and nothing else (`ReadsAll`). `Reading`, the iterator after each part, is a
recursive function over places; that it exists is proved from a place without earlier
place at which it fails (`ReadingTurns`). That each part is the one the iterator expects
(`ReadsInOrder`) is proved in the same way: at the first part where it does not hold, the
part before is the one the tiling of `Whole` names (`ReadsFirst`, `ReadsNext`).

**Configuration of the async log.** `WalAsyncProofs` proves `BlocksFit` for any limits
that are powers of two in the order of the code's, any configurations callers ask for,
and any number of writers and readers (`ConfigAssumption`, `SizesAssumption`). That a
crash happens while the file is written over, that a longer text stays behind a shorter
one, and that tasks of writers stopped long ago still write, is what makes it hard. The
invariant `IInv`:

* `Configured`: the two sizes in the file are legal as soon as they are there, even if the
  file does not parse; what is about to be saved has the block size of the file, if the
  file has one; and so has the instance. Its proof is arithmetic: what `sanitize` makes
  of any numbers is legal (`SanitizedFits`), and a legal block size it leaves alone, which
  is why a change of the other sizes cannot move it.
* `FilesOk`: all blocks on disk have the block size of the file. While there is none,
  no block is on disk and no task runs.
* `TaskInv`: each task that runs has this block size, and so have the blocks in its
  buffer. To follow a task through its calls, `Returns` says for each place to which
  places it may have to go back; without it a task could go on anywhere.
* `OpeningInv`: nobody holds an instance that was not configured, tasks not yet made are
  as at the start, and only the newest task is being opened, while a call waits for it.

`SyncProofs!TypeCorrect`, `Quiescence`, `Attempts` and the like prove type
invariants, that nothing is lost in a quiescent ring, the number of attempts of
`try_lock`, and the inductive invariants themselves; no run states these.

Only model-checked:

* Liveness: `EveryClaimServed`, `WaitersGoOn`, `AdvanceEnds`, `CallsReturn` and
  `AppendedPersists` rest on fairness, which is out of the prover's reach.
* Of `LockFreeList` the refinement `ImplementsSet`: that an answer held at a moment of
  its call, also one found by way of nodes that were removed since.
* `WalAsync`: `KeptOnce` and `StreamsWhole`. Both need where every entry is while two
  tasks write, remove and switch the same files at once, each from names it listed
  earlier: an invariant like that of `WalProofs`, for two writers.

## 5. Not modelled, and the plan

Not modelled and not planned: `src/io.rs` (the operating system's part),
`src/lib.rs`, the empty modules, encodings and checksums of `src/wal.rs`, the registry
of epoch slots as a data structure, the wrappers of the lock-free set.

The sync appender does what `RotAppender` models, with an error in place of a dropped
future; the sync log saves its configuration as `WalConfig` says.

Order of the plan; all but the last item are done.

1. `RingBuffer` with `BoundedFifo`: what all callers of the log share. Proved.
2. `SpinLock`. Proved.
3. `EntryRef`: the protocol on one node. Proved.
4. `EpochReclaim`: when nodes may be freed. Proved.
5. `Wal`: the flushing thread, crashes, restoring and reading. Proved.
6. `OrdinaryMap`, refining `OrderedMap`, and `SkipListSets`. Proved.
7. `LockFreeList`, refining `ConcurrentSet`. Its invariants are proved.
8. `Rotation` and `RotAppender`. Proved.
9. `WalConfig` and `WalAsync`. That the configuration fits the data is proved.
10. Further proofs: of `LockFreeList` the refinement, whose steps are those of level 0;
    of `WalAsync` that what an instance reported is kept and streamed whole.
