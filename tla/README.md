# Verification of lfqueue

TLA+ models of the lock-free queues of the Rust crate `lfqueue`, the TLC runs
that check them on small instances, and theorems about them that TLAPS checks
for every value of the constants. Source lines are those of `src/scq.rs`,
`src/lfstd.rs` and `src/single.rs` of the crate.

## 1. The system

| component | state | operations |
| --- | --- | --- |
| `ScqRing` (scq.rs) | `head`, `tail` (ticket counters), `threshold`, `is_finalized`, the array of words | `enqueue`, `dequeue`, `catchup`, `finalize` |
| word encoding (scq.rs) | none | `modup`, `lfring_map`, `lfring_signed_cmp` |
| `BoundedQueue` (scq.rs) | a free ring, an allocation ring, the backing cells, the counter `used` | `enqueue`, `enqueue_cycle`, `dequeue`, `drop` |
| construction (scq.rs, lfstd.rs) | none | `new_const`, `const_queue!`, `determine_order`, `AllocBoundedQueue::new` |
| `UnboundedQueueInternal` (lfstd.rs) | `head` and `tail` pointers, a list of segments (`LscqNode`: a finalizable `BoundedQueue` and `next`) | `enqueue`, `dequeue`, `drop` |
| `UnboundedQueue`, handles (lfstd.rs) | hazard pointers | the same, through hazard pointers |
| `CountedUnboundedQueue` (lfstd.rs) | `length` | `enqueue`, `dequeue`, `len`, `is_empty` |
| `SingleSize` (single.rs) | an atomic `state`, the `payload` cell | `enqueue`, `dequeue`, `drop` |
| `haphazard` (external crate) | hazard pointers, retired objects | `safe_load`, `retire_in` |
| `atomics.rs`, `lib.rs`, errors, fuzz targets, benches, examples | none of the library's | |

How they interact. All threads share a queue and call it directly; nothing
blocks and there are no messages, timeouts, callbacks or persistent state. A
`BoundedQueue` takes an index from its free ring, writes the cell of that
index, and puts the index into the allocation ring; a dequeue goes the other
way. Neither the rings nor the cells know who has an index: exclusive access to
a cell is exactly the correctness of the two rings. An unbounded queue is a
linked list of finalizable bounded queues; a dequeue that finds a segment empty
refills the `threshold` of its ring, tries again, and moves on. Hazard pointers
keep a segment in memory while somebody works on it.

What is hard. Everything is in the interleavings of single atomic accesses: a
word is loaded, examined and exchanged several accesses later; tickets are
skipped and slots are closed by dequeues that came too early; `catchup` writes
an old `head` into `tail`; the `threshold` is tested, subtracted from and
restored without any order between these; `used` contains calls that are about
to fail; a segment is filled, refused, linked behind, drained and left by
different threads at once; in `SingleSize` the memory orderings carry the
payload. There are no failures other than refused calls and spurious failures
of `compare_exchange_weak`. PROJECT.json lists these hazards at their lines.

What makes each component correct:

* ring: an index is in one place; none is left behind where no dequeue looks;
  tickets are not reused; the order is FIFO; `None` means empty; every call returns;
* words: the bit operations decide what the numbers they stand for would, also
  where these wrap around;
* construction: a queue that is constructed works;
* bounded queue: cells are written when empty and read when full; no index and
  no capacity is lost on any path; a closed and drained queue stays empty;
* unbounded queue: FIFO across segments; no element is added to a segment that
  dequeues have left; a retired segment is not reachable; memory is freed once;
* counted queue: the length covers the elements;
* single-element queue: exclusive and ordered access to the payload.

## 2. Modules

| module | what it is |
| --- | --- |
| `ScqRing` | the ring, one action per atomic access of `enqueue`, `dequeue`, `catchup`; its properties |
| `ScqRingInv` | the inductive invariant `IInv` of the ring |
| `ScqRingProofs` | its proof, and the theorems about the ring |
| `ScqRingReach` | the invariants that say why the threshold is enough: `ReachInv`, and `ClosedInv` for finalized rings |
| `ScqRingReachProofs` | their proof, and the theorems about the answer `None` |
| `IndexQueue` | the abstract specification: a FIFO queue with concurrent operations |
| `ScqRingFifo` | the refinement mapping from the ring to `IndexQueue`, with history variables; what the unbounded queue relies on |
| `ScqRingFifoInv` | what the calls in progress know, the invariant `CallInv` behind the refinement |
| `ScqRingFifoProofs` | its proof, and the proof that the ring implements `IndexQueue` |
| `RingOrder` | sizes and orders, as the constructors compute them |
| `RingWord` | words of `Width` bits, and the operators of the code on them |
| `ScqRingWord` | every word formula of the ring against the ring's own state |
| `ConstRing` | the free ring of a fresh constant queue of any accepted size, on words |
| `BoundedQueue` | `enqueue_cycle`, `dequeue` and `drop` over two abstract index rings |
| `BoundedQueueInv` | the inductive invariant of the bounded queue |
| `BoundedQueueProofs` | its proof, and the theorems about the bounded queue |
| `ItemQueue` | the abstract specification: a FIFO queue of items with a capacity |
| `BoundedQueueFifo` | the refinement mapping from the bounded queue to `ItemQueue` |
| `BoundedQueueFifoProofs` | the proof that it is one |
| `BoundedQueueFull` | `BoundedQueue` with a history variable for the meaning of `QueueFull` |
| `UnboundedQueue` | the list of segments, the pointers, hazard pointers, the length |
| `UnboundedFifo` | the refinement mapping from it to `IndexQueue`, and its properties |
| `UnboundedRounds` | `UnboundedQueue` with history variables that count how often a call goes around |
| `UnboundedInv` | the inductive invariant of the unbounded queue, and `CallInv`, what the calls in progress know |
| `UnboundedProofs` | the proof of the first, and the theorems about the unbounded queue |
| `UnboundedFifoProofs` | the proof of the second, and the proof that the unbounded queue implements `IndexQueue` |
| `SingleSize` | the single-element queue, with the happens-before knowledge of its threads |
| `SingleSizeProofs` | its inductive invariant and theorems |
| `MC*` | instances, symmetry, and the specification that may stop at the bounds |

How they compose: `ScqRing` is shown to implement `IndexQueue`; `BoundedQueue`
uses two rings through what `IndexQueue` promises, and is shown to implement
`ItemQueue`; `UnboundedQueue` uses segments through what `BoundedQueue` shows
(`FifoSpec`, `FullIsClosed`, `StaysEmpty`, `RestExact`) and what `ScqRingFifo` shows of the ring inside (`Drained`,
`RefillFinds`), and is in turn shown to implement `IndexQueue`, with items for
indices. The composition is by these contracts; no run has all layers at once.

One clause runs through all of them. The threshold of a ring withstands `capacity
+ 1` dequeues at a time; with more of them it may fall below zero in front of
settled indices, which scq.rs:332 then takes for an empty ring (run
`ring_stranded`). On the free ring there are never more than `capacity`
(`FreeGated`). On the allocation ring their number is the clients': a shape of
`BoundedQueue` and a start of `UnboundedQueue` has a bound `dequeuers` on the
dequeues in progress, and `Crowded` says that it is more than `capacity + 1`. Then
`None` is a possible answer of a segment at any time (`DeqAlloc`, `MayMiss`), `drop`
may end early (`DropQueue`), and a refilled segment promises nothing. What depends
on the answer `None` is stated under `~Crowded`: `FifoSpec`, `DropsAll`,
`QueueFifo`, `LeftEmpty`, parts of `CallInv` and the exactness of the length at
rest; everything else holds in a crowd too. A dequeue of the model is in progress
from its call to the step in which it takes effect or, in `UnboundedQueue`, returns;
that is at most as long as the call of the code, so a program that keeps to the
bound is among the behaviours without a crowd.

### ScqRing

The variables are the fields of the struct and, for each thread, a program
counter that names its *next* atomic access and the locals that live across it:
`ticket` (the result of the `fetch_add`), `entry` (the word loaded last),
`eidx`, `attempt`, and `seen` (the arguments of `catchup`). Between two
accesses a thread does nothing the others can see, so everything up to the next
access belongs to the action.

    e_tail  tail.fetch_add                 EnqTail      d_thr   threshold.load < 0      DeqThr
    e_load  array[..].load, comparisons    EnqLoad      d_head  head.fetch_add          DeqHead
    e_head  head.load of an unsafe slot    EnqHead      d_load  array[..].load          DeqLoad
    e_fin   is_finalized.load (MODE 1)     EnqFin       d_or    fetch_or, Some(index)   DeqOr
    e_cas   compare_exchange_weak          EnqCas*      d_cas   compare_exchange_weak   DeqCas*
    e_thr   threshold.load                 EnqThrLoad   d_tail  tail.load               DeqTail
    e_thw   threshold.store                EnqThrStore  c_*     catchup                 Catch*
                                                        d_none  fetch_sub, None         DeqNone
                                                        d_sub   fetch_sub, again        DeqSub

A word is a record of its cycle, its safe bit and its index (`Bot`, all bits
set, for none); a ticket selects the slot `ticket % N` and the cycle
`ticket \div N`. The comparisons of the code translate as follows: `ecycle ==
hcycle` to equal cycles, `entry == ecycle` to "safe and free", `entry == ecycle
^ n` to "unsafe and free", `(entry | n) != ecycle` to "occupied",
`entry_new` to `Blocked`. `ScqRingWord` checks this translation. The variable
`pool` is the part of the client that the ring relies on: the indices outside
this ring. It only restricts *which* index is enqueued. `MaxAttempt` stands for
the constant 10 in the code. `Finalize` and `Refill` are what the unbounded
queue does to a ring.

### RingWord, ScqRingWord, ConstRing

`RingWord` has the functions of the code on numbers of `Width` bits. In
`ScqRingWord` a *base* is a number of operations the ring has seen before:
ticket `k` of the model is the word `(base + k) % 2^Width`, and an entry is the
word that the code would have stored for it. `WordsAgree` evaluates, for every
thread about to make an access, what the code computes from these words (is the
slot older, is it free, may it be used, which word is written, has tail reached
head) and compares with what the action of `ScqRing` decides. With bases just
below `2^Width` and `2^(Width-1)` the tickets or the cycles wrap around within
the run. It also compares the arrays and counters the constructors write with
`Init`.

`ConstRing` looks at sizes for which the array and the ring do not fit, where
the record view of `ScqRing` does not apply: one thread dequeues from the free
ring of a fresh queue, on words.

### IndexQueue and ScqRingFifo

`IndexQueue` says what a thread that calls a ring may see. Its enqueue takes
effect when the index appears in the queue, behind all indices whose enqueue had
returned when this one was called; a dequeue claims the first index, or answers
`None` if at some moment of the call no index whose enqueue has returned was in
the queue; a closed queue refuses the enqueues called since. In the refinement an
index is claimed at the moment the `fetch_add` on `head` passes its ticket.

Three more history variables serve the unbounded queue. `Drained`: once a
dequeue went through a finalized ring without success (or answered `None` after
a refill), nothing can be dequeued from it any more. `RefillFinds`: a dequeue
called after the refill of a finalized ring answers `None` only if the ring held
no index at some moment of the call, although an enqueue that is under way has
not restored the threshold. Both need the ring to be finalized: in an open one,
dequeues that keep spoiling the slot of one enqueue wear the refilled threshold
down again before it gets in.

### BoundedQueue

Uses the rings through their abstract promise, in one step each where an
operation takes effect; an index appended by an enqueue that has not returned
bears the name of its thread until it does, because a dequeue may still answer
`None` then. An insertion anywhere behind the older settled indices, as
`IndexQueue` allows, is the same as an append at an earlier moment. The
remaining actions are the accesses to `used`, to the cell of an index and to
the flag of the allocation ring. A shape says the capacity, whether the
queue is a segment, that is whether the calls are `enqueue_cycle::<true>`, and
whether it is a segment that an enqueue has linked. Such a one begins with the item
that `enqueue::<false>` put into it (lfstd.rs:223-226), which does not finalize it:
if it has one slot only it is full from the start and open (`FullAtFirst`), which
`FullIsClosed` excepts. A
refused enqueue and a dequeue give the index back with the same three accesses,
which are modelled once. `DropQueue` is the loop of `drop`, which nobody can
interleave with.

`ItemQueue` says what the callers may see. An enqueue is in one step admitted,
refused because the queue is closed, or told that it is full, and an admitted
item is in one later step at the end of the queue; a dequeue takes the first
item, or answers `None` when every item present is one whose enqueue has not
returned. Full is as much as the counter can know: the items in the queue and
the other calls that have an item in hand fill the capacity. In
`BoundedQueueFifo` the queue of items is the allocation ring with the cells its
indices name, and a thread has its item in its own variable or in the cell of
its index. That the mapping is a FIFO queue of *items* therefore says that no
cell is overwritten while its index is on its way through the two rings, and
that the item a refused enqueue reads back from the cell is its own.

### UnboundedQueue and UnboundedFifo

Nodes are linked once and never unlinked, so the nodes that were ever in the
list are a sequence, a pointer is a position in it, and `next` is null exactly
at the end. A segment is a record: the items in it in order, whether it is
closed, whether its threshold was refilled since, its counter `used` and the
number of its free indices. The accesses of `enqueue_cycle` to these are the
actions of `BoundedQueue` without the cell; `LscqNode::new` with its first item
is private until it is linked and belongs to `EnqLink`.

    e_tail  tail.safe_load               d_head   head.safe_load
    e_next  next.load, move tail on      d_try    dequeue of the segment
    e_used .. e_final, g_*  enqueue_cycle::<true>     d_next   next.safe_load, refill of the threshold
    e_link  next.compare_exchange        d_again  the second dequeue
    e_fix   tail.compare_exchange        d_move   head.compare_exchange, retire_in
                                         d_used, d_free  dequeue of the segment, d_len  length.fetch_sub

`cur` is the node a thread's hazard pointer protects; `Reclaim` frees a retired
node that none protects, at any time. `DropQueue` frees the list from `head` on
once all threads are outside; which nodes these were is kept in `dropped`, apart
from the `freed` ones of the domain, so that `NoLeak` can say that the two have none
in common. `Miss` is `None` from a segment: allowed while no
item in it is settled, and after a refill only while it holds none at all; the
insertions under way then have to look at the flag again (`Drained`). In a crowd it
is allowed at any time.

A queue starts fresh or as a single thread has filled it (`Filled`), so that
lists of several segments are reached within the bounds.

The queue of items that `UnboundedFifo` shows to `IndexQueue` is defined as that of
the ring is, by places: the items from `head` on (`Reachable`) are ordered as pairs,
within a segment by its own order and before all items of later segments (`Order`),
and the item at place `j` is the one that `j - 1` others precede.

`spilled` in `UnboundedFifo` records that an open segment got a successor while
another enqueue was at work in it. From then on the code can lose an item
(section 4, `lscq_lost`). `Promised` is that this has not happened and that
dequeues do not crowd; `QueueFifo` and `LeftEmpty` are the promise up to
there, and these two the only reasons the code gives to break it. `HeadKept`, `TailLag`,
`Protected`, `NoLeak`, `LockFree` and the bound of `LengthCovers` hold in any case.

`UnboundedRounds` counts, for each call, how often it went around its loop
(`rounds`), and keeps what it is measured against (`since`): the end of the list when
an enqueue was called, `head` when a dequeue was. `LockFree` bounds the rounds by what
others have done to the list since. It is a matter of the help in `EnqNext`: without
the exchange of `tail` at lfstd.rs:193-206, an enqueue whose `tail` lags behind the
end of the list would go around as often as it likes until the enqueue that linked
the node moves on.

### SingleSize

The accesses to `state` act on its latest value. What `Relaxed`, `Acquire` and
`Release` do to the payload, an ordinary cell, is kept as knowledge: for every
thread, whether the last write and the last read of the payload happen before
its next step (`saw`), and which of them an Acquire of the current state learns
(`carried`). A Release store publishes the knowledge of its thread, a Relaxed
read-modify-write continues the release sequence and learns nothing.

## 3. Runs

All runs but `const_sizes` allow stuttering only where the bounds stop the
threads, or where the queue was dropped, so that a deadlock would be reported;
`const_sizes` is a single thread that stops. Symmetry is used for threads (and
messages) except where liveness or a nested temporal formula is checked.

| run | instance | shows |
| --- | --- | --- |
| `ring_small` | capacity 1, finalizable, 3 threads, at most 2 dequeues at a time, 6 calls, 1 re-read, words of 7 bits, 3 bases | `TypeOK`, `NoOrphan`, `NegativeMeansEmpty`, `ThresholdFloor`, `TicketsFresh`; `Drained`, `RefillFinds` and their invariant `ClosedInv`; `WordsAgree` |
| `ring_two` | capacity 2, full, finalizable and refilled, 3 threads, at most 2 dequeues at a time, 5 calls (2 of them alone), words of 7 bits, 1 base | `Ownership`, the inductive invariants `IInv`, `ReachInv` and `CallInv`, the ring implements `IndexQueue` (`FifoSpec`), with the order of two indices, `WordsAgree` |
| `ring_stranded` | capacity 1, 4 threads, 3 dequeues at a time, 6 calls | `NegativeMeansEmpty` is violated |
| `ring_live` | capacity 1, full, finalizable and refilled, 2 threads, 4 calls, fair | `Termination` |
| `segment` | capacity 1 not finalizing (8 calls), segments of 1 (6) and of 2 (5), linked segments of 1 (5) and of 2 (4), with at most 2 or 3 dequeues at a time as the threshold allows, and capacity 1 with 3 of them, a crowd (5); 3 threads, 2 items | the bounded queue implements `ItemQueue` (`FifoSpec`); `TypeOK` (no underflow of `used`), `OnePlace`, `Initialized`, `FreeGated`, `RestExact`, `FullIsClosed`, `DropsAll`, `StaysEmpty`; the inductive invariant `IInv` |
| `bounded_full` | capacity 1, 3 threads, 2 items | `FullWhenFull` is violated |
| `single` | 3 threads, 2 messages, 7 calls | `Exclusive`, `Initialized`, `Settled`, `ReadAfterWrite` |
| `single_race` | 3 threads, 2 messages, 4 calls | `NoRace` is violated |
| `lscq` | 3 threads; fresh with segments of 1 and of 2 (5 and 4 calls); three segments and 3 calls; one producer and 5 calls; 3 enqueues at a time on a full segment of 1 (3 calls); a crowd of 3 dequeues on segments of 1 (3 calls) | `TypeOK`, `QueueFifo`, `LeftEmpty`, `HeadKept`, `Protected`, `NoLeak`, `LockFree`, `LengthCovers`; the inductive invariants `IInv` (with `TailLag`) and `CallInv` |
| `lscq_lost` | fresh, segments of 2, 3 threads, 5 calls | `NothingAdded` is violated |
| `lscq_retired` | the same | `NeverLoaded` is violated |
| `const_sizes` | sizes 1 to 10, words of 10 bits | `FreshQueueFills` is violated |

Bounds. A ring of capacity 1 has two slots and one index: the tickets of five or
six calls go around it several times, so that slots are reused in later cycles,
closed, marked unsafe and caught up with; capacity 2 adds the order of two
indices. Three threads are one more than any pair of accesses needs; a fourth
one matters only for the threshold. `MaxAttempt` 0 or 1 instead of 10 lets a
dequeue give a slot up sooner, which the other threads cannot tell from having
waited. `MaxCalls` bounds the behaviours, `MaxDequeuers` the dequeues in
progress, `ClosedCalls` the calls made by the time a ring is finalized and in all
of a behaviour in which it is, `RefillCalls` those before a ring that is still
open is refilled (`ring_small` refills finalized rings only, `ring_two` both).
With `AloneCalls` the first calls of `ring_two` do not overlap: they only bring the
full ring into one of the states of a ring in use, in which three threads then
race. `Width` and `Bases` are chosen so that words wrap within a run: of 7 bits,
tickets from 124 on reach 0, and their sign changes from 60 on; cycles, one bit
shorter since a ticket is shifted, wrap from 60 and 124 on, and their sign changes
from 28 on. For an unbounded
queue, three segments are the fewest of which `head` can leave two while `tail`
is elsewhere; `enqueuers` bounds the enqueues in progress, and 1 is the
single-producer queue, for which `Protected` is said of enqueues too. `dequeuers`
bounds the dequeues in progress: a crowd on a ring of capacity 1 takes three.
Three enqueues at a time are what it takes to lose a link to one and find the
`tail` of another.

Fairness. `Fairness` of `ScqRing` is weak fairness of each thread inside a call
(a preemptive scheduler runs it again) and strong fairness of its successful
compare_exchanges, which excludes only that a weak compare_exchange fails
spuriously for ever. Calls are not assumed to happen. The bound on the calls is
part of what `Termination` says: the operations are lock-free, not wait-free,
and return once no new calls arrive. For the unbounded queue the same is said as
an invariant: `LockFree` bounds the rounds of a call by the segments that others have
linked or left since it was called; with boundedly many calls no loop is endless,
and while the list stays as it is a call goes around once at most.

## 4. What the violated properties show

* `ring_stranded`. `enqueue` reads the threshold, finds its maximum and stores
  nothing (scq.rs:294). Three dequeues that had taken tickets before it, and
  found nothing, then subtract 1 each: from 2 to -1 on a ring of capacity 1. From
  now on every dequeue answers `None` at scq.rs:332 although the index is there,
  and a bounded queue of capacity 1 is empty and full for ever. It takes more than
  `capacity + 1` dequeuers at a time (`NegativeMeansEmptyCorrect`), so three are the
  fewest here; on a larger ring the dequeues that find nothing between `head` and
  the index subtract as well. The free ring of a
  bounded queue is protected by `used` (`FreeGated`: at most `capacity` dequeuers);
  the allocation ring is not.
* `bounded_full`. An enqueue that failed has not subtracted from `used` yet, a
  dequeue empties the queue, and a new enqueue is told `QueueFull`.
* `lscq_lost`. That answer has a consequence in the unbounded queue. `QueueFull`
  from the counter does not finalize the segment (scq.rs:701-705), but
  lfstd.rs:216 treats every error alike and links a new segment. Dequeues empty
  the old one and move `head` past it, and an enqueue that was still under way in
  it finds the flag unset and completes there. Its item is never dequeued, and
  dropped with the segment.
* `lscq_retired`. Between the exchange that links a segment and the one that
  moves `tail`, a dequeue can move `head` over the old segment and retire it.
  `tail` still points to it then, and the next enqueue loads it, against the
  contract of `retire_in` quoted at lfstd.rs:321-326. `Protected` says what is
  left: dequeues, and the enqueues of a single producer, never work on freed memory.
* `const_sizes`. `const_queue!` and `new_const` accept every even size. For size
  6 the array has twelve words and is filled with masks for twelve, while the ring
  has order 2 and uses eight: the first enqueue on a fresh queue is refused.
* `single_race`. `EMPTY` is stored with Release after the payload was read, but
  the writer's compare_exchange is Relaxed: it is exclusive in time, and yet not
  ordered after the read by the memory model.

## 5. Proofs

`ScqRingProofs` proves, from the assumptions `RingAssumption` and
`ThreadsAssumption` (finitely many threads, any capacity, mode, bounds), that
`IInv` is inductive and hence `TypeOK`, `Ownership`, `NoOrphan`, `TicketsFresh`
and `ThresholdFloor`.

None of these is inductive alone. `IInv` adds what a thread still knows about a
word when it writes it:

* `TicketsOk`: dequeues at work on a slot have different tickets behind `head`;
* `SlotsOk`: a free slot in cycle `c` was left by the dequeue with that ticket;
* `DequeueOk`: the entry a dequeue is about to take is still there, with the same
  index: only the dequeue with its ticket could have taken it;
* `EnqueueOk`: the word an insertion examined has not gone back; if it is in the
  same cycle it is free still. So the compare_exchange has no ABA problem;
* `ClosedBehindHead`: a dequeue that gave up its slot left it with its cycle or
  a later one, or unsafe;
* `InsertInTime`: an insertion whose compare_exchange can succeed is not late. At
  `e_fin` or `e_cas` with an unsafe entry `head` was not past the ticket, and a
  dequeue that has passed since must have changed the word;
* `CatchupOk`: `catchup` stores a past `head`, and compares with a `tail` below it.

`NoOrphan` then follows for an insertion from `InsertInTime`, and for a dequeue
from `ClosedBehindHead`. `ThresholdFloor` needs a counting argument of its own:
the threshold plus the number of threads that have tested it and not subtracted
yet does not fall below zero.

`ScqRingReachProofs` proves that the threshold is enough, for any capacity and any
number of threads and calls, if at most `capacity + 1` of them dequeue at a time
(`FewDequeuers`). The code does not enforce this for the allocation ring, and
`ring_stranded` shows that the bound is exact for capacity 1. `NegativeMeansEmpty`,
`Drained` and `RefillFinds` follow, from two invariants that see the ring as a set of
indices at tickets:

* `Issued`: every ticket behind `tail` is used by one enqueue, for one index;
* `Spread`: on an open ring `tail` stays within `2 * capacity - 1` of `head`. Every
  ticket an enqueue takes from `head` on is in use or was given up, and one is given
  up only because the slot still holds an index that a dequeue has claimed and not
  taken out. That index has no ticket from `head` on itself, and can be such an
  obstacle once. So the tickets from any `x` on are fewer than the indices that have
  a ticket from `x` on (`Ahead`) and those that have one, have none, or are an
  obstacle (`Credit`), each of which is at most `capacity`;
* `Near`: an index is therefore inserted at most `2 * capacity - 2` behind `head`,
  also by an enqueue that passed the flag before the ring was finalized, while the
  tickets of refused enqueues have no bound;
* `Enough`: the threshold is at least the dequeues that are going to subtract
  (`Owing`) and the distance of `head` to any index whose enqueue has returned. An
  enqueue that returns has seen or stored `3 * capacity - 1`, which is
  `(capacity + 1) + (2 * capacity - 2)`; a `fetch_add` on `head` adds at most one
  debt and takes one ticket off the distance, and a subtraction pays one.

`ClosedInv` says the same of the tickets that are `Due` on a finalized ring: none
becomes due any more, so after a refill an answer `None` means that there is none.
The lemmas first say what each action does to this view of the ring
(`ChangesStep`), and the invariants are proved from that.

`ScqRingFifoProofs` proves, with the same bound on the dequeues, that the ring
implements `IndexQueue` (`FifoCorrect`). The mapping does not sort the slots: the
index at place `j` of the queue is the one at the ticket that `j - 1` others precede
(`Rank`, `Nth`), so that an insertion and a claim are facts about finite sets of
numbers (`SeqOfInsert`, `SeqOfTail`). The third invariant, `CallInv`, is what the
calls in progress know of the queue:

* `OwnTicket`: the ticket of an insertion is never used again, and its index is there
  until `head` has passed it. The mapping can therefore tell from the slot whether
  an enqueue that is about to return was already served;
* `Overtaken`: the indices that were enqueued when an enqueue was called are at
  tickets before the one it takes. Its index is inserted behind them, and if `head`
  has passed its ticket there are none left;
* `LateRefused`: an enqueue called on a finalized ring fails at the flag;
* `MetEmpty`: a dequeue that found `tail` behind its ticket has met a ring without
  settled index. With `Enough`, this justifies every answer `None`.

Each action is then one step of `IndexQueue` or changes nothing it shows: the
`compare_exchange` of an enqueue is `Insert` if `head` has not passed its ticket,
and else `HandOver` to the dequeue that `NoOrphan` says is waiting; the `fetch_add`
on `head` is `Claim` if there is an index at this ticket; the other steps are the
calls, the returns, and steps that are `Unseen`.

`SingleSizeProofs` proves `Exclusive`, `Initialized`, `Settled` and
`ReadAfterWrite` for any number of threads, messages and calls. Its invariant
adds that `WRITING` and `READING` are the states of a thread in progress, that
the cell agrees with the progress of this thread, and that the knowledge of the
last write passes from the writer through `READY` to the reader.

`BoundedQueueProofs` proves all properties of the run `segment`, `StaysEmpty`
included, for any capacity, any number of threads, items and calls, and for
queues and segments alike, fresh or linked, crowded or not (`DropsAll` says what it
says of those that are not), from `QueueAssumption` and `ThreadsAssumption`. Each
property alone fails to be inductive, because it speaks of states at rest or of
one place at a time. `IInv` says what holds in between:

* `Apart` and `Covered`: every index is in exactly one place, where a thread
  between two rings is a place too. `OnePlace` counts these;
* `Carrying`: an enqueue has its item until it writes it, so that `Initialized`
  holds of what it writes;
* `Balanced`: the counter is exact at every moment if the calls under way are
  counted, and so are the two rings. `TypeOK` (no underflow), `RestExact` and,
  with the test of the counter, `FreeGated` follow;
* `LastSlotSeen`: once all slots of an open segment are spoken for, an enqueue
  under way has seen that its slot is the last. `FullIsClosed` follows, since at
  rest there is none;
* `StaysEmpty`, a temporal formula, is proved with a smaller fact that a step
  preserves: a ring that is closed and empty, in which nobody is between the test
  of the flag and the insertion, stays so.

`BoundedQueueFifoProofs` proves that the bounded queue implements `ItemQueue`
(`FifoCorrect`) if no more than `capacity + 1` dequeues are made at a time, one case
per action, by two more conjuncts of `IInv`:

* `Written`: between its write and its insertion an enqueue finds its own item in
  the cell of its index. With `Apart`, which keeps others away from that cell, the
  insertion appends that item, and a refused enqueue reads it back;
* `Signed`: an entry that bears a name belongs to a call that is about to return.
  Entries that are given back to the free ring and not settled are therefore as
  many as threads at `g_settle`, by a pigeonhole argument on their names, and an
  empty-looking free ring means that the items and these threads, together with
  those that possess an index, fill the capacity (`RingFull`). A counter at the
  capacity means the same by `Balanced` (`CounterFull`).

`UnboundedProofs` proves `TypeOK`, `HeadKept`, `TailLag`, `Protected`, `NoLeak`,
`LockFree`, `LeftEmpty` and `LengthCovers` for any list, number of threads and calls, and in
addition `LengthCounts`: the length is exactly the number of items in the
segments and with the calls under way. The theorems are about `HSpec`, whose
history variable `spilled` occurs in `LeftEmpty` and `QueueFifo`, and `LockFree` is
one about `RSpec`, which adds the counts of rounds. The assumptions are
`UnboundedAssumption`, `ThreadsAssumption`, and `CapacityAssumption`: what
`determine_order` makes of an accepted size is a power of two and not zero. It
has a name of its own because exponentiation and the `CHOOSE` of a logarithm are
beyond the provers; TLC evaluates it. The argument:

* `Pointers`: once a thread has loaded `head` or `tail`, that pointer never falls
  behind the node it works on. `TailLag` and `HeadKept` need it, and
  `Protected` follows with `FreedRetired`: a node that a dequeue protects is not
  freed unless it was before, and what `head` points to is not retired. For a
  single producer `Sole` says that it finds `tail` at the end of the list. `NoLeak`
  follows from `HeadKept`: the nodes before `head` are the domain's, and no others;
* `OneSegment`, `HeldApart`, `Numbered`, `SettlesHere`: an item is in one
  segment, once, or with one thread; so a step takes away or adds one item;
* `Balanced`: the counter and the free indices of each segment stand for its
  items and the threads at work in it, and `Counted` the same for `length`;
* `RefilledClosed`, `PassedClosed`, `RetriedRefilled`, `GivenUp`: unless a segment
  was left open to an insertion (`spilled`), a segment with a successor is closed
  or has no insertion under way; one whose threshold was refilled is closed, and
  then a second failure means that it is empty and that no insertion is past its
  last look at the flag, unless dequeues crowd. `LeftEmpty` is what `GivenUp` says of
  a retired segment. Once `spilled` it is false (`lscq_lost`);
* `GoneAround`: whoever goes around again has met a node with a successor, or a `head`
  that moved. That alone does not bound the rounds: the node could be the same each
  time. `RoundsInv` does, by what is `Owed` to the node that `tail` points to, or that
  an enqueue has loaded: each node that was linked since its call costs it at most two
  rounds, one to lose the race for the link and one to move `tail` on, and a `tail`
  that lagged behind at its call, by one node at most (`TailLag`), costs one. Since an
  enqueue that meets a successor moves `tail` on itself, or finds that it has moved, it
  never pays for the same node twice.

`UnboundedFifoProofs` proves that the list of segments implements `IndexQueue`
(`FifoCorrect`, the property `QueueFifo`), from the same assumptions. That an item is
in one place makes `Order` a strict total order on `Reachable` (`ItemsSorted`), so
that again an insertion and a claim are facts about finite sets in an order
(`ListedInsert`, `ListedTail`): an item that is appended to any segment from `head`
on comes behind the items of that segment and of the earlier ones, and the first item
of the segment at `head` is the first of all. `CallInv`, proved inductive together with
`IInv` (`CallCorrect`), says why this is the right place:

* `BehindTail`: a segment that `tail` has not come to holds at most the item of the
  enqueue that linked it and that is about to move `tail` on, so nothing whose
  enqueue has returned is behind the segment `tail` points to;
* `Overtaken`: the items that were enqueued when an enqueue was called are still in
  the segment it works on or in an earlier one; before it has loaded `tail`, in none
  behind the segment `tail` points to. An enqueue that inserts into a segment which
  has a successor by then can only get before items whose enqueue overlaps with its
  own;
* `MetEmpty`: a dequeue that has found the last segment empty has met a queue without
  an item whose enqueue had returned. If the segment has a successor it goes on, and
  by `GivenUp` the segment it leaves is and stays empty.

Each action is then one step of `IndexQueue` or changes nothing it shows: `EnqPut` and
`EnqLink` are `Insert`, a dequeue that takes an item claims the first one, since
a segment that `head` has left meanwhile is `Exhausted` and yields none; the answers
are `None` and `Some`; the return of an enqueue is `Done`; moving a pointer on,
closing, refilling and the accesses to the counters are `Unseen`. All this is while
`Promised`, as `QueueFifo` is; after a spill (section 4, `lscq_lost`) or in a crowd
(`ring_stranded`) the code does not keep the promise.

The theorems are about the specifications of the components; the runs check the
same, with a step that stutters where the bounds stop the threads. Since the
provers do not unfold recursive definitions, the invariants and the mappings avoid
them: queues are listed by the rank of their elements, and `Live` and `Reachable` are
sets of items; since no item is in two places they have as many elements.

Every property of the passing runs is stated by a theorem, but for two that are only
model-checked:

* `WordsAgree`: bit operations, which the provers cannot use;
* `Termination`: liveness.

## 6. Not modelled

* Weak memory in the ring: the accesses to its words interleave and act on the
  latest value. `SingleSize` models what orderings do to ordinary memory; the
  ring's own words are all atomic, but the store of the threshold that may pass
  the load of a slot (scq.rs:292), and the visibility of the backing cells
  through Acquire and Release of the ring words, are not modelled.
* The panic of `lfring_signed_cmp` in a debug build when a difference overflows:
  the comparison is the wrapping one of a release build.
* The handles of the unbounded queue that are kept between calls: their hazard
  pointers protect a segment for longer than those of the model. The enqueues of
  several producers on memory that was given back (section 4, `lscq_retired`)
  go on in the model as if the segment were still there.
* `base_segment_capacity`, which reports the requested segment size while the
  segments have the next smaller power of two; `Backoff` and the yield markers.
* The `ManagedUnboundedQueue` that is commented out in lfstd.rs.
* Errors, `Display`, `PartialEq`, fuzz targets, benches and examples have no
  state of their own; the tests in lib.rs are callers.

## 7. Plan

Every theorem that was planned is proved. What is left is the termination of the
unbounded queue's loops under fairness, in addition to `LockFree`: a run, since
liveness is out of the provers' reach.
