---------------------------- MODULE BoundedQueue ----------------------------
(***************************************************************************)
(* BoundedQueue of src/scq.rs: a free ring and an allocation ring of       *)
(* indices, the backing buffer the indices name, and the counter used.     *)
(*                                                                         *)
(* The rings are what module IndexQueue says of ScqRing, with one step     *)
(* where an operation takes effect: an enqueue appends its index and later *)
(* returns (until then the entry bears the thread in "by"); a dequeue      *)
(* claims the first index, or answers None while no index in the ring is   *)
(* settled, that is, every entry is one of an enqueue in progress.  That   *)
(* holds of a ring in which no more than capacity + 1 dequeues are made at *)
(* a time: of the free ring always (FreeGated), of the allocation ring if  *)
(* the clients keep to it.                                                 *)
(***************************************************************************)
EXTENDS Integers, Sequences, FiniteSets

CONSTANTS
  Threads,     \* the threads that share the queue
  Items,       \* what they enqueue
  NoItem,      \* an uninitialized cell
  Nobody,      \* no thread
  Shapes       \* the queues to begin with: the capacity, whether it is a
               \* segment of an unbounded queue (SEAL = 1, and the calls are
               \* enqueue_cycle::<true>), whether it is one that an enqueue
               \* linked, and bounds: the calls that the threads make in one
               \* behaviour, and the dequeues in the allocation ring at a time

ASSUME QueueAssumption ==
  /\ NoItem \notin Items
  /\ Nobody \notin Threads
  /\ Shapes \subseteq [capacity : Nat \ {0}, finalizes : BOOLEAN, linked : BOOLEAN,
                        calls : Nat, dequeuers : Nat]
  /\ \A s \in Shapes : s.linked => s.finalizes

ASSUME ThreadsAssumption == IsFiniteSet(Threads)

VARIABLES
  shape,       \* one of Shapes
  free, alloc, \* the rings, as sequences of entries
  closed,      \* the allocation ring is finalized
  used,        \* the counter of the slots in use
  backing,     \* index -> cell
  pc,          \* thread -> its next step, "idle" outside a call
  item,        \* thread -> the item it enqueues, or has read
  pos,         \* thread -> the index it possesses
  size,        \* thread -> the value of used it saw
  calls,       \* number of calls made so far
  dropped      \* the queue was dropped

queues == <<free, alloc, closed>>
local  == <<item, pos, size>>
client == <<shape, calls, dropped>>
vars   == <<queues, used, backing, pc, local, client>>

\* free_queue.capacity()
Capacity  == shape.capacity
Finalizes == shape.finalizes

\* The items that are in the queue from the start: a segment that an enqueue
\* links holds its item by then, put there by enqueue::<false>, which does not
\* close the segment even if it has one slot only (src/lfstd.rs:223-226).
First       == IF shape.linked THEN 1 ELSE 0
FullAtFirst == First = Capacity

\* The threshold of a ring withstands capacity + 1 dequeues at a time.
Crowded == shape.dequeuers > Capacity + 1

Indices == 0 .. Capacity - 1
NoPos   == -1

\* An entry of a ring.
At(i, t) == [pos |-> i, by |-> t]
Entry    == [pos : Indices, by : Threads \union {Nobody}]

Settled(ring) == {j \in DOMAIN ring : ring[j].by = Nobody}

Stored(ring, i) == \E j \in DOMAIN ring : ring[j].pos = i

\* The enqueue of thread t on a ring returns: its entry, if no dequeue has
\* claimed it in the meantime, is settled.
Settle(ring, t) ==
  [j \in DOMAIN ring |-> IF ring[j].by = t THEN At(ring[j].pos, Nobody) ELSE ring[j]]

Init ==
  /\ shape \in Shapes
  /\ free = [j \in 1 .. Capacity - First |-> At(First + j - 1, Nobody)]
  /\ alloc = [j \in 1 .. First |-> At(j - 1, Nobody)]
  /\ closed = FALSE
  /\ used = First
  /\ \E m \in Items : backing = [i \in Indices |-> IF i < First THEN m ELSE NoItem]
  /\ pc = [t \in Threads |-> "idle"]
  /\ item = [t \in Threads |-> NoItem]
  /\ pos = [t \in Threads |-> NoPos]
  /\ size = [t \in Threads |-> 0]
  /\ calls = 0
  /\ dropped = FALSE

Goto(t, from, to) == pc[t] = from /\ pc' = [pc EXCEPT ![t] = to]

\* The locals of a call go out of scope when it returns.
Return(t, from) ==
  /\ Goto(t, from, "idle")
  /\ item' = [item EXCEPT ![t] = NoItem]
  /\ pos' = [pos EXCEPT ![t] = NoPos]
  /\ size' = [size EXCEPT ![t] = 0]

Call(t, to) ==
  /\ ~dropped /\ calls < shape.calls
  /\ calls' = calls + 1
  /\ UNCHANGED <<shape, dropped>>
  /\ Goto(t, "idle", to)

-----------------------------------------------------------------------------
(* enqueue_cycle(item)                                                     *)

EnqCall(t) ==
  /\ Call(t, "e_used")
  /\ \E m \in Items : item' = [item EXCEPT ![t] = m]
  /\ UNCHANGED <<queues, used, backing, pos, size>>

\* Mutant: the counter is loaded here, and added to when an index was found.
EnqUsedLoaded(t) ==
  /\ \/ used >= Capacity /\ Return(t, "e_used") /\ UNCHANGED used
     \/ used < Capacity /\ Goto(t, "e_used", "e_free") /\ UNCHANGED <<used, local>>
  /\ UNCHANGED <<queues, backing, client>>

EnqUsed(t) ==
  /\ \/ used >= Capacity /\ Goto(t, "e_used", "e_undo")
     \/ used < Capacity /\ Goto(t, "e_used", "e_free")
  /\ size' = [size EXCEPT ![t] = used]
  /\ used' = used + 1
  /\ UNCHANGED <<queues, backing, item, pos, client>>

\* Mutant: the counter is not set back.
EnqUndoNot(t) ==
  /\ Return(t, "e_undo")
  /\ UNCHANGED <<queues, used, backing, client>>

\* Err(QueueFull)
EnqUndo(t) ==
  /\ Return(t, "e_undo")
  /\ used' = used - 1
  /\ UNCHANGED <<queues, backing, client>>

EnqFree(t) ==
  \/ /\ free # <<>>
     /\ Goto(t, "e_free", "e_write")
     /\ pos' = [pos EXCEPT ![t] = Head(free).pos]
     /\ free' = Tail(free)
     /\ UNCHANGED <<alloc, closed, used, backing, item, size, client>>
  \/ /\ Settled(free) = {}
     /\ Goto(t, "e_free", "e_undo")
     /\ UNCHANGED <<queues, used, backing, local, client>>

EnqWrite(t) ==
  /\ Goto(t, "e_write", "e_flag")
  /\ backing' = [backing EXCEPT ![pos[t]] = item[t]]
  /\ UNCHANGED <<queues, used, local, client>>

\* Mutant: the flag is not tested.
EnqFlagIgnored(t) ==
  /\ Goto(t, "e_flag", "e_put")
  /\ UNCHANGED <<queues, used, backing, local, client>>

\* alloc_queue.enqueue(pos): the last load of is_finalized ...
EnqFlag(t) ==
  /\ \/ closed /\ Goto(t, "e_flag", "g_used")
     \/ ~closed /\ Goto(t, "e_flag", "e_put")
  /\ UNCHANGED <<queues, used, backing, local, client>>

\* ... the insertion ...
EnqPut(t) ==
  /\ Goto(t, "e_put", "e_settle")
  /\ alloc' = Append(alloc, At(pos[t], t))
  /\ UNCHANGED <<free, closed, used, backing, local, client>>

\* Mutant: the queue is finalized when the next enqueue would find it full.
EnqSettleLate(t) ==
  /\ \/ Finalizes /\ size[t] >= Capacity /\ Goto(t, "e_settle", "e_final") /\ UNCHANGED local
     \/ ~(Finalizes /\ size[t] >= Capacity) /\ Return(t, "e_settle")
  /\ alloc' = Settle(alloc, t)
  /\ UNCHANGED <<free, closed, used, backing, client>>

\* ... and the return.
EnqSettle(t) ==
  /\ \/ Finalizes /\ size[t] + 1 >= Capacity /\ Goto(t, "e_settle", "e_final") /\ UNCHANGED local
     \/ ~(Finalizes /\ size[t] + 1 >= Capacity) /\ Return(t, "e_settle")
  /\ alloc' = Settle(alloc, t)
  /\ UNCHANGED <<free, closed, used, backing, client>>

EnqFinal(t) ==
  /\ Return(t, "e_final")
  /\ closed' = TRUE
  /\ UNCHANGED <<free, alloc, used, backing, client>>

-----------------------------------------------------------------------------
(* dequeue()                                                               *)

Dequeuers == {t \in Threads : pc[t] = "d_alloc"}

DeqCall(t) ==
  /\ Cardinality(Dequeuers) < shape.dequeuers
  /\ Call(t, "d_alloc")
  /\ UNCHANGED <<queues, used, backing, local>>

\* In a crowd the threshold may have fallen below zero in front of settled
\* items (src/scq.rs:332, run ring_stranded).
DeqAlloc(t) ==
  \/ /\ alloc # <<>>
     /\ Goto(t, "d_alloc", "g_used")
     /\ pos' = [pos EXCEPT ![t] = Head(alloc).pos]
     /\ alloc' = Tail(alloc)
     /\ UNCHANGED <<free, closed, used, backing, item, size, client>>
  \/ /\ Settled(alloc) = {} \/ Crowded          \* None
     /\ Return(t, "d_alloc")
     /\ UNCHANGED <<queues, used, backing, client>>

-----------------------------------------------------------------------------
(* An index is given back, with the same accesses by a dequeue and by an   *)
(* enqueue that the finalized ring refused (src/scq.rs:723-726).           *)

\* Mutant: the counter is subtracted from once more than it was added to.
GiveUsedTwice(t) ==
  /\ Goto(t, "g_used", "g_read")
  /\ used' = used - 2
  /\ UNCHANGED <<queues, backing, local, client>>

GiveUsed(t) ==
  /\ Goto(t, "g_used", "g_read")
  /\ used' = used - 1
  /\ UNCHANGED <<queues, backing, local, client>>

\* Mutant: the index is given back before the cell is read.
GiveReadLate(t) ==
  /\ Goto(t, "g_read", "g_settle")
  /\ free' = Append(free, At(pos[t], t))
  /\ UNCHANGED <<alloc, closed, used, backing, local, client>>

GiveRead(t) ==
  /\ Goto(t, "g_read", "g_put")
  /\ item' = [item EXCEPT ![t] = backing[pos[t]]]
  /\ backing' = [backing EXCEPT ![pos[t]] = NoItem]      \* moved out
  /\ UNCHANGED <<queues, used, pos, size, client>>

\* Mutant: the index is not given back.
GivePutNot(t) ==
  /\ Return(t, "g_put")
  /\ UNCHANGED <<queues, used, backing, client>>

GivePut(t) ==
  /\ Goto(t, "g_put", "g_settle")
  /\ free' = Append(free, At(pos[t], t))
  /\ UNCHANGED <<alloc, closed, used, backing, local, client>>

GiveSettle(t) ==
  /\ Return(t, "g_settle")
  /\ free' = Settle(free, t)
  /\ UNCHANGED <<alloc, closed, used, backing, client>>

-----------------------------------------------------------------------------
(* Drop needs exclusive access: it dequeues from the allocation ring until *)
(* that answers None, and drops the item of each index.  If there was a    *)
(* crowd that may be too soon.                                             *)

\* Mutant: the first index only.
DropFirst ==
  /\ ~dropped
  /\ \A t \in Threads : pc[t] = "idle"
  /\ dropped' = TRUE
  /\ alloc' = IF alloc = <<>> THEN alloc ELSE Tail(alloc)
  /\ backing' = [i \in Indices |->
                   IF alloc # <<>> /\ i = Head(alloc).pos THEN NoItem ELSE backing[i]]
  /\ UNCHANGED <<shape, free, closed, used, pc, local, calls>>

DropQueue ==
  /\ ~dropped
  /\ \A t \in Threads : pc[t] = "idle"
  /\ dropped' = TRUE
  /\ \E k \in 0 .. Len(alloc) :
       /\ k = Len(alloc) \/ Crowded
       /\ alloc' = SubSeq(alloc, k + 1, Len(alloc))
       /\ backing' = [i \in Indices |->
                        IF \E j \in 1 .. k : alloc[j].pos = i THEN NoItem ELSE backing[i]]
  /\ UNCHANGED <<shape, free, closed, used, pc, local, calls>>

-----------------------------------------------------------------------------

Step(t) ==
  \/ EnqUsed(t) \/ EnqUndo(t) \/ EnqFree(t) \/ EnqWrite(t)
  \/ EnqFlag(t) \/ EnqPut(t) \/ EnqSettle(t) \/ EnqFinal(t)
  \/ DeqAlloc(t)
  \/ GiveUsed(t) \/ GiveRead(t) \/ GivePut(t) \/ GiveSettle(t)

Next ==
  \/ \E t \in Threads : EnqCall(t) \/ DeqCall(t) \/ Step(t)
  \/ DropQueue

Spec == Init /\ [][Next]_vars

-----------------------------------------------------------------------------
(* Properties.                                                             *)

\* The steps of a thread that possesses the index pos[t]: its cell is empty
\* before the write and after the read, and full between them.
EmptyHanded == {"e_write", "g_put"}
FullHanded  == {"e_flag", "e_put", "g_used", "g_read"}
PC == {"idle", "e_used", "e_undo", "e_free", "e_settle", "e_final", "d_alloc", "g_settle"}
        \union EmptyHanded \union FullHanded

\* The threads that may hold an index of the free ring, or are about to get
\* one, and have not put it into the allocation ring.
Admitted == {t \in Threads : pc[t] \in {"e_free", "e_write", "e_flag", "e_put"}}

\* The variables have their types; in particular the counter, an unsigned
\* word, is never subtracted from below zero (src/scq.rs:703, 709, 723, 756).
TypeOK ==
  /\ free \in Seq(Entry) /\ alloc \in Seq(Entry)
  /\ closed \in BOOLEAN
  /\ used \in Nat
  /\ backing \in [Indices -> Items \union {NoItem}]
  /\ pc \in [Threads -> PC]
  /\ item \in [Threads -> Items \union {NoItem}]
  /\ pos \in [Threads -> Indices \union {NoPos}]
  /\ size \in [Threads -> Nat]
  /\ shape \in Shapes
  /\ calls \in 0 .. shape.calls
  /\ dropped \in BOOLEAN

Possessed(t, i)  == pos[t] = i /\ pc[t] \in EmptyHanded \union FullHanded

\* "any given index can only be in at most one of these rings, and ... only
\* one thread possesses said index" (README "Bounded Queue"): each index is
\* in exactly one place, so that no cell has two users and no capacity is
\* lost, whichever way an enqueue fails.
OnePlace ==
  ~dropped => \A i \in Indices :
    Cardinality({j \in DOMAIN free : free[j].pos = i})
      + Cardinality({j \in DOMAIN alloc : alloc[j].pos = i})
      + Cardinality({t \in Threads : Possessed(t, i)}) = 1

\* Every read of a cell finds an item and no write overwrites one: the
\* operations pass the cells to each other through the two rings, without a
\* mark on the cell itself (src/scq.rs:714, 724, 759, assume_init_read).
Initialized ==
  /\ \A i \in Indices : /\ Stored(alloc, i) => backing[i] \in Items
                        /\ Stored(free, i) => backing[i] = NoItem
  /\ \A t \in Threads : /\ pc[t] \in FullHanded => backing[pos[t]] \in Items
                        /\ pc[t] \in EmptyHanded => backing[pos[t]] = NoItem

\* The counter admits no more enqueues to the free ring than there are
\* indices, and so at most Capacity dequeues are in the free ring at a time:
\* the number of dequeuers is what the threshold of a ring must withstand.
FreeGated == Cardinality(Admitted) + Len(alloc) <= Capacity

\* Failed and refused calls leave no trace in the counter: at rest it is the
\* number of elements, and the free ring has the remaining indices.
RestExact ==
  ~dropped /\ (\A t \in Threads : pc[t] = "idle") =>
    /\ used = Len(alloc)
    /\ Len(free) = Capacity - used

\* "we must finalize this queue so that nothing more will be added to it"
\* (src/scq.rs:731): once the closed ring is drained and the enqueues that
\* were under way at that moment are over, it stays empty for ever, whatever
\* enqueues are called on it afterwards.  This is what a segment of an
\* unbounded queue must satisfy to be left behind.
Retired == closed /\ Admitted = {} /\ alloc = <<>>
StaysEmpty == [](Retired => [](alloc = <<>>))

\* The enqueue that takes the last slot of a segment closes it before it
\* returns: a full segment at rest accepts nothing ever after.  The slot is
\* recognised by the counter, which other calls add to and subtract from in
\* the meantime (src/scq.rs:701, 730).  A linked segment of one slot is excepted:
\* the item it was linked with fills it (src/lfstd.rs:223-226).
FullIsClosed ==
  Finalizes /\ ~FullAtFirst /\ (\A t \in Threads : pc[t] = "idle") /\ Len(alloc) = Capacity
    => closed

\* Drop leaves no item behind: whichever way the calls before it failed, an
\* item that a cell still holds is one whose index the allocation ring yields
\* (src/scq.rs:784), if no more than capacity + 1 dequeues were made at a time
\* (that the ring then yields all it has is NegativeMeansEmpty).
DropsAll == dropped /\ ~Crowded => \A i \in Indices : backing[i] = NoItem
=============================================================================
