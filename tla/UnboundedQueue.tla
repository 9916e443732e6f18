--------------------------- MODULE UnboundedQueue ---------------------------
(***************************************************************************)
(* The unbounded queue of src/lfstd.rs: a linked list of segments between  *)
(* a head and a tail pointer, the hazard pointers under which threads work *)
(* on a segment, and the length counter of CountedUnboundedQueue.          *)
(*                                                                         *)
(* A segment is a finalizable BoundedQueue, seen through what modules      *)
(* BoundedQueue and ScqRingFifo show of it: an item is appended in one     *)
(* step and settled in a later one; a dequeue claims the first item, or    *)
(* answers None while no item is settled.  Once its threshold was refilled *)
(* after it was closed, it answers None only if it holds no item at all,   *)
(* and then the tickets of the insertions under way are spent, so that     *)
(* they have to look at the flag again (RefillFinds and Drained there).    *)
(* All this holds of a segment unless more dequeues than its threshold is  *)
(* enough for are in it at a time (Crowded).                               *)
(* Its counter and its free indices are explicit, because QueueFull        *)
(* depends on both.                                                        *)
(*                                                                         *)
(* Calls are numbered, and call c enqueues item c.  A node is linked once   *)
(* and never unlinked, so the nodes that ever were in the list are a       *)
(* sequence, a pointer is a position in it, and the next pointer of a node *)
(* is null exactly at the end.  Nodes that were not linked yet, or never   *)
(* are, belong to a single thread.                                         *)
(***************************************************************************)
EXTENDS Integers, Sequences, SequencesExt, FiniteSets, RingOrder

CONSTANTS
  Threads,       \* the threads that share the queue
  Starts         \* the queues to begin with: the segment size, the items a
                 \* single thread has enqueued already, and bounds: the calls
                 \* that follow, the threads inside enqueue() and those
                 \* inside dequeue() at a time

ASSUME UnboundedAssumption ==
  Starts \subseteq [size : {n \in Nat \ {0} : SizeAccepted(n)}, filled : Nat,
                    calls : Nat, enqueuers : Nat, dequeuers : Nat]

\* What an accepted size makes of a ring: a power of two, at least one.
ASSUME CapacityAssumption ==
  \A s \in Starts : lfring_pow2(determine_order(s.size)) \in Nat \ {0}

ASSUME ThreadsAssumption == IsFiniteSet(Threads)

VARIABLES
  start,      \* one of Starts
  nodes,      \* the segments that were ever linked, in order
  head, tail, \* the positions the two pointers point to
  retired,    \* the nodes given to the hazard pointer domain
  freed,      \* the nodes whose memory the domain gave back
  length,     \* the counter of CountedUnboundedQueue
  dropped,    \* the nodes that drop gave back
  pc,         \* thread -> its next step, "idle" outside a call
  item,       \* thread -> the item it enqueues, or has claimed
  cur,        \* thread -> cq_ptr, the node its hazard pointer protects
  size,       \* thread -> the value of used it saw
  calls       \* number of calls made so far

list   == <<start, nodes, head, tail>>
memory == <<retired, freed, dropped>>
local  == <<item, cur, size>>
vars   == <<list, memory, length, pc, local, calls>>

\* CountedUnboundedQueue
len      == length
is_empty == len = 0

Null   == 0
NoItem == 0

\* The segment size of the queue, in spite of its name.
internal_order == start.size

\* free_queue.capacity() of every segment.
Capacity == lfring_pow2(determine_order(internal_order))

MaxItem == start.filled + start.calls

\* The threshold of a ring withstands capacity + 1 dequeues at a time.
Crowded == start.dequeuers > Capacity + 1

Dropped == dropped # {}

-----------------------------------------------------------------------------
(* Segments.                                                               *)

\* LscqNode::new, with the item that enqueue() puts into it before anyone
\* else can see it; that call does not finalize, whatever the capacity.
NewSegment(q) ==
  [queue |-> q, closed |-> FALSE, refilled |-> FALSE,
   used |-> Len(q), free |-> Capacity - Len(q)]

Segment ==
  [queue : Seq(1 .. MaxItem), closed : BOOLEAN, refilled : BOOLEAN,
   used : Nat, free : 0 .. Capacity]

End == Len(nodes)

\* The items of a segment whose insertion has returned.
Settled(n) ==
  {i \in ToSet(nodes[n].queue) : \A t \in Threads : ~(pc[t] = "e_settle" /\ item[t] = i)}

\* When a dequeue of segment n may answer None.  In a crowd the threshold may
\* have fallen below zero in front of items (src/scq.rs:332, run ring_stranded).
MayMiss(n) ==
  \/ nodes[n].refilled /\ nodes[n].queue = <<>>
  \/ ~nodes[n].refilled /\ Settled(n) = {}
  \/ Crowded

-----------------------------------------------------------------------------

EnqPC == {"e_tail", "e_next", "e_used", "e_undo", "e_free", "e_flag", "e_put",
          "e_settle", "e_final", "g_used", "g_free", "e_link", "e_fix"}
DeqPC == {"d_head", "d_try", "d_next", "d_again", "d_move", "d_used", "d_free", "d_len"}

Enqueuers == {t \in Threads : pc[t] \in EnqPC}
Dequeuers == {t \in Threads : pc[t] \in DeqPC}

\* The segments of a queue after a single thread enqueued items 1 .. k: the
\* one that takes the last slot of a segment closes it, unless it is the one
\* that linked it.
Filled(k) ==
  [n \in 1 .. IF k = 0 THEN 1 ELSE (k - 1) \div Capacity + 1 |->
     LET q == [j \in 1 .. Min({Capacity, k - (n - 1) * Capacity}) |-> (n - 1) * Capacity + j]
     IN  [NewSegment(q) EXCEPT !.closed = Len(q) = Capacity /\ (n = 1 \/ Capacity > 1)]]

Init ==
  /\ start \in Starts
  /\ nodes = Filled(start.filled)
  /\ head = 1 /\ tail = End
  /\ retired = {} /\ freed = {} /\ dropped = {}
  /\ length = start.filled
  /\ pc = [t \in Threads |-> "idle"]
  /\ item = [t \in Threads |-> NoItem]
  /\ cur = [t \in Threads |-> Null]
  /\ size = [t \in Threads |-> 0]
  /\ calls = start.filled

Goto(t, from, to) == pc[t] = from /\ pc' = [pc EXCEPT ![t] = to]

\* The locals of a call go out of scope and its hazard pointers are reset.
Return(t, from) ==
  /\ Goto(t, from, "idle")
  /\ item' = [item EXCEPT ![t] = NoItem]
  /\ cur' = [cur EXCEPT ![t] = Null]
  /\ size' = [size EXCEPT ![t] = 0]

Call(t, to) ==
  /\ ~Dropped
  /\ calls < MaxItem
  /\ calls' = calls + 1
  /\ Goto(t, "idle", to)

\* safe_load: the pointer is published as hazardous and read once more, so
\* the node is protected from a moment at which the pointer pointed to it.
SafeLoad(t, pointer) == cur' = [cur EXCEPT ![t] = pointer]

\* A step of t within the segment it works on.
OnSegment(t, s) ==
  /\ nodes' = [nodes EXCEPT ![cur[t]] = s]
  /\ UNCHANGED <<start, head, tail, memory, length, calls>>

-----------------------------------------------------------------------------
(* enqueue(item)                                                           *)

\* Mutant: the length is not added to.
EnqCallUncounted(t) ==
  /\ Cardinality(Enqueuers) < start.enqueuers
  /\ Call(t, "e_tail")
  /\ item' = [item EXCEPT ![t] = calls']
  /\ UNCHANGED <<list, memory, length, cur, size>>

\* CountedUnboundedQueue adds to the length before it enqueues.
EnqCall(t) ==
  /\ Cardinality(Enqueuers) < start.enqueuers
  /\ Call(t, "e_tail")
  /\ length' = length + 1
  /\ item' = [item EXCEPT ![t] = calls']
  /\ UNCHANGED <<list, memory, cur, size>>

EnqTail(t) ==
  /\ Goto(t, "e_tail", "e_next")
  /\ SafeLoad(t, tail)
  /\ UNCHANGED <<list, memory, length, item, size, calls>>

\* Mutant: a tail that lags behind is left to the enqueue that linked.
EnqNextAlone(t) ==
  \/ /\ Goto(t, "e_next", "e_used")
     /\ cur[t] = End
     /\ UNCHANGED <<list, memory, length, local, calls>>
  \/ /\ Goto(t, "e_next", "e_tail")
     /\ cur[t] # End
     /\ UNCHANGED <<list, memory, length, local, calls>>

\* Mutant: the list is followed to its end, and tail stays where it is.
EnqNextWalk(t) ==
  \/ /\ Goto(t, "e_next", "e_used")
     /\ cur[t] = End
     /\ UNCHANGED <<list, memory, length, local, calls>>
  \/ /\ pc[t] = "e_next" /\ cur[t] # End
     /\ cur' = [cur EXCEPT ![t] = @ + 1]
     /\ UNCHANGED <<list, memory, length, pc, item, size, calls>>

\* A tail that lags behind is moved on.  The next pointer never changes
\* again, so the load and the compare_exchange are one step.
EnqNext(t) ==
  \/ /\ Goto(t, "e_next", "e_used")
     /\ cur[t] = End
     /\ UNCHANGED <<list, memory, length, local, calls>>
  \/ /\ Goto(t, "e_next", "e_tail")
     /\ cur[t] # End
     /\ tail' = IF tail = cur[t] THEN cur[t] + 1 ELSE tail
     /\ UNCHANGED <<start, nodes, head, memory, length, local, calls>>

\* enqueue_cycle::<true> of the segment, as in module BoundedQueue.
EnqUsed(t) ==
  LET s == nodes[cur[t]]
  IN /\ \/ Goto(t, "e_used", "e_undo") /\ s.used >= Capacity
        \/ Goto(t, "e_used", "e_free") /\ s.used < Capacity
     /\ size' = [size EXCEPT ![t] = s.used]
     /\ OnSegment(t, [s EXCEPT !.used = @ + 1])
     /\ UNCHANGED <<item, cur>>

\* Err(QueueFull): the queue is not finalized by that.
EnqUndo(t) ==
  LET s == nodes[cur[t]]
  IN /\ Goto(t, "e_undo", "e_link")
     /\ OnSegment(t, [s EXCEPT !.used = @ - 1])
     /\ UNCHANGED local

EnqFree(t) ==
  LET s == nodes[cur[t]]
  IN /\ \/ /\ Goto(t, "e_free", "e_flag")
           /\ s.free > 0
           /\ OnSegment(t, [s EXCEPT !.free = @ - 1])
        \/ /\ Goto(t, "e_free", "e_undo")
           /\ s.free = 0
           /\ OnSegment(t, s)
     /\ UNCHANGED local

EnqFlag(t) ==
  LET s == nodes[cur[t]]
  IN /\ \/ Goto(t, "e_flag", "g_used") /\ s.closed     \* Err(QueueFinalized)
        \/ Goto(t, "e_flag", "e_put") /\ ~s.closed
     /\ OnSegment(t, s)
     /\ UNCHANGED local

EnqPut(t) ==
  LET s == nodes[cur[t]]
  IN /\ Goto(t, "e_put", "e_settle")
     /\ OnSegment(t, [s EXCEPT !.queue = Append(@, item[t])])
     /\ UNCHANGED local

EnqSettle(t) ==
  LET s == nodes[cur[t]]
  IN /\ \/ Goto(t, "e_settle", "e_final") /\ size[t] + 1 >= Capacity /\ UNCHANGED local
        \/ Return(t, "e_settle") /\ size[t] + 1 < Capacity
     /\ OnSegment(t, s)

EnqFinal(t) ==
  LET s == nodes[cur[t]]
  IN /\ Return(t, "e_final")
     /\ OnSegment(t, [s EXCEPT !.closed = TRUE])

\* The finalized ring refused: the counter and the index are given back.
EnqGiveUsed(t) ==
  LET s == nodes[cur[t]]
  IN /\ Goto(t, "g_used", "g_free")
     /\ OnSegment(t, [s EXCEPT !.used = @ - 1])
     /\ UNCHANGED local

EnqGiveFree(t) ==
  LET s == nodes[cur[t]]
  IN /\ Goto(t, "g_free", "e_link")
     /\ OnSegment(t, [s EXCEPT !.free = @ + 1])
     /\ UNCHANGED local

\* A new node that holds the item is linked behind the segment; if another
\* enqueue was faster, the item is taken back out, the node freed, and the
\* loop starts again.
EnqLink(t) ==
  \/ /\ Goto(t, "e_link", "e_fix")
     /\ cur[t] = End
     /\ nodes' = Append(nodes, NewSegment(<<item[t]>>))
     /\ UNCHANGED <<start, head, tail, memory, length, local, calls>>
  \/ /\ Goto(t, "e_link", "e_tail")
     /\ cur[t] # End
     /\ UNCHANGED <<list, memory, length, local, calls>>

EnqFix(t) ==
  /\ Return(t, "e_fix")
  /\ tail' = IF tail = cur[t] THEN cur[t] + 1 ELSE tail
  /\ UNCHANGED <<start, nodes, head, memory, length, calls>>

-----------------------------------------------------------------------------
(* dequeue()                                                               *)

DeqCall(t) ==
  /\ Cardinality(Dequeuers) < start.dequeuers
  /\ Call(t, "d_head")
  /\ UNCHANGED <<list, memory, length, local>>

DeqHead(t) ==
  /\ Goto(t, "d_head", "d_try")
  /\ SafeLoad(t, head)
  /\ UNCHANGED <<list, memory, length, item, size, calls>>

\* alloc_queue.dequeue() of the segment finds an item ...
Claim(t, from) ==
  LET s == nodes[cur[t]]
  IN /\ Goto(t, from, "d_used")
     /\ s.queue # <<>>
     /\ item' = [item EXCEPT ![t] = Head(s.queue)]
     /\ OnSegment(t, [s EXCEPT !.queue = Tail(@)])
     /\ UNCHANGED <<cur, size>>

\* ... or not.  A dequeue that has been through all tickets has spent those
\* of the insertions under way.
Miss(t, from, to) ==
  /\ pc[t] = from
  /\ MayMiss(cur[t])
  /\ pc' = [u \in Threads |->
       IF u = t THEN to
       ELSE IF /\ nodes[cur[t]].refilled /\ ~Crowded
               /\ cur[u] = cur[t] /\ pc[u] = "e_put"
            THEN "e_flag"
       ELSE pc[u]]
  /\ UNCHANGED <<list, memory, length, local, calls>>

DeqTry(t) == Claim(t, "d_try") \/ Miss(t, "d_try", "d_next")

\* Mutant: the threshold is not refilled.
DeqNextWorn(t) ==
  \/ /\ Return(t, "d_next")
     /\ cur[t] = End
     /\ UNCHANGED <<list, memory, length, calls>>
  \/ /\ Goto(t, "d_next", "d_again")
     /\ cur[t] # End
     /\ UNCHANGED <<list, memory, length, local, calls>>

\* Mutant: the segment is left without a second attempt.
DeqNextOnce(t) ==
  \/ /\ Return(t, "d_next")
     /\ cur[t] = End
     /\ UNCHANGED <<list, memory, length, calls>>
  \/ /\ Goto(t, "d_next", "d_move")
     /\ cur[t] # End
     /\ OnSegment(t, [nodes[cur[t]] EXCEPT !.refilled = @ \/ nodes[cur[t]].closed])
     /\ UNCHANGED local

\* Without a next segment the answer is None; otherwise the threshold of this
\* one is refilled for a second attempt.
DeqNext(t) ==
  \/ /\ Return(t, "d_next")
     /\ cur[t] = End
     /\ UNCHANGED <<list, memory, length, calls>>
  \/ /\ Goto(t, "d_next", "d_again")
     /\ cur[t] # End
     /\ OnSegment(t, [nodes[cur[t]] EXCEPT !.refilled = @ \/ nodes[cur[t]].closed])
     /\ UNCHANGED local

DeqAgain(t) == Claim(t, "d_again") \/ Miss(t, "d_again", "d_move")

\* Mutant: head is stored to, whatever it points to by now.
DeqMoveBlind(t) ==
  /\ Goto(t, "d_move", "d_head")
  /\ head' = cur[t] + 1
  /\ retired' = retired \union {cur[t]}
  /\ UNCHANGED <<start, nodes, tail, freed, dropped, length, local, calls>>

\* Mutant: the segment head has moved to is retired.
DeqMoveNew(t) ==
  /\ Goto(t, "d_move", "d_head")
  /\ \/ /\ head = cur[t]
        /\ head' = cur[t] + 1
        /\ retired' = retired \union {head'}
     \/ head # cur[t] /\ UNCHANGED <<head, retired>>
  /\ UNCHANGED <<start, nodes, tail, freed, dropped, length, local, calls>>

\* Whoever moves head retires the segment it moved away from.
DeqMove(t) ==
  /\ Goto(t, "d_move", "d_head")
  /\ \/ /\ head = cur[t]
        /\ head' = cur[t] + 1
        /\ retired' = retired \union {cur[t]}
     \/ head # cur[t] /\ UNCHANGED <<head, retired>>
  /\ UNCHANGED <<start, nodes, tail, freed, dropped, length, local, calls>>

DeqUsed(t) ==
  LET s == nodes[cur[t]]
  IN /\ Goto(t, "d_used", "d_free")
     /\ OnSegment(t, [s EXCEPT !.used = @ - 1])
     /\ UNCHANGED local

DeqFree(t) ==
  LET s == nodes[cur[t]]
  IN /\ Goto(t, "d_free", "d_len")
     /\ OnSegment(t, [s EXCEPT !.free = @ + 1])
     /\ UNCHANGED local

\* Mutant: the length is not subtracted from.
DeqLenNot(t) ==
  /\ Return(t, "d_len")
  /\ UNCHANGED <<list, memory, length, calls>>

\* CountedUnboundedQueue subtracts from the length once it has the item.
DeqLen(t) ==
  /\ Return(t, "d_len")
  /\ length' = length - 1
  /\ UNCHANGED <<list, memory, calls>>
-----------------------------------------------------------------------------
(* Memory.                                                                 *)

\* A hazard pointer domain frees a retired node some time after no hazard
\* pointer protects it any more.
Reclaim(n) ==
  /\ n \notin freed
  /\ \A t \in Threads : cur[t] # n
  /\ freed' = freed \union {n}
  /\ UNCHANGED <<list, retired, dropped, length, pc, local, calls>>

\* Mutant: the nodes are freed from the first one of the list on.
DropFromFirst ==
  /\ ~Dropped
  /\ \A t \in Threads : pc[t] = "idle"
  /\ dropped' = 1 .. End
  /\ UNCHANGED <<list, retired, freed, length, pc, local, calls>>

\* Drop needs exclusive access and frees every node from head on.
DropQueue ==
  /\ ~Dropped
  /\ \A t \in Threads : pc[t] = "idle"
  /\ dropped' = head .. End
  /\ UNCHANGED <<list, retired, freed, length, pc, local, calls>>

-----------------------------------------------------------------------------

Invoke(t) == EnqCall(t) \/ DeqCall(t)

Step(t) ==
  \/ EnqTail(t) \/ EnqNext(t) \/ EnqUsed(t) \/ EnqUndo(t) \/ EnqFree(t)
  \/ EnqFlag(t) \/ EnqPut(t) \/ EnqSettle(t) \/ EnqFinal(t)
  \/ EnqGiveUsed(t) \/ EnqGiveFree(t) \/ EnqLink(t) \/ EnqFix(t)
  \/ DeqHead(t) \/ DeqTry(t) \/ DeqNext(t) \/ DeqAgain(t) \/ DeqMove(t)
  \/ DeqUsed(t) \/ DeqFree(t) \/ DeqLen(t)

Next ==
  \/ \E t \in Threads : Invoke(t) \/ Step(t)
  \/ \E n \in retired : Reclaim(n)
  \/ DropQueue

Spec == Init /\ [][Next]_vars

-----------------------------------------------------------------------------
(* Properties.                                                             *)

TypeOK ==
  /\ start \in Starts
  /\ nodes \in Seq(Segment)
  /\ head \in DOMAIN nodes /\ tail \in DOMAIN nodes
  /\ retired \subseteq DOMAIN nodes /\ freed \subseteq DOMAIN nodes
  /\ dropped \subseteq DOMAIN nodes
  /\ length \in Nat
  /\ pc \in [Threads -> {"idle"} \union EnqPC \union DeqPC]
  /\ item \in [Threads -> 0 .. MaxItem]
  /\ cur \in [Threads -> 0 .. End]
  /\ size \in [Threads -> Nat]
  /\ calls \in 0 .. MaxItem
=============================================================================
