---------------------------- MODULE UnboundedFifo ----------------------------
(***************************************************************************)
(* UnboundedQueue implements IndexQueue: the whole list is one FIFO queue  *)
(* of items.  As in ScqRingFifo, history variables record what the         *)
(* abstract queue lets each operation answer; they constrain nothing.      *)
(*                                                                         *)
(* The code does not keep this promise in general: spilled records that a  *)
(* segment was left open behind a new one while an enqueue was at work on  *)
(* it, and from then on an item may be lost (run lscq_lost); nor does it   *)
(* if more dequeues than a segment withstands are made at a time.          *)
(***************************************************************************)
EXTENDS UnboundedQueue

VARIABLES
  pre,       \* thread -> items in the queue when its enqueue was called
  mayFail,   \* thread -> no enqueued item was in the queue during its dequeue
  spilled    \* a segment was left open to an enqueue under way

history == <<pre, mayFail, spilled>>

\* The items that dequeues can still reach.
Reachable == UNION {ToSet(nodes[n].queue) : n \in head .. End}

\* Those of them whose enqueue has returned.
Returned == {i \in Reachable : \A t \in Threads : ~(pc[t] \in EnqPC /\ item[t] = i)}

EnqAfter  == {"e_settle", "e_final", "e_fix"}
EnqBefore == EnqPC \ EnqAfter
Adding    == {"e_used", "e_free", "e_flag", "e_put", "e_settle", "e_final"}
Claimed   == {"d_used", "d_free", "d_len"}

\* A segment that is open gets a successor while another enqueue is in it.
LeftOpen ==
  /\ End' # End
  /\ ~nodes[End].closed
  /\ \E t \in Threads : cur[t] = End /\ pc[t] \in Adding

\* What the promises are made under.
Promised == ~spilled /\ ~Crowded

HInit ==
  /\ Init
  /\ pre = [t \in Threads |-> {}]
  /\ mayFail = [t \in Threads |-> FALSE]
  /\ spilled = FALSE

Record ==
  /\ pre' = [t \in Threads |->
       CASE pc'[t] \in EnqBefore /\ pc[t] = "idle" -> Returned
         [] pc'[t] \in EnqBefore /\ pc[t] # "idle" -> pre[t] \intersect Reachable'
         [] OTHER -> {}]
  /\ mayFail' = [t \in Threads |->
       /\ pc'[t] \in DeqPC
       /\ mayFail[t] \/ Returned' = {}]
  /\ spilled' = (spilled \/ LeftOpen)

HNext == Next /\ Record

HSpec == HInit /\ [][HNext]_<<vars, history>>

-----------------------------------------------------------------------------
(* The refinement mapping.                                                 *)

\* The elements of a finite set S in the order of a relation R, a set of pairs.
Rank(S, R, x) == Cardinality({y \in S : <<y, x>> \in R})
Nth(S, R, j)  == CHOOSE x \in S : Rank(S, R, x) = j - 1
Listed(S, R)  == [j \in 1 .. Cardinality(S) |-> Nth(S, R, j)]

\* The items of a segment come in its order, and before those of later ones.
Within(q) == UNION {{q[a]} \X {q[b] : b \in a + 1 .. Len(q)} : a \in DOMAIN q}
Later(n)  == UNION {ToSet(nodes[m].queue) : m \in n + 1 .. End}
Order ==
  UNION {Within(nodes[n].queue) \union (ToSet(nodes[n].queue) \X Later(n)) : n \in head .. End}

Queue == Listed(Reachable, Order)

Op(t) ==
  CASE pc[t] = "idle" -> [kind |-> "idle"]
    [] pc[t] \in EnqBefore ->
         [kind |-> "enq", idx |-> item[t], pre |-> pre[t], late |-> FALSE]
    [] pc[t] \in EnqAfter /\ item[t] \in Reachable -> [kind |-> "put", idx |-> item[t]]
    [] pc[t] \in EnqAfter /\ item[t] \notin Reachable -> [kind |-> "given"]
    [] pc[t] \in Claimed -> [kind |-> "got", idx |-> item[t]]
    [] pc[t] \in DeqPC \ Claimed -> [kind |-> "deq", mayFail |-> mayFail[t]]

Fifo == INSTANCE IndexQueue WITH
          Indices <- UNION {1 .. s.filled + s.calls : s \in Starts},
          queue <- Queue, settled <- Returned,
          closed <- FALSE, op <- [t \in Threads |-> Op(t)]

-----------------------------------------------------------------------------
(* Properties.                                                             *)

\* The unbounded queue is a FIFO queue across its segments, for concurrent
\* enqueues and dequeues: no item is lost, duplicated or overtaken by one
\* whose enqueue was called after its own returned, and None is answered
\* only if the queue held no enqueued item at some moment of the call; as
\* long as no segment is left open behind a new one, and if no more than
\* capacity + 1 dequeues are made at a time.
QueueFifo == Fifo!Init /\ [][~Promised \/ Fifo!Next]_<<Fifo!vars>>

\* A segment that head has left holds nothing: the refill of the threshold
\* and the second attempt (src/lfstd.rs:297-309) leave no item behind whose
\* enqueue had not yet restored the threshold, and nothing is added later.
LeftEmpty == Promised => \A n \in retired : nodes[n].queue = <<>>

\* "we must finalize this queue so that nothing more will be added to it"
\* (src/scq.rs:731): no item is added to a segment that head has left, where
\* no dequeue would find it.
NothingAdded ==
  [][\A n \in retired : Len(nodes'[n].queue) <= Len(nodes[n].queue)]_<<vars, history>>

\* tail is the last node or the one before it (src/lfstd.rs:193-206): an
\* enqueue links a node only behind the node tail pointed to, and whoever
\* comes next moves tail on first.
TailLag == tail >= End - 1

\* A segment is retired exactly when head moves past it, so none is retired
\* twice or while dequeues can still load it (src/lfstd.rs:321-326).
HeadKept == retired = 1 .. head - 1

\* "The pointed-to object will never again be returned by any
\* [AtomicPtr::load]" (src/lfstd.rs:322): neither pointer points to a retired
\* segment.
NeverLoaded == ~Dropped => head \notin retired /\ tail \notin retired

\* No dequeue works on a segment whose memory was given back; nor does an
\* enqueue if no other is in progress.
Protected ==
  \A t \in Threads :
    pc[t] \in DeqPC \/ (pc[t] \in EnqPC /\ start.enqueuers = 1) => cur[t] \notin freed

\* The domain frees what was given to it.
FreedRetired == freed \subseteq retired

\* Drop frees the nodes that were not retired and no others (src/lfstd.rs:338):
\* the rest are the domain's to free, so none is leaked and none is freed by
\* both.
NoLeak ==
  /\ FreedRetired
  /\ Dropped => /\ dropped \intersect retired = {}
                 /\ dropped \union retired = DOMAIN nodes

\* len() never shows fewer elements than there are, so is_empty() is right
\* when it says so; at rest it is exact (src/lfstd.rs:751-774).
LengthCovers ==
  /\ len >= Cardinality(Reachable)
  /\ is_empty => Reachable = {}
  /\ (\A t \in Threads : pc[t] = "idle") /\ Promised => len = Cardinality(Reachable)
=============================================================================
