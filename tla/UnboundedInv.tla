---------------------------- MODULE UnboundedInv ----------------------------
(***************************************************************************)
(* The inductive invariant of the unbounded queue: where the pointers of   *)
(* the threads may point, where each item is, what the counters of a       *)
(* segment stand for at any moment, and what a segment that got a          *)
(* successor can no longer do.                                             *)
(***************************************************************************)
EXTENDS UnboundedFifo

\* As Segment, without the bounds that follow from Balanced.
LooseSegment ==
  [queue : Seq(1 .. MaxItem), closed : BOOLEAN, refilled : BOOLEAN, used : Int, free : Nat]

LocalType ==
  /\ pc \in [Threads -> {"idle"} \union EnqPC \union DeqPC]
  /\ item \in [Threads -> 0 .. MaxItem]
  /\ cur \in [Threads -> 0 .. End]
  /\ size \in [Threads -> Nat]

LooseType ==
  /\ start \in Starts
  /\ nodes \in Seq(LooseSegment)
  /\ head \in 1 .. End /\ tail \in 1 .. End
  /\ retired \subseteq 1 .. End /\ freed \subseteq 1 .. End
  /\ dropped \subseteq 1 .. End
  /\ calls \in 0 .. MaxItem
  /\ LocalType

\* Between calls a thread protects nothing; once it has loaded head or tail,
\* that pointer never falls behind the node it works on; and whoever is
\* about to move a pointer on works on a node that has a successor.
Pointers ==
  \A t \in Threads :
    /\ pc[t] = "idle" => cur[t] = Null
    /\ pc[t] \notin {"idle", "e_tail", "d_head"} => cur[t] # Null
    /\ pc[t] \in EnqPC => cur[t] <= tail
    /\ pc[t] \in DeqPC => cur[t] <= head
    /\ pc[t] \in {"d_again", "d_move", "e_fix"} => cur[t] < End

\* Whoever goes around again has met a successor, or a head that moved.
GoneAround ==
  \A t \in Threads : cur[t] # Null =>
    /\ pc[t] = "e_tail" => cur[t] < End
    /\ pc[t] = "d_head" => cur[t] < head

\* A single producer finds tail at the end of the list whenever it loads it.
Sole ==
  start.enqueuers = 1 =>
    /\ \A t, u \in Enqueuers : t = u
    /\ tail = End \/ \E t \in Threads : pc[t] = "e_fix" /\ cur[t] = tail

\* Nobody is at work on a queue that was dropped.
Gone == Dropped => \A t \in Threads : pc[t] = "idle"

\* The item of a call that has yet to hand it over, or that has taken it.
Stored(q, i) == \E j \in DOMAIN q : q[j] = i
NoRepeat(q)  == \A j, k \in DOMAIN q : q[j] = q[k] => j = k
Holders      == {t \in Threads : pc[t] \in EnqBefore \union Claimed}

\* An item is in one place: in one segment, once, or with one thread.
OneSegment ==
  /\ \A n \in 1 .. End : NoRepeat(nodes[n].queue)
  /\ \A m, n \in 1 .. End : \A i \in 1 .. MaxItem :
       Stored(nodes[m].queue, i) /\ Stored(nodes[n].queue, i) => m = n
HeldApart ==
  \A t \in Holders :
    /\ \A n \in 1 .. End : ~Stored(nodes[n].queue, item[t])
    /\ \A u \in Holders : item[u] = item[t] => u = t

\* Items are numbered by the calls that have been made ...
Numbered ==
  /\ \A n \in 1 .. End : \A i \in 1 .. MaxItem : Stored(nodes[n].queue, i) => i <= calls
  /\ \A t \in Threads : pc[t] \in EnqPC \union Claimed => item[t] \in 1 .. calls
  /\ \A t, u \in Enqueuers : item[u] = item[t] => u = t

\* ... and an insertion that has yet to return is in the segment it works on.
SettlesHere ==
  \A t \in Threads : pc[t] = "e_settle" =>
    \A n \in 1 .. End : Stored(nodes[n].queue, item[t]) => n = cur[t]

\* The threads that the counter of segment n, or the free indices it lacks,
\* stand for.
At(n, steps) == {t \in Threads : pc[t] \in steps /\ cur[t] = n}
UsedBy == {"e_undo", "e_free", "e_flag", "e_put", "g_used", "d_used"}
HeldBy == {"e_flag", "e_put", "g_used", "g_free", "d_used", "d_free"}

Balanced ==
  \A n \in 1 .. End :
    /\ nodes[n].used = Len(nodes[n].queue) + Cardinality(At(n, UsedBy))
    /\ nodes[n].free + Len(nodes[n].queue) + Cardinality(At(n, HeldBy)) = Capacity

\* The items that the length stands for.
Live == {i \in 1 .. MaxItem :
           \/ \E n \in 1 .. End : Stored(nodes[n].queue, i)
           \/ \E t \in Holders : item[t] = i}
Counted == length = Cardinality(Live)

\* A segment that has a successor is closed, and one whose threshold was
\* refilled is: otherwise a segment was left open to an insertion under way.
RefilledClosed == \A n \in 1 .. End : nodes[n].refilled => nodes[n].closed
PassedClosed ==
  ~spilled => \A n \in 1 .. End : n < End => nodes[n].closed \/ At(n, Adding) = {}
RetriedRefilled ==
  ~spilled => \A t \in Threads : pc[t] = "d_again" =>
    nodes[cur[t]].refilled \/ At(cur[t], Adding) = {}

\* A segment that a dequeue gave up for empty stays so.  In a crowd it may have
\* been given up too soon.
Exhausted(n) ==
  /\ nodes[n].queue = <<>>
  /\ \/ nodes[n].closed /\ At(n, {"e_put"}) = {}
     \/ At(n, Adding) = {}
GivenUp ==
  Promised => /\ \A t \in Threads : pc[t] = "d_move" => Exhausted(cur[t])
              /\ \A n \in retired : Exhausted(n)

IInv ==
  /\ LooseType
  /\ Pointers /\ GoneAround /\ TailLag /\ HeadKept /\ Sole
  /\ FreedRetired /\ Gone /\ NoLeak /\ Protected
  /\ OneSegment /\ HeldApart /\ Numbered /\ SettlesHere
  /\ Balanced /\ Counted
  /\ spilled \in BOOLEAN
  /\ RefilledClosed /\ PassedClosed /\ RetriedRefilled /\ GivenUp

-----------------------------------------------------------------------------
(* Why the queue is one FIFO queue.                                        *)

\* What is in a segment that tail has not come to was put there by the enqueue
\* that linked it, and that is about to move tail on.
BehindTail ==
  \A n \in tail + 1 .. End : \A i \in 1 .. MaxItem :
    Stored(nodes[n].queue, i) =>
      \E t \in Threads : pc[t] = "e_fix" /\ item[t] = i /\ cur[t] = n - 1

\* What had been enqueued when an enqueue was called is not in a later segment
\* than the one it works on.
Overtaken ==
  \A t \in Threads : \A i \in pre[t] :
    /\ pc[t] \in EnqBefore
    /\ \E n \in head .. tail :
         Stored(nodes[n].queue, i) /\ (pc[t] # "e_tail" => n <= cur[t])

\* A dequeue that is about to answer None has met a queue without an item whose
\* enqueue had returned.
MetEmpty ==
  \A t \in Threads :
    /\ mayFail[t] \in BOOLEAN
    /\ mayFail[t] => pc[t] \in DeqPC
    /\ pc[t] \in DeqPC /\ Returned = {} => mayFail[t]
    /\ ~Crowded /\ pc[t] = "d_next" /\ cur[t] = End => mayFail[t]

\* With IInv, what makes every step one of the abstract queue: an item goes
\* behind those whose enqueue had returned, though the segment it goes to may
\* have a successor by then (src/lfstd.rs:193-244), and the only segment left is
\* found empty before None is answered (src/lfstd.rs:283-289).
CallInv == BehindTail /\ Overtaken /\ MetEmpty
=============================================================================
