--------------------------- MODULE BoundedQueueInv ---------------------------
(***************************************************************************)
(* The inductive invariant of the bounded queue: where each index is, what *)
(* its cell holds, and which calls the counter stands for at any moment.   *)
(***************************************************************************)
EXTENDS BoundedQueue

\* The threads that possess an index, and those that have added to the
\* counter and have neither put an index into the allocation ring nor
\* subtracted again.
Possessors == {t \in Threads : pc[t] \in EmptyHanded \union FullHanded}
Counted == {t \in Threads : pc[t] \in
              {"e_undo", "e_free", "e_write", "e_flag", "e_put", "g_used"}}

NoRepeat(ring) == \A j, k \in DOMAIN ring : ring[j].pos = ring[k].pos => j = k

\* No index is in two places ...
Apart ==
  /\ NoRepeat(free) /\ NoRepeat(alloc)
  /\ \A i \in Indices : ~(Stored(free, i) /\ Stored(alloc, i))
  /\ \A t \in Possessors : /\ pos[t] \in Indices
                           /\ ~Stored(free, pos[t]) /\ ~Stored(alloc, pos[t])
                           /\ \A u \in Possessors : pos[u] = pos[t] => u = t

\* ... and none is in no place.
Covered ==
  ~dropped => \A i \in Indices :
    Stored(free, i) \/ Stored(alloc, i) \/ \E t \in Possessors : pos[t] = i

\* An enqueue has its item until it has written it.
Carrying == \A t \in Threads : pc[t] \in {"e_used", "e_free", "e_write"} => item[t] \in Items

\* From then on it is in the cell, until the allocation ring has taken or
\* refused the index.
Written == \A t \in Threads : pc[t] \in {"e_flag", "e_put"} => backing[pos[t]] = item[t]

\* An entry that is not settled bears the name of the thread that put its
\* index there and is about to return.
SignedBy(ring, at, holds, step) ==
  \A j \in DOMAIN ring : ring[j].by # Nobody =>
    at[ring[j].by] = step /\ holds[ring[j].by] = ring[j].pos
Signed == SignedBy(free, pc, pos, "g_settle") /\ SignedBy(alloc, pc, pos, "e_settle")

\* The counter is exact at every moment, if the calls under way are counted,
\* and so are the lengths of the rings.
Balanced ==
  ~dropped => /\ used = Cardinality(Counted) + Len(alloc)
              /\ Len(free) + Len(alloc) + Cardinality(Possessors) = Capacity

\* When all slots of an open segment are spoken for, one of the enqueues
\* under way has seen that its slot is the last, and will close the segment.
LastSlotSeen ==
  Finalizes /\ ~FullAtFirst /\ ~closed /\ Cardinality(Admitted) + Len(alloc) = Capacity =>
    \E t \in Threads :
      /\ pc[t] \in {"e_free", "e_write", "e_flag", "e_put", "e_settle", "e_final"}
      /\ size[t] + 1 >= Capacity

\* Nothing is called on a queue that was dropped.
Gone ==
  dropped => /\ \A t \in Threads : pc[t] = "idle"
             /\ ~Crowded => /\ alloc = <<>>
                            /\ \A i \in Indices : backing[i] = NoItem

IInv ==
  /\ TypeOK
  /\ Apart /\ Covered
  /\ Carrying /\ Written /\ Initialized
  /\ Signed
  /\ Balanced /\ FreeGated
  /\ LastSlotSeen
  /\ Gone
=============================================================================
