--------------------------- MODULE MCBoundedQueue ---------------------------
(***************************************************************************)
(* Model checking of BoundedQueue.                                         *)
(***************************************************************************)
EXTENDS BoundedQueueFifo, TLC

Bounded(n, c, d) ==
  [capacity |-> n, finalizes |-> FALSE, linked |-> FALSE, calls |-> c, dequeuers |-> d]
Segment(n, c, d)       == [Bounded(n, c, d) EXCEPT !.finalizes = TRUE]
LinkedSegment(n, c, d) == [Segment(n, c, d) EXCEPT !.linked = TRUE]

\* A bounded queue of one slot, segments of one and of two, these as an enqueue
\* links them, and a queue with more dequeues at a time than it withstands.
SmallShapes ==
  {Bounded(1, 8, 2), Segment(1, 6, 2), Segment(2, 5, 3),
   LinkedSegment(1, 5, 2), LinkedSegment(2, 4, 3), Bounded(1, 5, 3)}

OneSlot == {Bounded(1, 8, 2)}

\* The threads run the same code, and no item is special.
Symmetry == Permutations(Threads) \union Permutations(Items)

\* The queue was dropped; any other state without a successor is a deadlock.
Finished == dropped /\ UNCHANGED vars

MCSpec == Init /\ [][Next \/ Finished]_vars
=============================================================================
