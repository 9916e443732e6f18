--------------------------- MODULE MCUnboundedFifo ---------------------------
(***************************************************************************)
(* Model checking of UnboundedQueue, of its refinement of IndexQueue and   *)
(* of the rounds of its calls.                                             *)
(***************************************************************************)
EXTENDS UnboundedRounds, TLC

\* Fresh queues of two segment sizes, a list of three segments, so that head
\* passes two of them, a queue with a single producer, one on which three
\* enqueues at a time link behind a full segment, and one with more dequeues at
\* a time than its segments withstand.
SmallStarts ==
  {[size |-> 1, filled |-> 0, calls |-> 5, enqueuers |-> 2, dequeuers |-> 2],
   [size |-> 2, filled |-> 0, calls |-> 4, enqueuers |-> 2, dequeuers |-> 3],
   [size |-> 1, filled |-> 3, calls |-> 3, enqueuers |-> 2, dequeuers |-> 2],
   [size |-> 2, filled |-> 1, calls |-> 5, enqueuers |-> 1, dequeuers |-> 3],
   [size |-> 1, filled |-> 1, calls |-> 3, enqueuers |-> 3, dequeuers |-> 1],
   [size |-> 1, filled |-> 2, calls |-> 3, enqueuers |-> 1, dequeuers |-> 3]}

\* A fresh queue of segments that hold two items.
FreshStart == {[size |-> 2, filled |-> 0, calls |-> 5, enqueuers |-> 2, dequeuers |-> 3]}

\* The threads run the same code on the same queue.
Symmetry == Permutations(Threads)

\* The queue was dropped and its memory given back; any other state without
\* a successor is a deadlock.
Finished ==
  /\ Dropped
  /\ retired \subseteq freed
  /\ UNCHANGED <<vars, history, counters>>

MCSpec == RInit /\ [][RNext \/ Finished]_<<vars, history, counters>>
=============================================================================
