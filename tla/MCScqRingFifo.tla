----------------------------- MODULE MCScqRingFifo -----------------------------
(***************************************************************************)
(* Model checking of the ring, of its invariant and of its refinement of   *)
(* IndexQueue.                                                             *)
(***************************************************************************)
EXTENDS ScqRingFifoInv, ScqRingWord, TLC

CONSTANTS
  AloneCalls,    \* the first calls, made one after the other, before others overlap
  ClosedCalls,   \* bound on the calls made until the ring is finalized, and then
  RefillCalls    \* bound on the calls made until a ring still open is refilled

ASSUME MCAssumption == {AloneCalls, ClosedCalls, RefillCalls} \subseteq 0 .. MaxCalls

\* The threads run the same code on the same ring.
Symmetry == Permutations(Threads)

\* The threads have made the calls the bounds allow; any other state without
\* a successor is a deadlock.
Finished ==
  /\ \A t \in Threads : pc[t] = "idle"
  /\ calls = IF is_finalized THEN ClosedCalls ELSE MaxCalls
  /\ UNCHANGED <<vars, history>>

\* Finalize and Refill are the steps of ScqRing that are whole calls.
MCNext ==
  /\ HNext
  /\ calls <= AloneCalls /\ calls' # calls => \A t \in Threads : pc[t] = "idle"
  /\ is_finalized' => calls' <= ClosedCalls
  /\ pc' = pc /\ calls' # calls /\ ~is_finalized' => calls' <= RefillCalls

MCSpec == HInit /\ [][MCNext \/ Finished]_<<vars, history>>
=============================================================================
