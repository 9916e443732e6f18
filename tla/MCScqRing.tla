----------------------------- MODULE MCScqRing -----------------------------
(***************************************************************************)
(* Model checking of the ring on its own.                                  *)
(***************************************************************************)
EXTENDS ScqRingInv, TLC

\* The threads run the same code on the same ring.
Symmetry == Permutations(Threads)

\* The threads have made the calls the bound allows; any other state without
\* a successor is a deadlock.
Finished ==
  /\ \A t \in Threads : pc[t] = "idle"
  /\ calls = MaxCalls
  /\ UNCHANGED vars

MCSpec == Init /\ [][Next \/ Finished]_vars

MCFairSpec == MCSpec /\ Fairness
=============================================================================
