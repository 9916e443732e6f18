---------------------------- MODULE MCSingleSize ----------------------------
(***************************************************************************)
(* Model checking of SingleSize.                                           *)
(***************************************************************************)
EXTENDS SingleSize, TLC

\* The threads run the same code, and no message is special.
Symmetry == Permutations(Threads) \union Permutations(Items)

\* The threads have made the calls the bound allows; any other state without
\* a successor is a deadlock.
Finished ==
  /\ \A t \in Threads : pc[t] = "idle"
  /\ calls = MaxCalls
  /\ UNCHANGED vars

MCSpec == Init /\ [][Next \/ Finished]_vars
=============================================================================
