--------------------------- MODULE UnboundedRounds ---------------------------
(***************************************************************************)
(* How often a call on the unbounded queue goes around.  The loops of      *)
(* enqueue() and dequeue() have no bound of their own; history variables   *)
(* count the rounds of each call, and constrain nothing.                   *)
(***************************************************************************)
EXTENDS UnboundedInv

VARIABLES
  rounds,    \* thread -> how often its call went around
  since      \* thread -> what the list was when it was called: its end for an
             \* enqueue, head for a dequeue

counters == <<rounds, since>>

GoesAround(t) == pc[t] # "idle" /\ pc'[t] # pc[t] /\ pc'[t] \in {"e_tail", "d_head"}

RInit ==
  /\ HInit
  /\ rounds = [t \in Threads |-> 0]
  /\ since = [t \in Threads |-> 0]

Count ==
  /\ rounds' = [t \in Threads |->
       CASE pc'[t] = "idle" -> 0
         [] pc'[t] # "idle" /\ GoesAround(t) -> rounds[t] + 1
         [] OTHER -> rounds[t]]
  /\ since' = [t \in Threads |->
       CASE pc'[t] = "idle" -> 0
         [] pc[t] = "idle" /\ pc'[t] = "e_tail" -> End
         [] pc[t] = "idle" /\ pc'[t] = "d_head" -> head
         [] OTHER -> since[t]]

RNext == HNext /\ Count

RSpec == RInit /\ [][RNext]_<<vars, history, counters>>

\* An enqueue goes around at most twice for each segment that others have
\* linked since it was called, and once for one that tail had not come to: it
\* moves a tail that lags behind instead of waiting for the one that linked
\* (src/lfstd.rs:193-206).  A dequeue goes around once for each segment that
\* head has left since it was called (src/lfstd.rs:315).  So no call spins
\* while the list stays as it is.
LockFree ==
  \A t \in Threads :
    /\ pc[t] \in EnqPC => rounds[t] <= 2 * (End - since[t]) + 1
    /\ pc[t] \in DeqPC => rounds[t] <= head - since[t]

-----------------------------------------------------------------------------
(* Why it is so.                                                           *)

\* The rounds that an enqueue can have made when the pointer it loads, or has
\* loaded, is n.  A tail that lagged behind at its call costs one round, and
\* each node linked since then two: one to lose the race for the link, and one
\* to move tail on.
Owed(t, n) ==
  \/ n = since[t] - 1 /\ rounds[t] = 0
  \/ n >= since[t] /\ rounds[t] <= 2 * (n - since[t]) + 1
  \/ n >= since[t] /\ n < End /\ rounds[t] <= 2 * (n - since[t]) + 2

RoundsInv ==
  \A t \in Threads :
    /\ rounds[t] \in Nat /\ since[t] \in 0 .. End
    /\ pc[t] = "idle" => rounds[t] = 0
    /\ pc[t] = "e_tail" => Owed(t, tail)
    /\ pc[t] = "e_next" => Owed(t, cur[t])
    /\ pc[t] \in EnqPC \ {"e_tail", "e_next"} =>
         since[t] <= cur[t] /\ rounds[t] <= 2 * (cur[t] - since[t]) + 1
    /\ pc[t] = "d_head" => rounds[t] <= head - since[t]
    /\ pc[t] \in DeqPC \ {"d_head"} => rounds[t] <= cur[t] - since[t]
=============================================================================
