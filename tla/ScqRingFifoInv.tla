--------------------------- MODULE ScqRingFifoInv ---------------------------
(***************************************************************************)
(* Why the ring is a queue: what the calls in progress know about the      *)
(* tickets and about the operations of the abstract queue they belong to.  *)
(***************************************************************************)
EXTENDS ScqRingReach

\* The ticket of an insertion is never used again, its index stays in the slot
\* until head has passed it, and no other index ever comes there.
OwnTicket ==
  \A t \in Threads : pc[t] \in EnqAfter =>
    /\ ticket[t] < tail /\ ~Held(ticket[t])
    /\ \A i \in Indices : <<ticket[t], i>> \in Placed => i = eidx[t]
    /\ ticket[t] >= head => <<ticket[t], eidx[t]>> \in Placed
    /\ \A u \in Threads : pc[u] \in EnqAfter /\ ticket[u] = ticket[t] => u = t

\* The indices that had been enqueued when an enqueue was called have earlier
\* tickets than any it takes.
Overtaken ==
  \A t \in Threads : \A i \in pre[t] :
    /\ pc[t] \in EnqBefore
    /\ \E y \in head .. tail - 1 :
         <<y, i>> \in Placed /\ (pc[t] \in InHand => y < ticket[t])

\* An enqueue called on a finalized ring does not come to its compare_exchange.
LateRefused ==
  \A t \in Threads : late[t] => is_finalized /\ pc[t] \in EnqBefore \ {"e_cas"}

\* A dequeue that has found tail behind its ticket has met an empty ring.
MetEmpty ==
  \A t \in Threads :
    /\ mayFail[t] \in BOOLEAN
    /\ mayFail[t] => pc[t] \in DeqAll
    /\ pc[t] \in DeqAll /\ Settled = {} => mayFail[t]
    /\ pc[t] \in Catching \union {"d_none"} => mayFail[t]

\* With IInv and ReachInv, what makes every step one of the abstract queue:
\* an index cannot be overtaken by one enqueued after it (src/scq.rs:249-299),
\* and None is answered only after a moment at which the ring held no index
\* whose enqueue had returned (src/scq.rs:332, 389-401).
CallInv ==
  /\ OwnTicket
  /\ Overtaken
  /\ LateRefused
  /\ MetEmpty
=============================================================================
