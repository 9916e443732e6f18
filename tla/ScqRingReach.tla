---------------------------- MODULE ScqRingReach ----------------------------
(***************************************************************************)
(* Why the threshold is enough: the invariants behind the answer None.     *)
(*                                                                         *)
(* A dequeue answers None after at most threshold + 1 failed tickets.  The *)
(* value 3 * Half - 1 that an enqueue stores must therefore be as much as  *)
(* the subtractions that are under way and the tickets between head and    *)
(* its index.  The invariants bound both; they see the ring as a set of    *)
(* indices at tickets.                                                     *)
(***************************************************************************)
EXTENDS ScqRingFifo, ScqRingInv

\* The indices in the ring with the tickets they were inserted at, and those
\* that an enqueue brings to the ticket it has taken.
InHand  == EnqBefore \ {"e_tail"}
Placed  == {<<TicketOf(s), array[s].idx>> : s \in {r \in Slots : IsLive(array[r])}}
Brought == {<<ticket[t], eidx[t]>> : t \in {u \in Threads : pc[u] \in InHand}}

\* The indices without a ticket.
Spare == pool \union {eidx[t] : t \in {u \in Threads : pc[u] = "e_tail"}}

Held(y) == \E i \in Indices : <<y, i>> \in Brought

\* Every ticket behind tail is used by one enqueue, for one index.
Issued ==
  \A p \in Placed \union Brought :
    /\ p[1] < tail
    /\ \A q \in Brought : q[1] = p[1] => q = p

\* The indices with a ticket from x on; and those a dequeue has claimed and
\* not taken out yet, so that their slot made an enqueue give up such a ticket.
Ahead(x)  == {i \in Indices : \E y \in x .. tail - 1 : <<y, i>> \in Placed \union Brought}
Blocks(x) == {i \in Indices : \E z \in 0 .. head - 1, y \in x .. tail - 1 :
                <<z, i>> \in Placed /\ Map(z) = Map(y) /\ ~Held(y)}
Credit(x) == Spare \union Ahead(x) \union Blocks(x)

\* Tail does not run away from head: a ticket from x on is in use or was given
\* up, and each index has been the obstacle at most once since head passed it.
Spread ==
  ~is_finalized => \A x \in head .. tail - 1 :
    tail - x < Cardinality(Ahead(x)) + Cardinality(Credit(x))

\* So an index is inserted near head, although the tickets that enqueues are
\* refused with on a finalized ring have no bound.
Near ==
  /\ is_finalized => Mode = 1
  /\ \A p \in Placed : p[1] <= head + N - 2
  /\ \A t \in Threads : pc[t] = "e_cas" => ticket[t] <= head + N - 2

\* The dequeues that are going to subtract from the threshold.
Owing ==
  {t \in Threads : \/ pc[t] \in {"d_tail", "d_none", "d_sub"} \union Catching
                   \/ pc[t] \in DeqSlot /\ ~Mine(t)}

\* The threshold outlasts these and the tickets before an index whose enqueue
\* has returned.
Restoring(y) == \E t \in Threads : pc[t] \in EnqAfter /\ ticket[t] = y

Enough ==
  \A p \in Placed : p[1] >= head /\ ~Restoring(p[1]) =>
    threshold >= Cardinality(Owing) + p[1] - head

\* With few enough dequeues at a time, an index whose enqueue has returned is
\* found before the threshold is used up (src/scq.rs:294, 332, 396, 400).
ReachInv ==
  /\ Issued
  /\ Spread
  /\ Near
  /\ Enough

\* The tickets at which a finalized ring holds an index that is not claimed,
\* or may still get one.
Due == {p[1] : p \in {q \in Placed : q[1] >= head}}
         \union {ticket[t] : t \in {u \in Threads : pc[u] = "e_cas" /\ ticket[u] >= head}}

\* What a finalized ring that was refilled or drained promises to the
\* unbounded queue (src/lfstd.rs:297-318): every ticket that is due has its
\* share of the refilled threshold, and a drained ring has none.
ClosedInv ==
  /\ refilled => is_finalized /\ \A y \in Due : threshold >= Cardinality(Owing) + y - head
  /\ drained => is_finalized /\ Due = {}
  /\ \A t \in Threads : mustFind[t] =>
       refilled /\ Unclaimed # {} /\ pc[t] \in DeqAll \ (Catching \union {"d_none"})
=============================================================================
