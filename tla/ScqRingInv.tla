----------------------------- MODULE ScqRingInv -----------------------------
(***************************************************************************)
(* The inductive invariant of the ring.                                    *)
(*                                                                         *)
(* The words of the array are read, examined and then written by a         *)
(* compare_exchange or a fetch_or, several accesses later.  The invariant  *)
(* says what each thread still knows about its word at the moment it       *)
(* writes, although other threads have written it since.                   *)
(***************************************************************************)
EXTENDS ScqRing

\* The dequeue with ticket h is at work on its slot.
Looking(h) == \E t \in Threads : pc[t] \in DeqSlot /\ ticket[t] = h

\* Head has passed ticket h and its dequeue is done with the slot.
Passed(h) == h < head /\ ~Looking(h)

Word(t) == array[Map(ticket[t])]

\* Dequeues work on different tickets, all of them behind head.
TicketsOk ==
  \A t \in Threads : pc[t] \in DeqSlot =>
    /\ ticket[t] < head
    /\ \A u \in Threads : pc[u] \in DeqSlot /\ ticket[u] = ticket[t] => u = t

\* An entry was written for a ticket; a slot that was emptied or closed for a
\* ticket has been left by the dequeue with this ticket.
SlotsOk ==
  \A s \in Slots :
    /\ IsLive(array[s]) => array[s].cyc >= 0
    /\ ~IsLive(array[s]) /\ array[s].cyc >= 0 => Passed(TicketOf(s))

\* The entry that a dequeue is about to take is still there, and one that it
\* is about to swap was older than its ticket.
DequeueOk ==
  \A t \in Threads :
    /\ pc[t] = "d_or" => /\ IsLive(Word(t))
                         /\ Word(t).cyc = Cycle(ticket[t])
                         /\ Word(t).idx = entry[t].idx
    /\ pc[t] = "d_cas" => entry[t].cyc < Cycle(ticket[t])

\* An insertion chose a free entry of an older cycle; if the slot is in that
\* cycle still, it is free still (so the compare_exchange has no ABA problem).
EnqueueOk ==
  \A t \in Threads :
    /\ pc[t] \in EnqBefore => eidx[t] \in Indices
    /\ pc[t] \in {"e_head", "e_fin", "e_cas"} =>
         /\ ~IsLive(entry[t])
         /\ entry[t].cyc < Cycle(ticket[t])
         /\ Word(t).cyc >= entry[t].cyc
         /\ Word(t).cyc = entry[t].cyc => ~IsLive(Word(t))

\* A dequeue leaves its slot closed to its own ticket and the earlier ones:
\* by the cycle or by the safe bit.
ClosedBehindHead ==
  \A h \in 0 .. head - 1 :
    Passed(h) => array[Map(h)].cyc >= Cycle(h) \/ ~array[Map(h)].safe

\* An insertion whose compare_exchange can succeed is not too late: no
\* dequeue with its ticket, or a later one of the slot, has given the slot up.
InsertInTime ==
  \A t \in Threads : pc[t] \in {"e_fin", "e_cas"} /\ Word(t) = entry[t] =>
    \A h \in 0 .. head - 1 :
      Passed(h) /\ Map(h) = Map(ticket[t]) => Cycle(h) < Cycle(ticket[t])

\* What catchup() compares and stores: a head of the past, and a tail that is
\* not ahead of it when the compare_exchange is tried.
CatchupOk ==
  \A t \in Threads :
    /\ pc[t] \in DeqSlot \union {"d_tail"} => ticket[t] < head
    /\ pc[t] \in Catching => seen[t].head <= head
    /\ pc[t] = "c_cas" => seen[t].tail <= seen[t].head

\* The inductive invariant: what the threads inside enqueue() and dequeue()
\* rely on between two of their accesses (src/scq.rs:249-405).
IInv ==
  /\ TypeOK
  /\ TicketsOk
  /\ SlotsOk
  /\ DequeueOk
  /\ EnqueueOk
  /\ ClosedBehindHead
  /\ InsertInTime
  /\ CatchupOk
  /\ NoOrphan
  /\ Ownership
=============================================================================
