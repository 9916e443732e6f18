---------------------------- MODULE ScqRingFifo ----------------------------
(***************************************************************************)
(* ScqRing implements IndexQueue.  History variables record, for the       *)
(* operation each thread is in, what the abstract queue lets it answer;    *)
(* they constrain nothing.  Two more record what the unbounded queue does  *)
(* to the ring of a segment and relies on.                                 *)
(***************************************************************************)
EXTENDS ScqRing, Sequences

VARIABLES
  pre,       \* thread -> settled indices at the call of its enqueue, still there
  late,      \* thread -> its enqueue was called on a finalized ring
  mayFail,   \* thread -> the ring held no settled index during its dequeue
  drained,   \* a dequeue has found the finalized ring without an index
  refilled,  \* the threshold was refilled when the ring was finalized
  mustFind   \* thread -> it dequeues from a refilled ring that was never empty

history == <<pre, late, mayFail, drained, refilled, mustFind>>

\* The slots whose index no dequeue has claimed: head has not passed them.
Unclaimed == {s \in Slots : IsLive(array[s]) /\ TicketOf(s) >= head}

Inserting(s) == \E t \in Threads : pc[t] \in EnqAfter /\ ticket[t] = TicketOf(s)

IndexOf(S) == {array[s].idx : s \in S}
Settled    == IndexOf({s \in Unclaimed : ~Inserting(s)})

HInit ==
  /\ Init
  /\ pre = [t \in Threads |-> {}]
  /\ late = [t \in Threads |-> FALSE]
  /\ mayFail = [t \in Threads |-> FALSE]
  /\ drained = FALSE
  /\ refilled = FALSE
  /\ mustFind = [t \in Threads |-> FALSE]

Record ==
  /\ pre' = [t \in Threads |->
       CASE pc'[t] \in EnqBefore /\ pc[t] = "idle" -> Settled
         [] pc'[t] \in EnqBefore /\ pc[t] # "idle" -> pre[t] \intersect IndexOf(Unclaimed)'
         [] OTHER -> {}]
  /\ late' = [t \in Threads |->
       CASE pc'[t] \in EnqBefore /\ pc[t] = "idle" -> is_finalized
         [] pc'[t] \in EnqBefore /\ pc[t] # "idle" -> late[t]
         [] OTHER -> FALSE]
  /\ mayFail' = [t \in Threads |->
       /\ pc'[t] \in DeqAll
       /\ mayFail[t] \/ Settled' = {}]
  /\ drained' =
       \/ drained
       \/ /\ is_finalized
          /\ \E t \in Threads :
               \/ pc[t] = "d_tail" /\ pc'[t] = "c_cas"
               \/ refilled /\ pc[t] \in {"d_thr", "d_sub"} /\ pc'[t] = "idle"
  /\ refilled' = (refilled \/ (is_finalized /\ \E t \in Threads : Refill(t)))
  /\ mustFind' = [t \in Threads |->
       /\ pc'[t] \in DeqAll
       /\ IF pc[t] = "idle" THEN refilled ELSE mustFind[t]
       /\ Unclaimed' # {}]

HNext == Next /\ Record

HSpec == HInit /\ [][HNext]_<<vars, history>>

-----------------------------------------------------------------------------
(* The refinement mapping.                                                 *)

\* The tickets of these slots, and the j-th of a set of tickets.
Tickets    == {TicketOf(s) : s \in Unclaimed}
Rank(K, y) == Cardinality({x \in K : x < y})
Nth(K, j)  == CHOOSE y \in K : Rank(K, y) = j - 1

\* The indices that are not claimed, in the order of their tickets.
Queue == [j \in 1 .. Cardinality(Tickets) |-> array[Map(Nth(Tickets, j))].idx]

\* The live entry that carries the ticket of thread t, if there is one.
Mine(t) == LET e == array[Map(ticket[t])]
           IN  IsLive(e) /\ e.cyc = Cycle(ticket[t])

Op(t) ==
  CASE pc[t] = "idle" -> [kind |-> "idle"]
    [] pc[t] \in EnqBefore ->
         [kind |-> "enq", idx |-> eidx[t], pre |-> pre[t], late |-> late[t]]
    [] pc[t] \in EnqAfter /\ Mine(t) /\ ticket[t] >= head ->
         [kind |-> "put", idx |-> eidx[t]]
    [] pc[t] \in EnqAfter /\ ~(Mine(t) /\ ticket[t] >= head) ->
         [kind |-> "given"]
    [] pc[t] \in DeqSlot /\ Mine(t) ->
         [kind |-> "got", idx |-> array[Map(ticket[t])].idx]
    [] pc[t] \in DeqAll /\ ~(pc[t] \in DeqSlot /\ Mine(t)) ->
         [kind |-> "deq", mayFail |-> mayFail[t]]

Fifo == INSTANCE IndexQueue WITH
          queue <- Queue, settled <- Settled, closed <- is_finalized,
          op <- [t \in Threads |-> Op(t)]

\* The ring is a FIFO queue of indices for the threads that share it
\* (src/scq.rs:236-406): no index is lost, duplicated or overtaken by one
\* enqueued after its own enqueue returned, None is answered only if the ring
\* held no enqueued index at some moment of the call, and an enqueue called
\* on a finalized ring is refused.  This is Fifo!Spec; the steps that change
\* nothing the abstract queue shows, which are most, are looked for first.
FifoSpec == Fifo!Init /\ [][UNCHANGED Fifo!vars \/ Fifo!Next]_(Fifo!vars)

-----------------------------------------------------------------------------
(* What the unbounded queue relies on when it leaves a segment behind.     *)

\* Once a dequeue has been through all tickets of a finalized ring, or has
\* answered None after a refill, no index can be dequeued from it any more:
\* an enqueue that loaded the flag before has its ticket spent, and is refused
\* when it comes with a new one.
Drained == drained => Unclaimed = {}

\* A refilled threshold (src/lfstd.rs:297) is enough once the ring is
\* finalized: a dequeue called after it answers None only if the ring was
\* empty at some moment of its call, even if an enqueue has not restored the
\* threshold for its index yet.  (On an open ring it is not: dequeues that
\* keep spoiling the slot of one enqueue wear the threshold down again.)
RefillFinds ==
  [][\A t \in Threads :
       pc[t] \in {"d_thr", "d_none", "d_sub"} /\ pc'[t] = "idle" => ~mustFind[t]
    ]_<<vars, history>>
=============================================================================
