-------------------------- MODULE BoundedQueueFull --------------------------
(***************************************************************************)
(* When does enqueue() of a bounded queue report that the queue is full?   *)
(* A history variable records, for every enqueue, whether the queue was    *)
(* full at some moment of the call; it constrains nothing.                 *)
(***************************************************************************)
EXTENDS MCBoundedQueue

VARIABLE wasFull     \* thread -> the queue was full at some moment of its call

\* The slots that are not free, in the widest sense: the elements in the
\* queue, those that an enqueue may still add, and those that a dequeue has
\* taken and not made room for.
Occupied ==
  Len(alloc) + Cardinality(Admitted)
    + Cardinality({t \in Threads : pc[t] \in {"g_used", "g_read", "g_put", "g_settle"}})

FInit == Init /\ wasFull = [t \in Threads |-> FALSE]

Record ==
  wasFull' = [t \in Threads |->
    /\ pc'[t] # "idle"
    /\ wasFull[t] \/ Occupied >= Capacity \/ Occupied' >= Capacity]

FNext == (Next /\ Record) \/ (Finished /\ UNCHANGED wasFull)

FSpec == FInit /\ [][FNext]_<<vars, wasFull>>

\* QueueFull means "The queue is full of elements." (src/scq.rs:448): it is
\* returned only if the queue was full at some moment of the call.
FullWhenFull ==
  \A t \in Threads : pc[t] = "e_undo" => wasFull[t]
=============================================================================
