--------------------------- MODULE BoundedQueueFifo ---------------------------
(***************************************************************************)
(* BoundedQueue implements ItemQueue: the allocation ring, with the cells  *)
(* its indices name, is the queue of items; what a thread has in hand is   *)
(* in its own variable or in the cell of the index it possesses.           *)
(***************************************************************************)
EXTENDS BoundedQueueInv

Queue == [j \in DOMAIN alloc |-> [item |-> backing[alloc[j].pos], by |-> alloc[j].by]]

Op(t) ==
  CASE pc[t] = "idle" -> [kind |-> "idle"]
    [] pc[t] \in {"e_used", "e_free", "e_write", "e_flag"} ->
         [kind |-> "enq", item |-> item[t]]
    [] pc[t] = "e_put"    -> [kind |-> "admitted", item |-> item[t]]
    [] pc[t] = "e_settle" -> [kind |-> "put"]
    [] pc[t] = "e_final"  -> [kind |-> "last"]
    [] pc[t] = "d_alloc"  -> [kind |-> "deq"]
    [] pc[t] \in {"g_used", "g_read"} -> [kind |-> "has", item |-> backing[pos[t]]]
    [] pc[t] \in {"e_undo", "g_put", "g_settle"} -> [kind |-> "has", item |-> item[t]]

Ops == [t \in Threads |-> Op(t)]

Fifo == INSTANCE ItemQueue WITH capacity <- Capacity, queue <- Queue, op <- Ops

\* The bounded queue is a FIFO queue of items for the threads that share it
\* (src/scq.rs:699-766): no item is lost, duplicated, overtaken or exchanged
\* for another one, a refused enqueue gives its own item back although it
\* reads it from a shared cell, it is refused only if the queue was closed or,
\* with the calls under way, full, and None is answered only if no item in the
\* queue was settled; if no more than capacity + 1 dequeues are made at a time.
FifoSpec == Fifo!Init /\ [][Crowded \/ Fifo!Next]_<<Fifo!vars>>
=============================================================================
