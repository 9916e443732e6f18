------------------------------ MODULE ItemQueue ------------------------------
(***************************************************************************)
(* What a BoundedQueue (src/scq.rs) promises to the threads that call it:  *)
(* a FIFO queue of items of a given capacity, in which each operation      *)
(* takes effect in one step between its call and its return.               *)
(*                                                                         *)
(* An item is handed over to the queue, or handed back to the thread that  *)
(* brought it: because the queue was closed, or because at some moment of  *)
(* the call the items in the queue and the other calls that have an item   *)
(* in hand would fill it.  A dequeue answers None only if at some moment   *)
(* every item in the queue is one whose enqueue has not returned yet.  The *)
(* queue may be handed to the threads with one item in it.                 *)
(***************************************************************************)
EXTENDS Naturals, Sequences, FiniteSets

CONSTANTS Threads, Items, Nobody

VARIABLES
  capacity,  \* how many items fit
  queue,     \* the items in order, with the thread whose enqueue is to return
  closed,    \* no item is accepted any more
  op         \* thread -> the operation it is in

vars == <<capacity, queue, closed, op>>

Entry(m, t) == [item |-> m, by |-> t]

Idle        == [kind |-> "idle"]
Enq(m)      == [kind |-> "enq", item |-> m]       \* brings an item
Admitted(m) == [kind |-> "admitted", item |-> m]  \* found the queue open
Put         == [kind |-> "put"]                   \* in the queue, not returned
Last        == [kind |-> "last"]                  \* about to close the queue
Deq         == [kind |-> "deq"]
Has(m)      == [kind |-> "has", item |-> m]       \* about to return an item

Is(t, kind) == op[t].kind = kind

\* The other threads that have an item in hand.
Busy(t) == {u \in Threads \ {t} : op[u].kind \in {"enq", "admitted", "has"}}

Init ==
  /\ capacity \in Nat \ {0}
  /\ queue = <<>> \/ \E m \in Items : queue = <<Entry(m, Nobody)>>
  /\ closed = FALSE
  /\ op = [t \in Threads |-> Idle]

Enqueue(t) ==
  /\ Is(t, "idle")
  /\ \E m \in Items : op' = [op EXCEPT ![t] = Enq(m)]
  /\ UNCHANGED <<capacity, queue, closed>>

Full(t) ==
  /\ Is(t, "enq")
  /\ Len(queue) + Cardinality(Busy(t)) >= capacity
  /\ op' = [op EXCEPT ![t] = Has(op[t].item)]
  /\ UNCHANGED <<capacity, queue, closed>>

Refuse(t) ==
  /\ Is(t, "enq") /\ closed
  /\ op' = [op EXCEPT ![t] = Has(op[t].item)]
  /\ UNCHANGED <<capacity, queue, closed>>

Admit(t) ==
  /\ Is(t, "enq") /\ ~closed
  /\ op' = [op EXCEPT ![t] = Admitted(op[t].item)]
  /\ UNCHANGED <<capacity, queue, closed>>

Insert(t) ==
  /\ Is(t, "admitted")
  /\ queue' = Append(queue, Entry(op[t].item, t))
  /\ op' = [op EXCEPT ![t] = Put]
  /\ UNCHANGED <<capacity, closed>>

Done(t) ==
  /\ Is(t, "put")
  /\ queue' = [j \in DOMAIN queue |->
                 IF queue[j].by = t THEN Entry(queue[j].item, Nobody) ELSE queue[j]]
  /\ \/ op' = [op EXCEPT ![t] = Idle]
     \/ op' = [op EXCEPT ![t] = Last]
  /\ UNCHANGED <<capacity, closed>>

Close(t) ==
  /\ Is(t, "last")
  /\ closed' = TRUE
  /\ op' = [op EXCEPT ![t] = Idle]
  /\ UNCHANGED <<capacity, queue>>

Dequeue(t) ==
  /\ Is(t, "idle")
  /\ op' = [op EXCEPT ![t] = Deq]
  /\ UNCHANGED <<capacity, queue, closed>>

Claim(t) ==
  /\ Is(t, "deq") /\ queue # <<>>
  /\ queue' = Tail(queue)
  /\ op' = [op EXCEPT ![t] = Has(Head(queue).item)]
  /\ UNCHANGED <<capacity, closed>>

None(t) ==
  /\ Is(t, "deq")
  /\ \A j \in DOMAIN queue : queue[j].by # Nobody
  /\ op' = [op EXCEPT ![t] = Idle]
  /\ UNCHANGED <<capacity, queue, closed>>

\* Some(item), or Err with the item that was brought.
Return(t) ==
  /\ Is(t, "has")
  /\ op' = [op EXCEPT ![t] = Idle]
  /\ UNCHANGED <<capacity, queue, closed>>

Drop ==
  /\ \A t \in Threads : Is(t, "idle")
  /\ queue' = <<>>
  /\ UNCHANGED <<capacity, closed, op>>

Next ==
  \/ \E t \in Threads :
       \/ Enqueue(t) \/ Full(t) \/ Refuse(t) \/ Admit(t) \/ Insert(t) \/ Done(t) \/ Close(t)
       \/ Dequeue(t) \/ Claim(t) \/ None(t) \/ Return(t)
  \/ Drop

Spec == Init /\ [][Next]_vars
=============================================================================
