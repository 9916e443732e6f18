----------------------------- MODULE IndexQueue -----------------------------
(***************************************************************************)
(* What a ring of src/scq.rs promises to the threads that call it: a FIFO  *)
(* queue of indices whose operations take effect between their invocation  *)
(* and their return.                                                       *)
(*                                                                         *)
(* An enqueue may put its index anywhere behind the indices whose enqueue  *)
(* had returned when it was invoked (the set pre of its record), so two    *)
(* concurrent enqueues may end up in either order.  A dequeue may answer   *)
(* None only if at some moment since its invocation the queue held no      *)
(* settled index, one whose enqueue has returned (mayFail).  An enqueue    *)
(* invoked after the queue was closed is refused.                          *)
(***************************************************************************)
EXTENDS Naturals, Sequences, SequencesExt

CONSTANTS Threads, Indices

VARIABLES
  queue,     \* the indices in the queue that no dequeue has claimed, in order
  settled,   \* those of them whose enqueue has returned
  closed,    \* no later enqueue is accepted
  op         \* thread -> the operation it is in

vars == <<queue, settled, closed, op>>

Idle == [kind |-> "idle"]
Enq(i, pre, late) == [kind |-> "enq", idx |-> i, pre |-> pre, late |-> late]
Put(i)       == [kind |-> "put", idx |-> i]       \* in the queue, not returned
Given        == [kind |-> "given"]                \* already claimed, not returned
Deq(mayFail) == [kind |-> "deq", mayFail |-> mayFail]
Got(i)       == [kind |-> "got", idx |-> i]

Is(t, kind) == op[t].kind = kind

\* The claim of index i by a dequeue, as the other operations see it.
Forget(o, i, rest) ==
  CASE o.kind = "put" /\ o.idx = i -> Given
    [] o.kind = "enq" -> [o EXCEPT !.pre = @ \ {i}]
    [] o.kind = "deq" -> [o EXCEPT !.mayFail = @ \/ rest = {}]
    [] OTHER -> o

Init ==
  /\ queue \in Seq(Indices) /\ IsInjective(queue)
  /\ settled = ToSet(queue)
  /\ closed = FALSE
  /\ op = [t \in Threads |-> Idle]

Enqueue(t) ==
  /\ Is(t, "idle")
  /\ \E i \in Indices \ ToSet(queue) :
       op' = [op EXCEPT ![t] = Enq(i, settled, closed)]
  /\ UNCHANGED <<queue, settled, closed>>

Insert(t) ==
  /\ Is(t, "enq") /\ ~op[t].late
  /\ \E k \in 1 .. Len(queue) + 1 :
       /\ \A j \in k .. Len(queue) : queue[j] \notin op[t].pre
       /\ queue' = InsertAt(queue, k, op[t].idx)
  /\ op' = [op EXCEPT ![t] = Put(op[t].idx)]
  /\ UNCHANGED <<settled, closed>>

\* The index goes straight to a dequeue that is waiting for it.
HandOver(t, d) ==
  /\ Is(t, "enq") /\ ~op[t].late /\ op[t].pre = {}
  /\ Is(d, "deq")
  /\ op' = [op EXCEPT ![t] = Given, ![d] = Got(op[t].idx)]
  /\ UNCHANGED <<queue, settled, closed>>

Refuse(t) ==
  /\ Is(t, "enq") /\ closed
  /\ op' = [op EXCEPT ![t] = Idle]
  /\ UNCHANGED <<queue, settled, closed>>

Done(t) ==
  /\ op[t].kind \in {"put", "given"}
  /\ settled' = IF Is(t, "put") THEN settled \union {op[t].idx} ELSE settled
  /\ op' = [op EXCEPT ![t] = Idle]
  /\ UNCHANGED <<queue, closed>>

Dequeue(t) ==
  /\ Is(t, "idle")
  /\ op' = [op EXCEPT ![t] = Deq(settled = {})]
  /\ UNCHANGED <<queue, settled, closed>>

Claim(d) ==
  /\ Is(d, "deq") /\ queue # <<>>
  /\ queue' = Tail(queue)
  /\ settled' = settled \ {Head(queue)}
  /\ op' = [t \in Threads |-> IF t = d THEN Got(Head(queue))
                                       ELSE Forget(op[t], Head(queue), settled')]
  /\ UNCHANGED closed

Some(t) ==
  /\ Is(t, "got")
  /\ op' = [op EXCEPT ![t] = Idle]
  /\ UNCHANGED <<queue, settled, closed>>

None(t) ==
  /\ Is(t, "deq") /\ op[t].mayFail
  /\ op' = [op EXCEPT ![t] = Idle]
  /\ UNCHANGED <<queue, settled, closed>>

Close == closed' = TRUE /\ UNCHANGED <<queue, settled, op>>

Next ==
  \/ Close
  \/ \E t \in Threads :
       \/ Enqueue(t) \/ Insert(t) \/ Refuse(t) \/ Done(t)
       \/ Dequeue(t) \/ Claim(t) \/ Some(t) \/ None(t)
       \/ \E d \in Threads : HandOver(t, d)

Spec == Init /\ [][Next]_vars
=============================================================================
