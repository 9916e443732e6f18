----------------------- MODULE BoundedQueueFifoProofs -----------------------
(***************************************************************************)
(* BoundedQueue implements ItemQueue, for any threads, items, capacity and *)
(* interleaving, if no more than capacity + 1 dequeues are made at a time: *)
(* every initial state shows an initial state of ItemQueue, and every step *)
(* a step of it or nothing.                                                *)
(***************************************************************************)
EXTENDS BoundedQueueFifo, BoundedQueueProofs

-----------------------------------------------------------------------------
(* What a step of one thread lets the abstract queue see.                  *)

\* The operation that each step of the code belongs to.
LEMMA OpAt ==
  ASSUME NEW t \in Threads
  PROVE  /\ pc[t] = "idle" => Op(t) = [kind |-> "idle"]
         /\ pc[t] \in {"e_used", "e_free", "e_write", "e_flag"} =>
              Op(t) = [kind |-> "enq", item |-> item[t]]
         /\ pc[t] = "e_put" => Op(t) = [kind |-> "admitted", item |-> item[t]]
         /\ pc[t] = "e_settle" => Op(t) = [kind |-> "put"]
         /\ pc[t] = "e_final" => Op(t) = [kind |-> "last"]
         /\ pc[t] = "d_alloc" => Op(t) = [kind |-> "deq"]
         /\ pc[t] \in {"g_used", "g_read"} =>
              Op(t) = [kind |-> "has", item |-> backing[pos[t]]]
         /\ pc[t] \in {"e_undo", "g_put", "g_settle"} =>
              Op(t) = [kind |-> "has", item |-> item[t]]
  BY DEF Op

\* The same of the next state.
LEMMA OpNext ==
  ASSUME NEW t \in Threads
  PROVE  /\ pc'[t] = "idle" => Op(t)' = [kind |-> "idle"]
         /\ pc'[t] \in {"e_used", "e_free", "e_write", "e_flag"} =>
              Op(t)' = [kind |-> "enq", item |-> item'[t]]
         /\ pc'[t] = "e_put" => Op(t)' = [kind |-> "admitted", item |-> item'[t]]
         /\ pc'[t] = "e_settle" => Op(t)' = [kind |-> "put"]
         /\ pc'[t] = "e_final" => Op(t)' = [kind |-> "last"]
         /\ pc'[t] = "d_alloc" => Op(t)' = [kind |-> "deq"]
         /\ pc'[t] \in {"g_used", "g_read"} =>
              Op(t)' = [kind |-> "has", item |-> backing'[pos'[t]]]
         /\ pc'[t] \in {"e_undo", "g_put", "g_settle"} =>
              Op(t)' = [kind |-> "has", item |-> item'[t]]
  BY DEF Op

\* Only the thread that steps changes its operation.
LEMMA OpsStep ==
  ASSUME IInv, NEW t \in Threads, EnqCall(t) \/ DeqCall(t) \/ Step(t)
  PROVE  /\ Ops' = [Ops EXCEPT ![t] = Op(t)'] /\ Ops[t] = Op(t)
         /\ Capacity' = Capacity
         /\ Op(t)' = Op(t) => Ops' = Ops
  <1>0. LocalType /\ Capacity' = Capacity
    BY TypeParts, SameShape DEF Next, IInv
  <1>1. \A u \in Threads : u # t => pc'[u] = pc[u] /\ pos'[u] = pos[u] /\ item'[u] = item[u]
    BY <1>0 DEF LocalType, Step, Goto, Return, Call, local, EnqCall, EnqUsed, EnqUndo, EnqFree,
       EnqWrite, EnqFlag, EnqPut, EnqSettle, EnqFinal, DeqCall, DeqAlloc, GiveUsed, GiveRead,
       GivePut, GiveSettle
  <1>2. ASSUME NEW u \in Threads, u # t PROVE Op(u)' = Op(u)
    <2>1. pc[u] \in {"g_used", "g_read"} => backing'[pos[u]] = backing[pos[u]]
      <3> SUFFICES ASSUME pc[u] \in {"g_used", "g_read"}
                   PROVE  backing'[pos[u]] = backing[pos[u]]
        OBVIOUS
      <3>1. u \in Possessors
        BY DEF Possessors, FullHanded
      <3>2. pos[u] \in Indices /\ (t \in Possessors => pos[u] # pos[t])
        BY <1>2, <3>1 DEF IInv, Apart
      <3> QED BY <3>2, CellsStep DEF IInv
    <2>2. pc[u] \in PC
      BY <1>0 DEF LocalType
    <2> QED BY <1>1, <1>2, <2>1, <2>2, OpAt, OpNext DEF PC, EmptyHanded, FullHanded
  <1>3. Ops' = [u \in Threads |-> Op(u)']
    BY DEF Ops
  <1>4. Ops = [u \in Threads |-> Op(u)]
    BY DEF Ops
  <1>5. Ops' = [Ops EXCEPT ![t] = Op(t)']
    BY <1>2, <1>3, <1>4
  <1>6. Op(t)' = Op(t) => Ops' = Ops
    BY <1>2, <1>3, <1>4
  <1> QED BY <1>0, <1>4, <1>5, <1>6

\* The cells of the indices in the allocation ring are not written.
LEMMA RingCells ==
  ASSUME IInv, NEW t \in Threads, EnqCall(t) \/ DeqCall(t) \/ Step(t)
  PROVE  \A j \in DOMAIN alloc : backing'[alloc[j].pos] = backing[alloc[j].pos]
  <1> SUFFICES ASSUME NEW j \in DOMAIN alloc
               PROVE  backing'[alloc[j].pos] = backing[alloc[j].pos]
    OBVIOUS
  <1>1. alloc[j] \in Entry
    BY LenProperties DEF IInv, TypeOK
  <1>2. alloc[j].pos \in Indices /\ Stored(alloc, alloc[j].pos)
    BY <1>1 DEF Entry, Stored
  <1>3. t \in Possessors => alloc[j].pos # pos[t]
    BY <1>2 DEF IInv, Apart
  <1> QED BY <1>2, <1>3, CellsStep DEF IInv

\* So the queue of items is the same if the ring is, ...
LEMMA QueueSame ==
  ASSUME IInv, NEW t \in Threads, EnqCall(t) \/ DeqCall(t) \/ Step(t), alloc' = alloc
  PROVE  Queue' = Queue
  BY RingCells DEF Queue

\* ... loses its first item when the ring loses its first entry, ...
LEMMA QueueTail ==
  ASSUME IInv, NEW t \in Threads, Step(t), alloc # <<>>, alloc' = Tail(alloc)
  PROVE  Queue # <<>> /\ Queue' = Tail(Queue) /\ Head(Queue).item = backing[Head(alloc).pos]
  <1>1. /\ alloc \in Seq(Entry) /\ Tail(alloc) \in Seq(Entry) /\ Head(alloc) = alloc[1]
        /\ Len(Tail(alloc)) = Len(alloc) - 1
        /\ \A j \in 1 .. Len(Tail(alloc)) : Tail(alloc)[j] = alloc[j + 1]
    BY HeadTailProperties DEF IInv, TypeOK
  <1>2. /\ Len(alloc) \in Nat /\ Len(alloc) > 0
        /\ DOMAIN alloc = 1 .. Len(alloc) /\ DOMAIN Tail(alloc) = 1 .. Len(alloc) - 1
    BY <1>1, EmptySeq, LenProperties
  <1> DEFINE Shown(e) == [item |-> backing[e.pos], by |-> e.by]
             All == {Shown(alloc[j]) : j \in 1 .. Len(alloc)}
  <1>3. Queue = [j \in 1 .. Len(alloc) |-> Shown(alloc[j])]
    BY <1>2 DEF Queue
  <1>4. Queue \in Seq(All)
    BY <1>2, <1>3, SeqDef
  <1>5. Len(Queue) = Len(alloc) /\ DOMAIN Queue = 1 .. Len(alloc)
    BY <1>2, <1>3, <1>4, LenProperties
  <1>6. Queue # <<>>
    BY <1>2, <1>5, EmptySeq
  <1>7. /\ Tail(Queue) \in Seq(All) /\ Head(Queue) = Queue[1]
        /\ Len(Tail(Queue)) = Len(Queue) - 1
        /\ \A j \in 1 .. Len(Tail(Queue)) : Tail(Queue)[j] = Queue[j + 1]
    BY <1>4, <1>6, HeadTailProperties
  <1>8. Tail(Queue) = [j \in 1 .. Len(alloc) - 1 |-> Shown(alloc[j + 1])]
    <2>1. DOMAIN Tail(Queue) = 1 .. Len(alloc) - 1 /\ Len(Tail(Queue)) = Len(alloc) - 1
      BY <1>2, <1>5, <1>7, LenProperties
    <2>2. Tail(Queue) = [j \in 1 .. Len(alloc) - 1 |-> Tail(Queue)[j]]
      <3>1. Tail(Queue) \in [1 .. Len(Tail(Queue)) -> All]
        BY <1>7, LenProperties
      <3> QED BY <2>1, <3>1
    <2>3. \A j \in 1 .. Len(alloc) - 1 : Tail(Queue)[j] = Shown(alloc[j + 1])
      BY <1>2, <1>3, <1>7, <2>1
    <2> QED BY <2>2, <2>3
  <1>9. Queue' = [j \in 1 .. Len(alloc) - 1 |-> Shown(alloc[j + 1])]
    <2>1. \A j \in 1 .. Len(alloc) - 1 :
            /\ Tail(alloc)[j] = alloc[j + 1]
            /\ backing'[alloc[j + 1].pos] = backing[alloc[j + 1].pos]
      BY <1>1, <1>2, RingCells
    <2>2. Queue' = [j \in 1 .. Len(alloc) - 1 |->
                      [item |-> backing'[Tail(alloc)[j].pos], by |-> Tail(alloc)[j].by]]
      BY <1>2 DEF Queue
    <2> QED BY <2>1, <2>2
  <1> QED BY <1>1, <1>2, <1>3, <1>6, <1>7, <1>8, <1>9

\* ... and gains one when it gains one.
LEMMA QueueAppend ==
  ASSUME IInv, NEW t \in Threads, Step(t), alloc' = Append(alloc, At(pos[t], t)),
         pc[t] = "e_put"
  PROVE  Queue' = Append(Queue, [item |-> item[t], by |-> t])
  <1>1. pos[t] \in Indices /\ backing'[pos[t]] = item[t]
    <2>1. t \in Possessors
      BY DEF Possessors, FullHanded
    <2>2. backing' = backing
      BY DEF Step, Goto, EnqUsed, EnqUndo, EnqFree, EnqWrite, EnqFlag, EnqPut, EnqSettle,
         EnqFinal, DeqAlloc, GiveUsed, GiveRead, GivePut, GiveSettle
    <2> QED BY <2>1, <2>2 DEF IInv, Apart, Written
  <1>2. At(pos[t], t) \in Entry /\ At(pos[t], t).pos = pos[t] /\ At(pos[t], t).by = t
    BY <1>1 DEF At, Entry
  <1>3. /\ alloc \in Seq(Entry) /\ alloc' \in Seq(Entry)
        /\ Len(alloc') = Len(alloc) + 1
        /\ \A j \in 1 .. Len(alloc) : alloc'[j] = alloc[j]
        /\ alloc'[Len(alloc) + 1] = At(pos[t], t)
    BY <1>2, AppendProperties DEF IInv, TypeOK
  <1>4. /\ Len(alloc) \in Nat
        /\ DOMAIN alloc = 1 .. Len(alloc) /\ DOMAIN alloc' = 1 .. Len(alloc) + 1
    BY <1>3, LenProperties
  <1> DEFINE Shown(e) == [item |-> backing[e.pos], by |-> e.by]
             new == [item |-> item[t], by |-> t]
             All == {Shown(alloc[j]) : j \in 1 .. Len(alloc)} \union {new}
  <1>5. Queue = [j \in 1 .. Len(alloc) |-> Shown(alloc[j])]
    BY <1>4 DEF Queue
  <1>6. Queue \in Seq(All)
    BY <1>4, <1>5, SeqDef
  <1>7. Len(Queue) = Len(alloc)
    BY <1>4, <1>5, <1>6, LenProperties
  <1>8. /\ Append(Queue, new) \in Seq(All) /\ Len(Append(Queue, new)) = Len(alloc) + 1
        /\ \A j \in 1 .. Len(alloc) : Append(Queue, new)[j] = Queue[j]
        /\ Append(Queue, new)[Len(alloc) + 1] = new
    BY <1>6, <1>7, AppendProperties
  <1>9. Append(Queue, new) = [j \in 1 .. Len(alloc) + 1 |-> Append(Queue, new)[j]]
    BY <1>4, <1>8, SeqDef, LenProperties
  <1>10. Queue' = [j \in 1 .. Len(alloc) + 1 |->
                     [item |-> backing'[alloc'[j].pos], by |-> alloc'[j].by]]
    BY <1>4 DEF Queue
  <1>11. ASSUME NEW j \in 1 .. Len(alloc) + 1
         PROVE  [item |-> backing'[alloc'[j].pos], by |-> alloc'[j].by] = Append(Queue, new)[j]
    <2>1. CASE j = Len(alloc) + 1
      BY <1>1, <1>2, <1>3, <1>8, <2>1
    <2>2. CASE j # Len(alloc) + 1
      <3>1. j \in 1 .. Len(alloc) /\ j \in DOMAIN alloc
        BY <1>4, <2>2
      <3>2. alloc'[j] = alloc[j] /\ Append(Queue, new)[j] = Shown(alloc[j])
        BY <1>3, <1>5, <1>8, <3>1
      <3>3. backing'[alloc[j].pos] = backing[alloc[j].pos]
        BY <3>1, RingCells
      <3> QED BY <3>2, <3>3
    <2> QED BY <2>1, <2>2
  <1> HIDE DEF new
  <1> QED BY <1>9, <1>10, <1>11 DEF new

\* Its length is that of the ring.
LEMMA QueueLength ==
  ASSUME IInv
  PROVE  Len(Queue) = Len(alloc) /\ Len(alloc) \in Nat /\ (alloc = <<>> => Queue = <<>>)
  <1>1. alloc \in Seq(Entry) /\ Len(alloc) \in Nat /\ DOMAIN alloc = 1 .. Len(alloc)
    BY LenProperties DEF IInv, TypeOK
  <1> DEFINE Shown(j) == [item |-> backing[alloc[j].pos], by |-> alloc[j].by]
             All == {Shown(j) : j \in 1 .. Len(alloc)}
  <1>2. Queue = [j \in 1 .. Len(alloc) |-> Shown(j)]
    BY <1>1 DEF Queue
  <1>3. Queue \in Seq(All)
    BY <1>1, <1>2, SeqDef
  <1>4. Len(Queue) = Len(alloc)
    BY <1>1, <1>2, <1>3, LenProperties
  <1> QED BY <1>1, <1>3, <1>4, EmptySeq

-----------------------------------------------------------------------------
(* A queue that answers QueueFull is full, with the calls under way.       *)

\* The abstract queue counts with the same operator.
LEMMA SameCardinality == \A S : Fifo!Cardinality(S) = Cardinality(S)
  BY DEF Fifo!Cardinality, Cardinality

\* The threads with an item in hand, from the steps they are at.
LEMMA BusyAt ==
  ASSUME NEW t \in Threads
  PROVE  /\ IsFiniteSet(Fifo!Busy(t)) /\ Cardinality(Fifo!Busy(t)) \in Nat
         /\ \A u \in Threads \ {t} :
              pc[u] \in {"e_used", "e_free", "e_write", "e_flag", "e_put", "g_used", "g_read",
                        "e_undo", "g_put", "g_settle"} => u \in Fifo!Busy(t)
  <1>1. Fifo!Busy(t) \subseteq Threads
    BY DEF Fifo!Busy
  <1>2. IsFiniteSet(Fifo!Busy(t)) /\ Cardinality(Fifo!Busy(t)) \in Nat
    BY <1>1, ThreadsAssumption, FS_Subset, FS_CardinalityType
  <1>3. ASSUME NEW u \in Threads \ {t},
               pc[u] \in {"e_used", "e_free", "e_write", "e_flag", "e_put", "g_used", "g_read",
                         "e_undo", "g_put", "g_settle"}
        PROVE  u \in Fifo!Busy(t)
    <2>1. Ops[u] = Op(u)
      BY DEF Ops
    <2>2. Op(u).kind \in {"enq", "admitted", "has"}
      BY <1>3, OpAt
    <2> QED BY <2>1, <2>2 DEF Fifo!Busy
  <1> QED BY <1>2, <1>3

\* An enqueue that finds the counter at the capacity (src/scq.rs:702) ...
LEMMA CounterFull ==
  ASSUME IInv, NEW t \in Threads, pc[t] = "e_used", used >= Capacity
  PROVE  Len(Queue) + Cardinality(Fifo!Busy(t)) >= Capacity
  <1>1. used = Cardinality(Counted) + Len(alloc)
    BY DEF IInv, Balanced, Gone
  <1>2. Counted \subseteq Fifo!Busy(t)
    BY BusyAt DEF Counted
  <1>3. Cardinality(Counted) <= Cardinality(Fifo!Busy(t)) /\ Cardinality(Counted) \in Nat
    BY <1>2, BusyAt, FS_Subset, FS_CardinalityType
  <1>4. Capacity \in Nat
    BY ShapeFacts DEF IInv, TypeOK
  <1> QED BY <1>1, <1>3, <1>4, BusyAt, QueueLength

\* ... or no index in the free ring, because those that are given back have
\* not been settled yet (src/scq.rs:708).
LEMMA RingFull ==
  ASSUME IInv, NEW t \in Threads, pc[t] = "e_free", Settled(free) = {}
  PROVE  Len(Queue) + Cardinality(Fifo!Busy(t)) >= Capacity
  <1> DEFINE Givers == {u \in Threads : pc[u] = "g_settle"}
             Both == Givers \union Possessors
  <1>1. Len(free) + Len(alloc) + Cardinality(Possessors) = Capacity
    BY DEF IInv, Balanced, Gone
  <1>2. /\ Len(free) \in Nat /\ DOMAIN free = 1 .. Len(free)
        /\ \A j \in 1 .. Len(free) : free[j] \in Entry
    BY LenProperties DEF IInv, TypeOK
  <1>3. /\ IsFiniteSet(Givers) /\ IsFiniteSet(Possessors)
        /\ Cardinality(Givers) \in Nat /\ Cardinality(Possessors) \in Nat
    BY ThreadsAssumption, FS_Subset, FS_CardinalityType DEF Possessors
  <1>4. \A j \in 1 .. Len(free) :
          /\ free[j].by \in Givers /\ pos[free[j].by] = free[j].pos
    BY <1>2 DEF IInv, Signed, SignedBy, Settled, Entry
  <1>5. Len(free) <= Cardinality(Givers)
    <2> SUFFICES ASSUME Cardinality(Givers) < Len(free) PROVE FALSE
      BY <1>2, <1>3
    <2> DEFINE f == [j \in 1 .. Len(free) |-> free[j].by]
    <2>1. IsFiniteSet(1 .. Len(free)) /\ Cardinality(1 .. Len(free)) = Len(free)
      BY <1>2, FS_Interval
    <2>2. f \in [1 .. Len(free) -> Givers]
      BY <1>4
    <2> HIDE DEF f, Givers
    <2>3. \E j, k \in 1 .. Len(free) : j # k /\ f[j] = f[k]
      BY <1>3, <2>1, <2>2, FS_PigeonHole
    <2>4. PICK j, k \in 1 .. Len(free) : j # k /\ f[j] = f[k]
      BY <2>3
    <2>5. free[j].pos = free[k].pos
      BY <1>4, <2>4 DEF f
    <2> QED BY <1>2, <2>4, <2>5 DEF IInv, Apart, NoRepeat
  <1>6. Cardinality(Both) = Cardinality(Givers) + Cardinality(Possessors)
    <2>1. Givers \intersect Possessors = {}
      BY DEF Possessors, EmptyHanded, FullHanded
    <2>2. Cardinality(Givers \intersect Possessors) = 0
      BY <2>1, FS_EmptySet
    <2> HIDE DEF Givers
    <2>3. Cardinality(Both) = Cardinality(Givers) + Cardinality(Possessors)
                                - Cardinality(Givers \intersect Possessors)
      BY <1>3, FS_Union
    <2> HIDE DEF Both
    <2> QED BY <1>3, <2>2, <2>3
  <1>7. Both \subseteq Fifo!Busy(t)
    BY BusyAt DEF Possessors, EmptyHanded, FullHanded
  <1> HIDE DEF Both, Givers
  <1>8. Cardinality(Both) <= Cardinality(Fifo!Busy(t))
    BY <1>7, BusyAt, FS_Subset
  <1>9. Capacity \in Nat
    BY ShapeFacts DEF IInv, TypeOK
  <1> QED BY <1>1, <1>2, <1>3, <1>5, <1>6, <1>8, <1>9, BusyAt, QueueLength

-----------------------------------------------------------------------------
(* The refinement.                                                         *)

\* A new queue shows an empty one, and one that an enqueue linked a queue with
\* its first item.
LEMMA InitFifo == Init => Fifo!Init
  <1> SUFFICES ASSUME Init PROVE Fifo!Init
    OBVIOUS
  <1>1. Capacity \in Nat \ {0} /\ closed = FALSE
    BY ShapeFacts DEF Init
  <1>2. Queue = <<>> \/ \E m \in Items : Queue = <<Fifo!Entry(m, Nobody)>>
    <2>1. /\ alloc = [j \in 1 .. First |-> At(j - 1, Nobody)]
          /\ First \in {0, 1} /\ Indices = 0 .. Capacity - 1
      BY FirstFacts DEF Init, Indices
    <2>2. PICK m \in Items : backing = [i \in Indices |-> IF i < First THEN m ELSE NoItem]
      BY DEF Init
    <2>3. CASE First = 0
      <3>1. DOMAIN alloc = {}
        BY <2>1, <2>3
      <3>2. Queue = [j \in {} |-> [item |-> backing[alloc[j].pos], by |-> alloc[j].by]]
        BY <3>1 DEF Queue
      <3> QED BY <3>2
    <2>4. CASE First = 1
      <3>1. DOMAIN alloc = {1} /\ alloc[1].pos = 0 /\ alloc[1].by = Nobody
        BY <2>1, <2>4 DEF At
      <3>2. backing[0] = m
        BY <1>1, <2>1, <2>2, <2>4
      <3>3. Queue = [j \in {1} |-> [item |-> m, by |-> Nobody]]
        BY <3>1, <3>2 DEF Queue
      <3> QED BY <3>3 DEF Fifo!Entry
    <2> QED BY <2>1, <2>3, <2>4
  <1>3. Ops = [t \in Threads |-> [kind |-> "idle"]]
    BY OpAt DEF Init, Ops
  <1> QED BY <1>1, <1>2, <1>3 DEF Fifo!Init, Fifo!Idle

\* The calls, and the steps of an enqueue.
LEMMA EnqFifo ==
  ASSUME IInv, NEW t \in Threads,
         \/ EnqCall(t) \/ EnqUsed(t) \/ EnqUndo(t) \/ EnqFree(t) \/ EnqWrite(t)
         \/ EnqFlag(t) \/ EnqPut(t) \/ EnqSettle(t) \/ EnqFinal(t)
  PROVE  [Fifo!Next]_(Fifo!vars)
  <1>0. EnqCall(t) \/ DeqCall(t) \/ Step(t)
    BY DEF Step
  <1>a. /\ Ops' = [Ops EXCEPT ![t] = Op(t)'] /\ Ops[t] = Op(t) /\ Capacity' = Capacity
        /\ Op(t)' = Op(t) => Ops' = Ops
    BY <1>0, OpsStep
  <1>b. alloc' = alloc => Queue' = Queue
    BY <1>0, QueueSame
  <1>c. LocalType
    BY TypeParts DEF IInv
  <1> USE DEF Fifo!Next, Fifo!vars, Fifo!Is
  <1>1. CASE EnqCall(t)
    <2>1. /\ pc[t] = "idle" /\ pc'[t] = "e_used" /\ alloc' = alloc /\ closed' = closed
          /\ \E m \in Items : item'[t] = m
      BY <1>1, <1>c DEF EnqCall, Call, Goto, queues, LocalType
    <2>2. PICK m \in Items : item'[t] = m
      BY <2>1
    <2>3. Op(t) = [kind |-> "idle"] /\ Op(t)' = [kind |-> "enq", item |-> m]
      BY <2>1, <2>2, OpAt, OpNext
    <2>4. Ops' = [Ops EXCEPT ![t] = [kind |-> "enq", item |-> m]]
      BY <1>a, <2>3
    <2>5. \E i \in Items : Ops' = [Ops EXCEPT ![t] = Fifo!Enq(i)]
      BY <2>4 DEF Fifo!Enq
    <2>6. Ops[t].kind = "idle" /\ Capacity' = Capacity /\ Queue' = Queue /\ closed' = closed
      BY <1>a, <1>b, <2>1, <2>3
    <2>7. Fifo!Enqueue(t)
      BY <2>5, <2>6 DEF Fifo!Enqueue
    <2> QED BY <2>7
  <1>2. CASE EnqUsed(t)
    <2>1. /\ pc[t] = "e_used" /\ alloc' = alloc /\ closed' = closed /\ item'[t] = item[t]
          /\ \/ used >= Capacity /\ pc'[t] = "e_undo"
             \/ pc'[t] = "e_free"
      BY <1>2, <1>c DEF EnqUsed, Goto, queues, LocalType
    <2>2. Op(t) = [kind |-> "enq", item |-> item[t]]
      BY <2>1, OpAt
    <2>3. CASE used >= Capacity /\ pc'[t] = "e_undo"
      <3>1. Op(t)' = [kind |-> "has", item |-> item[t]]
        BY <2>1, <2>3, OpNext
      <3>2. Len(Queue) + Fifo!Cardinality(Fifo!Busy(t)) >= Capacity
        <4>1. Len(Queue) + Cardinality(Fifo!Busy(t)) >= Capacity
          BY <2>1, <2>3, CounterFull
        <4> QED BY <4>1, SameCardinality
      <3>3. Ops' = [Ops EXCEPT ![t] = [kind |-> "has", item |-> Ops[t].item]]
        BY <1>a, <2>2, <3>1
      <3>4. Ops[t].kind = "enq" /\ Capacity' = Capacity /\ Queue' = Queue /\ closed' = closed
        BY <1>a, <1>b, <2>1, <2>2
      <3>5. Fifo!Full(t)
        BY <3>2, <3>3, <3>4 DEF Fifo!Full, Fifo!Has
      <3> QED BY <3>5
    <2>4. CASE pc'[t] = "e_free"
      <3>1. Op(t)' = Op(t)
        BY <2>1, <2>2, <2>4, OpNext
      <3> QED BY <1>a, <1>b, <2>1, <3>1
    <2> QED BY <2>1, <2>3, <2>4
  <1>3. CASE EnqUndo(t)
    <2>1. pc[t] = "e_undo" /\ pc'[t] = "idle" /\ alloc' = alloc /\ closed' = closed
      BY <1>3, <1>c DEF EnqUndo, Return, Goto, queues, LocalType
    <2>2. Op(t) = [kind |-> "has", item |-> item[t]] /\ Op(t)' = [kind |-> "idle"]
      BY <2>1, OpAt, OpNext
    <2>3. Fifo!Return(t)
      BY <1>a, <1>b, <2>1, <2>2 DEF Fifo!Return, Fifo!Idle
    <2> QED BY <2>3
  <1>4. CASE EnqFree(t)
    <2>1. /\ pc[t] = "e_free" /\ alloc' = alloc /\ closed' = closed /\ item'[t] = item[t]
          /\ \/ Settled(free) = {} /\ pc'[t] = "e_undo"
             \/ pc'[t] = "e_write"
      BY <1>4, <1>c DEF EnqFree, Goto, queues, local, LocalType
    <2>2. Op(t) = [kind |-> "enq", item |-> item[t]]
      BY <2>1, OpAt
    <2>3. CASE Settled(free) = {} /\ pc'[t] = "e_undo"
      <3>1. Op(t)' = [kind |-> "has", item |-> item[t]]
        BY <2>1, <2>3, OpNext
      <3>2. Len(Queue) + Fifo!Cardinality(Fifo!Busy(t)) >= Capacity
        <4>1. Len(Queue) + Cardinality(Fifo!Busy(t)) >= Capacity
          BY <2>1, <2>3, RingFull
        <4> QED BY <4>1, SameCardinality
      <3>3. Ops' = [Ops EXCEPT ![t] = [kind |-> "has", item |-> Ops[t].item]]
        BY <1>a, <2>2, <3>1
      <3>4. Ops[t].kind = "enq" /\ Capacity' = Capacity /\ Queue' = Queue /\ closed' = closed
        BY <1>a, <1>b, <2>1, <2>2
      <3>5. Fifo!Full(t)
        BY <3>2, <3>3, <3>4 DEF Fifo!Full, Fifo!Has
      <3> QED BY <3>5
    <2>4. CASE pc'[t] = "e_write"
      <3>1. Op(t)' = Op(t)
        BY <2>1, <2>2, <2>4, OpNext
      <3> QED BY <1>a, <1>b, <2>1, <3>1
    <2> QED BY <2>1, <2>3, <2>4
  <1>5. CASE EnqWrite(t)
    <2>1. /\ pc[t] = "e_write" /\ pc'[t] = "e_flag" /\ alloc' = alloc /\ closed' = closed
          /\ item'[t] = item[t]
      BY <1>5, <1>c DEF EnqWrite, Goto, queues, local, LocalType
    <2>2. Op(t)' = Op(t)
      BY <2>1, OpAt, OpNext
    <2> QED BY <1>a, <1>b, <2>1, <2>2
  <1>6. CASE EnqFlag(t)
    <2>1. /\ pc[t] = "e_flag" /\ alloc' = alloc /\ closed' = closed /\ item'[t] = item[t]
          /\ pos'[t] = pos[t] /\ backing' = backing
          /\ \/ closed /\ pc'[t] = "g_used"
             \/ ~closed /\ pc'[t] = "e_put"
      BY <1>6, <1>c DEF EnqFlag, Goto, queues, local, LocalType
    <2>2. Op(t) = [kind |-> "enq", item |-> item[t]] /\ backing[pos[t]] = item[t]
      BY <2>1, OpAt DEF IInv, Written
    <2>3. CASE closed /\ pc'[t] = "g_used"
      <3>1. Op(t)' = [kind |-> "has", item |-> item[t]]
        BY <2>1, <2>2, <2>3, OpNext
      <3>2. Fifo!Refuse(t)
        BY <1>a, <1>b, <2>1, <2>2, <2>3, <3>1 DEF Fifo!Refuse, Fifo!Has
      <3> QED BY <3>2
    <2>4. CASE ~closed /\ pc'[t] = "e_put"
      <3>1. Op(t)' = [kind |-> "admitted", item |-> item[t]]
        BY <2>1, <2>4, OpNext
      <3>2. Fifo!Admit(t)
        BY <1>a, <1>b, <2>1, <2>2, <2>4, <3>1 DEF Fifo!Admit, Fifo!Admitted
      <3> QED BY <3>2
    <2> QED BY <2>1, <2>3, <2>4
  <1>7. CASE EnqPut(t)
    <2>1. /\ pc[t] = "e_put" /\ pc'[t] = "e_settle" /\ closed' = closed
          /\ alloc' = Append(alloc, At(pos[t], t)) /\ Step(t)
      BY <1>7, <1>c DEF EnqPut, Goto, LocalType, Step
    <2>2. Op(t) = [kind |-> "admitted", item |-> item[t]] /\ Op(t)' = [kind |-> "put"]
      BY <2>1, OpAt, OpNext
    <2>3. Queue' = Append(Queue, [item |-> item[t], by |-> t])
      BY <2>1, QueueAppend
    <2>4. Fifo!Insert(t)
      BY <1>a, <2>1, <2>2, <2>3 DEF Fifo!Insert, Fifo!Put, Fifo!Entry
    <2> QED BY <2>4
  <1>8. CASE EnqSettle(t)
    <2>1. /\ pc[t] = "e_settle" /\ pc'[t] \in {"idle", "e_final"} /\ closed' = closed
          /\ alloc' = Settle(alloc, t)
      BY <1>8, <1>c DEF EnqSettle, Return, Goto, LocalType
    <2>2. /\ Op(t) = [kind |-> "put"]
          /\ Op(t)' = [kind |-> "idle"] \/ Op(t)' = [kind |-> "last"]
      BY <2>1, OpAt, OpNext
    <2>3. Queue' = [j \in DOMAIN Queue |->
                      IF Queue[j].by = t THEN [item |-> Queue[j].item, by |-> Nobody] ELSE Queue[j]]
      <3>1. /\ DOMAIN Queue = DOMAIN alloc /\ DOMAIN alloc' = DOMAIN alloc
            /\ \A j \in DOMAIN alloc :
                 Queue[j] = [item |-> backing[alloc[j].pos], by |-> alloc[j].by]
        BY <2>1 DEF Queue, Settle
      <3>2. Queue' = [j \in DOMAIN alloc |->
                        [item |-> backing'[alloc'[j].pos], by |-> alloc'[j].by]]
        BY <3>1 DEF Queue
      <3>3. ASSUME NEW j \in DOMAIN alloc
            PROVE  [item |-> backing'[alloc'[j].pos], by |-> alloc'[j].by] =
                     IF Queue[j].by = t THEN [item |-> Queue[j].item, by |-> Nobody] ELSE Queue[j]
        <4>1. backing'[alloc[j].pos] = backing[alloc[j].pos]
          BY <1>0, <3>3, RingCells
        <4>2. alloc'[j] = IF alloc[j].by = t THEN At(alloc[j].pos, Nobody) ELSE alloc[j]
          BY <2>1, <3>3 DEF Settle
        <4> QED BY <3>1, <3>3, <4>1, <4>2 DEF At
      <3> QED BY <3>1, <3>2, <3>3
    <2>4. \/ Ops' = [Ops EXCEPT ![t] = [kind |-> "idle"]]
          \/ Ops' = [Ops EXCEPT ![t] = [kind |-> "last"]]
      BY <1>a, <2>2
    <2>5. Ops[t].kind = "put"
      BY <1>a, <2>2
    <2>6. Fifo!Done(t)
      BY <1>a, <2>1, <2>3, <2>4, <2>5 DEF Fifo!Done, Fifo!Idle, Fifo!Last, Fifo!Entry
    <2> QED BY <2>6
  <1>9. CASE EnqFinal(t)
    <2>1. pc[t] = "e_final" /\ pc'[t] = "idle" /\ alloc' = alloc /\ closed' = TRUE
      BY <1>9, <1>c DEF EnqFinal, Return, Goto, LocalType
    <2>2. Op(t) = [kind |-> "last"] /\ Op(t)' = [kind |-> "idle"]
      BY <2>1, OpAt, OpNext
    <2>3. Fifo!Close(t)
      BY <1>a, <1>b, <2>1, <2>2 DEF Fifo!Close, Fifo!Idle
    <2> QED BY <2>3
  <1> QED BY <1>1, <1>2, <1>3, <1>4, <1>5, <1>6, <1>7, <1>8, <1>9

\* The steps of a dequeue, and those with which an index is given back.
LEMMA DeqFifo ==
  ASSUME IInv, NEW t \in Threads,
         \/ DeqCall(t) \/ DeqAlloc(t)
         \/ GiveUsed(t) \/ GiveRead(t) \/ GivePut(t) \/ GiveSettle(t),
         ~Crowded
  PROVE  [Fifo!Next]_(Fifo!vars)
  <1>0. EnqCall(t) \/ DeqCall(t) \/ Step(t)
    BY DEF Step
  <1>a. /\ Ops' = [Ops EXCEPT ![t] = Op(t)'] /\ Ops[t] = Op(t) /\ Capacity' = Capacity
        /\ Op(t)' = Op(t) => Ops' = Ops
    BY <1>0, OpsStep
  <1>b. alloc' = alloc => Queue' = Queue
    BY <1>0, QueueSame
  <1>c. LocalType
    BY TypeParts DEF IInv
  <1> USE DEF Fifo!Next, Fifo!vars, Fifo!Is
  <1>1. CASE DeqCall(t)
    <2>1. pc[t] = "idle" /\ pc'[t] = "d_alloc" /\ alloc' = alloc /\ closed' = closed
      BY <1>1, <1>c DEF DeqCall, Call, Goto, queues, LocalType
    <2>2. Op(t) = [kind |-> "idle"] /\ Op(t)' = [kind |-> "deq"]
      BY <2>1, OpAt, OpNext
    <2>3. Fifo!Dequeue(t)
      BY <1>a, <1>b, <2>1, <2>2 DEF Fifo!Dequeue, Fifo!Deq
    <2> QED BY <2>3
  <1>2. CASE DeqAlloc(t)
    <2>1. CASE /\ alloc # <<>> /\ Goto(t, "d_alloc", "g_used") /\ alloc' = Tail(alloc)
               /\ pos' = [pos EXCEPT ![t] = Head(alloc).pos]
               /\ UNCHANGED <<closed, backing>>
      <3>1. pc[t] = "d_alloc" /\ pc'[t] = "g_used" /\ pos'[t] = Head(alloc).pos
        BY <2>1, <1>c DEF Goto, LocalType
      <3>2. Queue # <<>> /\ Queue' = Tail(Queue) /\ Head(Queue).item = backing[Head(alloc).pos]
        BY <1>2, <2>1, QueueTail DEF Step
      <3>3. Op(t) = [kind |-> "deq"] /\ Op(t)' = [kind |-> "has", item |-> Head(Queue).item]
        BY <2>1, <3>1, <3>2, OpAt, OpNext
      <3>4. Fifo!Claim(t)
        BY <1>a, <2>1, <3>2, <3>3 DEF Fifo!Claim, Fifo!Has
      <3> QED BY <3>4
    <2>2. CASE Settled(alloc) = {} /\ Return(t, "d_alloc") /\ UNCHANGED queues
      <3>1. pc[t] = "d_alloc" /\ pc'[t] = "idle" /\ alloc' = alloc /\ closed' = closed
        BY <2>2, <1>c DEF Return, Goto, queues, LocalType
      <3>2. Op(t) = [kind |-> "deq"] /\ Op(t)' = [kind |-> "idle"]
        BY <3>1, OpAt, OpNext
      <3>3. \A j \in DOMAIN Queue : Queue[j].by # Nobody
        BY <2>2 DEF Queue, Settled
      <3>4. Fifo!None(t)
        BY <1>a, <1>b, <3>1, <3>2, <3>3 DEF Fifo!None, Fifo!Idle
      <3> QED BY <3>4
    <2> QED BY <1>2, <2>1, <2>2 DEF DeqAlloc
  <1>3. CASE GiveUsed(t)
    <2>1. /\ pc[t] = "g_used" /\ pc'[t] = "g_read" /\ alloc' = alloc /\ closed' = closed
          /\ pos'[t] = pos[t] /\ backing' = backing
      BY <1>3, <1>c DEF GiveUsed, Goto, queues, local, LocalType
    <2>2. Op(t)' = Op(t)
      BY <2>1, OpAt, OpNext
    <2> QED BY <1>a, <1>b, <2>1, <2>2
  <1>4. CASE GiveRead(t)
    <2>1. /\ pc[t] = "g_read" /\ pc'[t] = "g_put" /\ alloc' = alloc /\ closed' = closed
          /\ item'[t] = backing[pos[t]]
      BY <1>4, <1>c DEF GiveRead, Goto, queues, LocalType
    <2>2. Op(t)' = Op(t)
      BY <2>1, OpAt, OpNext
    <2> QED BY <1>a, <1>b, <2>1, <2>2
  <1>5. CASE GivePut(t)
    <2>1. /\ pc[t] = "g_put" /\ pc'[t] = "g_settle" /\ alloc' = alloc /\ closed' = closed
          /\ item'[t] = item[t]
      BY <1>5, <1>c DEF GivePut, Goto, local, LocalType
    <2>2. Op(t)' = Op(t)
      BY <2>1, OpAt, OpNext
    <2> QED BY <1>a, <1>b, <2>1, <2>2
  <1>6. CASE GiveSettle(t)
    <2>1. pc[t] = "g_settle" /\ pc'[t] = "idle" /\ alloc' = alloc /\ closed' = closed
      BY <1>6, <1>c DEF GiveSettle, Return, Goto, LocalType
    <2>2. Op(t) = [kind |-> "has", item |-> item[t]] /\ Op(t)' = [kind |-> "idle"]
      BY <2>1, OpAt, OpNext
    <2>3. Fifo!Return(t)
      BY <1>a, <1>b, <2>1, <2>2 DEF Fifo!Return, Fifo!Idle
    <2> QED BY <2>3
  <1> QED BY <1>1, <1>2, <1>3, <1>4, <1>5, <1>6

\* Drop takes all items at once.
LEMMA DropFifo ==
  ASSUME IInv, DropQueue, ~Crowded
  PROVE  [Fifo!Next]_(Fifo!vars)
  <1>1. /\ \A t \in Threads : pc[t] = "idle" /\ pc'[t] = "idle"
        /\ alloc' = <<>> /\ closed' = closed /\ Capacity' = Capacity
    <2>1. /\ \A t \in Threads : pc[t] = "idle" /\ pc'[t] = "idle"
          /\ shape' = shape /\ closed' = closed /\ dropped' = TRUE
      BY DEF DropQueue
    <2>2. Capacity' = Capacity /\ ~Crowded'
      BY <2>1 DEF Capacity, Crowded
    <2>3. alloc' = <<>>
      BY <2>1, <2>2, DropInv DEF IInv, Gone
    <2> QED BY <2>1, <2>2, <2>3
  <1>2. Ops = [t \in Threads |-> [kind |-> "idle"]]
    BY <1>1, OpAt DEF Ops
  <1>3. Ops' = [t \in Threads |-> [kind |-> "idle"]]
    BY <1>1, OpNext DEF Ops
  <1>4. Queue' = <<>>
    <2>1. DOMAIN alloc' = {}
      BY <1>1
    <2>2. Queue' = [j \in {} |-> [item |-> backing'[alloc'[j].pos], by |-> alloc'[j].by]]
      BY <2>1 DEF Queue
    <2> QED BY <2>2, DropInv, QueueLength, <1>1
  <1>5. Fifo!Drop
    BY <1>1, <1>2, <1>3, <1>4 DEF Fifo!Drop, Fifo!Is
  <1> QED BY <1>5 DEF Fifo!Next

\* Every behaviour of the bounded queue shows a behaviour of a FIFO queue of
\* items: what enqueue_cycle() and dequeue() (src/scq.rs:699-766) do with
\* counters, rings and cells is, to the threads that call them, one step on a
\* sequence of items, and a refused item is the one that was brought.  This is
\* so while no more than capacity + 1 dequeues are made at a time: in a larger
\* crowd the test of src/scq.rs:332 may answer None in front of items.
THEOREM FifoCorrect == Spec => FifoSpec
  <1>1. Init => Fifo!Init
    BY InitFifo
  <1>2. IInv /\ [Next]_vars => [Crowded \/ Fifo!Next]_<<Fifo!vars>>
    <2> SUFFICES ASSUME IInv, [Next]_vars, ~Crowded PROVE [Fifo!Next]_(Fifo!vars)
      OBVIOUS
    <2>1. ASSUME NEW t \in Threads, EnqCall(t) \/ DeqCall(t) \/ Step(t)
          PROVE  [Fifo!Next]_(Fifo!vars)
      BY <2>1, EnqFifo, DeqFifo DEF Step
    <2>2. CASE DropQueue
      BY <2>2, DropFifo
    <2>3. CASE UNCHANGED vars
      <3>1. UNCHANGED <<shape, alloc, closed, backing, pc, item, pos>>
        BY <2>3 DEF vars, queues, local, client
      <3>2. Queue' = Queue /\ Capacity' = Capacity
        BY <3>1 DEF Queue, Capacity
      <3>3. \A t \in Threads : Op(t)' = Op(t)
        BY <3>1 DEF Op
      <3>4. Ops' = Ops
        BY <3>3 DEF Ops
      <3> QED BY <3>1, <3>2, <3>4 DEF Fifo!vars
    <2> QED BY <2>1, <2>2, <2>3 DEF Next
  <1> QED BY <1>1, <1>2, Invariance, PTL DEF Spec, FifoSpec
=============================================================================
