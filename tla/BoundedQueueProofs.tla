------------------------- MODULE BoundedQueueProofs -------------------------
(***************************************************************************)
(* Proofs about the bounded queue, for any threads, items, capacity and    *)
(* interleaving.  IInv (module BoundedQueueInv) is inductive: the lemmas   *)
(* take its parts in turn, and each of them has one step per action.       *)
(***************************************************************************)
EXTENDS BoundedQueueInv, FiniteSetTheorems, SequenceTheorems, TLAPS

-----------------------------------------------------------------------------
(* A ring without its first entry, with one more, with a settled one.      *)

\* What a dequeue takes from a ring is gone from it, and nothing else is.
LEMMA TailOfRing ==
  ASSUME NEW ring \in Seq(Entry), ring # <<>>
  PROVE  /\ Tail(ring) \in Seq(Entry)
         /\ Len(Tail(ring)) = Len(ring) - 1
         /\ Head(ring).pos \in Indices
         /\ Stored(ring, Head(ring).pos)
         /\ NoRepeat(ring) => NoRepeat(Tail(ring))
         /\ NoRepeat(ring) =>
              \A i : Stored(Tail(ring), i) <=> Stored(ring, i) /\ i # Head(ring).pos
  <1>1. /\ Tail(ring) \in Seq(Entry) /\ Head(ring) = ring[1]
        /\ Len(Tail(ring)) = Len(ring) - 1
        /\ \A j \in 1 .. Len(Tail(ring)) : Tail(ring)[j] = ring[j + 1]
    BY HeadTailProperties
  <1>2. /\ Len(ring) \in Nat /\ Len(ring) > 0
        /\ DOMAIN ring = 1 .. Len(ring) /\ DOMAIN Tail(ring) = 1 .. Len(ring) - 1
    BY <1>1, EmptySeq, LenProperties
  <1>3. Head(ring).pos \in Indices
    <2>1. ring[1] \in Entry
      BY <1>2, LenProperties
    <2> QED BY <1>1, <2>1 DEF Entry
  <1>4. Stored(ring, Head(ring).pos)
    BY <1>1, <1>2 DEF Stored
  <1>5. ASSUME NoRepeat(ring)
        PROVE  /\ NoRepeat(Tail(ring))
               /\ \A i : Stored(Tail(ring), i) <=> Stored(ring, i) /\ i # Head(ring).pos
    <2>1. NoRepeat(Tail(ring))
      BY <1>1, <1>2, <1>5 DEF NoRepeat
    <2>2. ASSUME NEW i, Stored(Tail(ring), i)
          PROVE  Stored(ring, i) /\ i # Head(ring).pos
      BY <1>1, <1>2, <1>5, <2>2 DEF NoRepeat, Stored
    <2>3. ASSUME NEW i, Stored(ring, i), i # Head(ring).pos
          PROVE  Stored(Tail(ring), i)
      <3>1. PICK j \in 1 .. Len(ring) : ring[j].pos = i
        BY <1>2, <2>3 DEF Stored
      <3>2. j # 1
        BY <1>1, <2>3, <3>1
      <3>3. j - 1 \in DOMAIN Tail(ring) /\ Tail(ring)[j - 1] = ring[j]
        BY <1>1, <1>2, <3>1, <3>2
      <3> QED BY <3>1, <3>3 DEF Stored
    <2> QED BY <2>1, <2>2, <2>3
  <1> QED BY <1>1, <1>3, <1>4, <1>5

\* An enqueue adds its index.
LEMMA AppendToRing ==
  ASSUME NEW ring \in Seq(Entry), NEW i \in Indices, NEW t \in Threads
  PROVE  /\ Append(ring, At(i, t)) \in Seq(Entry)
         /\ Len(Append(ring, At(i, t))) = Len(ring) + 1
         /\ \A k : Stored(Append(ring, At(i, t)), k) <=> Stored(ring, k) \/ k = i
         /\ NoRepeat(ring) /\ ~Stored(ring, i) => NoRepeat(Append(ring, At(i, t)))
  <1> DEFINE new == Append(ring, At(i, t))
  <1>1. At(i, t) \in Entry /\ At(i, t).pos = i
    BY DEF At, Entry
  <1>2. /\ new \in Seq(Entry) /\ Len(new) = Len(ring) + 1
        /\ \A j \in 1 .. Len(ring) : new[j] = ring[j]
        /\ new[Len(ring) + 1] = At(i, t)
    BY <1>1, AppendProperties
  <1>3. /\ Len(ring) \in Nat /\ DOMAIN ring = 1 .. Len(ring)
        /\ DOMAIN new = 1 .. Len(ring) + 1
    BY <1>2, LenProperties
  <1> HIDE DEF new
  <1>4. ASSUME NEW k PROVE Stored(new, k) <=> Stored(ring, k) \/ k = i
    <2>1. Stored(new, k) => Stored(ring, k) \/ k = i
      BY <1>1, <1>2, <1>3 DEF Stored
    <2>2. Stored(ring, k) => Stored(new, k)
      BY <1>2, <1>3 DEF Stored
    <2>3. Stored(new, i)
      BY <1>1, <1>2, <1>3 DEF Stored
    <2> QED BY <2>1, <2>2, <2>3
  <1>5. NoRepeat(ring) /\ ~Stored(ring, i) => NoRepeat(new)
    BY <1>1, <1>2, <1>3 DEF NoRepeat, Stored
  <1> QED BY <1>2, <1>4, <1>5 DEF new

\* The return of an enqueue leaves every index where it is.
LEMMA SettleRing ==
  ASSUME NEW ring \in Seq(Entry), NEW t \in Threads
  PROVE  /\ Settle(ring, t) \in Seq(Entry)
         /\ Len(Settle(ring, t)) = Len(ring)
         /\ \A k : Stored(Settle(ring, t), k) <=> Stored(ring, k)
         /\ NoRepeat(ring) => NoRepeat(Settle(ring, t))
  <1> DEFINE new == Settle(ring, t)
  <1>1. Len(ring) \in Nat /\ DOMAIN ring = 1 .. Len(ring) /\ \A j \in DOMAIN ring : ring[j] \in Entry
    BY LenProperties
  <1>2. DOMAIN new = DOMAIN ring
    BY DEF Settle
  <1>3. \A j \in DOMAIN ring : new[j] \in Entry /\ new[j].pos = ring[j].pos
    BY <1>1 DEF Settle, At, Entry
  <1>4. new \in [1 .. Len(ring) -> Entry]
    BY <1>1, <1>3 DEF Settle
  <1>5. new \in Seq(Entry)
    BY <1>1, <1>4, SeqDef
  <1>6. Len(new) = Len(ring)
    BY <1>1, <1>2, <1>5, LenProperties
  <1> HIDE DEF new
  <1>7. \A k : Stored(new, k) <=> Stored(ring, k)
    BY <1>2, <1>3 DEF Stored
  <1>8. NoRepeat(ring) => NoRepeat(new)
    BY <1>2, <1>3 DEF NoRepeat
  <1> QED BY <1>5, <1>6, <1>7, <1>8 DEF new

-----------------------------------------------------------------------------
(* The types.                                                              *)

\* A queue has at least one slot.
LEMMA ShapeFacts ==
  ASSUME shape \in Shapes
  PROVE  /\ Capacity \in Nat \ {0} /\ Finalizes \in BOOLEAN
         /\ Indices \subseteq Nat /\ NoPos \notin Indices
         /\ shape.calls \in Nat
  BY QueueAssumption DEF Capacity, Finalizes, Indices, NoPos

\* A queue begins with one item or none.
LEMMA FirstFacts ==
  ASSUME shape \in Shapes
  PROVE  First \in {0, 1} /\ First \in 0 .. Capacity
  BY ShapeFacts DEF First

\* What depends on the shape only.
LEMMA SameFirst ==
  ASSUME shape' = shape
  PROVE  FullAtFirst' = FullAtFirst /\ Crowded' = Crowded
  BY DEF FullAtFirst, First, Crowded, Capacity

\* The shape is that of the constructor for ever.
LEMMA SameShape ==
  ASSUME [Next]_vars
  PROVE  /\ shape' = shape /\ Capacity' = Capacity /\ Finalizes' = Finalizes
         /\ Indices' = Indices /\ Entry' = Entry
  <1>1. shape' = shape
    BY DEF Next, vars, client, Call, Step, EnqCall, EnqUsed, EnqUndo, EnqFree, EnqWrite,
       EnqFlag, EnqPut, EnqSettle, EnqFinal, DeqCall, DeqAlloc, GiveUsed, GiveRead,
       GivePut, GiveSettle, DropQueue
  <1> QED BY <1>1 DEF Capacity, Finalizes, Indices, Entry

\* The types of the threads' own variables, ...
LocalType ==
  /\ pc \in [Threads -> PC]
  /\ item \in [Threads -> Items \union {NoItem}]
  /\ pos \in [Threads -> Indices \union {NoPos}]
  /\ size \in [Threads -> Nat]

\* ... and of the shared ones, but for the counter, which is in Balanced.
SharedType ==
  /\ free \in Seq(Entry) /\ alloc \in Seq(Entry)
  /\ closed \in BOOLEAN
  /\ backing \in [Indices -> Items \union {NoItem}]
  /\ shape \in Shapes
  /\ calls \in 0 .. shape.calls
  /\ dropped \in BOOLEAN

\* TypeOK in these two parts.
LEMMA TypeParts == TypeOK <=> LocalType /\ SharedType /\ used \in Nat
  BY DEF TypeOK, LocalType, SharedType

\* Returning from a call keeps the types of the locals.
LEMMA ReturnType ==
  ASSUME LocalType, NEW t \in Threads, NEW from, Return(t, from), UNCHANGED shape
  PROVE  LocalType'
  <1>1. Indices' = Indices
    BY DEF Indices, Capacity
  <1> QED BY <1>1 DEF LocalType, Return, Goto, PC

\* The steps of a thread keep the types of the threads' own variables.
LEMMA LocalTypeStep ==
  ASSUME TypeOK, Apart, NEW t \in Threads, EnqCall(t) \/ DeqCall(t) \/ Step(t)
  PROVE  LocalType'
  <1> USE DEF PC, EmptyHanded, FullHanded
  <1>0. LocalType /\ shape' = shape /\ Indices' = Indices /\ shape \in Shapes
    BY SameShape, TypeParts DEF Next, SharedType
  <1>1. CASE EnqCall(t)
    BY <1>0, <1>1 DEF EnqCall, Call, Goto, LocalType
  <1>2. CASE EnqUsed(t)
    BY <1>0, <1>2 DEF EnqUsed, Goto, LocalType, TypeOK
  <1>3. CASE EnqUndo(t)
    BY <1>0, <1>3, ReturnType DEF EnqUndo
  <1>4. CASE EnqFree(t)
    <2>1. CASE free # <<>> /\ pos' = [pos EXCEPT ![t] = Head(free).pos]
               /\ Goto(t, "e_free", "e_write") /\ UNCHANGED <<item, size>>
      <3>1. Head(free).pos \in Indices
        BY <2>1, TailOfRing DEF TypeOK
      <3> QED BY <1>0, <2>1, <3>1 DEF Goto, LocalType
    <2>2. CASE Goto(t, "e_free", "e_undo") /\ UNCHANGED local
      BY <1>0, <2>2 DEF Goto, LocalType, local
    <2> QED BY <1>4, <2>1, <2>2 DEF EnqFree
  <1>5. CASE EnqWrite(t)
    BY <1>0, <1>5 DEF EnqWrite, Goto, LocalType, local
  <1>6. CASE EnqFlag(t)
    BY <1>0, <1>6 DEF EnqFlag, Goto, LocalType, local
  <1>7. CASE EnqPut(t)
    BY <1>0, <1>7 DEF EnqPut, Goto, LocalType, local
  <1>8. CASE EnqSettle(t)
    <2>1. CASE Goto(t, "e_settle", "e_final") /\ UNCHANGED local
      BY <1>0, <2>1 DEF Goto, LocalType, local
    <2> QED BY <1>0, <1>8, <2>1, ReturnType DEF EnqSettle
  <1>9. CASE EnqFinal(t)
    BY <1>0, <1>9, ReturnType DEF EnqFinal
  <1>10. CASE DeqCall(t)
    BY <1>0, <1>10 DEF DeqCall, Call, Goto, LocalType, local
  <1>11. CASE DeqAlloc(t)
    <2>1. CASE alloc # <<>> /\ pos' = [pos EXCEPT ![t] = Head(alloc).pos]
               /\ Goto(t, "d_alloc", "g_used") /\ UNCHANGED <<item, size>>
      <3>1. Head(alloc).pos \in Indices
        BY <2>1, TailOfRing DEF TypeOK
      <3> QED BY <1>0, <2>1, <3>1 DEF Goto, LocalType
    <2>2. CASE Return(t, "d_alloc")
      BY <1>0, <2>2, ReturnType
    <2> QED BY <1>11, <2>1, <2>2 DEF DeqAlloc
  <1>12. CASE GiveUsed(t)
    BY <1>0, <1>12 DEF GiveUsed, Goto, LocalType, local
  <1>13. CASE GiveRead(t)
    <2>1. pos[t] \in Indices
      BY <1>13 DEF GiveRead, Goto, Apart, Possessors
    <2>2. backing[pos[t]] \in Items \union {NoItem}
      BY <2>1 DEF TypeOK
    <2> QED BY <1>0, <1>13, <2>2 DEF GiveRead, Goto, LocalType
  <1>14. CASE GivePut(t)
    BY <1>0, <1>14 DEF GivePut, Goto, LocalType, local
  <1>15. CASE GiveSettle(t)
    BY <1>0, <1>15, ReturnType DEF GiveSettle
  <1> QED BY <1>1, <1>2, <1>3, <1>4, <1>5, <1>6, <1>7, <1>8, <1>9, <1>10, <1>11, <1>12,
             <1>13, <1>14, <1>15 DEF Step

\* They keep those of the shared variables.
LEMMA SharedTypeStep ==
  ASSUME TypeOK, Apart, NEW t \in Threads, EnqCall(t) \/ DeqCall(t) \/ Step(t)
  PROVE  SharedType'
  <1>0. /\ SharedType /\ LocalType /\ shape' = shape /\ Indices' = Indices /\ Entry' = Entry
        /\ shape.calls \in Nat
    BY SameShape, TypeParts, ShapeFacts DEF Next, SharedType
  <1>p. pc[t] \in EmptyHanded \union FullHanded => pos[t] \in Indices
    BY DEF Apart, Possessors
  <1> USE DEF queues, client, Goto, EmptyHanded, FullHanded
  <1>1. CASE EnqCall(t)
    BY <1>0, <1>1 DEF EnqCall, Call, SharedType
  <1>2. CASE EnqUsed(t)
    BY <1>0, <1>2 DEF EnqUsed, SharedType
  <1>3. CASE EnqUndo(t)
    BY <1>0, <1>3 DEF EnqUndo, SharedType
  <1>4. CASE EnqFree(t)
    <2>1. CASE free # <<>> /\ free' = Tail(free)
               /\ UNCHANGED <<alloc, closed, backing, client>>
      <3>1. Tail(free) \in Seq(Entry)
        BY <1>0, <2>1, TailOfRing DEF SharedType
      <3> QED BY <1>0, <2>1, <3>1 DEF SharedType
    <2>2. CASE UNCHANGED <<queues, backing, client>>
      BY <1>0, <2>2 DEF SharedType
    <2> QED BY <1>4, <2>1, <2>2 DEF EnqFree
  <1>5. CASE EnqWrite(t)
    <2>1. item[t] \in Items \union {NoItem}
      BY <1>0 DEF LocalType
    <2>2. backing' \in [Indices -> Items \union {NoItem}]
      BY <1>0, <1>5, <2>1 DEF EnqWrite, SharedType
    <2> QED BY <1>0, <1>5, <2>2 DEF EnqWrite, SharedType
  <1>6. CASE EnqFlag(t)
    BY <1>0, <1>6 DEF EnqFlag, SharedType
  <1>7. CASE EnqPut(t)
    <2>1. alloc' \in Seq(Entry)
      BY <1>0, <1>7, <1>p, AppendToRing DEF EnqPut, SharedType
    <2> QED BY <1>0, <1>7, <2>1 DEF EnqPut, SharedType
  <1>8. CASE EnqSettle(t)
    <2>1. alloc' \in Seq(Entry)
      BY <1>0, <1>8, SettleRing DEF EnqSettle, SharedType
    <2> QED BY <1>0, <1>8, <2>1 DEF EnqSettle, SharedType
  <1>9. CASE EnqFinal(t)
    BY <1>0, <1>9 DEF EnqFinal, SharedType
  <1>10. CASE DeqCall(t)
    BY <1>0, <1>10 DEF DeqCall, Call, SharedType
  <1>11. CASE DeqAlloc(t)
    <2>1. CASE alloc # <<>> /\ alloc' = Tail(alloc)
               /\ UNCHANGED <<free, closed, backing, client>>
      <3>1. Tail(alloc) \in Seq(Entry)
        BY <1>0, <2>1, TailOfRing DEF SharedType
      <3> QED BY <1>0, <2>1, <3>1 DEF SharedType
    <2>2. CASE UNCHANGED <<queues, backing, client>>
      BY <1>0, <2>2 DEF SharedType
    <2> QED BY <1>11, <2>1, <2>2 DEF DeqAlloc
  <1>12. CASE GiveUsed(t)
    BY <1>0, <1>12 DEF GiveUsed, SharedType
  <1>13. CASE GiveRead(t)
    <2>1. backing' \in [Indices -> Items \union {NoItem}]
      BY <1>0, <1>13 DEF GiveRead, SharedType
    <2> QED BY <1>0, <1>13, <2>1 DEF GiveRead, SharedType
  <1>14. CASE GivePut(t)
    <2>1. free' \in Seq(Entry)
      BY <1>0, <1>14, <1>p, AppendToRing DEF GivePut, SharedType
    <2> QED BY <1>0, <1>14, <2>1 DEF GivePut, SharedType
  <1>15. CASE GiveSettle(t)
    <2>1. free' \in Seq(Entry)
      BY <1>0, <1>15, SettleRing DEF GiveSettle, SharedType
    <2> QED BY <1>0, <1>15, <2>1 DEF GiveSettle, SharedType
  <1> QED BY <1>1, <1>2, <1>3, <1>4, <1>5, <1>6, <1>7, <1>8, <1>9, <1>10, <1>11, <1>12,
             <1>13, <1>14, <1>15 DEF Step

-----------------------------------------------------------------------------
(* The places of the indices, and what the cells hold.                     *)

\* A step that leaves the rings and the cells alone, and every thread that
\* possesses an index with it, disturbs nothing.
LEMMA QuietStep ==
  ASSUME LocalType, Apart, Covered, Initialized, NEW t \in Threads,
         UNCHANGED <<shape, free, alloc, backing, dropped>>,
         \A u \in Threads : u # t => pc'[u] = pc[u] /\ pos'[u] = pos[u],
         \/ pc[t] \in EmptyHanded /\ pc'[t] \in EmptyHanded
         \/ pc[t] \in FullHanded /\ pc'[t] \in FullHanded
         \/ /\ pc[t] \notin EmptyHanded \union FullHanded
            /\ pc'[t] \notin EmptyHanded \union FullHanded,
         pc[t] \in EmptyHanded \union FullHanded => pos'[t] = pos[t]
  PROVE  Apart' /\ Covered' /\ Initialized'
  <1>1. Indices' = Indices
    BY DEF Indices, Capacity
  <1>2. Possessors' = Possessors /\ \A u \in Possessors : pos'[u] = pos[u]
    BY DEF Possessors
  <1>3. Apart'
    BY <1>1, <1>2 DEF Apart
  <1>4. Covered'
    BY <1>1, <1>2 DEF Covered
  <1>5. Initialized'
    BY <1>1 DEF Initialized, EmptyHanded, FullHanded
  <1> QED BY <1>3, <1>4, <1>5

\* A thread takes the first index of the free ring, with an empty cell, or of
\* the allocation ring, with a full one.
LEMMA TakeFree ==
  ASSUME TypeOK, Apart, Covered, Initialized, NEW t \in Threads,
         free # <<>>, free' = Tail(free), UNCHANGED <<shape, alloc, backing, dropped>>,
         pc[t] = "e_free", pc' = [pc EXCEPT ![t] = "e_write"],
         pos' = [pos EXCEPT ![t] = Head(free).pos]
  PROVE  Apart' /\ Covered' /\ Initialized'
  <1> DEFINE i == Head(free).pos
  <1>0. Indices' = Indices /\ LocalType /\ i \in Indices
    BY TailOfRing, TypeParts DEF Indices, Capacity, TypeOK
  <1>1. /\ Stored(free, i) /\ NoRepeat(free')
        /\ \A k : Stored(free', k) <=> Stored(free, k) /\ k # i
    BY TailOfRing DEF TypeOK, Apart
  <1>2. t \notin Possessors /\ Possessors' = Possessors \union {t}
    BY <1>0 DEF Possessors, EmptyHanded, FullHanded, LocalType
  <1>3. pos'[t] = i /\ \A u \in Threads : u # t => pos'[u] = pos[u] /\ pc'[u] = pc[u]
    BY <1>0 DEF LocalType
  <1> HIDE DEF i
  <1>4. Apart'
    BY <1>0, <1>1, <1>2, <1>3 DEF Apart
  <1>5. Covered'
    BY <1>0, <1>1, <1>2, <1>3 DEF Covered
  <1>6. Initialized'
    BY <1>0, <1>1, <1>3 DEF Initialized, EmptyHanded, FullHanded, LocalType
  <1> QED BY <1>4, <1>5, <1>6

\* A thread takes an index, with a full cell, from the allocation ring.
LEMMA TakeAlloc ==
  ASSUME TypeOK, Apart, Covered, Initialized, NEW t \in Threads,
         alloc # <<>>, alloc' = Tail(alloc), UNCHANGED <<shape, free, backing, dropped>>,
         pc[t] = "d_alloc", pc' = [pc EXCEPT ![t] = "g_used"],
         pos' = [pos EXCEPT ![t] = Head(alloc).pos]
  PROVE  Apart' /\ Covered' /\ Initialized'
  <1> DEFINE i == Head(alloc).pos
  <1>0. Indices' = Indices /\ LocalType /\ i \in Indices
    BY TailOfRing, TypeParts DEF Indices, Capacity, TypeOK
  <1>1. /\ Stored(alloc, i) /\ NoRepeat(alloc')
        /\ \A k : Stored(alloc', k) <=> Stored(alloc, k) /\ k # i
    BY TailOfRing DEF TypeOK, Apart
  <1>2. t \notin Possessors /\ Possessors' = Possessors \union {t}
    BY <1>0 DEF Possessors, EmptyHanded, FullHanded, LocalType
  <1>3. pos'[t] = i /\ \A u \in Threads : u # t => pos'[u] = pos[u] /\ pc'[u] = pc[u]
    BY <1>0 DEF LocalType
  <1> HIDE DEF i
  <1>4. Apart'
    BY <1>0, <1>1, <1>2, <1>3 DEF Apart
  <1>5. Covered'
    BY <1>0, <1>1, <1>2, <1>3 DEF Covered
  <1>6. Initialized'
    BY <1>0, <1>1, <1>3 DEF Initialized, EmptyHanded, FullHanded, LocalType
  <1> QED BY <1>4, <1>5, <1>6

\* A thread puts its index into the allocation ring, with a full cell ...
LEMMA PutIntoAlloc ==
  ASSUME TypeOK, Apart, Covered, Initialized, NEW t \in Threads,
         alloc' = Append(alloc, At(pos[t], t)),
         UNCHANGED <<shape, free, backing, dropped, pos>>,
         pc[t] = "e_put", pc' = [pc EXCEPT ![t] = "e_settle"]
  PROVE  Apart' /\ Covered' /\ Initialized'
  <1>0. Indices' = Indices /\ LocalType
    BY TypeParts DEF Indices, Capacity
  <1>1. t \in Possessors /\ Possessors' = Possessors \ {t}
    BY <1>0 DEF Possessors, EmptyHanded, FullHanded, LocalType
  <1>2. /\ pos[t] \in Indices /\ ~Stored(free, pos[t]) /\ ~Stored(alloc, pos[t])
        /\ backing[pos[t]] \in Items
    BY <1>1 DEF Apart, Initialized, FullHanded
  <1>3. NoRepeat(alloc') /\ \A k : Stored(alloc', k) <=> Stored(alloc, k) \/ k = pos[t]
    BY <1>2, AppendToRing DEF TypeOK, Apart
  <1>4. \A u \in Threads : u # t => pc'[u] = pc[u]
    BY <1>0 DEF LocalType
  <1>5. Apart'
    BY <1>0, <1>1, <1>2, <1>3 DEF Apart
  <1>6. Covered'
    BY <1>0, <1>1, <1>3 DEF Covered
  <1>7. Initialized'
    BY <1>0, <1>2, <1>3, <1>4 DEF Initialized, EmptyHanded, FullHanded, LocalType
  <1> QED BY <1>5, <1>6, <1>7

\* ... or, when it has emptied the cell, into the free ring.
LEMMA PutIntoFree ==
  ASSUME TypeOK, Apart, Covered, Initialized, NEW t \in Threads,
         free' = Append(free, At(pos[t], t)),
         UNCHANGED <<shape, alloc, backing, dropped, pos>>,
         pc[t] = "g_put", pc' = [pc EXCEPT ![t] = "g_settle"]
  PROVE  Apart' /\ Covered' /\ Initialized'
  <1>0. Indices' = Indices /\ LocalType
    BY TypeParts DEF Indices, Capacity
  <1>1. t \in Possessors /\ Possessors' = Possessors \ {t}
    BY <1>0 DEF Possessors, EmptyHanded, FullHanded, LocalType
  <1>2. /\ pos[t] \in Indices /\ ~Stored(free, pos[t]) /\ ~Stored(alloc, pos[t])
        /\ backing[pos[t]] = NoItem
    BY <1>1 DEF Apart, Initialized, EmptyHanded
  <1>3. NoRepeat(free') /\ \A k : Stored(free', k) <=> Stored(free, k) \/ k = pos[t]
    BY <1>2, AppendToRing DEF TypeOK, Apart
  <1>4. \A u \in Threads : u # t => pc'[u] = pc[u]
    BY <1>0 DEF LocalType
  <1>5. Apart'
    BY <1>0, <1>1, <1>2, <1>3 DEF Apart
  <1>6. Covered'
    BY <1>0, <1>1, <1>3 DEF Covered
  <1>7. Initialized'
    BY <1>0, <1>2, <1>3, <1>4 DEF Initialized, EmptyHanded, FullHanded, LocalType
  <1> QED BY <1>5, <1>6, <1>7

\* A thread writes the cell of its index, or moves the item out of it.
LEMMA CellAccess ==
  ASSUME TypeOK, Apart, Covered, Initialized, Carrying, NEW t \in Threads,
         EnqWrite(t) \/ GiveRead(t)
  PROVE  Apart' /\ Covered' /\ Initialized'
  <1>0. /\ Indices' = Indices /\ LocalType
        /\ UNCHANGED <<free, alloc, pos, dropped>>
        /\ t \in Possessors /\ Possessors' = Possessors
    BY TypeParts DEF Indices, Capacity, EnqWrite, GiveRead, queues, local, client, Goto,
       Possessors, EmptyHanded, FullHanded, LocalType
  <1>1. /\ pos[t] \in Indices /\ ~Stored(free, pos[t]) /\ ~Stored(alloc, pos[t])
        /\ \A u \in Possessors : u # t => pos[u] # pos[t]
    BY <1>0 DEF Apart
  <1>2. Apart' /\ Covered'
    BY <1>0 DEF Apart, Covered
  <1>3. \A i \in Indices : i # pos[t] => backing'[i] = backing[i]
    BY DEF EnqWrite, GiveRead, TypeOK
  <1>4. \A u \in Threads : u # t => pc'[u] = pc[u]
    BY <1>0 DEF EnqWrite, GiveRead, Goto, LocalType
  <1>5. \A i \in Indices : /\ Stored(alloc', i) => backing'[i] \in Items
                           /\ Stored(free', i) => backing'[i] = NoItem
    BY <1>0, <1>1, <1>3 DEF Initialized
  <1>6. \A u \in Possessors : u # t => pos[u] \in Indices /\ backing'[pos[u]] = backing[pos[u]]
    BY <1>1, <1>3 DEF Apart
  <1>7. ASSUME NEW u \in Threads, u # t
        PROVE  /\ pc'[u] \in FullHanded => backing'[pos'[u]] \in Items
               /\ pc'[u] \in EmptyHanded => backing'[pos'[u]] = NoItem
    BY <1>0, <1>4, <1>6, <1>7 DEF Initialized, Possessors
  <1>8. CASE EnqWrite(t)
    <2>1. pc'[t] = "e_flag" /\ backing'[pos'[t]] \in Items
      BY <1>0, <1>1, <1>8 DEF EnqWrite, Goto, LocalType, TypeOK, Carrying
    <2> QED BY <1>0, <1>2, <1>5, <1>7, <2>1 DEF Initialized, EmptyHanded, FullHanded
  <1>9. CASE GiveRead(t)
    <2>1. pc'[t] = "g_put" /\ backing'[pos'[t]] = NoItem
      BY <1>0, <1>1, <1>9 DEF GiveRead, Goto, LocalType, TypeOK
    <2> QED BY <1>0, <1>2, <1>5, <1>7, <2>1 DEF Initialized, EmptyHanded, FullHanded
  <1> QED BY <1>8, <1>9

\* An enqueue on a ring returns.
LEMMA SettleStep ==
  ASSUME TypeOK, Apart, Covered, Initialized, NEW t \in Threads,
         EnqSettle(t) \/ GiveSettle(t)
  PROVE  Apart' /\ Covered' /\ Initialized'
  <1>0. /\ Indices' = Indices /\ LocalType
        /\ UNCHANGED <<backing, dropped>>
        /\ \A u \in Threads : u # t => pos'[u] = pos[u] /\ pc'[u] = pc[u]
        /\ pc[t] \in {"e_settle", "g_settle"} /\ pc'[t] \in {"e_final", "idle"}
    BY TypeParts DEF Indices, Capacity, EnqSettle, GiveSettle, local, client, Return, Goto,
       LocalType
  <1>1. /\ NoRepeat(free') /\ NoRepeat(alloc')
        /\ \A k : Stored(free', k) <=> Stored(free, k)
        /\ \A k : Stored(alloc', k) <=> Stored(alloc, k)
    BY SettleRing DEF EnqSettle, GiveSettle, TypeOK, Apart
  <1>2. Possessors' = Possessors /\ t \notin Possessors
    BY <1>0 DEF Possessors, EmptyHanded, FullHanded
  <1>3. Apart'
    BY <1>0, <1>1, <1>2 DEF Apart, Possessors
  <1>4. Covered'
    BY <1>0, <1>1, <1>2 DEF Covered, Possessors
  <1>5. Initialized'
    BY <1>0, <1>1 DEF Initialized, EmptyHanded, FullHanded
  <1> QED BY <1>3, <1>4, <1>5

\* Every step of a thread keeps the places of the indices and the cells.
LEMMA PlacesStep ==
  ASSUME TypeOK, Apart, Covered, Initialized, Carrying, NEW t \in Threads,
         EnqCall(t) \/ DeqCall(t) \/ Step(t)
  PROVE  Apart' /\ Covered' /\ Initialized'
  <1> DEFINE Goal == Apart' /\ Covered' /\ Initialized'
  <1>0. LocalType
    BY TypeParts
  <1>1. CASE \/ EnqCall(t) \/ EnqUsed(t) \/ EnqUndo(t) \/ EnqFlag(t) \/ EnqFinal(t)
             \/ DeqCall(t) \/ GiveUsed(t)
    <2>1. UNCHANGED <<shape, free, alloc, backing, dropped>>
      BY <1>1 DEF EnqCall, EnqUsed, EnqUndo, EnqFlag, EnqFinal, DeqCall, GiveUsed, Call,
         queues, client
    <2>2. \A u \in Threads : u # t => pc'[u] = pc[u] /\ pos'[u] = pos[u]
      BY <1>0, <1>1 DEF EnqCall, EnqUsed, EnqUndo, EnqFlag, EnqFinal, DeqCall, GiveUsed, Call,
         Return, Goto, local, LocalType
    <2>3. \/ /\ pc[t] \in FullHanded /\ pc'[t] \in FullHanded /\ pos'[t] = pos[t]
          \/ /\ pc[t] \notin EmptyHanded \union FullHanded
             /\ pc'[t] \notin EmptyHanded \union FullHanded
      BY <1>0, <1>1 DEF EnqCall, EnqUsed, EnqUndo, EnqFlag, EnqFinal, DeqCall, GiveUsed, Call,
         Return, Goto, local, LocalType, EmptyHanded, FullHanded
    <2>4. pc[t] \in EmptyHanded => pc[t] \notin FullHanded
      BY DEF EmptyHanded, FullHanded
    <2> QED BY <1>0, <2>1, <2>2, <2>3, <2>4, QuietStep
  <1>2. CASE EnqFree(t)
    <2>1. CASE free # <<>> /\ Goto(t, "e_free", "e_write")
               /\ pos' = [pos EXCEPT ![t] = Head(free).pos] /\ free' = Tail(free)
               /\ UNCHANGED <<alloc, backing, client>>
      BY <2>1, TakeFree DEF Goto, client
    <2>2. CASE Goto(t, "e_free", "e_undo") /\ UNCHANGED <<queues, backing, local, client>>
      <3>1. /\ UNCHANGED <<shape, free, alloc, backing, dropped>>
            /\ \A u \in Threads : u # t => pc'[u] = pc[u] /\ pos'[u] = pos[u]
            /\ pc[t] \notin EmptyHanded \union FullHanded
            /\ pc'[t] \notin EmptyHanded \union FullHanded
        BY <1>0, <2>2 DEF Goto, queues, local, client, LocalType, EmptyHanded, FullHanded
      <3> QED BY <1>0, <3>1, QuietStep
    <2> QED BY <1>2, <2>1, <2>2 DEF EnqFree
  <1>3. CASE DeqAlloc(t)
    <2>1. CASE alloc # <<>> /\ Goto(t, "d_alloc", "g_used")
               /\ pos' = [pos EXCEPT ![t] = Head(alloc).pos] /\ alloc' = Tail(alloc)
               /\ UNCHANGED <<free, backing, client>>
      BY <2>1, TakeAlloc DEF Goto, client
    <2>2. CASE Return(t, "d_alloc") /\ UNCHANGED <<queues, backing, client>>
      <3>1. /\ UNCHANGED <<shape, free, alloc, backing, dropped>>
            /\ \A u \in Threads : u # t => pc'[u] = pc[u] /\ pos'[u] = pos[u]
            /\ pc[t] \notin EmptyHanded \union FullHanded
            /\ pc'[t] \notin EmptyHanded \union FullHanded
        BY <1>0, <2>2 DEF Return, Goto, queues, client, LocalType, EmptyHanded, FullHanded
      <3> QED BY <1>0, <3>1, QuietStep
    <2> QED BY <1>3, <2>1, <2>2 DEF DeqAlloc
  <1>4. CASE EnqPut(t)
    BY <1>4, PutIntoAlloc DEF EnqPut, Goto, local, client
  <1>5. CASE GivePut(t)
    BY <1>5, PutIntoFree DEF GivePut, Goto, local, client
  <1>6. CASE EnqWrite(t) \/ GiveRead(t)
    BY <1>6, CellAccess
  <1>7. CASE EnqSettle(t) \/ GiveSettle(t)
    BY <1>7, SettleStep
  <1> QED BY <1>1, <1>2, <1>3, <1>4, <1>5, <1>6, <1>7 DEF Step

\* An enqueue keeps its item as long as it needs it.
LEMMA CarryingStep ==
  ASSUME LocalType, Carrying, NEW t \in Threads, EnqCall(t) \/ DeqCall(t) \/ Step(t)
  PROVE  Carrying'
  <1> USE DEF LocalType, Carrying, Goto, Return, Call, local
  <1>1. CASE EnqCall(t) \/ DeqCall(t)
    BY <1>1 DEF EnqCall, DeqCall
  <1>2. CASE EnqUsed(t) \/ EnqUndo(t) \/ EnqFree(t) \/ EnqWrite(t)
    BY <1>2 DEF EnqUsed, EnqUndo, EnqFree, EnqWrite
  <1>3. CASE EnqFlag(t) \/ EnqPut(t) \/ EnqSettle(t) \/ EnqFinal(t) \/ DeqAlloc(t)
    BY <1>3 DEF EnqFlag, EnqPut, EnqSettle, EnqFinal, DeqAlloc
  <1>4. CASE GiveUsed(t) \/ GiveRead(t) \/ GivePut(t) \/ GiveSettle(t)
    BY <1>4 DEF GiveUsed, GiveRead, GivePut, GiveSettle
  <1> QED BY <1>1, <1>2, <1>3, <1>4 DEF Step

\* A step writes no cell but that of the index its thread possesses.
LEMMA CellsStep ==
  ASSUME TypeOK, NEW t \in Threads, EnqCall(t) \/ DeqCall(t) \/ Step(t)
  PROVE  \A i \in Indices : backing'[i] = backing[i] \/ (t \in Possessors /\ i = pos[t])
  <1>1. CASE EnqWrite(t) \/ GiveRead(t)
    BY <1>1 DEF EnqWrite, GiveRead, Goto, TypeOK, Possessors, EmptyHanded, FullHanded
  <1>2. CASE ~(EnqWrite(t) \/ GiveRead(t))
    BY <1>2 DEF Step, EnqCall, EnqUsed, EnqUndo, EnqFree, EnqFlag, EnqPut, EnqSettle,
       EnqFinal, DeqCall, DeqAlloc, GiveUsed, GivePut, GiveSettle
  <1> QED BY <1>1, <1>2

\* What it wrote is still there when the allocation ring has taken or refused
\* the index: nobody else has the index.
LEMMA WrittenStep ==
  ASSUME TypeOK, Apart, Written, NEW t \in Threads, EnqCall(t) \/ DeqCall(t) \/ Step(t)
  PROVE  Written'
  <1>0. LocalType /\ Indices' = Indices
    BY TypeParts, SameShape DEF Next
  <1>1. \A u \in Threads : u # t => pc'[u] = pc[u] /\ pos'[u] = pos[u] /\ item'[u] = item[u]
    BY <1>0 DEF LocalType, Step, Goto, Return, Call, local, EnqCall, EnqUsed, EnqUndo, EnqFree,
       EnqWrite, EnqFlag, EnqPut, EnqSettle, EnqFinal, DeqCall, DeqAlloc, GiveUsed, GiveRead,
       GivePut, GiveSettle
  <1>2. \A i \in Indices : backing'[i] = backing[i] \/ (t \in Possessors /\ i = pos[t])
    BY CellsStep
  <1>3. ASSUME NEW u \in Threads, u # t, pc'[u] \in {"e_flag", "e_put"}
        PROVE  backing'[pos'[u]] = item'[u]
    <2>1. pc[u] \in {"e_flag", "e_put"} /\ pos'[u] = pos[u] /\ item'[u] = item[u]
      BY <1>1, <1>3
    <2>2. u \in Possessors
      BY <2>1 DEF Possessors, FullHanded
    <2>3. pos[u] \in Indices /\ (t \in Possessors => pos[u] # pos[t])
      BY <1>3, <2>2 DEF Apart
    <2> QED BY <1>2, <2>1, <2>3 DEF Written
  <1>4. ASSUME pc'[t] \in {"e_flag", "e_put"}
        PROVE  backing'[pos'[t]] = item'[t]
    <2>1. EnqWrite(t) \/ EnqFlag(t)
      BY <1>0, <1>4 DEF LocalType, Step, Goto, Return, Call, EnqCall, EnqUsed, EnqUndo, EnqFree,
         EnqPut, EnqSettle, EnqFinal, DeqCall, DeqAlloc, GiveUsed, GiveRead, GivePut, GiveSettle
    <2>2. CASE EnqWrite(t)
      <3>1. pos[t] \in Indices
        BY <2>2 DEF EnqWrite, Goto, Apart, Possessors, EmptyHanded
      <3> QED BY <2>2, <3>1 DEF EnqWrite, TypeOK, local
    <2>3. CASE EnqFlag(t)
      BY <2>3 DEF EnqFlag, Goto, Written, local
    <2> QED BY <2>1, <2>2, <2>3
  <1> QED BY <1>3, <1>4 DEF Written

\* The names in a ring stay right when a thread without an entry steps, ...
LEMMA SignedRest ==
  ASSUME NEW ring \in Seq(Entry), NEW at, NEW holds, NEW step, SignedBy(ring, at, holds, step),
         NEW t \in Threads, at[t] # step, NEW at2, NEW holds2,
         \A u \in Threads : u # t => at2[u] = at[u] /\ holds2[u] = holds[u]
  PROVE  SignedBy(ring, at2, holds2, step)
  <1>0. \A j \in DOMAIN ring : ring[j] \in Entry
    BY LenProperties
  <1>1. \A j \in DOMAIN ring : ring[j].by \in Threads \union {Nobody}
    BY <1>0 DEF Entry
  <1> QED BY <1>1 DEF SignedBy

\* ... when a dequeue takes the first entry, ...
LEMMA SignedTail ==
  ASSUME NEW ring \in Seq(Entry), ring # <<>>, NEW at, NEW holds, NEW step,
         SignedBy(ring, at, holds, step)
  PROVE  SignedBy(Tail(ring), at, holds, step)
  <1>1. /\ Tail(ring) \in Seq(Entry) /\ Len(Tail(ring)) = Len(ring) - 1
        /\ \A j \in 1 .. Len(Tail(ring)) : Tail(ring)[j] = ring[j + 1]
    BY HeadTailProperties
  <1>2. /\ Len(ring) \in Nat /\ Len(ring) > 0
        /\ DOMAIN ring = 1 .. Len(ring) /\ DOMAIN Tail(ring) = 1 .. Len(ring) - 1
    BY <1>1, EmptySeq, LenProperties
  <1> QED BY <1>1, <1>2 DEF SignedBy

\* ... when an enqueue adds one, ...
LEMMA SignedAppend ==
  ASSUME NEW ring \in Seq(Entry), NEW at, NEW holds, NEW step, SignedBy(ring, at, holds, step),
         NEW t \in Threads, at[t] = step, holds[t] \in Indices
  PROVE  SignedBy(Append(ring, At(holds[t], t)), at, holds, step)
  <1> DEFINE new == Append(ring, At(holds[t], t))
  <1>1. At(holds[t], t) \in Entry /\ At(holds[t], t).by = t /\ At(holds[t], t).pos = holds[t]
    BY DEF At, Entry
  <1>2. /\ new \in Seq(Entry) /\ Len(new) = Len(ring) + 1
        /\ \A j \in 1 .. Len(ring) : new[j] = ring[j]
        /\ new[Len(ring) + 1] = At(holds[t], t)
    BY <1>1, AppendProperties
  <1>3. Len(ring) \in Nat /\ DOMAIN ring = 1 .. Len(ring) /\ DOMAIN new = 1 .. Len(ring) + 1
    BY <1>2, LenProperties
  <1> HIDE DEF new
  <1>4. SignedBy(new, at, holds, step)
    BY <1>1, <1>2, <1>3 DEF SignedBy
  <1> QED BY <1>4 DEF new

\* ... and when it returns.
LEMMA SignedSettle ==
  ASSUME NEW ring \in Seq(Entry), NEW at, NEW holds, NEW step, SignedBy(ring, at, holds, step),
         NEW t \in Threads, NEW at2, NEW holds2,
         \A u \in Threads : u # t => at2[u] = at[u] /\ holds2[u] = holds[u]
  PROVE  SignedBy(Settle(ring, t), at2, holds2, step)
  <1>0. \A j \in DOMAIN ring : ring[j] \in Entry
    BY LenProperties
  <1>1. \A j \in DOMAIN ring : ring[j].by \in Threads \union {Nobody}
    BY <1>0 DEF Entry
  <1>2. /\ DOMAIN Settle(ring, t) = DOMAIN ring
        /\ \A j \in DOMAIN ring :
             /\ ring[j].by = t => Settle(ring, t)[j].by = Nobody
             /\ ring[j].by # t => Settle(ring, t)[j] = ring[j]
    BY DEF Settle, At
  <1> QED BY <1>1, <1>2 DEF SignedBy

\* So they are right after every step.
LEMMA SignedStep ==
  ASSUME TypeOK, Apart, Signed, NEW t \in Threads, EnqCall(t) \/ DeqCall(t) \/ Step(t)
  PROVE  Signed'
  <1>0. /\ LocalType /\ free \in Seq(Entry) /\ alloc \in Seq(Entry)
        /\ SignedBy(free, pc, pos, "g_settle") /\ SignedBy(alloc, pc, pos, "e_settle")
    BY TypeParts DEF Signed, SharedType
  <1>1. \A u \in Threads : u # t => pc'[u] = pc[u] /\ pos'[u] = pos[u]
    BY <1>0 DEF LocalType, Step, Goto, Return, Call, local, EnqCall, EnqUsed, EnqUndo, EnqFree,
       EnqWrite, EnqFlag, EnqPut, EnqSettle, EnqFinal, DeqCall, DeqAlloc, GiveUsed, GiveRead,
       GivePut, GiveSettle
  <1>2. ~GiveSettle(t) => pc[t] # "g_settle"
    BY DEF Step, Goto, Return, Call, EnqCall, EnqUsed, EnqUndo, EnqFree, EnqWrite, EnqFlag,
       EnqPut, EnqSettle, EnqFinal, DeqCall, DeqAlloc, GiveUsed, GiveRead, GivePut
  <1>3. ~EnqSettle(t) => pc[t] # "e_settle"
    BY DEF Step, Goto, Return, Call, EnqCall, EnqUsed, EnqUndo, EnqFree, EnqWrite, EnqFlag,
       EnqPut, EnqFinal, DeqCall, DeqAlloc, GiveUsed, GiveRead, GivePut, GiveSettle
  <1>4. pc[t] \in {"e_put", "g_put"} => pos[t] \in Indices
    BY DEF Apart, Possessors, EmptyHanded, FullHanded
  <1>5. SignedBy(free', pc', pos', "g_settle")
    <2>1. CASE GiveSettle(t)
      BY <1>0, <1>1, <2>1, SignedSettle DEF GiveSettle
    <2>2. ~GiveSettle(t) => SignedBy(free, pc', pos', "g_settle")
      BY <1>0, <1>1, <1>2, SignedRest
    <2>3. CASE EnqFree(t) /\ free' = Tail(free) /\ free # <<>>
      BY <1>0, <2>2, <2>3, SignedTail, Zenon DEF EnqFree, GiveSettle, Return, Goto
    <2>4. CASE GivePut(t)
      <3>1. /\ free' = Append(free, At(pos'[t], t)) /\ pc'[t] = "g_settle"
            /\ pos'[t] \in Indices /\ ~GiveSettle(t)
        BY <1>0, <1>4, <2>4 DEF GivePut, GiveSettle, Return, Goto, local, LocalType
      <3> QED BY <1>0, <2>2, <3>1, SignedAppend
    <2>5. CASE ~GiveSettle(t) /\ free' = free
      BY <2>2, <2>5
    <2>6. \/ GiveSettle(t) \/ GivePut(t) \/ free' = free
          \/ EnqFree(t) /\ free' = Tail(free) /\ free # <<>>
      BY DEF Step, queues, EnqCall, EnqUsed, EnqUndo, EnqFree, EnqWrite, EnqFlag, EnqPut,
         EnqSettle, EnqFinal, DeqCall, DeqAlloc, GiveUsed, GiveRead
    <2> QED BY <2>1, <2>3, <2>4, <2>5, <2>6
  <1>6. SignedBy(alloc', pc', pos', "e_settle")
    <2>1. CASE EnqSettle(t)
      BY <1>0, <1>1, <2>1, SignedSettle DEF EnqSettle
    <2>2. ~EnqSettle(t) => SignedBy(alloc, pc', pos', "e_settle")
      BY <1>0, <1>1, <1>3, SignedRest
    <2>3. CASE DeqAlloc(t) /\ alloc' = Tail(alloc) /\ alloc # <<>>
      BY <1>0, <2>2, <2>3, SignedTail, Zenon DEF DeqAlloc, EnqSettle, Return, Goto
    <2>4. CASE EnqPut(t)
      <3>1. /\ alloc' = Append(alloc, At(pos'[t], t)) /\ pc'[t] = "e_settle"
            /\ pos'[t] \in Indices /\ ~EnqSettle(t)
        BY <1>0, <1>4, <2>4 DEF EnqPut, EnqSettle, Return, Goto, local, LocalType
      <3> QED BY <1>0, <2>2, <3>1, SignedAppend
    <2>5. CASE ~EnqSettle(t) /\ alloc' = alloc
      BY <2>2, <2>5
    <2>6. \/ EnqSettle(t) \/ EnqPut(t) \/ alloc' = alloc
          \/ DeqAlloc(t) /\ alloc' = Tail(alloc) /\ alloc # <<>>
      BY DEF Step, queues, EnqCall, EnqUsed, EnqUndo, EnqFree, EnqWrite, EnqFlag,
         EnqFinal, DeqCall, DeqAlloc, GiveUsed, GiveRead, GivePut, GiveSettle
    <2> QED BY <2>1, <2>3, <2>4, <2>5, <2>6
  <1> QED BY <1>5, <1>6 DEF Signed

-----------------------------------------------------------------------------
(* The counter.                                                            *)

\* Sets of threads are finite, so they can be counted, and one thread more or
\* less is one more or less.
LEMMA CountThreads ==
  ASSUME NEW S \in SUBSET Threads
  PROVE  /\ IsFiniteSet(S) /\ Cardinality(S) \in Nat
         /\ \A t \in Threads \ S : Cardinality(S \union {t}) = Cardinality(S) + 1
         /\ \A t \in S : Cardinality(S \ {t}) = Cardinality(S) - 1
  <1>1. IsFiniteSet(S)
    BY ThreadsAssumption, FS_Subset
  <1>2. Cardinality(S) \in Nat
    BY <1>1, FS_CardinalityType
  <1>3. \A t \in Threads \ S : Cardinality(S \union {t}) = Cardinality(S) + 1
    BY <1>1, FS_AddElement
  <1>4. \A t \in S : Cardinality(S \ {t}) = Cardinality(S) - 1
    BY <1>1, FS_RemoveElement
  <1> QED BY <1>1, <1>2, <1>3, <1>4

\* The states in which a thread is counted, admitted, or possesses an index.
InCount   == {"e_undo", "e_free", "e_write", "e_flag", "e_put", "g_used"}
InAdmit   == {"e_free", "e_write", "e_flag", "e_put"}
InPossess == EmptyHanded \union FullHanded

\* How a step of thread t changes the three counts.
Change(t, states) ==
  (IF pc'[t] \in states THEN 1 ELSE 0) - (IF pc[t] \in states THEN 1 ELSE 0)

\* A set of threads that is given by their states changes by the one thread
\* that steps.
LEMMA CountStep ==
  ASSUME LocalType, NEW t \in Threads, NEW states,
         \A u \in Threads : u # t => pc'[u] = pc[u]
  PROVE  Cardinality({u \in Threads : pc'[u] \in states}) =
           Cardinality({u \in Threads : pc[u] \in states}) + Change(t, states)
  <1> DEFINE old == {u \in Threads : pc[u] \in states}
             new == {u \in Threads : pc'[u] \in states}
  <1>1. old \in SUBSET Threads /\ Cardinality(old) \in Nat
    BY CountThreads
  <1>2. CASE pc[t] \in states /\ pc'[t] \in states
    <2>1. new = old
      BY <1>2
    <2> QED BY <1>1, <1>2, <2>1 DEF Change
  <1>3. CASE pc[t] \in states /\ pc'[t] \notin states
    <2>1. new = old \ {t} /\ t \in old
      BY <1>3
    <2>2. Cardinality(new) = Cardinality(old) - 1
      BY <1>1, <2>1, CountThreads
    <2> QED BY <1>1, <1>3, <2>2 DEF Change
  <1>4. CASE pc[t] \notin states /\ pc'[t] \in states
    <2>1. new = old \union {t} /\ t \in Threads \ old
      BY <1>4
    <2>2. Cardinality(new) = Cardinality(old) + 1
      BY <1>1, <2>1, CountThreads
    <2> QED BY <1>1, <1>4, <2>2 DEF Change
  <1>5. CASE pc[t] \notin states /\ pc'[t] \notin states
    <2>1. new = old
      BY <1>5
    <2>2. Change(t, states) = 0
      BY <1>5 DEF Change
    <2>3. Cardinality(new) = Cardinality(old)
      BY <2>1
    <2> HIDE DEF new, old
    <2> QED BY <1>1, <2>2, <2>3 DEF new, old
  <1> QED BY <1>2, <1>3, <1>4, <1>5

\* The three counts, after a step of thread t.
LEMMA CountsStep ==
  ASSUME LocalType, NEW t \in Threads, \A u \in Threads : u # t => pc'[u] = pc[u]
  PROVE  /\ Cardinality(Counted') = Cardinality(Counted) + Change(t, InCount)
         /\ Cardinality(Admitted') = Cardinality(Admitted) + Change(t, InAdmit)
         /\ Cardinality(Possessors') = Cardinality(Possessors) + Change(t, InPossess)
         /\ Cardinality(Counted) \in Nat
         /\ Cardinality(Admitted) \in Nat
         /\ Cardinality(Possessors) \in Nat
         /\ Cardinality(Admitted) <= Cardinality(Counted)
  <1>1. /\ Cardinality(Counted') = Cardinality(Counted) + Change(t, InCount)
        /\ Cardinality(Admitted') = Cardinality(Admitted) + Change(t, InAdmit)
        /\ Cardinality(Possessors') = Cardinality(Possessors) + Change(t, InPossess)
    BY CountStep DEF Counted, Admitted, Possessors, InCount, InAdmit, InPossess
  <1>2. Counted \in SUBSET Threads /\ Admitted \in SUBSET Counted
        /\ Possessors \in SUBSET Threads
    BY DEF Counted, Admitted, Possessors
  <1>3. Admitted \in SUBSET Threads
    BY <1>2
  <1>4. IsFiniteSet(Counted) /\ Cardinality(Admitted) <= Cardinality(Counted)
    BY <1>2, CountThreads, FS_Subset
  <1>5. /\ Cardinality(Counted) \in Nat /\ Cardinality(Admitted) \in Nat
        /\ Cardinality(Possessors) \in Nat
    BY <1>2, <1>3, CountThreads
  <1> QED BY <1>1, <1>4, <1>5

\* What a step does to the counter, the lengths of the rings and the counts.
Effect(t, u, f, a, counted, admitted, possess) ==
  /\ used' = used + u
  /\ Len(free') = Len(free) + f /\ Len(alloc') = Len(alloc) + a
  /\ Change(t, InCount) = counted
  /\ Change(t, InAdmit) = admitted
  /\ Change(t, InPossess) = possess

\* Every step but EnqUsed keeps the balance, and admits nobody.
LEMMA Effects ==
  ASSUME TypeOK, Apart, NEW t \in Threads, EnqCall(t) \/ DeqCall(t) \/ Step(t)
  PROVE  \/ EnqUsed(t) /\ used >= Capacity /\ Effect(t, 1, 0, 0, 1, 0, 0)
         \/ EnqUsed(t) /\ used < Capacity /\ Effect(t, 1, 0, 0, 1, 1, 0)
         \/ Effect(t, 0, 0, 0, 0, 0, 0)
         \/ EnqUndo(t) /\ Effect(t, -1, 0, 0, -1, 0, 0)
         \/ EnqFree(t) /\ Effect(t, 0, -1, 0, 0, 0, 1)
         \/ EnqFree(t) /\ Effect(t, 0, 0, 0, 0, -1, 0)
         \/ EnqFlag(t) /\ closed /\ Effect(t, 0, 0, 0, 0, -1, 0)
         \/ EnqPut(t) /\ Effect(t, 0, 0, 1, -1, -1, -1)
         \/ DeqAlloc(t) /\ Effect(t, 0, 0, -1, 1, 0, 1)
         \/ GiveUsed(t) /\ Effect(t, -1, 0, 0, -1, 0, 0)
         \/ GivePut(t) /\ Effect(t, 0, 1, 0, 0, 0, -1)
  <1>0. /\ LocalType /\ used \in Nat /\ Capacity \in Nat
        /\ free \in Seq(Entry) /\ alloc \in Seq(Entry)
        /\ Len(free) \in Nat /\ Len(alloc) \in Nat
    BY TypeParts, ShapeFacts, LenProperties DEF TypeOK
  <1>p. pc[t] \in EmptyHanded \union FullHanded => pos[t] \in Indices
    BY DEF Apart, Possessors
  <1> USE DEF Effect, Change, InCount, InAdmit, InPossess, EmptyHanded, FullHanded, Goto,
              queues, LocalType
  <1>1. CASE EnqCall(t)
    BY <1>0, <1>1 DEF EnqCall, Call
  <1>2. CASE EnqUsed(t)
    BY <1>0, <1>2 DEF EnqUsed
  <1>3. CASE EnqUndo(t)
    BY <1>0, <1>3 DEF EnqUndo, Return
  <1>4. CASE EnqFree(t)
    <2>1. CASE free # <<>> /\ free' = Tail(free) /\ UNCHANGED <<alloc, used>>
               /\ Goto(t, "e_free", "e_write")
      <3>1. Len(free') = Len(free) - 1
        BY <1>0, <2>1, TailOfRing
      <3> QED BY <1>0, <1>4, <2>1, <3>1
    <2>2. CASE UNCHANGED <<queues, used>> /\ Goto(t, "e_free", "e_undo")
      BY <1>0, <1>4, <2>2
    <2> QED BY <1>4, <2>1, <2>2 DEF EnqFree
  <1>5. CASE EnqWrite(t)
    BY <1>0, <1>5 DEF EnqWrite
  <1>6. CASE EnqFlag(t)
    BY <1>0, <1>6 DEF EnqFlag
  <1>7. CASE EnqPut(t)
    <2>1. Len(alloc') = Len(alloc) + 1
      BY <1>0, <1>7, <1>p, AppendToRing DEF EnqPut
    <2> QED BY <1>0, <1>7, <2>1 DEF EnqPut
  <1>8. CASE EnqSettle(t)
    <2>1. Len(alloc') = Len(alloc)
      BY <1>0, <1>8, SettleRing DEF EnqSettle
    <2> QED BY <1>0, <1>8, <2>1 DEF EnqSettle, Return
  <1>9. CASE EnqFinal(t)
    BY <1>0, <1>9 DEF EnqFinal, Return
  <1>10. CASE DeqCall(t)
    BY <1>0, <1>10 DEF DeqCall, Call
  <1>11. CASE DeqAlloc(t)
    <2>1. CASE alloc # <<>> /\ alloc' = Tail(alloc) /\ UNCHANGED <<free, used>>
               /\ Goto(t, "d_alloc", "g_used")
      <3>1. Len(alloc') = Len(alloc) - 1
        BY <1>0, <2>1, TailOfRing
      <3> QED BY <1>0, <1>11, <2>1, <3>1
    <2>2. CASE UNCHANGED <<queues, used>> /\ Return(t, "d_alloc")
      BY <1>0, <2>2 DEF Return
    <2> QED BY <1>11, <2>1, <2>2 DEF DeqAlloc
  <1>12. CASE GiveUsed(t)
    BY <1>0, <1>12 DEF GiveUsed
  <1>13. CASE GiveRead(t)
    BY <1>0, <1>13 DEF GiveRead
  <1>14. CASE GivePut(t)
    <2>1. Len(free') = Len(free) + 1
      BY <1>0, <1>14, <1>p, AppendToRing DEF GivePut
    <2> QED BY <1>0, <1>14, <2>1 DEF GivePut
  <1>15. CASE GiveSettle(t)
    <2>1. Len(free') = Len(free)
      BY <1>0, <1>15, SettleRing DEF GiveSettle
    <2> QED BY <1>0, <1>15, <2>1 DEF GiveSettle, Return
  <1> QED BY <1>1, <1>2, <1>3, <1>4, <1>5, <1>6, <1>7, <1>8, <1>9, <1>10, <1>11, <1>12,
             <1>13, <1>14, <1>15 DEF Step

\* A thread that steps is alone in it, on a queue that is not dropped.
LEMMA OneThread ==
  ASSUME TypeOK, Gone, NEW t \in Threads, EnqCall(t) \/ DeqCall(t) \/ Step(t)
  PROVE  /\ \A u \in Threads : u # t => pc'[u] = pc[u]
         /\ ~dropped /\ ~dropped'
         /\ shape' = shape /\ Capacity' = Capacity /\ Finalizes' = Finalizes
  <1>1. shape' = shape /\ Capacity' = Capacity /\ Finalizes' = Finalizes
    BY SameShape DEF Next
  <1>2. \A u \in Threads : u # t => pc'[u] = pc[u]
    BY DEF Step, TypeOK, Goto, Return, Call, EnqCall, EnqUsed, EnqUndo, EnqFree, EnqWrite,
       EnqFlag, EnqPut, EnqSettle, EnqFinal, DeqCall, DeqAlloc, GiveUsed, GiveRead,
       GivePut, GiveSettle
  <1>3. ~dropped
    BY DEF Gone, Step, Goto, Return, Call, EnqCall, EnqUsed, EnqUndo, EnqFree, EnqWrite,
       EnqFlag, EnqPut, EnqSettle, EnqFinal, DeqCall, DeqAlloc, GiveUsed, GiveRead,
       GivePut, GiveSettle
  <1>4. dropped' = dropped
    BY DEF Step, Call, client, EnqCall, EnqUsed, EnqUndo, EnqFree, EnqWrite,
       EnqFlag, EnqPut, EnqSettle, EnqFinal, DeqCall, DeqAlloc, GiveUsed, GiveRead,
       GivePut, GiveSettle
  <1> QED BY <1>1, <1>2, <1>3, <1>4

\* The counter stays exact, and so do the lengths of the rings; and it admits
\* an enqueue only if a slot is left for it (src/scq.rs:701).
LEMMA BalanceStep ==
  ASSUME TypeOK, Apart, Balanced, FreeGated, Gone,
         NEW t \in Threads, EnqCall(t) \/ DeqCall(t) \/ Step(t)
  PROVE  Balanced' /\ FreeGated' /\ used' \in Nat
  <1>0. /\ Capacity' = Capacity /\ Capacity \in Nat /\ used \in Nat /\ ~dropped
        /\ Len(free) \in Nat /\ Len(alloc) \in Nat
    BY OneThread, ShapeFacts, LenProperties DEF TypeOK
  <1>1. LocalType /\ \A u \in Threads : u # t => pc'[u] = pc[u]
    BY OneThread, TypeParts
  <1>2. /\ Cardinality(Counted') = Cardinality(Counted) + Change(t, InCount)
        /\ Cardinality(Admitted') = Cardinality(Admitted) + Change(t, InAdmit)
        /\ Cardinality(Possessors') = Cardinality(Possessors) + Change(t, InPossess)
        /\ Cardinality(Counted) \in Nat /\ Cardinality(Admitted) \in Nat
        /\ Cardinality(Possessors) \in Nat
        /\ Cardinality(Admitted) <= Cardinality(Counted)
    BY <1>1, CountsStep
  <1>3. Counted' \in SUBSET Threads /\ Cardinality(Counted') \in Nat
    <2>1. Counted' \in SUBSET Threads
      BY DEF Counted
    <2> QED BY <2>1, CountThreads
  <1>4. SharedType' /\ Len(alloc') \in Nat
    BY SharedTypeStep, LenProperties DEF SharedType
  <1>5. used = Cardinality(Counted) + Len(alloc)
        /\ Len(free) + Len(alloc) + Cardinality(Possessors) = Capacity
    BY <1>0 DEF Balanced
  <1>6. Cardinality(Admitted) + Len(alloc) <= Capacity
    BY DEF FreeGated
  <1>7. /\ used' = Cardinality(Counted') + Len(alloc')
        /\ Len(free') + Len(alloc') + Cardinality(Possessors') = Capacity
        /\ Cardinality(Admitted') + Len(alloc') <= Capacity
    <2>1. /\ used' = used + Change(t, InCount) + (Len(alloc') - Len(alloc))
          /\ (Len(free') - Len(free)) + (Len(alloc') - Len(alloc)) + Change(t, InPossess) = 0
          /\ \/ Change(t, InAdmit) + (Len(alloc') - Len(alloc)) <= 0
             \/ used < Capacity /\ Change(t, InAdmit) = 1 /\ Len(alloc') = Len(alloc)
      BY <1>0, Effects DEF Effect
    <2>2. /\ Change(t, InCount) \in Int /\ Change(t, InAdmit) \in Int
          /\ Change(t, InPossess) \in Int
      BY DEF Change
    <2>3. Len(free') \in Nat
      BY SharedTypeStep, LenProperties DEF SharedType
    <2>4. used' = Cardinality(Counted') + Len(alloc')
      <3>1. used' = Cardinality(Counted) + Len(alloc) + Change(t, InCount)
                      + (Len(alloc') - Len(alloc))
        BY <1>5, <2>1
      <3> QED BY <1>0, <1>2, <1>4, <2>2, <3>1
    <2>5. Len(free') + Len(alloc') + Cardinality(Possessors') = Capacity
      <3>1. Len(free) + Len(alloc) + Cardinality(Possessors)
              + ((Len(free') - Len(free)) + (Len(alloc') - Len(alloc)) + Change(t, InPossess))
              = Capacity
        BY <1>0, <1>5, <2>1
      <3> QED BY <1>0, <1>2, <1>4, <2>2, <2>3, <3>1
    <2>6. Cardinality(Admitted') + Len(alloc') <= Capacity
      <3>1. CASE Change(t, InAdmit) + (Len(alloc') - Len(alloc)) <= 0
        BY <1>0, <1>2, <1>4, <1>6, <2>2, <3>1
      <3>2. CASE used < Capacity /\ Change(t, InAdmit) = 1 /\ Len(alloc') = Len(alloc)
        BY <1>0, <1>2, <1>5, <3>2
      <3> QED BY <2>1, <3>1, <3>2
    <2> QED BY <2>4, <2>5, <2>6
  <1> QED BY <1>0, <1>3, <1>4, <1>7 DEF Balanced, FreeGated

\* When the last slot of an open segment is taken, somebody has seen it
\* (src/scq.rs:730).
LEMMA LastSlotStep ==
  ASSUME TypeOK, Apart, Balanced, FreeGated, LastSlotSeen, Gone,
         NEW t \in Threads, EnqCall(t) \/ DeqCall(t) \/ Step(t)
  PROVE  LastSlotSeen'
  <1> DEFINE Closing == {"e_free", "e_write", "e_flag", "e_put", "e_settle", "e_final"}
             Full    == Cardinality(Admitted) + Len(alloc)
  <1> SUFFICES ASSUME Finalizes', ~FullAtFirst', ~closed', Full' = Capacity'
               PROVE  \E u \in Threads : pc'[u] \in Closing /\ size'[u] + 1 >= Capacity'
    BY DEF LastSlotSeen
  <1>0. /\ Capacity' = Capacity /\ Finalizes' = Finalizes /\ ~dropped
        /\ \A u \in Threads : u # t => pc'[u] = pc[u]
    BY OneThread
  <1>f. ~FullAtFirst
    BY OneThread, SameFirst
  <1>1. Capacity \in Nat /\ used \in Nat /\ Len(alloc) \in Nat /\ LocalType
    BY TypeParts, ShapeFacts, LenProperties DEF TypeOK
  <1>2. Len(alloc') \in Nat
    BY SharedTypeStep, LenProperties DEF SharedType
  <1>3. /\ Cardinality(Admitted') = Cardinality(Admitted) + Change(t, InAdmit)
        /\ Cardinality(Admitted) \in Nat /\ Cardinality(Counted) \in Nat
        /\ Cardinality(Admitted) <= Cardinality(Counted)
    BY <1>0, <1>1, CountsStep
  <1>4. Full <= Capacity /\ used = Cardinality(Counted) + Len(alloc)
    BY <1>0 DEF FreeGated, Balanced
  <1>5. CASE EnqUsed(t) /\ used < Capacity
    <2>1. size'[t] = used /\ pc'[t] = "e_free" /\ pc[t] = "e_used" /\ alloc' = alloc
      BY <1>1, <1>5 DEF EnqUsed, Goto, LocalType, queues
    <2>2. Change(t, InAdmit) = 1
      BY <2>1 DEF Change, InAdmit
    <2>3. Cardinality(Admitted) + 1 + Len(alloc) = Capacity
      BY <1>0, <1>3, <2>1, <2>2
    <2>4. used + 1 >= Capacity
      BY <1>1, <1>3, <1>4, <2>3
    <2> QED BY <1>0, <2>1, <2>4
  <1>6. CASE ~(EnqUsed(t) /\ used < Capacity)
    <2>1. /\ Change(t, InAdmit) + (Len(alloc') - Len(alloc)) <= 0
          /\ Change(t, InAdmit) \in Int
      BY <1>1, <1>6, Effects DEF Effect, Change
    <2>2. Full' = Full + (Change(t, InAdmit) + (Len(alloc') - Len(alloc)))
      BY <1>1, <1>2, <1>3, <2>1
    <2>3. Full = Capacity /\ Change(t, InAdmit) + (Len(alloc') - Len(alloc)) = 0
      BY <1>0, <1>1, <1>2, <1>3, <1>4, <2>1, <2>2
    <2>4. ~closed
      BY DEF Step, EnqCall, EnqUsed, EnqUndo, EnqFree, EnqWrite, EnqFlag, EnqPut, EnqSettle,
         EnqFinal, DeqCall, DeqAlloc, GiveUsed, GiveRead, GivePut, GiveSettle, queues
    <2>5. PICK u \in Threads : pc[u] \in Closing /\ size[u] + 1 >= Capacity
      BY <1>0, <1>f, <2>3, <2>4 DEF LastSlotSeen
    <2>6. CASE u # t
      <3>1. size'[u] = size[u]
        BY <1>1, <2>6 DEF Step, EnqCall, EnqUsed, EnqUndo, EnqFree, EnqWrite, EnqFlag, EnqPut,
           EnqSettle, EnqFinal, DeqCall, DeqAlloc, GiveUsed, GiveRead, GivePut, GiveSettle,
           local, Return, LocalType
      <3> QED BY <1>0, <2>5, <2>6, <3>1
    <2>7. CASE u = t
      <3>1. /\ EnqFree(t) \/ EnqWrite(t) \/ EnqFlag(t) \/ EnqPut(t) \/ EnqSettle(t) \/ EnqFinal(t)
        BY <2>5, <2>7 DEF Step, EnqCall, EnqUsed, EnqUndo, DeqCall, DeqAlloc, GiveUsed,
           GiveRead, GivePut, GiveSettle, Goto, Return, Call
      <3>2. CASE EnqFree(t)
        <4>1. CASE Goto(t, "e_free", "e_write") /\ UNCHANGED size
          BY <1>0, <1>1, <2>5, <2>7, <4>1 DEF Goto, LocalType
        <4>2. CASE Goto(t, "e_free", "e_undo") /\ UNCHANGED alloc
          <5>1. Change(t, InAdmit) = -1 /\ Len(alloc') - Len(alloc) = 0
            BY <1>1, <4>2 DEF Goto, LocalType, Change, InAdmit
          <5> QED BY <2>3, <5>1
        <4> QED BY <3>2, <4>1, <4>2 DEF EnqFree, queues
      <3>3. CASE EnqWrite(t) \/ EnqPut(t)
        BY <1>0, <1>1, <2>5, <2>7, <3>3 DEF EnqWrite, EnqPut, Goto, LocalType, local
      <3>4. CASE EnqFlag(t)
        BY <1>0, <1>1, <2>4, <2>5, <2>7, <3>4 DEF EnqFlag, Goto, LocalType, local
      <3>5. CASE EnqSettle(t)
        BY <1>0, <1>1, <2>5, <2>7, <3>5 DEF EnqSettle, Goto, LocalType, local
      <3>6. CASE EnqFinal(t)
        BY <3>6 DEF EnqFinal
      <3> QED BY <3>1, <3>2, <3>3, <3>4, <3>5, <3>6
    <2> QED BY <2>6, <2>7
  <1> QED BY <1>5, <1>6

-----------------------------------------------------------------------------
(* The invariant.                                                          *)

\* A new queue (src/scq.rs:612-640) satisfies the invariant.
LEMMA InitInv == Init => IInv
  <1> SUFFICES ASSUME Init PROVE IInv
    OBVIOUS
  <1>0. /\ free = [j \in 1 .. Capacity - First |-> At(First + j - 1, Nobody)]
        /\ alloc = [j \in 1 .. First |-> At(j - 1, Nobody)]
        /\ used = First /\ calls = 0 /\ shape \in Shapes /\ closed = FALSE /\ dropped = FALSE
        /\ pc = [t \in Threads |-> "idle"] /\ item = [t \in Threads |-> NoItem]
        /\ pos = [t \in Threads |-> NoPos] /\ size = [t \in Threads |-> 0]
    BY DEF Init
  <1>1. /\ Capacity \in Nat \ {0} /\ Indices = 0 .. Capacity - 1
        /\ First \in {0, 1} /\ First \in 0 .. Capacity
    BY <1>0, ShapeFacts, FirstFacts DEF Indices
  <1> DEFINE Rest == Capacity - First
  <1>2. /\ Rest \in Nat
        /\ \A i \in Indices : At(i, Nobody) \in Entry /\ At(i, Nobody).pos = i /\ At(i, Nobody).by = Nobody
    BY <1>1 DEF At, Entry
  <1>3. /\ \A j \in 1 .. Rest : First + j - 1 \in Indices
        /\ \A j \in 1 .. First : j - 1 \in Indices
    BY <1>1
  <1>4. /\ free \in Seq(Entry) /\ Len(free) = Rest /\ DOMAIN free = 1 .. Rest
        /\ \A j \in 1 .. Rest : free[j].pos = First + j - 1 /\ free[j].by = Nobody
    <2>1. free \in [1 .. Rest -> Entry]
      BY <1>0, <1>2, <1>3
    <2> QED BY <1>0, <1>2, <1>3, <2>1, SeqDef
  <1>5. /\ alloc \in Seq(Entry) /\ Len(alloc) = First /\ DOMAIN alloc = 1 .. First
        /\ \A j \in 1 .. First : alloc[j].pos = j - 1 /\ alloc[j].by = Nobody
    <2>1. alloc \in [1 .. First -> Entry] /\ First \in Nat
      BY <1>0, <1>1, <1>2, <1>3
    <2> QED BY <1>0, <1>2, <1>3, <2>1, SeqDef
  <1>b. PICK m \in Items : backing = [i \in Indices |-> IF i < First THEN m ELSE NoItem]
    BY DEF Init
  <1>c. Rest = Capacity - First
    OBVIOUS
  <1> HIDE DEF Rest
  <1>6. NoRepeat(free) /\ NoRepeat(alloc)
    BY <1>1, <1>2, <1>4, <1>5 DEF NoRepeat
  <1>7. \A i \in Indices : (Stored(free, i) <=> i >= First) /\ (Stored(alloc, i) <=> i < First)
    <2>1. ASSUME NEW i \in Indices, i >= First PROVE Stored(free, i)
      <3>1. i - First + 1 \in 1 .. Rest /\ First + (i - First + 1) - 1 = i
        BY <1>1, <1>c, <2>1
      <3>2. free[i - First + 1].pos = i
        BY <1>4, <3>1
      <3> QED BY <1>4, <3>1, <3>2 DEF Stored
    <2>2. ASSUME NEW i \in Indices, i < First PROVE Stored(alloc, i)
      <3>1. i = 0 /\ First = 1
        BY <1>1, <2>2
      <3> QED BY <1>5, <3>1 DEF Stored
    <2>3. ASSUME NEW i \in Indices, Stored(free, i) PROVE i >= First
      <3>1. PICK j \in 1 .. Rest : free[j].pos = i
        BY <1>4, <2>3 DEF Stored
      <3>2. i = First + j - 1
        BY <1>4, <3>1
      <3> QED BY <1>1, <1>2, <3>1, <3>2
    <2>4. ASSUME NEW i \in Indices, Stored(alloc, i) PROVE i < First
      <3>1. PICK j \in 1 .. First : alloc[j].pos = i
        BY <1>5, <2>4 DEF Stored
      <3>2. i = j - 1
        BY <1>5, <3>1
      <3> QED BY <1>1, <3>1, <3>2
    <2>5. \A i \in Indices : ~(i >= First) <=> i < First
      BY <1>1
    <2> QED BY <2>1, <2>2, <2>3, <2>4, <2>5
  <1>8. Possessors = {} /\ Counted = {} /\ Admitted = {}
    BY <1>0 DEF Possessors, Counted, Admitted, EmptyHanded, FullHanded
  <1>9. TypeOK
    <2>1. shape.calls \in Nat
      BY <1>0, ShapeFacts
    <2>2. LocalType
      BY <1>0 DEF LocalType, PC
    <2>3. calls \in 0 .. shape.calls /\ used \in Nat
      BY <1>0, <1>1, <2>1
    <2>4. backing \in [Indices -> Items \union {NoItem}]
      BY <1>b
    <2>5. closed \in BOOLEAN /\ dropped \in BOOLEAN /\ shape \in Shapes
      BY <1>0, Zenon
    <2>6. SharedType
      BY <1>4, <1>5, <2>3, <2>4, <2>5, Zenon DEF SharedType
    <2> QED BY <2>2, <2>3, <2>6, TypeParts
  <1>10. Apart /\ Covered
    BY <1>1, <1>6, <1>7, <1>8 DEF Apart, Covered
  <1>11. Carrying /\ Written /\ Initialized
    <2>1. \A t \in Threads : pc[t] = "idle"
      BY <1>0
    <2>2. \A i \in Indices : /\ Stored(alloc, i) => backing[i] \in Items
                             /\ Stored(free, i) => backing[i] = NoItem
      BY <1>1, <1>b, <1>7
    <2> QED BY <2>1, <2>2 DEF Carrying, Written, Initialized, EmptyHanded, FullHanded
  <1>12. Balanced /\ FreeGated
    BY <1>0, <1>1, <1>4, <1>5, <1>8, <1>c, FS_EmptySet DEF Balanced, FreeGated
  <1>13. LastSlotSeen /\ Gone
    BY <1>0, <1>1, <1>5, <1>8, FS_EmptySet DEF LastSlotSeen, FullAtFirst, Gone
  <1>14. Signed
    BY <1>4, <1>5 DEF Signed, SignedBy
  <1> QED BY <1>9, <1>10, <1>11, <1>12, <1>13, <1>14 DEF IInv

\* Drop (src/scq.rs:784) empties every cell of the indices it finds: at rest an
\* index is in one of the rings, and one in the free ring has an empty cell.
LEMMA DropInv == IInv /\ DropQueue => IInv'
  <1> SUFFICES ASSUME IInv, DropQueue PROVE IInv'
    OBVIOUS
  <1> USE DEF IInv
  <1>1. /\ UNCHANGED <<shape, free, closed, used, pc, local, calls>> /\ dropped' = TRUE /\ ~dropped
        /\ \A u \in Threads : pc[u] = "idle"
        /\ Indices' = Indices /\ Entry' = Entry /\ Capacity' = Capacity /\ Finalizes' = Finalizes
        /\ FullAtFirst' = FullAtFirst /\ Crowded' = Crowded
    BY SameFirst DEF DropQueue, Indices, Entry, Capacity, Finalizes
  <1>2. PICK k \in 0 .. Len(alloc) :
          /\ k = Len(alloc) \/ Crowded
          /\ alloc' = SubSeq(alloc, k + 1, Len(alloc))
          /\ backing' = [i \in Indices |->
                          IF \E j \in 1 .. k : alloc[j].pos = i THEN NoItem ELSE backing[i]]
    BY DEF DropQueue
  <1>a. /\ alloc \in Seq(Entry) /\ Len(alloc) \in Nat /\ DOMAIN alloc = 1 .. Len(alloc)
        /\ backing \in [Indices -> Items \union {NoItem}] /\ Capacity \in Nat
    BY LenProperties, ShapeFacts DEF TypeOK
  <1> DEFINE last == Len(alloc)
             N    == last - k
  <1>3. /\ last = Len(alloc) /\ last \in Nat /\ k \in 0 .. last /\ DOMAIN alloc = 1 .. last
        /\ alloc \in Seq(Entry) /\ backing \in [Indices -> Items \union {NoItem}] /\ Capacity \in Nat
    BY <1>2, <1>a
  <1> HIDE DEF last
  <1>4. /\ alloc' \in Seq(Entry) /\ Len(alloc') = N /\ DOMAIN alloc' = 1 .. N /\ N \in Nat
        /\ \A j \in 1 .. N : alloc'[j] = alloc[k + j] /\ k + j \in 1 .. last /\ k + j \notin 1 .. k
    <2> DEFINE first == k + 1
    <2>1. first \in Int /\ last \in Int /\ \A i \in first .. last : alloc[i] \in Entry
      <3>1. \A i \in 1 .. last : alloc[i] \in Entry
        BY <1>3, ElementOfSeq
      <3> QED BY <1>3, <3>1
    <2>2. N \in Nat /\ last - first + 1 = N /\ (IF first <= last THEN last - first + 1 ELSE 0) = N
      BY <1>3
    <2> HIDE DEF first
    <2>3. /\ SubSeq(alloc, first, last) \in Seq(Entry)
          /\ Len(SubSeq(alloc, first, last)) = IF first <= last THEN last - first + 1 ELSE 0
          /\ \A j \in 1 .. last - first + 1 :
               SubSeq(alloc, first, last)[j] = alloc[first + j - 1]
      BY <2>1, SubSeqProperties
    <2> HIDE DEF N
    <2>4. \A j \in 1 .. N : first + j - 1 = k + j
      BY <1>3, <2>2 DEF first
    <2>5. \A j \in 1 .. N : k + j \in 1 .. last /\ k + j \notin 1 .. k
      BY <1>3 DEF N
    <2>6. alloc' = SubSeq(alloc, first, last)
      BY <1>2, <1>3 DEF first
    <2> QED BY <2>2, <2>3, <2>4, <2>5, <2>6, LenProperties
  <1> HIDE DEF N
  <1>5. /\ \A u \in Threads : pc[u] \notin EmptyHanded \union FullHanded
        /\ Possessors = {} /\ Possessors' = {} /\ Admitted = {} /\ Admitted' = {}
    BY <1>1 DEF Possessors, Admitted, EmptyHanded, FullHanded
  <1>6. TypeOK'
    BY <1>1, <1>2, <1>3, <1>4 DEF TypeOK, local
  <1>7. \A i \in Indices : Stored(alloc', i) => Stored(alloc, i) /\ backing'[i] = backing[i]
    <2> SUFFICES ASSUME NEW i \in Indices, NEW j \in 1 .. N, alloc[k + j].pos = i
                 PROVE  Stored(alloc, i) /\ backing'[i] = backing[i]
      BY <1>4 DEF Stored
    <2>1. k + j \in DOMAIN alloc /\ k + j \notin 1 .. k
      BY <1>3, <1>4
    <2>2. ~\E l \in 1 .. k : alloc[l].pos = i
      <3> SUFFICES ASSUME NEW l \in 1 .. k, alloc[l].pos = i PROVE FALSE
        OBVIOUS
      <3>1. l \in DOMAIN alloc
        BY <1>3
      <3> QED BY <2>1, <3>1 DEF Apart, NoRepeat
    <2> QED BY <1>2, <2>1, <2>2 DEF Stored
  <1>8. Apart' /\ Covered'
    <2>1. NoRepeat(alloc')
      <3> SUFFICES ASSUME NEW i \in 1 .. N, NEW j \in 1 .. N, alloc[k + i].pos = alloc[k + j].pos
                   PROVE  i = j
        BY <1>4 DEF NoRepeat
      <3>1. k + i \in DOMAIN alloc /\ k + j \in DOMAIN alloc
        BY <1>3, <1>4
      <3>2. k + i = k + j
        BY <3>1 DEF Apart, NoRepeat
      <3>3. i \in Nat /\ j \in Nat /\ k \in Nat
        BY <1>3, <1>4
      <3> QED BY <3>2, <3>3
    <2> QED BY <1>1, <1>5, <1>7, <2>1 DEF Apart, Covered, NoRepeat, Stored
  <1>9. Carrying' /\ Written' /\ Initialized'
    <2>1. \A i \in Indices : Stored(free, i) => backing'[i] = NoItem
      BY <1>2 DEF Initialized
    <2> QED BY <1>1, <1>5, <1>7, <2>1 DEF Carrying, Written, Initialized, Stored, local
  <1>10. Gone'
    <2> SUFFICES ASSUME ~Crowded PROVE alloc' = <<>> /\ \A i \in Indices : backing'[i] = NoItem
      BY <1>1 DEF Gone
    <2>1. k = last /\ Len(alloc') = 0
      BY <1>2, <1>3, <1>4 DEF N
    <2>2. alloc' = <<>>
      BY <1>4, <2>1, EmptySeq
    <2>3. \A i \in Indices : backing'[i] = NoItem
      BY <1>1, <1>2, <1>3, <1>5, <2>1 DEF Covered, Initialized, Stored
    <2> QED BY <2>2, <2>3
  <1>11. Balanced' /\ FreeGated' /\ LastSlotSeen'
    <2>1. Len(alloc') <= Len(alloc) /\ Cardinality({}) = 0
      BY <1>3, <1>4, FS_EmptySet DEF N
    <2>2. Len(alloc) <= Capacity
      BY <1>3, <1>5, <2>1 DEF FreeGated
    <2>3. ~(Finalizes /\ ~FullAtFirst /\ ~closed /\ Len(alloc) = Capacity)
      BY <1>1, <1>3, <1>5, <2>1 DEF LastSlotSeen
    <2> QED BY <1>1, <1>3, <1>4, <1>5, <2>1, <2>2, <2>3 DEF Balanced, FreeGated, LastSlotSeen
  <1>12. Signed'
    <2>1. \A j \in DOMAIN alloc : alloc[j].by = Nobody
      <3> SUFFICES ASSUME NEW j \in DOMAIN alloc, alloc[j].by # Nobody PROVE FALSE
        OBVIOUS
      <3>1. alloc[j] \in Entry
        BY <1>3, ElementOfSeq
      <3>2. alloc[j].by \in Threads
        BY <3>1 DEF Entry
      <3> QED BY <1>1, <3>2 DEF Signed, SignedBy
    <2>2. \A j \in DOMAIN alloc' : alloc'[j].by = Nobody
      BY <1>3, <1>4, <2>1
    <2> QED BY <1>1, <2>2 DEF Signed, SignedBy, local
  <1> QED BY <1>6, <1>8, <1>9, <1>10, <1>11, <1>12

\* Every step keeps the invariant.
LEMMA NextInv == IInv /\ [Next]_vars => IInv'
  <1> SUFFICES ASSUME IInv, [Next]_vars PROVE IInv'
    OBVIOUS
  <1>1. ASSUME NEW t \in Threads, EnqCall(t) \/ DeqCall(t) \/ Step(t) PROVE IInv'
    <2> USE <1>1 DEF IInv
    <2>1. LocalType' /\ SharedType'
      BY LocalTypeStep, SharedTypeStep
    <2>2. Apart' /\ Covered' /\ Initialized' /\ Carrying' /\ Written'
      BY PlacesStep, CarryingStep, WrittenStep, TypeParts
    <2>3. Balanced' /\ FreeGated' /\ used' \in Nat
      BY BalanceStep
    <2>4. LastSlotSeen'
      BY LastSlotStep
    <2>5. Gone' /\ Signed'
      BY OneThread, SignedStep DEF Gone
    <2>6. TypeOK'
      BY <2>1, <2>3 DEF TypeOK, LocalType, SharedType
    <2> QED BY <2>2, <2>3, <2>4, <2>5, <2>6
  <1>2. CASE DropQueue
    BY <1>2, DropInv
  <1>3. CASE UNCHANGED vars
    <2>1. /\ UNCHANGED <<shape, free, alloc, closed, used, backing, pc, item, pos, size, calls, dropped>>
          /\ Indices' = Indices /\ Entry' = Entry /\ Capacity' = Capacity /\ Finalizes' = Finalizes
      BY <1>3 DEF vars, queues, local, client, Indices, Entry, Capacity, Finalizes
    <2>2. /\ Possessors' = Possessors /\ Counted' = Counted /\ Admitted' = Admitted
          /\ FullAtFirst' = FullAtFirst /\ Crowded' = Crowded
      BY <2>1, SameFirst DEF Possessors, Counted, Admitted
    <2> QED BY <2>1, <2>2 DEF IInv, TypeOK, Apart, Covered, Carrying, Written, Signed, SignedBy,
               Initialized, Balanced,
               FreeGated, LastSlotSeen, Gone
  <1> QED BY <1>1, <1>2, <1>3 DEF Next

\* The invariant holds in every behaviour of the bounded queue.
THEOREM Invariance == Spec => []IInv
  BY InitInv, NextInv, PTL DEF Spec

-----------------------------------------------------------------------------
(* What follows from it.                                                   *)

\* The variables keep their types: on every path of enqueue_cycle() and
\* dequeue() (src/scq.rs:699-740, 749-766) the counter is raised before it is
\* lowered, so that it never wraps below zero.
THEOREM TypeCorrect == Spec => []TypeOK
  BY Invariance, PTL DEF IInv

\* Every cell is written when empty and read when full: what the unsafe write
\* and assume_init_read (src/scq.rs:714, 724, 759) and the loop of drop()
\* (src/scq.rs:784-789) rely on.
THEOREM InitializedCorrect == Spec => []Initialized
  BY Invariance, PTL DEF IInv

\* The free ring is never asked for more indices than there are: the test of
\* the counter (src/scq.rs:701-705) comes before its dequeue.
THEOREM FreeGatedCorrect == Spec => []FreeGated
  BY Invariance, PTL DEF IInv

\* A set that holds one element at most counts whether it holds one.
LEMMA CountOne ==
  ASSUME NEW S, \A x, y \in S : x = y
  PROVE  Cardinality(S) = IF S = {} THEN 0 ELSE 1
  <1>1. CASE S = {}
    BY <1>1, FS_EmptySet
  <1>2. CASE S # {}
    <2>1. PICK x : S = {x}
      BY <1>2
    <2> QED BY <1>2, <2>1, FS_Singleton
  <1> QED BY <1>1, <1>2

\* No index is lost, and none has two users, also where an enqueue is refused
\* after it has taken one (src/scq.rs:716-727): the capacity does not shrink.
THEOREM OnePlaceCorrect == Spec => []OnePlace
  <1>1. IInv => OnePlace
    <2> SUFFICES ASSUME IInv, ~dropped, NEW i \in Indices
                 PROVE  Cardinality({j \in DOMAIN free : free[j].pos = i})
                          + Cardinality({j \in DOMAIN alloc : alloc[j].pos = i})
                          + Cardinality({t \in Threads : Possessed(t, i)}) = 1
      BY DEF OnePlace
    <2> DEFINE F == {j \in DOMAIN free : free[j].pos = i}
               A == {j \in DOMAIN alloc : alloc[j].pos = i}
               P == {t \in Threads : Possessed(t, i)}
    <2>1. /\ Cardinality(F) = IF F = {} THEN 0 ELSE 1
          /\ Cardinality(A) = IF A = {} THEN 0 ELSE 1
      BY CountOne DEF IInv, Apart, NoRepeat
    <2>2. P = {t \in Possessors : pos[t] = i}
      BY DEF Possessed, Possessors
    <2>3. Cardinality(P) = IF P = {} THEN 0 ELSE 1
      BY <2>2, CountOne DEF IInv, Apart
    <2>4. (F # {} <=> Stored(free, i)) /\ (A # {} <=> Stored(alloc, i))
      BY DEF Stored
    <2>5. /\ ~(F # {} /\ A # {}) /\ ~(F # {} /\ P # {}) /\ ~(A # {} /\ P # {})
          /\ F # {} \/ A # {} \/ P # {}
      BY <2>2, <2>4 DEF IInv, Apart, Covered
    <2> QED BY <2>1, <2>3, <2>5
  <1> QED BY <1>1, Invariance, PTL

\* At rest the counter is the number of elements, so that a queue refuses an
\* item at src/scq.rs:702 only when it is full or somebody is at work in it.
THEOREM RestExactCorrect == Spec => []RestExact
  <1>1. IInv => RestExact
    <2> SUFFICES ASSUME IInv, ~dropped, \A t \in Threads : pc[t] = "idle"
                 PROVE  used = Len(alloc) /\ Len(free) = Capacity - used
      BY DEF RestExact
    <2>1. Cardinality(Counted) = 0 /\ Cardinality(Possessors) = 0
      <3>1. Counted = {} /\ Possessors = {}
        BY DEF Counted, Possessors, EmptyHanded, FullHanded
      <3> QED BY <3>1, FS_EmptySet
    <2>2. Len(free) \in Nat /\ Len(alloc) \in Nat /\ Capacity \in Nat
      BY LenProperties, ShapeFacts DEF IInv, TypeOK
    <2> QED BY <2>1, <2>2 DEF IInv, Balanced
  <1> QED BY <1>1, Invariance, PTL

\* A full segment at rest is closed: the enqueue that took the last slot has
\* finalized it (src/scq.rs:730-734), although another one may have seen the
\* counter lower or higher.  Only the one slot of a segment that was linked with
\* an item may have been taken without that.
THEOREM FullIsClosedCorrect == Spec => []FullIsClosed
  <1>1. IInv => FullIsClosed
    <2> SUFFICES ASSUME IInv, Finalizes, ~FullAtFirst, \A t \in Threads : pc[t] = "idle",
                        Len(alloc) = Capacity
                 PROVE  closed
      BY DEF FullIsClosed
    <2>1. Cardinality(Admitted) = 0
      <3>1. Admitted = {}
        BY DEF Admitted
      <3> QED BY <3>1, FS_EmptySet
    <2>2. Capacity \in Nat
      BY ShapeFacts DEF IInv, TypeOK
    <2> QED BY <2>1, <2>2 DEF IInv, LastSlotSeen
  <1> QED BY <1>1, Invariance, PTL

\* drop() (src/scq.rs:784-789) leaves no item behind in a cell, if no more than
\* capacity + 1 dequeues were made at a time; otherwise the allocation ring may
\* answer None too soon (src/scq.rs:332).
THEOREM DropsAllCorrect == Spec => []DropsAll
  <1>1. IInv => DropsAll
    BY DEF IInv, Gone, DropsAll
  <1> QED BY <1>1, Invariance, PTL

\* A closed ring without an enqueue past the last look at the flag.
Sealed == closed /\ alloc = <<>> /\ \A t \in Threads : pc[t] # "e_put"

\* A segment that is closed and drained, with no enqueue under way that was
\* admitted before, stays empty for ever: "nothing more will be added to it"
\* (src/scq.rs:731-733).
THEOREM StaysEmptyCorrect == Spec => StaysEmpty
  <1>1. Retired => Sealed
    BY DEF Retired, Sealed, Admitted
  <1>2. IInv /\ Sealed /\ [Next]_vars => Sealed'
    <2> SUFFICES ASSUME IInv, Sealed, [Next]_vars PROVE Sealed'
      OBVIOUS
    <2>0. LocalType
      BY TypeParts DEF IInv
    <2>1. ASSUME NEW t \in Threads, EnqCall(t) \/ DeqCall(t) \/ Step(t) PROVE Sealed'
      <3>1. ~EnqPut(t)
        BY DEF EnqPut, Goto, Sealed
      <3>2. alloc' = alloc
        <4>1. Settle(alloc, t) = alloc
          BY DEF Sealed, Settle
        <4> QED BY <2>1, <3>1, <4>1 DEF Sealed, Step, queues, EnqCall, EnqUsed, EnqUndo, EnqFree,
                   EnqWrite, EnqFlag, EnqSettle, EnqFinal, DeqCall, DeqAlloc, GiveUsed,
                   GiveRead, GivePut, GiveSettle
      <3>3. closed'
        BY <2>1, <3>1 DEF Sealed, Step, queues, EnqCall, EnqUsed, EnqUndo, EnqFree,
           EnqWrite, EnqFlag, EnqSettle, EnqFinal, DeqCall, DeqAlloc, GiveUsed,
           GiveRead, GivePut, GiveSettle
      <3>4. \A u \in Threads : pc'[u] # "e_put"
        BY <2>0, <2>1, <3>1 DEF Sealed, LocalType, Goto, Return, Call, Step, EnqCall, EnqUsed,
           EnqUndo, EnqFree, EnqWrite, EnqFlag, EnqSettle, EnqFinal, DeqCall, DeqAlloc,
           GiveUsed, GiveRead, GivePut, GiveSettle
      <3> QED BY <3>2, <3>3, <3>4 DEF Sealed
    <2>2. CASE DropQueue
      BY <2>2 DEF DropQueue, Sealed
    <2>3. CASE UNCHANGED vars
      BY <2>3 DEF vars, queues, Sealed
    <2> QED BY <2>1, <2>2, <2>3 DEF Next
  <1>3. Sealed => alloc = <<>>
    BY DEF Sealed
  <1> QED BY <1>1, <1>2, <1>3, Invariance, PTL DEF Spec, StaysEmpty
=============================================================================
