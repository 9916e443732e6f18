--------------------------- MODULE UnboundedProofs ---------------------------
(***************************************************************************)
(* Proofs about the unbounded queue, for any threads, queue to begin with  *)
(* and interleaving.  IInv (module UnboundedInv) is inductive.             *)
(***************************************************************************)
EXTENDS UnboundedRounds, FiniteSetTheorems, SequenceTheorems, TLAPS

-----------------------------------------------------------------------------
(* The types.                                                              *)

\* A segment has at least one slot.
LEMMA StartFacts ==
  ASSUME start \in Starts
  PROVE  /\ Capacity \in Nat \ {0} /\ MaxItem \in Nat
         /\ start.filled \in Nat /\ start.calls \in Nat /\ start.enqueuers \in Nat
  BY UnboundedAssumption, CapacityAssumption DEF Capacity, MaxItem, internal_order

\* What the types say of one segment and of the end of the list.
LEMMA NodeFacts ==
  ASSUME LooseType
  PROVE  /\ End \in Nat \ {0} /\ DOMAIN nodes = 1 .. End /\ Len(nodes) = End
         /\ \A n \in 1 .. End :
              /\ nodes[n] \in LooseSegment
              /\ nodes[n].queue \in Seq(1 .. MaxItem)
              /\ nodes[n].closed \in BOOLEAN /\ nodes[n].refilled \in BOOLEAN
              /\ nodes[n].used \in Int /\ nodes[n].free \in Nat
         /\ \A t \in Threads : cur[t] \in Int /\ (cur[t] # Null => cur[t] \in 1 .. End)
  <1>1. nodes \in Seq(LooseSegment) /\ End \in Nat /\ DOMAIN nodes = 1 .. End /\ Len(nodes) = End
    BY LenProperties DEF LooseType, End
  <1>2. End # 0
    BY <1>1 DEF LooseType
  <1>3. \A n \in 1 .. End : nodes[n] \in LooseSegment
    BY <1>1, ElementOfSeq
  <1>4. \A t \in Threads : cur[t] \in 0 .. End
    BY DEF LooseType, LocalType
  <1> QED BY <1>1, <1>2, <1>3, <1>4 DEF LooseSegment, Null

\* The queue is what it was set up to be, for ever.
LEMMA SameStart ==
  ASSUME start' = start
  PROVE  /\ Capacity' = Capacity /\ MaxItem' = MaxItem /\ LooseSegment' = LooseSegment
         /\ internal_order' = internal_order
  BY DEF Capacity, MaxItem, LooseSegment, internal_order

LEMMA SameCrowd ==
  ASSUME start' = start
  PROVE  Crowded' = Crowded
  BY SameStart DEF Crowded

\* A step within a segment writes to that segment only.
LEMMA SegmentStep ==
  ASSUME LooseType, NEW t \in Threads, cur[t] # Null, NEW s \in LooseSegment, OnSegment(t, s)
  PROVE  /\ nodes' \in Seq(LooseSegment) /\ End' = End /\ start' = start
         /\ nodes'[cur[t]] = s
         /\ \A n \in 1 .. End : n # cur[t] => nodes'[n] = nodes[n]
         /\ UNCHANGED <<head, tail, memory, length, calls>>
  <1>1. cur[t] \in 1 .. Len(nodes) /\ nodes \in Seq(LooseSegment) /\ End = Len(nodes)
    BY NodeFacts DEF LooseType
  <1>2. /\ nodes' = [nodes EXCEPT ![cur[t]] = s]
        /\ UNCHANGED <<start, head, tail, memory, length, calls>>
    BY DEF OnSegment
  <1>3. nodes' \in Seq(LooseSegment) /\ Len(nodes') = Len(nodes)
    BY <1>1, <1>2, ExceptSeq
  <1> QED BY <1>1, <1>2, <1>3, LenProperties DEF End

\* A step of t leaves these fields in the segment that t works on, and every
\* other segment alone.
Writes(t, queue, closed, refilled, used, free) ==
  /\ cur[t] \in 1 .. End
  /\ nodes' \in Seq(LooseSegment) /\ End' = End
  /\ nodes'[cur[t]].queue = queue
  /\ nodes'[cur[t]].closed = closed /\ nodes'[cur[t]].refilled = refilled
  /\ nodes'[cur[t]].used = used /\ nodes'[cur[t]].free = free
  /\ \A n \in 1 .. End : n # cur[t] => nodes'[n] = nodes[n]
  /\ UNCHANGED <<start, head, tail, memory, length, calls>>

\* What OnSegment writes, field by field.
LEMMA WritesFields ==
  ASSUME LooseType, NEW t \in Threads, cur[t] # Null, NEW s \in LooseSegment, OnSegment(t, s)
  PROVE  Writes(t, s.queue, s.closed, s.refilled, s.used, s.free)
  BY SegmentStep, NodeFacts DEF Writes

\* What each step within a segment does to it.
LEMMA SegmentWrites ==
  ASSUME LooseType, Pointers, NEW t \in Threads
  PROVE  LET s == nodes[cur[t]]
         IN  /\ EnqUsed(t) => Writes(t, s.queue, s.closed, s.refilled, s.used + 1, s.free)
             /\ EnqUndo(t) \/ EnqGiveUsed(t) \/ DeqUsed(t) =>
                  Writes(t, s.queue, s.closed, s.refilled, s.used - 1, s.free)
             /\ EnqFree(t) /\ s.free > 0 =>
                  Writes(t, s.queue, s.closed, s.refilled, s.used, s.free - 1)
             /\ EnqFree(t) /\ ~(s.free > 0) =>
                  Writes(t, s.queue, s.closed, s.refilled, s.used, s.free)
             /\ EnqFlag(t) \/ EnqSettle(t) =>
                  Writes(t, s.queue, s.closed, s.refilled, s.used, s.free)
             /\ EnqPut(t) /\ item[t] # NoItem =>
                  Writes(t, Append(s.queue, item[t]), s.closed, s.refilled, s.used, s.free)
             /\ EnqFinal(t) => Writes(t, s.queue, TRUE, s.refilled, s.used, s.free)
             /\ EnqGiveFree(t) \/ DeqFree(t) =>
                  Writes(t, s.queue, s.closed, s.refilled, s.used, s.free + 1)
             /\ Claim(t, "d_try") \/ Claim(t, "d_again") =>
                  Writes(t, Tail(s.queue), s.closed, s.refilled, s.used, s.free)
             /\ DeqNext(t) /\ cur[t] # End =>
                  Writes(t, s.queue, s.closed, s.refilled \/ s.closed, s.used, s.free)
  <1> DEFINE s == nodes[cur[t]]
  <1>a. pc[t] \notin {"idle", "e_tail", "d_head"} =>
          /\ cur[t] # Null
          /\ s \in LooseSegment /\ s.queue \in Seq(1 .. MaxItem)
          /\ s.closed \in BOOLEAN /\ s.refilled \in BOOLEAN
          /\ s.used \in Int /\ s.free \in Nat
    BY NodeFacts DEF Pointers
  <1>b. ASSUME NEW r \in LooseSegment, cur[t] # Null, OnSegment(t, r)
        PROVE  Writes(t, r.queue, r.closed, r.refilled, r.used, r.free)
    BY <1>b, WritesFields
  <1> HIDE DEF s
  <1>1. ASSUME EnqUsed(t)
        PROVE  Writes(t, s.queue, s.closed, s.refilled, s.used + 1, s.free)
    <2> DEFINE r == [s EXCEPT !.used = @ + 1]
    <2>1. cur[t] # Null /\ OnSegment(t, r)
      BY <1>a, <1>1 DEF EnqUsed, Goto, Return, s
    <2>2. /\ r \in LooseSegment
          /\ r.queue = s.queue /\ r.closed = s.closed /\ r.refilled = s.refilled 
          /\ r.used = s.used + 1 /\ r.free = s.free
      BY <1>a, <1>1 DEF EnqUsed, Goto, Return, LooseSegment
    <2> HIDE DEF r
    <2> QED BY <1>b, <2>1, <2>2
  <1>2. ASSUME EnqUndo(t) \/ EnqGiveUsed(t) \/ DeqUsed(t)
        PROVE  Writes(t, s.queue, s.closed, s.refilled, s.used - 1, s.free)
    <2> DEFINE r == [s EXCEPT !.used = @ - 1]
    <2>1. cur[t] # Null /\ OnSegment(t, r)
      BY <1>a, <1>2 DEF EnqUndo, EnqGiveUsed, DeqUsed, Goto, Return, s
    <2>2. /\ r \in LooseSegment
          /\ r.queue = s.queue /\ r.closed = s.closed /\ r.refilled = s.refilled 
          /\ r.used = s.used - 1 /\ r.free = s.free
      BY <1>a, <1>2 DEF EnqUndo, EnqGiveUsed, DeqUsed, Goto, Return, LooseSegment
    <2> HIDE DEF r
    <2> QED BY <1>b, <2>1, <2>2
  <1>3. ASSUME EnqFree(t), s.free > 0
        PROVE  Writes(t, s.queue, s.closed, s.refilled, s.used, s.free - 1)
    <2> DEFINE r == [s EXCEPT !.free = @ - 1]
    <2>1. cur[t] # Null /\ OnSegment(t, r)
      BY <1>a, <1>3 DEF EnqFree, Goto, Return, s
    <2>2. /\ r \in LooseSegment
          /\ r.queue = s.queue /\ r.closed = s.closed /\ r.refilled = s.refilled 
          /\ r.used = s.used /\ r.free = s.free - 1
      BY <1>a, <1>3 DEF EnqFree, Goto, Return, LooseSegment
    <2> HIDE DEF r
    <2> QED BY <1>b, <2>1, <2>2
  <1>4. ASSUME EnqFree(t), ~(s.free > 0)
        PROVE  Writes(t, s.queue, s.closed, s.refilled, s.used, s.free)
    <2> DEFINE r == s
    <2>1. cur[t] # Null /\ OnSegment(t, r)
      BY <1>a, <1>4 DEF EnqFree, Goto, Return, s
    <2>2. /\ r \in LooseSegment
          /\ r.queue = s.queue /\ r.closed = s.closed /\ r.refilled = s.refilled 
          /\ r.used = s.used /\ r.free = s.free
      BY <1>a, <1>4 DEF EnqFree, Goto, Return, LooseSegment
    <2> HIDE DEF r
    <2> QED BY <1>b, <2>1, <2>2
  <1>5. ASSUME EnqFlag(t) \/ EnqSettle(t)
        PROVE  Writes(t, s.queue, s.closed, s.refilled, s.used, s.free)
    <2> DEFINE r == s
    <2>1. cur[t] # Null /\ OnSegment(t, r)
      BY <1>a, <1>5 DEF EnqFlag, EnqSettle, Goto, Return, s
    <2>2. /\ r \in LooseSegment
          /\ r.queue = s.queue /\ r.closed = s.closed /\ r.refilled = s.refilled 
          /\ r.used = s.used /\ r.free = s.free
      BY <1>a, <1>5 DEF EnqFlag, EnqSettle, Goto, Return, LooseSegment
    <2> HIDE DEF r
    <2> QED BY <1>b, <2>1, <2>2
  <1>6. ASSUME EnqPut(t), item[t] # NoItem
        PROVE  Writes(t, Append(s.queue, item[t]), s.closed, s.refilled, s.used, s.free)
    <2> DEFINE r == [s EXCEPT !.queue = Append(@, item[t])]
    <2>1. cur[t] # Null /\ OnSegment(t, r)
      BY <1>a, <1>6 DEF EnqPut, Goto, Return, s
    <2>i. item[t] \in 1 .. MaxItem /\ s.queue \in Seq(1 .. MaxItem) /\ s \in LooseSegment
      BY <1>a, <1>6, StartFacts DEF EnqPut, Goto, LooseType, LocalType, NoItem
    <2>q. Append(s.queue, item[t]) \in Seq(1 .. MaxItem)
      BY <2>i, AppendProperties
    <2>2. /\ r \in LooseSegment
          /\ r.queue = Append(s.queue, item[t]) /\ r.closed = s.closed /\ r.refilled = s.refilled 
          /\ r.used = s.used /\ r.free = s.free
      BY <2>i, <2>q DEF LooseSegment
    <2> HIDE DEF r
    <2> QED BY <1>b, <2>1, <2>2
  <1>7. ASSUME EnqFinal(t)
        PROVE  Writes(t, s.queue, TRUE, s.refilled, s.used, s.free)
    <2> DEFINE r == [s EXCEPT !.closed = TRUE]
    <2>1. cur[t] # Null /\ OnSegment(t, r)
      BY <1>a, <1>7 DEF EnqFinal, Goto, Return, s
    <2>2. /\ r \in LooseSegment
          /\ r.queue = s.queue /\ r.closed = TRUE /\ r.refilled = s.refilled 
          /\ r.used = s.used /\ r.free = s.free
      BY <1>a, <1>7 DEF EnqFinal, Goto, Return, LooseSegment
    <2> HIDE DEF r
    <2> QED BY <1>b, <2>1, <2>2
  <1>8. ASSUME EnqGiveFree(t) \/ DeqFree(t)
        PROVE  Writes(t, s.queue, s.closed, s.refilled, s.used, s.free + 1)
    <2> DEFINE r == [s EXCEPT !.free = @ + 1]
    <2>1. cur[t] # Null /\ OnSegment(t, r)
      BY <1>a, <1>8 DEF EnqGiveFree, DeqFree, Goto, Return, s
    <2>2. /\ r \in LooseSegment
          /\ r.queue = s.queue /\ r.closed = s.closed /\ r.refilled = s.refilled 
          /\ r.used = s.used /\ r.free = s.free + 1
      BY <1>a, <1>8 DEF EnqGiveFree, DeqFree, Goto, Return, LooseSegment
    <2> HIDE DEF r
    <2> QED BY <1>b, <2>1, <2>2
  <1>9. ASSUME Claim(t, "d_try") \/ Claim(t, "d_again")
        PROVE  Writes(t, Tail(s.queue), s.closed, s.refilled, s.used, s.free)
    <2> DEFINE r == [s EXCEPT !.queue = Tail(@)]
    <2>1. cur[t] # Null /\ OnSegment(t, r)
      BY <1>a, <1>9 DEF Claim, Goto, Return, s
    <2>i. s \in LooseSegment /\ s.queue \in Seq(1 .. MaxItem) /\ s.queue # <<>>
      BY <1>a, <1>9 DEF Claim, Goto, s
    <2>q. Tail(s.queue) \in Seq(1 .. MaxItem)
      BY <2>i, HeadTailProperties
    <2>2. /\ r \in LooseSegment
          /\ r.queue = Tail(s.queue) /\ r.closed = s.closed /\ r.refilled = s.refilled 
          /\ r.used = s.used /\ r.free = s.free
      BY <2>i, <2>q DEF LooseSegment
    <2> HIDE DEF r
    <2> QED BY <1>b, <2>1, <2>2
  <1>10. ASSUME DeqNext(t), cur[t] # End
        PROVE  Writes(t, s.queue, s.closed, s.refilled \/ s.closed, s.used, s.free)
    <2> DEFINE r == [s EXCEPT !.refilled = @ \/ s.closed]
    <2>1. cur[t] # Null /\ s \in LooseSegment /\ s.refilled \in BOOLEAN /\ s.closed \in BOOLEAN
      BY <1>a, <1>10 DEF DeqNext, Goto
    <2>2. OnSegment(t, r)
      BY <1>10, Zenon DEF DeqNext, s
    <2>3. r \in LooseSegment
      BY <2>1 DEF LooseSegment
    <2>4. /\ r.queue = s.queue /\ r.closed = s.closed /\ r.refilled = (s.refilled \/ s.closed)
          /\ r.used = s.used /\ r.free = s.free
      BY <2>1 DEF LooseSegment
    <2> HIDE DEF r
    <2> QED BY <1>b, <2>1, <2>2, <2>3, <2>4
  <1> QED BY <1>1, <1>2, <1>3, <1>4, <1>5, <1>6, <1>7, <1>8, <1>9, <1>10 DEF s

\* A counter is never negative, because of the threads and items it stands for.
LEMMA UsedNat ==
  ASSUME LooseType, Balanced
  PROVE  \A n \in 1 .. End : nodes[n].used \in Nat
  <1> SUFFICES ASSUME NEW n \in 1 .. End PROVE nodes[n].used \in Nat
    OBVIOUS
  <1>1. At(n, UsedBy) \in SUBSET Threads
    BY DEF At
  <1>2. Cardinality(At(n, UsedBy)) \in Nat
    BY <1>1, ThreadsAssumption, FS_Subset, FS_CardinalityType
  <1>3. nodes[n].queue \in Seq(1 .. MaxItem)
    BY NodeFacts
  <1>4. Len(nodes[n].queue) \in Nat
    BY <1>3, LenProperties
  <1> QED BY <1>2, <1>4 DEF Balanced

\* A segment never has more free indices than slots.
LEMMA FreeBounds ==
  ASSUME LooseType, Balanced
  PROVE  \A n \in 1 .. End : nodes[n].free \in 0 .. Capacity
  <1> SUFFICES ASSUME NEW n \in 1 .. End PROVE nodes[n].free \in 0 .. Capacity
    OBVIOUS
  <1>1. At(n, HeldBy) \in SUBSET Threads
    BY DEF At
  <1>2. Cardinality(At(n, HeldBy)) \in Nat
    BY <1>1, ThreadsAssumption, FS_Subset, FS_CardinalityType
  <1>3. nodes[n].queue \in Seq(1 .. MaxItem) /\ nodes[n].free \in Nat
    BY NodeFacts
  <1>4. Len(nodes[n].queue) \in Nat
    BY <1>3, LenProperties
  <1>5. Capacity \in Nat
    BY StartFacts DEF LooseType
  <1>6. nodes[n].free + Len(nodes[n].queue) + Cardinality(At(n, HeldBy)) = Capacity
    BY DEF Balanced
  <1> QED BY <1>2, <1>3, <1>4, <1>5, <1>6

\* A call that ends leaves the types as they are.
LEMMA ReturnType ==
  ASSUME LocalType, NEW t \in Threads, NEW from, Return(t, from), MaxItem' = MaxItem,
         MaxItem \in Nat, End \in Nat, End' \in Nat, End <= End'
  PROVE  LocalType'
  BY DEF LocalType, Return, Goto, EnqPC, DeqPC, NoItem, Null

\* What a dequeue claims is an item.
LEMMA ClaimedItem ==
  ASSUME LooseType, Pointers, NEW t \in Threads, NEW from, Claim(t, from), from \in DeqPC,
         from # "d_head"
  PROVE  /\ nodes[cur[t]].queue \in Seq(1 .. MaxItem) /\ nodes[cur[t]].queue # <<>>
         /\ Head(nodes[cur[t]].queue) \in 1 .. MaxItem
  <1>1. cur[t] \in 1 .. End
    BY NodeFacts DEF Pointers, Claim, Goto, DeqPC
  <1> QED BY <1>1, NodeFacts, HeadTailProperties DEF Claim

\* The steps of a thread keep the types of the threads' own variables.
LEMMA LocalTypeStep ==
  ASSUME LooseType, Pointers, Balanced, NEW t \in Threads, Invoke(t) \/ Step(t),
         start' = start, End' \in Nat, End <= End'
  PROVE  LocalType'
  <1>0. /\ LocalType /\ MaxItem' = MaxItem /\ MaxItem \in Nat /\ End \in Nat /\ calls \in 0 .. MaxItem
        /\ \A n \in 1 .. End : nodes[n].queue \in Seq(1 .. MaxItem) /\ nodes[n].used \in Nat
        /\ head \in 1 .. End /\ tail \in 1 .. End /\ 0 .. End \subseteq 0 .. End'
    BY SameStart, StartFacts, NodeFacts, UsedNat DEF LooseType
  <1> USE DEF LocalType, Goto, Return, EnqPC, DeqPC, local
  <1>1. CASE EnqCall(t)
    BY <1>0, <1>1 DEF EnqCall, Call
  <1>2. CASE DeqCall(t)
    BY <1>0, <1>2 DEF DeqCall, Call
  <1>3. CASE EnqTail(t)
    BY <1>0, <1>3 DEF EnqTail, SafeLoad
  <1>4. CASE EnqUndo(t)
    BY <1>0, <1>4 DEF EnqUndo
  <1>5. CASE EnqFree(t)
    BY <1>0, <1>5 DEF EnqFree
  <1>6. CASE EnqFlag(t)
    BY <1>0, <1>6 DEF EnqFlag
  <1>7. CASE EnqPut(t)
    BY <1>0, <1>7 DEF EnqPut
  <1>8. CASE EnqSettle(t)
    BY <1>0, <1>8, ReturnType DEF EnqSettle
  <1>9. CASE EnqFinal(t)
    BY <1>0, <1>9, ReturnType DEF EnqFinal
  <1>10. CASE EnqGiveUsed(t)
    BY <1>0, <1>10 DEF EnqGiveUsed
  <1>11. CASE EnqGiveFree(t)
    BY <1>0, <1>11 DEF EnqGiveFree
  <1>12. CASE EnqLink(t)
    BY <1>0, <1>12 DEF EnqLink
  <1>13. CASE EnqFix(t)
    BY <1>0, <1>13, ReturnType DEF EnqFix
  <1>14. CASE DeqHead(t)
    BY <1>0, <1>14 DEF DeqHead, SafeLoad
  <1>15. CASE DeqNext(t)
    BY <1>0, <1>15, ReturnType DEF DeqNext
  <1>16. CASE DeqMove(t)
    BY <1>0, <1>16 DEF DeqMove
  <1>17. CASE DeqUsed(t)
    BY <1>0, <1>17 DEF DeqUsed
  <1>18. CASE DeqFree(t)
    BY <1>0, <1>18 DEF DeqFree
  <1>19. CASE DeqLen(t)
    BY <1>0, <1>19, ReturnType DEF DeqLen
  <1>20. CASE EnqNext(t)
    BY <1>0, <1>20 DEF EnqNext, Null
  <1>21. CASE EnqUsed(t)
    <2>1. cur[t] \in 1 .. End
      BY <1>21, NodeFacts DEF EnqUsed, Pointers
    <2>2. nodes[cur[t]].used \in Nat
      BY <1>0, <2>1
    <2> QED BY <1>0, <1>21, <2>2 DEF EnqUsed
  <1>22. ASSUME NEW from \in DeqPC, from # "d_head", Claim(t, from) PROVE LocalType'
    <2>1. Head(nodes[cur[t]].queue) \in 1 .. MaxItem
      BY <1>22, ClaimedItem
    <2>2. item' \in [Threads -> 0 .. MaxItem]
      <3> DEFINE i == Head(nodes[cur[t]].queue)
      <3>1. item' = [item EXCEPT ![t] = i] /\ i \in 0 .. MaxItem
        BY <1>22, <2>1 DEF Claim
      <3> HIDE DEF i
      <3> QED BY <1>0, <3>1
    <2>3. /\ pc' = [pc EXCEPT ![t] = "d_used"]
          /\ UNCHANGED <<cur, size>>
      BY <1>22 DEF Claim
    <2> QED BY <1>0, <2>2, <2>3
  <1>23. ASSUME NEW from \in DeqPC, NEW to \in DeqPC, Miss(t, from, to) PROVE LocalType'
    <2>1. pc' \in [Threads -> {"idle"} \union EnqPC \union DeqPC]
      BY <1>0, <1>23 DEF Miss
    <2> QED BY <1>0, <1>23, <2>1 DEF Miss
  <1>24. CASE DeqTry(t)
    BY <1>22, <1>23, <1>24 DEF DeqTry
  <1>25. CASE DeqAgain(t)
    BY <1>22, <1>23, <1>25 DEF DeqAgain
  <1> QED BY <1>1, <1>2, <1>3, <1>4, <1>5, <1>6, <1>7, <1>8, <1>9, <1>10, <1>11, <1>12,
            <1>13, <1>14, <1>15, <1>16, <1>17, <1>18, <1>19, <1>20, <1>21, <1>24, <1>25
         DEF Invoke, Step

\* The list only grows, a flag stays set, and the types stay as they are.
ListStep ==
  /\ nodes' \in Seq(LooseSegment) /\ start' = start
  /\ End' \in Nat /\ End <= End'
  /\ \A n \in 1 .. End : nodes[n].closed => nodes'[n].closed
  /\ \A n \in 1 .. End : nodes[n].refilled => nodes'[n].refilled
  /\ head' \in 1 .. End' /\ tail' \in 1 .. End'
  /\ retired' \subseteq 1 .. End' /\ freed' = freed /\ dropped' = dropped
  /\ calls' \in 0 .. MaxItem

\* The node an enqueue links holds its item.
LEMMA LinkedNode ==
  ASSUME LooseType, NEW i \in 1 .. MaxItem, nodes' = Append(nodes, NewSegment(<<i>>))
  PROVE  /\ nodes' \in Seq(LooseSegment) /\ End' = End + 1
         /\ \A n \in 1 .. End : nodes'[n] = nodes[n]
         /\ nodes'[End + 1].queue = <<i>>
         /\ nodes'[End + 1].closed = FALSE /\ nodes'[End + 1].refilled = FALSE
         /\ nodes'[End + 1].used = 1 /\ nodes'[End + 1].free = Capacity - 1
  <1>1. NewSegment(<<i>>) \in LooseSegment
    BY StartFacts DEF LooseType, NewSegment, LooseSegment
  <1>2. nodes \in Seq(LooseSegment) /\ End = Len(nodes)
    BY DEF LooseType, End
  <1>3. /\ nodes' \in Seq(LooseSegment) /\ Len(nodes') = Len(nodes) + 1
        /\ \A n \in 1 .. Len(nodes) : nodes'[n] = nodes[n]
        /\ nodes'[Len(nodes) + 1] = NewSegment(<<i>>)
    BY <1>1, <1>2, AppendProperties
  <1>4. /\ NewSegment(<<i>>).queue = <<i>>
        /\ NewSegment(<<i>>).closed = FALSE /\ NewSegment(<<i>>).refilled = FALSE
        /\ NewSegment(<<i>>).used = 1 /\ NewSegment(<<i>>).free = Capacity - 1
    BY DEF NewSegment
  <1> QED BY <1>2, <1>3, <1>4 DEF End

\* Every step of a thread is a ListStep.
LEMMA ListTypeStep ==
  ASSUME LooseType, Pointers, Numbered, NEW t \in Threads, Invoke(t) \/ Step(t)
  PROVE  ListStep
  <1>0. /\ nodes \in Seq(LooseSegment) /\ End \in Nat /\ head \in 1 .. End /\ tail \in 1 .. End
        /\ retired \subseteq 1 .. End /\ calls \in 0 .. MaxItem /\ MaxItem \in Nat
        /\ cur[t] \in 0 .. End
    BY StartFacts, NodeFacts DEF LooseType, LocalType
  <1>1. ASSUME NEW q, NEW c, NEW r, NEW u, NEW f, Writes(t, q, c, r, u, f),
               nodes[cur[t]].closed => c, nodes[cur[t]].refilled => r
        PROVE  ListStep
    <2>1. /\ nodes' \in Seq(LooseSegment) /\ End' = End /\ cur[t] \in 1 .. End
          /\ UNCHANGED <<start, head, tail, retired, freed, dropped, calls>>
      BY <1>1 DEF Writes, memory
    <2>2. ASSUME NEW n \in 1 .. End
          PROVE  /\ nodes[n].closed => nodes'[n].closed
                 /\ nodes[n].refilled => nodes'[n].refilled
      BY <1>1, Zenon DEF Writes
    <2> QED BY <1>0, <2>1, <2>2 DEF ListStep
  <1>2. ASSUME UNCHANGED <<start, nodes, freed, dropped, calls>>, head' \in 1 .. End, tail' \in 1 .. End,
               retired' \subseteq 1 .. End
        PROVE  ListStep
    BY <1>0, <1>2 DEF End, ListStep
  <1>3. ASSUME UNCHANGED <<list, memory, calls>> PROVE ListStep
    BY <1>0, <1>2, <1>3 DEF list, memory
  <1>4. CASE EnqCall(t) \/ DeqCall(t)
    <2>1. UNCHANGED <<list, memory>> /\ calls' \in 0 .. MaxItem
      BY <1>0, <1>4 DEF EnqCall, DeqCall, Call
    <2> QED BY <1>0, <2>1 DEF list, memory, End, ListStep
  <1>5. CASE EnqTail(t) \/ DeqHead(t) \/ DeqLen(t)
    BY <1>3, <1>5 DEF EnqTail, DeqHead, DeqLen
  <1>6. CASE EnqNext(t) \/ EnqFix(t)
    <2>1. cur[t] < End /\ cur[t] # Null => cur[t] + 1 \in 1 .. End
      BY <1>0 DEF Null
    <2>2. pc[t] \in {"e_next", "e_fix"} => cur[t] # Null /\ (pc[t] = "e_fix" => cur[t] < End)
      BY DEF Pointers
    <2>3. CASE UNCHANGED <<list, memory, calls>>
      BY <1>3, <2>3
    <2>4. CASE /\ tail' = IF tail = cur[t] THEN cur[t] + 1 ELSE tail
               /\ pc[t] = "e_fix" \/ (pc[t] = "e_next" /\ cur[t] # End)
               /\ UNCHANGED <<start, nodes, head, memory, calls>>
      <3>1. tail' \in 1 .. End
        BY <1>0, <2>1, <2>2, <2>4
      <3> QED BY <1>0, <1>2, <2>4, <3>1 DEF memory
    <2>5. EnqFix(t) => /\ tail' = IF tail = cur[t] THEN cur[t] + 1 ELSE tail
                       /\ pc[t] = "e_fix"
                       /\ UNCHANGED <<start, nodes, head, memory, calls>>
      BY DEF EnqFix, Return, Goto
    <2>6. EnqNext(t) => \/ UNCHANGED <<list, memory, calls>>
                        \/ /\ tail' = IF tail = cur[t] THEN cur[t] + 1 ELSE tail
                           /\ pc[t] = "e_next" /\ cur[t] # End
                           /\ UNCHANGED <<start, nodes, head, memory, calls>>
      BY DEF EnqNext, Goto
    <2> QED BY <1>6, <2>3, <2>4, <2>5, <2>6
  <1>7. CASE DeqMove(t)
    <2>1. cur[t] \in 1 .. End /\ cur[t] + 1 \in 1 .. End
      BY <1>0, <1>7 DEF DeqMove, Goto, Pointers, Null
    <2> QED BY <1>0, <1>2, <1>7, <2>1 DEF DeqMove
  <1>8. CASE EnqUsed(t) \/ EnqUndo(t) \/ EnqGiveUsed(t) \/ DeqUsed(t) \/ EnqFlag(t)
             \/ EnqSettle(t) \/ EnqFinal(t) \/ EnqGiveFree(t) \/ DeqFree(t)
    BY <1>1, <1>8, SegmentWrites
  <1>9. CASE EnqFree(t)
    BY <1>1, <1>9, SegmentWrites
  <1>10. CASE EnqPut(t)
    <2>1. item[t] # NoItem
      BY <1>10 DEF EnqPut, Goto, EnqPC, Numbered, NoItem
    <2> QED BY <1>1, <1>10, <2>1, SegmentWrites
  <1>11. CASE Claim(t, "d_try") \/ Claim(t, "d_again")
    BY <1>1, <1>11, SegmentWrites
  <1>12. ASSUME NEW from, NEW to, Miss(t, from, to) PROVE ListStep
    BY <1>3, <1>12 DEF Miss
  <1>13. CASE DeqTry(t) \/ DeqAgain(t)
    BY <1>11, <1>12, <1>13 DEF DeqTry, DeqAgain
  <1>14. CASE DeqNext(t)
    <2>1. CASE cur[t] = End
      BY <1>3, <1>14, <2>1 DEF DeqNext
    <2>2. CASE cur[t] # End
      BY <1>1, <1>14, <2>2, SegmentWrites
    <2> QED BY <2>1, <2>2
  <1>15. CASE EnqLink(t)
    <2>1. CASE nodes' = Append(nodes, NewSegment(<<item[t]>>)) /\ UNCHANGED <<start, head, tail, memory, calls>>
      <3>1. item[t] \in 1 .. MaxItem
        BY <1>0, <1>15 DEF EnqLink, Goto, EnqPC, Numbered
      <3>2. /\ nodes' \in Seq(LooseSegment) /\ End' = End + 1
            /\ \A n \in 1 .. End : nodes'[n] = nodes[n]
        <4> DEFINE i == item[t]
        <4>1. i \in 1 .. MaxItem /\ nodes' = Append(nodes, NewSegment(<<i>>))
          BY <2>1, <3>1
        <4> HIDE DEF i
        <4> QED BY <4>1, LinkedNode
      <3>3. /\ \A n \in 1 .. End : nodes[n].closed => nodes'[n].closed
            /\ \A n \in 1 .. End : nodes[n].refilled => nodes'[n].refilled
        BY <3>2, Zenon
      <3>4. /\ UNCHANGED <<start, head, tail, retired, freed, dropped, calls>>
            /\ 1 .. End \subseteq 1 .. End'
        BY <1>0, <2>1, <3>2 DEF memory
      <3> QED BY <1>0, <3>2, <3>3, <3>4 DEF ListStep
    <2>2. CASE UNCHANGED <<list, memory, calls>>
      BY <1>3, <2>2
    <2> QED BY <1>15, <2>1, <2>2 DEF EnqLink
  <1>16. QED
    BY <1>4, <1>5, <1>6, <1>7, <1>8, <1>9, <1>10, <1>13, <1>14, <1>15 DEF Invoke, Step
-----------------------------------------------------------------------------
(* The pointers and the memory of the nodes.                               *)

PointerInv ==
  /\ Pointers /\ GoneAround /\ TailLag /\ HeadKept /\ Sole
  /\ FreedRetired /\ Gone /\ NoLeak /\ Protected

\* A queue that was dropped is not called any more.
LEMMA NotDropped ==
  ASSUME LooseType, Gone, NEW t \in Threads, Invoke(t) \/ Step(t)
  PROVE  ~Dropped
  <1>1. CASE Invoke(t)
    BY <1>1 DEF Invoke, EnqCall, DeqCall, Call
  <1>2. CASE Step(t)
    <2>1. pc[t] # "idle"
      BY <1>2 DEF Step, EnqTail, EnqNext, EnqUsed, EnqUndo, EnqFree, EnqFlag, EnqPut, EnqSettle,
         EnqFinal, EnqGiveUsed, EnqGiveFree, EnqLink, EnqFix, DeqHead, DeqTry, DeqNext, DeqAgain,
         DeqMove, DeqUsed, DeqFree, DeqLen, Claim, Miss, Goto, Return
    <2> QED BY <2>1 DEF Gone
  <1> QED BY <1>1, <1>2

\* The other threads stay where they are, but for what Miss does to them.
Others(t) ==
  \A u \in Threads : u # t =>
    /\ cur'[u] = cur[u] /\ item'[u] = item[u]
    /\ \/ pc'[u] = pc[u]
       \/ pc[u] = "e_put" /\ pc'[u] = "e_flag"

\* A step of a call on the segment it works on, or one that ends the call.
LEMMA WorkStep ==
  ASSUME LooseType, PointerInv, ~Dropped, NEW t \in Threads, Others(t), LocalType',
         UNCHANGED <<start, head, tail, retired, freed, dropped>>, End' = End,
         \/ /\ cur'[t] = cur[t]
            /\ \/ pc[t] \in EnqPC \ {"e_tail", "e_fix"} /\ pc'[t] \in EnqPC \ {"e_tail", "e_fix"}
               \/ pc[t] \in DeqPC \ {"d_head"} /\ pc'[t] \in DeqPC \ {"d_head", "d_again", "d_move"}
               \/ pc[t] \in DeqPC \ {"d_head"} /\ pc'[t] = "d_again" /\ cur[t] # End
               \/ pc[t] = "d_again" /\ pc'[t] = "d_move"
         \/ pc[t] \in (EnqPC \union DeqPC) \ {"e_fix"} /\ pc'[t] = "idle" /\ cur'[t] = Null
  PROVE  PointerInv'
  <1>0. End \in Nat /\ head \in 1 .. End /\ tail \in 1 .. End
        /\ \A u \in Threads : cur[u] \in 0 .. End /\ cur'[u] \in 0 .. End
    BY NodeFacts DEF LooseType, LocalType
  <1>1. Pointers'
    BY <1>0 DEF PointerInv, Pointers, Others, EnqPC, DeqPC, Null
  <1>2. GoneAround'
    BY <1>0 DEF PointerInv, GoneAround, Others, EnqPC, DeqPC, Null
  <1>3. TailLag' /\ HeadKept'
    BY DEF PointerInv, TailLag, HeadKept
  <1>4. Sole'
    <2>1. Enqueuers' \subseteq Enqueuers
      BY DEF Enqueuers, Others, EnqPC, DeqPC
    <2>2. \A u \in Threads : pc[u] = "e_fix" /\ cur[u] = tail => pc'[u] = "e_fix" /\ cur'[u] = tail'
      BY DEF Others, EnqPC, DeqPC
    <2> QED BY <2>1, <2>2 DEF PointerInv, Sole
  <1>5. FreedRetired' /\ Gone' /\ NoLeak'
    BY DEF PointerInv, FreedRetired, Gone, NoLeak, Dropped
  <1>6. Protected'
    <2>1. Null \notin freed
      BY DEF LooseType, Null
    <2> QED BY <2>1 DEF PointerInv, Protected, Others, EnqPC, DeqPC
  <1> QED BY <1>1, <1>2, <1>3, <1>4, <1>5, <1>6 DEF PointerInv

\* Every step of a thread leaves the other threads alone.
LEMMA OthersStep ==
  ASSUME LocalType, NEW t \in Threads, Invoke(t) \/ Step(t)
  PROVE  Others(t)
  <1> USE DEF Others, LocalType, Goto, Return, local
  <1>1. CASE EnqCall(t) \/ DeqCall(t) \/ EnqTail(t) \/ DeqHead(t)
    BY <1>1 DEF EnqCall, DeqCall, Call, EnqTail, DeqHead, SafeLoad
  <1>2. CASE EnqUsed(t) \/ EnqUndo(t) \/ EnqFree(t) \/ EnqFlag(t) \/ EnqPut(t)
    BY <1>2 DEF EnqUsed, EnqUndo, EnqFree, EnqFlag, EnqPut
  <1>3. CASE EnqSettle(t) \/ EnqFinal(t) \/ EnqGiveUsed(t) \/ EnqGiveFree(t)
    BY <1>3 DEF EnqSettle, EnqFinal, EnqGiveUsed, EnqGiveFree
  <1>4. CASE EnqNext(t) \/ EnqLink(t) \/ EnqFix(t)
    BY <1>4 DEF EnqNext, EnqLink, EnqFix
  <1>5. CASE DeqNext(t) \/ DeqMove(t) \/ DeqUsed(t) \/ DeqFree(t) \/ DeqLen(t)
    BY <1>5 DEF DeqNext, DeqMove, DeqUsed, DeqFree, DeqLen
  <1>6. ASSUME NEW from, Claim(t, from) PROVE Others(t)
    <2>1. /\ pc' = [pc EXCEPT ![t] = "d_used"]
          /\ item' = [item EXCEPT ![t] = Head(nodes[cur[t]].queue)]
          /\ cur' = cur
      BY <1>6 DEF Claim
    <2> QED BY <2>1
  <1>7. ASSUME NEW from, NEW to, Miss(t, from, to) PROVE Others(t)
    BY <1>7 DEF Miss
  <1> QED BY <1>1, <1>2, <1>3, <1>4, <1>5, <1>6, <1>7 DEF Invoke, Step, DeqTry, DeqAgain

\* The steps that neither load nor move a pointer.
LEMMA PointerWork ==
  ASSUME LooseType, PointerInv, Numbered, LocalType', ~Dropped, NEW t \in Threads,
         \/ EnqUsed(t) \/ EnqUndo(t) \/ EnqFree(t) \/ EnqFlag(t) \/ EnqPut(t)
         \/ EnqSettle(t) \/ EnqFinal(t) \/ EnqGiveUsed(t) \/ EnqGiveFree(t)
         \/ DeqTry(t) \/ DeqNext(t) \/ DeqAgain(t) \/ DeqUsed(t) \/ DeqFree(t) \/ DeqLen(t)
  PROVE  PointerInv'
  <1>0. Others(t) /\ LocalType /\ Pointers
    BY OthersStep DEF Step, LooseType, PointerInv
  <1>w. ASSUME NEW q, NEW c, NEW r, NEW u, NEW f, Writes(t, q, c, r, u, f)
        PROVE  UNCHANGED <<start, head, tail, retired, freed, dropped>> /\ End' = End
    BY <1>w DEF Writes, memory
  <1>q. ASSUME UNCHANGED <<list, memory>>
        PROVE  UNCHANGED <<start, head, tail, retired, freed, dropped>> /\ End' = End
    BY <1>q DEF list, memory, End
  <1>m. ASSUME NEW from, NEW to, Miss(t, from, to)
        PROVE  pc[t] = from /\ pc'[t] = to /\ cur'[t] = cur[t]
    BY <1>m DEF Miss, local
  <1> USE DEF LocalType, Goto, Return, local, EnqPC, DeqPC
  <1>1. UNCHANGED <<start, head, tail, retired, freed, dropped>> /\ End' = End
    <2>1. CASE EnqPut(t)
      <3>1. item[t] # NoItem
        BY <2>1 DEF EnqPut, Numbered, NoItem
      <3> QED BY <1>0, <1>w, <2>1, <3>1, SegmentWrites
    <2>2. CASE DeqTry(t) \/ DeqAgain(t)
      BY <1>0, <1>w, <1>q, <2>2, SegmentWrites DEF DeqTry, DeqAgain, Miss
    <2>3. CASE DeqNext(t) \/ DeqLen(t)
      BY <1>0, <1>w, <1>q, <2>3, SegmentWrites DEF DeqNext, DeqLen
    <2> QED BY <1>0, <1>w, <2>1, <2>2, <2>3, SegmentWrites
  <1>2. CASE EnqUsed(t) \/ EnqUndo(t) \/ EnqFree(t) \/ EnqFlag(t) \/ EnqPut(t)
             \/ EnqGiveUsed(t) \/ EnqGiveFree(t)
    <2>1. /\ cur'[t] = cur[t]
          /\ pc[t] \in EnqPC \ {"e_tail", "e_fix"} /\ pc'[t] \in EnqPC \ {"e_tail", "e_fix"}
      BY <1>0, <1>2 DEF EnqUsed, EnqUndo, EnqFree, EnqFlag, EnqPut, EnqGiveUsed, EnqGiveFree
    <2> QED BY <1>0, <1>1, <2>1, WorkStep
  <1>3. CASE EnqSettle(t) \/ EnqFinal(t)
    <2>1. \/ /\ cur'[t] = cur[t]
             /\ pc[t] \in EnqPC \ {"e_tail", "e_fix"} /\ pc'[t] \in EnqPC \ {"e_tail", "e_fix"}
          \/ pc[t] \in (EnqPC \union DeqPC) \ {"e_fix"} /\ pc'[t] = "idle" /\ cur'[t] = Null
      BY <1>0, <1>3 DEF EnqSettle, EnqFinal
    <2> QED BY <1>0, <1>1, <2>1, WorkStep
  <1>4. CASE DeqNext(t) \/ DeqLen(t)
    <2>1. \/ pc[t] \in DeqPC \ {"d_head"} /\ pc'[t] = "d_again" /\ cur[t] # End /\ cur'[t] = cur[t]
          \/ pc[t] \in (EnqPC \union DeqPC) \ {"e_fix"} /\ pc'[t] = "idle" /\ cur'[t] = Null
      BY <1>0, <1>4 DEF DeqNext, DeqLen
    <2> QED BY <1>0, <1>1, <2>1, WorkStep
  <1>5. CASE DeqUsed(t) \/ DeqFree(t) \/ DeqTry(t) \/ DeqAgain(t)
    <2>1. /\ cur'[t] = cur[t]
          /\ \/ /\ pc[t] \in DeqPC \ {"d_head"}
                /\ pc'[t] \in DeqPC \ {"d_head", "d_again", "d_move"}
             \/ pc[t] = "d_again" /\ pc'[t] = "d_move"
      BY <1>0, <1>5, <1>m DEF DeqUsed, DeqFree, DeqTry, DeqAgain, Claim
    <2> QED BY <1>0, <1>1, <2>1, WorkStep
  <1> QED BY <1>2, <1>3, <1>4, <1>5

\* What Pointers and GoneAround say of one thread.
PointerOf(t) ==
  /\ pc[t] = "idle" => cur[t] = Null
  /\ pc[t] \notin {"idle", "e_tail", "d_head"} => cur[t] # Null
  /\ pc[t] \in EnqPC => cur[t] <= tail
  /\ pc[t] \in DeqPC => cur[t] <= head
  /\ pc[t] \in {"d_again", "d_move", "e_fix"} => cur[t] < End
  /\ pc[t] = "e_tail" /\ cur[t] # Null => cur[t] < End
  /\ pc[t] = "d_head" /\ cur[t] # Null => cur[t] < head

\* The pointers and the list only grow, so the other threads' pointers stay
\* where they may be.
LEMMA PointersStep ==
  ASSUME LooseType, Pointers, GoneAround, NEW t \in Threads, Others(t),
         tail' \in Int, tail <= tail', head' \in Int, head <= head', End' \in Int, End <= End',
         PointerOf(t)'
  PROVE  Pointers' /\ GoneAround'
  <1>1. ASSUME NEW u \in Threads PROVE PointerOf(u)'
    <2>1. CASE u = t
      BY <2>1
    <2>2. CASE u # t
      <3>1. PointerOf(u)
        BY DEF Pointers, GoneAround, PointerOf
      <3>2. cur'[u] = cur[u] /\ (pc'[u] = pc[u] \/ (pc[u] = "e_put" /\ pc'[u] = "e_flag"))
        BY <2>2 DEF Others
      <3>3. cur[u] \in Int /\ tail \in Int /\ head \in Int /\ End \in Int
        BY NodeFacts DEF LooseType
      <3>4. CASE pc'[u] = pc[u]
        BY <3>1, <3>2, <3>3, <3>4 DEF PointerOf, Null
      <3>5. CASE pc[u] = "e_put" /\ pc'[u] = "e_flag"
        BY <3>1, <3>2, <3>3, <3>5 DEF PointerOf, EnqPC, DeqPC, Null
      <3> QED BY <3>2, <3>4, <3>5
    <2> QED BY <2>1, <2>2
  <1>2. Pointers'
    BY <1>1 DEF Pointers, PointerOf
  <1>3. GoneAround'
    BY <1>1 DEF GoneAround, PointerOf
  <1> QED BY <1>2, <1>3

\* The steps that load a pointer, and those that move one on.
LEMMA PointerMove ==
  ASSUME LooseType, PointerInv, Numbered, LocalType', ~Dropped, NEW t \in Threads,
         \/ EnqCall(t) \/ EnqTail(t) \/ EnqNext(t) \/ EnqLink(t) \/ EnqFix(t)
         \/ DeqCall(t) \/ DeqHead(t) \/ DeqMove(t)
  PROVE  PointerInv'
  <1>a. /\ End \in Nat \ {0} /\ head \in 1 .. End /\ tail \in 1 .. End /\ retired \subseteq 1 .. End
        /\ \A u \in Threads : cur[u] \in 0 .. End
        /\ freed \subseteq 1 .. End
    BY NodeFacts DEF LooseType, LocalType
  <1>b. freed \subseteq retired /\ retired = 1 .. head - 1 /\ tail >= End - 1
    BY DEF PointerInv, FreedRetired, HeadKept, TailLag
  <1>c. Null \notin freed
    BY <1>a DEF Null
  <1>0. /\ End \in Nat \ {0} /\ head \in 1 .. End /\ tail \in 1 .. End /\ retired \subseteq 1 .. End
        /\ \A u \in Threads : cur[u] \in 0 .. End
        /\ Null \notin freed /\ freed \subseteq retired /\ retired = 1 .. head - 1
        /\ tail >= End - 1
    BY <1>a, <1>b, <1>c
  <1>o. Others(t) /\ LocalType
    BY OthersStep DEF Step, Invoke, LooseType
  <1>q. ASSUME UNCHANGED nodes PROVE End' = End
    BY <1>q DEF End
  <1> USE DEF LocalType, Goto, Return, list, memory, local, Others
  <1>d. dropped' = dropped /\ freed' = freed /\ start' = start
    BY DEF EnqCall, EnqTail, EnqNext, EnqLink, EnqFix, DeqCall, DeqHead, DeqMove, Call
  <1>1. Gone' /\ ~Dropped'
    BY <1>d DEF Gone, Dropped
  <1>s. start.enqueuers = 1 =>
          /\ \A u, v \in Enqueuers : u = v
          /\ tail = End \/ \E u \in Threads : pc[u] = "e_fix" /\ cur[u] = tail
    BY DEF PointerInv, Sole
  <1>p. Pointers /\ GoneAround /\ Protected /\ PointerOf(t)
    BY DEF PointerInv, Pointers, GoneAround, PointerOf
  <1>2. CASE EnqCall(t)
    <2>1. /\ UNCHANGED <<start, nodes, head, tail, retired, freed, dropped, cur>>
          /\ pc[t] = "idle" /\ pc'[t] = "e_tail" /\ cur[t] = Null
      BY <1>2, <1>o, <1>p DEF EnqCall, Call, Pointers
    <2>2. End' = End
      BY <1>q, <2>1
    <2>3. Pointers' /\ GoneAround'
      <3>1. PointerOf(t)'
        BY <1>0, <1>p, <2>1, <2>2 DEF PointerOf, EnqPC, DeqPC, Null
      <3>2. /\ tail' \in Int /\ tail <= tail' /\ head' \in Int /\ head <= head'
            /\ End' \in Int /\ End <= End'
        BY <1>0, <2>1, <2>2
      <3> QED BY <1>o, <1>p, <3>1, <3>2, PointersStep
    <2>4. TailLag' /\ HeadKept' /\ FreedRetired'
      BY <2>1, <2>2 DEF PointerInv, TailLag, HeadKept, FreedRetired
    <2>5. Sole'
      <3>1. Cardinality(Enqueuers) < start.enqueuers /\ Enqueuers' \subseteq Enqueuers \union {t}
        BY <1>2, <1>o DEF EnqCall, Enqueuers, EnqPC
      <3>2. ASSUME start.enqueuers = 1 PROVE Enqueuers = {}
        <4>1. Enqueuers \in SUBSET Threads
          BY DEF Enqueuers
        <4>2. IsFiniteSet(Enqueuers) /\ Cardinality(Enqueuers) \in Nat
          BY <4>1, ThreadsAssumption, FS_Subset, FS_CardinalityType
        <4>3. Cardinality(Enqueuers) = 0
          BY <3>1, <3>2, <4>2
        <4> QED BY <4>2, <4>3, FS_EmptySet
      <3>3. ASSUME start.enqueuers = 1
            PROVE  tail = End
        BY <1>s, <3>2, <3>3 DEF Enqueuers, EnqPC
      <3> QED BY <2>1, <2>2, <3>1, <3>2, <3>3 DEF Sole
    <2>6. Protected'
      BY <1>0, <1>o, <1>p, <2>1 DEF Protected, EnqPC, DeqPC, Null
    <2> QED BY <1>1, <2>3, <2>4, <2>5, <2>6 DEF PointerInv, NoLeak
  <1>3. CASE DeqCall(t)
    <2>1. /\ UNCHANGED <<start, nodes, head, tail, retired, freed, dropped, cur>>
          /\ pc[t] = "idle" /\ pc'[t] = "d_head" /\ cur[t] = Null
      BY <1>3, <1>o, <1>p DEF DeqCall, Call, Pointers
    <2>2. End' = End
      BY <1>q, <2>1
    <2>3. Pointers' /\ GoneAround'
      <3>1. PointerOf(t)'
        BY <1>0, <1>p, <2>1, <2>2 DEF PointerOf, EnqPC, DeqPC, Null
      <3>2. /\ tail' \in Int /\ tail <= tail' /\ head' \in Int /\ head <= head'
            /\ End' \in Int /\ End <= End'
        BY <1>0, <2>1, <2>2
      <3> QED BY <1>o, <1>p, <3>1, <3>2, PointersStep
    <2>4. TailLag' /\ HeadKept' /\ FreedRetired'
      BY <2>1, <2>2 DEF PointerInv, TailLag, HeadKept, FreedRetired
    <2>5. Sole'
      BY <1>o, <1>s, <2>1, <2>2 DEF Sole, Enqueuers, EnqPC
    <2>6. Protected'
      BY <1>0, <1>o, <1>p, <2>1 DEF Protected, EnqPC, DeqPC, Null
    <2> QED BY <1>1, <2>3, <2>4, <2>5, <2>6 DEF PointerInv, NoLeak
  <1>4. CASE EnqTail(t)
    <2>1. /\ UNCHANGED <<start, nodes, head, tail, retired, freed, dropped>>
          /\ pc[t] = "e_tail" /\ pc'[t] = "e_next" /\ cur'[t] = tail
      BY <1>4, <1>o DEF EnqTail, SafeLoad
    <2>2. End' = End
      BY <1>q, <2>1
    <2>3. Pointers' /\ GoneAround'
      <3>1. PointerOf(t)'
        BY <1>0, <1>p, <2>1, <2>2 DEF PointerOf, EnqPC, DeqPC, Null
      <3>2. /\ tail' \in Int /\ tail <= tail' /\ head' \in Int /\ head <= head'
            /\ End' \in Int /\ End <= End'
        BY <1>0, <2>1, <2>2
      <3> QED BY <1>o, <1>p, <3>1, <3>2, PointersStep
    <2>4. TailLag' /\ HeadKept' /\ FreedRetired'
      BY <2>1, <2>2 DEF PointerInv, TailLag, HeadKept, FreedRetired
    <2>5. Sole'
      BY <1>o, <1>s, <2>1, <2>2 DEF Sole, Enqueuers, EnqPC
    <2>6. Protected'
      <3>1. start.enqueuers = 1 => tail = End
        BY <1>s, <2>1 DEF Enqueuers, EnqPC
      <3>2. End \notin freed
        BY <1>0
      <3> QED BY <1>0, <1>o, <1>p, <2>1, <3>1, <3>2 DEF Protected, EnqPC, DeqPC, Null
    <2> QED BY <1>1, <2>3, <2>4, <2>5, <2>6 DEF PointerInv, NoLeak
  <1>5. CASE DeqHead(t)
    <2>1. /\ UNCHANGED <<start, nodes, head, tail, retired, freed, dropped>>
          /\ pc[t] = "d_head" /\ pc'[t] = "d_try" /\ cur'[t] = head
      BY <1>5, <1>o DEF DeqHead, SafeLoad
    <2>2. End' = End
      BY <1>q, <2>1
    <2>3. Pointers' /\ GoneAround'
      <3>1. PointerOf(t)'
        BY <1>0, <1>p, <2>1, <2>2 DEF PointerOf, EnqPC, DeqPC, Null
      <3>2. /\ tail' \in Int /\ tail <= tail' /\ head' \in Int /\ head <= head'
            /\ End' \in Int /\ End <= End'
        BY <1>0, <2>1, <2>2
      <3> QED BY <1>o, <1>p, <3>1, <3>2, PointersStep
    <2>4. TailLag' /\ HeadKept' /\ FreedRetired'
      BY <2>1, <2>2 DEF PointerInv, TailLag, HeadKept, FreedRetired
    <2>5. Sole'
      BY <1>o, <1>s, <2>1, <2>2 DEF Sole, Enqueuers, EnqPC
    <2>6. Protected'
      <3>2. head \notin freed
        BY <1>0
      <3> QED BY <1>0, <1>o, <1>p, <2>1, <3>2 DEF Protected, EnqPC, DeqPC, Null
    <2> QED BY <1>1, <2>3, <2>4, <2>5, <2>6 DEF PointerInv, NoLeak
  <1>6. CASE EnqNext(t)
    <2>1. /\ UNCHANGED <<start, nodes, head, retired, freed, dropped, cur>>
          /\ pc[t] = "e_next" /\ pc'[t] \in {"e_used", "e_tail"}
          /\ \/ pc'[t] = "e_used" /\ cur[t] = End /\ tail' = tail
             \/ /\ pc'[t] = "e_tail" /\ cur[t] # End
                /\ tail' = IF tail = cur[t] THEN cur[t] + 1 ELSE tail
      BY <1>6, <1>o DEF EnqNext
    <2>2. End' = End
      BY <1>q, <2>1
    <2>t. tail <= tail' /\ tail' <= End /\ tail' \in Int /\ cur[t] # Null
      BY <1>0, <1>p, <2>1 DEF PointerOf, Null, EnqPC
    <2>3. Pointers' /\ GoneAround'
      <3>1. PointerOf(t)'
        BY <1>0, <1>p, <2>1, <2>2, <2>t DEF PointerOf, EnqPC, DeqPC, Null
      <3>2. /\ tail' \in Int /\ tail <= tail' /\ head' \in Int /\ head <= head'
            /\ End' \in Int /\ End <= End'
        BY <1>0, <2>1, <2>2, <2>t
      <3> QED BY <1>o, <1>p, <3>1, <3>2, PointersStep
    <2>4. TailLag' /\ HeadKept' /\ FreedRetired'
      BY <1>0, <2>1, <2>2, <2>t DEF PointerInv, TailLag, HeadKept, FreedRetired
    <2>5. Sole'
      <3>1. start.enqueuers = 1 => tail = End
        BY <1>s, <2>1 DEF Enqueuers, EnqPC
      <3>2. Enqueuers' \subseteq Enqueuers
        BY <1>o, <2>1 DEF Enqueuers, EnqPC
      <3>3. start.enqueuers = 1 => tail' = End
        BY <1>0, <2>t, <3>1
      <3> QED BY <1>s, <2>1, <2>2, <3>2, <3>3 DEF Sole
    <2>6. Protected'
      BY <1>0, <1>o, <1>p, <2>1 DEF Protected, EnqPC, DeqPC, Null
    <2> QED BY <1>1, <2>3, <2>4, <2>5, <2>6 DEF PointerInv, NoLeak
  <1>7. CASE EnqLink(t)
    <2>1. /\ UNCHANGED <<start, head, tail, retired, freed, dropped, cur>>
          /\ pc[t] = "e_link" /\ cur[t] # Null
          /\ \/ pc'[t] = "e_fix" /\ cur[t] = End
             \/ pc'[t] = "e_tail" /\ cur[t] # End /\ nodes' = nodes
      BY <1>7, <1>o, <1>p DEF EnqLink, Pointers
    <2>2. \/ pc'[t] = "e_fix" /\ cur[t] = End /\ End' = End + 1
          \/ pc'[t] = "e_tail" /\ cur[t] # End /\ End' = End
      <3>1. item[t] \in 1 .. MaxItem
        BY <1>7, StartFacts DEF EnqLink, EnqPC, Numbered, LooseType
      <3>2. nodes' = Append(nodes, NewSegment(<<item[t]>>)) => End' = End + 1
        <4> DEFINE i == item[t]
        <4>1. i \in 1 .. MaxItem
          BY <3>1
        <4> HIDE DEF i
        <4>2. nodes' = Append(nodes, NewSegment(<<i>>)) => End' = End + 1
          BY <4>1, LinkedNode
        <4> QED BY <4>2 DEF i
      <3> QED BY <1>7, <1>q, <2>1, <3>2 DEF EnqLink
    <2>3. Pointers' /\ GoneAround'
      <3>1. PointerOf(t)'
        BY <1>0, <1>p, <2>1, <2>2 DEF PointerOf, EnqPC, DeqPC, Null
      <3>2. /\ tail' \in Int /\ tail <= tail' /\ head' \in Int /\ head <= head'
            /\ End' \in Int /\ End <= End'
        BY <1>0, <2>1, <2>2
      <3> QED BY <1>o, <1>p, <3>1, <3>2, PointersStep
    <2>4. TailLag' /\ HeadKept' /\ FreedRetired'
      <3>1. cur[t] <= tail
        BY <1>p, <2>1 DEF Pointers, EnqPC
      <3> QED BY <1>0, <2>1, <2>2, <3>1 DEF PointerInv, TailLag, HeadKept, FreedRetired
    <2>5. Sole'
      <3>1. start.enqueuers = 1 => tail = End
        BY <1>s, <2>1 DEF Enqueuers, EnqPC
      <3>2. Enqueuers' \subseteq Enqueuers
        BY <1>o, <2>1 DEF Enqueuers, EnqPC
      <3>3. start.enqueuers = 1 =>
              tail' = End' \/ \E u \in Threads : pc'[u] = "e_fix" /\ cur'[u] = tail'
        BY <2>1, <2>2, <3>1
      <3> QED BY <1>s, <2>1, <3>2, <3>3 DEF Sole
    <2>6. Protected'
      BY <1>0, <1>o, <1>p, <2>1 DEF Protected, EnqPC, DeqPC, Null
    <2> QED BY <1>1, <2>3, <2>4, <2>5, <2>6 DEF PointerInv, NoLeak
  <1>8. CASE EnqFix(t)
    <2>1. /\ UNCHANGED <<start, nodes, head, retired, freed, dropped>>
          /\ pc[t] = "e_fix" /\ pc'[t] = "idle" /\ cur'[t] = Null
          /\ tail' = IF tail = cur[t] THEN cur[t] + 1 ELSE tail
      BY <1>8, <1>o DEF EnqFix
    <2>2. End' = End
      BY <1>q, <2>1
    <2>t. cur[t] < End /\ tail <= tail' /\ tail' <= End /\ tail' \in Int
      BY <1>0, <1>p, <2>1 DEF PointerOf, Null, EnqPC
    <2>3. Pointers' /\ GoneAround'
      <3>1. PointerOf(t)'
        BY <1>0, <1>p, <2>1, <2>2, <2>t DEF PointerOf, EnqPC, DeqPC, Null
      <3>2. /\ tail' \in Int /\ tail <= tail' /\ head' \in Int /\ head <= head'
            /\ End' \in Int /\ End <= End'
        BY <1>0, <2>1, <2>2, <2>t
      <3> QED BY <1>o, <1>p, <3>1, <3>2, PointersStep
    <2>4. TailLag' /\ HeadKept' /\ FreedRetired'
      BY <1>0, <2>1, <2>2, <2>t DEF PointerInv, TailLag, HeadKept, FreedRetired
    <2>5. Sole'
      <3>1. Enqueuers' \subseteq Enqueuers
        BY <1>o, <2>1 DEF Enqueuers, EnqPC
      <3>2. start.enqueuers = 1 => tail = End \/ cur[t] = tail
        BY <1>s, <2>1 DEF Enqueuers, EnqPC
      <3>3. start.enqueuers = 1 => tail' = End
        BY <1>0, <2>1, <2>t, <3>2
      <3> QED BY <1>s, <2>1, <2>2, <3>1, <3>3 DEF Sole
    <2>6. Protected'
      BY <1>0, <1>o, <1>p, <2>1 DEF Protected, EnqPC, DeqPC, Null
    <2> QED BY <1>1, <2>3, <2>4, <2>5, <2>6 DEF PointerInv, NoLeak
  <1>9. CASE DeqMove(t)
    <2>1. /\ UNCHANGED <<start, nodes, tail, freed, dropped, cur>>
          /\ pc[t] = "d_move" /\ pc'[t] = "d_head"
          /\ \/ head = cur[t] /\ head' = cur[t] + 1 /\ retired' = retired \union {cur[t]}
             \/ head # cur[t] /\ UNCHANGED <<head, retired>>
      BY <1>9, <1>o DEF DeqMove
    <2>2. End' = End
      BY <1>q, <2>1
    <2>t. head <= head' /\ head' \in Int /\ cur[t] < head' /\ retired \subseteq retired'
      <3>1. cur[t] <= head /\ cur[t] \in Int /\ head \in Int
        BY <1>0, <1>p, <2>1 DEF PointerOf, DeqPC
      <3>2. head <= head' /\ head' \in Int /\ cur[t] < head'
        BY <2>1, <3>1
      <3>3. retired \subseteq retired'
        BY <2>1
      <3> QED BY <3>2, <3>3
    <2>3. Pointers' /\ GoneAround'
      <3>1. PointerOf(t)'
        BY <1>0, <1>p, <2>1, <2>2, <2>t DEF PointerOf, EnqPC, DeqPC, Null
      <3>2. /\ tail' \in Int /\ tail <= tail' /\ head' \in Int /\ head <= head'
            /\ End' \in Int /\ End <= End'
        BY <1>0, <2>1, <2>2, <2>t
      <3> QED BY <1>o, <1>p, <3>1, <3>2, PointersStep
    <2>4. TailLag' /\ FreedRetired'
      BY <1>0, <2>1, <2>2, <2>t DEF PointerInv, TailLag, FreedRetired
    <2>h. HeadKept'
      <3>1. CASE head = cur[t] /\ head' = head + 1 /\ retired' = retired \union {head}
        <4>1. 1 .. head' - 1 = (1 .. head - 1) \union {head}
          BY <1>0, <3>1
        <4> QED BY <1>0, <3>1, <4>1 DEF HeadKept
      <3>2. CASE UNCHANGED <<head, retired>>
        BY <1>0, <3>2 DEF HeadKept
      <3> QED BY <2>1, <3>1, <3>2
    <2>5. Sole'
      BY <1>o, <1>s, <2>1, <2>2 DEF Sole, Enqueuers, EnqPC
    <2>6. Protected'
      BY <1>0, <1>o, <1>p, <2>1 DEF Protected, EnqPC, DeqPC, Null
    <2> QED BY <1>1, <2>3, <2>4, <2>h, <2>5, <2>6 DEF PointerInv, NoLeak
  <1> QED BY <1>2, <1>3, <1>4, <1>5, <1>6, <1>7, <1>8, <1>9

\* The steps of the hazard pointer domain and the drop of the queue.
LEMMA PointerMemory ==
  ASSUME LooseType, PointerInv, DropQueue \/ \E n \in retired : Reclaim(n)
  PROVE  PointerInv'
  <1>0. /\ End \in Nat /\ head \in 1 .. End /\ freed \subseteq 1 .. End
        /\ retired = 1 .. head - 1
    BY NodeFacts DEF LooseType, PointerInv, HeadKept
  <1>1. UNCHANGED <<start, nodes, head, tail, retired, pc, cur>> /\ End' = End
    BY DEF DropQueue, Reclaim, list, local, End
  <1>2. Pointers' /\ GoneAround'
    BY <1>1 DEF PointerInv, Pointers, GoneAround
  <1>3. TailLag' /\ HeadKept'
    BY <1>1 DEF PointerInv, TailLag, HeadKept
  <1>4. Sole'
    BY <1>1 DEF PointerInv, Sole, Enqueuers
  <1>5. CASE DropQueue
    <2>1. /\ \A t \in Threads : pc[t] = "idle"
          /\ dropped' = head .. End /\ freed' = freed
      BY <1>5 DEF DropQueue, memory
    <2>2. FreedRetired' /\ Gone'
      BY <1>1, <2>1 DEF PointerInv, FreedRetired, Gone
    <2>3. NoLeak'
      <3>1. (head .. End) \union retired = 1 .. End /\ (head .. End) \intersect retired = {}
        BY <1>0
      <3>2. DOMAIN nodes = 1 .. End
        BY NodeFacts
      <3> QED BY <1>1, <2>1, <2>2, <3>1, <3>2 DEF NoLeak
    <2>4. Protected'
      BY <1>1, <2>1 DEF Protected, EnqPC, DeqPC
    <2> QED BY <1>2, <1>3, <1>4, <2>2, <2>3, <2>4 DEF PointerInv
  <1>6. ASSUME NEW n \in retired, Reclaim(n) PROVE PointerInv'
    <2>1. /\ \A t \in Threads : cur[t] # n
          /\ freed' = freed \union {n} /\ dropped' = dropped
      BY <1>6 DEF Reclaim
    <2>2. FreedRetired' /\ Gone'
      BY <1>1, <2>1 DEF PointerInv, FreedRetired, Gone, Dropped
    <2>3. NoLeak'
      BY <1>1, <2>1, <2>2 DEF PointerInv, NoLeak, Dropped
    <2>4. Protected'
      BY <1>1, <2>1 DEF PointerInv, Protected
    <2> QED BY <1>2, <1>3, <1>4, <2>2, <2>3, <2>4 DEF PointerInv
  <1> QED BY <1>5, <1>6

-----------------------------------------------------------------------------
(* Where the items are.                                                    *)

ItemInv == OneSegment /\ HeldApart /\ Numbered /\ SettlesHere /\ Counted

\* What is stored in a queue without its first item ...
LEMMA StoredTail ==
  ASSUME NEW S, NEW q \in Seq(S), q # <<>>
  PROVE  /\ Stored(q, Head(q)) /\ Head(q) \in S
         /\ Tail(q) \in Seq(S) /\ Len(Tail(q)) = Len(q) - 1
         /\ NoRepeat(q) =>
              /\ NoRepeat(Tail(q))
              /\ \A i : Stored(Tail(q), i) <=> Stored(q, i) /\ i # Head(q)
  <1>1. /\ Tail(q) \in Seq(S) /\ Head(q) = q[1] /\ Head(q) \in S
        /\ Len(Tail(q)) = Len(q) - 1
        /\ \A j \in 1 .. Len(Tail(q)) : Tail(q)[j] = q[j + 1]
    BY HeadTailProperties
  <1>2. /\ Len(q) \in Nat /\ Len(q) > 0
        /\ DOMAIN q = 1 .. Len(q) /\ DOMAIN Tail(q) = 1 .. Len(q) - 1
    BY <1>1, EmptySeq, LenProperties
  <1>3. Stored(q, Head(q))
    BY <1>1, <1>2 DEF Stored
  <1>4. ASSUME NoRepeat(q)
        PROVE  /\ NoRepeat(Tail(q))
               /\ \A i : Stored(Tail(q), i) <=> Stored(q, i) /\ i # Head(q)
    <2>1. NoRepeat(Tail(q))
      BY <1>1, <1>2, <1>4 DEF NoRepeat
    <2>2. ASSUME NEW i, Stored(Tail(q), i)
          PROVE  Stored(q, i) /\ i # Head(q)
      BY <1>1, <1>2, <1>4, <2>2 DEF NoRepeat, Stored
    <2>3. ASSUME NEW i, Stored(q, i), i # Head(q)
          PROVE  Stored(Tail(q), i)
      <3>1. PICK j \in 1 .. Len(q) : q[j] = i
        BY <1>2, <2>3 DEF Stored
      <3>2. j # 1
        BY <1>1, <2>3, <3>1
      <3>3. j - 1 \in DOMAIN Tail(q) /\ Tail(q)[j - 1] = q[j]
        BY <1>1, <1>2, <3>1, <3>2
      <3> QED BY <3>1, <3>3 DEF Stored
    <2> QED BY <2>1, <2>2, <2>3
  <1> QED BY <1>1, <1>3, <1>4

\* ... what is stored in a queue with one more item ...
LEMMA StoredAppend ==
  ASSUME NEW S, NEW q \in Seq(S), NEW i \in S
  PROVE  /\ Append(q, i) \in Seq(S) /\ Len(Append(q, i)) = Len(q) + 1
         /\ \A k : Stored(Append(q, i), k) <=> Stored(q, k) \/ k = i
         /\ NoRepeat(q) /\ ~Stored(q, i) => NoRepeat(Append(q, i))
  <1> DEFINE new == Append(q, i)
  <1>1. /\ new \in Seq(S) /\ Len(new) = Len(q) + 1
        /\ \A j \in 1 .. Len(q) : new[j] = q[j]
        /\ new[Len(q) + 1] = i
    BY AppendProperties
  <1>2. /\ Len(q) \in Nat /\ DOMAIN q = 1 .. Len(q) /\ DOMAIN new = 1 .. Len(q) + 1
    BY <1>1, LenProperties
  <1> HIDE DEF new
  <1>3. ASSUME NEW k PROVE Stored(new, k) <=> Stored(q, k) \/ k = i
    <2>1. Stored(new, k) => Stored(q, k) \/ k = i
      BY <1>1, <1>2 DEF Stored
    <2>2. Stored(q, k) => Stored(new, k)
      BY <1>1, <1>2 DEF Stored
    <2>3. Stored(new, i)
      BY <1>1, <1>2 DEF Stored
    <2> QED BY <2>1, <2>2, <2>3
  <1>4. NoRepeat(q) /\ ~Stored(q, i) => NoRepeat(new)
    BY <1>1, <1>2 DEF NoRepeat, Stored
  <1> QED BY <1>1, <1>3, <1>4 DEF new

\* ... and in a queue of one item.
LEMMA StoredOne ==
  ASSUME NEW i
  PROVE  NoRepeat(<<i>>) /\ Len(<<i>>) = 1 /\ \A k : Stored(<<i>>, k) <=> k = i
  BY DEF NoRepeat, Stored

\* The steps at which a thread holds an item that is in no segment.
HeldStates == EnqBefore \union Claimed

\* The items that the length stands for can be counted.
LEMMA LiveFinite ==
  ASSUME LooseType
  PROVE  IsFiniteSet(Live) /\ Cardinality(Live) \in Nat
  <1>1. Live \subseteq 1 .. MaxItem
    BY DEF Live
  <1>2. MaxItem \in Nat
    BY StartFacts DEF LooseType
  <1>3. IsFiniteSet(1 .. MaxItem)
    BY <1>2, FS_Interval
  <1> QED BY <1>1, <1>3, FS_Subset, FS_CardinalityType

\* A step that moves no item, and by which no thread begins or ceases to
\* hold one, disturbs nothing.
LEMMA ItemsRest ==
  ASSUME LooseType, ItemInv, NEW t \in Threads, Others(t), MaxItem' = MaxItem, End' = End,
         \A n \in 1 .. End : nodes'[n].queue = nodes[n].queue,
         length' = length, calls' \in Int, calls <= calls',
         pc[t] \in HeldStates <=> pc'[t] \in HeldStates,
         pc'[t] \in HeldStates => item'[t] = item[t],
         pc'[t] \in EnqPC => pc[t] \in EnqPC /\ item'[t] = item[t],
         pc'[t] = "e_settle" => pc[t] = "e_settle" /\ cur'[t] = cur[t]
  PROVE  ItemInv'
  <1>1. Holders' = Holders /\ \A u \in Holders : item'[u] = item[u]
    BY DEF Holders, HeldStates, Others, EnqBefore, EnqAfter, EnqPC
  <1>2. Enqueuers' \subseteq Enqueuers /\ \A u \in Enqueuers' : item'[u] = item[u]
    BY DEF Enqueuers, Others, EnqPC
  <1>3. OneSegment' /\ HeldApart'
    BY <1>1 DEF ItemInv, OneSegment, HeldApart
  <1>4. Numbered'
    <2>1. \A u \in Threads : pc'[u] \in EnqPC \union Claimed =>
             pc[u] \in EnqPC \union Claimed /\ item'[u] = item[u]
      BY DEF Others, HeldStates, EnqPC, Claimed, EnqBefore, EnqAfter
    <2>2. calls \in Int
      BY DEF LooseType
    <2>3. \A u \in Threads : pc'[u] \in EnqPC \union Claimed => item'[u] \in 1 .. calls'
      BY <2>1, <2>2 DEF ItemInv, Numbered
    <2>4. \A n \in 1 .. End : \A i \in 1 .. MaxItem : Stored(nodes[n].queue, i) => i <= calls'
      BY <2>2 DEF ItemInv, Numbered
    <2> QED BY <1>2, <2>3, <2>4 DEF ItemInv, Numbered
  <1>5. SettlesHere'
    <2>1. \A u \in Threads : pc'[u] = "e_settle" =>
             pc[u] = "e_settle" /\ item'[u] = item[u] /\ cur'[u] = cur[u]
      BY DEF Others, EnqPC
    <2> QED BY <2>1 DEF ItemInv, SettlesHere
  <1>6. Counted'
    <2>1. Live' = Live
      BY <1>1 DEF Live
    <2> QED BY <2>1 DEF ItemInv, Counted
  <1> QED BY <1>3, <1>4, <1>5, <1>6 DEF ItemInv

\* A call brings a new item.
LEMMA ItemArrives ==
  ASSUME LooseType, ItemInv, NEW t \in Threads, Others(t), MaxItem' = MaxItem, UNCHANGED nodes,
         pc[t] = "idle", pc'[t] = "e_tail", calls < MaxItem, calls' = calls + 1,
         item'[t] = calls + 1, length' = length + 1
  PROVE  ItemInv'
  <1>0. calls \in 0 .. MaxItem /\ End' = End /\ MaxItem \in Nat /\ calls' \in 1 .. MaxItem
    BY StartFacts DEF LooseType, End
  <1>1. Holders' = Holders \union {t} /\ t \notin Holders /\ \A u \in Holders : item'[u] = item[u]
    BY DEF Holders, Others, EnqBefore, EnqAfter, EnqPC, Claimed
  <1>2. Enqueuers' = Enqueuers \union {t} /\ t \notin Enqueuers
        /\ \A u \in Enqueuers : item'[u] = item[u]
    BY DEF Enqueuers, Others, EnqPC
  <1>3. \A u \in Threads : u # t /\ pc'[u] \in EnqPC \union Claimed =>
           pc[u] \in EnqPC \union Claimed /\ item'[u] = item[u]
    BY DEF Others, EnqPC
  <1>n. /\ \A n \in 1 .. End : \A i \in 1 .. MaxItem : Stored(nodes[n].queue, i) => i <= calls
        /\ \A u \in Threads : pc[u] \in EnqPC \union Claimed => item[u] \in 1 .. calls
    BY DEF ItemInv, Numbered
  <1>4. \A n \in 1 .. End : ~Stored(nodes[n].queue, calls')
    BY <1>0, <1>n
  <1>5. OneSegment'
    BY <1>0 DEF ItemInv, OneSegment
  <1>6. \A u \in Holders \union Enqueuers : item[u] # calls'
    <2>1. \A u \in Holders \union Enqueuers : item[u] \in 1 .. calls
      BY <1>n DEF Holders, Enqueuers, EnqBefore
    <2> QED BY <1>0, <2>1
  <1>7. HeldApart'
    BY <1>0, <1>1, <1>4, <1>6 DEF ItemInv, HeldApart
  <1>8. Numbered'
    <2>1. \A u \in Threads : pc'[u] \in EnqPC \union Claimed => item'[u] \in 1 .. calls'
      BY <1>0, <1>3, <1>n
    <2>2. \A n \in 1 .. End' : \A i \in 1 .. MaxItem' : Stored(nodes'[n].queue, i) => i <= calls'
      BY <1>0, <1>n
    <2>3. \A u, v \in Enqueuers' : item'[v] = item'[u] => v = u
      BY <1>2, <1>6 DEF ItemInv, Numbered
    <2> QED BY <2>1, <2>2, <2>3 DEF Numbered
  <1>9. SettlesHere'
    <2>1. \A u \in Threads : pc'[u] = "e_settle" =>
             pc[u] = "e_settle" /\ item'[u] = item[u] /\ cur'[u] = cur[u]
      BY DEF Others
    <2> QED BY <1>0, <2>1 DEF ItemInv, SettlesHere
  <1>10. Counted'
    <2>1. calls' \notin Live
      BY <1>0, <1>4, <1>6 DEF Live
    <2>2. Live' = Live \union {calls'}
      BY <1>0, <1>1 DEF Live
    <2>3. Cardinality(Live') = Cardinality(Live) + 1
      BY <2>1, <2>2, LiveFinite, FS_AddElement
    <2> QED BY <2>3 DEF ItemInv, Counted
  <1> QED BY <1>5, <1>7, <1>8, <1>9, <1>10 DEF ItemInv

\* The queues after an item was appended to, or taken from, segment n, and
\* after a segment with one was linked.
Appended(n, i) ==
  /\ End' = End
  /\ nodes'[n].queue = Append(nodes[n].queue, i)
  /\ \A m \in 1 .. End : m # n => nodes'[m].queue = nodes[m].queue

\* An insertion puts its item into the segment it works on.
LEMMA ItemStored ==
  ASSUME LooseType, ItemInv, NEW t \in Threads, Others(t), MaxItem' = MaxItem,
         cur[t] \in 1 .. End, Appended(cur[t], item[t]), UNCHANGED <<item, cur, calls, length>>,
         pc[t] = "e_put", pc'[t] = "e_settle"
  PROVE  ItemInv'
  <1> DEFINE n == cur[t]
             i == item[t]
  <1>0. /\ End' = End /\ n \in 1 .. End /\ nodes[n].queue \in Seq(1 .. MaxItem)
        /\ calls \in 0 .. MaxItem /\ MaxItem \in Nat
    BY NodeFacts, StartFacts DEF LooseType, Appended
  <1>1. t \in Holders /\ t \in Enqueuers /\ i \in 1 .. calls /\ i \in 1 .. MaxItem
    BY <1>0 DEF Holders, Enqueuers, EnqBefore, EnqAfter, EnqPC, ItemInv, Numbered
  <1>2. \A m \in 1 .. End : ~Stored(nodes[m].queue, i)
    BY <1>1 DEF ItemInv, HeldApart
  <1>3. /\ \A k : Stored(nodes'[n].queue, k) <=> Stored(nodes[n].queue, k) \/ k = i
        /\ NoRepeat(nodes[n].queue) => NoRepeat(nodes'[n].queue)
    <2>1. /\ \A k : Stored(Append(nodes[n].queue, i), k) <=> Stored(nodes[n].queue, k) \/ k = i
          /\ NoRepeat(nodes[n].queue) => NoRepeat(Append(nodes[n].queue, i))
      <3> HIDE DEF i
      <3> QED BY <1>0, <1>1, <1>2, StoredAppend
    <2> QED BY <2>1 DEF Appended
  <1>4. \A m \in 1 .. End : m # n => nodes'[m].queue = nodes[m].queue
    BY DEF Appended
  <1>5. Holders' = Holders \ {t}
    BY DEF Holders, Others, EnqBefore, EnqAfter, EnqPC, Claimed
  <1>6. Enqueuers' = Enqueuers
    BY DEF Enqueuers, Others, EnqPC
  <1>7. \A m \in 1 .. End : \A k : Stored(nodes'[m].queue, k) <=>
           Stored(nodes[m].queue, k) \/ (m = n /\ k = i)
    BY <1>3, <1>4
  <1> HIDE DEF n, i
  <1>o. /\ \A m \in 1 .. End : NoRepeat(nodes[m].queue)
        /\ \A l, m \in 1 .. End : \A k \in 1 .. MaxItem :
             Stored(nodes[l].queue, k) /\ Stored(nodes[m].queue, k) => l = m
        /\ \A m \in 1 .. End : \A k \in 1 .. MaxItem : Stored(nodes[m].queue, k) => k <= calls
    BY DEF ItemInv, OneSegment, Numbered
  <1>8. OneSegment'
    <2>1. \A m \in 1 .. End : NoRepeat(nodes'[m].queue)
      BY <1>3, <1>4, <1>o
    <2>2. \A l, m \in 1 .. End : \A k \in 1 .. MaxItem :
             Stored(nodes'[l].queue, k) /\ Stored(nodes'[m].queue, k) => l = m
      BY <1>2, <1>7, <1>o
    <2> QED BY <1>0, <2>1, <2>2 DEF OneSegment
  <1>9. HeldApart'
    BY <1>0, <1>1, <1>5, <1>7 DEF ItemInv, HeldApart, i
  <1>10. Numbered'
    <2>1. \A u \in Threads : pc'[u] \in EnqPC \union Claimed => pc[u] \in EnqPC \union Claimed
      BY DEF Others, EnqPC
    <2>2. \A m \in 1 .. End : \A k \in 1 .. MaxItem : Stored(nodes'[m].queue, k) => k <= calls
      <3>1. i <= calls
        BY <1>1
      <3> QED BY <1>7, <1>o, <3>1
    <2> QED BY <1>0, <1>6, <2>1, <2>2 DEF ItemInv, Numbered
  <1>11. SettlesHere'
    <2> SUFFICES ASSUME NEW u \in Threads, pc'[u] = "e_settle", NEW m \in 1 .. End,
                        Stored(nodes'[m].queue, item[u])
                 PROVE  m = cur[u]
      BY <1>0 DEF SettlesHere
    <2>1. CASE u = t
      BY <1>2, <1>7, <2>1 DEF n, i
    <2>2. CASE u # t
      <3>1. pc[u] = "e_settle" /\ u \in Enqueuers
        BY <2>2 DEF Others, Enqueuers, EnqPC
      <3>2. item[u] # i
        BY <1>1, <2>2, <3>1 DEF ItemInv, Numbered, i
      <3> QED BY <1>7, <3>1, <3>2 DEF ItemInv, SettlesHere
    <2> QED BY <2>1, <2>2
  <1>12. Counted'
    <2>1. Live' = Live
      <3>1. \A k \in 1 .. MaxItem : k \in Live' <=> k \in Live
        <4> SUFFICES ASSUME NEW k \in 1 .. MaxItem PROVE k \in Live' <=> k \in Live
          OBVIOUS
        <4>1. k \in Live' <=> \/ \E m \in 1 .. End : Stored(nodes'[m].queue, k)
                              \/ \E u \in Holders' : item[u] = k
          BY <1>0 DEF Live
        <4>2. k \in Live <=> \/ \E m \in 1 .. End : Stored(nodes[m].queue, k)
                             \/ \E u \in Holders : item[u] = k
          BY DEF Live
        <4> QED BY <1>0, <1>1, <1>5, <1>7, <4>1, <4>2 DEF i
      <3> QED BY <3>1 DEF Live
    <2> QED BY <2>1 DEF ItemInv, Counted
  <1> QED BY <1>8, <1>9, <1>10, <1>11, <1>12 DEF ItemInv

\* A dequeue takes the first item of a segment.
LEMMA ItemTaken ==
  ASSUME LooseType, ItemInv, NEW t \in Threads, Others(t), MaxItem' = MaxItem, End' = End,
         NEW n \in 1 .. End, nodes[n].queue # <<>>,
         nodes'[n].queue = Tail(nodes[n].queue), item'[t] = Head(nodes[n].queue),
         \A m \in 1 .. End : m # n => nodes'[m].queue = nodes[m].queue,
         UNCHANGED <<calls, length>>, pc[t] \in {"d_try", "d_again"}, pc'[t] = "d_used"
  PROVE  ItemInv'
  <1> DEFINE i == Head(nodes[n].queue)
  <1>0. /\ nodes[n].queue \in Seq(1 .. MaxItem) /\ calls \in 0 .. MaxItem /\ MaxItem \in Nat
    BY NodeFacts, StartFacts DEF LooseType
  <1>o. /\ \A m \in 1 .. End : NoRepeat(nodes[m].queue)
        /\ \A l, m \in 1 .. End : \A k \in 1 .. MaxItem :
             Stored(nodes[l].queue, k) /\ Stored(nodes[m].queue, k) => l = m
        /\ \A m \in 1 .. End : \A k \in 1 .. MaxItem : Stored(nodes[m].queue, k) => k <= calls
    BY DEF ItemInv, OneSegment, Numbered
  <1>1. /\ i \in 1 .. MaxItem /\ Stored(nodes[n].queue, i)
        /\ NoRepeat(nodes'[n].queue)
        /\ \A k : Stored(nodes'[n].queue, k) <=> Stored(nodes[n].queue, k) /\ k # i
    BY <1>0, <1>o, StoredTail
  <1>2. item'[t] = i
    OBVIOUS
  <1> HIDE DEF i
  <1>3. i \in 1 .. calls
    BY <1>0, <1>1, <1>o
  <1>4. Holders' = Holders \union {t} /\ t \notin Holders /\ t \notin Enqueuers
        /\ \A u \in Holders : item'[u] = item[u]
    BY DEF Holders, Enqueuers, Others, EnqBefore, EnqAfter, EnqPC, Claimed
  <1>5. Enqueuers' = Enqueuers /\ \A u \in Enqueuers : item'[u] = item[u]
    BY DEF Enqueuers, Others, EnqPC
  <1>6. \A u \in Holders : item[u] # i
    BY <1>1 DEF ItemInv, HeldApart
  <1>7. \A m \in 1 .. End : \A k \in 1 .. MaxItem :
          Stored(nodes'[m].queue, k) <=> Stored(nodes[m].queue, k) /\ k # i
    BY <1>1, <1>o
  <1>8. OneSegment'
    <2>1. \A m \in 1 .. End : NoRepeat(nodes'[m].queue)
      BY <1>1, <1>o
    <2>2. \A l, m \in 1 .. End : \A k \in 1 .. MaxItem :
             Stored(nodes'[l].queue, k) /\ Stored(nodes'[m].queue, k) => l = m
      BY <1>7, <1>o
    <2> QED BY <2>1, <2>2 DEF OneSegment
  <1>h. \A u \in Holders \union Enqueuers : item[u] \in 1 .. MaxItem
    <2>1. \A u \in Holders \union Enqueuers : item[u] \in 1 .. calls
      BY DEF ItemInv, Numbered, Holders, Enqueuers, EnqBefore
    <2> QED BY <1>0, <2>1
  <1>9. HeldApart'
    <2>1. \A u \in Holders : \A m \in 1 .. End : ~Stored(nodes'[m].queue, item[u])
      BY <1>7, <1>h DEF ItemInv, HeldApart
    <2>2. \A m \in 1 .. End : ~Stored(nodes'[m].queue, i)
      BY <1>1, <1>7
    <2> QED BY <1>2, <1>4, <1>6, <2>1, <2>2 DEF ItemInv, HeldApart
  <1>10. Numbered'
    <2>1. \A u \in Threads : pc'[u] \in EnqPC \union Claimed => item'[u] \in 1 .. calls
      <3>1. \A u \in Threads : u # t /\ pc'[u] \in EnqPC \union Claimed =>
              pc[u] \in EnqPC \union Claimed /\ item'[u] = item[u]
        BY DEF Others, EnqPC
      <3> QED BY <1>2, <1>3, <3>1 DEF ItemInv, Numbered
    <2>2. \A m \in 1 .. End : \A k \in 1 .. MaxItem : Stored(nodes'[m].queue, k) => k <= calls
      BY <1>7, <1>o
    <2> QED BY <1>0, <1>5, <2>1, <2>2 DEF ItemInv, Numbered
  <1>11. SettlesHere'
    <2> SUFFICES ASSUME NEW u \in Threads, pc'[u] = "e_settle", NEW m \in 1 .. End,
                        Stored(nodes'[m].queue, item'[u])
                 PROVE  m = cur'[u]
      BY DEF SettlesHere
    <2>1. u # t /\ pc[u] = "e_settle" /\ u \in Enqueuers /\ item'[u] = item[u] /\ cur'[u] = cur[u]
      BY DEF Others, Enqueuers, EnqPC
    <2> QED BY <1>7, <1>h, <2>1 DEF ItemInv, SettlesHere
  <1>12. Counted'
    <2>1. Live' = Live
      <3> SUFFICES ASSUME NEW k \in 1 .. MaxItem PROVE k \in Live' <=> k \in Live
        BY DEF Live
      <3>1. k \in Live' <=> \/ \E m \in 1 .. End : Stored(nodes'[m].queue, k)
                            \/ \E u \in Holders' : item'[u] = k
        BY DEF Live
      <3>2. k \in Live <=> \/ \E m \in 1 .. End : Stored(nodes[m].queue, k)
                           \/ \E u \in Holders : item[u] = k
        BY DEF Live
      <3> QED BY <1>1, <1>2, <1>4, <1>7, <3>1, <3>2
    <2> QED BY <2>1 DEF ItemInv, Counted
  <1> QED BY <1>8, <1>9, <1>10, <1>11, <1>12 DEF ItemInv

\* An enqueue links a segment with its item.
LEMMA ItemLinked ==
  ASSUME LooseType, ItemInv, NEW t \in Threads, Others(t), MaxItem' = MaxItem, End' = End + 1,
         \A m \in 1 .. End : nodes'[m].queue = nodes[m].queue,
         nodes'[End + 1].queue = <<item[t]>>,
         UNCHANGED <<item, calls, length>>, pc[t] = "e_link", pc'[t] = "e_fix"
  PROVE  ItemInv'
  <1> DEFINE i == item[t]
  <1>0. /\ End \in Nat /\ calls \in 0 .. MaxItem /\ MaxItem \in Nat
    BY NodeFacts, StartFacts DEF LooseType
  <1>o. /\ \A m \in 1 .. End : NoRepeat(nodes[m].queue)
        /\ \A l, m \in 1 .. End : \A k \in 1 .. MaxItem :
             Stored(nodes[l].queue, k) /\ Stored(nodes[m].queue, k) => l = m
        /\ \A m \in 1 .. End : \A k \in 1 .. MaxItem : Stored(nodes[m].queue, k) => k <= calls
    BY DEF ItemInv, OneSegment, Numbered
  <1>1. t \in Holders /\ t \in Enqueuers /\ i \in 1 .. calls
    BY DEF Holders, Enqueuers, EnqBefore, EnqAfter, EnqPC, ItemInv, Numbered
  <1>2. i \in 1 .. MaxItem /\ \A m \in 1 .. End : ~Stored(nodes[m].queue, i)
    BY <1>0, <1>1 DEF ItemInv, HeldApart
  <1>3. /\ NoRepeat(nodes'[End + 1].queue)
        /\ \A k : Stored(nodes'[End + 1].queue, k) <=> k = i
    BY StoredOne
  <1>4. Holders' = Holders \ {t}
    BY DEF Holders, Others, EnqBefore, EnqAfter, EnqPC, Claimed
  <1>5. Enqueuers' = Enqueuers
    BY DEF Enqueuers, Others, EnqPC
  <1>r. \A m \in 1 .. End' : m \in 1 .. End \/ m = End + 1
    BY <1>0
  <1>7. \A m \in 1 .. End' : \A k : Stored(nodes'[m].queue, k) <=>
          \/ m \in 1 .. End /\ Stored(nodes[m].queue, k)
          \/ m = End + 1 /\ k = i
    <2>1. End + 1 \notin 1 .. End
      BY <1>0
    <2> QED BY <1>3, <1>r, <2>1
  <1> HIDE DEF i
  <1>8. OneSegment'
    <2>1. \A m \in 1 .. End' : NoRepeat(nodes'[m].queue)
      BY <1>3, <1>o, <1>r
    <2>2. \A l, m \in 1 .. End' : \A k \in 1 .. MaxItem :
             Stored(nodes'[l].queue, k) /\ Stored(nodes'[m].queue, k) => l = m
      <3> SUFFICES ASSUME NEW l \in 1 .. End', NEW m \in 1 .. End', NEW k \in 1 .. MaxItem,
                          Stored(nodes'[l].queue, k), Stored(nodes'[m].queue, k)
                   PROVE  l = m
        OBVIOUS
      <3>1. CASE k = i
        <4>1. l = End + 1 /\ m = End + 1
          BY <1>2, <1>7, <3>1, Zenon
        <4> QED BY <4>1
      <3>2. CASE k # i
        <4>1. /\ l \in 1 .. End /\ Stored(nodes[l].queue, k)
              /\ m \in 1 .. End /\ Stored(nodes[m].queue, k)
          BY <1>7, <3>2
        <4> QED BY <4>1, <1>o
      <3> QED BY <3>1, <3>2
    <2> QED BY <2>1, <2>2 DEF OneSegment
  <1>9. HeldApart'
    <2> SUFFICES ASSUME NEW u \in Holders'
                 PROVE  /\ \A m \in 1 .. End' : ~Stored(nodes'[m].queue, item'[u])
                        /\ \A v \in Holders' : item'[v] = item'[u] => v = u
      BY DEF HeldApart
    <2>1. u \in Holders /\ u # t /\ item' = item
      BY <1>4
    <2>2. /\ \A m \in 1 .. End : ~Stored(nodes[m].queue, item[u])
          /\ \A v \in Holders : item[v] = item[u] => v = u
      BY <2>1 DEF ItemInv, HeldApart
    <2>3. item[u] # i
      BY <1>1, <2>1, <2>2 DEF i
    <2> QED BY <1>4, <1>7, <2>1, <2>2, <2>3
  <1>10. Numbered'
    <2>1. \A u \in Threads : pc'[u] \in EnqPC \union Claimed => pc[u] \in EnqPC \union Claimed
      BY DEF Others, EnqPC
    <2>2. \A m \in 1 .. End' : \A k \in 1 .. MaxItem : Stored(nodes'[m].queue, k) => k <= calls
      <3>1. i <= calls
        BY <1>1
      <3> QED BY <1>7, <1>o, <3>1
    <2> QED BY <1>5, <2>1, <2>2 DEF ItemInv, Numbered
  <1>11. SettlesHere'
    <2> SUFFICES ASSUME NEW u \in Threads, pc'[u] = "e_settle", NEW m \in 1 .. End',
                        Stored(nodes'[m].queue, item[u])
                 PROVE  m = cur'[u]
      BY DEF SettlesHere
    <2>1. u # t /\ pc[u] = "e_settle" /\ u \in Enqueuers /\ cur'[u] = cur[u]
      BY DEF Others, Enqueuers, EnqPC
    <2>2. item[u] # i
      BY <1>1, <2>1 DEF ItemInv, Numbered, i
    <2> QED BY <1>7, <2>1, <2>2 DEF ItemInv, SettlesHere
  <1>12. Counted'
    <2>1. Live' = Live
      <3> SUFFICES ASSUME NEW k \in 1 .. MaxItem PROVE k \in Live' <=> k \in Live
        BY DEF Live
      <3>1. k \in Live' <=> \/ \E m \in 1 .. End' : Stored(nodes'[m].queue, k)
                            \/ \E u \in Holders' : item[u] = k
        BY DEF Live
      <3>2. k \in Live <=> \/ \E m \in 1 .. End : Stored(nodes[m].queue, k)
                           \/ \E u \in Holders : item[u] = k
        BY DEF Live
      <3>3. (\E m \in 1 .. End' : Stored(nodes'[m].queue, k)) <=>
              (\E m \in 1 .. End : Stored(nodes[m].queue, k)) \/ k = i
        <4>1. End + 1 \in 1 .. End' /\ \A m \in 1 .. End : m \in 1 .. End'
          BY <1>0
        <4> QED BY <1>7, <4>1
      <3> QED BY <1>1, <1>4, <3>1, <3>2, <3>3 DEF i
    <2> QED BY <2>1 DEF ItemInv, Counted
  <1> QED BY <1>8, <1>9, <1>10, <1>11, <1>12 DEF ItemInv

\* A dequeue returns with the item it took.
LEMMA ItemLeaves ==
  ASSUME LooseType, ItemInv, NEW t \in Threads, Others(t), MaxItem' = MaxItem, UNCHANGED nodes,
         pc[t] = "d_len", pc'[t] = "idle", calls' = calls, length' = length - 1
  PROVE  ItemInv'
  <1>0. End' = End /\ calls \in 0 .. MaxItem /\ MaxItem \in Nat
    BY StartFacts DEF LooseType, End
  <1>1. /\ Holders' = Holders \ {t} /\ t \in Holders
        /\ \A u \in Holders \ {t} : item'[u] = item[u]
    BY DEF Holders, Others, EnqBefore, EnqAfter, EnqPC, Claimed
  <1>2. Enqueuers' = Enqueuers /\ \A u \in Enqueuers : item'[u] = item[u]
    BY DEF Enqueuers, Others, EnqPC
  <1>3. \A u \in Threads : pc'[u] \in EnqPC \union Claimed =>
           pc[u] \in EnqPC \union Claimed /\ item'[u] = item[u]
    BY DEF Others, EnqPC, Claimed
  <1>4. OneSegment' /\ HeldApart'
    BY <1>0, <1>1 DEF ItemInv, OneSegment, HeldApart
  <1>5. Numbered'
    BY <1>0, <1>2, <1>3 DEF ItemInv, Numbered
  <1>6. SettlesHere'
    <2>1. \A u \in Threads : pc'[u] = "e_settle" =>
             pc[u] = "e_settle" /\ item'[u] = item[u] /\ cur'[u] = cur[u]
      BY DEF Others
    <2> QED BY <1>0, <2>1 DEF ItemInv, SettlesHere
  <1>7. Counted'
    <2>1. item[t] \in 1 .. MaxItem
      <3>1. item[t] \in 1 .. calls
        BY DEF ItemInv, Numbered, Claimed
      <3> QED BY <1>0, <3>1
    <2>2. item[t] \in Live
      BY <1>1, <2>1 DEF Live
    <2>3. Live' = Live \ {item[t]}
      BY <1>0, <1>1, <2>1 DEF Live, ItemInv, HeldApart
    <2>4. Cardinality(Live') = Cardinality(Live) - 1
      BY <2>2, <2>3, LiveFinite, FS_RemoveElement
    <2> QED BY <2>4 DEF ItemInv, Counted
  <1> QED BY <1>4, <1>5, <1>6, <1>7 DEF ItemInv

\* Every step of a thread keeps the items where they should be.
LEMMA ItemStep ==
  ASSUME LooseType, Pointers, ItemInv, NEW t \in Threads, Invoke(t) \/ Step(t)
  PROVE  ItemInv'
  <1>0. /\ Others(t) /\ LocalType /\ MaxItem' = MaxItem /\ calls \in Int /\ End \in Nat
        /\ cur[t] # Null => cur[t] \in 1 .. End
    <2>1. Others(t)
      BY OthersStep DEF LooseType
    <2>2. start' = start
      BY ListTypeStep DEF ItemInv, ListStep
    <2> QED BY <2>1, <2>2, SameStart, NodeFacts DEF LooseType
  <1>p. pc[t] \notin {"idle", "e_tail", "d_head"} => cur[t] \in 1 .. End
    BY <1>0 DEF Pointers
  <1>w. ASSUME NEW c, NEW r, NEW u, NEW f, Writes(t, nodes[cur[t]].queue, c, r, u, f)
        PROVE  /\ End' = End /\ \A n \in 1 .. End : nodes'[n].queue = nodes[n].queue
               /\ UNCHANGED <<calls, length>>
    BY <1>w DEF Writes
  <1>q. ASSUME UNCHANGED nodes
        PROVE  End' = End /\ \A n \in 1 .. End : nodes'[n].queue = nodes[n].queue
    BY <1>q DEF End
  <1>m. ASSUME NEW from, NEW to, Miss(t, from, to)
        PROVE  /\ pc[t] = from /\ pc'[t] = to /\ cur'[t] = cur[t] /\ item'[t] = item[t]
               /\ UNCHANGED <<nodes, calls, length>>
    BY <1>m DEF Miss, local, list
  <1> USE DEF LocalType, Goto, Return, local, list
  <1> DEFINE Quiet ==
        /\ pc[t] \in HeldStates <=> pc'[t] \in HeldStates
        /\ pc'[t] \in HeldStates => item'[t] = item[t]
        /\ pc'[t] \in EnqPC => pc[t] \in EnqPC /\ item'[t] = item[t]
        /\ pc'[t] = "e_settle" => pc[t] = "e_settle" /\ cur'[t] = cur[t]
  <1>1. CASE EnqCall(t)
    <2>1. /\ UNCHANGED nodes /\ pc[t] = "idle" /\ pc'[t] = "e_tail" /\ calls < MaxItem
          /\ calls' = calls + 1 /\ item'[t] = calls + 1 /\ length' = length + 1
      BY <1>0, <1>1 DEF EnqCall, Call
    <2> QED BY <1>0, <2>1, ItemArrives
  <1>2. CASE EnqPut(t)
    <2>1. /\ pc[t] = "e_put" /\ pc'[t] = "e_settle" /\ UNCHANGED <<item, cur>> /\ cur[t] \in 1 .. End
          /\ item[t] # NoItem
      BY <1>0, <1>2, <1>p DEF EnqPut, ItemInv, Numbered, EnqPC, NoItem
    <2>2. Appended(cur[t], item[t]) /\ UNCHANGED <<calls, length>>
      BY <1>2, <2>1, SegmentWrites DEF Writes, Appended
    <2> QED BY <1>0, <2>1, <2>2, ItemStored
  <1>3. ASSUME NEW from \in {"d_try", "d_again"}, Claim(t, from) PROVE ItemInv'
    <2>1. pc[t] = from /\ pc'[t] = "d_used" /\ cur[t] \in 1 .. End /\ nodes[cur[t]].queue # <<>>
      BY <1>0, <1>3, <1>p DEF Claim
    <2>2. item'[t] = Head(nodes[cur[t]].queue)
      <3> DEFINE i == Head(nodes[cur[t]].queue)
      <3>1. item' = [item EXCEPT ![t] = i]
        BY <1>3 DEF Claim
      <3> HIDE DEF i
      <3>2. item'[t] = i
        BY <1>0, <3>1
      <3> QED BY <3>2 DEF i
    <2>3. /\ End' = End /\ nodes'[cur[t]].queue = Tail(nodes[cur[t]].queue)
          /\ \A m \in 1 .. End : m # cur[t] => nodes'[m].queue = nodes[m].queue
          /\ UNCHANGED <<calls, length>>
      <3>1. Claim(t, "d_try") \/ Claim(t, "d_again")
        BY <1>3
      <3>2. LET s == nodes[cur[t]]
            IN Writes(t, Tail(s.queue), s.closed, s.refilled, s.used, s.free)
        BY <3>1, SegmentWrites
      <3> QED BY <3>2 DEF Writes
    <2> QED BY <1>0, <2>1, <2>2, <2>3, ItemTaken
  <1>4. CASE EnqLink(t)
    <2>1. CASE nodes' = Append(nodes, NewSegment(<<item[t]>>)) /\ Goto(t, "e_link", "e_fix")
      <3>1. /\ UNCHANGED <<item, calls, length>> /\ pc[t] = "e_link" /\ pc'[t] = "e_fix"
        BY <1>0, <1>4, <2>1 DEF EnqLink
      <3>2. item[t] \in 1 .. MaxItem
        BY <3>1, StartFacts DEF ItemInv, Numbered, EnqPC, LooseType
      <3>3. /\ End' = End + 1 /\ \A m \in 1 .. End : nodes'[m] = nodes[m]
            /\ nodes'[End + 1].queue = <<item[t]>>
        <4> DEFINE i == item[t]
        <4>1. i \in 1 .. MaxItem /\ nodes' = Append(nodes, NewSegment(<<i>>))
          BY <2>1, <3>2
        <4> HIDE DEF i
        <4>2. /\ End' = End + 1 /\ \A m \in 1 .. End : nodes'[m] = nodes[m]
              /\ nodes'[End + 1].queue = <<i>>
          BY <4>1, LinkedNode
        <4> QED BY <4>2 DEF i
      <3> QED BY <1>0, <3>1, <3>3, ItemLinked
    <2>2. CASE Goto(t, "e_link", "e_tail") /\ UNCHANGED <<list, length, local, calls>>
      <3>1. Quiet /\ UNCHANGED <<nodes, calls, length>>
        BY <1>0, <2>2 DEF HeldStates, EnqPC, EnqBefore, EnqAfter, Claimed
      <3> QED BY <1>0, <1>q, <3>1, ItemsRest
    <2> QED BY <1>4, <2>1, <2>2 DEF EnqLink
  <1>5. CASE DeqLen(t)
    <2>1. /\ UNCHANGED nodes /\ pc[t] = "d_len" /\ pc'[t] = "idle" /\ calls' = calls
          /\ length' = length - 1
      BY <1>0, <1>5 DEF DeqLen
    <2> QED BY <1>0, <2>1, ItemLeaves
  <1>6. CASE DeqCall(t)
    <2>1. Quiet /\ UNCHANGED <<nodes, length>> /\ calls' = calls + 1
      BY <1>0, <1>6 DEF DeqCall, Call, HeldStates, EnqPC, EnqBefore, EnqAfter, Claimed
    <2> QED BY <1>0, <1>q, <2>1, ItemsRest
  <1>7. CASE EnqTail(t) \/ EnqNext(t) \/ EnqFix(t) \/ DeqHead(t) \/ DeqMove(t)
    <2>1. Quiet /\ UNCHANGED <<nodes, length, calls>>
      BY <1>0, <1>7 DEF EnqTail, EnqNext, EnqFix, DeqHead, DeqMove, SafeLoad,
         HeldStates, EnqPC, EnqBefore, EnqAfter, Claimed
    <2> QED BY <1>0, <1>q, <2>1, ItemsRest
  <1>8. CASE EnqUsed(t) \/ EnqUndo(t) \/ EnqFree(t) \/ EnqFlag(t) \/ EnqSettle(t) \/ EnqFinal(t)
             \/ EnqGiveUsed(t) \/ EnqGiveFree(t) \/ DeqUsed(t) \/ DeqFree(t)
    <2>1. Quiet
      BY <1>0, <1>8 DEF EnqUsed, EnqUndo, EnqFree, EnqFlag, EnqSettle, EnqFinal, EnqGiveUsed,
         EnqGiveFree, DeqUsed, DeqFree, HeldStates, EnqPC, EnqBefore, EnqAfter, Claimed
    <2>2. /\ End' = End /\ \A n \in 1 .. End : nodes'[n].queue = nodes[n].queue
          /\ UNCHANGED <<calls, length>>
      BY <1>w, <1>8, SegmentWrites
    <2> QED BY <1>0, <2>1, <2>2, ItemsRest
  <1>9. CASE DeqNext(t)
    <2>1. Quiet
      BY <1>0, <1>9 DEF DeqNext, HeldStates, EnqPC, EnqBefore, EnqAfter, Claimed
    <2>2. CASE cur[t] # End
      <3>1. /\ End' = End /\ \A n \in 1 .. End : nodes'[n].queue = nodes[n].queue
            /\ UNCHANGED <<calls, length>>
        BY <1>w, <1>9, <2>2, SegmentWrites
      <3> QED BY <1>0, <2>1, <3>1, ItemsRest
    <2>3. CASE cur[t] = End
      <3>1. UNCHANGED <<nodes, length, calls>>
        BY <1>9, <2>3 DEF DeqNext
      <3> QED BY <1>0, <1>q, <2>1, <3>1, ItemsRest
    <2> QED BY <2>2, <2>3
  <1>10. ASSUME NEW from, NEW to, Miss(t, from, to),
                <<from, to>> \in {<<"d_try", "d_next">>, <<"d_again", "d_move">>}
         PROVE  ItemInv'
    <2>1. Quiet /\ UNCHANGED <<nodes, length, calls>>
      BY <1>10, <1>m DEF HeldStates, EnqPC, EnqBefore, EnqAfter, Claimed
    <2> QED BY <1>0, <1>q, <2>1, ItemsRest
  <1>11. CASE DeqTry(t) \/ DeqAgain(t)
    BY <1>3, <1>10, <1>11 DEF DeqTry, DeqAgain
  <1> QED BY <1>1, <1>2, <1>4, <1>5, <1>6, <1>7, <1>8, <1>9, <1>11 DEF Invoke, Step

-----------------------------------------------------------------------------
(* The counters of a segment.                                              *)

One(condition) == IF condition THEN 1 ELSE 0

\* A step of t changes the number of threads at segment n by t itself.
LEMMA CountAt ==
  ASSUME NEW t \in Threads, Others(t), NEW n, NEW S, "e_put" \in S, "e_flag" \in S
  PROVE  /\ Cardinality(At(n, S)) \in Nat
         /\ Cardinality(At(n, S)') =
              Cardinality(At(n, S)) + One(t \in At(n, S)') - One(t \in At(n, S))
  <1> DEFINE old == At(n, S)
             new == {u \in Threads : pc'[u] \in S /\ cur'[u] = n}
  <1>1. old \in SUBSET Threads /\ IsFiniteSet(old) /\ Cardinality(old) \in Nat
    <2>1. old \in SUBSET Threads
      BY DEF At
    <2> QED BY <2>1, ThreadsAssumption, FS_Subset, FS_CardinalityType
  <1>2. \A u \in Threads : u # t => (u \in new <=> u \in old)
    BY DEF Others, At
  <1>3. At(n, S)' = new
    BY DEF At
  <1> HIDE DEF old, new
  <1>4. new \in SUBSET Threads
    BY DEF new
  <1>5. CASE t \in new /\ t \in old
    <2>1. new = old
      BY <1>1, <1>2, <1>4, <1>5
    <2> QED BY <1>1, <1>3, <1>5, <2>1 DEF One, old
  <1>6. CASE t \notin new /\ t \notin old
    <2>1. new = old
      BY <1>1, <1>2, <1>4, <1>6
    <2> QED BY <1>1, <1>3, <1>6, <2>1 DEF One, old
  <1>7. CASE t \in new /\ t \notin old
    <2>1. new = old \union {t}
      BY <1>1, <1>2, <1>4, <1>7
    <2>2. Cardinality(new) = Cardinality(old) + 1
      BY <1>1, <1>7, <2>1, FS_AddElement
    <2> QED BY <1>1, <1>3, <1>7, <2>2 DEF One, old
  <1>8. CASE t \notin new /\ t \in old
    <2>1. new = old \ {t}
      BY <1>1, <1>2, <1>4, <1>8
    <2>2. Cardinality(new) = Cardinality(old) - 1
      BY <1>1, <1>8, <2>1, FS_RemoveElement
    <2> QED BY <1>1, <1>3, <1>8, <2>2 DEF One, old
  <1> QED BY <1>5, <1>6, <1>7, <1>8

BalanceOf(n) ==
  /\ nodes[n].used = Len(nodes[n].queue) + Cardinality(At(n, UsedBy))
  /\ nodes[n].free + Len(nodes[n].queue) + Cardinality(At(n, HeldBy)) = Capacity

\* Two sums of a counter, regrouped.
LEMMA UsedSum ==
  \A l, c, d, p, q \in Int : (l + c) + (d + p - q) = (l + d) + (c + p - q)
  OBVIOUS

\* The books of one segment stay balanced if the step enters all it does.
LEMMA BalanceNode ==
  ASSUME LooseType, NEW t \in Threads, Others(t), NEW n \in 1 .. End, BalanceOf(n),
         Capacity' = Capacity, NEW du \in Int, NEW df \in Int, NEW dl \in Int,
         nodes'[n].used = nodes[n].used + du, nodes'[n].free = nodes[n].free + df,
         Len(nodes'[n].queue) = Len(nodes[n].queue) + dl,
         du = dl + One(t \in At(n, UsedBy)') - One(t \in At(n, UsedBy)),
         df + dl + One(t \in At(n, HeldBy)') - One(t \in At(n, HeldBy)) = 0
  PROVE  BalanceOf(n)'
  <1>1. /\ nodes[n].used \in Int /\ nodes[n].free \in Int /\ Len(nodes[n].queue) \in Nat
    BY NodeFacts, LenProperties
  <1>2. /\ Cardinality(At(n, UsedBy)) \in Nat
        /\ Cardinality(At(n, UsedBy)') =
             Cardinality(At(n, UsedBy)) + One(t \in At(n, UsedBy)') - One(t \in At(n, UsedBy))
    BY CountAt DEF UsedBy
  <1>3. /\ Cardinality(At(n, HeldBy)) \in Nat
        /\ Cardinality(At(n, HeldBy)') =
             Cardinality(At(n, HeldBy)) + One(t \in At(n, HeldBy)') - One(t \in At(n, HeldBy))
    BY CountAt DEF HeldBy
  <1>4. /\ One(t \in At(n, UsedBy)') \in Int /\ One(t \in At(n, UsedBy)) \in Int
        /\ One(t \in At(n, HeldBy)') \in Int /\ One(t \in At(n, HeldBy)) \in Int
    BY DEF One
  <1>c. Capacity \in Int
    BY StartFacts DEF LooseType
  <1> DEFINE u == nodes[n].used
             f == nodes[n].free
             l == Len(nodes[n].queue)
             cu == Cardinality(At(n, UsedBy))
             cf == Cardinality(At(n, HeldBy))
             u1 == One(t \in At(n, UsedBy)')
             u0 == One(t \in At(n, UsedBy))
             f1 == One(t \in At(n, HeldBy)')
             f0 == One(t \in At(n, HeldBy))
  <1>b. /\ u \in Int /\ f \in Int /\ l \in Int /\ cu \in Int /\ cf \in Int
        /\ u1 \in Int /\ u0 \in Int /\ f1 \in Int /\ f0 \in Int
        /\ u = l + cu /\ f + l + cf = Capacity
        /\ du = dl + u1 - u0 /\ df + dl + f1 - f0 = 0
    BY <1>1, <1>2, <1>3, <1>4 DEF BalanceOf
  <1> HIDE DEF u, f, l, cu, cf, u1, u0, f1, f0
  <1>d. u + du = (l + dl) + (cu + u1 - u0) /\ (f + df) + (l + dl) + (cf + f1 - f0) = Capacity
    <2>1. u + du = (l + dl) + (cu + u1 - u0)
      <3>1. u \in Int /\ l \in Int /\ cu \in Int /\ u1 \in Int /\ u0 \in Int
        BY <1>b
      <3>2. u = l + cu /\ du = dl + u1 - u0
        BY <1>b
      <3>3. (l + cu) + (dl + u1 - u0) = (l + dl) + (cu + u1 - u0)
        BY <3>1, UsedSum
      <3> QED BY <3>2, <3>3, Zenon
    <2>2. (f + df) + (l + dl) + (cf + f1 - f0) = Capacity
      BY <1>b, <1>c
    <2> QED BY <2>1, <2>2
  <1>5. nodes'[n].used = Len(nodes'[n].queue) + Cardinality(At(n, UsedBy)')
    BY <1>2, <1>d, Zenon DEF u, l, cu, u1, u0
  <1>6. nodes'[n].free + Len(nodes'[n].queue) + Cardinality(At(n, HeldBy)') = Capacity
    BY <1>3, <1>d, Zenon DEF f, l, cf, f1, f0
  <1> QED BY <1>5, <1>6 DEF BalanceOf

\* The books of a segment that neither the step nor t touches stay balanced.
LEMMA BalanceSame ==
  ASSUME NEW t \in Threads, Others(t), NEW n, BalanceOf(n),
         Capacity' = Capacity, nodes'[n] = nodes[n],
         t \in At(n, UsedBy)' <=> t \in At(n, UsedBy),
         t \in At(n, HeldBy)' <=> t \in At(n, HeldBy)
  PROVE  BalanceOf(n)'
  <1>1. \A u \in Threads : u # t =>
          /\ cur'[u] = cur[u]
          /\ pc'[u] \in UsedBy <=> pc[u] \in UsedBy
          /\ pc'[u] \in HeldBy <=> pc[u] \in HeldBy
    BY DEF Others, UsedBy, HeldBy
  <1>2. At(n, UsedBy)' = At(n, UsedBy) /\ At(n, HeldBy)' = At(n, HeldBy)
    BY <1>1 DEF At
  <1> QED BY <1>2 DEF BalanceOf

\* A step that leaves the segments alone, and what t has of their counters.
LEMMA BalanceRest ==
  ASSUME LooseType, Balanced, NEW t \in Threads, Others(t), Capacity' = Capacity, UNCHANGED nodes,
         pc[t] \in UsedBy <=> pc'[t] \in UsedBy,
         pc[t] \in HeldBy <=> pc'[t] \in HeldBy,
         pc'[t] \in UsedBy \union HeldBy => cur'[t] = cur[t]
  PROVE  Balanced'
  <1>1. End' = End
    BY DEF End
  <1>2. ASSUME NEW n \in 1 .. End PROVE BalanceOf(n)'
    <2>1. BalanceOf(n)
      BY DEF Balanced, BalanceOf
    <2>2. /\ t \in At(n, UsedBy)' <=> t \in At(n, UsedBy)
          /\ t \in At(n, HeldBy)' <=> t \in At(n, HeldBy)
      BY DEF At
    <2> QED BY <2>1, <2>2, BalanceSame
  <1> QED BY <1>1, <1>2 DEF Balanced, BalanceOf

\* A step on the segment that t works on.
LEMMA BalanceWork ==
  ASSUME LooseType, Balanced, NEW t \in Threads, Others(t), Capacity' = Capacity,
         NEW q, NEW c, NEW r, NEW du \in Int, NEW df \in Int, NEW dl \in Int,
         Writes(t, q, c, r, nodes[cur[t]].used + du, nodes[cur[t]].free + df),
         Len(q) = Len(nodes[cur[t]].queue) + dl,
         cur'[t] = cur[t] \/ pc'[t] \notin UsedBy \union HeldBy,
         du = dl + One(pc'[t] \in UsedBy) - One(pc[t] \in UsedBy),
         df + dl + One(pc'[t] \in HeldBy) - One(pc[t] \in HeldBy) = 0
  PROVE  Balanced'
  <1>1. End' = End
    BY DEF Writes
  <1>2. ASSUME NEW n \in 1 .. End, n = cur[t] PROVE BalanceOf(n)'
    <2>1. BalanceOf(n) /\ nodes'[n].used = nodes[n].used + du /\ nodes'[n].free = nodes[n].free + df
          /\ Len(nodes'[n].queue) = Len(nodes[n].queue) + dl
      BY <1>2 DEF Balanced, BalanceOf, Writes
    <2>2. /\ t \in At(n, UsedBy)' <=> pc'[t] \in UsedBy
          /\ t \in At(n, HeldBy)' <=> pc'[t] \in HeldBy
          /\ t \in At(n, UsedBy) <=> pc[t] \in UsedBy
          /\ t \in At(n, HeldBy) <=> pc[t] \in HeldBy
      BY <1>2 DEF At
    <2>3. /\ du = dl + One(t \in At(n, UsedBy)') - One(t \in At(n, UsedBy))
          /\ df + dl + One(t \in At(n, HeldBy)') - One(t \in At(n, HeldBy)) = 0
      BY <2>2 DEF One
    <2> QED BY <2>1, <2>3, BalanceNode
  <1>3. ASSUME NEW n \in 1 .. End, n # cur[t] PROVE BalanceOf(n)'
    <2>1. BalanceOf(n) /\ nodes'[n] = nodes[n]
      BY <1>3 DEF Balanced, BalanceOf, Writes
    <2>2. /\ t \notin At(n, UsedBy)' /\ t \notin At(n, HeldBy)'
          /\ t \notin At(n, UsedBy) /\ t \notin At(n, HeldBy)
      BY <1>3 DEF At
    <2> QED BY <2>1, <2>2, BalanceSame
  <1> QED BY <1>1, <1>2, <1>3 DEF Balanced, BalanceOf

\* The books of a new segment, where no thread is yet, are balanced.
LEMMA BalanceLinked ==
  ASSUME LooseType, Balanced, NEW t \in Threads, Others(t), Capacity' = Capacity,
         End' = End + 1, \A m \in 1 .. End : nodes'[m] = nodes[m],
         Len(nodes'[End + 1].queue) = 1,
         nodes'[End + 1].used = 1, nodes'[End + 1].free = Capacity - 1,
         pc[t] \notin UsedBy \union HeldBy, pc'[t] \notin UsedBy \union HeldBy, cur'[t] = cur[t]
  PROVE  Balanced'
  <1>0. End \in Nat /\ Capacity \in Nat
    BY NodeFacts, StartFacts DEF LooseType
  <1>1. ASSUME NEW n \in 1 .. End PROVE BalanceOf(n)'
    <2>1. BalanceOf(n)
      BY DEF Balanced, BalanceOf
    <2>2. /\ t \notin At(n, UsedBy)' /\ t \notin At(n, HeldBy)'
          /\ t \notin At(n, UsedBy) /\ t \notin At(n, HeldBy)
      BY DEF At
    <2> QED BY <2>1, <2>2, BalanceSame
  <1>2. ASSUME NEW n \in 1 .. End', n \notin 1 .. End PROVE BalanceOf(n)'
    <2>1. n = End + 1
      BY <1>0, <1>2
    <2>2. \A u \in Threads : cur'[u] # n
      <3>1. \A u \in Threads : cur'[u] = cur[u] /\ cur[u] \in 0 .. End
        BY DEF Others, LooseType, LocalType
      <3> QED BY <1>0, <2>1, <3>1
    <2>3. At(n, UsedBy)' = {} /\ At(n, HeldBy)' = {}
      BY <2>2 DEF At
    <2>4. /\ nodes'[n].used = 1 + 0
          /\ nodes'[n].free + 1 + 0 = Capacity
      BY <1>0, <2>1
    <2> QED BY <2>1, <2>3, <2>4, FS_EmptySet DEF BalanceOf
  <1> QED BY <1>1, <1>2 DEF Balanced, BalanceOf

\* Every step of a thread enters in the books what it takes and gives back.
LEMMA BalanceStep ==
  ASSUME LooseType, Pointers, Numbered, Balanced, NEW t \in Threads, Invoke(t) \/ Step(t)
  PROVE  Balanced'
  <1>0. /\ Others(t) /\ LocalType /\ Capacity' = Capacity /\ Capacity \in Int
        /\ cur[t] # Null => cur[t] \in 1 .. End
    <2>1. Others(t)
      BY OthersStep DEF LooseType
    <2>2. start' = start
      BY ListTypeStep DEF ListStep
    <2> QED BY <2>1, <2>2, SameStart, StartFacts, NodeFacts DEF LooseType
  <1>s. pc[t] \notin {"idle", "e_tail", "d_head"} =>
          /\ nodes[cur[t]].queue \in Seq(1 .. MaxItem) /\ Len(nodes[cur[t]].queue) \in Int
          /\ nodes[cur[t]].used \in Int /\ nodes[cur[t]].free \in Int
    BY <1>0, NodeFacts, LenProperties DEF Pointers
  <1>m. ASSUME NEW from, NEW to, Miss(t, from, to)
        PROVE  pc[t] = from /\ pc'[t] = to /\ cur'[t] = cur[t] /\ UNCHANGED nodes
    BY <1>m DEF Miss, local, list
  <1> DEFINE s == nodes[cur[t]]
             Entered(du, df, dl) ==
               /\ du = dl + One(pc'[t] \in UsedBy) - One(pc[t] \in UsedBy)
               /\ df + dl + One(pc'[t] \in HeldBy) - One(pc[t] \in HeldBy) = 0
             Quiet == /\ pc[t] \in UsedBy <=> pc'[t] \in UsedBy
                      /\ pc[t] \in HeldBy <=> pc'[t] \in HeldBy
                      /\ pc'[t] \in UsedBy \union HeldBy => cur'[t] = cur[t]
             Same == cur'[t] = cur[t] \/ pc'[t] \notin UsedBy \union HeldBy
  <1>w. ASSUME NEW q, NEW c, NEW r, NEW du \in Int, NEW df \in Int, NEW dl \in Int,
               Writes(t, q, c, r, s.used + du, s.free + df),
               Len(q) = Len(s.queue) + dl, Entered(du, df, dl), Same
        PROVE  Balanced'
    BY <1>0, <1>w, BalanceWork
  <1> HIDE DEF s
  <1>z. pc[t] \notin {"idle", "e_tail", "d_head"} =>
          /\ s.used + 0 = s.used /\ s.free + 0 = s.free /\ Len(s.queue) + 0 = Len(s.queue)
          /\ s.used + (-1) = s.used - 1 /\ s.free + (-1) = s.free - 1
    BY <1>s DEF s
  <1>i. 0 \in Int /\ 1 \in Int /\ -1 \in Int
    OBVIOUS
  <1> USE DEF LocalType, Goto, Return, local, list
  <1>1. CASE EnqUsed(t)
    <2>1. Entered(1, 0, 0) /\ Same /\ pc[t] = "e_used"
      BY <1>0, <1>1 DEF EnqUsed, UsedBy, HeldBy, One
    <2>2. Writes(t, s.queue, s.closed, s.refilled, s.used + 1, s.free + 0)
      BY <1>1, <1>z, <2>1, SegmentWrites DEF s
    <2>l. Len(s.queue) = Len(s.queue) + 0
      BY <1>z, <2>1
    <2> HIDE DEF Entered, Same
    <2> QED BY <1>i, <1>w, <2>1, <2>2, <2>l, Zenon
  <1>2. CASE EnqUndo(t) \/ EnqGiveUsed(t) \/ DeqUsed(t)
    <2>1. Entered(-1, 0, 0) /\ Same /\ pc[t] \in {"e_undo", "g_used", "d_used"}
      BY <1>0, <1>2 DEF EnqUndo, EnqGiveUsed, DeqUsed, UsedBy, HeldBy, One
    <2>2. Writes(t, s.queue, s.closed, s.refilled, s.used + (-1), s.free + 0)
      BY <1>2, <1>z, <2>1, SegmentWrites DEF s
    <2>l. Len(s.queue) = Len(s.queue) + 0
      BY <1>z, <2>1
    <2> HIDE DEF Entered, Same
    <2> QED BY <1>i, <1>w, <2>1, <2>2, <2>l, Zenon
  <1>3. CASE EnqFree(t)
    <2>1. pc[t] = "e_free" /\ Same
      BY <1>0, <1>3 DEF EnqFree, UsedBy, HeldBy
    <2>2. CASE s.free > 0
      <3>1. Entered(0, -1, 0)
        BY <1>0, <1>3, <2>2 DEF EnqFree, UsedBy, HeldBy, One, s
      <3>2. Writes(t, s.queue, s.closed, s.refilled, s.used + 0, s.free + (-1))
        BY <1>3, <2>2, <1>z, <2>1, SegmentWrites DEF s
      <3>l. Len(s.queue) = Len(s.queue) + 0
        BY <1>z, <2>1
      <3> HIDE DEF Entered, Same
      <3> QED BY <1>i, <1>w, <2>1, <3>1, <3>2, <3>l, Zenon
    <2>3. CASE ~(s.free > 0)
      <3>1. Entered(0, 0, 0)
        BY <1>0, <1>3, <2>3 DEF EnqFree, UsedBy, HeldBy, One, s
      <3>2. Writes(t, s.queue, s.closed, s.refilled, s.used + 0, s.free + 0)
        BY <1>3, <2>3, <1>z, <2>1, SegmentWrites DEF s
      <3>l. Len(s.queue) = Len(s.queue) + 0
        BY <1>z, <2>1
      <3> HIDE DEF Entered, Same
      <3> QED BY <1>i, <1>w, <2>1, <3>1, <3>2, <3>l, Zenon
    <2> QED BY <2>2, <2>3
  <1>4. CASE EnqFlag(t) \/ EnqSettle(t)
    <2>1. Entered(0, 0, 0) /\ Same /\ pc[t] \in {"e_flag", "e_settle"}
      BY <1>0, <1>4 DEF EnqFlag, EnqSettle, UsedBy, HeldBy, One
    <2>2. Writes(t, s.queue, s.closed, s.refilled, s.used + 0, s.free + 0)
      BY <1>4, <1>z, <2>1, SegmentWrites DEF s
    <2>l. Len(s.queue) = Len(s.queue) + 0
      BY <1>z, <2>1
    <2> HIDE DEF Entered, Same
    <2> QED BY <1>i, <1>w, <2>1, <2>2, <2>l, Zenon
  <1>5. CASE EnqPut(t)
    <2>1. Entered(0, 0, 1) /\ Same /\ pc[t] = "e_put"
      BY <1>0, <1>5 DEF EnqPut, UsedBy, HeldBy, One
    <2>i. item[t] \in 1 .. MaxItem /\ item[t] # NoItem
      BY <2>1, StartFacts DEF Numbered, EnqPC, LooseType, NoItem
    <2>2. Writes(t, Append(s.queue, item[t]), s.closed, s.refilled, s.used + 0, s.free + 0)
      BY <1>5, <2>i, <1>z, <2>1, SegmentWrites DEF s
    <2>3. Len(Append(s.queue, item[t])) = Len(s.queue) + 1
      BY <1>s, <2>1, <2>i, AppendProperties DEF s
    <2> HIDE DEF Entered, Same
    <2> QED BY <1>i, <1>w, <2>1, <2>2, <2>3, Zenon
  <1>6. CASE EnqFinal(t)
    <2>1. Entered(0, 0, 0) /\ Same /\ pc[t] = "e_final"
      BY <1>0, <1>6 DEF EnqFinal, UsedBy, HeldBy, One
    <2>2. Writes(t, s.queue, TRUE, s.refilled, s.used + 0, s.free + 0)
      BY <1>6, <1>z, <2>1, SegmentWrites DEF s
    <2>l. Len(s.queue) = Len(s.queue) + 0
      BY <1>z, <2>1
    <2> HIDE DEF Entered, Same
    <2> QED BY <1>i, <1>w, <2>1, <2>2, <2>l, Zenon
  <1>7. CASE EnqGiveFree(t) \/ DeqFree(t)
    <2>1. Entered(0, 1, 0) /\ Same /\ pc[t] \in {"g_free", "d_free"}
      BY <1>0, <1>7 DEF EnqGiveFree, DeqFree, UsedBy, HeldBy, One
    <2>2. Writes(t, s.queue, s.closed, s.refilled, s.used + 0, s.free + 1)
      BY <1>7, <1>z, <2>1, SegmentWrites DEF s
    <2>l. Len(s.queue) = Len(s.queue) + 0
      BY <1>z, <2>1
    <2> HIDE DEF Entered, Same
    <2> QED BY <1>i, <1>w, <2>1, <2>2, <2>l, Zenon
  <1>8. ASSUME NEW from \in {"d_try", "d_again"}, Claim(t, from) PROVE Balanced'
    <2>1. Entered(0, 0, -1) /\ Same /\ pc[t] = from /\ s.queue # <<>>
      BY <1>0, <1>8 DEF Claim, UsedBy, HeldBy, One, s
    <2>2. Writes(t, Tail(s.queue), s.closed, s.refilled, s.used + 0, s.free + 0)
      <3>1. Claim(t, "d_try") \/ Claim(t, "d_again")
        BY <1>8
      <3> QED BY <3>1, <1>z, <2>1, SegmentWrites DEF s
    <2>3. Len(Tail(s.queue)) = Len(s.queue) + (-1)
      BY <1>s, <2>1, HeadTailProperties DEF s
    <2> HIDE DEF Entered, Same
    <2> QED BY <1>i, <1>w, <2>1, <2>2, <2>3, Zenon
  <1>9. CASE DeqNext(t)
    <2>1. CASE cur[t] # End
      <3>1. Entered(0, 0, 0) /\ Same /\ pc[t] = "d_next"
        BY <1>0, <1>9, <2>1 DEF DeqNext, UsedBy, HeldBy, One
      <3>2. Writes(t, s.queue, s.closed, s.refilled \/ s.closed, s.used + 0, s.free + 0)
        BY <1>9, <2>1, <1>z, <3>1, SegmentWrites DEF s
      <3>l. Len(s.queue) = Len(s.queue) + 0
        BY <1>z, <3>1
      <3> HIDE DEF Entered, Same
      <3> QED BY <1>i, <1>w, <3>1, <3>2, <3>l, Zenon
    <2>2. CASE cur[t] = End
      <3>1. Quiet /\ UNCHANGED nodes
        BY <1>0, <1>9, <2>2 DEF DeqNext, UsedBy, HeldBy
      <3> QED BY <1>0, <3>1, BalanceRest
    <2> QED BY <2>1, <2>2
  <1>10. CASE EnqLink(t)
    <2>1. CASE nodes' = Append(nodes, NewSegment(<<item[t]>>)) /\ Goto(t, "e_link", "e_fix")
      <3>1. /\ UNCHANGED cur /\ pc[t] = "e_link"
            /\ pc[t] \notin UsedBy \union HeldBy /\ pc'[t] \notin UsedBy \union HeldBy
        BY <1>0, <1>10, <2>1 DEF EnqLink, UsedBy, HeldBy
      <3>2. item[t] \in 1 .. MaxItem
        BY <3>1, StartFacts DEF Numbered, EnqPC, LooseType
      <3>3. /\ End' = End + 1 /\ \A m \in 1 .. End : nodes'[m] = nodes[m]
            /\ Len(nodes'[End + 1].queue) = 1
            /\ nodes'[End + 1].used = 1 /\ nodes'[End + 1].free = Capacity - 1
        <4> DEFINE i == item[t]
        <4>1. i \in 1 .. MaxItem /\ nodes' = Append(nodes, NewSegment(<<i>>))
          BY <2>1, <3>2
        <4> HIDE DEF i
        <4> QED BY <4>1, LinkedNode, StoredOne
      <3> QED BY <1>0, <3>1, <3>3, BalanceLinked
    <2>2. CASE Goto(t, "e_link", "e_tail") /\ UNCHANGED <<list, length, local, calls>>
      <3>1. Quiet /\ UNCHANGED nodes
        BY <1>0, <2>2 DEF UsedBy, HeldBy
      <3> QED BY <1>0, <3>1, BalanceRest
    <2> QED BY <1>10, <2>1, <2>2 DEF EnqLink
  <1>11. CASE EnqCall(t) \/ DeqCall(t) \/ EnqTail(t) \/ EnqNext(t) \/ EnqFix(t) \/ DeqHead(t)
              \/ DeqMove(t) \/ DeqLen(t)
    <2>1. Quiet /\ UNCHANGED nodes
      BY <1>0, <1>11 DEF EnqCall, DeqCall, Call, EnqTail, EnqNext, EnqFix, DeqHead, DeqMove, DeqLen,
         SafeLoad, UsedBy, HeldBy
    <2> QED BY <1>0, <2>1, BalanceRest
  <1>12. ASSUME NEW from, NEW to, Miss(t, from, to),
                <<from, to>> \in {<<"d_try", "d_next">>, <<"d_again", "d_move">>}
         PROVE  Balanced'
    <2>1. Quiet /\ UNCHANGED nodes
      BY <1>12, <1>m DEF UsedBy, HeldBy
    <2> QED BY <1>0, <2>1, BalanceRest
  <1>13. CASE DeqTry(t) \/ DeqAgain(t)
    BY <1>8, <1>12, <1>13 DEF DeqTry, DeqAgain
  <1> QED BY <1>1, <1>2, <1>3, <1>4, <1>5, <1>6, <1>7, <1>9, <1>10, <1>11, <1>13 DEF Invoke, Step

-----------------------------------------------------------------------------
(* Segments that are left for good.                                        *)

CloseInv == RefilledClosed /\ PassedClosed /\ RetriedRefilled /\ GivenUp

\* How a thread comes to add to a segment, to appending to it, to a second
\* attempt, and to moving head on.
LEMMA WayStep ==
  ASSUME LooseType, Pointers, NEW t \in Threads, Invoke(t) \/ Step(t)
  PROVE  /\ pc'[t] \in Adding => cur'[t] = cur[t] /\ (pc[t] \in Adding \/ cur[t] = End)
         /\ pc'[t] = "e_put" => cur'[t] = cur[t] /\ ~nodes[cur[t]].closed
         /\ pc'[t] = "d_again" => DeqNext(t) /\ cur[t] # End /\ cur'[t] = cur[t]
         /\ pc'[t] = "d_move" => Miss(t, "d_again", "d_move") /\ cur'[t] = cur[t]
         /\ \A n \in retired' : n \in retired \/ (pc[t] = "d_move" /\ cur[t] = n)
  <1> DEFINE Goal ==
         /\ pc'[t] \in Adding => cur'[t] = cur[t] /\ (pc[t] \in Adding \/ cur[t] = End)
         /\ pc'[t] = "e_put" => cur'[t] = cur[t] /\ ~nodes[cur[t]].closed
         /\ pc'[t] = "d_again" => DeqNext(t) /\ cur[t] # End /\ cur'[t] = cur[t]
         /\ pc'[t] = "d_move" => Miss(t, "d_again", "d_move") /\ cur'[t] = cur[t]
         /\ \A n \in retired' : n \in retired \/ (pc[t] = "d_move" /\ cur[t] = n)
  <1>0. LocalType
    BY DEF LooseType
  <1> USE DEF LocalType, Goto, Return, local, memory, OnSegment, Adding
  <1>1. CASE EnqCall(t) \/ DeqCall(t) \/ EnqTail(t) \/ DeqHead(t)
    BY <1>0, <1>1 DEF EnqCall, DeqCall, Call, EnqTail, DeqHead, SafeLoad
  <1>2. CASE EnqNext(t) \/ EnqLink(t) \/ EnqFix(t)
    BY <1>0, <1>2 DEF EnqNext, EnqLink, EnqFix
  <1>3. CASE EnqUsed(t) \/ EnqUndo(t) \/ EnqFree(t)
    BY <1>0, <1>3 DEF EnqUsed, EnqUndo, EnqFree
  <1>4. CASE EnqFlag(t)
    BY <1>0, <1>4 DEF EnqFlag
  <1>5. CASE EnqPut(t)
    BY <1>0, <1>5 DEF EnqPut
  <1>6. CASE EnqSettle(t) \/ EnqFinal(t)
    BY <1>0, <1>6 DEF EnqSettle, EnqFinal
  <1>7. CASE EnqGiveUsed(t) \/ EnqGiveFree(t) \/ DeqUsed(t) \/ DeqFree(t)
    BY <1>0, <1>7 DEF EnqGiveUsed, EnqGiveFree, DeqUsed, DeqFree
  <1>8. CASE DeqMove(t) \/ DeqLen(t)
    BY <1>0, <1>8 DEF DeqMove, DeqLen
  <1>9. CASE DeqNext(t)
    <2>1. /\ pc'[t] \in {"idle", "d_again"}
          /\ pc'[t] = "d_again" => cur[t] # End /\ cur'[t] = cur[t]
          /\ retired' = retired
      BY <1>0, <1>9 DEF DeqNext
    <2> QED BY <1>9, <2>1
  <1>10. ASSUME NEW from, Claim(t, from) PROVE Goal
    <2>1. pc'[t] = "d_used" /\ retired' = retired
      BY <1>0, <1>10 DEF Claim
    <2> QED BY <2>1
  <1>11. ASSUME NEW from, NEW to, Miss(t, from, to),
                <<from, to>> \in {<<"d_try", "d_next">>, <<"d_again", "d_move">>}
         PROVE  Goal
    <2>1. pc'[t] = to /\ retired' = retired /\ cur'[t] = cur[t]
      BY <1>0, <1>11 DEF Miss
    <2> QED BY <1>11, <2>1
  <1>12. CASE DeqTry(t) \/ DeqAgain(t)
    BY <1>10, <1>11, <1>12 DEF DeqTry, DeqAgain
  <1> HIDE DEF Goal
  <1>13. Goal
    BY <1>1, <1>2, <1>3, <1>4, <1>5, <1>6, <1>7, <1>8, <1>9, <1>12 DEF Invoke, Step, Goal
  <1> QED BY <1>13 DEF Goal

\* What a step does to the items and flags of a segment.
LEMMA FlagStep ==
  ASSUME LooseType, Pointers, Numbered, NEW t \in Threads, Invoke(t) \/ Step(t),
         NEW n \in 1 .. End
  PROVE  /\ nodes[n].queue = <<>> /\ nodes'[n].queue # <<>> => pc[t] = "e_put" /\ cur[t] = n
         /\ nodes'[n].refilled => nodes[n].refilled \/ nodes[n].closed
  <1> DEFINE s == nodes[cur[t]]
             Goal ==
               /\ nodes[n].queue = <<>> /\ nodes'[n].queue # <<>> => pc[t] = "e_put" /\ cur[t] = n
               /\ nodes'[n].refilled => nodes[n].refilled \/ nodes[n].closed
  <1>q. ASSUME UNCHANGED nodes PROVE Goal
    BY <1>q
  <1>w. ASSUME NEW q, NEW c, NEW r, NEW u, NEW f, Writes(t, q, c, r, u, f),
               s.queue = <<>> /\ q # <<>> => pc[t] = "e_put",
               r => s.refilled \/ s.closed
        PROVE  Goal
    <2>1. CASE n = cur[t]
      BY <1>w, <2>1 DEF Writes
    <2>2. CASE n # cur[t]
      BY <2>2, <1>w DEF Writes
    <2> QED BY <2>1, <2>2
  <1>v. ASSUME NEW c, NEW u, NEW f, Writes(t, s.queue, c, s.refilled, u, f) PROVE Goal
    BY <1>v, <1>w
  <1> SUFFICES Goal
    OBVIOUS
  <1> HIDE DEF Goal
  <1>1. CASE EnqCall(t) \/ DeqCall(t) \/ EnqTail(t) \/ EnqNext(t) \/ EnqFix(t) \/ DeqHead(t)
             \/ DeqMove(t) \/ DeqLen(t)
    <2>1. UNCHANGED nodes
      BY <1>1 DEF EnqCall, DeqCall, Call, EnqTail, EnqNext, EnqFix, DeqHead, DeqMove, DeqLen, list
    <2> QED BY <1>q, <2>1
  <1>2. CASE EnqUsed(t) \/ EnqUndo(t) \/ EnqGiveUsed(t) \/ DeqUsed(t) \/ EnqFlag(t)
             \/ EnqSettle(t) \/ EnqFinal(t) \/ EnqGiveFree(t) \/ DeqFree(t)
    BY <1>v, <1>2, SegmentWrites, Zenon
  <1>3. CASE EnqFree(t)
    BY <1>v, <1>3, SegmentWrites, Zenon
  <1>4. CASE EnqPut(t)
    <2>1. item[t] # NoItem /\ pc[t] = "e_put"
      BY <1>4 DEF EnqPut, Goto, EnqPC, Numbered, NoItem
    <2>2. Writes(t, Append(s.queue, item[t]), s.closed, s.refilled, s.used, s.free)
      BY <1>4, <2>1, SegmentWrites
    <2> QED BY <1>w, <2>1, <2>2
  <1>5. ASSUME NEW from, Claim(t, from), from \in {"d_try", "d_again"} PROVE Goal
    <2>1. s.queue # <<>> /\ (Claim(t, "d_try") \/ Claim(t, "d_again"))
      BY <1>5 DEF Claim
    <2>2. Writes(t, Tail(s.queue), s.closed, s.refilled, s.used, s.free)
      BY <2>1, SegmentWrites
    <2> QED BY <1>w, <2>1, <2>2
  <1>6. ASSUME NEW from, NEW to, Miss(t, from, to) PROVE Goal
    <2>1. UNCHANGED nodes
      BY <1>6 DEF Miss, list
    <2> QED BY <1>q, <2>1
  <1>7. CASE DeqTry(t) \/ DeqAgain(t)
    BY <1>5, <1>6, <1>7 DEF DeqTry, DeqAgain
  <1>8. CASE DeqNext(t)
    <2>1. CASE cur[t] = End
      BY <1>q, <1>8, <2>1 DEF DeqNext, list
    <2>2. CASE cur[t] # End
      <3>1. Writes(t, s.queue, s.closed, s.refilled \/ s.closed, s.used, s.free)
        BY <1>8, <2>2, SegmentWrites
      <3> QED BY <1>w, <3>1
    <2> QED BY <2>1, <2>2
  <1>9. CASE EnqLink(t)
    <2>1. CASE nodes' = Append(nodes, NewSegment(<<item[t]>>))
      <3>1. item[t] \in 1 .. MaxItem
        BY <1>9, StartFacts DEF EnqLink, Goto, EnqPC, Numbered, LooseType
      <3>2. nodes'[n] = nodes[n]
        <4> DEFINE i == item[t]
        <4>1. i \in 1 .. MaxItem /\ nodes' = Append(nodes, NewSegment(<<i>>))
          BY <2>1, <3>1
        <4> HIDE DEF i
        <4> QED BY <4>1, LinkedNode
      <3> QED BY <3>2 DEF Goal
    <2>2. CASE UNCHANGED list
      BY <1>q, <2>2 DEF list
    <2> QED BY <1>9, <2>1, <2>2 DEF EnqLink
  <1> QED BY <1>1, <1>2, <1>3, <1>4, <1>7, <1>8, <1>9 DEF Invoke, Step

\* No thread begins to add to a segment that has a successor, nor to append
\* to one that is closed.
LEMMA AddersStep ==
  ASSUME LooseType, Pointers, NEW t \in Threads, Invoke(t) \/ Step(t), NEW n
  PROVE  /\ n # End => At(n, Adding)' \subseteq At(n, Adding)
         /\ nodes[n].closed => At(n, {"e_put"})' \subseteq At(n, {"e_put"})
  <1>1. Others(t)
    BY OthersStep DEF LooseType
  <1>2. /\ pc'[t] \in Adding => cur'[t] = cur[t] /\ (pc[t] \in Adding \/ cur[t] = End)
        /\ pc'[t] = "e_put" => cur'[t] = cur[t] /\ ~nodes[cur[t]].closed
    BY WayStep
  <1>3. \A u \in Threads : u # t =>
          /\ cur'[u] = cur[u]
          /\ pc'[u] \in Adding => pc[u] \in Adding
          /\ pc'[u] = "e_put" => pc[u] = "e_put"
    BY <1>1 DEF Others, Adding
  <1> QED BY <1>2, <1>3 DEF At

\* A segment stays exhausted once it has a successor.
LEMMA ExhaustedStep ==
  ASSUME LooseType, Pointers, Numbered, NEW t \in Threads, Invoke(t) \/ Step(t),
         NEW n \in 1 .. End, n # End, Exhausted(n)
  PROVE  Exhausted(n)'
  <1>1. /\ At(n, Adding)' \subseteq At(n, Adding)
        /\ nodes[n].closed => At(n, {"e_put"})' \subseteq At(n, {"e_put"}) /\ nodes'[n].closed
    BY AddersStep, ListTypeStep DEF ListStep
  <1>2. ~(pc[t] = "e_put" /\ cur[t] = n)
    BY DEF Exhausted, At, Adding
  <1>3. nodes'[n].queue = <<>>
    BY <1>2, FlagStep DEF Exhausted
  <1> QED BY <1>1, <1>3 DEF Exhausted

\* The list gets longer only by a node that an enqueue links.
LEMMA LinkStep ==
  ASSUME LooseType, Pointers, Numbered, NEW t \in Threads, Invoke(t) \/ Step(t), End' # End
  PROVE  /\ End' = End + 1 /\ cur' = cur /\ pc'[t] \notin Adding
         /\ nodes'[End + 1].closed = FALSE /\ nodes'[End + 1].refilled = FALSE
  <1>0. LocalType
    BY DEF LooseType
  <1>q. nodes' = nodes => End' = End
    BY DEF End
  <1>w. ASSUME NEW q, NEW c, NEW r, NEW u, NEW f, Writes(t, q, c, r, u, f) PROVE End' = End
    BY <1>w DEF Writes
  <1>1. ~(EnqCall(t) \/ DeqCall(t) \/ EnqTail(t) \/ EnqNext(t) \/ EnqFix(t) \/ DeqHead(t)
             \/ DeqMove(t) \/ DeqLen(t))
    BY <1>q DEF EnqCall, DeqCall, Call, EnqTail, EnqNext, EnqFix, DeqHead, DeqMove, DeqLen, list
  <1>2. ~(EnqUsed(t) \/ EnqUndo(t) \/ EnqGiveUsed(t) \/ DeqUsed(t) \/ EnqFlag(t)
             \/ EnqSettle(t) \/ EnqFinal(t) \/ EnqGiveFree(t) \/ DeqFree(t))
    BY <1>w, SegmentWrites
  <1>3. ~EnqFree(t)
    BY <1>w, SegmentWrites
  <1>4. ~EnqPut(t)
    <2>1. EnqPut(t) => item[t] # NoItem
      BY DEF EnqPut, Goto, EnqPC, Numbered, NoItem
    <2> QED BY <1>w, <2>1, SegmentWrites
  <1>5. ~(DeqTry(t) \/ DeqAgain(t))
    <2>1. ~(Claim(t, "d_try") \/ Claim(t, "d_again"))
      BY <1>w, SegmentWrites
    <2> QED BY <1>q, <2>1 DEF DeqTry, DeqAgain, Miss, list
  <1>6. ~DeqNext(t)
    <2>1. DeqNext(t) /\ cur[t] = End => nodes' = nodes
      BY DEF DeqNext, list
    <2>2. ~(DeqNext(t) /\ cur[t] # End)
      BY <1>w, SegmentWrites
    <2> QED BY <1>q, <2>1, <2>2
  <1>7. EnqLink(t)
    BY <1>1, <1>2, <1>3, <1>4, <1>5, <1>6 DEF Invoke, Step
  <1>8. /\ nodes' = Append(nodes, NewSegment(<<item[t]>>))
        /\ pc[t] = "e_link" /\ pc' = [pc EXCEPT ![t] = "e_fix"] /\ cur' = cur
    BY <1>q, <1>7 DEF EnqLink, Goto, list, local
  <1>9. item[t] \in 1 .. MaxItem
    BY <1>8, StartFacts DEF EnqPC, Numbered, LooseType
  <1>10. /\ End' = End + 1
         /\ nodes'[End + 1].closed = FALSE /\ nodes'[End + 1].refilled = FALSE
    <2> DEFINE i == item[t]
    <2>1. i \in 1 .. MaxItem /\ nodes' = Append(nodes, NewSegment(<<i>>))
      BY <1>8, <1>9
    <2> HIDE DEF i
    <2> QED BY <2>1, LinkedNode
  <1>11. pc'[t] = "e_fix"
    BY <1>0, <1>8 DEF LocalType
  <1> QED BY <1>8, <1>10, <1>11 DEF Adding

\* A second attempt that fails was made at a segment with nothing in it, and
\* left no ticket that an insertion could still use.
LEMMA MissedAgain ==
  ASSUME LooseType, Pointers, SettlesHere, RefilledClosed, ~Crowded, NEW t \in Threads,
         Miss(t, "d_again", "d_move"), NEW n, n = cur[t],
         nodes[n].refilled \/ At(n, Adding) = {}
  PROVE  Exhausted(n)'
  <1>1. n \in 1 .. End /\ n # End
    BY NodeFacts DEF Miss, Pointers
  <1>2. nodes' = nodes /\ cur' = cur /\ End' = End
    BY DEF Miss, list, local, End
  <1>3. CASE nodes[n].refilled
    <2>1. nodes[n].queue = <<>>
      BY <1>3 DEF Miss, MayMiss
    <2>2. nodes[n].closed
      BY <1>1, <1>3 DEF RefilledClosed
    <2>3. At(n, {"e_put"})' = {}
      BY <1>2, <1>3 DEF Miss, At
    <2> QED BY <1>2, <2>1, <2>2, <2>3 DEF Exhausted, At
  <1>4. CASE ~nodes[n].refilled
    <2>1. At(n, Adding) = {} /\ Settled(n) = {}
      BY <1>4 DEF Miss, MayMiss
    <2>2. nodes[n].queue = <<>>
      <3> SUFFICES ASSUME nodes[n].queue # <<>> PROVE FALSE
        OBVIOUS
      <3> DEFINE q == nodes[n].queue
                 i == Head(q)
      <3>1. q \in Seq(1 .. MaxItem)
        BY <1>1, NodeFacts
      <3>2. Stored(q, i) /\ i \in 1 .. MaxItem
        BY <3>1, StoredTail
      <3>3. i \in ToSet(nodes[n].queue)
        BY <3>2 DEF Stored, ToSet
      <3> HIDE DEF i
      <3>4. PICK u \in Threads : pc[u] = "e_settle" /\ item[u] = i
        BY <2>1, <3>3, Zenon DEF Settled
      <3>5. n = cur[u]
        BY <1>1, <3>2, <3>4 DEF SettlesHere
      <3>6. u \in At(n, Adding)
        BY <3>4, <3>5 DEF At, Adding
      <3> QED BY <2>1, <3>6
    <2>3. At(n, Adding)' \subseteq At(n, Adding)
      BY <1>2 DEF Miss, At, Adding
    <2> QED BY <1>2, <2>1, <2>2, <2>3 DEF Exhausted, At
  <1> QED BY <1>3, <1>4

\* Every step of a thread keeps what is known of segments that are left.
LEMMA CloseStep ==
  ASSUME LooseType, PointerInv, ItemInv, CloseInv, NEW t \in Threads, Invoke(t) \/ Step(t),
         spilled' = (spilled \/ LeftOpen)
  PROVE  CloseInv'
  <1>0. /\ End \in Nat /\ End' \in Nat /\ End <= End' /\ LocalType /\ Pointers /\ Numbered /\ SettlesHere
        /\ \A n \in 1 .. End : nodes[n].closed => nodes'[n].closed
        /\ \A n \in 1 .. End : nodes[n].refilled => nodes'[n].refilled
        /\ Others(t)
    BY NodeFacts, ListTypeStep, OthersStep DEF LooseType, PointerInv, ItemInv, ListStep
  <1>s. start' = start
    BY <1>0, ListTypeStep DEF ListStep
  <1>1. ASSUME NEW u \in Threads, pc'[u] \in {"d_again", "d_move"}
        PROVE  /\ cur'[u] = cur[u] /\ cur[u] \in 1 .. End /\ cur[u] # End
               /\ u # t => pc'[u] = pc[u]
    <2>1. CASE u = t
      <3>1. /\ cur'[u] = cur[u]
            /\ (DeqNext(u) /\ cur[u] # End) \/ Miss(u, "d_again", "d_move")
        BY <1>0, <1>1, <2>1, WayStep
      <3>2. pc[u] = "d_again" \/ (pc[u] = "d_next" /\ cur[u] # End)
        BY <3>1 DEF DeqNext, Miss, Goto, Return
      <3>3. cur[u] # Null /\ (pc[u] = "d_again" => cur[u] < End)
        BY <1>0, <3>2 DEF Pointers
      <3>4. cur[u] \in 1 .. End
        BY <3>3, NodeFacts
      <3> QED BY <1>0, <2>1, <3>1, <3>2, <3>3, <3>4
    <2>2. CASE u # t
      <3>1. cur'[u] = cur[u] /\ pc'[u] = pc[u]
        BY <1>0, <1>1, <2>2 DEF Others
      <3>2. cur[u] # Null /\ cur[u] < End
        BY <1>0, <1>1, <3>1 DEF Pointers
      <3>3. cur[u] \in 1 .. End
        BY <3>2, NodeFacts
      <3> QED BY <1>0, <3>1, <3>2, <3>3
    <2> QED BY <2>1, <2>2
  <1>2. \A n \in retired : n \in 1 .. End /\ n # End
    BY <1>0 DEF PointerInv, HeadKept, LooseType
  <1>n. ASSUME NEW n \in 1 .. End', n \notin 1 .. End
        PROVE  nodes'[n].closed = FALSE /\ nodes'[n].refilled = FALSE /\ n = End' /\ End' = End + 1
    <2>1. End' # End
      BY <1>0, <1>n
    <2>2. End' = End + 1 /\ nodes'[End + 1].closed = FALSE /\ nodes'[End + 1].refilled = FALSE
      BY <1>0, <2>1, LinkStep
    <2> QED BY <1>0, <1>n, <2>2
  <1>3. RefilledClosed'
    <2>1. ASSUME NEW n \in 1 .. End, nodes'[n].refilled PROVE nodes'[n].closed
      BY <1>0, <2>1, FlagStep DEF CloseInv, RefilledClosed
    <2> QED BY <1>n, <2>1 DEF RefilledClosed
  <1>4. ASSUME ~spilled' PROVE ~spilled /\ ~LeftOpen
    BY <1>4
  <1>p. Promised' <=> ~spilled' /\ ~Crowded
    BY <1>s, SameCrowd DEF Promised
  <1>5. PassedClosed'
    <2> SUFFICES ASSUME ~spilled', NEW n \in 1 .. End', n < End'
                 PROVE  nodes'[n].closed \/ At(n, Adding)' = {}
      BY DEF PassedClosed
    <2>1. n \in 1 .. End
      <3>1. n \notin 1 .. End => n = End'
        BY <1>n
      <3> QED BY <1>0, <3>1
    <2>2. CASE n # End
      <3>1. nodes[n].closed \/ At(n, Adding) = {}
        BY <1>0, <1>4, <2>1, <2>2 DEF CloseInv, PassedClosed
      <3> QED BY <1>0, <2>1, <2>2, <3>1, AddersStep
    <2>3. CASE n = End
      <3>1. End' # End
        BY <1>0, <2>3
      <3>2. nodes[n].closed \/ At(n, Adding) = {}
        BY <1>4, <2>3, <3>1 DEF LeftOpen, At
      <3>3. At(n, Adding)' \subseteq At(n, Adding)
        BY <1>0, <3>1, LinkStep DEF At, Others, Adding
      <3> QED BY <1>0, <2>1, <3>2, <3>3
    <2> QED BY <2>2, <2>3
  <1>6. RetriedRefilled'
    <2>1. ASSUME ~spilled', NEW u \in Threads, pc'[u] = "d_again", NEW n, n = cur[u]
          PROVE  nodes'[n].refilled \/ At(n, Adding)' = {}
      <3>1. n \in 1 .. End /\ n # End /\ n < End
        BY <1>0, <1>1, <2>1
      <3>2. At(n, Adding)' \subseteq At(n, Adding)
        BY <1>0, <3>1, AddersStep
      <3>3. CASE u # t
        <4>1. nodes[n].refilled \/ At(n, Adding) = {}
          BY <1>1, <1>4, <2>1, <3>3 DEF CloseInv, RetriedRefilled
        <4> QED BY <1>0, <3>1, <3>2, <4>1
      <3>4. CASE u = t
        <4>1. DeqNext(t) /\ cur[t] # End
          BY <1>0, <2>1, <3>4, WayStep
        <4>2. nodes[n].closed \/ At(n, Adding) = {}
          BY <1>4, <2>1, <3>1 DEF CloseInv, PassedClosed
        <4>3. nodes'[n].refilled = (nodes[n].refilled \/ nodes[n].closed)
          BY <1>0, <2>1, <3>4, <4>1, SegmentWrites DEF Writes
        <4> QED BY <3>2, <4>2, <4>3
      <3> QED BY <3>3, <3>4
    <2> QED BY <1>1, <2>1 DEF RetriedRefilled, At
  <1>7. GivenUp'
    <2>1. ASSUME Promised', NEW n \in 1 .. End, n # End, Exhausted(n) PROVE Exhausted(n)'
      BY <1>0, <2>1, ExhaustedStep
    <2>2. ASSUME Promised', NEW u \in Threads, pc[u] = "d_move", NEW n, n = cur[u]
          PROVE  n \in 1 .. End /\ Exhausted(n)'
      <3>1. n \in 1 .. End /\ n # End
        BY <1>0, <2>2, NodeFacts DEF Pointers
      <3>2. Exhausted(n)
        BY <1>4, <1>p, <2>2 DEF CloseInv, GivenUp, Promised
      <3> QED BY <2>1, <2>2, <3>1, <3>2
    <2>3. ASSUME Promised', NEW u \in Threads, pc'[u] = "d_move", NEW n, n = cur[u]
          PROVE  Exhausted(n)'
      <3>1. CASE u # t
        BY <1>1, <2>2, <2>3, <3>1
      <3>2. CASE u = t
        <4>1. Miss(t, "d_again", "d_move") /\ pc[t] = "d_again"
          BY <1>0, <2>3, <3>2, WayStep DEF Miss
        <4>2. nodes[n].refilled \/ At(n, Adding) = {}
          BY <1>4, <1>p, <2>3, <3>2, <4>1 DEF CloseInv, RetriedRefilled
        <4> QED BY <1>0, <1>p, <2>3, <3>2, <4>1, <4>2, MissedAgain DEF CloseInv
      <3> QED BY <3>1, <3>2
    <2>4. ASSUME Promised', NEW n \in retired' PROVE Exhausted(n)'
      <3>1. n \in retired \/ (pc[t] = "d_move" /\ cur[t] = n)
        BY <1>0, WayStep
      <3>2. CASE n \in retired
        <4>1. Exhausted(n)
          BY <1>4, <1>p, <2>4, <3>2 DEF CloseInv, GivenUp, Promised
        <4> QED BY <1>2, <2>1, <2>4, <3>2, <4>1
      <3>3. CASE pc[t] = "d_move" /\ cur[t] = n
        BY <2>2, <2>4, <3>3
      <3> QED BY <3>1, <3>2, <3>3
    <2> DEFINE Where(n, steps) == {u \in Threads : pc'[u] \in steps /\ cur'[u] = n}
               Given(n) == /\ nodes'[n].queue = <<>>
                           /\ \/ nodes'[n].closed /\ Where(n, {"e_put"}) = {}
                              \/ Where(n, Adding) = {}
    <2>5. /\ \A u \in Threads : \A n : n = cur[u] /\ Promised' /\ pc'[u] = "d_move" => Given(n)
          /\ \A n \in retired' : Promised' => Given(n)
      BY <2>3, <2>4 DEF Exhausted, At
    <2>6. /\ \A u \in Threads : pc'[u] = "d_move" => cur'[u] = cur[u]
          /\ \A u \in Threads : Promised' /\ pc'[u] = "d_move" => Given(cur'[u])
      <3> HIDE DEF Given
      <3> QED BY <1>1, <2>5
    <2> QED BY <2>5, <2>6 DEF GivenUp, Exhausted, At
  <1> QED BY <1>3, <1>5, <1>6, <1>7 DEF CloseInv

-----------------------------------------------------------------------------
(* The invariant is inductive.                                             *)

\* The parts of IInv.
LEMMA Parts ==
  IInv <=> /\ LooseType /\ PointerInv /\ ItemInv /\ Balanced /\ CloseInv
           /\ spilled \in BOOLEAN
  BY DEF IInv, PointerInv, ItemInv, CloseInv

\* A step of a thread, with what the history records of it.
LEMMA ThreadStep ==
  ASSUME IInv, NEW t \in Threads, Invoke(t) \/ Step(t), spilled' = (spilled \/ LeftOpen)
  PROVE  IInv'
  <1>0. /\ LooseType /\ PointerInv /\ ItemInv /\ Balanced /\ CloseInv /\ spilled \in BOOLEAN
        /\ Pointers /\ Numbered /\ Gone
    BY Parts DEF PointerInv, ItemInv
  <1>1. ListStep /\ LocalType'
    <2>1. ListStep
      BY <1>0, ListTypeStep
    <2> QED BY <1>0, <2>1, LocalTypeStep DEF ListStep
  <1>2. LooseType'
    <2>1. MaxItem' = MaxItem /\ LooseSegment' = LooseSegment
      BY <1>1, SameStart DEF ListStep
    <2>2. End \in Nat /\ freed \subseteq 1 .. End /\ start \in Starts
          /\ dropped \subseteq 1 .. End
      BY <1>0, NodeFacts DEF LooseType
    <2>3. freed' \subseteq 1 .. End' /\ dropped' \subseteq 1 .. End'
      BY <1>1, <2>2 DEF ListStep
    <2> QED BY <1>1, <2>1, <2>2, <2>3 DEF LooseType, ListStep
  <1>3. ~Dropped
    BY <1>0, NotDropped
  <1>4. PointerInv'
    BY <1>0, <1>1, <1>3, PointerWork, PointerMove DEF Invoke, Step
  <1>5. ItemInv' /\ Balanced' /\ CloseInv'
    BY <1>0, ItemStep, BalanceStep, CloseStep
  <1>6. spilled' \in BOOLEAN
    BY <1>0 DEF LeftOpen
  <1>7. (/\ LooseType /\ PointerInv /\ ItemInv /\ Balanced /\ CloseInv
         /\ spilled \in BOOLEAN)'
    BY <1>2, <1>4, <1>5, <1>6
  <1> QED BY <1>7 DEF IInv, PointerInv, ItemInv, CloseInv

\* What the counters and the segments left behind depend on.
LEMMA SameClose ==
  ASSUME UNCHANGED <<start, nodes, retired, pc, cur, spilled>>, Balanced, CloseInv
  PROVE  Balanced' /\ CloseInv'
  <1>1. End' = End /\ Capacity' = Capacity
    BY SameStart DEF End
  <1>2. ASSUME NEW n, NEW S PROVE At(n, S)' = At(n, S)
    BY DEF At
  <1>3. Balanced'
    BY <1>1, <1>2 DEF Balanced
  <1>4. RefilledClosed' /\ PassedClosed'
    BY <1>1, <1>2 DEF CloseInv, RefilledClosed, PassedClosed
  <1>5. RetriedRefilled'
    BY DEF CloseInv, RetriedRefilled, At
  <1>6. ASSUME NEW n PROVE Exhausted(n)' <=> Exhausted(n)
    BY <1>2 DEF Exhausted
  <1>p. Promised' = Promised
    BY SameCrowd DEF Promised
  <1>7. GivenUp'
    <2>1. \A n \in retired : Promised => Exhausted(n)'
      BY <1>6 DEF CloseInv, GivenUp
    <2>2. ASSUME Promised, NEW t \in Threads, pc[t] = "d_move", NEW n, n = cur[t]
          PROVE  Exhausted(n)'
      BY <1>6, <2>2 DEF CloseInv, GivenUp
    <2> QED BY <1>p, <2>1, <2>2 DEF GivenUp, Exhausted, At
  <1> QED BY <1>3, <1>4, <1>5, <1>7 DEF CloseInv

\* The domain and the drop of the queue change neither the list nor a thread.
LEMMA MemoryStep ==
  ASSUME IInv, DropQueue \/ \E n \in retired : Reclaim(n), spilled' = (spilled \/ LeftOpen)
  PROVE  IInv'
  <1>0. LooseType /\ PointerInv /\ ItemInv /\ Balanced /\ CloseInv /\ spilled \in BOOLEAN
    BY Parts
  <1>1. /\ UNCHANGED <<start, nodes, head, tail, retired, length, pc, item, cur, size, calls>>
        /\ dropped' \subseteq 1 .. End /\ freed' \subseteq 1 .. End
    <2>1. End \in Nat /\ head \in 1 .. End /\ retired \subseteq 1 .. End /\ freed \subseteq 1 .. End
          /\ dropped \subseteq 1 .. End
      BY <1>0, NodeFacts DEF LooseType
    <2>2. CASE DropQueue
      BY <2>1, <2>2 DEF DropQueue, list, local
    <2>3. ASSUME NEW n \in retired, Reclaim(n)
          PROVE  /\ UNCHANGED <<start, nodes, head, tail, retired, length, pc, item, cur, size, calls>>
                 /\ dropped' \subseteq 1 .. End /\ freed' \subseteq 1 .. End
      BY <2>1, <2>3 DEF Reclaim, list, local
    <2> QED BY <2>2, <2>3
  <1>2. End' = End /\ spilled' = spilled
    BY <1>0, <1>1 DEF LeftOpen, End
  <1>3. LooseType'
    BY <1>0, <1>1, <1>2, SameStart DEF LooseType, LocalType
  <1>4. PointerInv'
    BY <1>0, PointerMemory
  <1>5. ItemInv'
    BY <1>0, <1>1, <1>2, SameStart DEF ItemInv, OneSegment, HeldApart, Numbered, SettlesHere, Counted,
       Live, Holders, Enqueuers
  <1>6. Balanced' /\ CloseInv'
    BY <1>0, <1>1, <1>2, SameClose
  <1>7. (/\ LooseType /\ PointerInv /\ ItemInv /\ Balanced /\ CloseInv
         /\ spilled \in BOOLEAN)'
    BY <1>0, <1>2, <1>3, <1>4, <1>5, <1>6
  <1> QED BY <1>7 DEF IInv, PointerInv, ItemInv, CloseInv

\* Nothing changes.
LEMMA StutterStep ==
  ASSUME IInv, UNCHANGED <<vars, history>>
  PROVE  IInv'
  <1>1. UNCHANGED <<start, nodes, head, tail, retired, freed, dropped, length, pc, item, cur, size,
                    calls, spilled>>
    BY DEF vars, history, list, memory, local
  <1>2. End' = End
    BY <1>1 DEF End
  <1>3. LooseType'
    BY <1>1, <1>2, SameStart DEF IInv, LooseType, LocalType
  <1>4. Pointers' /\ GoneAround' /\ TailLag' /\ HeadKept' /\ Sole' /\ FreedRetired' /\ Gone' /\ NoLeak'
        /\ Protected'
    BY <1>1, <1>2 DEF IInv, Pointers, GoneAround, TailLag, HeadKept, Sole, FreedRetired, Gone, NoLeak,
       Protected, Enqueuers, Dropped
  <1>5. OneSegment' /\ HeldApart' /\ Numbered' /\ SettlesHere' /\ Counted'
    BY <1>1, <1>2, SameStart DEF IInv, OneSegment, HeldApart, Numbered, SettlesHere, Counted,
       Live, Holders, Enqueuers
  <1>6. Balanced' /\ RefilledClosed' /\ PassedClosed' /\ RetriedRefilled' /\ GivenUp'
    BY <1>1, SameClose DEF IInv, CloseInv
  <1> QED BY <1>1, <1>3, <1>4, <1>5, <1>6 DEF IInv

-----------------------------------------------------------------------------
(* The queue to begin with.                                                *)

\* Quotient and remainder, and products.
LEMMA DivMod ==
  ASSUME NEW n \in Nat \ {0}, NEW t \in Nat
  PROVE  /\ t % n \in 0 .. n - 1
         /\ t \div n \in Nat
         /\ t = (t \div n) * n + (t % n)
  BY Z3

\* A product grows with its first factor ...
LEMMA ProductMonotone ==
  ASSUME NEW n \in Nat, NEW c \in Nat, NEW d \in Nat, c <= d
  PROVE  c * n \in Nat /\ d * n \in Nat /\ c * n <= d * n
  BY Z3

\* ... by the second one each time.
LEMMA ProductNext ==
  ASSUME NEW n \in Nat, NEW c \in Nat
  PROVE  (c + 1) * n = c * n + n /\ c * n \in Nat
  BY Z3

\* The number of segments that k items take, and the items of the n-th.
SegmentsOf(k) == IF k = 0 THEN 1 ELSE (k - 1) \div Capacity + 1
Length(k, n)  == Min({Capacity, k - (n - 1) * Capacity})
Items(k, n)   == [j \in 1 .. Length(k, n) |-> (n - 1) * Capacity + j]

\* The segments but the last are full, and each starts where one ended.
LEMMA SegmentBounds ==
  ASSUME Capacity \in Nat \ {0}, NEW k \in Nat
  PROVE  /\ SegmentsOf(k) \in Nat \ {0}
         /\ \A n \in 1 .. SegmentsOf(k) :
              /\ (n - 1) * Capacity \in Nat /\ (n - 1) * Capacity <= k
              /\ Length(k, n) \in 0 .. Capacity
              /\ Length(k, n) <= k - (n - 1) * Capacity
              /\ Length(k, n) = Capacity \/ Length(k, n) = k - (n - 1) * Capacity
  <1> DEFINE C == Capacity
  <1> HIDE DEF C
  <1>1. C \in Nat \ {0}
    BY DEF C
  <1>2. SegmentsOf(k) \in Nat \ {0}
    <2>1. CASE k = 0
      BY <2>1 DEF SegmentsOf
    <2>2. CASE k # 0
      <3>1. k - 1 \in Nat
        BY <2>2
      <3>2. (k - 1) \div C \in Nat
        BY <1>1, <3>1, DivMod
      <3> QED BY <2>2, <3>2 DEF SegmentsOf, C
    <2> QED BY <2>1, <2>2
  <1>3. ASSUME NEW n \in 1 .. SegmentsOf(k)
        PROVE  (n - 1) * C \in Nat /\ (n - 1) * C <= k
    <2>0. n - 1 \in Nat
      BY <1>2
    <2>1. CASE k = 0
      <3>1. n - 1 = 0
        BY <2>1 DEF SegmentsOf
      <3>2. 0 * C = 0
        BY <1>1
      <3> QED BY <2>1, <3>1, <3>2
    <2>2. CASE k # 0
      <3>1. k - 1 \in Nat
        BY <2>2
      <3> DEFINE d == (k - 1) \div C
                 r == (k - 1) % C
      <3>2. d \in Nat /\ r \in 0 .. C - 1 /\ k - 1 = d * C + r
        BY <1>1, <3>1, DivMod
      <3>3. SegmentsOf(k) = d + 1
        BY <2>2 DEF SegmentsOf, C
      <3> HIDE DEF d, r
      <3>4. n - 1 <= d
        BY <3>2, <3>3
      <3>5. (n - 1) * C \in Nat /\ d * C \in Nat /\ (n - 1) * C <= d * C
        BY <1>1, <2>0, <3>2, <3>4, ProductMonotone
      <3> QED BY <1>1, <3>2, <3>5
    <2> QED BY <2>1, <2>2
  <1>4. ASSUME NEW n \in 1 .. SegmentsOf(k)
        PROVE  /\ Length(k, n) \in 0 .. C /\ Length(k, n) <= k - (n - 1) * C
               /\ Length(k, n) = C \/ Length(k, n) = k - (n - 1) * C
    <2> DEFINE m == k - (n - 1) * C
    <2>1. m \in Nat
      BY <1>3
    <2>2. Length(k, n) = Min({C, m})
      BY DEF Length, C
    <2> HIDE DEF m
    <2>3. Min({C, m}) \in {C, m} /\ Min({C, m}) <= C /\ Min({C, m}) <= m
      BY <1>1, <2>1 DEF Min
    <2>4. /\ Length(k, n) \in 0 .. C /\ Length(k, n) <= m
          /\ Length(k, n) = C \/ Length(k, n) = m
      BY <1>1, <2>1, <2>2, <2>3
    <2> QED BY <2>4 DEF m
  <1> QED BY <1>2, <1>3, <1>4 DEF C

\* The segments' items are 1 .. k, each once, in order.
LEMMA ItemsFacts ==
  ASSUME Capacity \in Nat \ {0}, NEW k \in Nat, NEW n \in 1 .. SegmentsOf(k)
  PROVE  /\ Items(k, n) \in Seq(1 .. k) /\ Len(Items(k, n)) = Length(k, n)
         /\ NoRepeat(Items(k, n))
         /\ \A i : Stored(Items(k, n), i) <=>
                     i \in 1 .. k /\ i > (n - 1) * Capacity /\ i <= (n - 1) * Capacity + Capacity
  <1> DEFINE b == (n - 1) * Capacity
             l == Length(k, n)
             q == Items(k, n)
  <1>1. /\ b \in Nat /\ b <= k /\ l \in 0 .. Capacity /\ l <= k - b
        /\ l = Capacity \/ l = k - b
    BY SegmentBounds
  <1>2. q = [j \in 1 .. l |-> b + j]
    BY DEF Items
  <1> HIDE DEF b, l, q
  <1>3. q \in [1 .. l -> 1 .. k] /\ l \in Nat
    BY <1>1, <1>2
  <1>4. q \in Seq(1 .. k) /\ Len(q) = l /\ DOMAIN q = 1 .. l
    BY <1>3, SeqDef, LenProperties
  <1>5. NoRepeat(q)
    BY <1>1, <1>2, <1>4 DEF NoRepeat
  <1>6. ASSUME NEW i PROVE Stored(q, i) <=> i \in 1 .. k /\ i > b /\ i <= b + Capacity
    <2>1. Stored(q, i) <=> \E j \in 1 .. l : i = b + j
      BY <1>2, <1>4 DEF Stored
    <2>2. ASSUME i \in 1 .. k, i > b, i <= b + Capacity PROVE \E j \in 1 .. l : i = b + j
      <3>1. i - b \in 1 .. l /\ i = b + (i - b)
        BY <1>1, <2>2
      <3> QED BY <3>1
    <2>3. ASSUME NEW j \in 1 .. l, i = b + j PROVE i \in 1 .. k /\ i > b /\ i <= b + Capacity
      BY <1>1, <2>3
    <2> QED BY <2>1, <2>2, <2>3
  <1> QED BY <1>4, <1>5, <1>6 DEF b, l, q

\* Each of them is in one segment.
LEMMA ItemsCover ==
  ASSUME Capacity \in Nat \ {0}, NEW k \in Nat, NEW i \in 1 .. k
  PROVE  /\ \E n \in 1 .. SegmentsOf(k) : Stored(Items(k, n), i)
         /\ \A m, n \in 1 .. SegmentsOf(k) :
              Stored(Items(k, m), i) /\ Stored(Items(k, n), i) => m = n
  <1> DEFINE C == Capacity
  <1>1. \E n \in 1 .. SegmentsOf(k) : Stored(Items(k, n), i)
    <2> DEFINE d == (i - 1) \div C
               r == (i - 1) % C
               e == (k - 1) \div C
               s == (k - 1) % C
    <2>1. /\ d \in Nat /\ r \in 0 .. C - 1 /\ i - 1 = d * C + r
          /\ e \in Nat /\ s \in 0 .. C - 1 /\ k - 1 = e * C + s
      <3>1. i - 1 \in Nat /\ k - 1 \in Nat /\ C \in Nat \ {0}
        OBVIOUS
      <3> HIDE DEF C
      <3> QED BY <3>1, DivMod
    <2>2. SegmentsOf(k) = e + 1
      BY DEF SegmentsOf
    <2> HIDE DEF d, r, e, s, C
    <2>3. C \in Nat
      BY DEF C
    <2>4. d <= e
      <3> SUFFICES ASSUME e + 1 <= d PROVE FALSE
        BY <2>1
      <3>1. (e + 1) * C <= d * C /\ d * C \in Nat
        BY <2>1, <2>3, ProductMonotone
      <3>2. (e + 1) * C = e * C + C /\ e * C \in Nat
        BY <2>1, <2>3, ProductNext
      <3> QED BY <2>1, <2>3, <3>1, <3>2
    <2>5. d + 1 \in 1 .. SegmentsOf(k) /\ (d + 1) - 1 = d
      BY <2>1, <2>2, <2>4
    <2>6. d * C \in Nat
      BY <2>1, <2>3, ProductNext
    <2>7. i > d * C /\ i <= d * C + C
      BY <2>1, <2>3, <2>6
    <2> DEFINE n == d + 1
    <2>8. n \in 1 .. SegmentsOf(k) /\ n - 1 = d
      BY <2>5
    <2> HIDE DEF n
    <2>9. i > (n - 1) * Capacity /\ i <= (n - 1) * Capacity + Capacity
      BY <2>7, <2>8 DEF C
    <2>10. Stored(Items(k, n), i)
      BY <2>8, <2>9, ItemsFacts
    <2> QED BY <2>8, <2>10
  <1>2. ASSUME NEW m \in 1 .. SegmentsOf(k), NEW n \in 1 .. SegmentsOf(k), m < n,
               Stored(Items(k, m), i), Stored(Items(k, n), i)
        PROVE  FALSE
    <2>1. i <= (m - 1) * Capacity + Capacity /\ i > (n - 1) * Capacity
      BY <1>2, ItemsFacts
    <2>2. m - 1 \in Nat /\ n - 1 \in Nat /\ (m - 1) + 1 <= n - 1
      BY <1>2, SegmentBounds
    <2> DEFINE a == m - 1
               b == n - 1
    <2>3. a \in Nat /\ b \in Nat /\ a + 1 <= b /\ i <= a * C + C /\ i > b * C
      BY <2>1, <2>2
    <2> HIDE DEF a, b, C
    <2>4. C \in Nat
      BY DEF C
    <2>5. (a + 1) * C <= b * C /\ b * C \in Nat /\ (a + 1) * C = a * C + C /\ a * C \in Nat
      BY <2>3, <2>4, ProductMonotone, ProductNext
    <2> QED BY <2>3, <2>4, <2>5
  <1>3. ASSUME NEW m \in 1 .. SegmentsOf(k), NEW n \in 1 .. SegmentsOf(k),
               Stored(Items(k, m), i), Stored(Items(k, n), i)
        PROVE  m = n
    <2>1. ~(m < n) /\ ~(n < m)
      BY <1>2, <1>3
    <2> QED BY <2>1, SegmentBounds
  <1> QED BY <1>1, <1>3

\* The segments the queue starts with.
LEMMA FirstNodes ==
  ASSUME Init
  PROVE  /\ Capacity \in Nat \ {0} /\ start.filled \in Nat /\ MaxItem \in Nat /\ start.filled <= MaxItem
         /\ End = SegmentsOf(start.filled) /\ End \in Nat \ {0}
         /\ nodes \in Seq(LooseSegment) /\ DOMAIN nodes = 1 .. End
         /\ \A n \in 1 .. End :
              /\ nodes[n].queue = Items(start.filled, n)
              /\ nodes[n].refilled = FALSE
              /\ nodes[n].used = Length(start.filled, n)
              /\ nodes[n].free = Capacity - Length(start.filled, n)
  <1> DEFINE k == start.filled
  <1>1. /\ Capacity \in Nat \ {0} /\ k \in Nat /\ MaxItem \in Nat /\ k <= MaxItem
        /\ nodes = Filled(k)
    BY StartFacts DEF Init, MaxItem
  <1> HIDE DEF k
  <1> DEFINE N == SegmentsOf(k)
             Node(n) == [NewSegment(Items(k, n)) EXCEPT
                           !.closed = Len(Items(k, n)) = Capacity /\ (n = 1 \/ Capacity > 1)]
  <1>2. Filled(k) = [n \in 1 .. N |-> Node(n)]
    BY DEF Filled, SegmentsOf, Items, Length
  <1>3. N \in Nat \ {0}
    BY <1>1, SegmentBounds
  <1>4. ASSUME NEW n \in 1 .. N
        PROVE  /\ Node(n) \in LooseSegment
               /\ Node(n).queue = Items(k, n) /\ Node(n).refilled = FALSE
               /\ Node(n).used = Length(k, n) /\ Node(n).free = Capacity - Length(k, n)
    <2> DEFINE q == Items(k, n)
               c == Len(q) = Capacity /\ (n = 1 \/ Capacity > 1)
    <2>1. q \in Seq(1 .. k) /\ Len(q) = Length(k, n) /\ Length(k, n) \in Nat
      BY <1>1, ItemsFacts, SegmentBounds
    <2>2. q \in Seq(1 .. MaxItem)
      <3>1. 1 .. k \subseteq 1 .. MaxItem
        BY <1>1
      <3> HIDE DEF q
      <3> QED BY <2>1, <3>1, SeqMonotonic
    <2>3. c \in BOOLEAN
      OBVIOUS
    <2> HIDE DEF q, c
    <2>b. Capacity - Length(k, n) \in Nat
      BY <1>1, SegmentBounds
    <2>4. /\ NewSegment(q) \in LooseSegment
          /\ NewSegment(q).queue = q /\ NewSegment(q).refilled = FALSE
          /\ NewSegment(q).used = Length(k, n) /\ NewSegment(q).free = Capacity - Length(k, n)
      BY <1>1, <2>1, <2>2, <2>b DEF NewSegment, LooseSegment
    <2> DEFINE s == NewSegment(q)
    <2>5. Node(n) = [s EXCEPT !.closed = c]
      BY DEF q, c
    <2> HIDE DEF s, Node
    <2>6. s \in LooseSegment /\ s.queue = q /\ s.refilled = FALSE
          /\ s.used = Length(k, n) /\ s.free = Capacity - Length(k, n)
      BY <2>4 DEF s
    <2>7. /\ Node(n) \in LooseSegment
          /\ Node(n).queue = s.queue /\ Node(n).refilled = s.refilled
          /\ Node(n).used = s.used /\ Node(n).free = s.free
      BY <2>3, <2>5, <2>6 DEF LooseSegment
    <2> QED BY <2>6, <2>7 DEF q
  <1> HIDE DEF N, Node
  <1>5. nodes = [n \in 1 .. N |-> Node(n)] /\ nodes \in [1 .. N -> LooseSegment]
    BY <1>1, <1>2, <1>4
  <1>6. nodes \in Seq(LooseSegment) /\ Len(nodes) = N /\ DOMAIN nodes = 1 .. N
    BY <1>3, <1>5, SeqDef, LenProperties
  <1>7. \A n \in 1 .. N : nodes[n] = Node(n)
    BY <1>5
  <1> QED BY <1>1, <1>3, <1>4, <1>6, <1>7 DEF k, N, End

\* IInv holds of the queue to begin with.
LEMMA InitInv ==
  ASSUME HInit
  PROVE  IInv
  <1> DEFINE k == start.filled
  <1>0. Init /\ spilled = FALSE
    BY DEF HInit
  <1>1. /\ Capacity \in Nat \ {0} /\ k \in Nat /\ MaxItem \in Nat /\ k <= MaxItem
        /\ End = SegmentsOf(k) /\ End \in Nat \ {0}
        /\ nodes \in Seq(LooseSegment) /\ DOMAIN nodes = 1 .. End
        /\ \A n \in 1 .. End :
              /\ nodes[n].queue = Items(k, n)
              /\ nodes[n].refilled = FALSE
              /\ nodes[n].used = Length(k, n)
              /\ nodes[n].free = Capacity - Length(k, n)
    BY <1>0, FirstNodes
  <1>2. /\ start \in Starts /\ head = 1 /\ tail = End
        /\ retired = {} /\ freed = {} /\ dropped = {}
        /\ length = k /\ calls = k
        /\ pc = [t \in Threads |-> "idle"]
        /\ item = [t \in Threads |-> 0] /\ cur = [t \in Threads |-> 0] /\ size = [t \in Threads |-> 0]
    BY <1>0 DEF Init, NoItem, Null
  <1>3. \A t \in Threads : pc[t] = "idle" /\ cur[t] = Null /\ item[t] = 0
    BY <1>2 DEF Null
  <1>4. LooseType
    <2>1. LocalType
      BY <1>1, <1>2 DEF LocalType
    <2>2. 1 \in 1 .. End /\ End \in 1 .. End /\ k \in 0 .. MaxItem
      <3> HIDE DEF k
      <3> QED BY <1>1
    <2> QED BY <1>1, <1>2, <2>1, <2>2 DEF LooseType
  <1>5. Pointers /\ GoneAround /\ TailLag /\ HeadKept
    <2>1. Pointers /\ GoneAround
      BY <1>3 DEF Pointers, GoneAround, EnqPC, DeqPC
    <2>2. TailLag /\ HeadKept
      BY <1>1, <1>2 DEF TailLag, HeadKept
    <2> QED BY <2>1, <2>2
  <1>6. Enqueuers = {} /\ Holders = {} /\ \A n, S : "idle" \notin S => At(n, S) = {}
    BY <1>3 DEF Enqueuers, Holders, At, EnqPC, EnqBefore, EnqAfter, Claimed
  <1>7. Sole /\ FreedRetired /\ Gone /\ NoLeak /\ Protected
    BY <1>2, <1>3, <1>6 DEF Sole, FreedRetired, Gone, NoLeak, Protected, Dropped
  <1>8. ASSUME NEW n \in 1 .. End
        PROVE  /\ NoRepeat(nodes[n].queue) /\ Len(nodes[n].queue) = Length(k, n)
               /\ \A i : Stored(nodes[n].queue, i) => i \in 1 .. k
    BY <1>1, <1>8, ItemsFacts
  <1>9. OneSegment
    <2>1. ASSUME NEW m \in 1 .. End, NEW n \in 1 .. End, NEW i,
                 Stored(nodes[m].queue, i), Stored(nodes[n].queue, i)
          PROVE  m = n
      <3>1. i \in 1 .. k
        BY <1>8, <2>1
      <3> HIDE DEF k
      <3>2. Stored(Items(k, m), i) /\ Stored(Items(k, n), i) /\ SegmentsOf(k) = End
        BY <1>1, <2>1
      <3> QED BY <1>1, <3>1, <3>2, ItemsCover
    <2> QED BY <1>8, <2>1 DEF OneSegment
  <1>10. HeldApart /\ SettlesHere
    BY <1>3, <1>6 DEF HeldApart, SettlesHere
  <1>11. Numbered
    <2>1. \A n \in 1 .. End : \A i \in 1 .. MaxItem : Stored(nodes[n].queue, i) => i <= calls
      BY <1>2, <1>8
    <2>2. \A t \in Threads : pc[t] \notin EnqPC \union Claimed
      BY <1>3 DEF EnqPC, Claimed
    <2> QED BY <1>6, <2>1, <2>2 DEF Numbered
  <1>12. Balanced
    <2> SUFFICES ASSUME NEW n \in 1 .. End PROVE BalanceOf(n)
      BY DEF Balanced, BalanceOf
    <2>1. At(n, UsedBy) = {} /\ At(n, HeldBy) = {}
      <3>1. "idle" \notin UsedBy /\ "idle" \notin HeldBy
        BY DEF UsedBy, HeldBy
      <3> QED BY <1>6, <3>1
    <2>2. Length(k, n) \in 0 .. Capacity
      BY <1>1, SegmentBounds
    <2>3. /\ nodes[n].used = Length(k, n) + 0
          /\ nodes[n].free + Length(k, n) + 0 = Capacity
      BY <1>1, <2>2
    <2> QED BY <1>8, <2>1, <2>3, FS_EmptySet DEF BalanceOf
  <1>13. Counted
    <2>1. Live = 1 .. k
      <3>1. \A i \in 1 .. MaxItem : i \in Live <=> \E n \in 1 .. End : Stored(nodes[n].queue, i)
        BY <1>6 DEF Live
      <3>2. ASSUME NEW i \in 1 .. k PROVE \E n \in 1 .. End : Stored(nodes[n].queue, i)
        <4> HIDE DEF k
        <4>1. \E n \in 1 .. SegmentsOf(k) : Stored(Items(k, n), i)
          BY <1>1, ItemsCover
        <4> QED BY <1>1, <4>1
      <3>3. Live \subseteq 1 .. MaxItem /\ 1 .. k \subseteq 1 .. MaxItem
        BY <1>1 DEF Live
      <3> QED BY <1>8, <3>1, <3>2, <3>3
    <2>2. Cardinality(1 .. k) = k
      <3> HIDE DEF k
      <3>1. k \in Nat /\ 1 \in Int
        BY <1>1
      <3>2. Cardinality(1 .. k) = IF 1 > k THEN 0 ELSE k - 1 + 1
        BY <3>1, FS_Interval
      <3> QED BY <3>1, <3>2
    <2> QED BY <1>2, <2>1, <2>2 DEF Counted
  <1>14. RefilledClosed /\ PassedClosed /\ RetriedRefilled /\ GivenUp
    <2>1. \A n : At(n, Adding) = {}
      BY <1>6 DEF Adding
    <2> QED BY <1>1, <1>2, <1>3, <2>1 DEF RefilledClosed, PassedClosed, RetriedRefilled, GivenUp
  <1> QED BY <1>0, <1>4, <1>5, <1>7, <1>9, <1>10, <1>11, <1>12, <1>13, <1>14 DEF IInv

-----------------------------------------------------------------------------
(* The theorems.                                                           *)

\* IInv is an invariant, for all that any number of threads can do.
THEOREM Invariance == HSpec => []IInv
  <1>1. HInit => IInv
    BY InitInv
  <1>2. IInv /\ [HNext]_<<vars, history>> => IInv'
    <2> SUFFICES ASSUME IInv, [HNext]_<<vars, history>> PROVE IInv'
      OBVIOUS
    <2>1. CASE HNext
      <3>1. spilled' = (spilled \/ LeftOpen)
        BY <2>1 DEF HNext, Record
      <3>2. ASSUME NEW t \in Threads, Invoke(t) \/ Step(t) PROVE IInv'
        BY <3>1, <3>2, ThreadStep
      <3>3. CASE DropQueue \/ \E n \in retired : Reclaim(n)
        BY <3>1, <3>3, MemoryStep
      <3> QED BY <2>1, <3>2, <3>3 DEF HNext, Next
    <2>2. CASE UNCHANGED <<vars, history>>
      BY <2>2, StutterStep
    <2> QED BY <2>1, <2>2
  <1> QED BY <1>1, <1>2, PTL DEF HSpec

\* The variables keep their types: no counter of a segment ever falls below
\* zero, none of its free indices is given back twice, and the length of the
\* queue never wraps.
THEOREM TypeCorrect == HSpec => []TypeOK
  <1>1. IInv => TypeOK
    <2> SUFFICES ASSUME IInv PROVE TypeOK
      OBVIOUS
    <2>1. LooseType /\ Balanced /\ Counted
      BY DEF IInv
    <2>2. length \in Nat
      BY <2>1, LiveFinite DEF Counted
    <2>3. End \in Nat \ {0} /\ DOMAIN nodes = 1 .. End /\ nodes \in Seq(LooseSegment) /\ Len(nodes) = End
      BY <2>1, NodeFacts DEF LooseType
    <2>4. ASSUME NEW n \in 1 .. End PROVE nodes[n] \in Segment
      <3>1. nodes[n] \in LooseSegment /\ nodes[n].used \in Nat
        BY <2>1, NodeFacts, UsedNat
      <3>2. nodes[n].free \in 0 .. Capacity
        BY <2>1, FreeBounds
      <3> QED BY <3>1, <3>2 DEF LooseSegment, Segment
    <2>5. nodes \in Seq(Segment)
      <3>1. nodes \in [1 .. End -> Segment]
        BY <2>3, <2>4, SeqDef, LenProperties
      <3> QED BY <2>3, <3>1, SeqDef
    <2> QED BY <2>1, <2>2, <2>3, <2>5 DEF TypeOK, LooseType, LocalType
  <1> QED BY <1>1, Invariance, PTL

\* A segment that head has left holds nothing, as long as no segment was left
\* open behind a new one and no more than capacity + 1 dequeues are made at a
\* time, which is what the threshold of a segment withstands: the second
\* attempt of dequeue() after the refill of the threshold
\* (src/lfstd.rs:297-309) comes after every insertion that still could take
\* effect there.
THEOREM LeftEmptyCorrect == HSpec => []LeftEmpty
  <1>1. IInv => LeftEmpty
    BY DEF IInv, GivenUp, Exhausted, LeftEmpty
  <1> QED BY <1>1, Invariance, PTL

\* The length counts exactly the items that are in a segment, or with a thread
\* that is about to hand one over or has just taken one: the addition comes
\* before the enqueue and the subtraction after the dequeue
\* (src/lfstd.rs:751-774), so that it never falls below the elements there are.
THEOREM LengthCounts == HSpec => [](length = Cardinality(Live))
  <1>1. IInv => length = Cardinality(Live)
    BY DEF IInv, Counted
  <1> QED BY <1>1, Invariance, PTL

\* The items that dequeues can reach are those stored from head on.
LEMMA ReachableAt ==
  ASSUME LooseType
  PROVE  /\ \A i : i \in Reachable <=> \E n \in head .. End : Stored(nodes[n].queue, i)
         /\ Reachable \subseteq 1 .. MaxItem
  <1>1. \A i : i \in Reachable <=> \E n \in head .. End : Stored(nodes[n].queue, i)
    BY DEF Reachable, Stored, ToSet
  <1>2. ASSUME NEW n \in head .. End, NEW j \in DOMAIN nodes[n].queue
        PROVE  nodes[n].queue[j] \in 1 .. MaxItem
    <2>1. n \in 1 .. End
      BY NodeFacts DEF LooseType
    <2>2. nodes[n].queue \in Seq(1 .. MaxItem)
      BY <2>1, NodeFacts
    <2> QED BY <2>2, ElementOfSeq, LenProperties
  <1>3. Reachable \subseteq 1 .. MaxItem
    <2>1. \A i : i \in Reachable => \E n \in head .. End : \E j \in DOMAIN nodes[n].queue :
            nodes[n].queue[j] = i
      BY <1>1 DEF Stored
    <2> QED BY <1>2, <2>1
  <1> QED BY <1>1, <1>3

\* Hence len() shows no fewer elements than dequeues can still reach, and at
\* rest exactly these (src/lfstd.rs:738-774).
THEOREM LengthCoversCorrect == HSpec => []LengthCovers
  <1>1. IInv => LengthCovers
    <2> SUFFICES ASSUME IInv PROVE LengthCovers
      OBVIOUS
    <2>0. LooseType /\ End \in Nat \ {0} /\ head \in 1 .. End /\ MaxItem \in Nat
      BY NodeFacts, StartFacts DEF IInv, LooseType
    <2>1. IsFiniteSet(Live) /\ length = Cardinality(Live)
      BY <2>0, LiveFinite DEF IInv, Counted
    <2>2. /\ \A i : i \in Reachable <=> \E n \in head .. End : Stored(nodes[n].queue, i)
          /\ Reachable \subseteq 1 .. MaxItem
      BY <2>0, ReachableAt
    <2>3. Reachable \subseteq Live
      BY <2>0, <2>2 DEF Live
    <2>4. /\ IsFiniteSet(Reachable) /\ Cardinality(Reachable) <= Cardinality(Live)
          /\ Cardinality(Reachable) \in Nat /\ Cardinality(Live) \in Nat
      BY <2>1, <2>3, FS_Subset, FS_CardinalityType
    <2>5. is_empty => Reachable = {}
      <3> SUFFICES ASSUME length = 0 PROVE Reachable = {}
        BY DEF is_empty, len
      <3>1. Live = {}
        BY <2>1, FS_EmptySet
      <3> QED BY <2>3, <3>1
    <2>6. ASSUME \A t \in Threads : pc[t] = "idle", Promised
          PROVE  Live \subseteq Reachable
      <3>1. Holders = {}
        BY <2>6 DEF Holders, EnqBefore, Claimed, EnqPC
      <3>2. \A n \in 1 .. head - 1 : nodes[n].queue = <<>>
        BY <2>6 DEF IInv, GivenUp, Exhausted, HeadKept
      <3>3. \A n \in 1 .. head - 1 : \A i \in 1 .. MaxItem : ~Stored(nodes[n].queue, i)
        BY <3>2 DEF Stored
      <3> QED BY <2>0, <2>2, <3>1, <3>3 DEF Live
    <2> QED BY <2>1, <2>3, <2>4, <2>5, <2>6 DEF LengthCovers, len
  <1> QED BY <1>1, Invariance, PTL

\* tail is the last node or the one before it.
THEOREM TailLagCorrect == HSpec => []TailLag
  <1>1. IInv => TailLag
    BY DEF IInv
  <1> QED BY <1>1, Invariance, PTL

\* Exactly the segments that head moved past are retired, so each is retired
\* once.
THEOREM HeadKeptCorrect == HSpec => []HeadKept
  <1>1. IInv => HeadKept
    BY DEF IInv
  <1> QED BY <1>1, Invariance, PTL

\* No dequeue works on a node whose memory was given back, nor does a lone
\* enqueue.
THEOREM ProtectedCorrect == HSpec => []Protected
  <1>1. IInv => Protected
    BY DEF IInv
  <1> QED BY <1>1, Invariance, PTL

\* Drop frees each node that was not given to the hazard pointer domain and none
\* that was, so that each is freed by one of the two and by no more.
THEOREM NoLeakCorrect == HSpec => []NoLeak
  <1>1. IInv => NoLeak
    BY DEF IInv
  <1> QED BY <1>1, Invariance, PTL

-----------------------------------------------------------------------------
(* How often a call goes around.                                           *)

EnqWork == EnqPC \ {"e_tail", "e_next"}
DeqWork == DeqPC \ {"d_head"}

\* Where a step of a thread takes it, and the pointers.
RoundStep(t) ==
  \/ pc'[t] = "idle"
  \/ /\ pc[t] = "idle" /\ pc'[t] \in {"e_tail", "d_head"} /\ UNCHANGED <<head, tail>> /\ End' = End
  \/ pc[t] = "e_tail" /\ pc'[t] = "e_next" /\ cur'[t] = tail /\ tail' = tail /\ End' = End
  \/ pc[t] = "e_next" /\ pc'[t] = "e_used" /\ cur'[t] = cur[t] /\ cur[t] = End /\ End' = End
  \/ pc[t] = "e_next" /\ pc'[t] = "e_tail" /\ cur[t] # End /\ End' = End /\ cur[t] < tail'
  \/ pc[t] \in EnqWork /\ pc'[t] \in EnqWork /\ cur'[t] = cur[t]
  \/ pc[t] = "e_link" /\ pc'[t] = "e_tail" /\ cur[t] # End /\ tail' = tail /\ End' = End
  \/ pc[t] = "d_head" /\ pc'[t] = "d_try" /\ cur'[t] = head /\ head' = head
  \/ pc[t] \in DeqWork /\ pc'[t] \in DeqWork /\ cur'[t] = cur[t]
  \/ pc[t] = "d_move" /\ pc'[t] = "d_head" /\ cur[t] < head'

LEMMA RoundWay ==
  ASSUME LooseType, Pointers, Numbered, NEW t \in Threads, Invoke(t) \/ Step(t)
  PROVE  RoundStep(t) /\ head <= head' /\ tail <= tail'
  <1>0. /\ LocalType /\ End \in Nat /\ head \in 1 .. End /\ tail \in 1 .. End
        /\ \A u \in Threads : cur[u] \in 0 .. End
        /\ pc[t] \in EnqPC => cur[t] <= tail
        /\ pc[t] \in DeqPC => cur[t] <= head
    BY NodeFacts DEF LooseType, LocalType, Pointers
  <1>q. nodes' = nodes => End' = End
    BY DEF End
  <1>w. ASSUME NEW q, NEW c, NEW r, NEW u, NEW f, Writes(t, q, c, r, u, f)
        PROVE  UNCHANGED <<head, tail>>
    BY <1>w DEF Writes
  <1> DEFINE Moves == head <= head' /\ tail <= tail'
  <1>u. UNCHANGED <<head, tail>> => Moves
    BY <1>0
  <1> USE DEF LocalType, Goto, Return, list, local
  <1>1. CASE EnqCall(t) \/ DeqCall(t) \/ EnqTail(t) \/ DeqHead(t)
    BY <1>0, <1>q, <1>u, <1>1 DEF EnqCall, DeqCall, Call, EnqTail, DeqHead, SafeLoad, RoundStep
  <1>2. CASE EnqNext(t)
    BY <1>0, <1>q, <1>2 DEF EnqNext, RoundStep, EnqPC
  <1>3. CASE EnqLink(t)
    BY <1>0, <1>q, <1>u, <1>3 DEF EnqLink, RoundStep, EnqPC, EnqWork
  <1>4. CASE EnqFix(t)
    BY <1>0, <1>4 DEF EnqFix, RoundStep
  <1>5. CASE DeqMove(t)
    BY <1>0, <1>5 DEF DeqMove, RoundStep, DeqPC
  <1>6. CASE EnqUsed(t) \/ EnqUndo(t) \/ EnqFree(t) \/ EnqFlag(t) \/ EnqPut(t)
             \/ EnqGiveUsed(t) \/ EnqGiveFree(t)
    BY <1>0, <1>u, <1>6 DEF EnqUsed, EnqUndo, EnqFree, EnqFlag, EnqPut, EnqGiveUsed, EnqGiveFree,
       OnSegment, RoundStep, EnqWork, EnqPC
  <1>7. CASE EnqSettle(t) \/ EnqFinal(t)
    BY <1>0, <1>u, <1>7 DEF EnqSettle, EnqFinal, OnSegment, RoundStep, EnqWork, EnqPC
  <1>8. CASE DeqNext(t) \/ DeqLen(t) \/ DeqUsed(t) \/ DeqFree(t)
    BY <1>0, <1>u, <1>8 DEF DeqNext, DeqLen, DeqUsed, DeqFree, OnSegment, RoundStep, DeqWork, DeqPC
  <1>9. CASE DeqTry(t) \/ DeqAgain(t)
    <2>1. /\ pc[t] \in DeqWork /\ pc'[t] \in DeqWork /\ cur'[t] = cur[t]
          /\ UNCHANGED <<head, tail>>
      BY <1>0, <1>9 DEF DeqTry, DeqAgain, Claim, Miss, OnSegment, DeqWork, DeqPC
    <2> QED BY <1>u, <2>1 DEF RoundStep
  <1> QED BY <1>1, <1>2, <1>3, <1>4, <1>5, <1>6, <1>7, <1>8, <1>9 DEF Invoke, Step

\* What is counted of one thread.
Counts(u) ==
  /\ pc'[u] = "idle" => rounds'[u] = 0 /\ since'[u] = 0
  /\ pc'[u] # "idle" /\ GoesAround(u) => rounds'[u] = rounds[u] + 1
  /\ pc'[u] # "idle" /\ ~GoesAround(u) => rounds'[u] = rounds[u]
  /\ pc[u] = "idle" /\ pc'[u] = "e_tail" => since'[u] = End
  /\ pc[u] = "idle" /\ pc'[u] = "d_head" => since'[u] = head
  /\ pc[u] # "idle" /\ pc'[u] # "idle" => since'[u] = since[u]

LEMMA CountsOf ==
  ASSUME Count, NEW u \in Threads
  PROVE  Counts(u)
  BY DEF Count, Counts

\* RoundsInv, for one thread.
RoundsOf(u) ==
  /\ rounds[u] \in Nat /\ since[u] \in 0 .. End
  /\ pc[u] = "idle" => rounds[u] = 0
  /\ pc[u] = "e_tail" => Owed(u, tail)
  /\ pc[u] = "e_next" => Owed(u, cur[u])
  /\ pc[u] \in EnqWork => since[u] <= cur[u] /\ rounds[u] <= 2 * (cur[u] - since[u]) + 1
  /\ pc[u] = "d_head" => rounds[u] <= head - since[u]
  /\ pc[u] \in DeqWork => rounds[u] <= cur[u] - since[u]

\* A thread that is not at work keeps its count: what may be owed only grows
\* with the pointers.
LEMMA RoundsKept ==
  ASSUME NEW u \in Threads, RoundsOf(u), cur[u] \in Int, cur'[u] = cur[u],
         End \in Nat, End' \in Nat, End <= End',
         head \in Nat, head' \in Nat, head <= head', tail \in 1 .. End, tail' \in Nat, tail <= tail',
         rounds'[u] = rounds[u], pc[u] # "idle" => since'[u] = since[u],
         since'[u] \in 0 .. End', TailLag,
         pc'[u] = pc[u] \/ (pc[u] = "e_put" /\ pc'[u] = "e_flag")
  PROVE  RoundsOf(u)'
  BY DEF RoundsOf, Owed, TailLag, EnqWork, DeqWork, EnqPC, DeqPC

LEMMA RoundsWork ==
  ASSUME IInv, NEW t \in Threads, Invoke(t) \/ Step(t), Count, NEW u \in Threads, RoundsOf(u)
  PROVE  RoundsOf(u)'
  <1>0. LooseType /\ Pointers /\ Numbered /\ TailLag
    BY DEF IInv
  <1>1. /\ End \in Nat /\ head \in 1 .. End /\ tail \in 1 .. End /\ cur[u] \in 0 .. End
        /\ End' \in Nat /\ End <= End' /\ head' \in 1 .. End' /\ tail' \in 1 .. End'
    BY <1>0, NodeFacts, ListTypeStep DEF LooseType, LocalType, ListStep
  <1>2. RoundStep(t) /\ head <= head' /\ tail <= tail' /\ Others(t) /\ Counts(u)
    BY <1>0, RoundWay, OthersStep, CountsOf DEF LooseType
  <1>3. pc[u] \in {"idle"} \union EnqPC \union DeqPC
    BY <1>0 DEF LooseType, LocalType
  <1>4. CASE u # t
    <2>1. cur'[u] = cur[u] /\ (pc'[u] = pc[u] \/ (pc[u] = "e_put" /\ pc'[u] = "e_flag"))
      BY <1>2, <1>4 DEF Others
    <2>2. /\ rounds'[u] = rounds[u] /\ since'[u] \in 0 .. End'
          /\ pc[u] # "idle" => since'[u] = since[u]
      BY <1>1, <1>2, <2>1 DEF Counts, GoesAround, RoundsOf
    <2> QED BY <1>0, <1>1, <1>2, <2>1, <2>2, RoundsKept
  <1>5. CASE u = t
    <2> USE DEF EnqWork, DeqWork, EnqPC, DeqPC
    <2>1. CASE pc'[t] = "idle"
      BY <1>1, <1>2, <1>5, <2>1 DEF Counts, RoundsOf
    <2>2. CASE pc[t] = "idle" /\ pc'[t] \in {"e_tail", "d_head"} /\ UNCHANGED <<head, tail>> /\ End' = End
      <3>1. rounds'[u] = 0
        BY <1>2, <1>5, <2>2 DEF Counts, GoesAround, RoundsOf
      <3>2. CASE pc'[t] = "e_tail"
        <4>1. since'[u] = End
          BY <1>2, <1>5, <2>2, <3>2 DEF Counts
        <4> QED BY <1>0, <1>1, <1>5, <2>2, <3>1, <3>2, <4>1 DEF RoundsOf, Owed, TailLag
      <3>3. CASE pc'[t] = "d_head"
        <4>1. since'[u] = head
          BY <1>2, <1>5, <2>2, <3>3 DEF Counts
        <4> QED BY <1>1, <1>5, <2>2, <3>1, <3>3, <4>1 DEF RoundsOf
      <3> QED BY <2>2, <3>2, <3>3
    <2>3. CASE pc[t] = "e_tail" /\ pc'[t] = "e_next" /\ cur'[t] = tail /\ tail' = tail /\ End' = End
      <3>1. rounds'[u] = rounds[u] /\ since'[u] = since[u]
        BY <1>2, <1>5, <2>3 DEF Counts, GoesAround
      <3> QED BY <1>1, <1>5, <2>3, <3>1 DEF RoundsOf, Owed
    <2>4. CASE pc[t] = "e_next" /\ pc'[t] = "e_used" /\ cur'[t] = cur[t] /\ cur[t] = End /\ End' = End
      <3>1. rounds'[u] = rounds[u] /\ since'[u] = since[u]
        BY <1>2, <1>5, <2>4 DEF Counts, GoesAround
      <3> QED BY <1>1, <1>5, <2>4, <3>1 DEF RoundsOf, Owed
    <2>5. CASE pc[t] = "e_next" /\ pc'[t] = "e_tail" /\ cur[t] # End /\ End' = End /\ cur[t] < tail'
      <3>1. rounds'[u] = rounds[u] + 1 /\ since'[u] = since[u]
        BY <1>2, <1>5, <2>5 DEF Counts, GoesAround
      <3> QED BY <1>1, <1>5, <2>5, <3>1 DEF RoundsOf, Owed
    <2>6. CASE pc[t] \in EnqWork /\ pc'[t] \in EnqWork /\ cur'[t] = cur[t]
      <3>1. rounds'[u] = rounds[u] /\ since'[u] = since[u]
        BY <1>2, <1>5, <2>6 DEF Counts, GoesAround
      <3> QED BY <1>1, <1>5, <2>6, <3>1 DEF RoundsOf
    <2>7. CASE pc[t] = "e_link" /\ pc'[t] = "e_tail" /\ cur[t] # End /\ tail' = tail /\ End' = End
      <3>1. rounds'[u] = rounds[u] + 1 /\ since'[u] = since[u]
        BY <1>2, <1>5, <2>7 DEF Counts, GoesAround
      <3>2. cur[t] <= tail
        BY <1>0, <2>7 DEF Pointers
      <3> QED BY <1>1, <1>5, <2>7, <3>1, <3>2 DEF RoundsOf, Owed
    <2>8. CASE pc[t] = "d_head" /\ pc'[t] = "d_try" /\ cur'[t] = head /\ head' = head
      <3>1. rounds'[u] = rounds[u] /\ since'[u] = since[u]
        BY <1>2, <1>5, <2>8 DEF Counts, GoesAround
      <3> QED BY <1>1, <1>5, <2>8, <3>1 DEF RoundsOf
    <2>9. CASE pc[t] \in DeqWork /\ pc'[t] \in DeqWork /\ cur'[t] = cur[t]
      <3>1. rounds'[u] = rounds[u] /\ since'[u] = since[u]
        BY <1>2, <1>5, <2>9 DEF Counts, GoesAround
      <3> QED BY <1>1, <1>5, <2>9, <3>1 DEF RoundsOf
    <2>10. CASE pc[t] = "d_move" /\ pc'[t] = "d_head" /\ cur[t] < head'
      <3>1. rounds'[u] = rounds[u] + 1 /\ since'[u] = since[u]
        BY <1>2, <1>5, <2>10 DEF Counts, GoesAround
      <3> QED BY <1>1, <1>5, <2>10, <3>1 DEF RoundsOf
    <2> QED BY <1>2, <2>1, <2>2, <2>3, <2>4, <2>5, <2>6, <2>7, <2>8, <2>9, <2>10 DEF RoundStep
  <1> QED BY <1>4, <1>5

\* The domain and the drop of the queue take nobody around.
LEMMA RoundsRest ==
  ASSUME IInv, UNCHANGED <<nodes, head, tail, pc, cur>>, Count \/ UNCHANGED counters,
         NEW u \in Threads, RoundsOf(u)
  PROVE  RoundsOf(u)'
  <1>1. /\ LooseType /\ TailLag /\ End' = End
        /\ End \in Nat /\ head \in 1 .. End /\ tail \in 1 .. End /\ cur[u] \in 0 .. End
    BY NodeFacts DEF IInv, LooseType, LocalType, End
  <1>2. /\ rounds'[u] = rounds[u] /\ since'[u] \in 0 .. End'
        /\ pc[u] # "idle" => since'[u] = since[u]
    BY <1>1, CountsOf DEF Counts, GoesAround, RoundsOf, counters
  <1> QED BY <1>1, <1>2, RoundsKept

\* An enqueue goes around at most twice for each segment linked since its call,
\* and once for a tail that lags behind; a dequeue once for each segment head
\* has left since: whoever goes around does so because the call of another
\* moved the list on, and nobody waits for a thread that stalled
\* (src/lfstd.rs:184-244, 276-330).
THEOREM LockFreeCorrect == RSpec => []LockFree
  <1>1. RSpec => []IInv
    <2>1. RInit => HInit
      BY DEF RInit
    <2>2. [RNext]_<<vars, history, counters>> => [HNext]_<<vars, history>>
      BY DEF RNext
    <2> QED BY <2>1, <2>2, Invariance, PTL DEF RSpec, HSpec
  <1>2. RoundsInv <=> \A u \in Threads : RoundsOf(u)
    BY DEF RoundsInv, RoundsOf, EnqWork, DeqWork
  <1>3. RInit => RoundsInv
    <2> SUFFICES ASSUME RInit, NEW u \in Threads PROVE RoundsOf(u)
      BY <1>2
    <2>1. IInv
      BY InitInv DEF RInit
    <2>2. End \in Nat
      BY <2>1, NodeFacts DEF IInv
    <2>3. pc[u] = "idle" /\ rounds[u] = 0 /\ since[u] = 0
      BY DEF RInit, HInit, Init
    <2> QED BY <2>2, <2>3 DEF RoundsOf, EnqWork, DeqWork, EnqPC, DeqPC
  <1>4. IInv /\ RoundsInv /\ [RNext]_<<vars, history, counters>> => RoundsInv'
    <2> SUFFICES ASSUME IInv, \A u \in Threads : RoundsOf(u), [RNext]_<<vars, history, counters>>,
                        NEW u \in Threads
                 PROVE  RoundsOf(u)'
      BY <1>2 DEF RoundsInv, RoundsOf, EnqWork, DeqWork
    <2>1. ASSUME NEW t \in Threads, Invoke(t) \/ Step(t), Count PROVE RoundsOf(u)'
      BY <2>1, RoundsWork
    <2>2. CASE Count /\ (DropQueue \/ \E n \in retired : Reclaim(n))
      <3>1. UNCHANGED <<nodes, head, tail, pc, cur>>
        BY <2>2 DEF DropQueue, Reclaim, list, local
      <3> QED BY <2>2, <3>1, RoundsRest
    <2>3. CASE UNCHANGED <<vars, history, counters>>
      <3>1. UNCHANGED <<nodes, head, tail, pc, cur>> /\ UNCHANGED counters
        BY <2>3 DEF vars, list, local
      <3> QED BY <3>1, RoundsRest
    <2> QED BY <2>1, <2>2, <2>3 DEF RNext, HNext, Next
  <1>5. IInv /\ RoundsInv => LockFree
    <2> SUFFICES ASSUME IInv, NEW u \in Threads, RoundsOf(u)
                 PROVE  /\ pc[u] \in EnqPC => rounds[u] <= 2 * (End - since[u]) + 1
                        /\ pc[u] \in DeqPC => rounds[u] <= head - since[u]
      BY <1>2 DEF LockFree
    <2>1. /\ End \in Nat /\ head \in 1 .. End /\ tail \in 1 .. End /\ cur[u] \in 0 .. End
          /\ pc[u] \in DeqPC => cur[u] <= head
      BY NodeFacts DEF IInv, LooseType, LocalType, Pointers
    <2>2. rounds[u] \in Nat /\ since[u] \in 0 .. End
      BY DEF RoundsOf
    <2>3. ASSUME pc[u] \in EnqPC PROVE rounds[u] <= 2 * (End - since[u]) + 1
      <3>1. CASE pc[u] \in {"e_tail", "e_next"}
        BY <2>1, <2>2, <3>1 DEF RoundsOf, Owed
      <3>2. CASE pc[u] \in EnqWork
        BY <2>1, <2>2, <3>2 DEF RoundsOf
      <3> QED BY <2>3, <3>1, <3>2 DEF EnqWork
    <2>4. ASSUME pc[u] \in DeqPC PROVE rounds[u] <= head - since[u]
      BY <2>1, <2>2, <2>4 DEF RoundsOf, DeqWork
    <2> QED BY <2>3, <2>4
  <1> QED BY <1>1, <1>3, <1>4, <1>5, PTL DEF RSpec
=============================================================================
