--------------------------- MODULE ScqRingProofs ---------------------------
(***************************************************************************)
(* Proofs about the ring, for any number of threads, any capacity and any  *)
(* interleaving.  IInv (module ScqRingInv) is inductive: the lemmas take   *)
(* its parts in turn, TypeOK first, then the parts about slots (RingInv),  *)
(* then Ownership and CatchupOk; each of them has one step per action.     *)
(*                                                                         *)
(* Of the arithmetic of tickets the steps use only that Map and Cycle      *)
(* split a ticket into slot and cycle, and that the tickets of a slot have *)
(* the order of their cycles.                                              *)
(***************************************************************************)
EXTENDS ScqRingInv, FiniteSetTheorems, TLAPS

-----------------------------------------------------------------------------
(* Tickets are pairs of a cycle and a slot.                                *)

\* Division with remainder.
LEMMA DivMod ==
  ASSUME NEW n \in Nat \ {0}, NEW t \in Nat
  PROVE  /\ t % n \in 0 .. n - 1
         /\ t \div n \in Nat
         /\ t = (t \div n) * n + (t % n)
  BY Z3

\* Quotient and remainder are unique.
LEMMA DivModUnique ==
  ASSUME NEW n \in Nat \ {0}, NEW c \in Nat, NEW s \in 0 .. n - 1
  PROVE  (c * n + s) % n = s /\ (c * n + s) \div n = c
  BY Z3

\* A product grows with its first factor.
LEMMA ProductMonotone ==
  ASSUME NEW n \in Nat, NEW c \in Nat, NEW d \in Nat, c <= d
  PROVE  c * n <= d * n
  BY Z3

\* A ring has at least two slots.
LEMMA NType == N \in Nat \ {0}
  BY RingAssumption DEF N

\* A ticket is the pair of its cycle and its slot.
LEMMA SlotOfTicket ==
  ASSUME NEW t \in Nat
  PROVE  Map(t) \in Slots /\ Cycle(t) \in Nat /\ t = TicketAt(Cycle(t), Map(t))
  BY NType, DivMod DEF Map, Cycle, Slots, TicketAt

\* Every cycle and slot is the pair of one ticket.
LEMMA TicketOfSlot ==
  ASSUME NEW c \in Nat, NEW s \in Slots
  PROVE  TicketAt(c, s) \in Nat /\ Map(TicketAt(c, s)) = s /\ Cycle(TicketAt(c, s)) = c
  BY NType, DivModUnique DEF Map, Cycle, Slots, TicketAt

\* The tickets of one slot have the order of their cycles.
LEMMA TicketOrder ==
  ASSUME NEW t \in Nat, NEW u \in Nat, Map(t) = Map(u), Cycle(t) <= Cycle(u)
  PROVE  t <= u
  <1>1. Cycle(t) * N <= Cycle(u) * N
    BY SlotOfTicket, NType, ProductMonotone
  <1>2. t = Cycle(t) * N + Map(t) /\ u = Cycle(u) * N + Map(u)
    BY SlotOfTicket DEF TicketAt
  <1>3. Cycle(t) * N \in Int /\ Cycle(u) * N \in Int /\ Map(t) \in Int
    BY SlotOfTicket, NType DEF Slots
  <1> QED BY <1>1, <1>2, <1>3

\* The index Bot is none of those the clients use.
LEMMA IndexFacts == Bot \notin Indices /\ 0 \in Indices /\ Indices \subseteq Nat
  BY RingAssumption DEF Bot, Indices, N

-----------------------------------------------------------------------------
(* The types.                                                              *)

\* The types of the threads' own variables, and of the others.
LocalType ==
  /\ pc \in [Threads -> PC]
  /\ ticket \in [Threads -> Nat]
  /\ entry \in [Threads -> Entry]
  /\ eidx \in [Threads -> Indices \union {Bot}]
  /\ attempt \in [Threads -> Nat]
  /\ seen \in [Threads -> [tail : Nat, head : Nat]]

SharedType ==
  /\ head \in Nat
  /\ tail \in Nat
  /\ threshold \in Int
  /\ is_finalized \in BOOLEAN
  /\ array \in [Slots -> Entry]
  /\ pool \in SUBSET Indices
  /\ calls \in Nat

\* The word -1 is an entry.
LEMMA BlankType == Blank \in Entry
  BY DEF Blank, Entry

\* A new ring has the types, empty or full.
LEMMA InitType == Init => TypeOK
  <1> SUFFICES ASSUME Init PROVE TypeOK
    OBVIOUS
  <1> USE DEF Init
  <1>1. LocalType
    BY BlankType DEF LocalType, PC, NoSeen
  <1>2. array \in [Slots -> Entry]
    <2>1. \A s \in Slots : s < Half => [cyc |-> 0, safe |-> TRUE, idx |-> s] \in Entry
      BY RingAssumption DEF Slots, Indices, Entry, N
    <2> QED BY <2>1, BlankType
  <1>3. Half \in Nat /\ Threshold3 \in Int /\ Full \in BOOLEAN
    BY RingAssumption DEF Threshold3, N
  <1>4. is_finalized = FALSE /\ pool \in SUBSET Indices
    OBVIOUS
  <1>5. head \in Nat /\ tail \in Nat /\ threshold \in Int /\ calls \in Nat
    BY <1>3
  <1>6. SharedType
    BY <1>2, <1>4, <1>5 DEF SharedType
  <1> QED BY <1>1, <1>6 DEF LocalType, SharedType, TypeOK

\* Returning from a call keeps the types of the locals.
LEMMA ReturnType ==
  ASSUME LocalType, NEW t \in Threads, NEW from, Return(t, from)
  PROVE  LocalType'
  <1> USE DEF LocalType, Return, Goto
  <1>1. pc' \in [Threads -> PC]
    BY DEF PC
  <1>2. entry' \in [Threads -> Entry]
    BY BlankType
  <1>3. seen' \in [Threads -> [tail : Nat, head : Nat]]
    BY DEF NoSeen
  <1> QED BY <1>1, <1>2, <1>3

\* So does going on to the next access.
LEMMA GotoType ==
  ASSUME LocalType, NEW t \in Threads, NEW from, NEW to \in PC, Goto(t, from, to),
         UNCHANGED local
  PROVE  LocalType'
  BY DEF LocalType, Goto, local

\* Every step keeps the types of the threads' own variables.
LEMMA LocalTypeStep ==
  ASSUME TypeOK, NEW t \in Threads, Invoke(t) \/ Step(t)
  PROVE  LocalType'
  <1> USE DEF PC, EnqBefore, EnqAfter, DeqSlot, Catching, DeqAll
  <1>0. LocalType /\ (\A s \in Slots : array[s] \in Entry) /\ head \in Nat /\ tail \in Nat
    BY DEF TypeOK, LocalType
  <1>1. ASSUME NEW i \in pool, EnqCall(t, i) PROVE LocalType'
    BY <1>0, <1>1 DEF TypeOK, LocalType, EnqCall, Call, Goto
  <1>2. CASE DeqCall(t)
    BY <1>0, <1>2, GotoType DEF DeqCall, Call
  <1>3. CASE Finalize(t) \/ Refill(t)
    BY <1>0, <1>3, GotoType DEF Finalize, Refill, Call
  <1>4. CASE EnqTail(t)
    BY <1>0, <1>4 DEF LocalType, EnqTail, Goto
  <1>5. CASE EnqLoad(t)
    <2>1. array[Map(ticket[t])] \in Entry
      BY <1>0, SlotOfTicket DEF LocalType
    <2> QED BY <1>0, <1>5, <2>1 DEF LocalType, EnqLoad, Goto, Insertable
  <1>6. CASE EnqHead(t)
    BY <1>0, <1>6, GotoType DEF EnqHead, Insertable
  <1>7. CASE EnqFin(t)
    BY <1>0, <1>7, GotoType, ReturnType DEF EnqFin
  <1>8. CASE EnqCasOk(t) \/ EnqCasFail(t)
    BY <1>0, <1>8, GotoType DEF EnqCasOk, EnqCasFail
  <1>9. CASE EnqThrLoad(t) \/ EnqThrStore(t)
    BY <1>0, <1>9, GotoType, ReturnType DEF EnqThrLoad, EnqThrStore
  <1>10. CASE DeqThr(t)
    BY <1>0, <1>10, GotoType, ReturnType DEF DeqThr
  <1>11. CASE DeqHead(t)
    BY <1>0, <1>11 DEF LocalType, DeqHead, Goto
  <1>12. CASE DeqLoad(t)
    <2>1. array[Map(ticket[t])] \in Entry
      BY <1>0, SlotOfTicket DEF LocalType
    <2>2. attempt' \in [Threads -> Nat]
      BY <1>0, <1>12 DEF LocalType, DeqLoad
    <2> QED BY <1>0, <1>12, <2>1, <2>2 DEF LocalType, DeqLoad, Goto
  <1>13. CASE DeqOr(t)
    BY <1>0, <1>13, ReturnType DEF DeqOr
  <1>14. CASE DeqCasOk(t) \/ DeqCasFail(t)
    BY <1>0, <1>14, GotoType DEF DeqCasOk, DeqCasFail
  <1>15. CASE DeqTail(t)
    BY <1>0, <1>15 DEF LocalType, DeqTail, Goto
  <1>16. CASE DeqNone(t) \/ DeqSub(t)
    BY <1>0, <1>16, GotoType, ReturnType DEF DeqNone, DeqSub
  <1>17. CASE CatchCasOk(t) \/ CatchCasFail(t)
    BY <1>0, <1>17, GotoType DEF CatchCasOk, CatchCasFail
  <1>18. CASE CatchHead(t) \/ CatchTail(t)
    BY <1>0, <1>18 DEF LocalType, CatchHead, CatchTail, Goto
  <1> QED
    BY <1>1, <1>2, <1>3, <1>4, <1>5, <1>6, <1>7, <1>8, <1>9, <1>10, <1>11, <1>12,
       <1>13, <1>14, <1>15, <1>16, <1>17, <1>18
    DEF Invoke, Step, EnqStep, DeqStep, CatchStep

\* Every write to the array is an Entry; an index leaves the ring only with a
\* dequeue that found a live entry.
LEMMA SharedTypeStep ==
  ASSUME TypeOK, DequeueOk, EnqueueOk, NEW t \in Threads, Invoke(t) \/ Step(t)
  PROVE  SharedType'
  <1> USE DEF shared, client
  <1>0. SharedType /\ Map(ticket[t]) \in Slots /\ Cycle(ticket[t]) \in Nat /\ entry[t] \in Entry
    BY SlotOfTicket DEF TypeOK, SharedType
  <1>1. ASSUME NEW i \in pool, EnqCall(t, i) PROVE SharedType'
    BY <1>0, <1>1 DEF SharedType, EnqCall, Call
  <1>2. CASE DeqCall(t) \/ Finalize(t) \/ Refill(t)
    <2>1. 3 * N - 1 \in Int
      BY NType
    <2>2. calls + 1 \in Nat
      BY <1>0 DEF SharedType
    <2>3. CASE DeqCall(t)
      BY <1>0, <2>2, <2>3 DEF SharedType, DeqCall, Call
    <2>4. CASE Finalize(t)
      BY <1>0, <2>2, <2>4 DEF SharedType, Finalize, Call
    <2>5. CASE Refill(t)
      BY <1>0, <2>1, <2>2, <2>5 DEF SharedType, Refill, Call
    <2> QED BY <1>2, <2>3, <2>4, <2>5
  <1>3. CASE EnqTail(t) \/ EnqLoad(t) \/ EnqHead(t) \/ EnqCasFail(t) \/ EnqThrLoad(t)
    BY <1>0, <1>3 DEF SharedType, EnqTail, EnqLoad, EnqHead, EnqCasFail, EnqThrLoad
  <1>4. CASE EnqFin(t)
    <2>1. pc[t] \in EnqBefore => eidx[t] \in Indices
      BY DEF EnqueueOk
    <2> QED BY <1>0, <1>4, <2>1 DEF SharedType, EnqFin, Goto, Return, EnqBefore
  <1>5. CASE EnqCasOk(t)
    <2>1. eidx[t] \in Indices
      BY <1>5 DEF EnqueueOk, EnqBefore, EnqCasOk, Goto
    <2>2. NewEntry(t) \in Entry
      BY <1>0, <2>1 DEF NewEntry, Entry
    <2> QED BY <1>0, <1>5, <2>2 DEF SharedType, EnqCasOk
  <1>6. CASE EnqThrStore(t)
    BY <1>0, <1>6, RingAssumption DEF SharedType, EnqThrStore, Threshold3, N
  <1>7. CASE DeqThr(t) \/ DeqHead(t) \/ DeqLoad(t) \/ DeqCasFail(t) \/ DeqTail(t)
    BY <1>0, <1>7 DEF SharedType, DeqThr, DeqHead, DeqLoad, DeqCasFail, DeqTail
  <1>8. CASE DeqOr(t)
    <2>1. pc[t] = "d_or"
      BY <1>8 DEF DeqOr, Return, Goto
    <2>2. entry[t].idx \in Indices
      BY <1>0, <2>1 DEF DequeueOk, SharedType, Word, IsLive, Entry
    <2>3. array[Map(ticket[t])] \in Entry
      BY <1>0 DEF SharedType
    <2>4. [array[Map(ticket[t])] EXCEPT !.idx = Bot] \in Entry
      BY <2>3 DEF Entry
    <2>5. array' \in [Slots -> Entry]
      BY <1>0, <1>8, <2>4 DEF SharedType, DeqOr
    <2> QED BY <1>0, <1>8, <2>2, <2>5 DEF SharedType, DeqOr
  <1>9. CASE DeqCasOk(t)
    <2>1. Blocked(entry[t], ticket[t]) \in Entry
      BY <1>0 DEF Blocked, Entry
    <2> QED BY <1>0, <1>9, <2>1 DEF SharedType, DeqCasOk
  <1>10. CASE DeqNone(t) \/ DeqSub(t)
    BY <1>0, <1>10 DEF SharedType, DeqNone, DeqSub
  <1>11. CASE CatchCasOk(t) \/ CatchCasFail(t) \/ CatchHead(t) \/ CatchTail(t)
    BY <1>0, <1>11 DEF SharedType, TypeOK, CatchCasOk, CatchCasFail, CatchHead, CatchTail
  <1> QED
    BY <1>1, <1>2, <1>3, <1>4, <1>5, <1>6, <1>7, <1>8, <1>9, <1>10, <1>11
    DEF Invoke, Step, EnqStep, DeqStep, CatchStep

\* Every step keeps the types, if dequeue() returns live entries only.
LEMMA TypeStep ==
  ASSUME TypeOK, DequeueOk, EnqueueOk, NEW t \in Threads, Invoke(t) \/ Step(t)
  PROVE  TypeOK'
  BY LocalTypeStep, SharedTypeStep DEF LocalType, SharedType, TypeOK

-----------------------------------------------------------------------------
(* Steps that touch neither the array nor head and start no access to a    *)
(* slot: the rest of the invariant does not notice them.                   *)

\* The part of IInv about the slots.
RingInv ==
  /\ TicketsOk
  /\ SlotsOk
  /\ DequeueOk
  /\ EnqueueOk
  /\ ClosedBehindHead
  /\ InsertInTime
  /\ NoOrphan

\* An insertion that has chosen its slot.
Trying == {"e_head", "e_fin", "e_cas"}

\* Thread t writes its own locals only.
Others(t) ==
  \A u \in Threads \ {t} :
    /\ pc'[u] = pc[u]
    /\ ticket'[u] = ticket[u]
    /\ entry'[u] = entry[u]
    /\ eidx'[u] = eidx[u]
    /\ seen'[u] = seen[u]

\* A step of t that reads or writes no slot.
Quiet(t) ==
  /\ head' = head
  /\ array' = array
  /\ Others(t)
  /\ pc'[t] \in DeqSlot <=> pc[t] \in DeqSlot
  /\ pc'[t] \in DeqSlot => ticket'[t] = ticket[t]
  /\ pc'[t] \notin {"d_or", "d_cas"}
  /\ pc'[t] \in EnqBefore => eidx'[t] \in Indices
  /\ pc'[t] \in Trying =>
       /\ pc[t] \in {"e_fin", "e_cas"} /\ pc'[t] \in {"e_fin", "e_cas"}
       /\ ticket'[t] = ticket[t]
       /\ entry'[t] = entry[t]

\* A quiet step preserves what the invariant says of the slots.
LEMMA QuietStep ==
  ASSUME TypeOK, RingInv, NEW t \in Threads, Quiet(t)
  PROVE  RingInv'
  <1>1. \A h : Looking(h)' <=> Looking(h)
    BY DEF Quiet, Others, Looking
  <1>2. \A h : Passed(h)' <=> Passed(h)
    BY <1>1 DEF Quiet, Passed
  <1>3. TicketsOk'
    BY DEF RingInv, TicketsOk, Quiet, Others
  <1>4. SlotsOk'
    BY <1>2 DEF RingInv, SlotsOk, Quiet, IsLive, TicketOf
  <1>5. DequeueOk'
    BY DEF RingInv, DequeueOk, Quiet, Others, Word
  <1>6. EnqueueOk'
    BY DEF RingInv, EnqueueOk, Quiet, Others, Word, Trying
  <1>7. ClosedBehindHead'
    BY <1>2 DEF RingInv, ClosedBehindHead, Quiet
  <1>8. InsertInTime'
    BY <1>2 DEF RingInv, InsertInTime, Quiet, Others, Word, Trying
  <1>9. NoOrphan'
    BY <1>1 DEF RingInv, NoOrphan, Quiet, Looking, IsLive, TicketOf
  <1> QED
    BY <1>3, <1>4, <1>5, <1>6, <1>7, <1>8, <1>9 DEF RingInv

\* A step of t changes no local of another thread.
LEMMA OthersStep ==
  ASSUME TypeOK, NEW t \in Threads, Invoke(t) \/ Step(t)
  PROVE  Others(t)
  <1> USE DEF TypeOK, Others, Goto, Return, Call, local
  <1>1. ASSUME NEW i \in pool, EnqCall(t, i) PROVE Others(t)
    BY <1>1 DEF EnqCall
  <1>2. CASE DeqCall(t) \/ Finalize(t) \/ Refill(t)
    BY <1>2 DEF DeqCall, Finalize, Refill
  <1>3. CASE EnqTail(t) \/ EnqLoad(t) \/ EnqHead(t) \/ EnqFin(t)
    BY <1>3 DEF EnqTail, EnqLoad, EnqHead, EnqFin
  <1>4. CASE EnqCasOk(t) \/ EnqCasFail(t) \/ EnqThrLoad(t) \/ EnqThrStore(t)
    BY <1>4 DEF EnqCasOk, EnqCasFail, EnqThrLoad, EnqThrStore
  <1>5. CASE DeqThr(t) \/ DeqHead(t) \/ DeqLoad(t) \/ DeqOr(t)
    BY <1>5 DEF DeqThr, DeqHead, DeqLoad, DeqOr
  <1>6. CASE DeqCasOk(t) \/ DeqCasFail(t) \/ DeqTail(t) \/ DeqNone(t) \/ DeqSub(t)
    BY <1>6 DEF DeqCasOk, DeqCasFail, DeqTail, DeqNone, DeqSub
  <1>7. CASE CatchStep(t)
    BY <1>7 DEF CatchStep, CatchCasOk, CatchCasFail, CatchHead, CatchTail
  <1> QED
    BY <1>1, <1>2, <1>3, <1>4, <1>5, <1>6, <1>7 DEF Invoke, Step, EnqStep, DeqStep

QuietAction(t) ==
  \/ Invoke(t)
  \/ EnqTail(t) \/ EnqFin(t) \/ EnqCasFail(t) \/ EnqThrLoad(t) \/ EnqThrStore(t)
  \/ DeqThr(t) \/ DeqCasFail(t) \/ DeqTail(t) \/ DeqNone(t) \/ DeqSub(t) \/ CatchStep(t)

\* The actions that are quiet.
LEMMA QuietActions ==
  ASSUME TypeOK, EnqueueOk, NEW t \in Threads, QuietAction(t)
  PROVE  Quiet(t)
  <1>1. Others(t)
    BY OthersStep DEF QuietAction, Step, EnqStep, DeqStep
  <1> USE DEF TypeOK, EnqueueOk, Quiet, Trying, EnqBefore, DeqSlot, Goto, Return, Call, shared,
              local
  <1>2. ASSUME NEW i \in pool, EnqCall(t, i) PROVE Quiet(t)
    BY <1>1, <1>2 DEF EnqCall
  <1>3. CASE DeqCall(t) \/ Finalize(t) \/ Refill(t)
    BY <1>1, <1>3 DEF DeqCall, Finalize, Refill
  <1>4. CASE EnqTail(t) \/ EnqFin(t) \/ EnqCasFail(t)
    BY <1>1, <1>4 DEF EnqTail, EnqFin, EnqCasFail
  <1>5. CASE EnqThrLoad(t) \/ EnqThrStore(t) \/ DeqThr(t)
    BY <1>1, <1>5 DEF EnqThrLoad, EnqThrStore, DeqThr
  <1>6. CASE DeqCasFail(t) \/ DeqTail(t) \/ DeqNone(t) \/ DeqSub(t)
    BY <1>1, <1>6 DEF DeqCasFail, DeqTail, DeqNone, DeqSub
  <1>7. CASE CatchStep(t)
    BY <1>1, <1>7 DEF CatchStep, CatchCasOk, CatchCasFail, CatchHead, CatchTail
  <1> QED
    BY <1>2, <1>3, <1>4, <1>5, <1>6, <1>7 DEF QuietAction, Invoke

-----------------------------------------------------------------------------
(* enqueue(): the slot is examined.                                        *)

\* The types of what a thread works with.
LEMMA TicketFacts ==
  ASSUME TypeOK, NEW t \in Threads
  PROVE  /\ ticket[t] \in Nat
         /\ Map(ticket[t]) \in Slots
         /\ Cycle(ticket[t]) \in Nat
         /\ Word(t) \in Entry
         /\ Word(t).cyc \in Int
         /\ entry[t] \in Entry
         /\ entry[t].cyc \in Int
  BY SlotOfTicket DEF TypeOK, Word, Entry

\* A step of t inside enqueue() that leaves the array and head alone disturbs
\* only what is known of the insertion of t.
LEMMA ExamineStep ==
  ASSUME TypeOK, RingInv, NEW t \in Threads, Others(t),
         head' = head, array' = array, pc[t] \in EnqBefore, pc'[t] \in EnqBefore,
         eidx'[t] = eidx[t]
  PROVE  /\ \A h : Passed(h)' <=> Passed(h)
         /\ TicketsOk' /\ SlotsOk' /\ DequeueOk' /\ ClosedBehindHead' /\ NoOrphan'
  <1>0. pc[t] \notin DeqSlot /\ pc'[t] \notin DeqSlot /\ pc'[t] \notin {"d_or", "d_cas"}
    BY DEF EnqBefore, DeqSlot
  <1>1. \A h : Looking(h)' <=> Looking(h)
    BY <1>0 DEF Others, Looking
  <1>2. \A h : Passed(h)' <=> Passed(h)
    BY <1>1 DEF Passed
  <1>3. TicketsOk'
    BY <1>0 DEF RingInv, TicketsOk, Others
  <1>4. SlotsOk'
    BY <1>2 DEF RingInv, SlotsOk, IsLive, TicketOf
  <1>5. DequeueOk'
    BY <1>0 DEF RingInv, DequeueOk, Others, Word
  <1>6. ClosedBehindHead'
    BY <1>2 DEF RingInv, ClosedBehindHead
  <1>7. NoOrphan'
    BY <1>1 DEF RingInv, NoOrphan, Looking, IsLive, TicketOf
  <1> QED BY <1>2, <1>3, <1>4, <1>5, <1>6, <1>7

\* A free slot of an older cycle is chosen; if it is safe, no dequeue with
\* this ticket or a later one has left it.
LEMMA EnqLoadStep ==
  ASSUME TypeOK, RingInv, NEW t \in Threads, EnqLoad(t)
  PROVE  RingInv'
  <1>1. Others(t)
    BY OthersStep DEF Step, EnqStep
  <1>2. /\ pc[t] = "e_load" /\ pc'[t] \in EnqBefore
        /\ head' = head /\ array' = array /\ eidx' = eidx /\ ticket' = ticket
        /\ entry'[t] = Word(t)
    BY DEF EnqLoad, Goto, TypeOK, Word, EnqBefore, Insertable, shared
  <1>3. pc'[t] \in Trying => /\ ~IsLive(Word(t)) /\ Word(t).cyc < Cycle(ticket[t])
                             /\ pc'[t] # "e_head" => Word(t).safe
    BY TicketFacts DEF EnqLoad, Goto, TypeOK, Word, Trying, Insertable
  <1>4. pc[t] \in EnqBefore
    BY <1>2 DEF EnqBefore
  <1>5. /\ \A h : Passed(h)' <=> Passed(h)
        /\ TicketsOk' /\ SlotsOk' /\ DequeueOk' /\ ClosedBehindHead' /\ NoOrphan'
    BY <1>1, <1>2, <1>4, ExamineStep
  <1>6. EnqueueOk'
    BY <1>1, <1>2, <1>3, <1>4, TicketFacts DEF RingInv, EnqueueOk, Others, Word, Trying, IsLive
  <1>7. InsertInTime'
    <2> SUFFICES ASSUME NEW u \in Threads, pc'[u] \in {"e_fin", "e_cas"}, Word(u)' = entry'[u],
                        NEW h \in 0 .. head - 1, Passed(h), Map(h) = Map(ticket[u])
                 PROVE  Cycle(h) < Cycle(ticket[u])
      BY <1>2, <1>5 DEF InsertInTime
    <2>1. CASE u # t
      BY <1>1, <1>2, <2>1 DEF RingInv, InsertInTime, Others, Word
    <2>2. CASE u = t
      <3>1. Word(t).cyc < Cycle(ticket[t]) /\ Word(t).safe
        BY <1>3, <2>2 DEF Trying
      <3>2. h \in Nat /\ Cycle(h) \in Nat
        BY SlotOfTicket DEF TypeOK
      <3>3. Word(t).cyc >= Cycle(h)
        BY <2>2, <3>1, <3>2 DEF RingInv, ClosedBehindHead, Word
      <3> QED BY <2>2, <3>1, <3>2, <3>3, TicketFacts
    <2> QED BY <2>1, <2>2
  <1> QED BY <1>5, <1>6, <1>7 DEF RingInv

\* An unsafe slot: head has not passed the ticket, nor a later one of the slot.
LEMMA EnqHeadStep ==
  ASSUME TypeOK, RingInv, NEW t \in Threads, EnqHead(t)
  PROVE  RingInv'
  <1>1. Others(t)
    BY OthersStep DEF Step, EnqStep
  <1>2. /\ pc[t] = "e_head" /\ pc'[t] \in EnqBefore
        /\ head' = head /\ array' = array /\ eidx' = eidx /\ ticket' = ticket
        /\ entry' = entry
        /\ pc'[t] \in Trying => head <= ticket[t]
    BY DEF EnqHead, Goto, TypeOK, EnqBefore, Insertable, Trying, shared, local
  <1>4. pc[t] \in EnqBefore
    BY <1>2 DEF EnqBefore
  <1>5. /\ \A h : Passed(h)' <=> Passed(h)
        /\ TicketsOk' /\ SlotsOk' /\ DequeueOk' /\ ClosedBehindHead' /\ NoOrphan'
    BY <1>1, <1>2, <1>4, ExamineStep
  <1>6. EnqueueOk'
    BY <1>1, <1>2, <1>4 DEF RingInv, EnqueueOk, Others, Word, Trying, IsLive
  <1>7. InsertInTime'
    <2> SUFFICES ASSUME NEW u \in Threads, pc'[u] \in {"e_fin", "e_cas"}, Word(u)' = entry'[u],
                        NEW h \in 0 .. head - 1, Passed(h), Map(h) = Map(ticket[u])
                 PROVE  Cycle(h) < Cycle(ticket[u])
      BY <1>2, <1>5 DEF InsertInTime
    <2>1. CASE u # t
      BY <1>1, <1>2, <2>1 DEF RingInv, InsertInTime, Others, Word
    <2>2. CASE u = t
      <3>1. head <= ticket[t]
        BY <1>2, <2>2 DEF Trying
      <3>2. h \in Nat /\ Cycle(h) \in Nat /\ h < ticket[t]
        BY <3>1, SlotOfTicket, TicketFacts DEF TypeOK
      <3> QED BY <2>2, <3>2, TicketFacts, TicketOrder
    <2> QED BY <2>1, <2>2
  <1> QED BY <1>5, <1>6, <1>7 DEF RingInv

-----------------------------------------------------------------------------
(* enqueue(): the compare_exchange.                                        *)

\* The compare_exchange replaces a free entry of an older cycle.
LEMMA EnqCasOkStep ==
  ASSUME TypeOK, RingInv, NEW t \in Threads, EnqCasOk(t)
  PROVE  RingInv'
  <1> DEFINE s == Map(ticket[t])
             c == Cycle(ticket[t])
  <1>1. Others(t)
    BY OthersStep DEF Step, EnqStep
  <1>2. /\ pc[t] = "e_cas" /\ pc'[t] = "e_thr"
        /\ head' = head /\ ticket' = ticket /\ entry' = entry /\ eidx' = eidx
        /\ array[s] = entry[t]
    BY DEF EnqCasOk, Goto, TypeOK, local
  <1>3. array' = [array EXCEPT ![s] = NewEntry(t)]
    BY DEF EnqCasOk
  <1>4. ~IsLive(array[s]) /\ array[s].cyc < c
    BY <1>2 DEF RingInv, EnqueueOk
  <1>5. s \in Slots /\ c \in Nat /\ ticket[t] = TicketAt(c, s)
    BY SlotOfTicket, TicketFacts
  <1>6. eidx[t] \in Indices
    BY <1>2 DEF RingInv, EnqueueOk, EnqBefore
  <1>7. /\ array'[s].cyc = c /\ array'[s].safe /\ IsLive(array'[s])
        /\ \A r \in Slots \ {s} : array'[r] = array[r]
    BY <1>3, <1>5, <1>6, IndexFacts DEF NewEntry, IsLive, TypeOK
  <1>8. \A h : Looking(h)' <=> Looking(h)
    BY <1>1, <1>2 DEF Others, Looking, DeqSlot
  <1>9. \A h : Passed(h)' <=> Passed(h)
    BY <1>2, <1>8 DEF Passed
  <1>10. \A h \in 0 .. head - 1 : Passed(h) /\ Map(h) = s => Cycle(h) < c
    BY <1>2 DEF RingInv, InsertInTime, Word
  <1> HIDE DEF s, c
  <1>11. TicketsOk'
    BY <1>1, <1>2 DEF RingInv, TicketsOk, Others, DeqSlot
  <1>12. SlotsOk'
    BY <1>5, <1>7, <1>9 DEF RingInv, SlotsOk, IsLive, TicketOf
  <1>13. DequeueOk'
    <2> SUFFICES ASSUME NEW u \in Threads
                 PROVE  /\ pc'[u] = "d_or" => /\ IsLive(Word(u)')
                                              /\ Word(u)'.cyc = Cycle(ticket[u])
                                              /\ Word(u)'.idx = entry[u].idx
                        /\ pc'[u] = "d_cas" => entry[u].cyc < Cycle(ticket[u])
      BY <1>2 DEF DequeueOk, IsLive
    <2>1. pc'[u] \in {"d_or", "d_cas"} => pc[u] = pc'[u]
      BY <1>1, <1>2 DEF Others
    <2>2. pc'[u] = "d_or" => Map(ticket[u]) # s
      BY <1>4, <2>1 DEF RingInv, DequeueOk, Word
    <2> QED BY <1>2, <1>7, <2>1, <2>2, TicketFacts DEF RingInv, DequeueOk, Word
  <1>14. EnqueueOk'
    <2> SUFFICES ASSUME NEW u \in Threads
                 PROVE  /\ pc'[u] \in EnqBefore => eidx[u] \in Indices
                        /\ pc'[u] \in {"e_head", "e_fin", "e_cas"} =>
                             /\ ~IsLive(entry[u])
                             /\ entry[u].cyc < Cycle(ticket[u])
                             /\ Word(u)'.cyc >= entry[u].cyc
                             /\ Word(u)'.cyc = entry[u].cyc => ~IsLive(Word(u)')
      BY <1>2 DEF EnqueueOk, IsLive
    <2>1. u # t => pc'[u] = pc[u]
      BY <1>1 DEF Others
    <2>2. u = t => pc'[u] \notin EnqBefore \union {"e_head", "e_fin", "e_cas"}
      BY <1>2 DEF EnqBefore
    <2>3. CASE Map(ticket[u]) # s
      <3>1. Word(u)' = Word(u)
        BY <1>2, <1>7, <2>3, TicketFacts DEF Word
      <3> QED BY <2>1, <2>2, <3>1 DEF RingInv, EnqueueOk
    <2>4. CASE Map(ticket[u]) = s
      <3>1. Word(u) = array[s] /\ Word(u)' = array'[s]
        BY <1>2, <2>4 DEF Word
      <3> QED BY <1>4, <1>5, <1>7, <2>1, <2>2, <3>1, TicketFacts DEF RingInv, EnqueueOk
    <2> QED BY <2>3, <2>4
  <1>15. ClosedBehindHead'
    <2> SUFFICES ASSUME NEW h \in 0 .. head - 1, Passed(h)
                 PROVE  array'[Map(h)].cyc >= Cycle(h) \/ ~array'[Map(h)].safe
      BY <1>2, <1>9 DEF ClosedBehindHead
    <2>1. Map(h) \in Slots /\ Cycle(h) \in Nat
      BY SlotOfTicket DEF TypeOK
    <2>2. CASE Map(h) = s
      BY <1>5, <1>7, <1>10, <2>1, <2>2
    <2>3. CASE Map(h) # s
      BY <1>7, <2>1, <2>3 DEF RingInv, ClosedBehindHead
    <2> QED BY <2>2, <2>3
  <1>16. InsertInTime'
    <2> SUFFICES ASSUME NEW u \in Threads, pc'[u] \in {"e_fin", "e_cas"}, Word(u)' = entry[u],
                        NEW h \in 0 .. head - 1, Passed(h), Map(h) = Map(ticket[u])
                 PROVE  Cycle(h) < Cycle(ticket[u])
      BY <1>2, <1>9 DEF InsertInTime
    <2>1. u # t /\ pc[u] = pc'[u]
      BY <1>1, <1>2 DEF Others
    <2>2. ~IsLive(entry[u])
      BY <2>1 DEF RingInv, EnqueueOk
    <2>3. Map(ticket[u]) # s
      BY <1>2, <1>7, <2>2 DEF Word
    <2> QED BY <1>2, <1>7, <2>1, <2>3, TicketFacts DEF RingInv, InsertInTime, Word
  <1>17. NoOrphan'
    <2> SUFFICES ASSUME NEW r \in Slots, IsLive(array'[r]), TicketAt(array'[r].cyc, r) < head
                 PROVE  Looking(TicketAt(array'[r].cyc, r))
      BY <1>2, <1>8 DEF NoOrphan, Looking, TicketOf, IsLive
    <2>1. CASE r = s
      <3>1. TicketAt(array'[r].cyc, r) = ticket[t]
        BY <1>5, <1>7, <2>1
      <3>2. ticket[t] \in 0 .. head - 1
        BY <3>1, TicketFacts DEF TypeOK
      <3>3. ~Passed(ticket[t])
        BY <1>5, <1>10, <3>2 DEF s, c
      <3> QED BY <3>1, <3>2, <3>3 DEF Passed
    <2>2. CASE r # s
      BY <1>7, <2>2 DEF RingInv, NoOrphan, Looking, TicketOf
    <2> QED BY <2>1, <2>2
  <1> QED BY <1>11, <1>12, <1>13, <1>14, <1>15, <1>16, <1>17 DEF RingInv

-----------------------------------------------------------------------------
(* dequeue(): the fetch_add, the load, the fetch_or and the compare_exchange. *)

\* The new ticket is looked at from the moment head passes it.
LEMMA DeqHeadStep ==
  ASSUME TypeOK, RingInv, NEW t \in Threads, DeqHead(t)
  PROVE  RingInv'
  <1>1. Others(t)
    BY OthersStep DEF Step, DeqStep
  <1>2. /\ pc[t] = "d_head" /\ pc'[t] = "d_load" /\ ticket'[t] = head
        /\ head' = head + 1 /\ array' = array /\ entry' = entry /\ eidx' = eidx
        /\ head \in Nat
    BY DEF DeqHead, Goto, TypeOK
  <1>3. \A h : Looking(h)' <=> Looking(h) \/ h = head
    BY <1>1, <1>2 DEF Others, Looking, DeqSlot
  <1>4. \A h \in Int : Passed(h)' <=> Passed(h)
    BY <1>2, <1>3 DEF Passed
  <1>5. ASSUME NEW r \in Slots, array[r].cyc >= 0
        PROVE  TicketOf(r) \in Nat
    <2>1. array[r].cyc \in Nat
      BY <1>5 DEF TypeOK, Entry
    <2> QED BY <2>1, TicketOfSlot DEF TicketOf
  <1>6. TicketsOk'
    <2>1. \A u \in Threads : u # t => pc'[u] = pc[u] /\ ticket'[u] = ticket[u] /\ ticket[u] \in Nat
      BY <1>1 DEF Others, TypeOK
    <2>2. \A u \in Threads : pc[u] \in DeqSlot => ticket[u] < head /\ ticket[u] < head + 1
      BY <1>2, TicketFacts DEF RingInv, TicketsOk
    <2>3. \A u \in Threads : u # t /\ pc'[u] \in DeqSlot => ticket'[u] < head
      BY <2>1, <2>2
    <2>4. \A u \in Threads : pc'[u] \in DeqSlot => ticket'[u] < head'
      BY <1>2, <2>1, <2>2
    <2>5. \A u, v \in Threads : pc'[u] \in DeqSlot /\ pc'[v] \in DeqSlot /\ ticket'[v] = ticket'[u]
                                => v = u
      <3> SUFFICES ASSUME NEW u \in Threads, NEW v \in Threads,
                          pc'[u] \in DeqSlot, pc'[v] \in DeqSlot, ticket'[v] = ticket'[u]
                   PROVE  v = u
        OBVIOUS
      <3>1. CASE u = t \/ v = t
        BY <1>2, <2>3, <3>1
      <3>2. CASE u # t /\ v # t
        BY <2>1, <3>2 DEF RingInv, TicketsOk
      <3> QED BY <3>1, <3>2
    <2> QED BY <2>4, <2>5 DEF TicketsOk
  <1>7. SlotsOk'
    <2> SUFFICES ASSUME NEW r \in Slots
                 PROVE  /\ IsLive(array[r]) => array[r].cyc >= 0
                        /\ ~IsLive(array[r]) /\ array[r].cyc >= 0 => Passed(TicketOf(r))'
      BY <1>2 DEF SlotsOk, IsLive
    <2>1. TicketOf(r)' = TicketOf(r)
      BY <1>2 DEF TicketOf
    <2> QED BY <1>4, <1>5, <2>1 DEF RingInv, SlotsOk, Passed, Looking
  <1>8. DequeueOk'
    BY <1>1, <1>2 DEF RingInv, DequeueOk, Others, Word
  <1>9. EnqueueOk'
    BY <1>1, <1>2 DEF RingInv, EnqueueOk, Others, Word, EnqBefore
  <1>10. ClosedBehindHead'
    <2> SUFFICES ASSUME NEW h \in 0 .. head, Passed(h)'
                 PROVE  array[Map(h)].cyc >= Cycle(h) \/ ~array[Map(h)].safe
      BY <1>2 DEF ClosedBehindHead
    <2>1. Passed(h) /\ h \in 0 .. head - 1
      BY <1>2, <1>4 DEF Passed
    <2> QED BY <2>1 DEF RingInv, ClosedBehindHead
  <1>11. InsertInTime'
    <2> SUFFICES ASSUME NEW u \in Threads, pc'[u] \in {"e_fin", "e_cas"}, Word(u)' = entry[u],
                        NEW h \in 0 .. head, Passed(h)', Map(h) = Map(ticket'[u])
                 PROVE  Cycle(h) < Cycle(ticket'[u])
      BY <1>2 DEF InsertInTime
    <2>1. Passed(h) /\ h \in 0 .. head - 1
      BY <1>2, <1>4 DEF Passed
    <2>2. pc[u] = pc'[u] /\ ticket'[u] = ticket[u] /\ Word(u)' = Word(u)
      BY <1>1, <1>2 DEF Others, Word
    <2> QED BY <2>1, <2>2 DEF RingInv, InsertInTime
  <1>12. NoOrphan'
    <2> SUFFICES ASSUME NEW r \in Slots, IsLive(array[r]), TicketOf(r) < head + 1
                 PROVE  Looking(TicketOf(r))'
      BY <1>2 DEF NoOrphan, IsLive, Looking, TicketOf
    <2>1. TicketOf(r)' = TicketOf(r)
      BY <1>2 DEF TicketOf
    <2>2. TicketOf(r) \in Nat
      BY <1>5 DEF RingInv, SlotsOk
    <2>3. TicketOf(r) < head \/ TicketOf(r) = head
      BY <1>2, <2>2
    <2>4. TicketOf(r) < head => Looking(TicketOf(r))
      BY DEF RingInv, NoOrphan, Looking
    <2> QED BY <1>3, <2>1, <2>3, <2>4
  <1> QED BY <1>6, <1>7, <1>8, <1>9, <1>10, <1>11, <1>12 DEF RingInv

\* A dequeue that leaves its slot after the load has found it closed.
LEMMA DeqLoadStep ==
  ASSUME TypeOK, RingInv, NEW t \in Threads, DeqLoad(t)
  PROVE  RingInv'
  <1> DEFINE e == Word(t)
             c == Cycle(ticket[t])
  <1>1. Others(t)
    BY OthersStep DEF Step, DeqStep
  <1>2. /\ pc[t] = "d_load" /\ pc'[t] \in {"d_or", "d_load", "d_cas", "d_tail"}
        /\ head' = head /\ array' = array /\ eidx' = eidx /\ ticket' = ticket
        /\ entry'[t] = e
    BY DEF DeqLoad, Goto, TypeOK, Word, shared
  <1>3. /\ pc'[t] = "d_or" => e.cyc = c
        /\ pc'[t] = "d_cas" => e.cyc < c
        /\ pc'[t] = "d_tail" => e.cyc # c /\ (e.cyc >= c \/ (IsLive(e) /\ ~e.safe))
    BY TicketFacts DEF DeqLoad, Goto, TypeOK, Word
  <1>4. Looking(ticket[t]) /\ ticket[t] \in 0 .. head - 1
    BY <1>2, TicketFacts DEF Looking, DeqSlot, RingInv, TicketsOk, TypeOK
  <1>5. \A h : h # ticket[t] \/ pc'[t] \in DeqSlot => (Looking(h)' <=> Looking(h))
    BY <1>1, <1>2 DEF Others, Looking, DeqSlot
  <1>6. pc'[t] = "d_tail" => ~Looking(ticket[t])'
    BY <1>1, <1>2 DEF Others, Looking, DeqSlot, RingInv, TicketsOk
  <1>7. \A h : Looking(h)' => Looking(h)
    BY <1>4, <1>5
  <1>8. \A h : Passed(h) => Passed(h)'
    BY <1>2, <1>7 DEF Passed
  <1>9. \A h : Passed(h)' => Passed(h) \/ (h = ticket[t] /\ pc'[t] = "d_tail")
    BY <1>2, <1>5 DEF Passed, DeqSlot
  <1>10. pc'[t] = "d_or" => IsLive(e)
    <2> SUFFICES ASSUME e.cyc = c, ~IsLive(e) PROVE FALSE
      BY <1>3
    <2>1. Map(ticket[t]) \in Slots /\ e.cyc >= 0 /\ TicketOf(Map(ticket[t])) = ticket[t]
      BY TicketFacts, SlotOfTicket DEF Word, TicketOf
    <2>2. Passed(ticket[t])
      BY <2>1 DEF RingInv, SlotsOk, Word
    <2> QED BY <1>4, <2>2 DEF Passed
  <1> HIDE DEF e, c
  <1>11. TicketsOk'
    BY <1>1, <1>2 DEF RingInv, TicketsOk, Others, DeqSlot
  <1>12. SlotsOk'
    BY <1>2, <1>8 DEF RingInv, SlotsOk, IsLive, TicketOf
  <1>13. DequeueOk'
    BY <1>1, <1>2, <1>3, <1>10 DEF RingInv, DequeueOk, Others, Word, IsLive, e, c
  <1>14. EnqueueOk'
    BY <1>1, <1>2 DEF RingInv, EnqueueOk, Others, Word, EnqBefore, IsLive
  <1>15. ClosedBehindHead'
    <2> SUFFICES ASSUME NEW h \in 0 .. head - 1, Passed(h)'
                 PROVE  array[Map(h)].cyc >= Cycle(h) \/ ~array[Map(h)].safe
      BY <1>2 DEF ClosedBehindHead
    <2>1. CASE Passed(h)
      BY <2>1 DEF RingInv, ClosedBehindHead
    <2>2. CASE h = ticket[t] /\ pc'[t] = "d_tail"
      BY <1>3, <2>2 DEF e, c, Word
    <2> QED BY <1>9, <2>1, <2>2
  <1>16. InsertInTime'
    <2> SUFFICES ASSUME NEW u \in Threads, pc'[u] \in {"e_fin", "e_cas"}, Word(u)' = entry'[u],
                        NEW h \in 0 .. head - 1, Passed(h)', Map(h) = Map(ticket[u])
                 PROVE  Cycle(h) < Cycle(ticket[u])
      BY <1>2 DEF InsertInTime
    <2>1. u # t /\ pc[u] = pc'[u] /\ entry'[u] = entry[u] /\ Word(u)' = Word(u)
      BY <1>1, <1>2 DEF Others, Word
    <2>2. CASE Passed(h)
      BY <2>1, <2>2 DEF RingInv, InsertInTime
    <2>3. CASE h = ticket[t] /\ pc'[t] = "d_tail"
      <3>1. e = entry[u]
        BY <2>1, <2>3 DEF Word, e
      <3>2. ~IsLive(e) /\ e.cyc < Cycle(ticket[u])
        BY <2>1, <3>1 DEF RingInv, EnqueueOk
      <3>3. e.cyc >= c
        BY <1>3, <2>3, <3>2
      <3> QED BY <2>3, <3>2, <3>3, TicketFacts DEF c, e
    <2> QED BY <1>9, <2>2, <2>3
  <1>17. NoOrphan'
    <2> SUFFICES ASSUME NEW r \in Slots, IsLive(array[r]), TicketOf(r) < head
                 PROVE  Looking(TicketOf(r))'
      BY <1>2 DEF NoOrphan, IsLive, Looking, TicketOf
    <2>1. TicketOf(r)' = TicketOf(r)
      BY <1>2 DEF TicketOf
    <2>2. Looking(TicketOf(r))
      BY DEF RingInv, NoOrphan, Looking
    <2>3. CASE TicketOf(r) # ticket[t] \/ pc'[t] \in DeqSlot
      BY <1>5, <2>1, <2>2, <2>3
    <2>4. CASE TicketOf(r) = ticket[t]
      <3>1. array[r].cyc \in Nat
        BY DEF RingInv, SlotsOk, TypeOK, Entry
      <3>2. r = Map(ticket[t]) /\ array[r].cyc = c
        BY <2>4, <3>1, TicketOfSlot DEF TicketOf, c
      <3>3. pc'[t] # "d_tail"
        BY <1>3, <3>2 DEF e, Word
      <3> QED BY <1>2, <2>3, <3>3 DEF DeqSlot
    <2> QED BY <2>3, <2>4
  <1> QED BY <1>11, <1>12, <1>13, <1>14, <1>15, <1>16, <1>17 DEF RingInv

\* The dequeue of one ticket leaves its slot, the others stay.
LEMMA LeaveSlot ==
  ASSUME TypeOK, RingInv, NEW t \in Threads, Others(t), head' = head,
         pc[t] \in DeqSlot, pc'[t] \notin DeqSlot
  PROVE  /\ ticket[t] \in 0 .. head - 1
         /\ \A h : Looking(h)' <=> Looking(h) /\ h # ticket[t]
         /\ \A h : Passed(h)' <=> Passed(h) \/ h = ticket[t]
         /\ TicketsOk'
  <1>1. ticket[t] \in 0 .. head - 1
    BY TicketFacts DEF RingInv, TicketsOk, TypeOK
  <1>2. \A h : Looking(h)' <=> Looking(h) /\ h # ticket[t]
    BY DEF Others, Looking, RingInv, TicketsOk
  <1>3. \A h : Passed(h)' <=> Passed(h) \/ h = ticket[t]
    <2>1. Looking(ticket[t]) /\ ticket[t] < head
      BY <1>1 DEF Looking, TypeOK
    <2> QED BY <1>2, <2>1 DEF Passed
  <1>4. TicketsOk'
    BY DEF RingInv, TicketsOk, Others
  <1> QED BY <1>1, <1>2, <1>3, <1>4

\* The fetch_or empties the slot that the entry was loaded from.
LEMMA DeqOrStep ==
  ASSUME TypeOK, RingInv, NEW t \in Threads, DeqOr(t)
  PROVE  RingInv'
  <1> DEFINE s == Map(ticket[t])
             c == Cycle(ticket[t])
  <1>1. Others(t)
    BY OthersStep DEF Step, DeqStep
  <1>2. /\ pc[t] = "d_or" /\ pc'[t] = "idle" /\ head' = head
        /\ array' = [array EXCEPT ![s].idx = Bot]
    BY DEF DeqOr, Return, Goto, TypeOK
  <1>3. s \in Slots /\ c \in Nat /\ ticket[t] = TicketAt(c, s) /\ array[s] \in Entry
    BY SlotOfTicket, TicketFacts DEF Word
  <1>4. IsLive(array[s]) /\ array[s].cyc = c
    BY <1>2 DEF RingInv, DequeueOk, Word
  <1>5. /\ array'[s].cyc = c /\ array'[s].safe = array[s].safe /\ ~IsLive(array'[s])
        /\ \A r \in Slots \ {s} : array'[r] = array[r]
    BY <1>2, <1>3, <1>4 DEF IsLive, TypeOK, Entry
  <1>6. /\ \A h : Looking(h)' <=> Looking(h) /\ h # ticket[t]
        /\ \A h : Passed(h)' <=> Passed(h) \/ h = ticket[t]
        /\ TicketsOk'
    BY <1>1, <1>2, LeaveSlot DEF DeqSlot
  <1>7. \A r \in Slots : array'[r].cyc = array[r].cyc /\ array'[r].safe = array[r].safe
    BY <1>4, <1>5
  <1> HIDE DEF s, c
  <1>8. SlotsOk'
    <2> SUFFICES ASSUME NEW r \in Slots, NEW h, h = TicketAt(array'[r].cyc, r)
                 PROVE  /\ IsLive(array'[r]) => array'[r].cyc >= 0
                        /\ ~IsLive(array'[r]) /\ array'[r].cyc >= 0 => Passed(h)'
      BY DEF SlotsOk, IsLive, TicketOf
    <2>1. CASE r = s
      BY <1>3, <1>5, <1>6, <2>1
    <2>2. CASE r # s
      BY <1>5, <1>6, <2>2 DEF RingInv, SlotsOk, TicketOf
    <2> QED BY <2>1, <2>2
  <1>9. DequeueOk'
    <2> SUFFICES ASSUME NEW u \in Threads, u # t
                 PROVE  /\ pc[u] = "d_or" => /\ IsLive(Word(u)')
                                             /\ Word(u)'.cyc = Cycle(ticket[u])
                                             /\ Word(u)'.idx = entry[u].idx
                        /\ pc[u] = "d_cas" => entry[u].cyc < Cycle(ticket[u])
      BY <1>1, <1>2 DEF Others, DequeueOk, IsLive
    <2>1. ticket'[u] = ticket[u]
      BY <1>1 DEF Others
    <2>2. pc[u] = "d_or" => Map(ticket[u]) # s
      <3> SUFFICES ASSUME pc[u] = "d_or", Map(ticket[u]) = s PROVE FALSE
        OBVIOUS
      <3>1. Cycle(ticket[u]) = c
        BY <1>4 DEF RingInv, DequeueOk, Word
      <3>2. ticket[u] = ticket[t]
        BY <1>3, <3>1, TicketFacts, SlotOfTicket
      <3> QED BY <1>2, <3>2 DEF RingInv, TicketsOk, DeqSlot
    <2> QED BY <1>5, <2>1, <2>2, TicketFacts DEF RingInv, DequeueOk, Word
  <1>10. EnqueueOk'
    <2> SUFFICES ASSUME NEW u \in Threads, u # t
                 PROVE  /\ pc[u] \in EnqBefore => eidx[u] \in Indices
                        /\ pc[u] \in {"e_head", "e_fin", "e_cas"} =>
                             /\ ~IsLive(entry[u])
                             /\ entry[u].cyc < Cycle(ticket[u])
                             /\ Word(u)'.cyc >= entry[u].cyc
                             /\ Word(u)'.cyc = entry[u].cyc => ~IsLive(Word(u)')
      BY <1>1, <1>2 DEF Others, EnqueueOk, IsLive, EnqBefore
    <2>1. ticket'[u] = ticket[u]
      BY <1>1 DEF Others
    <2>2. Word(u)'.cyc = Word(u).cyc /\ (IsLive(Word(u)') => IsLive(Word(u)))
      BY <1>5, <1>7, <2>1, TicketFacts DEF Word
    <2> QED BY <2>2 DEF RingInv, EnqueueOk
  <1>11. ClosedBehindHead'
    <2> SUFFICES ASSUME NEW h \in 0 .. head - 1, Passed(h) \/ h = ticket[t]
                 PROVE  array[Map(h)].cyc >= Cycle(h) \/ ~array[Map(h)].safe
      BY <1>2, <1>6, <1>7, SlotOfTicket DEF ClosedBehindHead, TypeOK
    <2> QED BY <1>3, <1>4 DEF RingInv, ClosedBehindHead, s, c
  <1>12. InsertInTime'
    <2> SUFFICES ASSUME NEW u \in Threads, u # t, pc[u] \in {"e_fin", "e_cas"},
                        Word(u)' = entry[u],
                        NEW h \in 0 .. head - 1, Passed(h) \/ h = ticket[t],
                        Map(h) = Map(ticket[u])
                 PROVE  Cycle(h) < Cycle(ticket[u])
      BY <1>1, <1>2, <1>6 DEF Others, InsertInTime
    <2>1. ticket'[u] = ticket[u]
      BY <1>1 DEF Others
    <2>2. Map(ticket[u]) # s
      <3> SUFFICES ASSUME Map(ticket[u]) = s PROVE FALSE
        OBVIOUS
      <3>1. array'[s] = entry[u] /\ array[s] = Word(u)
        BY <2>1 DEF Word
      <3>2. Word(u).cyc = entry[u].cyc
        BY <1>4, <1>5, <3>1
      <3> QED BY <1>4, <3>1, <3>2 DEF RingInv, EnqueueOk
    <2>3. Word(u)' = Word(u)
      BY <1>5, <2>1, <2>2, TicketFacts DEF Word
    <2>4. h # ticket[t]
      BY <2>2 DEF s
    <2> QED BY <2>3, <2>4 DEF RingInv, InsertInTime
  <1>13. NoOrphan'
    <2> SUFFICES ASSUME NEW r \in Slots, NEW h, h = TicketAt(array'[r].cyc, r),
                        IsLive(array'[r]), h < head
                 PROVE  Looking(h)'
      BY <1>2 DEF NoOrphan, Looking, TicketOf, IsLive
    <2>1. r # s /\ array'[r] = array[r]
      BY <1>5
    <2>2. Looking(TicketOf(r))
      BY <2>1 DEF RingInv, NoOrphan, Looking, TicketOf
    <2>3. array[r].cyc \in Nat
      BY <2>1 DEF RingInv, SlotsOk, TypeOK, Entry
    <2>4. TicketOf(r) # ticket[t]
      BY <2>1, <2>3, TicketOfSlot DEF TicketOf, s
    <2> QED BY <1>6, <2>1, <2>2, <2>4 DEF TicketOf
  <1> QED BY <1>6, <1>8, <1>9, <1>10, <1>11, <1>12, <1>13 DEF RingInv

\* The compare_exchange closes the slot: by the safe bit if it is occupied,
\* by the cycle if it is free.
LEMMA DeqCasOkStep ==
  ASSUME TypeOK, RingInv, NEW t \in Threads, DeqCasOk(t)
  PROVE  RingInv'
  <1> DEFINE s == Map(ticket[t])
             c == Cycle(ticket[t])
  <1>1. Others(t)
    BY OthersStep DEF Step, DeqStep
  <1>2. /\ pc[t] = "d_cas" /\ pc'[t] = "d_tail" /\ head' = head /\ array[s] = entry[t]
        /\ array' = [array EXCEPT ![s] = Blocked(entry[t], ticket[t])]
        /\ ticket' = ticket /\ entry' = entry /\ eidx' = eidx
    BY DEF DeqCasOk, Goto, TypeOK, local
  <1>3. s \in Slots /\ c \in Nat /\ ticket[t] = TicketAt(c, s) /\ array[s] \in Entry
    BY SlotOfTicket, TicketFacts DEF Word
  <1>4. array[s].cyc < c
    BY <1>2 DEF RingInv, DequeueOk
  <1>5. /\ array'[s] = Blocked(array[s], ticket[t])
        /\ \A r \in Slots \ {s} : array'[r] = array[r]
    BY <1>2, <1>3 DEF TypeOK
  <1>6. /\ array'[s].idx = array[s].idx
        /\ IsLive(array[s]) => array'[s].cyc = array[s].cyc /\ ~array'[s].safe
        /\ ~IsLive(array[s]) => array'[s].cyc = c /\ array'[s].safe = array[s].safe
    BY <1>3, <1>5 DEF Blocked, IsLive, Entry
  <1>7. /\ ticket[t] \in 0 .. head - 1
        /\ \A h : Looking(h)' <=> Looking(h) /\ h # ticket[t]
        /\ \A h : Passed(h)' <=> Passed(h) \/ h = ticket[t]
        /\ TicketsOk'
    BY <1>1, <1>2, LeaveSlot DEF DeqSlot
  <1>8. array[s].cyc \in Int /\ array'[s].cyc >= array[s].cyc
    BY <1>3, <1>4, <1>6 DEF Entry
  <1> HIDE DEF s, c
  <1>9. SlotsOk'
    <2> SUFFICES ASSUME NEW r \in Slots, NEW h, h = TicketAt(array'[r].cyc, r)
                 PROVE  /\ IsLive(array'[r]) => array'[r].cyc >= 0
                        /\ ~IsLive(array'[r]) /\ array'[r].cyc >= 0 => Passed(h)'
      BY DEF SlotsOk, IsLive, TicketOf
    <2>1. CASE r = s
      BY <1>3, <1>6, <1>7, <2>1 DEF RingInv, SlotsOk, IsLive
    <2>2. CASE r # s
      BY <1>5, <1>7, <2>2 DEF RingInv, SlotsOk, TicketOf
    <2> QED BY <2>1, <2>2
  <1>10. DequeueOk'
    <2> SUFFICES ASSUME NEW u \in Threads, u # t
                 PROVE  /\ pc[u] = "d_or" => /\ IsLive(Word(u)')
                                             /\ Word(u)'.cyc = Cycle(ticket[u])
                                             /\ Word(u)'.idx = entry[u].idx
                        /\ pc[u] = "d_cas" => entry[u].cyc < Cycle(ticket[u])
      BY <1>1, <1>2 DEF Others, DequeueOk, IsLive
    <2>1. CASE Map(ticket[u]) = s
      BY <1>2, <1>6, <2>1 DEF RingInv, DequeueOk, Word, IsLive
    <2>2. CASE Map(ticket[u]) # s
      BY <1>2, <1>5, <2>2, TicketFacts DEF RingInv, DequeueOk, Word
    <2> QED BY <2>1, <2>2
  <1>11. EnqueueOk'
    <2> SUFFICES ASSUME NEW u \in Threads, u # t
                 PROVE  /\ pc[u] \in EnqBefore => eidx[u] \in Indices
                        /\ pc[u] \in {"e_head", "e_fin", "e_cas"} =>
                             /\ ~IsLive(entry[u])
                             /\ entry[u].cyc < Cycle(ticket[u])
                             /\ Word(u)'.cyc >= entry[u].cyc
                             /\ Word(u)'.cyc = entry[u].cyc => ~IsLive(Word(u)')
      BY <1>1, <1>2 DEF Others, EnqueueOk, IsLive, EnqBefore
    <2>1. CASE Map(ticket[u]) = s
      <3>1. Word(u) = array[s] /\ Word(u)' = array'[s]
        BY <1>2, <2>1 DEF Word
      <3>2. Word(u)'.cyc >= Word(u).cyc /\ Word(u)'.cyc \in Int
        BY <1>3, <1>6, <1>8, <3>1
      <3>3. IsLive(Word(u)') => IsLive(Word(u)) /\ Word(u)'.cyc = Word(u).cyc
        BY <1>6, <3>1 DEF IsLive
      <3> QED BY <3>2, <3>3, TicketFacts DEF RingInv, EnqueueOk
    <2>2. CASE Map(ticket[u]) # s
      <3>1. Word(u)' = Word(u)
        BY <1>2, <1>5, <2>2, TicketFacts DEF Word
      <3> QED BY <3>1 DEF RingInv, EnqueueOk
    <2> QED BY <2>1, <2>2
  <1>12. ClosedBehindHead'
    <2> SUFFICES ASSUME NEW h \in 0 .. head - 1, Passed(h) \/ h = ticket[t]
                 PROVE  array'[Map(h)].cyc >= Cycle(h) \/ ~array'[Map(h)].safe
      BY <1>2, <1>7 DEF ClosedBehindHead
    <2>1. Map(h) \in Slots /\ Cycle(h) \in Nat
      BY SlotOfTicket DEF TypeOK
    <2>2. CASE Map(h) # s
      BY <1>5, <2>1, <2>2 DEF RingInv, ClosedBehindHead, s
    <2>3. CASE Map(h) = s
      <3>1. CASE IsLive(array[s])
        BY <1>6, <2>3, <3>1
      <3>2. CASE ~IsLive(array[s]) /\ h = ticket[t]
        BY <1>3, <1>6, <2>3, <3>2 DEF c
      <3>3. CASE ~IsLive(array[s]) /\ Passed(h)
        BY <1>3, <1>4, <1>6, <1>8, <2>1, <2>3, <3>3 DEF RingInv, ClosedBehindHead
      <3> QED BY <3>1, <3>2, <3>3
    <2> QED BY <2>2, <2>3
  <1>13. InsertInTime'
    <2> SUFFICES ASSUME NEW u \in Threads, u # t, pc[u] \in {"e_fin", "e_cas"},
                        Word(u)' = entry[u],
                        NEW h \in 0 .. head - 1, Passed(h) \/ h = ticket[t],
                        Map(h) = Map(ticket[u])
                 PROVE  Cycle(h) < Cycle(ticket[u])
      BY <1>1, <1>2, <1>7 DEF Others, InsertInTime
    <2>1. Map(ticket[u]) # s
      <3> SUFFICES ASSUME Map(ticket[u]) = s PROVE FALSE
        OBVIOUS
      <3>1. array'[s] = entry[u] /\ array[s] = Word(u)
        BY <1>2 DEF Word
      <3>2. ~IsLive(entry[u]) /\ Word(u).cyc >= entry[u].cyc
        BY DEF RingInv, EnqueueOk
      <3>3. ~IsLive(array[s]) /\ array'[s].cyc = c
        BY <1>6, <3>1, <3>2 DEF IsLive
      <3> QED BY <1>3, <1>4, <1>8, <3>1, <3>2, <3>3
    <2>2. Word(u)' = Word(u)
      BY <1>2, <1>5, <2>1, TicketFacts DEF Word
    <2>3. h # ticket[t]
      BY <2>1 DEF s
    <2> QED BY <2>2, <2>3 DEF RingInv, InsertInTime
  <1>14. NoOrphan'
    <2> SUFFICES ASSUME NEW r \in Slots, NEW h, h = TicketAt(array'[r].cyc, r),
                        IsLive(array'[r]), h < head
                 PROVE  Looking(h)'
      BY <1>2 DEF NoOrphan, Looking, TicketOf, IsLive
    <2>1. IsLive(array[r]) /\ array'[r].cyc = array[r].cyc
      BY <1>5, <1>6 DEF IsLive
    <2>2. Looking(TicketOf(r))
      BY <2>1 DEF RingInv, NoOrphan, Looking, TicketOf
    <2>3. array[r].cyc \in Nat
      BY <2>1 DEF RingInv, SlotsOk, TypeOK, Entry
    <2>4. TicketOf(r) # ticket[t]
      <3>1. Map(TicketOf(r)) = r /\ Cycle(TicketOf(r)) = array[r].cyc
        BY <2>3, TicketOfSlot DEF TicketOf
      <3> QED BY <1>3, <1>4, <3>1 DEF s, c
    <2> QED BY <1>7, <2>1, <2>2, <2>4 DEF TicketOf
  <1> QED BY <1>7, <1>9, <1>10, <1>11, <1>12, <1>13, <1>14 DEF RingInv

-----------------------------------------------------------------------------
(* Who has an index.                                                       *)

\* No index changes hands.
LEMMA NobodyMoves ==
  ASSUME Ownership, pool' = pool,
         \A s \in Slots, i \in Indices : Storing(s, i)' <=> Storing(s, i),
         \A u \in Threads, i \in Indices : Holding(u, i)' <=> Holding(u, i)
  PROVE  Ownership'
  BY DEF Ownership, OneOwner

\* Only index m changes hands.
LEMMA IndexMoves ==
  ASSUME Ownership, NEW m \in Indices, OneOwner(m)',
         \A i \in Indices \ {m} :
           /\ i \in pool' <=> i \in pool
           /\ \A s \in Slots : Storing(s, i)' <=> Storing(s, i)
           /\ \A u \in Threads : Holding(u, i)' <=> Holding(u, i)
  PROVE  Ownership'
  <1> SUFFICES ASSUME NEW i \in Indices, i # m PROVE OneOwner(i)'
    BY DEF Ownership
  <1> QED BY DEF Ownership, OneOwner

\* Every step leaves each index in one place.
LEMMA OwnershipStep ==
  ASSUME TypeOK, RingInv, Ownership, NEW t \in Threads, Invoke(t) \/ Step(t)
  PROVE  Ownership'
  <1> DEFINE s == Map(ticket[t])
  <1>0. Others(t) /\ s \in Slots /\ array[s] \in Entry
    BY OthersStep, TicketFacts DEF Word
  <1> HIDE DEF s
  <1>1. ASSUME UNCHANGED <<array, pool>>,
               pc'[t] \in EnqBefore <=> pc[t] \in EnqBefore,
               pc[t] \in EnqBefore => eidx'[t] = eidx[t]
        PROVE  Ownership'
    BY <1>0, <1>1, NobodyMoves DEF Others, Holding, Storing
  <1>2. ASSUME NEW i \in pool, EnqCall(t, i) PROVE Ownership'
    <2>1. pool' = pool \ {i} /\ i \in Indices /\ array' = array
      BY <1>2 DEF EnqCall, TypeOK, shared
    <2>2. \A u \in Threads, j \in Indices : Holding(u, j)' <=> Holding(u, j) \/ (u = t /\ j = i)
      BY <1>0, <1>2 DEF EnqCall, Call, Goto, TypeOK, Others, Holding, EnqBefore
    <2>3. \A r \in Slots, j \in Indices : Storing(r, j)' <=> Storing(r, j)
      BY <2>1 DEF Storing
    <2> QED BY <2>1, <2>2, <2>3 DEF Ownership, OneOwner
  <1>3. CASE DeqCall(t) \/ Finalize(t) \/ Refill(t)
    BY <1>1, <1>3 DEF DeqCall, Finalize, Refill, Call, Goto, TypeOK, EnqBefore, shared, local
  <1>4. CASE EnqTail(t) \/ EnqLoad(t) \/ EnqHead(t) \/ EnqCasFail(t)
    BY <1>1, <1>4
    DEF EnqTail, EnqLoad, EnqHead, EnqCasFail, Insertable, Goto, TypeOK, EnqBefore, shared, local,
        client
  <1>5. CASE EnqFin(t)
    <2>1. CASE ~is_finalized
      BY <1>1, <1>5, <2>1 DEF EnqFin, Goto, TypeOK, EnqBefore, shared, local, client
    <2>2. CASE is_finalized
      <3>1. pool' = pool \union {eidx[t]} /\ array' = array /\ pc[t] = "e_fin" /\ pc'[t] = "idle"
        BY <1>5, <2>2 DEF EnqFin, Return, Goto, TypeOK, shared
      <3>2. eidx[t] \in Indices /\ Holding(t, eidx[t])
        BY <3>1 DEF RingInv, EnqueueOk, EnqBefore, Holding
      <3>3. \A u \in Threads, j \in Indices : Holding(u, j)' <=> Holding(u, j) /\ u # t
        BY <1>0, <3>1 DEF Others, Holding, EnqBefore
      <3>4. \A j \in Indices : Holding(t, j) => j = eidx[t]
        BY DEF Holding
      <3>5. \A r \in Slots, j \in Indices : Storing(r, j)' <=> Storing(r, j)
        BY <3>1 DEF Storing
      <3> QED BY <3>1, <3>2, <3>3, <3>4, <3>5 DEF Ownership, OneOwner
    <2> QED BY <1>5, <2>1, <2>2 DEF EnqFin
  <1>6. CASE EnqCasOk(t)
    <2>1. /\ pool' = pool /\ pc[t] = "e_cas" /\ pc'[t] = "e_thr" /\ array[s] = entry[t]
          /\ array' = [array EXCEPT ![s] = NewEntry(t)]
      BY <1>6 DEF EnqCasOk, Goto, TypeOK, client, s
    <2>2. eidx[t] \in Indices /\ Holding(t, eidx[t]) /\ ~IsLive(array[s])
      BY <2>1 DEF RingInv, EnqueueOk, EnqBefore, Holding
    <2>0. PICK m \in Indices : m = eidx[t]
      BY <2>2
    <2>3. \A u \in Threads, j \in Indices : Holding(u, j)' <=> Holding(u, j) /\ u # t
      BY <1>0, <2>1 DEF Others, Holding, EnqBefore
    <2>4. \A j \in Indices : Holding(t, j) => j = m
      BY <2>0 DEF Holding
    <2>5. array'[s].idx = eidx[t] /\ \A r \in Slots \ {s} : array'[r] = array[r]
      BY <1>0, <2>1 DEF NewEntry, TypeOK
    <2>6. \A r \in Slots, j \in Indices :
            Storing(r, j)' <=> IF r = s THEN j = m ELSE Storing(r, j)
      BY <2>0, <2>5 DEF Storing
    <2>7. \A j \in Indices : ~Storing(s, j)
      BY <2>2, <2>0, IndexFacts DEF Storing, IsLive
    <2>8. OneOwner(m)
      BY <2>2, <2>0 DEF Ownership
    <2>9. OneOwner(m)'
      BY <1>0, <2>1, <2>2, <2>0, <2>3, <2>6, <2>8 DEF OneOwner
    <2> QED BY <2>1, <2>2, <2>0, <2>3, <2>4, <2>6, <2>7, <2>9, IndexMoves
  <1>7. CASE EnqThrLoad(t) \/ EnqThrStore(t) \/ DeqThr(t) \/ DeqHead(t)
    BY <1>1, <1>7
    DEF EnqThrLoad, EnqThrStore, DeqThr, DeqHead, Return, Goto, TypeOK, EnqBefore, shared, local,
        client
  <1>8. CASE DeqLoad(t) \/ DeqCasFail(t) \/ DeqTail(t) \/ DeqNone(t) \/ DeqSub(t)
    BY <1>1, <1>8
    DEF DeqLoad, DeqCasFail, DeqTail, DeqNone, DeqSub, Return, Goto, TypeOK, EnqBefore, shared,
        local, client
  <1>9. CASE DeqOr(t)
    <2>1. /\ pc[t] = "d_or" /\ pc'[t] = "idle" /\ pool' = pool \union {entry[t].idx}
          /\ array' = [array EXCEPT ![s].idx = Bot]
      BY <1>9 DEF DeqOr, Return, Goto, TypeOK, s
    <2>2. IsLive(array[s]) /\ array[s].idx = entry[t].idx /\ entry[t].idx \in Indices
      BY <1>0, <2>1 DEF RingInv, DequeueOk, Word, IsLive, Entry, s
    <2>0. PICK m \in Indices : m = entry[t].idx
      BY <2>2
    <2>3. \A u \in Threads, j \in Indices : Holding(u, j)' <=> Holding(u, j)
      BY <1>0, <2>1 DEF Others, Holding, EnqBefore
    <2>4. array'[s].idx = Bot /\ \A r \in Slots \ {s} : array'[r] = array[r]
      BY <1>0, <2>1 DEF TypeOK, Entry
    <2>5. \A r \in Slots, j \in Indices : Storing(r, j)' <=> Storing(r, j) /\ r # s
      BY <2>4, IndexFacts DEF Storing
    <2>6. \A j \in Indices : Storing(s, j) <=> j = m
      BY <2>2, <2>0 DEF Storing
    <2>7. OneOwner(m)
      BY <2>2, <2>0 DEF Ownership
    <2>8. OneOwner(m)'
      BY <1>0, <2>1, <2>2, <2>0, <2>3, <2>5, <2>6, <2>7 DEF OneOwner
    <2> QED BY <2>1, <2>2, <2>0, <2>3, <2>5, <2>6, <2>8, IndexMoves
  <1>10. CASE DeqCasOk(t)
    <2>1. /\ pool' = pool /\ pc[t] = "d_cas" /\ pc'[t] = "d_tail" /\ array[s] = entry[t]
          /\ array' = [array EXCEPT ![s] = Blocked(entry[t], ticket[t])]
      BY <1>10 DEF DeqCasOk, Goto, TypeOK, client, s
    <2>2. \A u \in Threads, j \in Indices : Holding(u, j)' <=> Holding(u, j)
      BY <1>0, <2>1 DEF Others, Holding, EnqBefore
    <2>3. \A r \in Slots : array'[r].idx = array[r].idx
      BY <1>0, <2>1 DEF Blocked, TypeOK, Entry
    <2> QED BY <2>1, <2>2, <2>3, NobodyMoves DEF Storing
  <1>11. CASE CatchStep(t)
    BY <1>1, <1>11
    DEF CatchStep, CatchCasOk, CatchCasFail, CatchHead, CatchTail, Goto, TypeOK, EnqBefore, shared,
        local, client
  <1> QED
    BY <1>2, <1>3, <1>4, <1>5, <1>6, <1>7, <1>8, <1>9, <1>10, <1>11
    DEF Invoke, Step, EnqStep, DeqStep

-----------------------------------------------------------------------------
(* catchup().                                                              *)

\* Every step keeps what catchup() relies on.
LEMMA CatchupStep ==
  ASSUME TypeOK, RingInv, CatchupOk, NEW t \in Threads, Invoke(t) \/ Step(t)
  PROVE  CatchupOk'
  <1>0. /\ Others(t)
        /\ ticket[t] \in Nat /\ head \in Nat /\ tail \in Nat
        /\ seen[t] \in [tail : Nat, head : Nat]
        /\ \A u \in Threads : ticket[u] \in Nat /\ seen[u].head \in Nat
    BY OthersStep DEF TypeOK
  <1> DEFINE Mine ==
        /\ pc[t] \in DeqSlot \union {"d_tail"} => ticket[t] < head
        /\ pc[t] \in Catching => seen[t].head <= head
        /\ pc[t] = "c_cas" => seen[t].tail <= seen[t].head
  <1>1. ASSUME head' \in {head, head + 1}, Mine' PROVE CatchupOk'
    <2> SUFFICES ASSUME NEW u \in Threads, u # t
                 PROVE  /\ pc'[u] \in DeqSlot \union {"d_tail"} => ticket'[u] < head'
                        /\ pc'[u] \in Catching => seen'[u].head <= head'
                        /\ pc'[u] = "c_cas" => seen'[u].tail <= seen'[u].head
      BY <1>1 DEF CatchupOk
    <2> QED BY <1>0, <1>1 DEF Others, CatchupOk
  <1>2. Mine
    BY DEF CatchupOk
  <1> USE DEF Goto, Return, Call, TypeOK, DeqSlot, Catching, shared, local
  <1>3. ASSUME NEW i \in pool, EnqCall(t, i) PROVE CatchupOk'
    BY <1>1, <1>3 DEF EnqCall
  <1>4. CASE DeqCall(t) \/ Finalize(t) \/ Refill(t)
    BY <1>1, <1>4 DEF DeqCall, Finalize, Refill
  <1>5. CASE EnqTail(t) \/ EnqLoad(t) \/ EnqHead(t) \/ EnqFin(t)
    BY <1>1, <1>5 DEF EnqTail, EnqLoad, EnqHead, EnqFin, Insertable
  <1>6. CASE EnqCasOk(t) \/ EnqCasFail(t) \/ EnqThrLoad(t) \/ EnqThrStore(t)
    BY <1>1, <1>6 DEF EnqCasOk, EnqCasFail, EnqThrLoad, EnqThrStore
  <1>7. CASE DeqThr(t) \/ DeqOr(t) \/ DeqCasFail(t) \/ DeqNone(t) \/ DeqSub(t)
    BY <1>1, <1>2, <1>7 DEF DeqThr, DeqOr, DeqCasFail, DeqNone, DeqSub
  <1>8. CASE DeqHead(t)
    BY <1>0, <1>1, <1>8 DEF DeqHead
  <1>9. CASE DeqLoad(t) \/ DeqCasOk(t)
    BY <1>1, <1>2, <1>9 DEF DeqLoad, DeqCasOk
  <1>10. CASE DeqTail(t)
    <2>1. head' = head /\ ticket'[t] = ticket[t] /\ ticket[t] + 1 <= head
      BY <1>0, <1>2, <1>10 DEF DeqTail
    <2>2. seen'[t] = [tail |-> tail, head |-> ticket[t] + 1]
      BY <1>10 DEF DeqTail
    <2>3. pc'[t] = "d_sub" \/ (pc'[t] = "c_cas" /\ tail <= ticket[t] + 1)
      BY <1>10 DEF DeqTail
    <2> QED BY <1>1, <2>1, <2>2, <2>3
  <1>11. CASE CatchCasOk(t) \/ CatchCasFail(t)
    BY <1>1, <1>2, <1>11 DEF CatchCasOk, CatchCasFail
  <1>12. CASE CatchHead(t)
    BY <1>0, <1>1, <1>2, <1>12 DEF CatchHead
  <1>13. CASE CatchTail(t)
    BY <1>0, <1>1, <1>2, <1>13 DEF CatchTail
  <1> QED
    BY <1>3, <1>4, <1>5, <1>6, <1>7, <1>8, <1>9, <1>10, <1>11, <1>12, <1>13
    DEF Invoke, Step, EnqStep, DeqStep, CatchStep

-----------------------------------------------------------------------------
(* The invariant is inductive.                                             *)

\* The invariant holds of a new ring.
LEMMA InitInv == Init => IInv
  <1> SUFFICES ASSUME Init PROVE IInv
    OBVIOUS
  <1>1. TypeOK
    BY InitType
  <1>2. /\ head = 0
        /\ \A t \in Threads : pc[t] = "idle"
        /\ \A s \in Slots : array[s] = IF Full /\ s < Half
                                       THEN [cyc |-> 0, safe |-> TRUE, idx |-> s]
                                       ELSE Blank
    BY DEF Init
  <1>3. \A s \in Slots : s < Half <=> s \in Indices
    BY RingAssumption DEF Slots, Indices, N
  <1>4. \A s \in Slots : /\ array[s].idx = IF Full /\ s < Half THEN s ELSE Bot
                         /\ array[s].cyc = IF Full /\ s < Half THEN 0 ELSE -1
    <2> SUFFICES ASSUME NEW s \in Slots
                 PROVE  /\ array[s].idx = IF Full /\ s < Half THEN s ELSE Bot
                        /\ array[s].cyc = IF Full /\ s < Half THEN 0 ELSE -1
      OBVIOUS
    <2>1. CASE Full /\ s < Half
      <3>1. array[s] = [cyc |-> 0, safe |-> TRUE, idx |-> s]
        BY <1>2, <2>1
      <3> QED BY <2>1, <3>1
    <2>2. CASE ~(Full /\ s < Half)
      <3>1. array[s] = Blank
        BY <1>2, <2>2
      <3> QED BY <2>2, <3>1 DEF Blank
    <2> QED BY <2>1, <2>2
  <1>5. \A s \in Slots : array[s].cyc = IF IsLive(array[s]) THEN 0 ELSE -1
    BY <1>3, <1>4, IndexFacts DEF IsLive
  <1>6. SlotsOk
    BY <1>5 DEF SlotsOk
  <1>7. TicketsOk /\ DequeueOk /\ EnqueueOk /\ InsertInTime /\ CatchupOk
    BY <1>2
    DEF TicketsOk, DequeueOk, EnqueueOk, InsertInTime, CatchupOk, DeqSlot, EnqBefore, Catching
  <1>8. ClosedBehindHead
    BY <1>2 DEF ClosedBehindHead
  <1>9. NoOrphan
    <2>1. \A s \in Slots : IsLive(array[s]) => TicketOf(s) \in Nat
      BY <1>5, TicketOfSlot DEF TicketOf
    <2> QED BY <1>2, <2>1 DEF NoOrphan
  <1>10. Ownership
    <2> SUFFICES ASSUME NEW i \in Indices PROVE OneOwner(i)
      BY DEF Ownership
    <2>1. \A t \in Threads : ~Holding(t, i)
      BY <1>2 DEF Holding, EnqBefore
    <2>2. \A s \in Slots : Storing(s, i) <=> (Full /\ s = i)
      <3> SUFFICES ASSUME NEW s \in Slots PROVE Storing(s, i) <=> (Full /\ s = i)
        OBVIOUS
      <3>1. CASE Full /\ s < Half
        BY <1>4, <3>1 DEF Storing
      <3>2. CASE ~(Full /\ s < Half)
        BY <1>3, <1>4, <3>2, IndexFacts DEF Storing
      <3> QED BY <3>1, <3>2
    <2>3. pool = IF Full THEN {} ELSE Indices
      BY DEF Init
    <2>4. i \in Slots
      BY RingAssumption DEF Indices, Slots, N
    <2> QED BY <2>1, <2>2, <2>3, <2>4 DEF OneOwner
  <1> QED BY <1>1, <1>6, <1>7, <1>8, <1>9, <1>10 DEF IInv

\* Every step preserves what the invariant says of the slots.
LEMMA RingStep ==
  ASSUME TypeOK, RingInv, NEW t \in Threads, Invoke(t) \/ Step(t)
  PROVE  RingInv'
  <1>1. CASE QuietAction(t)
    <2>1. Quiet(t)
      BY <1>1, QuietActions DEF RingInv
    <2> QED BY <2>1, QuietStep
  <1>2. CASE EnqLoad(t) \/ EnqHead(t) \/ EnqCasOk(t)
    BY <1>2, EnqLoadStep, EnqHeadStep, EnqCasOkStep
  <1>3. CASE DeqHead(t) \/ DeqLoad(t)
    BY <1>3, DeqHeadStep, DeqLoadStep
  <1>4. CASE DeqOr(t) \/ DeqCasOk(t)
    BY <1>4, DeqOrStep, DeqCasOkStep
  <1> QED
    BY <1>1, <1>2, <1>3, <1>4 DEF QuietAction, Step, EnqStep, DeqStep

\* Every step preserves the invariant.
LEMMA NextInv ==
  ASSUME IInv, [Next]_vars
  PROVE  IInv'
  <1>1. ASSUME NEW t \in Threads, Invoke(t) \/ Step(t)
        PROVE  IInv'
    <2>1. TypeOK /\ RingInv /\ CatchupOk /\ Ownership
      BY DEF IInv, RingInv
    <2>2. TypeOK'
      BY <1>1, <2>1, TypeStep DEF RingInv
    <2>3. RingInv'
      BY <1>1, <2>1, RingStep
    <2>4. CatchupOk'
      BY <1>1, <2>1, CatchupStep
    <2>5. Ownership'
      BY <1>1, <2>1, OwnershipStep
    <2> QED BY <2>2, <2>3, <2>4, <2>5 DEF IInv, RingInv
  <1>2. CASE UNCHANGED vars
    BY <1>2
    DEF IInv, TypeOK, TicketsOk, SlotsOk, DequeueOk, EnqueueOk, ClosedBehindHead, InsertInTime,
        CatchupOk, NoOrphan, Ownership, OneOwner, Holding, Storing, Word, Looking, Passed,
        IsLive, TicketOf, vars, shared, local, client
  <1> QED BY <1>1, <1>2 DEF Next

\* The inductive invariant holds in every reachable state of the ring, for
\* every number of threads, every capacity and every bound.
THEOREM Invariance == Spec => []IInv
  <1>1. Init => IInv
    BY InitInv
  <1>2. IInv /\ [Next]_vars => IInv'
    BY NextInv
  <1> QED BY <1>1, <1>2, PTL DEF Spec

\* The variables keep their types; dequeue() never returns the index Bot.
THEOREM TypeCorrect == Spec => []TypeOK
  <1>1. IInv => TypeOK
    BY DEF IInv
  <1> QED BY <1>1, Invariance, PTL

\* Every index is always in exactly one place: the threads that dequeue()
\* gives an index to never share it.
THEOREM OwnershipCorrect == Spec => []Ownership
  <1>1. IInv => Ownership
    BY DEF IInv
  <1> QED BY <1>1, Invariance, PTL

\* An insertion is never left behind head: a live entry that head has passed
\* is still being looked at.
THEOREM NoOrphanCorrect == Spec => []NoOrphan
  <1>1. IInv => NoOrphan
    BY DEF IInv
  <1> QED BY <1>1, Invariance, PTL

\* Every step moves head and tail as TicketsFresh says.
LEMMA FreshStep ==
  ASSUME TypeOK, CatchupOk, [Next]_vars
  PROVE  [/\ head' >= head
          /\ tail' >= tail
          /\ tail' <= tail + 1 \/ tail' <= head]_<<head, tail>>
  <1> USE DEF TypeOK
  <1>0. CASE UNCHANGED <<head, tail>>
    BY <1>0
  <1>1. ASSUME NEW t \in Threads, EnqTail(t) PROVE tail' = tail + 1 /\ head' = head
    BY <1>1 DEF EnqTail
  <1>2. ASSUME NEW t \in Threads, DeqHead(t) PROVE tail' = tail /\ head' = head + 1
    BY <1>2 DEF DeqHead
  <1>3. ASSUME NEW t \in Threads, CatchCasOk(t)
        PROVE  head' = head /\ tail' >= tail /\ tail' <= head
    <2>1. pc[t] = "c_cas" /\ tail = seen[t].tail /\ tail' = seen[t].head /\ head' = head
      BY <1>3 DEF CatchCasOk, Goto
    <2> QED BY <2>1 DEF CatchupOk, Catching
  <1>4. ASSUME NEW t \in Threads, Invoke(t) PROVE UNCHANGED <<head, tail>>
    BY <1>4 DEF Invoke, EnqCall, DeqCall, Finalize, Refill, shared
  <1>5. ASSUME NEW t \in Threads, EnqStep(t), ~EnqTail(t) PROVE UNCHANGED <<head, tail>>
    BY <1>5
    DEF EnqStep, EnqLoad, EnqHead, EnqFin, EnqCasOk, EnqCasFail, EnqThrLoad, EnqThrStore, shared
  <1>6. ASSUME NEW t \in Threads, DeqStep(t), ~DeqHead(t), ~CatchCasOk(t)
        PROVE  UNCHANGED <<head, tail>>
    BY <1>6
    DEF DeqStep, CatchStep, DeqThr, DeqLoad, DeqOr, DeqCasOk, DeqCasFail, DeqTail, DeqNone, DeqSub,
        CatchCasFail, CatchHead, CatchTail, shared
  <1>7. UNCHANGED vars => UNCHANGED <<head, tail>>
    BY DEF vars, shared
  <1>8. CASE \E t \in Threads : EnqTail(t) \/ DeqHead(t) \/ CatchCasOk(t)
    <2>1. head \in Nat /\ tail \in Nat
      OBVIOUS
    <2> QED BY <1>1, <1>2, <1>3, <1>8, <2>1
  <1> QED BY <1>0, <1>4, <1>5, <1>6, <1>7, <1>8 DEF Next, Step

\* Tickets are never issued twice, and catchup() never moves tail past head.
THEOREM TicketsFreshCorrect == Spec => TicketsFresh
  <1>1. IInv /\ [Next]_vars => [/\ head' >= head
                                /\ tail' >= tail
                                /\ tail' <= tail + 1 \/ tail' <= head]_<<head, tail>>
    BY FreshStep DEF IInv
  <1> QED BY <1>1, Invariance, PTL DEF Spec, TicketsFresh

-----------------------------------------------------------------------------
(* The threshold: a dequeue past its first test is going to subtract once  *)
(* more, and only MaxDequeuers of them are at work.                        *)

\* The dequeues that are going to subtract from the threshold.
Debtors == {t \in Threads : pc[t] \in DeqAll \ {"d_thr"}}

FloorInv ==
  /\ Cardinality(Dequeuers) <= MaxDequeuers
  /\ \/ threshold - Cardinality(Debtors) >= -1
     \/ threshold - Cardinality(Debtors) >= -MaxDequeuers

\* Sets of threads are finite.
LEMMA Sizes ==
  ASSUME NEW D \in SUBSET Threads, NEW E \in SUBSET D
  PROVE  /\ IsFiniteSet(D) /\ IsFiniteSet(E)
         /\ Cardinality(D) \in Nat /\ Cardinality(E) \in Nat
         /\ Cardinality(E) <= Cardinality(D)
  <1>1. IsFiniteSet(D)
    BY ThreadsAssumption, FS_Subset
  <1>2. IsFiniteSet(E) /\ Cardinality(E) <= Cardinality(D)
    BY <1>1, FS_Subset
  <1> QED BY <1>1, <1>2, FS_CardinalityType

\* The debtors are some of the dequeuers.
LEMMA DebtorsFinite ==
  /\ IsFiniteSet(Dequeuers) /\ IsFiniteSet(Debtors)
  /\ Cardinality(Dequeuers) \in Nat /\ Cardinality(Debtors) \in Nat
  /\ Cardinality(Debtors) <= Cardinality(Dequeuers)
  <1>1. Dequeuers \in SUBSET Threads /\ Debtors \in SUBSET Dequeuers
    BY DEF Dequeuers, Debtors
  <1> QED BY <1>1, Sizes

\* One thread goes on, enters the set or leaves it.
LEMMA OneMoves ==
  ASSUME NEW S, NEW T, NEW x, IsFiniteSet(S)
  PROVE  /\ T = S \union {x} /\ x \notin S => Cardinality(T) = Cardinality(S) + 1
         /\ T = S \ {x} /\ x \in S => Cardinality(T) = Cardinality(S) - 1
  BY FS_AddElement, FS_RemoveElement

\* The ways in which a step moves its thread in and out of dequeue().
LEMMA MoveKinds ==
  ASSUME TypeOK, NEW t \in Threads, Others(t)
  PROVE  /\ (pc[t] \in DeqAll <=> pc'[t] \in DeqAll) => Dequeuers' = Dequeuers
         /\ (pc[t] \in DeqAll \ {"d_thr"} <=> pc'[t] \in DeqAll \ {"d_thr"}) => Debtors' = Debtors
         /\ pc[t] \notin DeqAll /\ pc'[t] \in DeqAll => Dequeuers' = Dequeuers \union {t}
         /\ pc[t] \in DeqAll /\ pc'[t] \notin DeqAll => Dequeuers' = Dequeuers \ {t}
         /\ pc[t] \notin DeqAll \ {"d_thr"} /\ pc'[t] \in DeqAll \ {"d_thr"}
              => Debtors' = Debtors \union {t}
         /\ pc[t] \in DeqAll \ {"d_thr"} /\ pc'[t] \notin DeqAll \ {"d_thr"}
              => Debtors' = Debtors \ {t}
  BY DEF Others, Dequeuers, Debtors

\* Every step preserves FloorInv: it pays a debt, or the threshold is not
\* negative after it.
LEMMA FloorStep ==
  ASSUME TypeOK, FloorInv, [Next]_vars
  PROVE  FloorInv'
  <1> DEFINE size == Cardinality(Dequeuers)
             debt == Cardinality(Debtors)
  <1>0. /\ size \in Nat /\ debt \in Nat /\ debt <= size
        /\ size' \in Nat /\ debt' \in Nat /\ debt' <= size'
        /\ threshold \in Int /\ MaxDequeuers \in Nat
        /\ size <= MaxDequeuers
        /\ threshold - debt >= -1 \/ threshold - debt >= -MaxDequeuers
    <2>1. size' \in Nat /\ debt' \in Nat /\ debt' <= size'
      <3>1. Dequeuers' \in SUBSET Threads /\ Debtors' \in SUBSET Dequeuers'
        BY DEF Dequeuers, Debtors
      <3> QED BY <3>1, Sizes
    <2> QED BY <2>1, DebtorsFinite, RingAssumption DEF TypeOK, FloorInv
  <1>1. ASSUME size' <= MaxDequeuers, threshold' = threshold, debt' <= debt PROVE FloorInv'
    BY <1>0, <1>1 DEF FloorInv
  <1>2. ASSUME size' <= MaxDequeuers, threshold' \in Nat PROVE FloorInv'
    BY <1>0, <1>2 DEF FloorInv
  <1>3. ASSUME size' <= MaxDequeuers, threshold' = threshold - 1, debt' = debt - 1 PROVE FloorInv'
    BY <1>0, <1>3 DEF FloorInv
  <1>4. CASE UNCHANGED vars
    <2>1. Dequeuers' = Dequeuers /\ Debtors' = Debtors /\ threshold' = threshold
      BY <1>4 DEF vars, shared, Dequeuers, Debtors
    <2> QED BY <1>0, <1>1, <2>1
  <1>5. ASSUME NEW t \in Threads, Invoke(t) \/ Step(t) PROVE FloorInv'
    <2>0. Others(t)
      BY <1>5, OthersStep
    <2>1. /\ (pc[t] \in DeqAll <=> pc'[t] \in DeqAll) => size' = size
          /\ (pc[t] \in DeqAll \ {"d_thr"} <=> pc'[t] \in DeqAll \ {"d_thr"}) => debt' = debt
          /\ pc[t] \notin DeqAll /\ pc'[t] \in DeqAll => size' = size + 1
          /\ pc[t] \in DeqAll /\ pc'[t] \notin DeqAll => size' = size - 1
          /\ pc[t] \in DeqAll \ {"d_thr"} /\ pc'[t] \notin DeqAll \ {"d_thr"} => debt' = debt - 1
      <3>1. /\ (t \in Dequeuers) <=> (pc[t] \in DeqAll)
            /\ (t \in Debtors) <=> (pc[t] \in DeqAll \ {"d_thr"})
        BY DEF Dequeuers, Debtors
      <3> QED BY <2>0, <3>1, MoveKinds, OneMoves, DebtorsFinite
    <2> HIDE DEF size, debt
    <2> USE DEF Goto, Return, Call, DeqAll, DeqSlot, Catching, shared, TypeOK
    <2>2. CASE \E i \in pool : EnqCall(t, i)
      BY <1>0, <1>1, <2>1, <2>2 DEF EnqCall
    <2>3. CASE DeqCall(t)
      BY <1>0, <1>1, <2>1, <2>3 DEF DeqCall, size
    <2>4. CASE Finalize(t)
      BY <1>0, <1>1, <2>1, <2>4 DEF Finalize
    <2>5. CASE Refill(t)
      BY <1>0, <1>2, <2>1, <2>5, NType DEF Refill
    <2>6. CASE EnqTail(t) \/ EnqLoad(t) \/ EnqHead(t) \/ EnqFin(t) \/ EnqThrLoad(t)
      BY <1>0, <1>1, <2>1, <2>6 DEF EnqTail, EnqLoad, EnqHead, EnqFin, EnqThrLoad, Insertable
    <2>7. CASE EnqCasOk(t) \/ EnqCasFail(t)
      BY <1>0, <1>1, <2>1, <2>7 DEF EnqCasOk, EnqCasFail
    <2>8. CASE EnqThrStore(t)
      <3>1. Threshold3 \in Nat
        BY RingAssumption DEF Threshold3, N
      <3> QED BY <1>0, <1>2, <2>1, <2>8, <3>1 DEF EnqThrStore
    <2>9. CASE DeqThr(t)
      <3>1. CASE threshold >= 0
        BY <1>0, <1>2, <2>1, <2>9, <3>1 DEF DeqThr
      <3>2. CASE threshold < 0
        BY <1>0, <1>1, <2>1, <2>9, <3>2 DEF DeqThr
      <3> QED BY <1>0, <3>1, <3>2
    <2>10. CASE DeqHead(t) \/ DeqLoad(t) \/ DeqCasOk(t) \/ DeqCasFail(t) \/ DeqTail(t)
      BY <1>0, <1>1, <2>1, <2>10 DEF DeqHead, DeqLoad, DeqCasOk, DeqCasFail, DeqTail
    <2>11. CASE DeqOr(t)
      BY <1>0, <1>1, <2>1, <2>11 DEF DeqOr
    <2>12. CASE DeqNone(t)
      BY <1>0, <1>3, <2>1, <2>12 DEF DeqNone
    <2>13. CASE DeqSub(t)
      <3>1. CASE threshold > 0
        BY <1>0, <1>2, <2>1, <2>13, <3>1 DEF DeqSub
      <3>2. CASE threshold <= 0
        BY <1>0, <1>3, <2>1, <2>13, <3>2 DEF DeqSub
      <3> QED BY <1>0, <3>1, <3>2
    <2>14. CASE CatchStep(t)
      BY <1>0, <1>1, <2>1, <2>14 DEF CatchStep, CatchCasOk, CatchCasFail, CatchHead, CatchTail
    <2> QED
      BY <1>5, <2>2, <2>3, <2>4, <2>5, <2>6, <2>7, <2>8, <2>9, <2>10, <2>11, <2>12, <2>13, <2>14
      DEF Invoke, Step, EnqStep, DeqStep
  <1> QED BY <1>4, <1>5 DEF Next

\* FloorInv holds in every reachable state.
LEMMA FloorHolds == Spec => []FloorInv
  <1>1. Init => FloorInv
    <2> SUFFICES ASSUME Init PROVE FloorInv
      OBVIOUS
    <2>1. Dequeuers = {} /\ Debtors = {}
      BY DEF Init, Dequeuers, Debtors, DeqAll, DeqSlot, Catching
    <2>2. threshold \in Int /\ threshold >= -1
      BY RingAssumption DEF Init, Threshold3, N
    <2> QED BY <2>1, <2>2, FS_EmptySet, RingAssumption DEF FloorInv
  <1>2. IInv /\ FloorInv /\ [Next]_vars => FloorInv'
    BY FloorStep DEF IInv
  <1> QED BY <1>1, <1>2, Invariance, PTL DEF Spec

\* The threshold never falls below -1 or minus the number of dequeues at work.
THEOREM FloorCorrect == Spec => []ThresholdFloor
  <1>1. IInv /\ FloorInv => ThresholdFloor
    <2> SUFFICES ASSUME IInv, FloorInv PROVE ThresholdFloor
      OBVIOUS
    <2>1. threshold \in Int /\ Cardinality(Debtors) \in Nat /\ MaxDequeuers \in Nat
      BY DebtorsFinite, RingAssumption DEF IInv, TypeOK
    <2> QED BY <2>1 DEF FloorInv, ThresholdFloor
  <1> QED BY <1>1, Invariance, FloorHolds, PTL
=============================================================================
