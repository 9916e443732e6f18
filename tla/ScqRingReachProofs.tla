------------------------- MODULE ScqRingReachProofs -------------------------
(***************************************************************************)
(* The threshold of a ring is enough as long as there are at most Half + 1 *)
(* dequeues at a time: ReachInv and ClosedInv (module ScqRingReach) are inductive.  *)
(*                                                                         *)
(* The proofs see the ring as a set of indices at tickets (Placed), those  *)
(* on their way to a ticket (Brought) and the others (Spare).  The first   *)
(* lemmas say what each step does to this view, the others use only that.  *)
(***************************************************************************)
EXTENDS ScqRingReach, ScqRingProofs

-----------------------------------------------------------------------------
(* The view.                                                               *)

\* Membership in the parts of the view.
LEMMA ViewAt ==
  /\ \A p : p \in Placed <=> \E s \in Slots : /\ IsLive(array[s])
                                              /\ p = <<TicketOf(s), array[s].idx>>
  /\ \A p : p \in Brought <=> \E t \in Threads : /\ pc[t] \in InHand
                                                 /\ p = <<ticket[t], eidx[t]>>
  /\ \A i : i \in Spare <=> i \in pool \/ \E t \in Threads : pc[t] = "e_tail" /\ eidx[t] = i
  BY DEF Placed, Brought, Spare

\* The same of the next state.
LEMMA ViewAtNext ==
  /\ \A p : p \in Placed' <=> \E s \in Slots : /\ IsLive(array'[s])
                                               /\ p = <<TicketAt(array'[s].cyc, s), array'[s].idx>>
  /\ \A p : p \in Brought' <=> \E t \in Threads : /\ pc'[t] \in InHand
                                                  /\ p = <<ticket'[t], eidx'[t]>>
  /\ \A i : i \in Spare' <=> i \in pool' \/ \E t \in Threads : pc'[t] = "e_tail" /\ eidx'[t] = i
  BY DEF Placed, Brought, Spare, TicketOf

\* An index is in one part of the view, a slot holds one index.
ViewOK ==
  /\ Placed \subseteq Nat \X Indices
  /\ Brought \subseteq Nat \X Indices
  /\ Spare \subseteq Indices
  /\ \A p \in Placed \union Brought : p[2] \notin Spare
  /\ \A p, q \in Placed \union Brought : p[2] = q[2] => p = q
  /\ Placed \intersect Brought = {}
  /\ \A p, q \in Placed : Map(p[1]) = Map(q[1]) => p = q

\* A live slot is an index at a ticket that selects the slot.
LEMMA LiveSlot ==
  ASSUME IInv, NEW s \in Slots, IsLive(array[s])
  PROVE  /\ array[s].idx \in Indices /\ Storing(s, array[s].idx)
         /\ TicketOf(s) \in Nat /\ Map(TicketOf(s)) = s /\ Cycle(TicketOf(s)) = array[s].cyc
  <1>1. array[s] \in Entry /\ array[s].idx \in Indices
    BY DEF IInv, TypeOK, Entry, IsLive
  <1>2. array[s].cyc \in Nat
    BY <1>1 DEF IInv, SlotsOk, Entry
  <1> QED BY <1>1, <1>2, TicketOfSlot DEF TicketOf, Storing

\* A thread that brings an index holds it.
LEMMA Bringer ==
  ASSUME IInv, NEW t \in Threads, pc[t] \in EnqBefore
  PROVE  eidx[t] \in Indices /\ Holding(t, eidx[t]) /\ ticket[t] \in Nat
  BY DEF IInv, EnqueueOk, TypeOK, Holding

\* The view of a reachable state.
LEMMA ViewHolds ==
  ASSUME IInv
  PROVE  ViewOK
  <1>1. Placed \subseteq Nat \X Indices
    BY ViewAt, LiveSlot
  <1>2. Brought \subseteq Nat \X Indices
    BY ViewAt, Bringer DEF InHand
  <1>3. Spare \subseteq Indices
    BY ViewAt, Bringer DEF IInv, TypeOK, EnqBefore
  <1>4. ASSUME NEW p \in Placed, NEW q \in Placed, p[2] = q[2] \/ Map(p[1]) = Map(q[1])
        PROVE  p = q
    <2>1. PICK s \in Slots : IsLive(array[s]) /\ p = <<TicketOf(s), array[s].idx>>
      BY ViewAt
    <2>2. PICK r \in Slots : IsLive(array[r]) /\ q = <<TicketOf(r), array[r].idx>>
      BY ViewAt
    <2>3. s = r
      <3>1. CASE p[2] = q[2]
        BY <2>1, <2>2, <3>1, LiveSlot DEF IInv, Ownership, OneOwner, Storing
      <3>2. CASE Map(p[1]) = Map(q[1])
        BY <2>1, <2>2, <3>2, LiveSlot
      <3> QED BY <1>4, <3>1, <3>2
    <2> QED BY <2>1, <2>2, <2>3
  <1>5. ASSUME NEW p \in Brought, NEW q \in Brought, p[2] = q[2]
        PROVE  p = q
    <2>1. PICK t \in Threads : pc[t] \in InHand /\ p = <<ticket[t], eidx[t]>>
      BY ViewAt
    <2>2. PICK u \in Threads : pc[u] \in InHand /\ q = <<ticket[u], eidx[u]>>
      BY ViewAt
    <2>3. t = u
      BY <1>5, <2>1, <2>2, Bringer DEF IInv, Ownership, OneOwner, InHand
    <2> QED BY <2>1, <2>2, <2>3
  <1>6. ASSUME NEW p \in Placed, NEW q \in Brought
        PROVE  p[2] # q[2]
    <2>1. PICK s \in Slots : IsLive(array[s]) /\ p = <<TicketOf(s), array[s].idx>>
      BY ViewAt
    <2>2. PICK u \in Threads : pc[u] \in InHand /\ q = <<ticket[u], eidx[u]>>
      BY ViewAt
    <2> QED BY <2>1, <2>2, LiveSlot, Bringer DEF IInv, Ownership, OneOwner, InHand
  <1>7. ASSUME NEW p \in Placed, p[2] \in Spare
        PROVE  FALSE
    <2>1. PICK s \in Slots : IsLive(array[s]) /\ p = <<TicketOf(s), array[s].idx>>
      BY ViewAt
    <2>2. p[2] \in Indices /\ Storing(s, p[2])
      BY <2>1, LiveSlot
    <2>3. CASE p[2] \in pool
      BY <2>2, <2>3 DEF IInv, Ownership, OneOwner
    <2>4. CASE \E t \in Threads : pc[t] = "e_tail" /\ eidx[t] = p[2]
      BY <2>2, <2>4 DEF IInv, Ownership, OneOwner, Holding, EnqBefore
    <2> QED BY <1>7, <2>3, <2>4, ViewAt
  <1>8. ASSUME NEW p \in Brought, p[2] \in Spare
        PROVE  FALSE
    <2>1. PICK u \in Threads : pc[u] \in InHand /\ p = <<ticket[u], eidx[u]>>
      BY ViewAt
    <2>2. p[2] \in Indices /\ Holding(u, p[2])
      BY <2>1, Bringer DEF InHand
    <2>3. CASE p[2] \in pool
      BY <2>2, <2>3 DEF IInv, Ownership, OneOwner
    <2>4. CASE \E t \in Threads : pc[t] = "e_tail" /\ eidx[t] = p[2]
      BY <2>1, <2>2, <2>4 DEF IInv, Ownership, OneOwner, Holding, EnqBefore, InHand
    <2> QED BY <1>8, <2>3, <2>4, ViewAt
  <1>9. Placed \intersect Brought = {}
    BY <1>6
  <1> QED BY <1>1, <1>2, <1>3, <1>4, <1>5, <1>6, <1>7, <1>8, <1>9 DEF ViewOK

-----------------------------------------------------------------------------
(* What the steps do to the view.                                          *)

Still == UNCHANGED <<head, tail, Placed, Brought, Spare>>

\* An enqueue takes a ticket, ...
Takes(i) ==
  /\ i \in Spare
  /\ tail' = tail + 1
  /\ Spare' = Spare \ {i}
  /\ Brought' = Brought \union {<<tail, i>>}
  /\ UNCHANGED <<head, Placed>>

\* ... gives it up, because it is too late or its slot is occupied, ...
Leaves(y, i) ==
  /\ <<y, i>> \in Brought
  /\ is_finalized \/ y < head \/ \E p \in Placed : Map(p[1]) = Map(y)
  /\ Brought' = Brought \ {<<y, i>>}
  /\ Spare' = Spare \union {i}
  /\ UNCHANGED <<head, tail, Placed>>

\* ... or inserts its index there.
Inserts(y, i) ==
  /\ <<y, i>> \in Brought
  /\ \E t \in Threads : pc[t] = "e_cas" /\ ticket[t] = y
  /\ Brought' = Brought \ {<<y, i>>}
  /\ Placed' = Placed \union {<<y, i>>}
  /\ UNCHANGED <<head, tail, Spare>>

\* A dequeue takes a ticket, or the index at its ticket, or catches up.
Claims  == head' = head + 1 /\ UNCHANGED <<tail, Placed, Brought, Spare>>

Removes(y, i) ==
  /\ <<y, i>> \in Placed /\ y < head
  /\ Placed' = Placed \ {<<y, i>>}
  /\ Spare' = Spare \union {i}
  /\ UNCHANGED <<head, tail, Brought>>

Catches == tail' \in tail .. head /\ UNCHANGED <<head, Placed, Brought, Spare>>

Changes ==
  \/ Still
  \/ \E i \in Indices : Takes(i)
  \/ \E y \in Nat, i \in Indices : Leaves(y, i) \/ Inserts(y, i) \/ Removes(y, i)
  \/ Claims
  \/ Catches

\* How a step moves the index that its thread brings.
LEMMA BroughtStep ==
  ASSUME IInv, NEW t \in Threads, Others(t)
  PROVE  /\ /\ pc[t] \in InHand <=> pc'[t] \in InHand
            /\ pc[t] \in InHand => ticket'[t] = ticket[t] /\ eidx'[t] = eidx[t]
            => Brought' = Brought
         /\ pc[t] \in InHand /\ pc'[t] \notin InHand =>
              Brought' = Brought \ {<<ticket[t], eidx[t]>>}
         /\ pc[t] \notin InHand /\ pc'[t] \in InHand =>
              Brought' = Brought \union {<<ticket'[t], eidx'[t]>>}
  <1>1. ASSUME pc[t] \in InHand <=> pc'[t] \in InHand,
               pc[t] \in InHand => ticket'[t] = ticket[t] /\ eidx'[t] = eidx[t]
        PROVE  Brought' = Brought
    <2>1. \A p : p \in Brought' <=> p \in Brought
      BY <1>1, ViewAt, ViewAtNext DEF Others
    <2> QED BY <2>1
  <1>2. ASSUME pc[t] \in InHand, pc'[t] \notin InHand
        PROVE  Brought' = Brought \ {<<ticket[t], eidx[t]>>}
    <2>1. ASSUME NEW u \in Threads, u # t, pc[u] \in InHand
          PROVE  <<ticket[u], eidx[u]>> # <<ticket[t], eidx[t]>>
      BY <1>2, <2>1, Bringer DEF IInv, Ownership, OneOwner, InHand
    <2>2. \A p : p \in Brought' <=> p \in Brought /\ p # <<ticket[t], eidx[t]>>
      BY <1>2, <2>1, ViewAt, ViewAtNext DEF Others
    <2> QED BY <2>2
  <1>3. ASSUME pc[t] \notin InHand, pc'[t] \in InHand
        PROVE  Brought' = Brought \union {<<ticket'[t], eidx'[t]>>}
    <2>1. \A p : p \in Brought' <=> p \in Brought \/ p = <<ticket'[t], eidx'[t]>>
      BY <1>3, ViewAt, ViewAtNext DEF Others
    <2> QED BY <2>1
  <1> QED BY <1>1, <1>2, <1>3

\* How a step moves the indices without a ticket.
LEMMA SpareStep ==
  ASSUME IInv, NEW t \in Threads, Others(t)
  PROVE  /\ /\ pool' = pool /\ (pc[t] = "e_tail" <=> pc'[t] = "e_tail")
            /\ pc[t] = "e_tail" => eidx'[t] = eidx[t]
            => Spare' = Spare
         /\ \A i : /\ pool' = pool \union {i} /\ pc[t] # "e_tail" /\ pc'[t] # "e_tail"
                   => Spare' = Spare \union {i}
         /\ pool' = pool /\ pc[t] # "e_tail" /\ pc'[t] = "e_tail" =>
              Spare' = Spare \union {eidx'[t]}
         /\ pool' = pool /\ pc[t] = "e_tail" /\ pc'[t] # "e_tail" =>
              Spare' = Spare \ {eidx[t]}
         /\ \A i \in pool :
              /\ pool' = pool \ {i} /\ pc[t] # "e_tail" /\ pc'[t] = "e_tail" /\ eidx'[t] = i
              => Spare' = Spare
  <1>1. ASSUME pool' = pool, pc[t] = "e_tail" <=> pc'[t] = "e_tail",
               pc[t] = "e_tail" => eidx'[t] = eidx[t]
        PROVE  Spare' = Spare
    <2>1. \A i : i \in Spare' <=> i \in Spare
      BY <1>1, ViewAt, ViewAtNext DEF Others
    <2> QED BY <2>1
  <1>2. ASSUME NEW i, pool' = pool \union {i}, pc[t] # "e_tail", pc'[t] # "e_tail"
        PROVE  Spare' = Spare \union {i}
    <2>1. \A j : j \in Spare' <=> j \in Spare \/ j = i
      BY <1>2, ViewAt, ViewAtNext DEF Others
    <2> QED BY <2>1
  <1>3. ASSUME pool' = pool, pc[t] # "e_tail", pc'[t] = "e_tail"
        PROVE  Spare' = Spare \union {eidx'[t]}
    <2>1. \A j : j \in Spare' <=> j \in Spare \/ j = eidx'[t]
      BY <1>3, ViewAt, ViewAtNext DEF Others
    <2> QED BY <2>1
  <1>4. ASSUME pool' = pool, pc[t] = "e_tail", pc'[t] # "e_tail"
        PROVE  Spare' = Spare \ {eidx[t]}
    <2>1. eidx[t] \in Indices /\ Holding(t, eidx[t])
      BY <1>4, Bringer DEF EnqBefore
    <2>2. eidx[t] \notin pool /\ \A u \in Threads : u # t /\ pc[u] = "e_tail" => eidx[u] # eidx[t]
      BY <2>1 DEF IInv, Ownership, OneOwner, Holding, EnqBefore
    <2>3. \A j : j \in Spare' <=> j \in Spare /\ j # eidx[t]
      BY <1>4, <2>2, ViewAt, ViewAtNext DEF Others
    <2> QED BY <2>3
  <1>5. ASSUME NEW i \in pool, pool' = pool \ {i}, pc[t] # "e_tail", pc'[t] = "e_tail",
               eidx'[t] = i
        PROVE  Spare' = Spare
    <2>1. \A j : j \in Spare' <=> j \in Spare
      BY <1>5, ViewAt, ViewAtNext DEF Others
    <2> QED BY <2>1
  <1> QED BY <1>1, <1>2, <1>3, <1>4, <1>5

\* A step that writes no slot leaves what is placed.
LEMMA PlacedSame ==
  ASSUME array' = array
  PROVE  Placed' = Placed
  BY DEF Placed, TicketOf

\* The fetch_add on tail.
LEMMA EnqTailView ==
  ASSUME IInv, NEW t \in Threads, EnqTail(t)
  PROVE  Takes(eidx[t]) /\ eidx[t] \in Indices
  <1>1. Others(t)
    BY OthersStep DEF IInv, Step, EnqStep
  <1>2. /\ pc[t] = "e_tail" /\ pc'[t] = "e_load" /\ ticket'[t] = tail /\ eidx' = eidx
        /\ array' = array /\ pool' = pool /\ head' = head /\ tail' = tail + 1
    BY DEF EnqTail, Goto, client, IInv, TypeOK
  <1>3. eidx[t] \in Indices /\ eidx[t] \in Spare
    BY <1>2, Bringer, ViewAt DEF EnqBefore
  <1>4. Brought' = Brought \union {<<tail, eidx[t]>>}
    BY <1>1, <1>2, BroughtStep DEF InHand, EnqBefore
  <1>5. Spare' = Spare \ {eidx[t]}
    BY <1>1, <1>2, SpareStep
  <1> QED BY <1>2, <1>3, <1>4, <1>5, PlacedSame DEF Takes

\* An enqueue that goes back for a new ticket, or returns, in any of the ways
\* the code has for it.
LEMMA LeaveView ==
  ASSUME IInv, NEW t \in Threads, Others(t), pc[t] \in InHand, UNCHANGED <<head, tail, array>>,
         is_finalized \/ ticket[t] < head \/ \E p \in Placed : Map(p[1]) = Map(ticket[t]),
         \/ pc'[t] = "e_tail" /\ eidx'[t] = eidx[t] /\ pool' = pool
         \/ pc'[t] = "idle" /\ pool' = pool \union {eidx[t]}
  PROVE  ticket[t] \in Nat /\ eidx[t] \in Indices /\ Leaves(ticket[t], eidx[t])
  <1>1. ticket[t] \in Nat /\ eidx[t] \in Indices /\ <<ticket[t], eidx[t]>> \in Brought
    BY Bringer, ViewAt DEF InHand
  <1>2. Brought' = Brought \ {<<ticket[t], eidx[t]>>}
    BY BroughtStep DEF InHand, EnqBefore
  <1>3. Spare' = Spare \union {eidx[t]}
    <2>1. pc[t] # "e_tail"
      BY DEF InHand
    <2> QED BY <2>1, SpareStep
  <1> QED BY <1>1, <1>2, <1>3, PlacedSame DEF Leaves

\* A slot that may not be used any more is occupied, or head has passed it.
LEMMA EnqLoadView ==
  ASSUME IInv, NEW t \in Threads, EnqLoad(t)
  PROVE  \/ Still /\ pc'[t] \in InHand /\ ticket'[t] = ticket[t]
         \/ ticket[t] \in Nat /\ eidx[t] \in Indices /\ Leaves(ticket[t], eidx[t])
  <1> DEFINE s == Map(ticket[t])
             old == array[s].cyc < Cycle(ticket[t]) /\ ~IsLive(array[s])
  <1>1. Others(t)
    BY OthersStep DEF IInv, Step, EnqStep
  <1>2. /\ pc[t] = "e_load" /\ eidx' = eidx /\ ticket' = ticket
        /\ array' = array /\ pool' = pool /\ head' = head /\ tail' = tail
    BY DEF EnqLoad, Goto, client, shared, IInv, TypeOK
  <1>3. \/ old /\ pc'[t] \in {"e_head", "e_fin", "e_cas"}
        \/ ~old /\ pc'[t] = "e_tail"
    BY DEF EnqLoad, Goto, Insertable, IInv, TypeOK
  <1>4. CASE old
    <2>1. pc[t] \in InHand /\ pc'[t] \in InHand /\ pc[t] # "e_tail" /\ pc'[t] # "e_tail"
      BY <1>2, <1>3, <1>4 DEF InHand, EnqBefore
    <2>2. Brought' = Brought /\ Spare' = Spare
      BY <1>1, <1>2, <2>1, BroughtStep, SpareStep
    <2> QED BY <1>2, <2>1, <2>2, PlacedSame DEF Still
  <1>5. CASE ~old
    <2>1. /\ s \in Slots /\ array[s] \in Entry /\ ticket[t] \in Nat
          /\ Cycle(ticket[t]) \in Nat /\ array[s].cyc \in Int
      BY TicketFacts DEF IInv, Word
    <2>2. ticket[t] < head \/ \E p \in Placed : Map(p[1]) = s
      <3>1. CASE IsLive(array[s])
        <4>1. <<TicketOf(s), array[s].idx>> \in Placed /\ Map(TicketOf(s)) = s
          BY <2>1, <3>1, ViewAt, LiveSlot
        <4> QED BY <4>1
      <3>2. CASE ~IsLive(array[s])
        <4>1. array[s].cyc \in Nat /\ Cycle(ticket[t]) <= array[s].cyc
          BY <1>5, <2>1, <3>2
        <4>2. TicketOf(s) < head
          BY <2>1, <3>2, <4>1 DEF IInv, SlotsOk, Passed
        <4>3. TicketOf(s) \in Nat /\ Map(TicketOf(s)) = s /\ Cycle(TicketOf(s)) = array[s].cyc
          BY <2>1, <4>1, TicketOfSlot DEF TicketOf
        <4>4. ticket[t] <= TicketOf(s)
          BY <2>1, <4>1, <4>3, TicketOrder
        <4> QED BY <2>1, <4>2, <4>3, <4>4 DEF IInv, TypeOK
      <3> QED BY <3>1, <3>2
    <2>3. pc[t] \in InHand /\ pc'[t] = "e_tail"
      BY <1>2, <1>3, <1>5 DEF InHand, EnqBefore
    <2> QED BY <1>1, <1>2, <2>2, <2>3, LeaveView
  <1> QED BY <1>4, <1>5

\* The test of head, and of the flag.
LEMMA EnqHeadView ==
  ASSUME IInv, NEW t \in Threads, EnqHead(t) \/ EnqFin(t)
  PROVE  \/ Still /\ pc'[t] \in InHand /\ ticket'[t] = ticket[t]
         \/ ticket[t] \in Nat /\ eidx[t] \in Indices /\ Leaves(ticket[t], eidx[t])
  <1>1. Others(t)
    BY OthersStep DEF IInv, Step, EnqStep
  <1>2. /\ pc[t] \in {"e_head", "e_fin"} /\ ticket[t] \in Nat /\ head \in Nat
        /\ array' = array /\ head' = head /\ tail' = tail
    BY DEF EnqHead, EnqFin, Return, Goto, client, shared, IInv, TypeOK
  <1>3. \/ /\ pc'[t] \in {"e_fin", "e_cas"}
           /\ eidx' = eidx /\ ticket' = ticket /\ pool' = pool
        \/ /\ ticket[t] < head \/ is_finalized
           /\ \/ pc'[t] = "e_tail" /\ eidx'[t] = eidx[t] /\ pool' = pool
              \/ pc'[t] = "idle" /\ pool' = pool \union {eidx[t]}
    BY <1>2
    DEF EnqHead, EnqFin, Return, Goto, Insertable, client, shared, local, IInv, TypeOK
  <1>4. pc[t] \in InHand /\ pc[t] # "e_tail"
    BY <1>2 DEF InHand, EnqBefore
  <1>5. CASE /\ pc'[t] \in {"e_fin", "e_cas"}
             /\ eidx' = eidx /\ ticket' = ticket /\ pool' = pool
    <2>1. pc'[t] \in InHand /\ pc'[t] # "e_tail"
      BY <1>5 DEF InHand, EnqBefore
    <2>2. Brought' = Brought /\ Spare' = Spare
      BY <1>1, <1>4, <1>5, <2>1, BroughtStep, SpareStep
    <2> QED BY <1>2, <1>5, <2>1, <2>2, PlacedSame DEF Still
  <1>6. CASE /\ ticket[t] < head \/ is_finalized
             /\ \/ pc'[t] = "e_tail" /\ eidx'[t] = eidx[t] /\ pool' = pool
                \/ pc'[t] = "idle" /\ pool' = pool \union {eidx[t]}
    BY <1>1, <1>2, <1>4, <1>6, LeaveView
  <1> QED BY <1>3, <1>5, <1>6

\* The compare_exchange of an enqueue.
LEMMA EnqCasView ==
  ASSUME IInv, NEW t \in Threads, EnqCasOk(t)
  PROVE  ticket[t] \in Nat /\ eidx[t] \in Indices /\ Inserts(ticket[t], eidx[t])
  <1> DEFINE s == Map(ticket[t])
  <1>1. Others(t)
    BY OthersStep DEF IInv, Step, EnqStep
  <1>2. /\ pc[t] = "e_cas" /\ pc'[t] = "e_thr" /\ array[s] = entry[t]
        /\ array' = [array EXCEPT ![s] = NewEntry(t)]
        /\ pool' = pool /\ head' = head /\ tail' = tail
    BY DEF EnqCasOk, Goto, client, IInv, TypeOK
  <1>3. /\ s \in Slots /\ array[s] \in Entry /\ ticket[t] \in Nat /\ eidx[t] \in Indices
        /\ ticket[t] = TicketAt(Cycle(ticket[t]), s)
    BY <1>2, TicketFacts, SlotOfTicket, Bringer DEF IInv, Word, EnqBefore
  <1>4. ~IsLive(array[s])
    BY <1>2 DEF IInv, EnqueueOk
  <1>5. /\ array'[s] = NewEntry(t) /\ IsLive(array'[s])
        /\ \A r \in Slots : r # s => array'[r] = array[r]
    BY <1>2, <1>3, IndexFacts DEF NewEntry, IsLive, IInv, TypeOK
  <1>6. TicketAt(array'[s].cyc, s) = ticket[t] /\ array'[s].idx = eidx[t]
    BY <1>3, <1>5 DEF NewEntry
  <1> HIDE DEF s
  <1>7. Placed' = Placed \union {<<ticket[t], eidx[t]>>}
    <2>1. \A p : p \in Placed' <=> p \in Placed \/ p = <<ticket[t], eidx[t]>>
      BY <1>3, <1>4, <1>5, <1>6, ViewAt, ViewAtNext DEF TicketOf
    <2> QED BY <2>1
  <1>8. pc[t] \in InHand /\ pc'[t] \notin InHand /\ pc[t] # "e_tail" /\ pc'[t] # "e_tail"
    BY <1>2 DEF InHand, EnqBefore
  <1>9. Brought' = Brought \ {<<ticket[t], eidx[t]>>} /\ Spare' = Spare
    BY <1>1, <1>2, <1>8, BroughtStep, SpareStep
  <1> QED BY <1>2, <1>3, <1>7, <1>8, <1>9, ViewAt DEF Inserts

\* The fetch_or of a dequeue.
LEMMA DeqOrView ==
  ASSUME IInv, NEW t \in Threads, DeqOr(t)
  PROVE  ticket[t] \in Nat /\ entry[t].idx \in Indices /\ Removes(ticket[t], entry[t].idx)
  <1> DEFINE s == Map(ticket[t])
  <1>1. Others(t)
    BY OthersStep DEF IInv, Step, DeqStep
  <1>2. /\ pc[t] = "d_or" /\ pc'[t] = "idle" /\ array' = [array EXCEPT ![s].idx = Bot]
        /\ pool' = pool \union {entry[t].idx} /\ head' = head /\ tail' = tail
    BY DEF DeqOr, Return, Goto, IInv, TypeOK
  <1>3. /\ s \in Slots /\ array[s] \in Entry /\ ticket[t] \in Nat
        /\ ticket[t] = TicketAt(Cycle(ticket[t]), s)
    BY TicketFacts, SlotOfTicket DEF IInv, Word
  <1>4. IsLive(array[s]) /\ array[s].cyc = Cycle(ticket[t]) /\ array[s].idx = entry[t].idx
    BY <1>2 DEF IInv, DequeueOk, Word
  <1>5. TicketOf(s) = ticket[t] /\ entry[t].idx \in Indices
    BY <1>3, <1>4, LiveSlot DEF TicketOf
  <1>6. ~IsLive(array'[s]) /\ \A r \in Slots : r # s => array'[r] = array[r]
    BY <1>2, <1>3 DEF IsLive, IInv, TypeOK, Entry
  <1>7. ticket[t] < head
    BY <1>2 DEF IInv, TicketsOk, DeqSlot
  <1> HIDE DEF s
  <1>8. \A r \in Slots : IsLive(array[r]) /\ r # s => TicketOf(r) # ticket[t]
    BY <1>3, <1>4, <1>5, LiveSlot
  <1>9. Placed' = Placed \ {<<ticket[t], entry[t].idx>>}
    <2>1. \A p : p \in Placed' <=> p \in Placed /\ p # <<ticket[t], entry[t].idx>>
      BY <1>4, <1>5, <1>6, <1>8, ViewAt, ViewAtNext DEF TicketOf
    <2> QED BY <2>1
  <1>10. <<ticket[t], entry[t].idx>> \in Placed
    BY <1>3, <1>4, <1>5, ViewAt
  <1>11. pc[t] \notin InHand /\ pc'[t] \notin InHand /\ pc[t] # "e_tail" /\ pc'[t] # "e_tail"
    BY <1>2 DEF InHand, EnqBefore
  <1>12. Brought' = Brought /\ Spare' = Spare \union {entry[t].idx}
    BY <1>1, <1>2, <1>11, BroughtStep, SpareStep
  <1> QED BY <1>2, <1>3, <1>5, <1>7, <1>9, <1>10, <1>12 DEF Removes

\* The compare_exchange of a dequeue marks a live entry and closes a free one.
LEMMA DeqCasView ==
  ASSUME IInv, NEW t \in Threads, DeqCasOk(t)
  PROVE  Still
  <1> DEFINE s == Map(ticket[t])
  <1>1. Others(t)
    BY OthersStep DEF IInv, Step, DeqStep
  <1>2. /\ pc[t] = "d_cas" /\ pc'[t] = "d_tail" /\ array[s] = entry[t]
        /\ array' = [array EXCEPT ![s] = Blocked(entry[t], ticket[t])]
        /\ pool' = pool /\ head' = head /\ tail' = tail
    BY DEF DeqCasOk, Goto, client, local, IInv, TypeOK
  <1>3. s \in Slots /\ array[s] \in Entry
    BY TicketFacts DEF IInv, Word
  <1>4. /\ array'[s] = Blocked(array[s], ticket[t])
        /\ \A r \in Slots : r # s => array'[r] = array[r]
    BY <1>2, <1>3 DEF IInv, TypeOK
  <1>5. /\ array'[s].idx = array[s].idx
        /\ IsLive(array[s]) => array'[s].cyc = array[s].cyc
    BY <1>3, <1>4 DEF Blocked, Entry
  <1> HIDE DEF s
  <1>6. Placed' = Placed
    <2>1. \A p : p \in Placed' <=> p \in Placed
      BY <1>3, <1>4, <1>5, ViewAt, ViewAtNext DEF TicketOf, IsLive
    <2> QED BY <2>1
  <1>7. pc[t] \notin InHand /\ pc'[t] \notin InHand /\ pc[t] # "e_tail" /\ pc'[t] # "e_tail"
    BY <1>2 DEF InHand, EnqBefore
  <1>8. Brought' = Brought /\ Spare' = Spare
    BY <1>1, <1>2, <1>7, BroughtStep, SpareStep
  <1> QED BY <1>2, <1>6, <1>8 DEF Still

\* A step that moves no index and no counter.
LEMMA StillView ==
  ASSUME IInv, NEW t \in Threads, Others(t), UNCHANGED <<head, tail, array, pool>>,
         \/ pc[t] \in EnqBefore /\ pc'[t] \in EnqBefore
              /\ (pc[t] = "e_tail" <=> pc'[t] = "e_tail")
              /\ ticket'[t] = ticket[t] /\ eidx'[t] = eidx[t]
         \/ pc[t] \notin EnqBefore /\ pc'[t] \notin EnqBefore
  PROVE  Still
  <1>1. Brought' = Brought
    BY BroughtStep DEF InHand
  <1>2. Spare' = Spare
    BY SpareStep DEF EnqBefore
  <1> QED BY <1>1, <1>2, PlacedSame DEF Still

\* Every step changes the view in one of these ways.
LEMMA ChangesStep ==
  ASSUME IInv, NEW t \in Threads, Invoke(t) \/ Step(t)
  PROVE  Changes
  <1>1. Others(t)
    BY OthersStep DEF IInv
  <1>2. ASSUME NEW i \in pool, EnqCall(t, i) PROVE Still
    <2>1. /\ pc[t] = "idle" /\ pc'[t] = "e_tail" /\ eidx'[t] = i /\ pool' = pool \ {i}
          /\ UNCHANGED <<head, tail, array>>
      BY <1>2 DEF EnqCall, Call, Goto, shared, IInv, TypeOK
    <2>2. Brought' = Brought
      BY <1>1, <2>1, BroughtStep DEF InHand, EnqBefore
    <2>3. Spare' = Spare
      BY <1>1, <2>1, SpareStep
    <2> QED BY <2>1, <2>2, <2>3, PlacedSame DEF Still
  <1>3. CASE \/ DeqCall(t) \/ Finalize(t) \/ Refill(t) \/ DeqThr(t) \/ DeqLoad(t) \/ DeqCasFail(t)
             \/ DeqTail(t) \/ DeqNone(t) \/ DeqSub(t)
             \/ CatchCasFail(t) \/ CatchHead(t) \/ CatchTail(t)
             \/ EnqThrLoad(t) \/ EnqThrStore(t)
    <2>1. UNCHANGED <<head, tail, array, pool>> /\ pc[t] \notin EnqBefore /\ pc'[t] \notin EnqBefore
      <3>1. CASE DeqCall(t) \/ Finalize(t) \/ Refill(t)
        BY <3>1
        DEF DeqCall, Finalize, Refill, Call, Goto, EnqBefore, shared, client, IInv, TypeOK
      <3>2. CASE DeqThr(t) \/ DeqLoad(t) \/ DeqCasFail(t) \/ DeqTail(t) \/ DeqNone(t) \/ DeqSub(t)
        BY <3>2
        DEF DeqThr, DeqLoad, DeqCasFail, DeqTail, DeqNone, DeqSub, Goto, Return, EnqBefore, shared,
            client, IInv, TypeOK
      <3>3. CASE CatchCasFail(t) \/ CatchHead(t) \/ CatchTail(t) \/ EnqThrLoad(t) \/ EnqThrStore(t)
        BY <3>3
        DEF CatchCasFail, CatchHead, CatchTail, EnqThrLoad, EnqThrStore, Goto, Return, EnqBefore,
            shared, client, IInv, TypeOK
      <3> QED BY <1>3, <3>1, <3>2, <3>3
    <2> QED BY <1>1, <2>1, StillView DEF Changes
  <1>4. CASE EnqCasFail(t)
    <2>1. /\ UNCHANGED <<head, tail, array, pool>> /\ pc[t] = "e_cas" /\ pc'[t] = "e_load"
          /\ ticket'[t] = ticket[t] /\ eidx'[t] = eidx[t]
      BY <1>4 DEF EnqCasFail, Goto, shared, local, client, IInv, TypeOK
    <2> QED BY <1>1, <2>1, StillView DEF Changes, EnqBefore
  <1>5. CASE EnqTail(t)
    BY <1>5, EnqTailView DEF Changes
  <1>6. CASE EnqLoad(t)
    BY <1>6, EnqLoadView DEF Changes
  <1>7. CASE EnqHead(t) \/ EnqFin(t)
    BY <1>7, EnqHeadView DEF Changes
  <1>8. CASE EnqCasOk(t)
    BY <1>8, EnqCasView DEF Changes
  <1>9. CASE DeqOr(t)
    BY <1>9, DeqOrView DEF Changes
  <1>10. CASE DeqCasOk(t)
    BY <1>10, DeqCasView DEF Changes
  <1>11. CASE DeqHead(t)
    <2>1. /\ head' = head + 1 /\ UNCHANGED <<tail, array, pool>>
          /\ pc[t] \notin EnqBefore /\ pc'[t] \notin EnqBefore
      BY <1>11 DEF DeqHead, Goto, client, EnqBefore, IInv, TypeOK
    <2>2. Brought' = Brought /\ Spare' = Spare
      BY <1>1, <2>1, BroughtStep, SpareStep DEF InHand, EnqBefore
    <2> QED BY <2>1, <2>2, PlacedSame DEF Changes, Claims
  <1>12. CASE CatchCasOk(t)
    <2>1. /\ tail = seen[t].tail /\ tail' = seen[t].head /\ UNCHANGED <<head, array, pool>>
          /\ pc[t] = "c_cas" /\ pc'[t] = "d_none"
      BY <1>12 DEF CatchCasOk, Goto, client, IInv, TypeOK
    <2>2. tail' \in tail .. head
      BY <2>1 DEF IInv, TypeOK, CatchupOk, Catching
    <2>3. Brought' = Brought /\ Spare' = Spare
      BY <1>1, <2>1, BroughtStep, SpareStep DEF InHand, EnqBefore
    <2> QED BY <2>1, <2>2, <2>3, PlacedSame DEF Changes, Catches
  <1> QED
    BY <1>2, <1>3, <1>4, <1>5, <1>6, <1>7, <1>8, <1>9, <1>10, <1>11, <1>12
    DEF Invoke, Step, EnqStep, DeqStep, CatchStep, Changes

-----------------------------------------------------------------------------
(* Tickets.                                                                *)

\* The parts of the view after each change that moves something.
LEMMA Moved ==
  ASSUME Changes
  PROVE  \/ \E i \in Indices :
              /\ Takes(i)
              /\ (Placed \union Brought)' = (Placed \union Brought) \union {<<tail, i>>}
         \/ (Placed \union Brought)' \subseteq Placed \union Brought /\ Brought' \subseteq Brought
  BY DEF Changes, Still, Takes, Leaves, Inserts, Removes, Claims, Catches

\* Issued is inductive.
LEMMA IssuedStep ==
  ASSUME IInv, Issued, Changes
  PROVE  Issued'
  <1>1. tail \in Nat /\ head \in Nat
    BY DEF IInv, TypeOK
  <1>2. ViewOK
    BY ViewHolds
  <1>3. tail' \in Nat /\ tail <= tail'
    <2>1. tail' = tail \/ tail' = tail + 1 \/ tail' \in tail .. head
      BY DEF Changes, Still, Takes, Leaves, Inserts, Removes, Claims, Catches
    <2> QED BY <1>1, <2>1
  <1>4. \A p \in Placed \union Brought : p[1] \in Nat /\ p[1] < tail /\ p[1] < tail'
    BY <1>1, <1>2, <1>3 DEF ViewOK, Issued
  <1>5. CASE \E i \in Indices :
               /\ Takes(i)
               /\ (Placed \union Brought)' = (Placed \union Brought) \union {<<tail, i>>}
    <2>1. PICK i \in Indices :
               /\ Takes(i)
               /\ (Placed \union Brought)' = (Placed \union Brought) \union {<<tail, i>>}
      BY <1>5
    <2>2. Brought' = Brought \union {<<tail, i>>} /\ tail' = tail + 1
      BY <2>1 DEF Takes
    <2>3. ASSUME NEW p \in Placed' \union Brought'
          PROVE  /\ p[1] < tail'
                 /\ \A q \in Brought' : q[1] = p[1] => q = p
      BY <1>1, <1>4, <2>1, <2>2, <2>3 DEF Issued
    <2> QED BY <2>3 DEF Issued
  <1>6. CASE (Placed \union Brought)' \subseteq Placed \union Brought /\ Brought' \subseteq Brought
    BY <1>4, <1>6 DEF Issued
  <1> QED BY <1>5, <1>6, Moved

\* Sets of indices are finite.
LEMMA IndexSets ==
  ASSUME NEW A \in SUBSET Indices, NEW B \in SUBSET A
  PROVE  /\ IsFiniteSet(A) /\ IsFiniteSet(B)
         /\ Cardinality(A) \in Nat /\ Cardinality(B) \in Nat
         /\ Cardinality(B) <= Cardinality(A) /\ Cardinality(A) <= Half
  <1>1. IsFiniteSet(Indices) /\ Cardinality(Indices) = Half
    BY FS_Interval, RingAssumption DEF Indices
  <1>2. IsFiniteSet(A) /\ Cardinality(A) <= Half
    BY <1>1, FS_Subset
  <1>3. IsFiniteSet(B) /\ Cardinality(B) <= Cardinality(A)
    BY <1>2, FS_Subset
  <1> QED BY <1>2, <1>3, FS_CardinalityType

\* Ahead and Credit are sets of indices.
CreditOK ==
  \A x \in Nat : Ahead(x) \in SUBSET Credit(x) /\ Credit(x) \in SUBSET Indices

LEMMA CreditSets ==
  ASSUME IInv
  PROVE  CreditOK
  BY ViewHolds DEF CreditOK, ViewOK, Credit, Ahead, Blocks

\* An open ring has at most N - 1 tickets from head on.
LEMMA TailRange ==
  ASSUME IInv, Spread, ~is_finalized
  PROVE  tail <= head + N - 1
  <1>1. head \in Nat /\ tail \in Nat /\ Half \in Nat \ {0} /\ N = 2 * Half
    <2>1. head \in Nat /\ tail \in Nat
      BY DEF IInv, TypeOK
    <2> QED BY <2>1, RingAssumption DEF N
  <1>2. CASE head < tail
    <2>1. head \in head .. tail - 1
      BY <1>1, <1>2
    <2>2. tail - head < Cardinality(Ahead(head)) + Cardinality(Credit(head))
      BY <2>1 DEF Spread
    <2>3. Ahead(head) \in SUBSET Credit(head) /\ Credit(head) \in SUBSET Indices
      BY <1>1, CreditSets DEF CreditOK
    <2>4. Ahead(head) \in SUBSET Indices
      BY <2>3
    <2>5. /\ Cardinality(Ahead(head)) \in Nat /\ Cardinality(Ahead(head)) <= Half
          /\ Cardinality(Credit(head)) \in Nat /\ Cardinality(Credit(head)) <= Half
      BY <2>3, <2>4, IndexSets
    <2> QED BY <1>1, <2>2, <2>5
  <1>3. CASE tail <= head
    BY <1>1, <1>3
  <1> QED BY <1>1, <1>2, <1>3

\* Tickets of one slot that are less than a round apart are equal.
LEMMA SameRound ==
  ASSUME NEW y \in Nat, NEW z \in Nat, Map(y) = Map(z), y <= z, z < y + N
  PROVE  y = z
  <1>1. /\ y = Cycle(y) * N + Map(y) /\ z = Cycle(z) * N + Map(z)
        /\ Cycle(y) \in Nat /\ Cycle(z) \in Nat /\ Map(y) \in Nat /\ N \in Nat \ {0}
    BY SlotOfTicket, NType DEF TicketAt, Slots
  <1>2. CASE Cycle(z) <= Cycle(y)
    <2>1. z <= y
      BY <1>2, TicketOrder
    <2> QED BY <2>1
  <1>3. CASE Cycle(y) + 1 <= Cycle(z)
    <2>1. (Cycle(y) + 1) * N <= Cycle(z) * N
      BY <1>1, <1>3, ProductMonotone
    <2>2. (Cycle(y) + 1) * N = Cycle(y) * N + N
      BY <1>1
    <2>3. Cycle(y) * N \in Nat /\ Cycle(z) * N \in Nat
      BY <1>1
    <2> QED BY <1>1, <2>1, <2>2, <2>3
  <1> QED BY <1>1, <1>2, <1>3

\* What keeps the bound of Spread at x.
Covered(x) == tail - x < Cardinality(Ahead(x)) + Cardinality(Credit(x))

\* The bound stays if tail stays and no index is lost from either set.
LEMMA CoveredGrows ==
  ASSUME IInv, IInv', NEW x \in Nat, Covered(x), tail' = tail,
         Ahead(x) \subseteq Ahead(x)', Credit(x) \subseteq Credit(x)'
  PROVE  Covered(x)'
  <1>1. /\ Ahead(x)' \in SUBSET Indices /\ Credit(x)' \in SUBSET Indices
        /\ Ahead(x) \in SUBSET Ahead(x)' /\ Credit(x) \in SUBSET Credit(x)'
    <2>1. CreditOK'
      BY CreditSets, PTL
    <2> QED BY <2>1 DEF CreditOK
  <1>2. /\ Cardinality(Ahead(x)) \in Nat /\ Cardinality(Ahead(x)') \in Nat
        /\ Cardinality(Ahead(x)) <= Cardinality(Ahead(x)')
    BY <1>1, IndexSets
  <1>3. /\ Cardinality(Credit(x)) \in Nat /\ Cardinality(Credit(x)') \in Nat
        /\ Cardinality(Credit(x)) <= Cardinality(Credit(x)')
    BY <1>1, IndexSets
  <1>4. tail \in Nat /\ Cardinality(Ahead(x))' = Cardinality(Ahead(x)')
        /\ Cardinality(Credit(x))' = Cardinality(Credit(x)')
    BY DEF IInv, TypeOK
  <1> QED BY <1>2, <1>3, <1>4 DEF Covered

\* An index that brings a ticket from x on gives it up: the index in its slot
\* was claimed before, and becomes an obstacle for the first time.
LEMMA CoveredLeaves ==
  ASSUME IInv, IInv', Issued, Spread, ~is_finalized,
         NEW y \in Nat, NEW i \in Indices, Leaves(y, i),
         NEW x \in Nat, head <= x, x < tail
  PROVE  Covered(x)'
  <1>0. /\ head \in Nat /\ tail \in Nat /\ N \in Nat \ {0}
        /\ tail <= head + N - 1
    BY TailRange, NType DEF IInv, TypeOK
  <1>1. /\ <<y, i>> \in Brought /\ y < tail
        /\ head' = head /\ tail' = tail /\ Placed' = Placed
        /\ Brought' = Brought \ {<<y, i>>} /\ Spare' = Spare \union {i}
    BY DEF Leaves, Issued
  <1>2. ViewOK
    BY ViewHolds
  <1>3. Covered(x)
    <2>1. x \in head .. tail - 1
      BY <1>0
    <2> QED BY <2>1 DEF Spread, Covered
  <1>4. \A j \in Ahead(x) : j # i => j \in Ahead(x)'
    BY <1>1 DEF Ahead
  <1>5. Ahead(x) \subseteq Credit(x)'
    BY <1>1, <1>4 DEF Credit
  <1>6. Blocks(x) \subseteq Blocks(x)'
    BY <1>1 DEF Blocks, Held
  <1>7. Credit(x) \subseteq Credit(x)'
    BY <1>1, <1>5, <1>6 DEF Credit
  <1>8. CASE y < x
    <2>1. i \in Ahead(x) => i \in Ahead(x)'
      <3>1. ASSUME i \in Ahead(x) PROVE i \in Ahead(x)'
        <4>1. PICK z \in x .. tail - 1 : <<z, i>> \in Placed \union Brought
          BY <3>1 DEF Ahead
        <4>2. <<z, i>> # <<y, i>>
          BY <1>0, <1>8
        <4> QED BY <1>1, <4>1, <4>2 DEF Ahead
      <3> QED BY <3>1
    <2>2. Ahead(x) \subseteq Ahead(x)'
      BY <1>4, <2>1
    <2> QED BY <1>1, <1>3, <1>7, <2>2, CoveredGrows
  <1>9. CASE x <= y
    <2>1. PICK p \in Placed : Map(p[1]) = Map(y)
      <3>1. y < head \/ \E p \in Placed : Map(p[1]) = Map(y)
        BY DEF Leaves
      <3> QED BY <1>0, <1>9, <3>1
    <2>2. /\ p[1] \in Nat /\ p[2] \in Indices /\ p = <<p[1], p[2]>> /\ p[1] < tail
          /\ p # <<y, i>> /\ p[1] # y
      <3>1. p \in Nat \X Indices /\ p \notin Brought /\ p[1] < tail
        BY <1>2 DEF ViewOK, Issued
      <3>2. p[1] # y
        BY <1>1, <3>1 DEF Issued
      <3> QED BY <3>1, <3>2
    <2>3. p[1] < head
      <3>1. SUFFICES ASSUME head <= p[1] PROVE FALSE
        BY <1>0, <2>2
      <3>2. p[1] < y + N /\ y < p[1] + N
        BY <1>0, <1>1, <1>9, <2>2, <3>1
      <3> QED BY <2>1, <2>2, <3>2, SameRound
    <2>4. \A z \in Nat, j \in Indices : <<z, j>> \in Placed \union Brought /\ j = p[2] => z = p[1]
      BY <1>2, <2>2 DEF ViewOK
    <2>5. p[2] \notin Ahead(x)
      <3>1. SUFFICES ASSUME NEW z \in x .. tail - 1, <<z, p[2]>> \in Placed \union Brought
                     PROVE  FALSE
        BY DEF Ahead
      <3>2. z \in Nat /\ head <= z
        BY <1>0, <3>1
      <3>3. z = p[1]
        BY <2>2, <2>4, <3>1, <3>2
      <3> QED BY <1>0, <2>2, <2>3, <3>2, <3>3
    <2>6. p[2] \notin Blocks(x)
      <3>1. SUFFICES ASSUME NEW z \in 0 .. head - 1, NEW u \in x .. tail - 1,
                            <<z, p[2]>> \in Placed, Map(z) = Map(u), ~Held(u)
                     PROVE  FALSE
        BY DEF Blocks
      <3>2. Map(u) = Map(y)
        BY <1>0, <2>1, <2>2, <2>4, <3>1
      <3>3. u < y + N /\ y < u + N
        BY <1>0, <1>1, <1>9
      <3>4. u = y
        BY <1>0, <3>2, <3>3, SameRound
      <3> QED BY <1>1, <3>1, <3>4 DEF Held
    <2>7. p[2] \notin Credit(x)
      BY <1>2, <2>5, <2>6 DEF Credit, ViewOK
    <2>8. p[2] \in Credit(x)'
      <3>1. ~Held(y)'
        BY <1>1 DEF Held, Issued
      <3>2. p[1] \in 0 .. head' - 1 /\ y \in x .. tail' - 1 /\ <<p[1], p[2]>> \in Placed'
        BY <1>0, <1>1, <1>9, <2>2, <2>3
      <3> QED BY <2>1, <2>2, <3>1, <3>2 DEF Credit, Blocks
    <2>9. i \in Ahead(x) /\ Ahead(x) \ {i} \subseteq Ahead(x)'
      BY <1>0, <1>1, <1>4, <1>9 DEF Ahead
    <2>10. /\ Ahead(x) \in SUBSET Indices /\ Credit(x) \in SUBSET Indices
           /\ Ahead(x)' \in SUBSET Indices /\ Credit(x)' \in SUBSET Indices
      <3>1. CreditOK /\ CreditOK'
        BY CreditSets, PTL
      <3> QED BY <3>1 DEF CreditOK
    <2>11. Cardinality(Ahead(x)) - 1 <= Cardinality(Ahead(x)')
      <3>1. Cardinality(Ahead(x) \ {i}) = Cardinality(Ahead(x)) - 1
        BY <2>9, <2>10, IndexSets, FS_RemoveElement
      <3>2. /\ Cardinality(Ahead(x) \ {i}) <= Cardinality(Ahead(x)')
            /\ Cardinality(Ahead(x)') \in Nat /\ Cardinality(Ahead(x)) \in Nat
        BY <2>9, <2>10, IndexSets
      <3> QED BY <3>1, <3>2
    <2>12. Cardinality(Credit(x)) + 1 <= Cardinality(Credit(x)')
      <3>1. Cardinality(Credit(x) \union {p[2]}) = Cardinality(Credit(x)) + 1
        BY <2>7, <2>10, IndexSets, FS_AddElement
      <3>2. /\ Credit(x) \union {p[2]} \in SUBSET Credit(x)'
            /\ Cardinality(Credit(x) \union {p[2]}) <= Cardinality(Credit(x)')
        BY <1>7, <2>8, <2>10, IndexSets
      <3> QED BY <3>1, <3>2
    <2>13. /\ Cardinality(Ahead(x)) \in Nat /\ Cardinality(Credit(x)) \in Nat
           /\ Cardinality(Ahead(x)') \in Nat /\ Cardinality(Credit(x)') \in Nat
      BY <2>10, IndexSets
    <2>14. tail' - x < Cardinality(Ahead(x)') + Cardinality(Credit(x)')
      BY <1>0, <1>1, <1>3, <2>11, <2>12, <2>13 DEF Covered
    <2> QED BY <2>14 DEF Covered
  <1> QED BY <1>0, <1>8, <1>9

\* A ticket that an enqueue takes is used by an index that had none.
LEMMA CoveredTakes ==
  ASSUME IInv, IInv', Spread, ~is_finalized, NEW i \in Indices, Takes(i),
         NEW x \in Nat, head <= x, x < tail'
  PROVE  Covered(x)'
  <1>0. /\ head \in Nat /\ tail \in Nat /\ head' = head /\ tail' = tail + 1
        /\ Placed' = Placed /\ Brought' = Brought \union {<<tail, i>>} /\ Spare' = Spare \ {i}
        /\ i \in Spare
    BY DEF Takes, IInv, TypeOK
  <1>1. ViewOK
    BY ViewHolds
  <1>2. /\ Ahead(x) \in SUBSET Indices /\ Credit(x) \in SUBSET Indices
        /\ Ahead(x)' \in SUBSET Indices /\ Credit(x)' \in SUBSET Indices
    <2>1. CreditOK /\ CreditOK'
      BY CreditSets, PTL
    <2> QED BY <2>1 DEF CreditOK
  <1>3. /\ Cardinality(Ahead(x)) \in Nat /\ Cardinality(Credit(x)) \in Nat
        /\ Cardinality(Ahead(x)') \in Nat /\ Cardinality(Credit(x)') \in Nat
    BY <1>2, IndexSets
  <1>4. i \in Ahead(x)' /\ i \in Credit(x)'
    <2>1. tail \in x .. tail' - 1
      BY <1>0
    <2> QED BY <1>0, <2>1 DEF Ahead, Credit
  <1>5. CASE x < tail
    <2>1. Covered(x)
      <3>1. x \in head .. tail - 1
        BY <1>0, <1>5
      <3> QED BY <3>1 DEF Spread, Covered
    <2>2. i \notin Ahead(x)
      BY <1>0, <1>1 DEF Ahead, ViewOK
    <2>3. Ahead(x) \union {i} \subseteq Ahead(x)'
      <3>1. x .. tail - 1 \subseteq x .. tail' - 1
        BY <1>0
      <3> QED BY <1>0, <1>4, <3>1 DEF Ahead
    <2>4. Credit(x) \subseteq Credit(x)'
      <3>1. Blocks(x) \subseteq Blocks(x)'
        <4>1. \A y \in x .. tail - 1 : y \in x .. tail' - 1 /\ (Held(y)' => Held(y))
          BY <1>0 DEF Held
        <4> QED BY <1>0, <4>1 DEF Blocks
      <3> QED BY <1>0, <1>4, <2>3, <3>1 DEF Credit
    <2>5. Cardinality(Ahead(x)) + 1 <= Cardinality(Ahead(x)')
      <3>1. Cardinality(Ahead(x) \union {i}) = Cardinality(Ahead(x)) + 1
        BY <1>2, <2>2, IndexSets, FS_AddElement
      <3>2. Cardinality(Ahead(x) \union {i}) <= Cardinality(Ahead(x)')
        BY <1>2, <2>3, IndexSets
      <3> QED BY <3>1, <3>2
    <2>6. Cardinality(Credit(x)) <= Cardinality(Credit(x)')
      BY <1>2, <2>4, IndexSets
    <2> QED BY <1>0, <1>3, <2>1, <2>5, <2>6 DEF Covered
  <1>6. CASE x = tail
    <2>1. Cardinality({i}) = 1
      BY FS_Singleton
    <2>2. {i} \in SUBSET Ahead(x)' /\ {i} \in SUBSET Credit(x)'
      BY <1>4
    <2>3. 1 <= Cardinality(Ahead(x)') /\ 1 <= Cardinality(Credit(x)')
      BY <1>2, <2>1, <2>2, IndexSets
    <2> QED BY <1>0, <1>3, <1>6, <2>3 DEF Covered
  <1> QED BY <1>0, <1>5, <1>6

\* What an interval of tickets is.
LEMMA Between ==
  ASSUME NEW h \in Nat, NEW t \in Nat, NEW x \in h .. t - 1
  PROVE  x \in Nat /\ h <= x /\ x < t
  OBVIOUS

\* Spread is inductive.
LEMMA SpreadStep ==
  ASSUME IInv, IInv', Issued, Spread, Changes, is_finalized => is_finalized'
  PROVE  Spread'
  <1>0. head \in Nat /\ tail \in Nat /\ head' \in Nat /\ tail' \in Nat
    BY DEF IInv, TypeOK
  <1> SUFFICES ASSUME ~is_finalized, NEW x \in Nat, head' <= x, x < tail'
               PROVE  Covered(x)'
    BY <1>0, Between DEF Spread, Covered
  <1>1. ASSUME NEW i \in Indices, Takes(i) PROVE Covered(x)'
    BY <1>0, <1>1, CoveredTakes DEF Takes
  <1>2. ASSUME NEW y \in Nat, NEW i \in Indices, Leaves(y, i) PROVE Covered(x)'
    BY <1>0, <1>2, CoveredLeaves DEF Leaves
  <1>3. CASE Catches
    BY <1>0, <1>3 DEF Catches
  <1>4. ASSUME head' = head \/ Claims, tail' = tail,
               Ahead(x) \subseteq Ahead(x)', Credit(x) \subseteq Credit(x)'
        PROVE  Covered(x)'
    <2>1. x \in head .. tail - 1
      BY <1>0, <1>4 DEF Claims
    <2>2. Covered(x)
      BY <2>1 DEF Spread, Covered
    <2> QED BY <1>0, <1>4, <2>2, CoveredGrows
  <1>5. CASE Still
    <2>1. Ahead(x)' = Ahead(x) /\ Blocks(x)' = Blocks(x)
      BY <1>5 DEF Still, Ahead, Blocks, Held
    <2> QED BY <1>4, <1>5, <2>1 DEF Still, Credit
  <1>6. CASE Claims
    <2>1. Ahead(x)' = Ahead(x)
      BY <1>6 DEF Claims, Ahead
    <2>2. 0 .. head - 1 \subseteq 0 .. head' - 1
      BY <1>0, <1>6 DEF Claims
    <2>3. Blocks(x) \subseteq Blocks(x)'
      BY <1>6, <2>2 DEF Claims, Blocks, Held
    <2> QED BY <1>4, <1>6, <2>1, <2>3 DEF Claims, Credit
  <1>7. ASSUME NEW y \in Nat, NEW i \in Indices, Inserts(y, i) PROVE Covered(x)'
    <2>1. Ahead(x)' = Ahead(x)
      BY <1>7 DEF Inserts, Ahead
    <2>2. Blocks(x) \subseteq Blocks(x)'
      BY <1>7 DEF Inserts, Blocks, Held
    <2> QED BY <1>4, <1>7, <2>1, <2>2 DEF Inserts, Credit
  <1>8. ASSUME NEW y \in Nat, NEW i \in Indices, Removes(y, i) PROVE Covered(x)'
    <2>1. y < x
      BY <1>0, <1>8 DEF Removes
    <2>2. Ahead(x) \subseteq Ahead(x)'
      <3>1. \A z \in x .. tail - 1 : z # y
        BY <1>0, <2>1
      <3> QED BY <1>8, <3>1 DEF Removes, Ahead
    <2>3. Credit(x) \subseteq Credit(x)'
      BY <1>8, <2>2 DEF Removes, Credit, Blocks, Held
    <2> QED BY <1>4, <1>8, <2>2, <2>3 DEF Removes
  <1> QED
    BY <1>1, <1>2, <1>3, <1>5, <1>6, <1>7, <1>8 DEF Changes

\* The flag is never taken back, and only finalizable rings have it.
LEMMA FlagStep ==
  ASSUME NEW t \in Threads, Invoke(t) \/ Step(t)
  PROVE  is_finalized' = is_finalized \/ (is_finalized' = TRUE /\ Mode = 1)
  <1>1. CASE Finalize(t)
    BY <1>1 DEF Finalize
  <1>2. ASSUME NEW i \in pool, EnqCall(t, i) PROVE is_finalized' = is_finalized
    BY <1>2 DEF EnqCall, shared
  <1>3. CASE DeqCall(t) \/ Refill(t)
    BY <1>3 DEF DeqCall, Refill, shared
  <1>4. CASE EnqStep(t)
    BY <1>4
    DEF EnqStep, EnqTail, EnqLoad, EnqHead, EnqFin, EnqCasOk, EnqCasFail, EnqThrLoad, EnqThrStore,
        shared
  <1>5. CASE DeqStep(t)
    BY <1>5
    DEF DeqStep, DeqThr, DeqHead, DeqLoad, DeqOr, DeqCasOk, DeqCasFail, DeqTail, DeqNone, DeqSub,
        CatchStep, CatchCasOk, CatchCasFail, CatchHead, CatchTail, shared
  <1> QED BY <1>1, <1>2, <1>3, <1>4, <1>5 DEF Invoke, Step

\* An insertion is decided on an open ring.
LEMMA TryStep ==
  ASSUME IInv, NEW t \in Threads, Invoke(t) \/ Step(t), pc[t] # "e_cas", pc'[t] = "e_cas"
  PROVE  /\ pc[t] \in InHand /\ ticket'[t] = ticket[t]
         /\ ~is_finalized \/ Mode = 0
  <1> USE DEF Goto, Return, Call, InHand, EnqBefore, local, IInv, TypeOK
  <1>1. CASE EnqLoad(t)
    BY <1>1, RingAssumption DEF EnqLoad, Insertable
  <1>2. CASE EnqHead(t)
    BY <1>2, RingAssumption DEF EnqHead, Insertable
  <1>3. CASE EnqFin(t)
    BY <1>3 DEF EnqFin
  <1>4. ASSUME NEW i \in pool, EnqCall(t, i) PROVE FALSE
    BY <1>4 DEF EnqCall
  <1>5. CASE DeqCall(t) \/ Finalize(t) \/ Refill(t)
    BY <1>5 DEF DeqCall, Finalize, Refill
  <1>6. CASE EnqTail(t) \/ EnqCasOk(t) \/ EnqCasFail(t) \/ EnqThrLoad(t) \/ EnqThrStore(t)
    BY <1>6 DEF EnqTail, EnqCasOk, EnqCasFail, EnqThrLoad, EnqThrStore
  <1>7. CASE DeqThr(t) \/ DeqHead(t) \/ DeqLoad(t) \/ DeqOr(t) \/ DeqCasOk(t) \/ DeqCasFail(t)
    BY <1>7 DEF DeqThr, DeqHead, DeqLoad, DeqOr, DeqCasOk, DeqCasFail
  <1>8. CASE DeqTail(t) \/ DeqNone(t) \/ DeqSub(t) \/ CatchStep(t)
    BY <1>8
    DEF DeqTail, DeqNone, DeqSub, CatchStep, CatchCasOk, CatchCasFail, CatchHead, CatchTail
  <1> QED
    BY <1>1, <1>2, <1>3, <1>4, <1>5, <1>6, <1>7, <1>8 DEF Invoke, Step, EnqStep, DeqStep

\* What follows the decision to insert.
LEMMA CasSteps ==
  ASSUME NEW t \in Threads, Invoke(t) \/ Step(t), pc[t] = "e_cas"
  PROVE  EnqCasOk(t) \/ EnqCasFail(t)
  BY DEF Invoke, Step, EnqStep, DeqStep, CatchStep, EnqCall, DeqCall, Finalize, Refill, Call,
         EnqTail, EnqLoad, EnqHead, EnqFin, EnqThrLoad, EnqThrStore, DeqThr, DeqHead, DeqLoad,
         DeqOr, DeqCasOk, DeqCasFail, DeqTail, DeqNone, DeqSub, CatchCasOk, CatchCasFail,
         CatchHead, CatchTail, Goto, Return

\* Near is inductive.
LEMMA NearStep ==
  ASSUME IInv, IInv', Issued, Spread, Near, Changes, NEW t \in Threads, Invoke(t) \/ Step(t)
  PROVE  Near'
  <1>0. head \in Nat /\ tail \in Nat /\ head' \in Nat /\ N \in Nat \ {0}
    BY NType DEF IInv, TypeOK
  <1>1. head <= head'
    <2>1. head' = head \/ head' = head + 1
      BY DEF Changes, Still, Takes, Leaves, Inserts, Removes, Claims, Catches
    <2> QED BY <1>0, <2>1
  <1>2. is_finalized' => Mode = 1
    BY FlagStep DEF Near
  <1>3. ASSUME NEW p \in Placed' PROVE p[1] <= head' + N - 2
    <2>1. p[1] \in Nat /\ p[1] <= head + N - 2
      <3>1. CASE p \in Placed
        BY <3>1, ViewHolds DEF Near, ViewOK
      <3>2. CASE p \notin Placed
        <4>1. PICK y \in Nat, i \in Indices : Inserts(y, i)
          BY <1>3, <3>2 DEF Changes, Still, Takes, Leaves, Removes, Claims, Catches
        <4>2. p = <<y, i>> /\ \E u \in Threads : pc[u] = "e_cas" /\ ticket[u] = y
          BY <1>3, <3>2, <4>1 DEF Inserts
        <4> QED BY <4>2 DEF Near
      <3> QED BY <3>1, <3>2
    <2> QED BY <1>0, <1>1, <2>1
  <1>4. ASSUME NEW u \in Threads, pc'[u] = "e_cas" PROVE ticket'[u] <= head' + N - 2
    <2>1. Others(t) /\ ticket[u] \in Nat
      BY OthersStep DEF IInv, TypeOK
    <2>2. CASE pc[u] = "e_cas" /\ ticket'[u] = ticket[u]
      <3>1. ticket[u] <= head + N - 2
        BY <2>2 DEF Near
      <3> QED BY <1>0, <1>1, <2>1, <2>2, <3>1
    <2>3. CASE u = t /\ pc[t] # "e_cas"
      <3>1. pc[t] \in InHand /\ ticket'[t] = ticket[t] /\ (~is_finalized \/ Mode = 0)
        BY <1>4, <2>3, TryStep
      <3>2. ~is_finalized
        BY <3>1 DEF Near
      <3>3. ticket[t] < tail
        <4>1. <<ticket[t], eidx[t]>> \in Brought
          BY <3>1, ViewAt
        <4> QED BY <4>1 DEF Issued
      <3>4. tail <= head + N - 1
        BY <3>2, TailRange
      <3> QED BY <1>0, <1>1, <2>1, <2>3, <3>1, <3>3, <3>4
    <2>4. u # t => pc'[u] = pc[u] /\ ticket'[u] = ticket[u]
      BY <2>1 DEF Others
    <2>5. pc[t] = "e_cas" => pc'[t] # "e_cas"
      <3>1. SUFFICES ASSUME pc[t] = "e_cas" PROVE pc'[t] # "e_cas"
        OBVIOUS
      <3>2. EnqCasOk(t) \/ EnqCasFail(t)
        BY <3>1, CasSteps
      <3> QED BY <3>2 DEF EnqCasOk, EnqCasFail, Goto, IInv, TypeOK
    <2> QED BY <1>4, <2>2, <2>3, <2>4, <2>5
  <1> QED BY <1>2, <1>3, <1>4 DEF Near

-----------------------------------------------------------------------------
(* The threshold.                                                          *)

\* The actions that write the counters and the array.
LEMMA Writers ==
  ASSUME NEW t \in Threads, Invoke(t) \/ Step(t)
  PROVE  /\ head' = head \/ DeqHead(t)
         /\ array' = array \/ EnqCasOk(t) \/ DeqOr(t) \/ DeqCasOk(t)
         /\ \/ threshold' = threshold
            \/ EnqThrStore(t) \/ Refill(t)
            \/ DeqNone(t) \/ DeqSub(t)
  <1>1. ASSUME NEW i \in pool, EnqCall(t, i) PROVE UNCHANGED <<head, array, threshold>>
    BY <1>1 DEF EnqCall, shared
  <1>2. CASE DeqCall(t) \/ Finalize(t) \/ Refill(t)
    BY <1>2 DEF DeqCall, Finalize, Refill, shared
  <1>3. CASE EnqStep(t)
    BY <1>3
    DEF EnqStep, EnqTail, EnqLoad, EnqHead, EnqFin, EnqCasOk, EnqCasFail, EnqThrLoad, EnqThrStore,
        shared
  <1>4. CASE DeqStep(t)
    BY <1>4
    DEF DeqStep, DeqThr, DeqHead, DeqLoad, DeqOr, DeqCasOk, DeqCasFail, DeqTail, DeqNone, DeqSub,
        CatchStep, CatchCasOk, CatchCasFail, CatchHead, CatchTail, shared
  <1> QED BY <1>1, <1>2, <1>3, <1>4 DEF Invoke, Step

\* An index that waits for a dequeue is not taken away by another thread.
LEMMA MineStays ==
  ASSUME IInv, NEW t \in Threads, Invoke(t) \/ Step(t),
         NEW u \in Threads, u # t, pc[u] \in DeqSlot, Mine(u)
  PROVE  Mine(u)'
  <1> DEFINE r == Map(ticket[u])
             s == Map(ticket[t])
  <1>1. /\ Others(t) /\ ticket'[u] = ticket[u]
        /\ r \in Slots /\ s \in Slots /\ array[r] \in Entry /\ array[s] \in Entry
        /\ ticket[u] \in Nat /\ ticket[t] \in Nat
    BY OthersStep, TicketFacts DEF IInv, Others, Word
  <1>2. IsLive(array[r]) /\ array[r].cyc = Cycle(ticket[u])
    BY DEF Mine
  <1>3. SUFFICES IsLive(array'[r]) /\ array'[r].cyc = array[r].cyc
    BY <1>1, <1>2 DEF Mine
  <1>4. CASE array' = array
    BY <1>2, <1>4
  <1>5. CASE EnqCasOk(t)
    <2>1. pc[t] = "e_cas" /\ array[s] = entry[t] /\ array' = [array EXCEPT ![s] = NewEntry(t)]
      BY <1>5 DEF EnqCasOk, Goto
    <2>2. ~IsLive(array[s])
      BY <2>1 DEF IInv, EnqueueOk
    <2>3. r # s
      BY <1>2, <2>2
    <2> QED BY <1>1, <1>2, <2>1, <2>3 DEF IInv, TypeOK
  <1>6. CASE DeqCasOk(t)
    <2>1. array[s] = entry[t] /\ array' = [array EXCEPT ![s] = Blocked(array[s], ticket[t])]
      BY <1>6 DEF DeqCasOk
    <2>2. CASE r = s
      BY <1>1, <1>2, <2>1, <2>2 DEF Blocked, IsLive, Entry, IInv, TypeOK
    <2>3. CASE r # s
      BY <1>1, <1>2, <2>1, <2>3 DEF IInv, TypeOK
    <2> QED BY <2>2, <2>3
  <1>7. CASE DeqOr(t)
    <2>1. pc[t] = "d_or" /\ array' = [array EXCEPT ![s].idx = Bot]
      BY <1>7 DEF DeqOr, Return, Goto
    <2>2. array[s].cyc = Cycle(ticket[t])
      BY <2>1 DEF IInv, DequeueOk, Word
    <2>3. r # s
      <3>1. SUFFICES ASSUME r = s PROVE FALSE
        OBVIOUS
      <3>2. ticket[u] = ticket[t]
        BY <1>1, <1>2, <2>2, <3>1, SlotOfTicket
      <3> QED BY <2>1, <3>2 DEF IInv, TicketsOk, DeqSlot
    <2> QED BY <1>1, <1>2, <2>1, <2>3 DEF IInv, TypeOK
  <1> QED BY <1>4, <1>5, <1>6, <1>7, Writers

\* A dequeue owes from the moment it takes a ticket without an index to its
\* subtraction.
LEMMA OwingStep ==
  ASSUME IInv, NEW t \in Threads, Invoke(t) \/ Step(t)
  PROVE  /\ Owing' \subseteq Owing \union {t}
         /\ t \in Owing' => t \in Owing \/ DeqHead(t)
         /\ DeqNone(t) \/ DeqSub(t) => t \in Owing /\ t \notin Owing'
  <1>0. /\ Others(t) /\ pc[t] \in PC
        /\ \A u : u \in Owing <=> /\ u \in Threads
                                  /\ \/ pc[u] \in {"d_tail", "d_none", "d_sub"} \union Catching
                                     \/ pc[u] \in DeqSlot /\ ~Mine(u)
        /\ \A u : u \in Owing' <=> /\ u \in Threads
                                   /\ \/ pc'[u] \in {"d_tail", "d_none", "d_sub"} \union Catching
                                      \/ pc'[u] \in DeqSlot /\ ~Mine(u)'
    BY OthersStep DEF Owing, IInv, TypeOK
  <1>1. ASSUME NEW u \in Owing', u # t PROVE u \in Owing
    <2>1. u \in Threads /\ pc'[u] = pc[u]
      BY <1>0, <1>1 DEF Others
    <2> QED BY <1>0, <1>1, <2>1, MineStays
  <1>2. ASSUME t \in Owing', ~DeqHead(t) PROVE t \in Owing
    <2>1. \/ pc'[t] \in {"d_tail", "d_none", "d_sub"} \union Catching
          \/ pc'[t] \in DeqSlot /\ ~Mine(t)'
      BY <1>0, <1>2
    <2>2. CASE DeqLoad(t)
      <3>1. /\ pc[t] = "d_load" /\ array' = array /\ ticket' = ticket
            /\ pc'[t] \in DeqSlot \/ (pc'[t] = "d_tail" /\ Word(t).cyc # Cycle(ticket[t]))
        BY <2>2 DEF DeqLoad, Goto, shared, DeqSlot, Word, IInv, TypeOK
      <3>2. Mine(t)' <=> Mine(t)
        BY <3>1 DEF Mine
      <3>3. ~Mine(t)
        BY <2>1, <3>1, <3>2 DEF Mine, Word, DeqSlot, Catching
      <3> QED BY <1>0, <3>1, <3>3 DEF DeqSlot
    <2>3. CASE DeqCasOk(t)
      <3>1. pc[t] = "d_cas" /\ Word(t) = entry[t]
        BY <2>3 DEF DeqCasOk, Goto, Word
      <3>2. entry[t].cyc < Cycle(ticket[t]) /\ entry[t].cyc \in Int /\ Cycle(ticket[t]) \in Int
        BY <3>1, TicketFacts DEF IInv, DequeueOk
      <3>3. ~Mine(t)
        BY <3>1, <3>2 DEF Mine, Word
      <3> QED BY <1>0, <3>1, <3>3 DEF DeqSlot
    <2>4. CASE DeqCasFail(t)
      <3>1. /\ pc[t] = "d_cas" /\ array' = array /\ ticket' = ticket /\ pc'[t] = "d_load"
        BY <2>4 DEF DeqCasFail, Goto, shared, local, IInv, TypeOK
      <3> QED BY <1>0, <2>1, <3>1 DEF Mine, DeqSlot, Catching
    <2>5. CASE DeqTail(t) \/ CatchStep(t)
      <3>1. pc[t] \in {"d_tail"} \union Catching
        BY <2>5 DEF DeqTail, CatchStep, CatchCasOk, CatchCasFail, CatchHead, CatchTail, Goto, Catching
      <3> QED BY <1>0, <3>1
    <2>6. pc'[t] \in {"d_load", "d_or", "d_cas", "d_tail", "d_none", "d_sub"} \union Catching
      BY <2>1 DEF DeqSlot
    <2>7. ASSUME NEW i \in pool, EnqCall(t, i) PROVE FALSE
      BY <2>6, <2>7 DEF EnqCall, Call, Goto, Catching, IInv, TypeOK
    <2>8. CASE DeqCall(t) \/ Finalize(t) \/ Refill(t)
      BY <2>6, <2>8 DEF DeqCall, Finalize, Refill, Call, Goto, Catching, IInv, TypeOK
    <2>9. CASE EnqTail(t) \/ EnqLoad(t) \/ EnqHead(t) \/ EnqFin(t)
      BY <2>6, <2>9, RingAssumption
      DEF EnqTail, EnqLoad, EnqHead, EnqFin, Goto, Return, Insertable, Catching, IInv, TypeOK
    <2>10. CASE EnqCasOk(t) \/ EnqCasFail(t) \/ EnqThrLoad(t) \/ EnqThrStore(t)
      BY <2>6, <2>10
      DEF EnqCasOk, EnqCasFail, EnqThrLoad, EnqThrStore, Goto, Return, Catching, IInv, TypeOK
    <2>11. CASE DeqThr(t) \/ DeqOr(t) \/ DeqNone(t) \/ DeqSub(t)
      BY <2>6, <2>11 DEF DeqThr, DeqOr, DeqNone, DeqSub, Goto, Return, Catching, IInv, TypeOK
    <2> QED
      BY <1>2, <2>2, <2>3, <2>4, <2>5, <2>7, <2>8, <2>9, <2>10, <2>11
      DEF Invoke, Step, EnqStep, DeqStep
  <1>3. ASSUME DeqNone(t) \/ DeqSub(t) PROVE t \in Owing /\ t \notin Owing'
    <2>1. pc[t] \in {"d_none", "d_sub"} /\ pc'[t] \in {"idle", "d_head"}
      BY <1>3 DEF DeqNone, DeqSub, Goto, Return, IInv, TypeOK
    <2> QED BY <1>0, <2>1 DEF DeqSlot, Catching
  <1>4. Owing' \subseteq Owing \union {t}
    BY <1>1
  <1> QED BY <1>2, <1>3, <1>4

\* The threshold outlasts the subtractions under way and the tickets up to y.
Budget(y) == threshold >= Cardinality(Owing) + y - head

\* Few enough dequeues are at work for the value that an enqueue stores.
FewDequeuers == MaxDequeuers <= Half + 1

\* The sum behind the value 3 * Half - 1.
LEMMA BudgetSum ==
  ASSUME NEW thr \in Int, NEW h \in Nat, NEW k \in Nat, NEW n \in Nat, NEW owing \in Nat,
         NEW size \in Nat, NEW y \in Nat,
         thr >= k + n - 1, owing <= size, size <= k + 1, y <= h + n - 2
  PROVE  thr >= owing + y - h
  OBVIOUS

\* The value that is stored after an insertion is enough for it.
LEMMA BudgetFull ==
  ASSUME IInv', FloorInv', FewDequeuers, threshold' >= Threshold3,
         NEW y \in Nat, y <= head' + N - 2
  PROVE  Budget(y)'
  <1>1. /\ Cardinality(Owing') \in Nat /\ Cardinality(Dequeuers') \in Nat
        /\ Cardinality(Owing') <= Cardinality(Dequeuers')
    <2>1. Dequeuers' \in SUBSET Threads /\ Owing' \in SUBSET Dequeuers'
      BY DEF Dequeuers, Owing, DeqAll
    <2> QED BY <2>1, Sizes
  <1>2. Cardinality(Dequeuers') <= Half + 1
    <2>1. Cardinality(Dequeuers') <= MaxDequeuers
      BY DEF FloorInv
    <2> QED BY <1>1, <2>1, RingAssumption DEF FewDequeuers
  <1>3. /\ head' \in Nat /\ threshold' \in Int /\ Half \in Nat
        /\ N \in Nat /\ Threshold3 = Half + N - 1
    <2>1. head' \in Nat /\ threshold' \in Int
      BY DEF IInv, TypeOK
    <2> QED BY <2>1, NType, RingAssumption DEF Threshold3
  <1>4. threshold' >= Cardinality(Owing') + y - head'
    BY <1>1, <1>2, <1>3, BudgetSum
  <1> QED BY <1>4 DEF Budget

\* A ticket that head has not reached keeps its budget: head and the debts of
\* the dequeues go on together.
LEMMA BudgetStep ==
  ASSUME IInv, IInv', FloorInv', FewDequeuers, NEW t \in Threads, Invoke(t) \/ Step(t),
         NEW y \in Nat, Budget(y), y <= head' + N - 2
  PROVE  Budget(y)'
  <1>1. /\ Cardinality(Owing) \in Nat /\ IsFiniteSet(Owing)
        /\ Cardinality(Owing') \in Nat /\ IsFiniteSet(Owing')
    BY Sizes DEF Owing
  <1>2. head \in Nat /\ head' \in Nat /\ threshold \in Int /\ threshold' \in Int
    BY DEF IInv, TypeOK
  <1>3. CASE EnqThrStore(t) \/ Refill(t)
    <2>1. threshold' >= Threshold3
      BY <1>3, RingAssumption DEF EnqThrStore, Refill, Threshold3, N
    <2> QED BY <2>1, BudgetFull
  <1>4. CASE DeqHead(t)
    <2>1. head' = head + 1 /\ threshold' = threshold
      BY <1>4 DEF DeqHead
    <2>2. Cardinality(Owing') <= Cardinality(Owing) + 1
      <3>1. /\ Cardinality(Owing \union {t}) <= Cardinality(Owing) + 1
            /\ Cardinality(Owing \union {t}) \in Nat
        <4>1. Cardinality(Owing \union {t}) =
                IF t \in Owing THEN Cardinality(Owing) ELSE Cardinality(Owing) + 1
          BY <1>1, FS_AddElement
        <4> QED BY <1>1, <4>1
      <3>2. Cardinality(Owing') <= Cardinality(Owing \union {t})
        <4>1. Owing \union {t} \in SUBSET Threads /\ Owing' \in SUBSET (Owing \union {t})
          BY OwingStep DEF Owing
        <4> QED BY <4>1, Sizes
      <3> QED BY <1>1, <3>1, <3>2
    <2> QED BY <1>1, <1>2, <2>1, <2>2 DEF Budget
  <1>5. CASE DeqNone(t) \/ DeqSub(t)
    <2>1. head' = head /\ threshold' = threshold - 1
      BY <1>5 DEF DeqNone, DeqSub
    <2>2. Cardinality(Owing') <= Cardinality(Owing) - 1
      <3>1. t \in Owing /\ Owing' \in SUBSET (Owing \ {t}) /\ Owing \ {t} \in SUBSET Threads
        BY <1>5, OwingStep DEF Owing
      <3>2. Cardinality(Owing \ {t}) = Cardinality(Owing) - 1
        BY <1>1, <3>1, FS_RemoveElement
      <3>3. Cardinality(Owing') <= Cardinality(Owing \ {t})
        BY <3>1, Sizes
      <3> QED BY <3>2, <3>3
    <2> QED BY <1>1, <1>2, <2>1, <2>2 DEF Budget
  <1>6. CASE head' = head /\ threshold' = threshold /\ ~DeqHead(t)
    <2>1. Cardinality(Owing') <= Cardinality(Owing)
      <3>1. Owing \in SUBSET Threads /\ Owing' \in SUBSET Owing
        BY <1>6, OwingStep DEF Owing
      <3> QED BY <3>1, Sizes
    <2> QED BY <1>1, <1>2, <1>6, <2>1 DEF Budget
  <1>7. CASE DeqHead(t) \/ (head' = head /\ threshold' = threshold)
    BY <1>4, <1>6, <1>7
  <1>8. \/ EnqThrStore(t) \/ Refill(t) \/ DeqNone(t) \/ DeqSub(t)
        \/ DeqHead(t) \/ (head' = head /\ threshold' = threshold)
    BY Writers
  <1> QED BY <1>3, <1>5, <1>7, <1>8

\* An index gets a ticket only by the compare_exchange of an enqueue.
LEMMA PlacedStep ==
  ASSUME IInv, NEW t \in Threads, Invoke(t) \/ Step(t), NEW p \in Placed', p \notin Placed
  PROVE  EnqCasOk(t) /\ p[1] = ticket[t]
  <1>1. CASE array' = array
    BY <1>1, PlacedSame
  <1>2. CASE EnqCasOk(t)
    <2>1. Placed' = Placed \union {<<ticket[t], eidx[t]>>}
      BY <1>2, EnqCasView DEF Inserts
    <2>2. p = <<ticket[t], eidx[t]>>
      BY <2>1
    <2> QED BY <1>2, <2>2
  <1>3. CASE DeqOr(t)
    BY <1>3, DeqOrView DEF Removes
  <1>4. CASE DeqCasOk(t)
    BY <1>4, DeqCasView DEF Still
  <1> QED BY <1>1, <1>2, <1>3, <1>4, Writers

\* An enqueue returns with the threshold restored.
LEMMA RestoreStep ==
  ASSUME IInv, NEW t \in Threads, Invoke(t) \/ Step(t), NEW y \in Nat,
         Restoring(y), ~Restoring(y)'
  PROVE  threshold' >= Threshold3
  <1>1. PICK u \in Threads : pc[u] \in EnqAfter /\ ticket[u] = y
    BY DEF Restoring
  <1>2. ~(pc'[u] \in EnqAfter /\ ticket'[u] = ticket[u])
    BY <1>1 DEF Restoring
  <1>3. u = t
    BY <1>1, <1>2, OthersStep DEF IInv, Others
  <1>4. EnqThrLoad(t) \/ EnqThrStore(t)
    BY <1>1, <1>3
    DEF EnqAfter, Invoke, Step, EnqStep, DeqStep, CatchStep, EnqCall, DeqCall, Finalize, Refill,
        Call, EnqTail, EnqLoad, EnqHead, EnqFin, EnqCasOk, EnqCasFail, DeqThr, DeqHead, DeqLoad,
        DeqOr, DeqCasOk, DeqCasFail, DeqTail, DeqNone, DeqSub, CatchCasOk, CatchCasFail,
        CatchHead, CatchTail, Goto, Return
  <1>5. CASE EnqThrLoad(t)
    <2>1. threshold = Threshold3 /\ threshold' = threshold
      BY <1>2, <1>3, <1>5 DEF EnqThrLoad, Goto, EnqAfter, shared, local, IInv, TypeOK
    <2> QED BY <2>1, RingAssumption DEF Threshold3, N
  <1>6. CASE EnqThrStore(t)
    BY <1>6, RingAssumption DEF EnqThrStore, Threshold3, N
  <1> QED BY <1>4, <1>5, <1>6

\* Enough is inductive.
LEMMA EnoughStep ==
  ASSUME IInv, IInv', Near', Enough, FloorInv', FewDequeuers, Changes,
         NEW t \in Threads, Invoke(t) \/ Step(t)
  PROVE  Enough'
  <1>0. head \in Nat /\ head' \in Nat /\ head <= head'
    <2>1. head' = head \/ head' = head + 1
      BY DEF Changes, Still, Takes, Leaves, Inserts, Removes, Claims, Catches
    <2> QED BY <2>1 DEF IInv, TypeOK
  <1>1. SUFFICES ASSUME NEW p \in Placed', p[1] >= head', ~Restoring(p[1])'
                 PROVE  Budget(p[1])'
    BY DEF Enough, Budget
  <1>2. p[1] \in Nat /\ p[1] <= head' + N - 2
    <2>1. ViewOK'
      BY ViewHolds, PTL
    <2> QED BY <1>1, <2>1 DEF ViewOK, Near
  <1>3. CASE threshold' >= Threshold3
    BY <1>2, <1>3, BudgetFull
  <1>4. CASE ~(threshold' >= Threshold3)
    <2>1. ~Restoring(p[1])
      BY <1>1, <1>2, <1>4, RestoreStep
    <2>2. p \in Placed
      <3>1. SUFFICES ASSUME p \notin Placed PROVE FALSE
        OBVIOUS
      <3>2. EnqCasOk(t) /\ p[1] = ticket[t]
        BY <3>1, PlacedStep
      <3>3. pc'[t] \in EnqAfter /\ ticket'[t] = p[1]
        BY <3>2 DEF EnqCasOk, Goto, local, EnqAfter, IInv, TypeOK
      <3> QED BY <1>1, <3>3 DEF Restoring
    <2>3. p[1] >= head
      BY <1>0, <1>1, <1>2
    <2>4. Budget(p[1])
      BY <2>1, <2>2, <2>3 DEF Enough, Budget
    <2> QED BY <1>2, <2>4, BudgetStep
  <1> QED BY <1>3, <1>4

-----------------------------------------------------------------------------
(* The invariant.                                                          *)

\* A new ring: empty, or with index s at ticket s.
LEMMA InitReach ==
  ASSUME Init
  PROVE  ReachInv
  <1>0. Half \in Nat \ {0} /\ N = 2 * Half /\ Bot = N - 1 /\ Threshold3 = Half + N - 1
    BY RingAssumption DEF N, Bot, Threshold3
  <1>1. /\ head = 0 /\ is_finalized = FALSE
        /\ \A t \in Threads : pc[t] = "idle"
        /\ Full => tail = Half /\ threshold = Threshold3
        /\ ~Full => tail = 0
    BY DEF Init
  <1>2. Brought = {}
    BY <1>1, ViewAt DEF InHand, EnqBefore
  <1>3. \A p : p \in Placed <=> Full /\ \E s \in Indices : p = <<s, s>>
    <2>1. ASSUME NEW s \in Slots
          PROVE  /\ IsLive(array[s]) <=> Full /\ s \in Indices
                 /\ IsLive(array[s]) => array[s].idx = s /\ TicketOf(s) = s
      <3>1. array[s] = IF Full /\ s < Half THEN [cyc |-> 0, safe |-> TRUE, idx |-> s] ELSE Blank
        BY DEF Init
      <3>2. s < Half <=> s \in Indices
        BY <1>0 DEF Slots, Indices
      <3>3. CASE Full /\ s < Half
        BY <1>0, <3>1, <3>2, <3>3 DEF IsLive, TicketOf, TicketAt, Slots
      <3>4. CASE ~(Full /\ s < Half)
        BY <3>1, <3>2, <3>4 DEF IsLive, Blank
      <3> QED BY <3>3, <3>4
    <2>2. Indices \subseteq Slots
      BY <1>0 DEF Indices, Slots
    <2> QED BY <2>1, <2>2, ViewAt
  <1>4. Issued
    BY <1>0, <1>1, <1>2, <1>3 DEF Issued, Indices
  <1>5. Spread
    <2>1. SUFFICES ASSUME Full, NEW x \in 0 .. Half - 1 PROVE Covered(x)
      BY <1>0, <1>1 DEF Spread, Covered
    <2>2. x .. Half - 1 = Ahead(x)
      <3>1. ASSUME NEW i \in x .. Half - 1 PROVE i \in Ahead(x)
        <4>1. i \in Indices /\ i \in x .. tail - 1 /\ <<i, i>> \in Placed
          BY <1>0, <1>1, <1>3, <2>1, <3>1 DEF Indices
        <4> QED BY <4>1 DEF Ahead
      <3>2. ASSUME NEW i \in Ahead(x) PROVE i \in x .. Half - 1
        <4>1. PICK y \in x .. tail - 1 : <<y, i>> \in Placed
          BY <1>2 DEF Ahead
        <4> QED BY <1>0, <1>1, <1>3, <2>1, <4>1
      <3> QED BY <3>1, <3>2
    <2>3. Cardinality(Ahead(x)) = Half - x
      <3>1. Cardinality(x .. Half - 1) = Half - 1 - x + 1
        BY <1>0, FS_Interval
      <3> QED BY <1>0, <2>2, <3>1
    <2>4. Spare \subseteq Indices
      BY <1>1, ViewAt DEF Init
    <2>5. Ahead(x) \in SUBSET Credit(x) /\ Credit(x) \in SUBSET Indices
      BY <2>4 DEF Credit, Ahead, Blocks
    <2>6. Cardinality(Credit(x)) \in Nat /\ Cardinality(Ahead(x)) <= Cardinality(Credit(x))
      BY <2>5, IndexSets
    <2> QED BY <1>0, <1>1, <2>1, <2>3, <2>6 DEF Covered
  <1>6. Near
    BY <1>0, <1>1, <1>3 DEF Near, Indices
  <1>7. Enough
    <2>1. Owing = {}
      BY <1>1 DEF Owing, DeqSlot, Catching
    <2>2. Cardinality(Owing) = 0
      BY <2>1, FS_EmptySet
    <2> QED BY <1>0, <1>1, <1>3, <2>2 DEF Enough, Indices
  <1> QED BY <1>4, <1>5, <1>6, <1>7 DEF ReachInv

\* ReachInv is inductive, as long as there are few dequeues at work.
LEMMA ReachStep ==
  ASSUME IInv, IInv', FloorInv', FewDequeuers, ReachInv, [Next]_vars
  PROVE  ReachInv'
  <1>1. CASE UNCHANGED vars
    <2>1. UNCHANGED <<head, tail, threshold, is_finalized, array, pc, ticket, eidx, pool>>
      BY <1>1 DEF vars, shared, local, client
    <2>2. UNCHANGED <<Placed, Brought, Spare>>
      BY <2>1 DEF Placed, Brought, Spare, TicketOf
    <2>3. Issued' /\ Near'
      BY <2>1, <2>2 DEF ReachInv, Issued, Near
    <2>4. Spread'
      <3>1. \A x : Ahead(x)' = Ahead(x) /\ Blocks(x)' = Blocks(x)
        BY <2>1, <2>2 DEF Ahead, Blocks, Held
      <3>2. \A x : Credit(x)' = Credit(x)
        BY <2>2, <3>1 DEF Credit
      <3> QED BY <2>1, <3>1, <3>2 DEF ReachInv, Spread
    <2>5. Enough'
      BY <2>1, <2>2 DEF ReachInv, Enough, Owing, Restoring, Mine
    <2> QED BY <2>3, <2>4, <2>5 DEF ReachInv
  <1>2. ASSUME NEW t \in Threads, Invoke(t) \/ Step(t) PROVE ReachInv'
    <2>1. Changes
      BY <1>2, ChangesStep
    <2>2. Issued'
      BY <2>1, IssuedStep DEF ReachInv
    <2>3. Spread'
      <3>1. is_finalized => is_finalized'
        BY <1>2, FlagStep
      <3> QED BY <2>1, <3>1, SpreadStep DEF ReachInv
    <2>4. Near'
      BY <1>2, <2>1, NearStep DEF ReachInv
    <2>5. Enough'
      BY <1>2, <2>1, <2>4, EnoughStep DEF ReachInv
    <2> QED BY <2>2, <2>3, <2>4, <2>5 DEF ReachInv
  <1> QED BY <1>1, <1>2 DEF Next

\* ReachInv holds in every reachable state.
THEOREM ReachCorrect ==
  ASSUME FewDequeuers
  PROVE  Spec => []ReachInv
  <1>1. Init => ReachInv
    BY InitReach
  <1>2. IInv /\ IInv' /\ FloorInv' /\ ReachInv /\ [Next]_vars => ReachInv'
    BY ReachStep
  <1> QED BY <1>1, <1>2, Invariance, FloorHolds, PTL DEF Spec

\* A negative threshold of a ring that nobody uses means that it is empty
\* (src/scq.rs:330): with at most capacity + 1 dequeues at a time the ring
\* never has an index that no dequeue finds.
THEOREM NegativeMeansEmptyCorrect ==
  ASSUME FewDequeuers
  PROVE  Spec => []NegativeMeansEmpty
  <1>1. IInv /\ ReachInv => NegativeMeansEmpty
    <2> SUFFICES ASSUME IInv, ReachInv, threshold < 0, \A t \in Threads : pc[t] = "idle",
                        NEW s \in Slots, IsLive(array[s])
                 PROVE  FALSE
      BY DEF NegativeMeansEmpty
    <2>1. <<TicketOf(s), array[s].idx>> \in Placed /\ TicketOf(s) \in Nat
      BY ViewAt, LiveSlot
    <2>2. head \in Nat /\ threshold \in Int
      BY DEF IInv, TypeOK
    <2>3. TicketOf(s) >= head
      <3>1. ~(TicketOf(s) < head)
        BY DEF IInv, NoOrphan, DeqSlot
      <3> QED BY <2>1, <2>2, <3>1
    <2>4. ~Restoring(TicketOf(s))
      BY DEF Restoring, EnqAfter
    <2>5. threshold >= Cardinality(Owing) + TicketOf(s) - head
      BY <2>1, <2>3, <2>4 DEF ReachInv, Enough
    <2>6. Cardinality(Owing) \in Nat
      BY Sizes DEF Owing
    <2> QED BY <2>1, <2>2, <2>3, <2>5, <2>6
  <1> QED BY <1>1, ReachCorrect, Invariance, PTL

-----------------------------------------------------------------------------
(* A finalized ring that was refilled or drained.                          *)

\* A ticket is due if it has an index that is not claimed, or may get one.
LEMMA DueAt ==
  /\ \A y : y \in Due <=> \/ \E p \in Placed : p[1] = y /\ y >= head
                          \/ \E t \in Threads : pc[t] = "e_cas" /\ ticket[t] = y /\ y >= head
  /\ \A y : y \in Due' <=> \/ \E p \in Placed' : p[1] = y /\ y >= head'
                           \/ \E t \in Threads : pc'[t] = "e_cas" /\ ticket'[t] = y /\ y >= head'
  BY DEF Due

\* The tickets that are due are near head and behind tail.
LEMMA DueNear ==
  ASSUME IInv, Issued, Near, NEW y \in Due
  PROVE  y \in Nat /\ head <= y /\ y < tail /\ y <= head + N - 2
  <1>1. CASE \E p \in Placed : p[1] = y /\ y >= head
    <2>1. PICK p \in Placed : p[1] = y /\ y >= head
      BY <1>1
    <2>2. p[1] \in Nat
      BY ViewHolds DEF ViewOK
    <2>3. p[1] < tail /\ p[1] <= head + N - 2
      BY DEF Issued, Near
    <2>4. head \in Nat
      BY DEF IInv, TypeOK
    <2> QED BY <2>1, <2>2, <2>3, <2>4
  <1>2. CASE \E t \in Threads : pc[t] = "e_cas" /\ ticket[t] = y /\ y >= head
    <2>1. PICK t \in Threads : pc[t] = "e_cas" /\ ticket[t] = y /\ y >= head
      BY <1>2
    <2>2. <<ticket[t], eidx[t]>> \in Brought
      BY <2>1, ViewAt DEF InHand, EnqBefore
    <2>3. y < tail
      BY <2>1, <2>2 DEF Issued
    <2>4. y <= head + N - 2
      BY <2>1 DEF Near
    <2>5. head \in Nat /\ y \in Nat
      BY <2>1 DEF IInv, TypeOK
    <2> QED BY <2>1, <2>3, <2>4, <2>5
  <1> QED BY <1>1, <1>2, DueAt

\* A slot whose index is not claimed has a ticket that is due.
LEMMA UnclaimedDue ==
  ASSUME IInv, Due = {}
  PROVE  Unclaimed = {}
  <1>1. SUFFICES ASSUME NEW s \in Slots, IsLive(array[s]), TicketOf(s) >= head
                 PROVE  FALSE
    BY DEF Unclaimed
  <1>2. <<TicketOf(s), array[s].idx>> \in Placed
    BY <1>1, ViewAt
  <1> QED BY <1>1, <1>2, DueAt

\* On a finalized ring no ticket becomes due: its insertions were decided
\* before the flag was set.
LEMMA DueStep ==
  ASSUME IInv, Near, Changes, is_finalized, NEW t \in Threads, Invoke(t) \/ Step(t)
  PROVE  Due' \subseteq Due
  <1>0. head \in Nat /\ (head' = head \/ head' = head + 1) /\ Others(t)
    BY OthersStep DEF Changes, Still, Takes, Leaves, Inserts, Removes, Claims, Catches, IInv, TypeOK
  <1>1. ASSUME NEW p \in Placed', p[1] >= head', NEW y \in Nat, y = p[1] PROVE y \in Due
    <2>1. y >= head
      BY <1>0, <1>1
    <2>2. CASE p \in Placed
      BY <1>1, <2>1, <2>2, DueAt
    <2>3. CASE p \notin Placed
      <3>1. EnqCasOk(t) /\ y = ticket[t]
        BY <1>1, <2>3, PlacedStep
      <3>2. pc[t] = "e_cas"
        BY <3>1 DEF EnqCasOk, Goto
      <3> QED BY <2>1, <3>1, <3>2, DueAt
    <2> QED BY <2>2, <2>3
  <1>2. ASSUME NEW u \in Threads, pc'[u] = "e_cas", ticket'[u] >= head' PROVE ticket'[u] \in Due
    <2>1. pc[u] = "e_cas" /\ ticket'[u] = ticket[u]
      <3>1. CASE u # t
        BY <1>0, <1>2, <3>1 DEF Others
      <3>2. CASE u = t
        <4>1. pc[t] = "e_cas"
          BY <1>2, <3>2, TryStep, RingAssumption DEF Near
        <4>2. EnqCasOk(t) \/ EnqCasFail(t)
          BY <4>1, CasSteps
        <4> QED BY <1>2, <3>2, <4>2 DEF EnqCasOk, EnqCasFail, Goto, IInv, TypeOK
      <3> QED BY <3>1, <3>2
    <2>2. ticket[u] >= head
      BY <1>0, <1>2, <2>1 DEF IInv, TypeOK
    <2> QED BY <2>1, <2>2, DueAt
  <1>3. \A p \in Placed' : p[1] \in Nat
    <2>1. ASSUME NEW p \in Placed' PROVE p[1] \in Nat
      <3>1. CASE p \in Placed
        BY <3>1, ViewHolds DEF ViewOK
      <3>2. CASE p \notin Placed
        BY <3>2, PlacedStep DEF IInv, TypeOK
      <3> QED BY <3>1, <3>2
    <2> QED BY <2>1
  <1> QED BY <1>1, <1>2, <1>3, DueAt

\* The steps to None.  A dequeue that is going to answer None because tail is
\* not ahead of its ticket leaves nothing due; neither does one that finds the
\* threshold used up, if the tickets due have their budget.
LEMMA NoneByTail ==
  ASSUME IInv, Issued, Near, NEW t \in Threads, Invoke(t) \/ Step(t), pc[t] = "d_tail",
         pc'[t] = "c_cas"
  PROVE  Due = {}
  <1>1. DeqTail(t)
    BY DEF Invoke, Step, EnqStep, DeqStep, CatchStep, EnqCall, DeqCall, Finalize, Refill, Call,
           EnqTail, EnqLoad, EnqHead, EnqFin, EnqCasOk, EnqCasFail, EnqThrLoad, EnqThrStore,
           DeqThr, DeqHead, DeqLoad, DeqOr, DeqCasOk, DeqCasFail, DeqNone, DeqSub, CatchCasOk,
           CatchCasFail, CatchHead, CatchTail, Goto, Return
  <1>2. tail <= ticket[t] + 1
    BY <1>1 DEF DeqTail, Goto, IInv, TypeOK
  <1>3. ticket[t] < head /\ ticket[t] \in Nat /\ head \in Nat /\ tail \in Nat
    BY DEF IInv, TypeOK, CatchupOk
  <1>4. SUFFICES ASSUME NEW y \in Due PROVE FALSE
    OBVIOUS
  <1> QED BY <1>2, <1>3, DueNear

LEMMA NoneByThreshold ==
  ASSUME IInv, Issued, Near, \A y \in Due : Budget(y),
         NEW t \in Threads, Invoke(t) \/ Step(t), pc[t] \in {"d_thr", "d_sub"}, pc'[t] = "idle"
  PROVE  Due = {}
  <1>1. DeqThr(t) \/ DeqSub(t)
    BY DEF Invoke, Step, EnqStep, DeqStep, CatchStep, EnqCall, DeqCall, Finalize, Refill, Call,
           EnqTail, EnqLoad, EnqHead, EnqFin, EnqCasOk, EnqCasFail, EnqThrLoad, EnqThrStore,
           DeqHead, DeqLoad, DeqOr, DeqCasOk, DeqCasFail, DeqTail, DeqNone, CatchCasOk,
           CatchCasFail, CatchHead, CatchTail, Goto, Return
  <1>2. /\ head \in Nat /\ threshold \in Int /\ IsFiniteSet(Owing) /\ Cardinality(Owing) \in Nat
    BY Sizes DEF Owing, IInv, TypeOK
  <1>3. SUFFICES ASSUME NEW y \in Due PROVE FALSE
    OBVIOUS
  <1>4. threshold >= Cardinality(Owing) + y - head /\ y \in Nat /\ head <= y
    BY DueNear DEF Budget
  <1>5. CASE DeqThr(t)
    <2>1. threshold < 0
      BY <1>5 DEF DeqThr, Goto, IInv, TypeOK
    <2> QED BY <1>2, <1>4, <2>1
  <1>6. CASE DeqSub(t)
    <2>1. threshold <= 0
      BY <1>6 DEF DeqSub, Goto, IInv, TypeOK
    <2>2. t \in Owing
      BY <1>6, OwingStep
    <2>3. Cardinality(Owing) # 0
      BY <1>2, <2>2, FS_EmptySet
    <2> QED BY <1>2, <1>4, <2>1, <2>3
  <1> QED BY <1>1, <1>5, <1>6

\* How a dequeue begins, and how it comes to catchup().
LEMMA IdleSteps ==
  ASSUME TypeOK, NEW t \in Threads, Invoke(t) \/ Step(t), pc[t] = "idle", pc'[t] \in DeqAll
  PROVE  pc'[t] = "d_thr"
  <1>1. DeqCall(t) \/ Finalize(t) \/ Refill(t) \/ \E i \in pool : EnqCall(t, i)
    BY DEF Invoke, Step, EnqStep, DeqStep, CatchStep, EnqTail, EnqLoad, EnqHead, EnqFin, EnqCasOk,
           EnqCasFail, EnqThrLoad, EnqThrStore, DeqThr, DeqHead, DeqLoad, DeqOr, DeqCasOk,
           DeqCasFail, DeqTail, DeqNone, DeqSub, CatchCasOk, CatchCasFail, CatchHead, CatchTail,
           Goto, Return
  <1> QED
    BY <1>1
    DEF DeqCall, Finalize, Refill, EnqCall, Call, Goto, TypeOK, DeqAll, DeqSlot, Catching

LEMMA CatchSteps ==
  ASSUME TypeOK, NEW t \in Threads, Invoke(t) \/ Step(t),
         pc[t] \in DeqAll \ (Catching \union {"d_none"}), pc'[t] \in Catching \union {"d_none"}
  PROVE  pc[t] = "d_tail" /\ pc'[t] = "c_cas"
  <1> USE DEF Catching, DeqAll, DeqSlot, Goto, Return, TypeOK
  <1>1. DeqStep(t)
    BY DEF Invoke, Step, EnqStep, EnqCall, DeqCall, Finalize, Refill, Call, EnqTail, EnqLoad,
           EnqHead, EnqFin, EnqCasOk, EnqCasFail, EnqThrLoad, EnqThrStore
  <1>2. ~CatchStep(t)
    BY DEF CatchStep, CatchCasOk, CatchCasFail, CatchHead, CatchTail
  <1>3. CASE DeqThr(t) \/ DeqHead(t) \/ DeqLoad(t) \/ DeqOr(t)
    BY <1>3 DEF DeqThr, DeqHead, DeqLoad, DeqOr
  <1>4. CASE DeqCasOk(t) \/ DeqCasFail(t) \/ DeqTail(t) \/ DeqNone(t) \/ DeqSub(t)
    BY <1>4 DEF DeqCasOk, DeqCasFail, DeqTail, DeqNone, DeqSub
  <1> QED BY <1>1, <1>2, <1>3, <1>4 DEF DeqStep

\* What the refill of the threshold gives each ticket that is due.
LEMMA RefillStep ==
  ASSUME IInv, IInv', FloorInv', FewDequeuers, ReachInv, ReachInv', ClosedInv, Changes,
         NEW t \in Threads, Invoke(t) \/ Step(t),
         refilled \/ (is_finalized /\ Refill(t)), NEW y \in Due'
  PROVE  Budget(y)'
  <1>0. is_finalized
    BY DEF ClosedInv
  <1>1. y \in Due
    BY <1>0, DueStep DEF ReachInv
  <1>2. y \in Nat /\ y <= head' + N - 2
    <2>1. IInv' /\ Issued' /\ Near'
      BY DEF ReachInv
    <2>2. \A z \in Due : z \in Nat /\ z <= head + N - 2
      BY DueNear DEF ReachInv
    <2>3. head \in Nat /\ (head' = head \/ head' = head + 1) /\ N \in Nat
      BY NType DEF Changes, Still, Takes, Leaves, Inserts, Removes, Claims, Catches, IInv, TypeOK
    <2> QED BY <1>1, <2>2, <2>3
  <1>3. CASE refilled
    <2>1. Budget(y)
      BY <1>1, <1>3 DEF ClosedInv, Budget
    <2> QED BY <1>2, <2>1, BudgetStep
  <1>4. CASE Refill(t)
    <2>1. threshold' >= Threshold3
      BY <1>4, RingAssumption DEF Refill, Threshold3, N
    <2> QED BY <1>2, <2>1, BudgetFull
  <1> QED BY <1>3, <1>4

\* A step of one thread, with the history.
LEMMA ClosedStep ==
  ASSUME IInv, IInv', FloorInv', FewDequeuers, ReachInv, ReachInv', ClosedInv,
         NEW t \in Threads, Invoke(t) \/ Step(t), Record
  PROVE  ClosedInv'
  <1>0. Changes /\ Others(t) /\ (is_finalized => is_finalized') /\ Issued /\ Near
    BY ChangesStep, OthersStep, FlagStep DEF IInv, ReachInv
  <1>1. refilled' => is_finalized' /\ \A y \in Due' : Budget(y)'
    <2>1. SUFFICES ASSUME refilled' PROVE is_finalized' /\ \A y \in Due' : Budget(y)'
      OBVIOUS
    <2>2. CASE refilled
      BY <1>0, <2>2, RefillStep DEF ClosedInv
    <2>3. CASE ~refilled
      <3>1. PICK u \in Threads : is_finalized /\ Refill(u)
        BY <2>1, <2>3 DEF Record
      <3>2. Invoke(u)
        BY <3>1 DEF Invoke
      <3> QED BY <1>0, <3>1, <3>2, RefillStep
    <2> QED BY <2>2, <2>3
  <1>2. drained' => is_finalized' /\ Due' = {}
    <2>1. SUFFICES ASSUME drained' PROVE is_finalized /\ Due = {}
      BY <1>0, DueStep
    <2>2. CASE drained
      BY <2>2 DEF ClosedInv
    <2>3. CASE ~drained
      <3>1. /\ is_finalized
            /\ \E u \in Threads :
                 \/ pc[u] = "d_tail" /\ pc'[u] = "c_cas"
                 \/ refilled /\ pc[u] \in {"d_thr", "d_sub"} /\ pc'[u] = "idle"
        BY <2>1, <2>3 DEF Record
      <3>2. PICK u \in Threads :
                 \/ pc[u] = "d_tail" /\ pc'[u] = "c_cas"
                 \/ refilled /\ pc[u] \in {"d_thr", "d_sub"} /\ pc'[u] = "idle"
        BY <3>1
      <3>3. u = t
        BY <1>0, <3>2 DEF Others
      <3>4. CASE pc[u] = "d_tail" /\ pc'[u] = "c_cas"
        BY <1>0, <3>1, <3>3, <3>4, NoneByTail
      <3>5. CASE refilled /\ pc[u] \in {"d_thr", "d_sub"} /\ pc'[u] = "idle"
        <4>1. \A y \in Due : Budget(y)
          BY <3>5 DEF ClosedInv, Budget
        <4> QED BY <1>0, <3>1, <3>3, <3>5, <4>1, NoneByThreshold
      <3> QED BY <3>2, <3>4, <3>5
    <2> QED BY <2>2, <2>3
  <1>3. ASSUME NEW u \in Threads, mustFind'[u]
        PROVE  /\ refilled' /\ Unclaimed' # {}
               /\ pc'[u] \in DeqAll \ (Catching \union {"d_none"})
    <2>1. /\ pc'[u] \in DeqAll /\ Unclaimed' # {}
          /\ IF pc[u] = "idle" THEN refilled ELSE mustFind[u]
          /\ refilled => refilled'
      BY <1>3 DEF Record
    <2>2. refilled
      BY <2>1 DEF ClosedInv
    <2>3. CASE pc[u] = "idle"
      <3>1. u = t
        BY <1>0, <2>1, <2>3 DEF Others, DeqAll, DeqSlot, Catching
      <3>2. pc'[u] = "d_thr"
        BY <2>1, <2>3, <3>1, IdleSteps DEF IInv
      <3> QED BY <2>1, <2>2, <3>2 DEF Catching
    <2>4. CASE pc[u] # "idle"
      <3>1. mustFind[u] /\ Unclaimed # {} /\ pc[u] \in DeqAll \ (Catching \union {"d_none"})
        BY <2>1, <2>4 DEF ClosedInv
      <3>2. CASE u # t
        BY <1>0, <2>1, <2>2, <3>1, <3>2 DEF Others
      <3>3. CASE u = t
        <4>1. pc'[t] \in Catching \union {"d_none"} => pc[t] = "d_tail" /\ pc'[t] = "c_cas"
          BY <2>1, <3>1, <3>3, CatchSteps DEF IInv
        <4>2. Due # {}
          BY <3>1, UnclaimedDue
        <4> QED BY <1>0, <2>1, <2>2, <3>3, <4>1, <4>2, NoneByTail
      <3> QED BY <3>2, <3>3
    <2> QED BY <2>3, <2>4
  <1> QED BY <1>1, <1>2, <1>3 DEF ClosedInv, Budget

\* The history constrains nothing.
LEMMA HistoryOnly == HSpec => Spec
  <1>1. HInit => Init
    BY DEF HInit
  <1>2. [HNext]_<<vars, history>> => [Next]_vars
    BY DEF HNext
  <1> QED BY <1>1, <1>2, PTL DEF HSpec, Spec

\* ClosedInv holds in every reachable state.
THEOREM ClosedCorrect ==
  ASSUME FewDequeuers
  PROVE  HSpec => []ClosedInv
  <1>1. HInit => ClosedInv
    BY DEF HInit, ClosedInv
  <1>2. /\ IInv /\ IInv' /\ FloorInv' /\ ReachInv /\ ReachInv' /\ ClosedInv
        /\ [HNext]_<<vars, history>>
        => ClosedInv'
    <2> SUFFICES ASSUME IInv, IInv', FloorInv', ReachInv, ReachInv', ClosedInv, [HNext]_<<vars, history>>
                 PROVE  ClosedInv'
      OBVIOUS
    <2>1. CASE UNCHANGED <<vars, history>>
      <3>1. UNCHANGED <<head, threshold, is_finalized, array, pc, ticket, refilled, drained, mustFind>>
        BY <2>1 DEF vars, shared, local, history
      <3>2. Due' = Due /\ Owing' = Owing /\ Unclaimed' = Unclaimed
        BY <3>1 DEF Due, Owing, Mine, Unclaimed, Placed, TicketOf
      <3> QED BY <3>1, <3>2 DEF ClosedInv
    <2>2. ASSUME NEW t \in Threads, Invoke(t) \/ Step(t), Record PROVE ClosedInv'
      BY <2>2, ClosedStep
    <2> QED BY <2>1, <2>2 DEF HNext, Next
  <1> QED BY <1>1, <1>2, HistoryOnly, Invariance, FloorHolds, ReachCorrect, PTL DEF HSpec

\* Once a dequeue has been through the tickets of a finalized ring, or has
\* answered None after a refill, the ring has no index that can be dequeued:
\* the unbounded queue leaves the segment behind and loses nothing.
THEOREM DrainedCorrect ==
  ASSUME FewDequeuers
  PROVE  HSpec => []Drained
  <1>1. IInv /\ ClosedInv => Drained
    BY UnclaimedDue DEF ClosedInv, Drained
  <1> QED BY <1>1, HistoryOnly, Invariance, ClosedCorrect, PTL

\* A dequeue called after the refill of a finalized ring finds an index,
\* unless the ring was empty at some moment of its call.
THEOREM RefillFindsCorrect ==
  ASSUME FewDequeuers
  PROVE  HSpec => RefillFinds
  <1>1. ASSUME IInv, ReachInv, ClosedInv, [HNext]_<<vars, history>>
        PROVE  [\A t \in Threads :
                  pc[t] \in {"d_thr", "d_none", "d_sub"} /\ pc'[t] = "idle" => ~mustFind[t]
               ]_<<vars, history>>
    <2> SUFFICES ASSUME HNext, NEW t \in Threads, mustFind[t],
                        pc[t] \in {"d_thr", "d_none", "d_sub"}, pc'[t] = "idle"
                 PROVE  FALSE
      BY <1>1
    <2>1. refilled /\ Unclaimed # {} /\ pc[t] \in {"d_thr", "d_sub"}
      BY <1>1 DEF ClosedInv
    <2>2. \A y \in Due : Budget(y)
      BY <1>1, <2>1 DEF ClosedInv, Budget
    <2>3. PICK u \in Threads : Invoke(u) \/ Step(u)
      BY DEF HNext, Next
    <2>4. u = t
      BY <1>1, <2>1, <2>3, OthersStep DEF Others, IInv
    <2>5. Due = {}
      BY <1>1, <2>1, <2>2, <2>3, <2>4, NoneByThreshold DEF ReachInv
    <2> QED BY <1>1, <2>1, <2>5, UnclaimedDue
  <1> QED BY <1>1, HistoryOnly, Invariance, ReachCorrect, ClosedCorrect, PTL DEF HSpec, RefillFinds
=============================================================================
