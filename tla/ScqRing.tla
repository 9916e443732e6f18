------------------------------ MODULE ScqRing ------------------------------
(***************************************************************************)
(* The SCQ ring of src/scq.rs: a multi-producer multi-consumer queue of    *)
(* indices in a circular array of N = 2 * Half words, written by threads   *)
(* that take one atomic access per step.                                   *)
(*                                                                         *)
(* A ticket is a value of head or tail before its fetch_add; it selects    *)
(* the slot ticket % N and the cycle ticket \div N.  A word of the array   *)
(* packs a cycle, a safe bit (the bit of value n) and an index; the index  *)
(* whose bits are all ones (Bot) says that the slot holds nothing.         *)
(*                                                                         *)
(* The clients of a ring (BoundedQueue) pass it the indices 0 .. Half-1,   *)
(* and enqueue only an index they took out of the two rings they own.      *)
(* The variable pool is the set of indices that are outside this ring.     *)
(***************************************************************************)
EXTENDS Integers, FiniteSets

CONSTANTS
  Threads,       \* the threads that call the ring
  Half,          \* lfring_pow2(order), the capacity of the ring
  Mode,          \* 1 for the rings of an unbounded queue (finalizable), else 0
  Full,          \* TRUE for new_*_ring_full, FALSE for new_*_ring_empty
  MaxAttempt,    \* the re-reads of an empty slot before it is closed (10)
  MaxDequeuers,  \* bound: threads inside dequeue() at the same time
  MaxCalls       \* bound: calls that the threads make in one behaviour

ASSUME RingAssumption ==
  /\ Half \in Nat \ {0}
  /\ Mode \in {0, 1}
  /\ Full \in BOOLEAN
  /\ MaxAttempt \in Nat
  /\ MaxDequeuers \in Nat
  /\ MaxCalls \in Nat

ASSUME ThreadsAssumption == IsFiniteSet(Threads)

VARIABLES
  head, tail,    \* the two ticket counters
  threshold,     \* how many failed attempts a dequeue may still make
  is_finalized,  \* the flag of a finalizable ring
  array,         \* slot -> entry
  pc,            \* thread -> its next atomic access, "idle" outside a call
  ticket,        \* thread -> the ticket of its fetch_add
  entry,         \* thread -> the entry it loaded last
  eidx,          \* thread -> the index it enqueues
  attempt,       \* thread -> re-reads made with this ticket
  seen,          \* thread -> the tail and head values catchup() works with
  pool,          \* the indices outside the ring
  calls          \* number of calls made so far

shared == <<head, tail, threshold, is_finalized, array>>
local  == <<ticket, entry, eidx, attempt, seen>>
client == <<pool, calls>>
vars   == <<shared, pc, local, client>>

-----------------------------------------------------------------------------
(* Tickets, slots and entries.                                             *)

N          == 2 * Half
Bot        == N - 1
Slots      == 0 .. N - 1
Indices    == 0 .. Half - 1
Threshold3 == Half + N - 1

Map(t)   == t % N
Cycle(t) == t \div N

Entry == [cyc : Nat \union {-1}, safe : BOOLEAN, idx : Indices \union {Bot}]

\* The word -1: every bit set.
Blank == [cyc |-> -1, safe |-> TRUE, idx |-> Bot]

IsLive(e) == e.idx # Bot

\* The ticket that selects slot s in cycle c, and the one slot s was last
\* written for: by its enqueue if the entry is live, else by a dequeue.
TicketAt(c, s) == c * N + s
TicketOf(s)    == TicketAt(array[s].cyc, s)

NoSeen == [tail |-> 0, head |-> 0]

\* The states of a thread inside enqueue() and dequeue().
EnqBefore == {"e_tail", "e_load", "e_head", "e_fin", "e_cas"}
EnqAfter  == {"e_thr", "e_thw"}
DeqSlot   == {"d_load", "d_or", "d_cas"}
Catching  == {"c_cas", "c_head", "c_tail"}
DeqAll    == {"d_thr", "d_head", "d_tail", "d_none", "d_sub"} \union DeqSlot \union Catching
PC        == {"idle"} \union EnqBefore \union EnqAfter \union DeqAll

Dequeuers == {t \in Threads : pc[t] \in DeqAll}

-----------------------------------------------------------------------------

Init ==
  /\ head = 0
  /\ tail = IF Full THEN Half ELSE 0
  /\ threshold = IF Full THEN Threshold3 ELSE -1
  /\ is_finalized = FALSE
  /\ array = [s \in Slots |-> IF Full /\ s < Half
                              THEN [cyc |-> 0, safe |-> TRUE, idx |-> s]
                              ELSE Blank]
  /\ pc = [t \in Threads |-> "idle"]
  /\ ticket = [t \in Threads |-> 0]
  /\ entry = [t \in Threads |-> Blank]
  /\ eidx = [t \in Threads |-> Bot]
  /\ attempt = [t \in Threads |-> 0]
  /\ seen = [t \in Threads |-> NoSeen]
  /\ pool = IF Full THEN {} ELSE Indices
  /\ calls = 0

Goto(t, from, to) == pc[t] = from /\ pc' = [pc EXCEPT ![t] = to]

\* The locals of a call go out of scope when it returns.
Return(t, from) ==
  /\ Goto(t, from, "idle")
  /\ ticket'  = [ticket EXCEPT ![t] = 0]
  /\ entry'   = [entry EXCEPT ![t] = Blank]
  /\ eidx'    = [eidx EXCEPT ![t] = Bot]
  /\ attempt' = [attempt EXCEPT ![t] = 0]
  /\ seen'    = [seen EXCEPT ![t] = NoSeen]

Call(t, to) ==
  /\ calls < MaxCalls
  /\ calls' = calls + 1
  /\ Goto(t, "idle", to)

-----------------------------------------------------------------------------
(* enqueue(eidx)                                                           *)

EnqCall(t, i) ==
  /\ i < Half                       \* else Err(IndexLargerThanOrder)
  /\ Call(t, "e_tail")
  /\ eidx' = [eidx EXCEPT ![t] = i]
  /\ pool' = pool \ {i}
  /\ UNCHANGED <<shared, ticket, entry, attempt, seen>>

EnqTail(t) ==
  /\ Goto(t, "e_tail", "e_load")
  /\ ticket' = [ticket EXCEPT ![t] = tail]
  /\ tail' = tail + 1
  /\ UNCHANGED <<head, threshold, is_finalized, array, entry, eidx, attempt, seen, client>>

\* Where the loop goes once the slot is known to be usable.
Insertable == IF Mode = 1 THEN "e_fin" ELSE "e_cas"

\* Mutant: the slot is not required to be free.
EnqLoadOverwrite(t) ==
  LET e == array[Map(ticket[t])]
      old == e.cyc < Cycle(ticket[t])
  IN /\ \/ old /\ Goto(t, "e_load", Insertable)
        \/ ~old /\ Goto(t, "e_load", "e_tail")
     /\ entry' = [entry EXCEPT ![t] = e]
     /\ UNCHANGED <<shared, ticket, eidx, attempt, seen, client>>

EnqLoad(t) ==
  LET e == array[Map(ticket[t])]
      old == e.cyc < Cycle(ticket[t]) /\ ~IsLive(e)
  IN /\ \/ old /\ e.safe /\ Goto(t, "e_load", Insertable)
        \/ old /\ ~e.safe /\ Goto(t, "e_load", "e_head")
        \/ ~old /\ Goto(t, "e_load", "e_tail")
     /\ entry' = [entry EXCEPT ![t] = e]
     /\ UNCHANGED <<shared, ticket, eidx, attempt, seen, client>>

\* Mutant: an unsafe slot is used without comparing head.
EnqHeadUnchecked(t) ==
  /\ Goto(t, "e_head", Insertable)
  /\ UNCHANGED <<shared, local, client>>

\* An unsafe slot may be used only by a ticket that head has not passed.
EnqHead(t) ==
  /\ \/ head <= ticket[t] /\ Goto(t, "e_head", Insertable)
     \/ head > ticket[t] /\ Goto(t, "e_head", "e_tail")
  /\ UNCHANGED <<shared, local, client>>

\* Mutant: the flag is not tested.
EnqFinIgnored(t) ==
  /\ Goto(t, "e_fin", "e_cas")
  /\ UNCHANGED <<shared, local, client>>

EnqFin(t) ==
  \/ /\ ~is_finalized
     /\ Goto(t, "e_fin", "e_cas")
     /\ UNCHANGED <<shared, local, client>>
  \/ /\ is_finalized                \* Err(QueueFinalized)
     /\ Return(t, "e_fin")
     /\ pool' = pool \union {eidx[t]}
     /\ UNCHANGED <<shared, calls>>

NewEntry(t) == [cyc |-> Cycle(ticket[t]), safe |-> TRUE, idx |-> eidx[t]]

\* Mutant: a plain store instead of the compare_exchange.
EnqCasBlind(t) ==
  /\ Goto(t, "e_cas", "e_thr")
  /\ array' = [array EXCEPT ![Map(ticket[t])] = NewEntry(t)]
  /\ UNCHANGED <<head, tail, threshold, is_finalized, local, client>>

EnqCasOk(t) ==
  /\ Goto(t, "e_cas", "e_thr")
  /\ array[Map(ticket[t])] = entry[t]
  /\ array' = [array EXCEPT ![Map(ticket[t])] = NewEntry(t)]
  /\ UNCHANGED <<head, tail, threshold, is_finalized, local, client>>

\* compare_exchange_weak may fail even when the word has not changed.
EnqCasFail(t) ==
  /\ Goto(t, "e_cas", "e_load")
  /\ UNCHANGED <<shared, local, client>>

\* Mutant: a threshold that is not negative is left as it is.
EnqThrLoadLazy(t) ==
  /\ \/ threshold >= 0 /\ Return(t, "e_thr")
     \/ threshold < 0 /\ Goto(t, "e_thr", "e_thw") /\ UNCHANGED local
  /\ UNCHANGED <<shared, client>>

EnqThrLoad(t) ==
  /\ \/ threshold = Threshold3 /\ Return(t, "e_thr")
     \/ threshold # Threshold3 /\ Goto(t, "e_thr", "e_thw") /\ UNCHANGED local
  /\ UNCHANGED <<shared, client>>

EnqThrStore(t) ==
  /\ Return(t, "e_thw")
  /\ threshold' = Threshold3
  /\ UNCHANGED <<head, tail, is_finalized, array, client>>

-----------------------------------------------------------------------------
(* dequeue()                                                               *)

DeqCall(t) ==
  /\ Cardinality(Dequeuers) < MaxDequeuers
  /\ Call(t, "d_thr")
  /\ UNCHANGED <<shared, local, pool>>

\* Mutant: the threshold is not tested first.
DeqThrUntested(t) ==
  /\ Goto(t, "d_thr", "d_head")
  /\ UNCHANGED <<shared, local, client>>

\* A negative threshold is taken for an empty ring: None.
DeqThr(t) ==
  /\ \/ threshold >= 0 /\ Goto(t, "d_thr", "d_head") /\ UNCHANGED local
     \/ threshold < 0 /\ Return(t, "d_thr")
  /\ UNCHANGED <<shared, client>>

DeqHead(t) ==
  /\ Goto(t, "d_head", "d_load")
  /\ ticket' = [ticket EXCEPT ![t] = head]
  /\ attempt' = [attempt EXCEPT ![t] = 0]
  /\ head' = head + 1
  /\ UNCHANGED <<tail, threshold, is_finalized, array, entry, eidx, seen, client>>

\* Mutant: a free slot is closed for one cycle too many.
BlockedNext(e, h) ==
  IF IsLive(e) THEN [e EXCEPT !.safe = FALSE]
               ELSE [e EXCEPT !.cyc = Cycle(h) + 1]

\* entry_new: an occupied slot is marked unsafe, a free one is closed for
\* the cycles up to the one of ticket h; its safe bit stays as it is.
Blocked(e, h) ==
  IF IsLive(e) THEN [e EXCEPT !.safe = FALSE]
               ELSE [e EXCEPT !.cyc = Cycle(h)]

\* Mutant: the re-reads of a free slot are not limited.
DeqLoadForever(t) ==
  LET e == array[Map(ticket[t])]
      hcycle == Cycle(ticket[t])
      try == e.cyc < hcycle /\ IsLive(e) /\ e.safe
  IN /\ \/ e.cyc = hcycle /\ Goto(t, "d_load", "d_or")
        \/ e.cyc # hcycle /\ ~IsLive(e) /\ Goto(t, "d_load", "d_load")
        \/ e.cyc # hcycle /\ try /\ Goto(t, "d_load", "d_cas")
        \/ e.cyc # hcycle /\ IsLive(e) /\ ~try /\ Goto(t, "d_load", "d_tail")
     /\ entry' = [entry EXCEPT ![t] = e]
     /\ UNCHANGED <<shared, ticket, eidx, attempt, seen, client>>

DeqLoad(t) ==
  LET e == array[Map(ticket[t])]
      hcycle == Cycle(ticket[t])
      spin == ~IsLive(e) /\ attempt[t] < MaxAttempt
      try  == ~spin /\ e.cyc < hcycle /\ (IsLive(e) => e.safe)
  IN /\ \/ e.cyc = hcycle /\ Goto(t, "d_load", "d_or")
        \/ e.cyc # hcycle /\ spin /\ Goto(t, "d_load", "d_load")
        \/ e.cyc # hcycle /\ try /\ Goto(t, "d_load", "d_cas")
        \/ e.cyc # hcycle /\ ~spin /\ ~try /\ Goto(t, "d_load", "d_tail")
     /\ attempt' = [attempt EXCEPT ![t] = IF e.cyc # hcycle /\ spin THEN @ + 1 ELSE @]
     /\ entry' = [entry EXCEPT ![t] = e]
     /\ UNCHANGED <<shared, ticket, eidx, seen, client>>

\* fetch_or(n - 1), then Some(entry & (n - 1)) with the entry loaded before.
DeqOr(t) ==
  /\ Return(t, "d_or")
  /\ array' = [array EXCEPT ![Map(ticket[t])].idx = Bot]
  /\ pool' = pool \union {entry[t].idx}
  /\ UNCHANGED <<head, tail, threshold, is_finalized, calls>>

DeqCasOk(t) ==
  /\ Goto(t, "d_cas", "d_tail")
  /\ array[Map(ticket[t])] = entry[t]
  /\ array' = [array EXCEPT ![Map(ticket[t])] = Blocked(entry[t], ticket[t])]
  /\ UNCHANGED <<head, tail, threshold, is_finalized, local, client>>

DeqCasFail(t) ==
  /\ Goto(t, "d_cas", "d_load")
  /\ UNCHANGED <<shared, local, client>>

DeqTail(t) ==
  /\ \/ tail <= ticket[t] + 1 /\ Goto(t, "d_tail", "c_cas")
     \/ tail > ticket[t] + 1 /\ Goto(t, "d_tail", "d_sub")
  /\ seen' = [seen EXCEPT ![t] = [tail |-> tail, head |-> ticket[t] + 1]]
  /\ UNCHANGED <<shared, ticket, entry, eidx, attempt, client>>

DeqNone(t) ==
  /\ Return(t, "d_none")
  /\ threshold' = threshold - 1
  /\ UNCHANGED <<head, tail, is_finalized, array, client>>

DeqSub(t) ==
  /\ \/ threshold <= 0 /\ Return(t, "d_sub")      \* None
     \/ threshold > 0 /\ Goto(t, "d_sub", "d_head") /\ UNCHANGED local
  /\ threshold' = threshold - 1
  /\ UNCHANGED <<head, tail, is_finalized, array, client>>

-----------------------------------------------------------------------------
(* catchup(tail, head)                                                     *)

CatchCasOk(t) ==
  /\ Goto(t, "c_cas", "d_none")
  /\ tail = seen[t].tail
  /\ tail' = seen[t].head
  /\ UNCHANGED <<head, threshold, is_finalized, array, local, client>>

CatchCasFail(t) ==
  /\ Goto(t, "c_cas", "c_head")
  /\ UNCHANGED <<shared, local, client>>

CatchHead(t) ==
  /\ Goto(t, "c_head", "c_tail")
  /\ seen' = [seen EXCEPT ![t].head = head]
  /\ UNCHANGED <<shared, ticket, entry, eidx, attempt, client>>

\* Mutant: the loop goes on although tail has reached head.
CatchTailOn(t) ==
  /\ Goto(t, "c_tail", "c_cas")
  /\ seen' = [seen EXCEPT ![t].tail = tail]
  /\ UNCHANGED <<shared, ticket, entry, eidx, attempt, client>>

CatchTail(t) ==
  /\ \/ tail >= seen[t].head /\ Goto(t, "c_tail", "d_none")
     \/ tail < seen[t].head /\ Goto(t, "c_tail", "c_cas")
  /\ seen' = [seen EXCEPT ![t].tail = tail]
  /\ UNCHANGED <<shared, ticket, entry, eidx, attempt, client>>

-----------------------------------------------------------------------------
(* What the clients of a finalizable ring do between two calls.            *)

Finalize(t) ==
  /\ Mode = 1
  /\ Call(t, "idle")
  /\ is_finalized' = TRUE
  /\ UNCHANGED <<head, tail, threshold, array, local, pool>>

\* Mutant: the threshold is left as it is.
RefillNot(t) ==
  /\ Mode = 1
  /\ Call(t, "idle")
  /\ UNCHANGED <<shared, local, pool>>

\* UnboundedQueueInternal::dequeue refills the threshold of an old segment.
Refill(t) ==
  /\ Mode = 1
  /\ Call(t, "idle")
  /\ threshold' = 3 * N - 1
  /\ UNCHANGED <<head, tail, is_finalized, array, local, pool>>

-----------------------------------------------------------------------------

Invoke(t) ==
  \/ \E i \in pool : EnqCall(t, i)
  \/ DeqCall(t)
  \/ Finalize(t)
  \/ Refill(t)

EnqStep(t) ==
  \/ EnqTail(t) \/ EnqLoad(t) \/ EnqHead(t) \/ EnqFin(t)
  \/ EnqCasOk(t) \/ EnqCasFail(t) \/ EnqThrLoad(t) \/ EnqThrStore(t)

CatchStep(t) ==
  CatchCasOk(t) \/ CatchCasFail(t) \/ CatchHead(t) \/ CatchTail(t)

DeqStep(t) ==
  \/ DeqThr(t) \/ DeqHead(t) \/ DeqLoad(t) \/ DeqOr(t)
  \/ DeqCasOk(t) \/ DeqCasFail(t) \/ DeqTail(t) \/ DeqNone(t) \/ DeqSub(t) \/ CatchStep(t)

Step(t) == EnqStep(t) \/ DeqStep(t)

Next == \E t \in Threads : Invoke(t) \/ Step(t)

Spec == Init /\ [][Next]_vars

\* The scheduler runs every thread that is inside a call, and a weak
\* compare_exchange that keeps finding the word unchanged succeeds at last.
Fairness ==
  \A t \in Threads :
    /\ WF_vars(Step(t))
    /\ SF_vars(EnqCasOk(t))
    /\ SF_vars(DeqCasOk(t))
    /\ SF_vars(CatchCasOk(t))

FairSpec == Spec /\ Fairness

-----------------------------------------------------------------------------
(* Properties.                                                             *)

\* The variables have their types; in particular dequeue() never hands out
\* Bot (src/scq.rs:357 returns entry & (n - 1) whatever these bits are).
TypeOK ==
  /\ head \in Nat
  /\ tail \in Nat
  /\ threshold \in Int
  /\ is_finalized \in BOOLEAN
  /\ array \in [Slots -> Entry]
  /\ pc \in [Threads -> PC]
  /\ ticket \in [Threads -> Nat]
  /\ entry \in [Threads -> Entry]
  /\ eidx \in [Threads -> Indices \union {Bot}]
  /\ attempt \in [Threads -> Nat]
  /\ seen \in [Threads -> [tail : Nat, head : Nat]]
  /\ pool \in SUBSET Indices
  /\ calls \in Nat

\* Who has index i: a slot, an enqueue that has not written it yet, or
\* nobody inside the ring.
Holding(t, i) == pc[t] \in EnqBefore /\ eidx[t] = i
Storing(s, i) == array[s].idx = i

OneOwner(i) ==
  /\ \A s1, s2 \in Slots : Storing(s1, i) /\ Storing(s2, i) => s1 = s2
  /\ \A t1, t2 \in Threads : Holding(t1, i) /\ Holding(t2, i) => t1 = t2
  /\ \A s \in Slots, t \in Threads : ~(Storing(s, i) /\ Holding(t, i))
  /\ i \in pool => \A s \in Slots : ~Storing(s, i)
  /\ i \in pool => \A t \in Threads : ~Holding(t, i)
  /\ i \in pool \/ (\E s \in Slots : Storing(s, i)) \/ (\E t \in Threads : Holding(t, i))

\* An index is in exactly one place, so a thread that dequeued it is alone
\* with the cell of the backing buffer it names (README "Bounded Queue":
\* only one thread possesses said index).  It must survive a dequeue that
\* returns the entry it loaded before its fetch_or, and an insertion that
\* checked the slot several accesses before its compare_exchange.
Ownership == \A i \in Indices : OneOwner(i)

\* No index is stranded behind head: a live entry that head has passed is
\* still going to be looked at by the dequeue with its ticket.  This is what
\* the cycle comparison, the safe bit and the load of head in enqueue() are
\* for (src/scq.rs:265-268): the insertion and the dequeue that gives the slot
\* up race on the same word.
NoOrphan ==
  \A s \in Slots :
    IsLive(array[s]) /\ TicketOf(s) < head =>
      \E t \in Threads : pc[t] \in DeqSlot /\ ticket[t] = TicketOf(s)

\* "if we are less than zero then it must be zero" (src/scq.rs:330): once no
\* call is in progress, a negative threshold means an empty ring.
\* Otherwise its indices cannot be dequeued any more.
NegativeMeansEmpty ==
  threshold < 0 /\ (\A t \in Threads : pc[t] = "idle") =>
    \A s \in Slots : ~IsLive(array[s])

\* Dequeues of an empty ring do not wear the threshold down without bound:
\* each of them tests it before it subtracts (src/scq.rs:332, 396, 400).
ThresholdFloor == threshold >= -1 \/ threshold >= -MaxDequeuers

\* Tickets are never issued twice: the two counters only grow, although
\* catchup() overwrites tail with a head it read earlier; and it never moves
\* tail past head, where no dequeue has looked yet.
TicketsFresh ==
  [][ /\ head' >= head
      /\ tail' >= tail
      /\ tail' <= tail + 1 \/ tail' <= head ]_<<head, tail>>

\* Every call returns although the retry loops of enqueue(), dequeue() and
\* catchup() have no bound of their own, once no new calls arrive.
Termination ==
  \A t \in Threads : pc[t] # "idle" ~> pc[t] = "idle"
=============================================================================
