----------------------------- MODULE ScqRingWord -----------------------------
(***************************************************************************)
(* ScqRing counts tickets without bound and keeps entries as records; the  *)
(* code does both with words.  Here every formula of enqueue(), dequeue()  *)
(* and catchup() is evaluated on the words of the state the ring is in.    *)
(*                                                                         *)
(* A base is a number of operations that the ring has seen before: ticket  *)
(* k of the model is the word (base + k) % 2^Width.                        *)
(***************************************************************************)
EXTENDS ScqRing, RingWord

CONSTANT Bases        \* the numbers of earlier operations to look at

ASSUME BasesAssumption ==
  /\ \E k \in 1 .. Width - 2 : N = 2 ^ k
  /\ Bases \subseteq {b \in 0 .. Modulus - 1 : b % N = 0}

TicketWord(b, k) == (b + k) % Modulus
CycleWord(b, k)  == CycleOf(TicketWord(b, k), N)

\* The word an entry of ScqRing stands for.
EntryWord(b, e) ==
  LET w == NewWord(CycleWord(b, TicketAt(e.cyc, 0)), e.idx, N)
  IN  IF e.safe THEN w ELSE w ^^ N

-----------------------------------------------------------------------------
(* What each step of a thread computes from the words in its hands.        *)

EnqLoadWord(b, t) ==
  LET e      == array[Map(ticket[t])]
      word   == EntryWord(b, e)
      ecycle == modup(word, N)
  IN  /\ is_lt(ecycle, CycleWord(b, ticket[t])) <=> e.cyc < Cycle(ticket[t])
      /\ word = ecycle <=> ~IsLive(e) /\ e.safe
      /\ word = ecycle ^^ N <=> ~IsLive(e) /\ ~e.safe

EnqHeadWord(b, t) ==
  is_le(TicketWord(b, head), TicketWord(b, ticket[t])) <=> head <= ticket[t]

EnqCasWord(b, t) ==
  NewWord(CycleWord(b, ticket[t]), eidx[t], N) = EntryWord(b, NewEntry(t))

DeqLoadWord(b, t) ==
  LET e      == array[Map(ticket[t])]
      word   == EntryWord(b, e)
      hcycle == CycleWord(b, ticket[t])
      ecycle == modup(word, N)
  IN  /\ ecycle = hcycle <=> e.cyc = Cycle(ticket[t])
      /\ IsTaken(word, N) <=> IsLive(e)
      /\ word = (word & not(N)) <=> ~e.safe
      /\ is_lt(ecycle, hcycle) <=> e.cyc < Cycle(ticket[t])

DeqOrWord(b, t) ==
  LET e == array[Map(ticket[t])]
  IN  /\ EntryWord(b, e) | (N - 1) = EntryWord(b, [e EXCEPT !.idx = Bot])
      /\ EntryWord(b, entry[t]) & (N - 1) = entry[t].idx

DeqCasWord(b, t) ==
  entry_new(EntryWord(b, entry[t]), CycleWord(b, ticket[t]), N) =
    EntryWord(b, Blocked(entry[t], ticket[t]))

DeqTailWord(b, t) ==
  is_le(TicketWord(b, tail), TicketWord(b, ticket[t] + 1)) <=> tail <= ticket[t] + 1

CatchTailWord(b, t) ==
  ~is_lt(TicketWord(b, tail), TicketWord(b, seen[t].head)) <=> tail >= seen[t].head

\* What the constructors store for a capacity of Half, and an array of N.
NewRing ==
  LET order == determine_order(Half)
  IN  /\ order = determine_order_const(N) /\ lfring_pow2(order) = Half
      /\ threshold = IF Full THEN lfring_threshold3(Half, N) ELSE -1
      /\ [s \in Slots |-> EntryWord(0, array[s])] =
           IF Full THEN FullArray(Half, N) ELSE EmptyArray(N)

-----------------------------------------------------------------------------
(* Property.                                                               *)

\* Whatever state the ring is in and however many operations it has seen,
\* the bit operations and the signed comparisons of src/scq.rs (111, 254-289,
\* 319-323, 338-398) decide and build what ScqRing does, also where tickets or
\* cycles wrap around between two words that are compared; and the words the
\* constructors write (132-190) are the entries ScqRing starts with.
WordsAgree ==
  /\ calls = 0 => NewRing
  /\ \A b \in Bases, t \in Threads :
       /\ pc[t] \in {"e_load", "d_load"} =>
            lfring_map(TicketWord(b, ticket[t]), N) = Map(ticket[t])
       /\ pc[t] = "e_load" => EnqLoadWord(b, t)
       /\ pc[t] = "e_head" => EnqHeadWord(b, t)
       /\ pc[t] = "e_cas"  => EnqCasWord(b, t)
       /\ pc[t] = "d_load" => DeqLoadWord(b, t)
       /\ pc[t] = "d_or"   => DeqOrWord(b, t)
       /\ pc[t] = "d_cas"  => DeqCasWord(b, t)
       /\ pc[t] = "d_tail" => DeqTailWord(b, t)
       /\ pc[t] = "c_tail" => CatchTailWord(b, t)
=============================================================================
