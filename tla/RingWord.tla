------------------------------ MODULE RingWord ------------------------------
(***************************************************************************)
(* The machine words of src/scq.rs: numbers of Width bits that wrap        *)
(* around.  A word of the array packs a cycle, a safe bit (of value n) and *)
(* an index below it, and is made and taken apart with bit operations;     *)
(* tickets and cycles are compared by the sign of a difference.            *)
(***************************************************************************)
EXTENDS RingOrder, Bitwise, FiniteSets, FiniteSetsExt

CONSTANT Width        \* bits of a usize

ASSUME WidthAssumption == Width \in Nat \ {0}

Modulus == 2 ^ Width
Ones    == Modulus - 1         \* -1isize as usize

shl1(w) == (2 * w) % Modulus
not(w)  == Ones - w

modup(value, n) == value | (2 * n - 1)

lfring_map(idx, n) == idx & (n - 1)

\* Mutant: the words are compared as the unsigned numbers they are.
lfring_unsigned_cmp(a, b) == IF a < b THEN -1 ELSE IF a > b THEN 1 ELSE 0

\* The sign of the difference of two isize, which wraps: -1, 0 or 1.
lfring_signed_cmp(a, b) ==
  LET d == (a - b) % Modulus
  IN  IF d = 0 THEN 0 ELSE IF d < Modulus \div 2 THEN 1 ELSE -1

is_lt(a, b) == lfring_signed_cmp(a, b) < 0
is_le(a, b) == lfring_signed_cmp(a, b) <= 0

\* tcycle, or hcycle, of a ticket.
CycleOf(w, n) == modup(shl1(w), n)

\* tcycle ^ eidx, after eidx ^= n - 1.
NewWord(tcycle, idx, n) == tcycle ^^ (idx ^^ (n - 1))

\* A word whose index is not all ones: (entry | n) != ecycle.
IsTaken(word, n) == (word | n) # modup(word, n)

\* What a dequeue that finds another cycle in its slot writes there.
entry_new(word, hcycle, n) ==
  IF IsTaken(word, n) THEN word & not(n) ELSE hcycle ^^ (not(word) & n)

\* The array of an empty ring ...
EmptyArray(n) == [s \in 0 .. n - 1 |-> Ones]

\* Mutant: the bit of value n is left out.
FullArrayUnsafe(half, n) ==
  [s \in 0 .. n - 1 |-> IF s < half THEN s ELSE Ones]

\* ... and of a full one: for i = 0, 1, .. n - 1 in turn, the word of i is
\* stored at lfring_map(i, n), so that the last store to a place counts.
FullArray(half, n) ==
  [s \in 0 .. n - 1 |->
     LET stores == {i \in 0 .. n - 1 : lfring_map(i, n) = s}
     IN  IF stores = {} \/ Max(stores) >= half THEN Ones
         ELSE n + lfring_map(Max(stores), half)]
=============================================================================
