------------------------------ MODULE ConstRing ------------------------------
(***************************************************************************)
(* The rings of a constant queue of any size that its constructor takes:   *)
(* the free ring of a fresh queue, on the words the code works with, while *)
(* one thread dequeues from it.  ConstBoundedQueue<T, LEN>::new_const()    *)
(* gives the ring an array of LEN words, while the ring itself uses the    *)
(* power of two below.                                                     *)
(***************************************************************************)
EXTENDS RingWord

CONSTANT Sizes        \* the values of $size in const_queue!($ttype; $size)

VARIABLES
  len,         \* LEN, the length of the arrays
  array,       \* slot -> word
  head, tail, threshold,
  given,       \* the indices dequeued so far
  missed       \* a dequeue has answered None

vars == <<len, array, head, tail, threshold, given, missed>>

\* What const_queue! asserts, and what new_const() tests; else they panic.
Asserted(size) == size # 0 /\ (size % 2 = 0 \/ size = 1)
Constructed(n) == n % 2 = 0 /\ n # 0

\* The order that new_const_ring_full() passes on, capacity() and n.
order    == determine_order_const(len)
capacity == lfring_pow2(order)
n        == lfring_pow2(order + 1)

Init ==
  /\ \E size \in Sizes : Asserted(size) /\ len = 2 * size
  /\ Constructed(len)
  /\ array = FullArray(len \div 2, len)
  /\ head = 0
  /\ tail = len \div 2
  /\ threshold = lfring_threshold3(len \div 2, len)
  /\ given = {}
  /\ missed = FALSE

-----------------------------------------------------------------------------
(* One round of the loop of dequeue(), with no other thread about.         *)

hcycle == CycleOf(head, n)
slot   == lfring_map(head, n)
word   == array[slot]
ecycle == modup(word, n)

Take ==
  /\ ecycle = hcycle
  /\ given' = given \union {word & (n - 1)}
  /\ array' = [array EXCEPT ![slot] = word | (n - 1)]
  /\ UNCHANGED <<tail, threshold, missed>>

\* The slot is closed if it is older, and the round has failed.
Skip ==
  /\ ecycle # hcycle
  /\ array' = [array EXCEPT ![slot] =
                 IF is_lt(ecycle, hcycle) THEN entry_new(word, hcycle, n) ELSE word]
  /\ threshold' = threshold - 1
  /\ \/ /\ is_le(tail, head + 1)
        /\ tail' = head + 1
        /\ missed' = TRUE
     \/ /\ ~is_le(tail, head + 1)
        /\ missed' = (threshold <= 0)
        /\ UNCHANGED tail
  /\ UNCHANGED given

Next ==
  /\ threshold >= 0 /\ ~missed
  /\ head' = head + 1
  /\ Take \/ Skip
  /\ UNCHANGED len

Spec == Init /\ [][Next]_vars

-----------------------------------------------------------------------------
(* Property.                                                               *)

\* "This function will panic if the value is not a power of two"
\* (src/scq.rs:609): so a queue that was constructed has a ring that works,
\* and its first capacity() enqueues each get an index.
FreshQueueFills == missed => given = 0 .. capacity - 1
=============================================================================
