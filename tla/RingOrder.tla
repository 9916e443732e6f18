------------------------------ MODULE RingOrder ------------------------------
(***************************************************************************)
(* How the constructors of src/scq.rs and src/lfstd.rs turn a requested    *)
(* size into the order of a ring.                                          *)
(***************************************************************************)
EXTENDS Integers

\* 2 ^ order
lfring_pow2(order) == 2 ^ order

\* The assertion of both variants: a size must be even, or one.
SizeAccepted(length) == length % 2 = 0 \/ length = 1

\* length.checked_ilog2(), which is None (a panic) for zero.
ilog2(length) == CHOOSE k \in 0 .. length : 2 ^ k <= length /\ length < 2 ^ (k + 1)

\* For the rings of an allocated queue of this size ...
determine_order(length) == ilog2(length)

\* ... and for a ring in an array of this length.
determine_order_const(length) == ilog2(length) - 1

\* half + n - 1
lfring_threshold3(half, n) == half + n - 1
=============================================================================
