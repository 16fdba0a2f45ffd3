--------------------------- MODULE SecretSharing ---------------------------
(***************************************************************************)
(* Additive secret sharing over the words modulo 2^64, and the accumulator *)
(* in which node k of the MXE only ever sees column k:                      *)
(* mpc-core/src/secret_share.rs.                                            *)
(***************************************************************************)
EXTENDS Protocol, Integers, Totals

Word == 0 .. U64Max

(* Faulty variant: an addition that does not wrap. *)
PlainAdd(a, b) == a + b

WrappingAdd(a, b) == IF a + b <= U64Max THEN a + b ELSE a + b - (U64Max + 1)
WrappingSub(a, b) == IF a >= b THEN a - b ELSE a - b + (U64Max + 1)

(* A fold with wrapping_add: exact modulo 2^64. *)
WrappingSum(f) == Total(DOMAIN f, f) % (U64Max + 1)

-----------------------------------------------------------------------------
(* Shares::split.  All but the last share are blinds; the last one closes  *)
(* the sum.                                                                 *)

(* The generator has 64 bits of state: one blind determines the next ones.  *)
(* Any words at all are allowed here, which is more than it yields: sound   *)
(* for what is revealed, while nothing follows on what stays hidden.        *)
Blinds(n) == [1 .. n - 1 -> Word]

Split(secret, n, blinds) ==
  [i \in 1 .. n |-> IF i = n THEN WrappingSub(secret, WrappingSum(blinds)) ELSE blinds[i]]

-----------------------------------------------------------------------------
(* ShareAccumulator. *)

NewAccumulator(n) == [i \in 1 .. n |-> 0]

(* add_shares refuses any other share vector as an InvalidShareSet. *)
FitsAccumulator(sums, shares) == DOMAIN shares = DOMAIN sums /\ DOMAIN shares # {}

(* Faulty variant: the last share vector replaces the sums. *)
LastShares(sums, shares) == [i \in DOMAIN sums |-> shares[i]]

AddShares(sums, shares) == [i \in DOMAIN sums |-> WrappingAdd(sums[i], shares[i])]

Reveal(sums) == WrappingSum(sums)

=============================================================================
