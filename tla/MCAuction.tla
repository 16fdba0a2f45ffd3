---------------------------- MODULE MCAuction ----------------------------
(* TLC instance of Auction. *)
EXTENDS Auction, TLC

CONSTANTS order, other, garbled

MCBlobs == {order, other, garbled}
MCBadBlobs == {garbled}

(* Orders are only compared. *)
Symmetry == Permutations({order, other})

(* Three members and two that share a key, both with a threshold of two. *)
MCCommittees ==
  {[members |-> <<"k1", "k2", "k3">>, threshold |-> 2],
   [members |-> <<"k1", "k1", "k2">>, threshold |-> 2]}

MCMaxTicks == {{}, {1}}

=============================================================================
