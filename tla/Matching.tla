----------------------------- MODULE Matching -----------------------------
(***************************************************************************)
(* The matching of one batch of opened orders: MxeCluster::match_batch and *)
(* allocate_exact of mpc-core/src/mxe.rs, and the frame that build_frame    *)
(* makes of the result.  An order is [user, side, qty]; its limit_price is *)
(* left out because match_batch never reads it.                             *)
(***************************************************************************)
EXTENDS Protocol, Integers, Sequences, Totals

Yes == "Yes"
No  == "No"
Sides == {Yes, No}

(* Faulty variant: a user is listed once per order. *)
OwnersOfOrders(orders) == [i \in DOMAIN orders |-> orders[i].user]

(* The orders whose user has no earlier order. *)
FirstOrders(orders) ==
  {i \in DOMAIN orders : \A j \in 1 .. i - 1 : orders[j].user # orders[i].user}

(* The n-th of a set of numbers. *)
Nth(S, n) == CHOOSE i \in S : Cardinality({j \in S : j < i}) = n - 1

(* The users of a batch, in the order of their first orders. *)
BatchUsers(orders) ==
  [n \in 1 .. Cardinality(FirstOrders(orders)) |-> orders[Nth(FirstOrders(orders), n)].user]

(* A user's aggregate on one side. *)
Demand(orders, user, side) ==
  Total({i \in DOMAIN orders : orders[i].user = user /\ orders[i].side = side},
        [i \in DOMAIN orders |-> orders[i].qty])

(* The aggregate that the node matrix reveals is a sum of u64 shares: it is *)
(* exact modulo 2^64 only.                                                   *)
BlindedSum(q) == Total(DOMAIN q, q) % (U64Max + 1)

-----------------------------------------------------------------------------
(* allocate_exact: the largest-remainder split of `total` in proportion to *)
(* the weights, ties broken by the lower index.                             *)

Share(total, w, i)     == (total * w[i]) \div Total(DOMAIN w, w)
Remainder(total, w, i) == (total * w[i]) % Total(DOMAIN w, w)

Leftover(total, w) == total - Total(DOMAIN w, [i \in DOMAIN w |-> Share(total, w, i)])

(* How many entries are served a leftover unit before i. *)
Rank(total, w, i) ==
  Cardinality({j \in DOMAIN w :
    \/ Remainder(total, w, j) > Remainder(total, w, i)
    \/ Remainder(total, w, j) = Remainder(total, w, i) /\ j < i})

(* Faulty variants: the leftover units are dropped; the entries are served *)
(* in full, first come first served.                                        *)
FloorShares(total, w) ==
  [i \in DOMAIN w |-> IF Total(DOMAIN w, w) = 0 THEN 0 ELSE Share(total, w, i)]

FirstComeFirstServed(total, w) ==
  LET before(i) == Total({j \in DOMAIN w : j < i}, w)
  IN  [i \in DOMAIN w |-> IF before(i) >= total THEN 0
                          ELSE IF before(i) + w[i] <= total THEN w[i] ELSE total - before(i)]

AllocateExact(total, w) ==
  IF Total(DOMAIN w, w) = 0
  THEN [i \in DOMAIN w |-> 0]
  ELSE [i \in DOMAIN w |->
          Share(total, w, i) + (IF Rank(total, w, i) < Leftover(total, w) THEN 1 ELSE 0)]

-----------------------------------------------------------------------------
(* match_batch.  The heavy side is matched pro rata up to the volume of the *)
(* light side, its remainder is the residual; the light side is matched in  *)
(* full.                                                                    *)

Fill(py, pn, ry, rn) ==
  [p2p_yes |-> py, p2p_no |-> pn, residual_yes |-> ry, residual_no |-> rn]

(* Faulty variant: the residual of a user is its whole demand. *)
ResidualNotReduced(yes, no, matched) ==
  LET p2p == AllocateExact(matched, yes)
  IN  [i \in DOMAIN yes |-> Fill(p2p[i], no[i], yes[i], 0)]

YesHeavyFills(yes, no, matched) ==
  LET p2p == AllocateExact(matched, yes)
  IN  [i \in DOMAIN yes |-> Fill(p2p[i], no[i], yes[i] - p2p[i], 0)]

NoHeavyFills(yes, no, matched) ==
  LET p2p == AllocateExact(matched, no)
  IN  [i \in DOMAIN no |-> Fill(yes[i], p2p[i], 0, no[i] - p2p[i])]

P2pVolume(fills) ==
  Total(DOMAIN fills, [i \in DOMAIN fills |-> fills[i].p2p_yes + fills[i].p2p_no])

MatchError(reason) == [ok |-> FALSE, error |-> reason]

NoError == "NoError"

(* The aggregates per user, which are checked before anything is revealed. *)
Aggregates(orders) ==
  LET users == BatchUsers(orders)
  IN  [users |-> users,
       yes |-> [i \in DOMAIN users |-> Demand(orders, users[i], Yes)],
       no |-> [i \in DOMAIN users |-> Demand(orders, users[i], No)]]

AggregateError(a) ==
  IF \E i \in DOMAIN a.users : ~FitsU64(a.yes[i]) \/ ~FitsU64(a.no[i])
  THEN "QuantityOverflow"
  ELSE IF Len(a.users) > MAX_FILLS THEN "TooManyFills" ELSE NoError

(* The match of the aggregates, given the totals that the nodes revealed.   *)
MatchRevealed(a, total_yes, total_no) ==
  LET yes_heavy == total_yes >= total_no
      fills     == IF yes_heavy THEN YesHeavyFills(a.yes, a.no, total_no)
                                ELSE NoHeavyFills(a.yes, a.no, total_yes)
  IN  IF ~FitsU64(P2pVolume(fills))
      THEN MatchError("QuantityOverflow")
      ELSE [ok |-> TRUE, users |-> a.users, fills |-> fills,
            direction |-> IF yes_heavy THEN DIRECTION_YES_HEAVY ELSE DIRECTION_NO_HEAVY,
            net_imbalance |-> IF yes_heavy THEN total_yes - total_no ELSE total_no - total_yes,
            total_yes |-> total_yes, total_no |-> total_no]

MatchBatch(orders) ==
  LET a == Aggregates(orders)
  IN  IF AggregateError(a) # NoError
      THEN MatchError(AggregateError(a))
      ELSE MatchRevealed(a, BlindedSum(a.yes), BlindedSum(a.no))

(* build_frame: the header economics and the fills of a match, keyed by     *)
(* user as the settlement program looks them up.                            *)
BuildFrame(Users, epoch, result) ==
  LET users   == {result.users[i] : i \in DOMAIN result.users}
      fill(u) == CHOOSE i \in DOMAIN result.users : result.users[i] = u
  IN  [epoch |-> epoch,
       direction |-> result.direction,
       net_imbalance |-> result.net_imbalance,
       users |-> users,
       fills |-> [u \in Users |-> IF u \in users THEN result.fills[fill(u)] ELSE NoFill]]

=============================================================================
