------------------------------- MODULE Epoch -------------------------------
(***************************************************************************)
(* One secure epoch of the engine: process_epoch of mpc-core/src/engine.rs. *)
(* The sealed blobs are opened one after the other, the orders are matched *)
(* and the result becomes a frame.  Opening is abstracted to its verdict:  *)
(* an order of this market, or the error that ends the epoch.               *)
(***************************************************************************)
EXTENDS Matching, ClearingMath

CONSTANTS
  Users,       \* owners of orders
  Quantities,  \* quantities of an order
  MaxOrders    \* bound: most orders of a batch

ASSUME BatchAssumption ==
  /\ IsFiniteSet(Users)
  /\ Quantities \subseteq 0 .. U64Max
  /\ MaxOrders \in Nat

VARIABLES
  orders,  \* the orders opened so far
  result   \* the MatchResult or the error of the epoch, Pending before

vars == <<orders, result>>

Pending == MatchError("Pending")

Order == [user : Users, side : Sides, qty : Quantities]

Init == orders = <<>> /\ result = Pending

OpenOrder(o) ==
  /\ result = Pending
  /\ Len(orders) < MaxOrders
  /\ orders' = Append(orders, o)
  /\ UNCHANGED result

OpenErrors == {"MalformedSealedOrder", "SealOpenFailed", "MalformedOrder", "MarketMismatch"}

(* One blob that does not open, or that belongs to another market, fails   *)
(* the epoch for every order.                                               *)
FailToOpen(reason) ==
  /\ result = Pending
  /\ Len(orders) < MaxOrders
  /\ result' = MatchError(reason)
  /\ UNCHANGED orders

MatchOrders ==
  /\ result = Pending
  /\ result' = MatchBatch(orders)
  /\ UNCHANGED orders

Next ==
  \/ \E o \in Order : OpenOrder(o)
  \/ \E reason \in OpenErrors : FailToOpen(reason)
  \/ MatchOrders

Spec == Init /\ [][Next]_vars

-----------------------------------------------------------------------------
SideDemand(side)  == [u \in Users |-> Demand(orders, u, side)]
TotalDemand(side) == Total(Users, SideDemand(side))

NoTotalWraps == \A side \in Sides : FitsU64(TotalDemand(side))

frame == BuildFrame(Users, 1, result)

Column(name)      == [u \in Users |-> frame.fills[u][name]]
ColumnTotal(name) == Total(Users, Column(name))

YesHeavy == result.direction = DIRECTION_YES_HEAVY

(* No column of a match underflows, and the frame lists every user of the   *)
(* batch exactly once: the program is handed one position account per fill. *)
TypeOK ==
  result.ok =>
    /\ \A i \in DOMAIN result.fills : result.fills[i] \in UserFill
    /\ \A i, j \in DOMAIN result.users : result.users[i] = result.users[j] => i = j
    /\ {result.users[i] : i \in DOMAIN result.users} = {orders[i].user : i \in DOMAIN orders}

(* The engine's frame is one that the program accepts and may trust: the    *)
(* residual lies on one side only and adds up to the header's net_imbalance, *)
(* which the program re-derives, and the Tier-1 volume is crossed in YES/NO *)
(* pairs, which it does not check.                                          *)
FrameIsSettleable ==
  result.ok /\ NoTotalWraps =>
    /\ ColumnTotal(IF YesHeavy THEN "residual_no" ELSE "residual_yes") = 0
    /\ ColumnTotal(IF YesHeavy THEN "residual_yes" ELSE "residual_no") = frame.net_imbalance
    /\ ColumnTotal("p2p_yes") = ColumnTotal("p2p_no")

(* Every user is filled for what it ordered on each side, no more and no    *)
(* less, however its orders were split and interleaved with others'.        *)
DemandIsFilled ==
  result.ok /\ NoTotalWraps =>
    \A u \in Users :
      /\ frame.fills[u].p2p_yes + frame.fills[u].residual_yes = SideDemand(Yes)[u]
      /\ frame.fills[u].p2p_no + frame.fills[u].residual_no = SideDemand(No)[u]

(* Pro rata: a user's Tier-1 volume is its exact share of the matched       *)
(* volume, rounded up or down, and a larger demand on the heavy side never  *)
(* gets less of it than a smaller one.                                      *)
AllocationIsProRata ==
  LET heavy   == IF YesHeavy THEN Yes ELSE No
      p2p     == Column(IF YesHeavy THEN "p2p_yes" ELSE "p2p_no")
      demand  == SideDemand(heavy)
      sum     == TotalDemand(heavy)
      matched == Smaller(TotalDemand(Yes), TotalDemand(No))
  IN  result.ok /\ NoTotalWraps /\ sum > 0 =>
        \A u \in Users :
          /\ p2p[u] * sum < matched * demand[u] + sum
          /\ matched * demand[u] < p2p[u] * sum + sum
          /\ \A v \in Users : demand[u] < demand[v] => p2p[u] <= p2p[v]

(* The comment of match_batch: no user's aggregate overflows, so that the   *)
(* modular arithmetic of the shares reveals the true totals.                *)
TotalsAreExact ==
  result.ok => /\ result.total_yes = TotalDemand(Yes)
               /\ result.total_no = TotalDemand(No)

=============================================================================
