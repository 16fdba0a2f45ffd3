---------------------------- MODULE SecureEpoch ----------------------------
(***************************************************************************)
(* One epoch inside the node matrix, step by step: process_epoch of         *)
(* mpc-core/src/engine.rs with MxeCluster::match_batch of mxe.rs.  Blobs    *)
(* are opened, orders aggregated per user, and each column of aggregates is *)
(* split, folded into the nodes' accumulators and revealed as one total.    *)
(* It implements Epoch, where the totals appear at once.                    *)
(***************************************************************************)
EXTENDS Sealing, SecretSharing, ClearingMath

CONSTANTS
  Users,       \* owners of orders
  Quantities,  \* quantities of an order
  MaxOrders,   \* bound: most orders of a batch
  Market,      \* params.market
  ClusterKey,  \* the key pair of the cluster
  Blobs,       \* the blobs that a fetch may find
  NodeCounts   \* the sizes a cluster may be built with

ASSUME BlobsAssumption ==
  /\ \A blob \in Blobs : blob.bytes.user \in Users /\ blob.bytes.qty \in Quantities
  /\ IsFiniteSet(Users)
  /\ Quantities \subseteq 0 .. U64Max

ASSUME NodesAssumption == NodeCounts \subseteq Nat

VARIABLES
  orders,  \* the orders opened so far
  result,  \* the MatchResult or the error of the epoch, Pending before
  blobs,   \* history: the blobs opened so far
  nodes,   \* MxeCluster.nodes
  matrix   \* blinded_sum: the column in work, how much of it is folded, the sums

engineVars == <<orders, result, blobs, nodes, matrix>>

Plain == INSTANCE Epoch

Pending == MatchError("Pending")

(* total_yes is known in stage "no". *)
IdleMatrix == [stage |-> "idle", folded |-> 0, sums |-> <<>>, total_yes |-> 0]

(* Faulty variant: the second column is added to the sums of the first. *)
SameAccumulator(stage, total_yes) ==
  [IdleMatrix EXCEPT !.stage = stage, !.total_yes = total_yes,
                     !.sums = IF stage = "yes" THEN NewAccumulator(nodes) ELSE matrix.sums]

NewColumn(stage, total_yes) ==
  [IdleMatrix EXCEPT !.stage = stage, !.sums = NewAccumulator(nodes), !.total_yes = total_yes]

(* A cluster has at least one node. *)
EngineInit ==
  /\ orders = <<>>
  /\ result = Pending
  /\ blobs = <<>>
  /\ \E n \in NodeCounts : nodes = Larger(n, 1)
  /\ matrix = IdleMatrix

Opening == result = Pending /\ matrix.stage = "idle" /\ Len(orders) < MaxOrders

OpenOrder(blob) ==
  LET opened == OpenBlob(ClusterKey, blob)
      order  == opened.order
  IN  /\ Opening
      /\ opened.ok
      /\ order.market = Market
      /\ orders' = Append(orders, [user |-> order.user, side |-> order.side, qty |-> order.qty])
      /\ blobs' = Append(blobs, blob)
      /\ UNCHANGED <<result, nodes, matrix>>

FailToOpen(blob) ==
  LET opened == OpenBlob(ClusterKey, blob)
  IN  /\ Opening
      /\ \/ ~opened.ok /\ result' = opened
         \/ /\ opened.ok
            /\ opened.order.market # Market
            /\ result' = MatchError("MarketMismatch")
      /\ UNCHANGED <<orders, blobs, nodes, matrix>>

(* The checked aggregation; its errors precede any sharing. *)
Aggregate ==
  /\ result = Pending
  /\ matrix.stage = "idle"
  /\ LET error == AggregateError(Aggregates(orders))
     IN  IF error = NoError
         THEN matrix' = NewColumn("yes", 0) /\ UNCHANGED result
         ELSE result' = MatchError(error) /\ UNCHANGED matrix
  /\ UNCHANGED <<orders, blobs, nodes>>

ColumnInWork ==
  IF matrix.stage = "yes" THEN Aggregates(orders).yes ELSE Aggregates(orders).no

(* One round of blinded_sum: split an aggregate and fold its shares. *)
FoldShares ==
  /\ matrix.stage \in {"yes", "no"}
  /\ matrix.folded < Len(ColumnInWork)
  /\ LET secret == ColumnInWork[matrix.folded + 1]
     IN  \E blinds \in Blinds(nodes) :
           LET shares == Split(secret, nodes, blinds)
           IN  IF FitsAccumulator(matrix.sums, shares)
               THEN /\ matrix' = [matrix EXCEPT !.folded = @ + 1, !.sums = AddShares(@, shares)]
                    /\ UNCHANGED result
               ELSE /\ result' = MatchError("InvalidShareSet")
                    /\ matrix' = IdleMatrix
  /\ UNCHANGED <<orders, blobs, nodes>>

RevealYes ==
  /\ matrix.stage = "yes"
  /\ matrix.folded = Len(ColumnInWork)
  /\ matrix' = NewColumn("no", Reveal(matrix.sums))
  /\ UNCHANGED <<orders, result, blobs, nodes>>

RevealNo ==
  /\ matrix.stage = "no"
  /\ matrix.folded = Len(ColumnInWork)
  /\ result' = MatchRevealed(Aggregates(orders), matrix.total_yes, Reveal(matrix.sums))
  /\ matrix' = IdleMatrix
  /\ UNCHANGED <<orders, blobs, nodes>>

EngineNext ==
  \/ \E blob \in Blobs : OpenOrder(blob)
  \/ \E blob \in Blobs : FailToOpen(blob)
  \/ Aggregate
  \/ FoldShares
  \/ RevealYes
  \/ RevealNo

EngineSpec == EngineInit /\ [][EngineNext]_engineVars

-----------------------------------------------------------------------------
(* The accumulators hold words, one per node, and a column is folded only   *)
(* while the epoch has no result.                                           *)
EngineTypeOK ==
  /\ nodes \in Nat \ {0}
  /\ matrix.total_yes \in Word
  /\ matrix.folded \in Nat
  /\ IF matrix.stage = "idle"
     THEN matrix = IdleMatrix
     ELSE /\ matrix.stage \in {"yes", "no"}
          /\ result = Pending
          /\ matrix.sums \in [1 .. nodes -> Word]
          /\ matrix.folded <= Len(ColumnInWork)

(* Whatever the blinds were, the nodes' sums together are the part of the   *)
(* column that is folded in, modulo 2^64: nothing is lost to an addition    *)
(* that wraps on one node and not on another.                               *)
SumsAreShared ==
  matrix.stage # "idle" =>
    Reveal(matrix.sums) =
      Total(1 .. matrix.folded, ColumnInWork) % (U64Max + 1)

(* The sharing is invisible: the opened orders and the result are those of  *)
(* an engine that matches the plain totals, and no epoch fails for its       *)
(* shares.                                                                  *)
ImplementsEpoch == Plain!Spec

=============================================================================
