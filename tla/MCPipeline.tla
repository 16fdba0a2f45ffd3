---------------------------- MODULE MCPipeline ----------------------------
(* TLC instance of Pipeline. *)
EXTENDS Pipeline, TLC

CONSTANTS u1, u2, OtherKey, Tokens

MCMembers == <<"key1", "key2", "key3">>

MCRisk == [base_oracle_price |-> 50, max_skew_premium |-> 20, imbalance_threshold |-> 4]

MCStake == u1 :> Tokens @@ u2 :> Tokens

Orders == [user : Users, market : {Market}, side : Sides, qty : Quantities]

GoodBlobs == {SealOrder(order, ClusterKey) : order \in Orders}

ABytes == ToBytes([user |-> u1, market |-> Market, side |-> Yes, qty |-> 1])

(* One blob for each way not to open, and one for another market. *)
BadBlobs ==
  {[SealBytes(ABytes, ClusterKey) EXCEPT !.condition = Stub],
   [SealBytes(ABytes, ClusterKey) EXCEPT !.condition = Altered],
   SealBytes(ABytes, OtherKey),
   SealBytes([ABytes EXCEPT !.tag = 7], ClusterKey),
   SealBytes([ABytes EXCEPT !.exact = FALSE], ClusterKey),
   SealBytes([ABytes EXCEPT !.market = OtherMarket], ClusterKey)}

MCBlobs == GoodBlobs \cup BadBlobs

=============================================================================
