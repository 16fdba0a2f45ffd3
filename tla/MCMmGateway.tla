---------------------------- MODULE MCMmGateway ----------------------------
(* TLC instance of MmGateway, with prices in cents. *)
EXTENDS MmGateway

Residual(direction, net) == [direction |-> direction, net_imbalance |-> net]

(* No residual, one that scales and one that saturates the premium. *)
MCResiduals ==
  {Residual(DIRECTION_YES_HEAVY, 0), Residual(DIRECTION_YES_HEAVY, 1),
   Residual(DIRECTION_NO_HEAVY, 2)}

(* A calm market, and a jumpy one at the edge of the price band. *)
MCConditions == {[implied_vol |-> 1, fair_value |-> 60], [implied_vol |-> 3, fair_value |-> 98]}

MCPolicy ==
  [premium_per_bp |-> 10, base_threshold |-> 5, threshold_tighten_per_bp |-> 2, min_threshold |-> 1]

MCInitialRisk == [base_oracle_price |-> 50, max_skew_premium |-> 10, imbalance_threshold |-> 2]

MCMaxEvents == {{}, {0}, {1}}

=============================================================================
