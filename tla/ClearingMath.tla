-------------------------- MODULE ClearingMath --------------------------
(***************************************************************************)
(* The deterministic two-tier clearing arithmetic of program/src/math.rs.  *)
(* Every intermediate product is a u128 in the code, so only the results   *)
(* have to fit a u64.                                                      *)
(***************************************************************************)
EXTENDS Protocol, Integers

Smaller(a, b) == IF a <= b THEN a ELSE b
Larger(a, b)  == IF a >= b THEN a ELSE b

(* Linear in the imbalance, saturating at max_skew_premium. *)
SkewPremium(net_imbalance, max_skew_premium, imbalance_threshold) ==
  LET skew_ratio == Smaller((net_imbalance * SCALE_FACTOR) \div imbalance_threshold,
                            SCALE_FACTOR)
  IN  (max_skew_premium * skew_ratio) \div SCALE_FACTOR

Clamp(price) == Larger(MIN_PRICE, Smaller(price, MAX_PRICE))

(* The YES price of the residual: the premium is added when the residual is *)
(* YES-heavy and subtracted, saturating at zero, when it is NO-heavy.       *)
ClearingPrice(net_imbalance, direction, risk) ==
  LET premium == SkewPremium(net_imbalance, risk.max_skew_premium, risk.imbalance_threshold)
  IN  Clamp(IF direction = DIRECTION_YES_HEAVY
            THEN risk.base_oracle_price + premium
            ELSE Larger(risk.base_oracle_price - premium, 0))

(* Base units of collateral for qty contracts at a price, rounded down. *)
CollateralFor(qty, price) == (qty * price) \div SCALE_FACTOR

=============================================================================
