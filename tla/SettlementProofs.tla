------------------------- MODULE SettlementProofs -------------------------
(***************************************************************************)
(* Theorems about Settlement for every set of users, every set of frames   *)
(* that satisfies FramesAssumption and every price scale that satisfies    *)
(* PricesAssumption: its types and its open interest, what backs its       *)
(* contracts, and that it implements the escrow of module Escrow.           *)
(***************************************************************************)
EXTENDS Settlement, TotalsProofs

-----------------------------------------------------------------------------
(* The clearing arithmetic. *)

(* A collateral amount is a natural number. *)
LEMMA CollateralForType ==
  ASSUME NEW qty \in Nat, NEW price \in Nat
  PROVE  CollateralFor(qty, price) \in Nat
PROOF
<1>1. qty * price \in Nat
  OBVIOUS
<1>2. SCALE_FACTOR \in Nat \ {0}
  BY PricesAssumption
<1>3. \A n \in Nat, d \in Nat \ {0} : n \div d \in Nat
  OBVIOUS
<1>4. QED
  BY <1>1, <1>2, <1>3 DEF CollateralFor

(* The clamp keeps the price strictly between zero and one dollar, whatever *)
(* the risk parameters are.                                                 *)
LEMMA ClearingPriceBounds ==
  ASSUME NEW net \in Nat, NEW direction, NEW risk \in RiskRecord,
         risk.imbalance_threshold # 0
  PROVE  /\ ClearingPrice(net, direction, risk) \in Nat
         /\ MIN_PRICE <= ClearingPrice(net, direction, risk)
         /\ ClearingPrice(net, direction, risk) <= MAX_PRICE
PROOF
<1> DEFINE premium == SkewPremium(net, risk.max_skew_premium, risk.imbalance_threshold)
<1>1. \A n \in Nat, d \in Nat \ {0} : n \div d \in Nat
  OBVIOUS
<1>2. /\ risk.max_skew_premium \in Nat
      /\ risk.imbalance_threshold \in Nat \ {0}
      /\ risk.base_oracle_price \in Nat
      /\ SCALE_FACTOR \in Nat \ {0}
  BY PricesAssumption DEF RiskRecord
<1>3. premium \in Nat
  <2> DEFINE ratio == Smaller((net * SCALE_FACTOR) \div risk.imbalance_threshold, SCALE_FACTOR)
  <2>1. net * SCALE_FACTOR \in Nat
    BY <1>2
  <2>2. ratio \in Nat
    BY <1>1, <1>2, <2>1 DEF Smaller
  <2>3. risk.max_skew_premium * ratio \in Nat
    BY <1>2, <2>2
  <2>4. (risk.max_skew_premium * ratio) \div SCALE_FACTOR \in Nat
    BY <1>1, <1>2, <2>3
  <2>5. QED
    BY <2>4 DEF SkewPremium
<1>4. \A price \in Nat : /\ Clamp(price) \in Nat
                         /\ MIN_PRICE <= Clamp(price)
                         /\ Clamp(price) <= MAX_PRICE
  BY PricesAssumption DEF Clamp, Smaller, Larger
<1>5. /\ risk.base_oracle_price + premium \in Nat
      /\ Larger(risk.base_oracle_price - premium, 0) \in Nat
  BY <1>2, <1>3 DEF Larger
<1>6. QED
  BY <1>4, <1>5 DEF ClearingPrice

-----------------------------------------------------------------------------
(* Frames and what they settle. *)

(* The fields of a frame. *)
LEMMA FrameFields ==
  ASSUME NEW f \in Frames
  PROVE  /\ f.epoch \in Nat
         /\ f.net_imbalance \in Nat
         /\ f.users \subseteq Users
         /\ IsFiniteSet(f.users)
         /\ Cardinality(f.users) \in Nat
         /\ \A u \in Users : /\ f.fills[u].p2p_yes \in Nat
                             /\ f.fills[u].p2p_no \in Nat
                             /\ f.fills[u].residual_yes \in Nat
                             /\ f.fills[u].residual_no \in Nat
PROOF
<1>1. f \in Frame
  BY FramesAssumption
<1>2. /\ f.epoch \in Nat
      /\ f.net_imbalance \in Nat
      /\ f.users \subseteq Users
      /\ f.fills \in [Users -> UserFill]
  BY <1>1 DEF Frame
<1>3. IsFiniteSet(f.users) /\ Cardinality(f.users) \in Nat
  BY <1>2, PartiesAssumption, FS_Subset, FS_CardinalityType
<1>4. QED
  BY <1>2, <1>3 DEF UserFill

(* Both sides of a residual contract are priced between zero and one dollar. *)
LEMMA HeavyPriceBounds ==
  ASSUME TypeOK, Exists, NEW f \in Frames
  PROVE  /\ HeavyPrice(f) \in Nat
         /\ SCALE_FACTOR - HeavyPrice(f) \in Nat
PROOF
<1> DEFINE clear_price == ClearingPrice(f.net_imbalance, f.direction, market.risk)
<1>1. market.risk \in RiskRecord /\ market.risk.imbalance_threshold # 0
  BY DEF TypeOK, MarketState
<1>2. clear_price \in Nat /\ clear_price <= MAX_PRICE
  BY <1>1, FrameFields, ClearingPriceBounds
<1>3. QED
  BY <1>2, PricesAssumption DEF HeavyPrice

(* What a fill costs and adds is a natural number. *)
LEMMA FillAmounts ==
  ASSUME TypeOK, Exists, NEW f \in Frames, NEW u \in Users
  PROVE  /\ TotalCost(f, u) \in Nat
         /\ HeavyResidual(f, u) \in Nat
         /\ YesAdd(f, u) \in Nat
         /\ NoAdd(f, u) \in Nat
PROOF
<1>1. /\ f.fills[u].p2p_yes \in Nat
      /\ f.fills[u].p2p_no \in Nat
      /\ HeavyResidual(f, u) \in Nat
  BY FrameFields DEF HeavyResidual
<1>2. CollateralFor(f.fills[u].p2p_yes + f.fills[u].p2p_no, MIDPOINT_PRICE) \in Nat
  <2>1. f.fills[u].p2p_yes + f.fills[u].p2p_no \in Nat
    BY <1>1
  <2>2. QED
    BY <2>1, PricesAssumption, CollateralForType
<1>3. CollateralFor(HeavyResidual(f, u), HeavyPrice(f)) \in Nat
  BY <1>1, HeavyPriceBounds, CollateralForType
<1>4. QED
  BY <1>1, <1>2, <1>3 DEF TotalCost, YesAdd, NoAdd

(* The market maker's obligation is a natural number. *)
LEMMA MmObligationType ==
  ASSUME TypeOK, Exists, NEW f \in Frames
  PROVE  MmObligation(f) \in Nat
BY FrameFields, HeavyPriceBounds, CollateralForType DEF MmObligation

(* The totals that a frame adds to the supply are natural numbers. *)
LEMMA AddedSupplyType ==
  ASSUME TypeOK, Exists, NEW f \in Frames
  PROVE  AddYes(f) \in Nat /\ AddNo(f) \in Nat
PROOF
<1>1. /\ [u \in Users |-> YesAdd(f, u)] \in [Users -> Nat]
      /\ [u \in Users |-> NoAdd(f, u)] \in [Users -> Nat]
  BY FillAmounts
<1>2. QED
  BY <1>1, PartiesAssumption, TotalType DEF AddYes, AddNo, UserTotal

-----------------------------------------------------------------------------
(* Type correctness. *)

(* What a settlement leaves behind has the right types. *)
LEMMA SettledTypes ==
  ASSUME TypeOK, NEW f \in Frames, ApplySettlement(f)
  PROVE  /\ SettledMarket(f) \in MarketState
         /\ \A u \in f.users : SettledPosition(f, u) \in UserPosition
PROOF
<1>1. Exists
  BY DEF ApplySettlement, IsTrading, Exists
<1>2. SettledMarket(f) \in MarketState
  <2>1. /\ market \in MarketState
        /\ market.mm_collateral \in Nat
        /\ market.mm_yes \in Nat
        /\ market.mm_no \in Nat
        /\ market.total_yes_supply \in Nat
        /\ market.total_no_supply \in Nat
    BY DEF TypeOK, MarketState
  <2>2. market.mm_collateral - MmObligation(f) \in Nat
    BY <1>1, <2>1, MmObligationType DEF ApplySettlement, BackstopCovers
  <2>3. /\ market.total_yes_supply + AddYes(f) \in Nat
        /\ market.total_no_supply + AddNo(f) \in Nat
    BY <1>1, <2>1, AddedSupplyType
  <2>4. /\ market.mm_yes + (IF IsYesHeavy(f) THEN 0 ELSE f.net_imbalance) \in Nat
        /\ market.mm_no + (IF IsYesHeavy(f) THEN f.net_imbalance ELSE 0) \in Nat
        /\ f.epoch \in Nat
    BY <2>1, FrameFields
  <2>5. QED
    BY <2>1, <2>2, <2>3, <2>4 DEF SettledMarket, MarketState
<1>3. ASSUME NEW u \in f.users
      PROVE  SettledPosition(f, u) \in UserPosition
  <2>1. u \in Users
    BY FrameFields
  <2>2. /\ position[u] \in UserPosition
        /\ position[u].yes_qty \in Nat
        /\ position[u].no_qty \in Nat
        /\ position[u].collateral \in Nat
    BY <2>1 DEF TypeOK, UserPosition
  <2>3. position[u].collateral - TotalCost(f, u) \in Nat
    BY <1>1, <2>1, <2>2, FillAmounts DEF ApplySettlement, ParticipantsCover
  <2>4. /\ position[u].yes_qty + YesAdd(f, u) \in Nat
        /\ position[u].no_qty + NoAdd(f, u) \in Nat
    BY <1>1, <2>1, <2>2, FillAmounts
  <2>5. QED
    BY <2>2, <2>3, <2>4 DEF SettledPosition, UserPosition
<1>4. QED
  BY <1>2, <1>3

(* A payout is a natural number. *)
LEMMA PayoutType ==
  ASSUME NEW outcome, NEW yes \in Nat, NEW no \in Nat
  PROVE  Payout(outcome, yes, no) \in Nat
PROOF
<1>1. SCALE_FACTOR \in Nat /\ MIDPOINT_PRICE \in Nat
  BY PricesAssumption
<1>2. /\ CollateralFor(yes, SCALE_FACTOR) \in Nat
      /\ CollateralFor(no, SCALE_FACTOR) \in Nat
      /\ CollateralFor(yes, MIDPOINT_PRICE) \in Nat
      /\ CollateralFor(no, MIDPOINT_PRICE) \in Nat
  BY <1>1, CollateralForType
<1>3. QED
  BY <1>2 DEF Payout

(* Tokens move between a wallet and the vault as natural numbers. *)
LEMMA TransferTypes ==
  ASSUME TypeOK, NEW p \in Parties, NEW amount \in Nat,
         TransferIn(p, amount) \/ TransferOut(p, amount)
  PROVE  vault' \in Nat /\ wallet' \in [Parties -> Nat]
PROOF
<1>1. vault \in Nat /\ wallet \in [Parties -> Nat] /\ wallet[p] \in Nat
  BY DEF TypeOK
<1>2. CASE TransferIn(p, amount)
  <2>1. vault + amount \in Nat /\ wallet[p] - amount \in Nat
    BY <1>1, <1>2 DEF TransferIn
  <2>2. QED
    BY <1>1, <1>2, <2>1 DEF TransferIn
<1>3. CASE TransferOut(p, amount)
  <2>1. vault - amount \in Nat /\ wallet[p] + amount \in Nat
    BY <1>1, <1>3 DEF TransferOut
  <2>2. QED
    BY <1>1, <1>3, <2>1 DEF TransferOut
<1>4. QED
  BY <1>2, <1>3

(* What is stored fits into a word: deposits and settlements check what     *)
(* they add, and nothing else adds.                                         *)
LEMMA AccountsFitStep ==
  TypeOK /\ [Next]_vars => AccountsFit'
PROOF
<1> DEFINE MarketFits(m) == /\ FitsU64(m.total_yes_supply) /\ FitsU64(m.total_no_supply)
                            /\ FitsU64(m.mm_yes) /\ FitsU64(m.mm_no)
                            /\ FitsU64(m.mm_collateral)
           PositionFits(p) == FitsU64(p.yes_qty) /\ FitsU64(p.no_qty) /\ FitsU64(p.collateral)
<1> SUFFICES ASSUME TypeOK, [Next]_vars
             PROVE  MarketFits(market') /\ \A u \in Users : PositionFits(position'[u])
  BY DEF AccountsFit
<1>1. /\ market \in MarketState /\ MarketFits(market)
      /\ position \in [Users -> UserPosition] /\ \A u \in Users : PositionFits(position[u])
  BY DEF TypeOK, AccountsFit
<1>2. 0 <= U64Max /\ U64Max \in Nat
  BY SizesAssumption
<1>3. CASE UNCHANGED <<market, position>>
  BY <1>1, <1>3
<1>4. ASSUME NEW risk \in RiskParams, NEW trusted \in BOOLEAN, InitializeMarket(risk, trusted)
      PROVE  MarketFits(market') /\ UNCHANGED position
  BY <1>2, <1>4 DEF InitializeMarket, NoMarket, FitsU64
<1>5. ASSUME NEW u \in Users, InitUserPosition(u)
      PROVE  UNCHANGED market /\ \A v \in Users : PositionFits(position'[v])
  <2>1. PositionFits([NoPosition EXCEPT !.exists = TRUE])
    BY <1>2 DEF NoPosition, FitsU64
  <2> QED
    BY <1>1, <1>5, <2>1 DEF InitUserPosition
<1>6. ASSUME NEW u \in Users, NEW amount \in Amounts, DepositCollateral(u, amount)
      PROVE  UNCHANGED market /\ \A v \in Users : PositionFits(position'[v])
  <2>1. PositionFits([position[u] EXCEPT !.collateral = @ + amount])
    BY <1>1, <1>6 DEF DepositCollateral, UserPosition
  <2> QED
    BY <1>1, <1>6, <2>1 DEF DepositCollateral
<1>7. ASSUME NEW u \in Users, NEW amount \in Amounts, WithdrawCollateral(u, amount)
      PROVE  UNCHANGED market /\ \A v \in Users : PositionFits(position'[v])
  <2>1. amount \in Nat
    BY PartiesAssumption
  <2>2. PositionFits([position[u] EXCEPT !.collateral = @ - amount])
    BY <1>1, <1>2, <2>1 DEF UserPosition, FitsU64
  <2> QED
    BY <1>1, <1>7, <2>2 DEF WithdrawCollateral
<1>8. ASSUME NEW p \in Parties, NEW amount \in Amounts, DepositMmCollateral(p, amount)
      PROVE  MarketFits(market') /\ UNCHANGED position
  BY <1>1, <1>8 DEF DepositMmCollateral, MarketState
<1>9. ASSUME NEW amount \in Amounts, WithdrawMmCollateral(amount)
      PROVE  MarketFits(market') /\ UNCHANGED position
  <2>1. amount \in Nat
    BY PartiesAssumption
  <2> QED
    BY <1>1, <1>2, <1>9, <2>1 DEF WithdrawMmCollateral, MarketState, FitsU64
<1>10. ASSUME NEW f \in Frames, ApplySettlement(f)
       PROVE  MarketFits(market') /\ \A u \in Users : PositionFits(position'[u])
  <2>1. MarketFits(market')
    <3>1. MmObligation(f) \in Nat
      BY <1>10, MmObligationType DEF ApplySettlement, IsTrading, Exists
    <3>2. market'.mm_collateral = market.mm_collateral - MmObligation(f)
      BY <1>1, <1>10 DEF ApplySettlement, SettledMarket, MarketState
    <3>3. FitsU64(market'.mm_collateral)
      BY <1>1, <1>2, <3>1, <3>2 DEF MarketState, FitsU64
    <3> QED
      BY <1>10, <3>3 DEF ApplySettlement, NoOverflow
  <2>2. ASSUME NEW u \in f.users, u \in Users
        PROVE  PositionFits(SettledPosition(f, u))
    <3>1. TotalCost(f, u) \in Nat
      BY <1>10, <2>2, FillAmounts DEF ApplySettlement, IsTrading, Exists
    <3>2. SettledPosition(f, u).collateral = position[u].collateral - TotalCost(f, u)
      BY <1>1, <2>2 DEF SettledPosition, UserPosition
    <3>3. FitsU64(SettledPosition(f, u).collateral)
      BY <1>1, <1>2, <2>2, <3>1, <3>2 DEF UserPosition, FitsU64
    <3> QED
      BY <1>10, <3>3 DEF ApplySettlement, NoOverflow
  <2> QED
    BY <1>1, <1>10, <2>1, <2>2 DEF ApplySettlement
<1>11. ASSUME NEW risk \in RiskParams, UpdateRiskParams(risk)
       PROVE  MarketFits(market') /\ UNCHANGED position
  BY <1>1, <1>11 DEF UpdateRiskParams, MarketState
<1>12. ASSUME NEW outcome \in FinalOutcomes, ResolveMarket(outcome)
       PROVE  MarketFits(market') /\ UNCHANGED position
  BY <1>1, <1>12 DEF ResolveMarket, MarketState
<1>13. ASSUME NEW u \in Users, ClaimWinnings(u)
       PROVE  UNCHANGED market /\ \A v \in Users : PositionFits(position'[v])
  <2>1. PositionFits(Redeemed(position[u]))
    BY <1>1, <1>2 DEF Redeemed, UserPosition, FitsU64
  <2> QED
    BY <1>1, <1>13, <2>1 DEF ClaimWinnings
<1>14. CASE ClaimMmWinnings
  BY <1>1, <1>2, <1>14 DEF ClaimMmWinnings, MmRedeemed, MarketState, FitsU64
<1>15. CASE CloseMarket
  BY <1>1, <1>15 DEF CloseMarket, MarketState
<1> HIDE DEF MarketFits, PositionFits
<1> QED
  BY <1>1, <1>3, <1>4, <1>5, <1>6, <1>7, <1>8, <1>9, <1>10, <1>11, <1>12, <1>13, <1>14, <1>15
     DEF Next, vars, SubmitBatch, SubmitBatchTrusted

(* The type invariant is inductive. *)
LEMMA TypeOKStep ==
  TypeOK /\ [Next]_vars => TypeOK'
PROOF
<1> SUFFICES ASSUME TypeOK, [Next]_vars
             PROVE  TypeOK'
  OBVIOUS
<1>0. AccountsFit'
  BY AccountsFitStep
<1> USE <1>0 DEF TypeOK
<1>1. CASE UNCHANGED vars
  BY <1>1 DEF vars, Exists
<1>2. ASSUME NEW risk \in RiskParams, NEW trusted \in BOOLEAN, InitializeMarket(risk, trusted)
      PROVE  TypeOK'
  <2>1. risk \in RiskRecord /\ risk.imbalance_threshold # 0
    BY <1>2, PartiesAssumption DEF InitializeMarket, ValidRisk
  <2>2. market' = [NoMarket EXCEPT !.exists = TRUE, !.trusted = trusted, !.risk = risk]
    BY <1>2 DEF InitializeMarket
  <2>3. market' \in MarketState /\ market'.risk = risk
    BY <2>1, <2>2 DEF NoMarket, MarketState
  <2>4. QED
    BY <1>2, <2>1, <2>3 DEF InitializeMarket, Exists
<1>3. ASSUME NEW u \in Users, InitUserPosition(u)
      PROVE  TypeOK'
  <2>1. [NoPosition EXCEPT !.exists = TRUE] \in UserPosition
    BY DEF NoPosition, UserPosition
  <2>2. QED
    BY <1>3, <2>1 DEF InitUserPosition, Exists
<1>4. ASSUME NEW u \in Users, NEW amount \in Amounts, DepositCollateral(u, amount)
      PROVE  TypeOK'
  <2>1. amount \in Nat /\ u \in Parties
    BY PartiesAssumption DEF Parties
  <2>2. vault' \in Nat /\ wallet' \in [Parties -> Nat]
    BY <1>4, <2>1, TransferTypes DEF DepositCollateral
  <2>3. position' \in [Users -> UserPosition]
    BY <1>4, <2>1 DEF DepositCollateral, UserPosition
  <2>4. QED
    BY <1>4, <2>2, <2>3 DEF DepositCollateral, Exists
<1>5. ASSUME NEW f \in Frames, ApplySettlement(f)
      PROVE  TypeOK'
  <2>1. market' = SettledMarket(f) /\ market' \in MarketState
    BY <1>5, SettledTypes DEF ApplySettlement
  <2>2. position' \in [Users -> UserPosition]
    BY <1>5, SettledTypes DEF ApplySettlement
  <2>3. market'.risk = market.risk /\ market'.exists = market.exists
    BY <2>1 DEF SettledMarket, MarketState
  <2>4. settled_fills' \in Nat
    BY <1>5, FrameFields DEF ApplySettlement
  <2>5. QED
    BY <1>5, <2>1, <2>2, <2>3, <2>4 DEF ApplySettlement, Exists
<1>6. ASSUME NEW risk \in RiskParams, UpdateRiskParams(risk)
      PROVE  TypeOK'
  <2>1. risk \in RiskRecord /\ risk.imbalance_threshold # 0
    BY <1>6, PartiesAssumption DEF UpdateRiskParams, ValidRisk
  <2>2. market' \in MarketState /\ market'.risk = risk
    BY <1>6, <2>1 DEF UpdateRiskParams, MarketState
  <2>3. QED
    BY <1>6, <2>1, <2>2 DEF UpdateRiskParams, Exists
<1>7. ASSUME NEW u \in Users, NEW amount \in Amounts, WithdrawCollateral(u, amount)
      PROVE  TypeOK'
  <2>1. amount \in Nat /\ u \in Parties
    BY PartiesAssumption DEF Parties
  <2>2. vault' \in Nat /\ wallet' \in [Parties -> Nat]
    BY <1>7, <2>1, TransferTypes DEF WithdrawCollateral
  <2>3. position' \in [Users -> UserPosition]
    BY <1>7, <2>1 DEF WithdrawCollateral, UserPosition
  <2>4. QED
    BY <1>7, <2>2, <2>3 DEF WithdrawCollateral, Exists
<1>8. ASSUME NEW p \in Parties, NEW amount \in Amounts, DepositMmCollateral(p, amount)
      PROVE  TypeOK'
  <2>1. amount \in Nat
    BY PartiesAssumption
  <2>2. vault' \in Nat /\ wallet' \in [Parties -> Nat]
    BY <1>8, <2>1, TransferTypes DEF DepositMmCollateral
  <2>3. /\ market' \in MarketState
        /\ market'.exists = market.exists
        /\ market'.risk = market.risk
    BY <1>8, <2>1 DEF DepositMmCollateral, MarketState
  <2>4. QED
    BY <1>8, <2>2, <2>3 DEF DepositMmCollateral, Exists
<1>9. ASSUME NEW outcome \in FinalOutcomes, ResolveMarket(outcome)
      PROVE  TypeOK'
  <2>1. /\ market' \in MarketState
        /\ market'.exists = market.exists
        /\ market'.risk = market.risk
    BY <1>9 DEF ResolveMarket, MarketState
  <2>2. QED
    BY <1>9, <2>1 DEF ResolveMarket, Exists
<1>10. ASSUME NEW u \in Users, ClaimWinnings(u)
       PROVE  TypeOK'
  <2>1. u \in Parties /\ UserPayout(u) \in Nat
    BY PayoutType DEF Parties, UserPayout, UserPosition
  <2>2. vault' \in Nat /\ wallet' \in [Parties -> Nat]
    BY <1>10, <2>1, TransferTypes DEF ClaimWinnings
  <2>3. position' \in [Users -> UserPosition]
    BY <1>10 DEF ClaimWinnings, Redeemed, UserPosition
  <2>4. QED
    BY <1>10, <2>2, <2>3 DEF ClaimWinnings, Exists
<1>11. ASSUME ClaimMmWinnings
       PROVE  TypeOK'
  <2>1. MM \in Parties /\ MmPayout \in Nat
    BY PayoutType DEF Parties, MmPayout, MarketState
  <2>2. vault' \in Nat /\ wallet' \in [Parties -> Nat]
    BY <1>11, <2>1, TransferTypes DEF ClaimMmWinnings
  <2>3. /\ market' \in MarketState
        /\ market'.exists = market.exists
        /\ market'.risk = market.risk
    BY <1>11 DEF ClaimMmWinnings, MmRedeemed, MarketState
  <2>4. QED
    BY <1>11, <2>2, <2>3 DEF ClaimMmWinnings, Exists
<1>12. ASSUME CloseMarket
       PROVE  TypeOK'
  <2>1. /\ market' \in MarketState
        /\ market'.exists = market.exists
        /\ market'.risk = market.risk
    BY <1>12 DEF CloseMarket, MarketState
  <2>2. QED
    BY <1>12, <2>1 DEF CloseMarket, Exists
<1>13. ASSUME NEW amount \in Amounts, WithdrawMmCollateral(amount)
       PROVE  TypeOK'
  <2>1. amount \in Nat /\ MM \in Parties
    BY PartiesAssumption DEF Parties
  <2>2. vault' \in Nat /\ wallet' \in [Parties -> Nat]
    BY <1>13, <2>1, TransferTypes DEF WithdrawMmCollateral
  <2>3. /\ market' \in MarketState
        /\ market'.exists = market.exists
        /\ market'.risk = market.risk
    BY <1>13, <2>1 DEF WithdrawMmCollateral, MarketState
  <2>4. QED
    BY <1>13, <2>2, <2>3 DEF WithdrawMmCollateral, Exists
<1>14. QED
  BY <1>1, <1>2, <1>3, <1>4, <1>5, <1>6, <1>7, <1>8, <1>9, <1>10, <1>11, <1>12, <1>13
     DEF Next, SubmitBatch, SubmitBatchTrusted

(* The initial state is well typed. *)
LEMMA TypeOKInit ==
  Init => TypeOK
<1>1. Init => AccountsFit
  BY SizesAssumption DEF Init, AccountsFit, NoMarket, NoPosition, FitsU64
<1> QED
  BY <1>1, PartiesAssumption
     DEF Init, TypeOK, NoMarket, NoPosition, MarketState, UserPosition, RiskRecord, Exists

(* No counter of the ledger ever goes below zero, nor beyond the u64 that   *)
(* stores it: the debit of every handler is covered by the check that it    *)
(* makes first, on the balance it debits, and every credit that can reach   *)
(* the limit is a checked addition.                                         *)
THEOREM TypeCorrect == Spec => []TypeOK
PROOF
<1>1. Init => TypeOK
  BY TypeOKInit
<1>2. TypeOK /\ [Next]_vars => TypeOK'
  BY TypeOKStep
<1>3. QED
  BY <1>1, <1>2, PTL DEF Spec

-----------------------------------------------------------------------------
(* The lifecycle of the accounts. *)

(* The lifecycle invariant is inductive together with the types. *)
LEMMA LifecycleStep ==
  TypeOK /\ LifecycleOK /\ [Next]_vars => LifecycleOK'
PROOF
<1> SUFFICES ASSUME TypeOK, LifecycleOK, [Next]_vars
             PROVE  LifecycleOK'
  OBVIOUS
<1> USE DEF LifecycleOK, Exists, IsClosed, IsTrading, Resolved
<1>1. CASE UNCHANGED vars
  BY <1>1 DEF vars
<1>2. ASSUME NEW risk \in RiskParams, NEW trusted \in BOOLEAN, InitializeMarket(risk, trusted)
      PROVE  LifecycleOK'
  BY <1>2 DEF InitializeMarket, NoMarket
<1>3. ASSUME NEW u \in Users, InitUserPosition(u)
      PROVE  LifecycleOK'
  BY <1>3 DEF InitUserPosition, NoPosition, TypeOK
<1>4. ASSUME NEW u \in Users, NEW amount \in Amounts,
             DepositCollateral(u, amount) \/ WithdrawCollateral(u, amount)
      PROVE  LifecycleOK'
  <2>1. \A v \in Users : /\ position'[v].exists = position[v].exists
                         /\ position[v].exists \/ position'[v] = position[v]
    BY <1>4 DEF DepositCollateral, WithdrawCollateral, TypeOK, UserPosition
  <2>2. market' = market
    BY <1>4 DEF DepositCollateral, WithdrawCollateral
  <2>3. QED
    BY <2>1, <2>2
<1>5. ASSUME NEW f \in Frames, ApplySettlement(f)
      PROVE  LifecycleOK'
  <2>1. \A v \in Users : /\ position'[v].exists = position[v].exists
                         /\ position[v].exists \/ position'[v] = position[v]
    BY <1>5 DEF ApplySettlement, ParticipantsCover, SettledPosition, TypeOK, UserPosition
  <2>2. /\ market'.exists = market.exists
        /\ market'.outcome = market.outcome
        /\ market'.status = market.status
    BY <1>5 DEF ApplySettlement, SettledMarket, TypeOK, MarketState
  <2>3. market.exists
    BY <1>5 DEF ApplySettlement
  <2>4. QED
    BY <2>1, <2>2, <2>3
<1>6. ASSUME NEW risk \in RiskParams, UpdateRiskParams(risk)
      PROVE  LifecycleOK'
  BY <1>6 DEF UpdateRiskParams, TypeOK, MarketState
<1>7. ASSUME NEW p \in Parties, NEW amount \in Amounts, DepositMmCollateral(p, amount)
      PROVE  LifecycleOK'
  BY <1>7 DEF DepositMmCollateral, TypeOK, MarketState
<1>8. ASSUME NEW amount \in Amounts, WithdrawMmCollateral(amount)
       PROVE  LifecycleOK'
  BY <1>8 DEF WithdrawMmCollateral, TypeOK, MarketState
<1>9. ASSUME NEW outcome \in FinalOutcomes, ResolveMarket(outcome)
      PROVE  LifecycleOK'
  BY <1>9 DEF ResolveMarket, Resolvable, TypeOK, MarketState
<1>10. ASSUME NEW u \in Users, ClaimWinnings(u)
      PROVE  LifecycleOK'
  <2>1. \A v \in Users : /\ position'[v].exists = position[v].exists
                         /\ position[v].exists \/ position'[v] = position[v]
    BY <1>10 DEF ClaimWinnings, Redeemed, TypeOK, UserPosition
  <2>2. market' = market
    BY <1>10 DEF ClaimWinnings
  <2>3. QED
    BY <2>1, <2>2
<1>11. ASSUME ClaimMmWinnings
       PROVE  LifecycleOK'
  BY <1>11 DEF ClaimMmWinnings, MmRedeemed, TypeOK, MarketState
<1>12. ASSUME CloseMarket
       PROVE  LifecycleOK'
  BY <1>12 DEF CloseMarket, TypeOK, MarketState
<1>13. QED
  BY <1>1, <1>2, <1>3, <1>4, <1>5, <1>6, <1>7, <1>8, <1>9, <1>10, <1>11, <1>12
     DEF Next, SubmitBatch, SubmitBatchTrusted

(* A resolved market is closed, and an account that is not initialized is   *)
(* empty.                                                                   *)
THEOREM LifecycleCorrect == Spec => []LifecycleOK
PROOF
<1>1. Init => TypeOK /\ LifecycleOK
  BY TypeOKInit DEF Init, LifecycleOK, NoMarket, NoPosition, Resolved, Exists
<1>2. TypeOK /\ LifecycleOK /\ [Next]_vars => (TypeOK /\ LifecycleOK)'
  BY TypeOKStep, LifecycleStep
<1>3. QED
  BY <1>1, <1>2, PTL DEF Spec

(* An outcome, once set, never changes, and nothing settles after it. *)
THEOREM OutcomeIsFinal == Spec => ResolutionIsFinal
PROOF
<1> DEFINE Final == Resolved => /\ market'.outcome = market.outcome
                                /\ market'.status = STATUS_CLOSED
                                /\ market'.last_epoch = market.last_epoch
<1>1. TypeOK /\ LifecycleOK /\ [Next]_vars => Final
  <2> SUFFICES ASSUME TypeOK, LifecycleOK, [Next]_vars, Resolved
               PROVE  /\ market'.outcome = market.outcome
                      /\ market'.status = STATUS_CLOSED
                      /\ market'.last_epoch = market.last_epoch
    OBVIOUS
  <2>1. /\ market \in MarketState
        /\ market.exists
        /\ market.status = STATUS_CLOSED
        /\ STATUS_CLOSED # STATUS_TRADING
    BY DEF TypeOK, LifecycleOK, IsClosed, STATUS_CLOSED, STATUS_TRADING
  <2>2. \/ market' = market
        \/ \E risk \in RiskParams : UpdateRiskParams(risk)
        \/ \E p \in Parties, amount \in Amounts : DepositMmCollateral(p, amount)
        \/ \E amount \in Amounts : WithdrawMmCollateral(amount)
        \/ ClaimMmWinnings
    BY <2>1 DEF Next, vars, InitializeMarket, InitUserPosition, DepositCollateral, SubmitBatch,
         SubmitBatchTrusted, ApplySettlement, WithdrawCollateral, ResolveMarket, Resolvable,
         ClaimWinnings, CloseMarket, Exists, IsTrading
  <2>3. QED
    BY <2>1, <2>2 DEF UpdateRiskParams, DepositMmCollateral, WithdrawMmCollateral,
         ClaimMmWinnings, MmRedeemed, MarketState
<1>2. TypeOK /\ LifecycleOK /\ [Next]_vars => [Final]_vars
  BY <1>1
<1>3. QED
  BY <1>2, TypeCorrect, LifecycleCorrect, PTL DEF Spec, ResolutionIsFinal

-----------------------------------------------------------------------------
(* The open interest. *)

(* The holdings as functions into the naturals. *)
LEMMA HoldingsType ==
  ASSUME TypeOK
  PROVE  /\ [u \in Users |-> position[u].yes_qty] \in [Users -> Nat]
         /\ [u \in Users |-> position[u].no_qty] \in [Users -> Nat]
         /\ [u \in Users |-> position[u].collateral] \in [Users -> Nat]
         /\ YesHeld \in Nat
         /\ NoHeld \in Nat
PROOF
<1>1. /\ [u \in Users |-> position[u].yes_qty] \in [Users -> Nat]
      /\ [u \in Users |-> position[u].no_qty] \in [Users -> Nat]
      /\ [u \in Users |-> position[u].collateral] \in [Users -> Nat]
  BY DEF TypeOK, UserPosition
<1>2. QED
  BY <1>1, PartiesAssumption, TotalType DEF YesHeld, NoHeld, UserTotal

(* The holdings add up to the same while no position changes its legs. *)
LEMMA HoldingsUnchanged ==
  ASSUME \A u \in Users : /\ position'[u].yes_qty = position[u].yes_qty
                          /\ position'[u].no_qty = position[u].no_qty
  PROVE  YesHeld' = YesHeld /\ NoHeld' = NoHeld
PROOF
<1>1. [u \in Users |-> position'[u].yes_qty] = [u \in Users |-> position[u].yes_qty]
  OBVIOUS
<1>2. [u \in Users |-> position'[u].no_qty] = [u \in Users |-> position[u].no_qty]
  OBVIOUS
<1>3. QED
  BY <1>1, <1>2 DEF YesHeld, NoHeld, UserTotal

(* A settlement adds to the holdings what it adds to the supply. *)
LEMMA SettledHoldings ==
  ASSUME TypeOK, NEW f \in Frames, ApplySettlement(f)
  PROVE  YesHeld' = YesHeld + AddYes(f) /\ NoHeld' = NoHeld + AddNo(f)
PROOF
<1> DEFINE yes == [u \in Users |-> position[u].yes_qty]
           no == [u \in Users |-> position[u].no_qty]
           yes_add == [u \in Users |-> YesAdd(f, u)]
           no_add == [u \in Users |-> NoAdd(f, u)]
           new_yes == [u \in Users |-> position'[u].yes_qty]
           new_no == [u \in Users |-> position'[u].no_qty]
<1>1. Exists
  BY DEF ApplySettlement, IsTrading, Exists
<1>2. /\ yes \in [Users -> Nat]
      /\ no \in [Users -> Nat]
      /\ yes_add \in [Users -> Nat]
      /\ no_add \in [Users -> Nat]
  BY <1>1, HoldingsType, FillAmounts
<1>3. \A u \in Users : /\ new_yes[u] = yes[u] + yes_add[u]
                       /\ new_no[u] = no[u] + no_add[u]
  <2> SUFFICES ASSUME NEW u \in Users
               PROVE  /\ position'[u].yes_qty = position[u].yes_qty + YesAdd(f, u)
                      /\ position'[u].no_qty = position[u].no_qty + NoAdd(f, u)
    OBVIOUS
  <2>1. position[u] \in UserPosition
    BY DEF TypeOK
  <2>2. CASE u \in f.users
    BY <2>1, <2>2 DEF ApplySettlement, SettledPosition, UserPosition
  <2>3. CASE u \notin f.users
    <3>1. f.fills[u] = NoFill
      BY <2>3, FramesAssumption
    <3>2. YesAdd(f, u) = 0 /\ NoAdd(f, u) = 0
      BY <3>1 DEF YesAdd, NoAdd, HeavyResidual, NoFill
    <3>3. position'[u] = position[u]
      BY <2>3 DEF ApplySettlement
    <3>4. QED
      BY <2>1, <3>2, <3>3 DEF UserPosition
  <2>4. QED
    BY <2>2, <2>3
<1>4. new_yes \in [Users -> Nat] /\ new_no \in [Users -> Nat]
  <2>1. \A u \in Users : new_yes[u] \in Nat /\ new_no[u] \in Nat
    BY <1>2, <1>3
  <2>2. QED
    BY <2>1
<1>5. /\ Total(Users, new_yes) = Total(Users, yes) + Total(Users, yes_add)
      /\ Total(Users, new_no) = Total(Users, no) + Total(Users, no_add)
  <2> HIDE DEF yes, no, yes_add, no_add, new_yes, new_no
  <2>1. QED
    BY <1>2, <1>3, <1>4, PartiesAssumption, TotalAdd
<1>6. QED
  BY <1>5 DEF YesHeld, NoHeld, AddYes, AddNo, UserTotal

(* The supply that a frame adds: the crossed volume on both sides, and the  *)
(* residual on the heavy side.                                              *)
LEMMA AddedSupply ==
  ASSUME NEW f \in Frames, EconomicsMatch(f)
  PROVE  /\ UserTotal(P2pYes(f)) \in Nat
         /\ UserTotal(P2pNo(f)) = UserTotal(P2pYes(f))
         /\ AddYes(f) = UserTotal(P2pYes(f)) + (IF IsYesHeavy(f) THEN f.net_imbalance ELSE 0)
         /\ AddNo(f) = UserTotal(P2pNo(f)) + (IF IsYesHeavy(f) THEN 0 ELSE f.net_imbalance)
PROOF
<1> DEFINE yes_add == [u \in Users |-> YesAdd(f, u)]
           no_add == [u \in Users |-> NoAdd(f, u)]
<1>1. /\ P2pYes(f) \in [Users -> Nat]
      /\ P2pNo(f) \in [Users -> Nat]
      /\ ResidualYes(f) \in [Users -> Nat]
      /\ ResidualNo(f) \in [Users -> Nat]
  BY FrameFields DEF P2pYes, P2pNo, ResidualYes, ResidualNo
<1>2. UserTotal(P2pYes(f)) \in Nat /\ UserTotal(P2pNo(f)) \in Nat
  BY <1>1, PartiesAssumption, TotalType DEF UserTotal
<1>3. UserTotal(P2pNo(f)) = UserTotal(P2pYes(f))
  BY FramesAssumption DEF CrossedInPairs
<1>4. CASE IsYesHeavy(f)
  <2>1. \A u \in Users : yes_add[u] = P2pYes(f)[u] + ResidualYes(f)[u]
    BY <1>4 DEF YesAdd, HeavyResidual, P2pYes, ResidualYes
  <2>2. yes_add \in [Users -> Nat]
    BY <1>1, <1>4, <2>1, FrameFields DEF YesAdd, HeavyResidual
  <2>3. UserTotal(yes_add) = UserTotal(P2pYes(f)) + UserTotal(ResidualYes(f))
    <3> HIDE DEF yes_add
    <3>1. QED
      BY <1>1, <2>1, <2>2, PartiesAssumption, TotalAdd DEF UserTotal
  <2>4. no_add = P2pNo(f)
    BY <1>4, FrameFields DEF NoAdd, P2pNo
  <2>5. QED
    BY <1>2, <1>3, <1>4, <2>3, <2>4 DEF AddYes, AddNo, EconomicsMatch, HeavySideMatchesHeader
<1>5. CASE ~IsYesHeavy(f)
  <2>1. \A u \in Users : no_add[u] = P2pNo(f)[u] + ResidualNo(f)[u]
    BY <1>5 DEF NoAdd, HeavyResidual, P2pNo, ResidualNo
  <2>2. no_add \in [Users -> Nat]
    BY <1>1, <1>5, <2>1, FrameFields DEF NoAdd, HeavyResidual
  <2>3. UserTotal(no_add) = UserTotal(P2pNo(f)) + UserTotal(ResidualNo(f))
    <3> HIDE DEF no_add
    <3>1. QED
      BY <1>1, <2>1, <2>2, PartiesAssumption, TotalAdd DEF UserTotal
  <2>4. yes_add = P2pYes(f)
    BY <1>5, FrameFields DEF YesAdd, P2pYes
  <2>5. QED
    BY <1>2, <1>3, <1>5, <2>3, <2>4 DEF AddYes, AddNo, EconomicsMatch, HeavySideMatchesHeader
<1>6. QED
  BY <1>4, <1>5

(* Only a settlement and the redemption of the market maker change the      *)
(* supply of the market account; InitializeMarket only resets an account    *)
(* that is still empty.                                                     *)
LEMMA OpenInterestStep ==
  TypeOK /\ LifecycleOK /\ OpenInterestBalanced /\ [Next]_vars => OpenInterestBalanced'
PROOF
<1> SUFFICES ASSUME TypeOK, LifecycleOK, OpenInterestBalanced, [Next]_vars
             PROVE  OpenInterestBalanced'
  OBVIOUS
<1> DEFINE SameHoldings == \A u \in Users : /\ position'[u].yes_qty = position[u].yes_qty
                                            /\ position'[u].no_qty = position[u].no_qty
           SameSupply == /\ market'.total_yes_supply = market.total_yes_supply
                         /\ market'.total_no_supply = market.total_no_supply
                         /\ market'.mm_yes = market.mm_yes
                         /\ market'.mm_no = market.mm_no
                         /\ market'.outcome = market.outcome \/ ~Resolved
<1>a. ASSUME SameHoldings, SameSupply
      PROVE  OpenInterestBalanced'
  <2>1. YesHeld' = YesHeld /\ NoHeld' = NoHeld
    BY <1>a, HoldingsUnchanged
  <2>2. QED
    BY <1>a, <2>1 DEF OpenInterestBalanced, Resolved
<1>1. CASE UNCHANGED vars
  BY <1>1, <1>a DEF vars
<1>2. ASSUME NEW risk \in RiskParams, NEW trusted \in BOOLEAN, InitializeMarket(risk, trusted)
      PROVE  OpenInterestBalanced'
  <2>1. market = NoMarket /\ SameHoldings
    BY <1>2 DEF InitializeMarket, LifecycleOK
  <2>2. SameSupply
    BY <1>2, <2>1 DEF InitializeMarket, NoMarket, Resolved
  <2>3. QED
    BY <1>a, <2>1, <2>2
<1>3. ASSUME NEW u \in Users, InitUserPosition(u)
      PROVE  OpenInterestBalanced'
  <2>1. SameHoldings
    BY <1>3 DEF InitUserPosition, LifecycleOK, NoPosition, TypeOK
  <2>2. QED
    BY <1>3, <1>a, <2>1 DEF InitUserPosition
<1>4. ASSUME NEW u \in Users, NEW amount \in Amounts,
             DepositCollateral(u, amount) \/ WithdrawCollateral(u, amount)
      PROVE  OpenInterestBalanced'
  <2>1. SameHoldings
    BY <1>4 DEF DepositCollateral, WithdrawCollateral, TypeOK, UserPosition
  <2>2. market' = market
    BY <1>4 DEF DepositCollateral, WithdrawCollateral
  <2>3. QED
    BY <1>a, <2>1, <2>2
<1>5. ASSUME NEW f \in Frames, ApplySettlement(f)
      PROVE  OpenInterestBalanced'
  <2>1. YesHeld' = YesHeld + AddYes(f) /\ NoHeld' = NoHeld + AddNo(f)
    BY <1>5, SettledHoldings
  <2>2. ~Resolved /\ EconomicsMatch(f)
    BY <1>5 DEF ApplySettlement, LifecycleOK, IsTrading, IsClosed, STATUS_TRADING, STATUS_CLOSED
  <2>3. /\ market'.total_yes_supply = market.total_yes_supply + AddYes(f)
        /\ market'.total_no_supply = market.total_no_supply + AddNo(f)
        /\ market'.mm_yes = market.mm_yes + (IF IsYesHeavy(f) THEN 0 ELSE f.net_imbalance)
        /\ market'.mm_no = market.mm_no + (IF IsYesHeavy(f) THEN f.net_imbalance ELSE 0)
    BY <1>5 DEF ApplySettlement, SettledMarket, TypeOK, MarketState
  <2>4. /\ YesHeld \in Nat /\ NoHeld \in Nat
        /\ market.mm_yes \in Nat /\ market.mm_no \in Nat
        /\ f.net_imbalance \in Nat
    BY HoldingsType, FrameFields DEF TypeOK, MarketState
  <2>5. /\ market.total_yes_supply = YesHeld
        /\ market.total_no_supply = NoHeld
        /\ YesHeld + market.mm_yes = NoHeld + market.mm_no
    BY <2>2 DEF OpenInterestBalanced
  <2>6. YesHeld' + market'.mm_yes = NoHeld' + market'.mm_no
    BY <2>1, <2>2, <2>3, <2>4, <2>5, AddedSupply
  <2>7. QED
    BY <2>1, <2>3, <2>5, <2>6 DEF OpenInterestBalanced
<1>6. ASSUME NEW risk \in RiskParams, UpdateRiskParams(risk)
      PROVE  OpenInterestBalanced'
  BY <1>6, <1>a DEF UpdateRiskParams, TypeOK, MarketState
<1>7. ASSUME NEW p \in Parties, NEW amount \in Amounts, DepositMmCollateral(p, amount)
      PROVE  OpenInterestBalanced'
  BY <1>7, <1>a DEF DepositMmCollateral, TypeOK, MarketState
<1>8. ASSUME NEW amount \in Amounts, WithdrawMmCollateral(amount)
      PROVE  OpenInterestBalanced'
  BY <1>8, <1>a DEF WithdrawMmCollateral, TypeOK, MarketState
<1>9. ASSUME NEW outcome \in FinalOutcomes, ResolveMarket(outcome)
      PROVE  OpenInterestBalanced'
  BY <1>9, <1>a DEF ResolveMarket, Resolvable, TypeOK, MarketState
<1>10. ASSUME (\E u \in Users : ClaimWinnings(u)) \/ ClaimMmWinnings
       PROVE  OpenInterestBalanced'
  <2>1. Resolved /\ market'.outcome = market.outcome
    BY <1>10 DEF ClaimWinnings, ClaimMmWinnings, MmRedeemed, TypeOK, MarketState
  <2>2. QED
    BY <2>1 DEF OpenInterestBalanced, Resolved
<1>11. ASSUME CloseMarket
       PROVE  OpenInterestBalanced'
  BY <1>11, <1>a DEF CloseMarket, TypeOK, MarketState
<1>12. QED
  BY <1>1, <1>2, <1>3, <1>4, <1>5, <1>6, <1>7, <1>8, <1>9, <1>10, <1>11
     DEF Next, SubmitBatch, SubmitBatchTrusted

(* Until the resolution every YES contract is matched by a NO contract, and *)
(* the market account's supply is the sum of the positions: whatever frames *)
(* are settled, as long as their Tier-1 volume is crossed in pairs.         *)
THEOREM OpenInterestStaysBalanced == Spec => []OpenInterestBalanced
PROOF
<1>1. Init => OpenInterestBalanced
  <2> SUFFICES ASSUME Init
               PROVE  OpenInterestBalanced
    OBVIOUS
  <2>1. YesHeld = 0 /\ NoHeld = 0
    BY TotalZero DEF Init, NoPosition, YesHeld, NoHeld, UserTotal
  <2>2. QED
    BY <2>1 DEF Init, NoMarket, OpenInterestBalanced
<1>2. TypeOK /\ LifecycleOK /\ OpenInterestBalanced /\ [Next]_vars => OpenInterestBalanced'
  BY OpenInterestStep
<1>3. QED
  BY <1>1, <1>2, TypeCorrect, LifecycleCorrect, PTL DEF Spec

-----------------------------------------------------------------------------
(***************************************************************************)
(* What backs the contracts: theorems about the tokens of the vault that    *)
(* no free balance accounts for.                                            *)
(*                                                                         *)
(* One settlement locks at most the open interest it creates, and at least *)
(* that minus the rounding of its fills (SettlementLocks).  Every other    *)
(* step leaves the locked tokens and the value of the contracts as they    *)
(* are, or lowers both by the same payout.                                 *)
(***************************************************************************)

-----------------------------------------------------------------------------
(* The cost of a batch. *)

(* Rounding down loses less than one divisor. *)
LEMMA RoundingBounds ==
  ASSUME NEW n \in Nat, NEW d \in Nat \ {0}
  PROVE  /\ n \div d \in Nat
         /\ d * (n \div d) <= n
         /\ n <= d * (n \div d) + (d - 1)
OBVIOUS

(* A collateral amount is within one base unit of its exact value. *)
LEMMA CollateralForBounds ==
  ASSUME NEW qty \in Nat, NEW price \in Nat
  PROVE  /\ SCALE_FACTOR * CollateralFor(qty, price) <= qty * price
         /\ qty * price <= SCALE_FACTOR * CollateralFor(qty, price) + (SCALE_FACTOR - 1)
PROOF
<1>1. qty * price \in Nat /\ SCALE_FACTOR \in Nat \ {0}
  BY PricesAssumption
<1>2. QED
  BY <1>1, RoundingBounds DEF CollateralFor

(* At the midpoint a collateral amount is half the contracts, rounded down. *)
LEMMA MidpointBounds ==
  ASSUME NEW qty \in Nat
  PROVE  /\ CollateralFor(qty, MIDPOINT_PRICE) \in Nat
         /\ 2 * CollateralFor(qty, MIDPOINT_PRICE) <= qty
         /\ qty <= 2 * CollateralFor(qty, MIDPOINT_PRICE) + 1
PROOF
<1> DEFINE c == CollateralFor(qty, MIDPOINT_PRICE)
           m == MIDPOINT_PRICE
<1>1. m \in Nat \ {0} /\ SCALE_FACTOR = 2 * m
  BY PricesAssumption
<1>2. c \in Nat
  BY <1>1, CollateralForType
<1>3. /\ SCALE_FACTOR * c <= qty * m
      /\ qty * m <= SCALE_FACTOR * c + (SCALE_FACTOR - 1)
  BY <1>1, CollateralForBounds
<1> HIDE DEF c, m
<1>4. 2 * c <= qty
  <2> SUFFICES ASSUME qty < 2 * c
               PROVE  FALSE
    BY <1>2
  <2>1. qty * m <= (2 * c - 1) * m
    BY <1>1, <1>2
  <2>2. (2 * c - 1) * m = (2 * m) * c - m
    BY <1>1, <1>2
  <2>3. QED
    BY <1>1, <1>2, <1>3, <2>1, <2>2
<1>5. qty <= 2 * c + 1
  <2> SUFFICES ASSUME qty >= 2 * c + 2
               PROVE  FALSE
    BY <1>2
  <2>1. qty * m >= (2 * c + 2) * m
    BY <1>1, <1>2
  <2>2. (2 * c + 2) * m = (2 * m) * c + 2 * m
    BY <1>1, <1>2
  <2>3. QED
    BY <1>1, <1>2, <1>3, <2>1, <2>2
<1>6. QED
  BY <1>2, <1>4, <1>5 DEF c

(* At the full price a collateral amount is the number of contracts. *)
LEMMA FullPrice ==
  ASSUME NEW qty \in Nat
  PROVE  CollateralFor(qty, SCALE_FACTOR) = qty
PROOF
<1>1. SCALE_FACTOR \in Nat \ {0}
  BY PricesAssumption
<1>2. \A d \in Nat \ {0} : (qty * d) \div d = qty
  OBVIOUS
<1>3. QED
  BY <1>1, <1>2 DEF CollateralFor

(* The contracts that a frame creates: a YES and a NO one each time. *)
Created(f) == UserTotal(P2pYes(f)) + f.net_imbalance

(* What a frame costs its participants. *)
Cost(f) == UserTotal([u \in Users |-> TotalCost(f, u)])

(* What a batch costs its participants and the market maker together is at  *)
(* most the contracts it creates, and below that by no more than the        *)
(* rounding: half a unit of Tier-1 cost and one of Tier-2 cost per fill.    *)
LEMMA SettlementLocks ==
  ASSUME TypeOK, NEW f \in Frames, ApplySettlement(f)
  PROVE  /\ Cost(f) \in Nat
         /\ Created(f) \in Nat
         /\ Cost(f) + MmObligation(f) <= Created(f)
         /\ 2 * (Created(f) - (Cost(f) + MmObligation(f))) <= 3 * Cardinality(f.users)
PROOF
<1> DEFINE S == SCALE_FACTOR
           hp == HeavyPrice(f)
           N == f.net_imbalance
           mo == MmObligation(f)
           k == Cardinality(f.users)
           P == UserTotal(P2pYes(f))
           ind == [u \in Users |-> IF u \in f.users THEN 1 ELSE 0]
           p2p == [u \in Users |-> f.fills[u].p2p_yes + f.fills[u].p2p_no]
           res == [u \in Users |-> HeavyResidual(f, u)]
           t1 == [u \in Users |-> CollateralFor(p2p[u], MIDPOINT_PRICE)]
           t2 == [u \in Users |-> CollateralFor(res[u], hp)]
           cost == [u \in Users |-> TotalCost(f, u)]
<1>1. Exists /\ EconomicsMatch(f)
  BY DEF ApplySettlement, IsTrading, Exists
<1>2. S \in Nat \ {0} /\ hp \in Nat /\ S - hp \in Nat /\ mo \in Nat /\ N \in Nat /\ k \in Nat
  BY <1>1, PricesAssumption, HeavyPriceBounds, MmObligationType, FrameFields
<1>3. IsFiniteSet(Users)
  BY PartiesAssumption
<1>4. /\ ind \in [Users -> Nat] /\ p2p \in [Users -> Nat] /\ res \in [Users -> Nat]
      /\ cost \in [Users -> Nat]
  BY <1>1, FrameFields, FillAmounts
<1>5. t1 \in [Users -> Nat]
  BY <1>4, MidpointBounds
<1>6. t2 \in [Users -> Nat]
  BY <1>2, <1>4, CollateralForType
<1>7. \A u \in Users : cost[u] = t1[u] + t2[u]
  BY DEF TotalCost
<1>8. \A u \in Users : u \notin f.users => p2p[u] = 0 /\ res[u] = 0
  BY FramesAssumption DEF NoFill, HeavyResidual
<1>9. /\ P \in Nat
      /\ Total(Users, p2p) = P + P
  <2>1. P2pYes(f) \in [Users -> Nat] /\ P2pNo(f) \in [Users -> Nat]
    BY FrameFields DEF P2pYes, P2pNo
  <2>2. \A u \in Users : p2p[u] = P2pYes(f)[u] + P2pNo(f)[u]
    BY DEF P2pYes, P2pNo
  <2>3. Total(Users, p2p) = UserTotal(P2pYes(f)) + UserTotal(P2pNo(f))
    <3> HIDE DEF p2p
    <3>1. QED
      BY <1>3, <1>4, <2>1, <2>2, TotalAdd DEF UserTotal
  <2>4. QED
    BY <1>1, <2>3, AddedSupply
<1>10. Total(Users, res) = N
  <2>1. res = IF IsYesHeavy(f) THEN ResidualYes(f) ELSE ResidualNo(f)
    BY DEF HeavyResidual, ResidualYes, ResidualNo
  <2>2. QED
    BY <1>1, <2>1 DEF EconomicsMatch, HeavySideMatchesHeader, UserTotal
<1>11. Total(Users, ind) = k
  BY <1>3, FrameFields, TotalIndicator
<1>12. \A u \in Users : /\ 2 * t1[u] <= 1 * p2p[u] + 0 * ind[u]
                        /\ 1 * p2p[u] <= 2 * t1[u] + 1 * ind[u]
  <2> SUFFICES ASSUME NEW u \in Users
               PROVE  /\ 2 * t1[u] <= p2p[u]
                      /\ p2p[u] <= 2 * t1[u] + ind[u]
    BY <1>4, <1>5
  <2>1. /\ p2p[u] \in Nat /\ t1[u] \in Nat /\ t1[u] = CollateralFor(p2p[u], MIDPOINT_PRICE)
        /\ ind[u] = IF u \in f.users THEN 1 ELSE 0
    BY <1>4, <1>5
  <2>2. u \notin f.users => p2p[u] = 0
    BY <1>8
  <2> HIDE DEF p2p, t1, ind
  <2>3. 2 * t1[u] <= p2p[u] /\ p2p[u] <= 2 * t1[u] + 1
    BY <2>1, MidpointBounds
  <2>4. QED
    BY <2>1, <2>2, <2>3
<1>13. \A u \in Users : /\ S * t2[u] <= hp * res[u] + 0 * ind[u]
                        /\ hp * res[u] <= S * t2[u] + (S - 1) * ind[u]
  <2> SUFFICES ASSUME NEW u \in Users
               PROVE  /\ S * t2[u] <= hp * res[u] + 0 * ind[u]
                      /\ hp * res[u] <= S * t2[u] + (S - 1) * ind[u]
    OBVIOUS
  <2>1. /\ res[u] \in Nat /\ t2[u] \in Nat /\ t2[u] = CollateralFor(res[u], hp)
        /\ ind[u] = IF u \in f.users THEN 1 ELSE 0
    BY <1>4, <1>6
  <2>2. u \notin f.users => res[u] = 0
    BY <1>8
  <2> HIDE DEF res, t2, ind, hp
  <2>3. S * t2[u] <= res[u] * hp /\ res[u] * hp <= S * t2[u] + (S - 1)
    BY <1>2, <2>1, CollateralForBounds
  <2> HIDE DEF S
  <2>4. CASE u \in f.users
    BY <1>2, <2>1, <2>3, <2>4
  <2>5. CASE u \notin f.users
    <3>1. res[u] * hp = 0 /\ hp * res[u] = 0 /\ ind[u] = 0
      BY <1>2, <2>1, <2>2, <2>5
    <3>2. S * t2[u] >= 0
      BY <1>2, <2>1
    <3>3. QED
      BY <1>2, <2>1, <2>3, <3>1, <3>2
  <2>6. QED
    BY <2>4, <2>5
<1>14. S * mo <= N * (S - hp) /\ N * (S - hp) <= S * mo + (S - 1)
  BY <1>2, CollateralForBounds DEF MmObligation
<1> DEFINE T1 == Total(Users, t1)
           T2 == Total(Users, t2)
<1>15. Cost(f) = T1 + T2
  <2>1. Total(Users, cost) = Total(Users, t1) + Total(Users, t2)
    <3> HIDE DEF cost, t1, t2
    <3>1. QED
      BY <1>3, <1>4, <1>5, <1>6, <1>7, TotalAdd
  <2>2. QED
    BY <2>1 DEF Cost, UserTotal
<1>16. T1 \in Nat /\ T2 \in Nat
  BY <1>3, <1>5, <1>6, TotalType
<1> HIDE DEF S, hp, N, mo, k, P, ind, p2p, res, t1, t2
<1>17. 2 * T1 <= P + P /\ P + P <= 2 * T1 + k
  <2>1. 2 * T1 <= 1 * Total(Users, p2p) + 0 * Total(Users, ind)
    BY <1>3, <1>4, <1>5, <1>12, TotalCompare
  <2>2. 1 * Total(Users, p2p) <= 2 * T1 + 1 * Total(Users, ind)
    BY <1>3, <1>4, <1>5, <1>12, TotalCompare
  <2> HIDE DEF T1
  <2>3. QED
    BY <1>2, <1>9, <1>11, <1>16, <2>1, <2>2
<1>18. S * T2 <= hp * N /\ hp * N <= S * T2 + (S - 1) * k
  <2>1. S - 1 \in Nat
    BY <1>2
  <2>2. S * T2 <= hp * Total(Users, res) + 0 * Total(Users, ind)
    BY <1>2, <1>3, <1>4, <1>6, <1>13, TotalCompare
  <2>3. hp * Total(Users, res) <= S * T2 + (S - 1) * Total(Users, ind)
    BY <1>2, <1>3, <1>4, <1>6, <1>13, <2>1, TotalCompare
  <2> HIDE DEF T2
  <2>4. QED
    BY <1>2, <1>10, <1>11, <1>16, <2>2, <2>3
<1> HIDE DEF T1, T2
<1>19. S * (T2 + mo) <= S * N /\ S * N <= S * (T2 + mo) + (S - 1) * (k + 1)
  <2>1. hp * N + N * (S - hp) = S * N
    BY <1>2
  <2>2. S * (T2 + mo) = S * T2 + S * mo
    BY <1>2, <1>16
  <2>3. (S - 1) * (k + 1) = (S - 1) * k + (S - 1)
    BY <1>2
  <2>4. QED
    BY <1>2, <1>14, <1>16, <1>18, <2>1, <2>2, <2>3
<1>20. T2 + mo <= N
  <2> SUFFICES ASSUME T2 + mo >= N + 1
               PROVE  FALSE
    BY <1>2, <1>16
  <2>1. S * (T2 + mo) >= S * (N + 1)
    BY <1>2, <1>16
  <2>2. S * (N + 1) = S * N + S
    BY <1>2
  <2>3. QED
    BY <1>2, <1>16, <1>19, <2>1, <2>2
<1>21. N <= T2 + mo + k
  <2> SUFFICES ASSUME N >= T2 + mo + k + 1
               PROVE  FALSE
    BY <1>2, <1>16
  <2>1. S * N >= S * (T2 + mo + (k + 1))
    BY <1>2, <1>16
  <2>2. S * (T2 + mo + (k + 1)) = S * (T2 + mo) + (S - 1) * (k + 1) + (k + 1)
    BY <1>2, <1>16
  <2>3. QED
    BY <1>2, <1>16, <1>19, <2>1, <2>2
<1>22. Created(f) = P + N
  BY DEF Created, P, N
<1>23. /\ Cost(f) \in Nat
       /\ Created(f) \in Nat
       /\ Cost(f) + mo <= Created(f)
       /\ 2 * (Created(f) - (Cost(f) + mo)) <= 3 * k
  BY <1>2, <1>9, <1>15, <1>16, <1>17, <1>20, <1>21, <1>22
<1>24. QED
  BY <1>23 DEF mo, k

-----------------------------------------------------------------------------
(* How each step moves the ledger. *)

(* The value of the contracts is a natural number. *)
LEMMA LedgerTypes ==
  ASSUME TypeOK
  PROVE  /\ OpenInterest \in Nat
         /\ Locked \in Int
         /\ FreeCollateral \in Nat
         /\ \A o \in FinalOutcomes : Owed(o) \in Nat
PROOF
<1>1. /\ YesHeld \in Nat
      /\ UserTotal([u \in Users |-> position[u].collateral]) \in Nat
  BY HoldingsType, PartiesAssumption, TotalType DEF UserTotal
<1>2. ASSUME NEW o \in FinalOutcomes
      PROVE  Owed(o) \in Nat
  <2> DEFINE payouts == [u \in Users |-> Payout(o, position[u].yes_qty, position[u].no_qty)]
  <2>1. \A u \in Users : position[u].yes_qty \in Nat /\ position[u].no_qty \in Nat
    BY DEF TypeOK, UserPosition
  <2>2. payouts \in [Users -> Nat]
    BY <2>1, PayoutType
  <2>3. Total(Users, payouts) \in Nat
    <3> HIDE DEF payouts
    <3>1. QED
      BY <2>2, PartiesAssumption, TotalType
  <2>4. Payout(o, market.mm_yes, market.mm_no) \in Nat
    BY PayoutType DEF TypeOK, MarketState
  <2>5. QED
    BY <2>3, <2>4 DEF Owed, UserTotal
<1>3. QED
  BY <1>1, <1>2 DEF OpenInterest, Locked, FreeCollateral, TypeOK, MarketState

(* The legs of every position and of the market maker are what they were. *)
SameLegs ==
  /\ \A u \in Users : /\ position'[u].yes_qty = position[u].yes_qty
                      /\ position'[u].no_qty = position[u].no_qty
  /\ market'.mm_yes = market.mm_yes
  /\ market'.mm_no = market.mm_no

(* While the legs stay, so does the value of the contracts. *)
LEMMA ValueUnchanged ==
  ASSUME SameLegs
  PROVE  /\ OpenInterest' = OpenInterest
         /\ NoHeld' = NoHeld
         /\ \A o \in FinalOutcomes : Owed(o)' = Owed(o)
PROOF
<1>1. YesHeld' = YesHeld /\ NoHeld' = NoHeld
  BY HoldingsUnchanged DEF SameLegs
<1>2. ASSUME NEW o \in FinalOutcomes
      PROVE  Owed(o)' = Owed(o)
  <2>1. [u \in Users |-> Payout(o, position'[u].yes_qty, position'[u].no_qty)]
          = [u \in Users |-> Payout(o, position[u].yes_qty, position[u].no_qty)]
    BY DEF SameLegs
  <2>2. Payout(o, market'.mm_yes, market'.mm_no) = Payout(o, market.mm_yes, market.mm_no)
    BY DEF SameLegs
  <2>3. QED
    BY <2>1, <2>2 DEF Owed, UserTotal, Payout
<1>3. QED
  BY <1>1, <1>2 DEF OpenInterest, SameLegs

(* While no collateral moves, the tokens it claims are the same. *)
LEMMA CollateralUnchanged ==
  ASSUME \A u \in Users : position'[u].collateral = position[u].collateral
  PROVE  UserTotal([u \in Users |-> position[u].collateral])'
           = UserTotal([u \in Users |-> position[u].collateral])
PROOF
<1>1. [u \in Users |-> position'[u].collateral] = [u \in Users |-> position[u].collateral]
  OBVIOUS
<1>2. QED
  BY <1>1 DEF UserTotal

(* One user's collateral and the vault change by the same amount. *)
LEMMA CollateralMoves ==
  ASSUME TypeOK, TypeOK', NEW u \in Users, NEW d \in Int,
         \A v \in Users \ {u} : position'[v].collateral = position[v].collateral,
         position'[u].collateral = position[u].collateral + d
  PROVE  UserTotal([v \in Users |-> position[v].collateral])'
           = UserTotal([v \in Users |-> position[v].collateral]) + d
PROOF
<1> DEFINE old == [v \in Users |-> position[v].collateral]
           new == [v \in Users |-> position'[v].collateral]
<1>1. old \in [Users -> Nat] /\ new \in [Users -> Nat]
  BY DEF TypeOK, UserPosition
<1>2. /\ \A v \in Users \ {u} : new[v] = old[v]
      /\ new[u] = old[u] + d
  OBVIOUS
<1>3. Total(Users, old) \in Nat /\ Total(Users, new) \in Nat
  <2> HIDE DEF old, new
  <2>1. QED
    BY <1>1, PartiesAssumption, TotalType
<1>4. Total(Users, new) + old[u] = Total(Users, old) + new[u]
  <2> HIDE DEF old, new
  <2>1. QED
    BY <1>1, <1>2, PartiesAssumption, TotalUpdate
<1>5. old[u] \in Nat /\ new[u] \in Nat
  BY <1>1
<1>6. Total(Users, new) = Total(Users, old) + d
  <2> HIDE DEF old, new
  <2>1. QED
    BY <1>2, <1>3, <1>4, <1>5
<1>7. QED
  BY <1>6 DEF UserTotal

(* Neither the locked tokens nor the value of the contracts change. *)
Steady ==
  /\ SameLegs
  /\ Locked' = Locked
  /\ settled_fills' = settled_fills

(* A step is steady, except a settlement and a claim. *)
LEMMA SteadyStep ==
  ASSUME TypeOK, TypeOK', LifecycleOK, [Next]_vars
  PROVE  \/ Steady /\ market'.outcome = market.outcome
         \/ Steady /\ \E outcome \in FinalOutcomes : ResolveMarket(outcome)
         \/ \E f \in Frames : ApplySettlement(f)
         \/ \E u \in Users : ClaimWinnings(u)
         \/ ClaimMmWinnings
PROOF
<1> DEFINE Goal == \/ Steady /\ market'.outcome = market.outcome
                   \/ Steady /\ \E outcome \in FinalOutcomes : ResolveMarket(outcome)
                   \/ \E f \in Frames : ApplySettlement(f)
                   \/ \E u \in Users : ClaimWinnings(u)
                   \/ ClaimMmWinnings
<1>0. /\ market \in MarketState /\ position \in [Users -> UserPosition]
      /\ vault \in Nat /\ wallet \in [Parties -> Nat]
      /\ UserTotal([u \in Users |-> position[u].collateral]) \in Nat
  BY HoldingsType, PartiesAssumption, TotalType DEF TypeOK, UserTotal
<1>1. CASE UNCHANGED vars
  <2>1. \A u \in Users : position'[u] = position[u]
    BY <1>1 DEF vars
  <2>2. FreeCollateral' = FreeCollateral
    BY <1>1, <2>1, CollateralUnchanged DEF vars, FreeCollateral
  <2>3. QED
    BY <1>1, <2>1, <2>2 DEF vars, Steady, SameLegs, Locked
<1>2. ASSUME NEW risk \in RiskParams, NEW trusted \in BOOLEAN, InitializeMarket(risk, trusted)
      PROVE  Goal
  <2>1. market = NoMarket /\ position' = position
    BY <1>2 DEF InitializeMarket, LifecycleOK
  <2>2. /\ market'.mm_yes = market.mm_yes
        /\ market'.mm_no = market.mm_no
        /\ market'.mm_collateral = market.mm_collateral
        /\ market'.outcome = market.outcome
    BY <1>2, <2>1 DEF InitializeMarket, NoMarket
  <2>3. FreeCollateral' = FreeCollateral
    BY <2>1, <2>2, CollateralUnchanged DEF FreeCollateral
  <2>4. QED
    BY <1>2, <2>1, <2>2, <2>3 DEF InitializeMarket, Steady, SameLegs, Locked
<1>3. ASSUME NEW u \in Users, InitUserPosition(u)
      PROVE  Goal
  <2>1. \A v \in Users : /\ position'[v].yes_qty = position[v].yes_qty
                         /\ position'[v].no_qty = position[v].no_qty
                         /\ position'[v].collateral = position[v].collateral
    BY <1>0, <1>3 DEF InitUserPosition, LifecycleOK, NoPosition
  <2>2. FreeCollateral' = FreeCollateral
    BY <1>3, <2>1, CollateralUnchanged DEF InitUserPosition, FreeCollateral
  <2>3. QED
    BY <1>3, <2>1, <2>2 DEF InitUserPosition, Steady, SameLegs, Locked
<1>4. ASSUME NEW u \in Users, NEW amount \in Amounts, DepositCollateral(u, amount)
      PROVE  Goal
  <2>1. amount \in Nat
    BY PartiesAssumption
  <2>2. /\ \A v \in Users : /\ position'[v].yes_qty = position[v].yes_qty
                            /\ position'[v].no_qty = position[v].no_qty
        /\ \A v \in Users \ {u} : position'[v].collateral = position[v].collateral
        /\ position'[u].collateral = position[u].collateral + amount
    BY <1>0, <1>4 DEF DepositCollateral, UserPosition
  <2>3. FreeCollateral' = FreeCollateral + amount
    <3>1. UserTotal([v \in Users |-> position[v].collateral])'
            = UserTotal([v \in Users |-> position[v].collateral]) + amount
      BY <2>1, <2>2, CollateralMoves
    <3>2. QED
      BY <1>0, <1>4, <2>1, <3>1 DEF DepositCollateral, FreeCollateral, MarketState
  <2>4. vault' = vault + amount
    BY <1>4 DEF DepositCollateral, TransferIn
  <2>5. Locked' = Locked
    BY <1>0, <2>1, <2>3, <2>4, LedgerTypes DEF Locked
  <2>6. QED
    BY <1>4, <2>2, <2>5 DEF DepositCollateral, Steady, SameLegs
<1>5. ASSUME NEW risk \in RiskParams, UpdateRiskParams(risk)
      PROVE  Goal
  <2>1. /\ market'.mm_yes = market.mm_yes
        /\ market'.mm_no = market.mm_no
        /\ market'.mm_collateral = market.mm_collateral
        /\ market'.outcome = market.outcome
    BY <1>0, <1>5 DEF UpdateRiskParams, MarketState
  <2>2. FreeCollateral' = FreeCollateral
    BY <1>5, <2>1, CollateralUnchanged DEF UpdateRiskParams, FreeCollateral
  <2>3. QED
    BY <1>5, <2>1, <2>2 DEF UpdateRiskParams, Steady, SameLegs, Locked
<1>6. ASSUME NEW u \in Users, NEW amount \in Amounts, WithdrawCollateral(u, amount)
      PROVE  Goal
  <2>1. amount \in Nat /\ -amount \in Int
    BY PartiesAssumption
  <2>2. /\ \A v \in Users : /\ position'[v].yes_qty = position[v].yes_qty
                            /\ position'[v].no_qty = position[v].no_qty
        /\ \A v \in Users \ {u} : position'[v].collateral = position[v].collateral
        /\ position'[u].collateral = position[u].collateral + (-amount)
    BY <1>0, <1>6, <2>1 DEF WithdrawCollateral, UserPosition
  <2>3. FreeCollateral' = FreeCollateral - amount
    <3>1. UserTotal([v \in Users |-> position[v].collateral])'
            = UserTotal([v \in Users |-> position[v].collateral]) + (-amount)
      BY <2>1, <2>2, CollateralMoves
    <3>2. QED
      BY <1>0, <1>6, <2>1, <3>1 DEF WithdrawCollateral, FreeCollateral, MarketState
  <2>4. vault' = vault - amount
    BY <1>6 DEF WithdrawCollateral, TransferOut
  <2>5. Locked' = Locked
    BY <1>0, <2>1, <2>3, <2>4, LedgerTypes DEF Locked
  <2>6. QED
    BY <1>6, <2>2, <2>5 DEF WithdrawCollateral, Steady, SameLegs
<1>7. ASSUME NEW p \in Parties, NEW amount \in Amounts, DepositMmCollateral(p, amount)
      PROVE  Goal
  <2>1. amount \in Nat
    BY PartiesAssumption
  <2>2. /\ market'.mm_yes = market.mm_yes
        /\ market'.mm_no = market.mm_no
        /\ market'.mm_collateral = market.mm_collateral + amount
        /\ market'.outcome = market.outcome
        /\ vault' = vault + amount
    BY <1>0, <1>7 DEF DepositMmCollateral, MarketState, TransferIn
  <2>3. FreeCollateral' = FreeCollateral + amount
    BY <1>0, <1>7, <2>1, <2>2, CollateralUnchanged DEF DepositMmCollateral, FreeCollateral, MarketState
  <2>4. Locked' = Locked
    BY <1>0, <2>1, <2>2, <2>3, LedgerTypes DEF Locked
  <2>5. QED
    BY <1>7, <2>2, <2>4 DEF DepositMmCollateral, Steady, SameLegs
<1>8. ASSUME NEW amount \in Amounts, WithdrawMmCollateral(amount)
      PROVE  Goal
  <2>1. amount \in Nat
    BY PartiesAssumption
  <2>2. /\ market'.mm_yes = market.mm_yes
        /\ market'.mm_no = market.mm_no
        /\ market'.mm_collateral = market.mm_collateral - amount
        /\ market'.outcome = market.outcome
        /\ vault' = vault - amount
    BY <1>0, <1>8 DEF WithdrawMmCollateral, MarketState, TransferOut
  <2>3. FreeCollateral' = FreeCollateral - amount
    BY <1>0, <1>8, <2>1, <2>2, CollateralUnchanged DEF WithdrawMmCollateral, FreeCollateral, MarketState
  <2>4. Locked' = Locked
    BY <1>0, <2>1, <2>2, <2>3, LedgerTypes DEF Locked
  <2>5. QED
    BY <1>8, <2>2, <2>4 DEF WithdrawMmCollateral, Steady, SameLegs
<1>9. ASSUME NEW outcome \in FinalOutcomes, ResolveMarket(outcome)
      PROVE  Goal
  <2>1. /\ market'.mm_yes = market.mm_yes
        /\ market'.mm_no = market.mm_no
        /\ market'.mm_collateral = market.mm_collateral
    BY <1>0, <1>9 DEF ResolveMarket, MarketState
  <2>2. FreeCollateral' = FreeCollateral
    BY <1>9, <2>1, CollateralUnchanged DEF ResolveMarket, FreeCollateral
  <2>3. QED
    BY <1>9, <2>1, <2>2 DEF ResolveMarket, Steady, SameLegs, Locked
<1>10. ASSUME CloseMarket
       PROVE  Goal
  <2>1. /\ market'.mm_yes = market.mm_yes
        /\ market'.mm_no = market.mm_no
        /\ market'.mm_collateral = market.mm_collateral
        /\ market'.outcome = market.outcome
    BY <1>0, <1>10 DEF CloseMarket, MarketState
  <2>2. FreeCollateral' = FreeCollateral
    BY <1>10, <2>1, CollateralUnchanged DEF CloseMarket, FreeCollateral
  <2>3. QED
    BY <1>10, <2>1, <2>2 DEF CloseMarket, Steady, SameLegs, Locked
<1>11. QED
  BY <1>1, <1>2, <1>3, <1>4, <1>5, <1>6, <1>7, <1>8, <1>9, <1>10
     DEF Next, SubmitBatch, SubmitBatchTrusted

(* A settlement locks what its participants and the market maker pay, and   *)
(* creates open interest.                                                   *)
LEMMA SettlementStep ==
  ASSUME TypeOK, TypeOK', NEW f \in Frames, ApplySettlement(f)
  PROVE  /\ Locked' = Locked + (Cost(f) + MmObligation(f))
         /\ OpenInterest' = OpenInterest + Created(f)
         /\ settled_fills' = settled_fills + Cardinality(f.users)
         /\ market'.outcome = market.outcome
PROOF
<1> DEFINE old == [u \in Users |-> position[u].collateral]
           new == [u \in Users |-> position'[u].collateral]
           cost == [u \in Users |-> TotalCost(f, u)]
<1>1. Exists /\ EconomicsMatch(f)
  BY DEF ApplySettlement, IsTrading, Exists
<1>2. old \in [Users -> Nat] /\ new \in [Users -> Nat] /\ cost \in [Users -> Nat]
  BY <1>1, FillAmounts DEF TypeOK, UserPosition
<1>3. \A u \in Users : old[u] = new[u] + cost[u]
  <2> SUFFICES ASSUME NEW u \in Users
               PROVE  position[u].collateral = position'[u].collateral + TotalCost(f, u)
    OBVIOUS
  <2>1. /\ position[u] \in UserPosition
        /\ position[u].collateral \in Nat
        /\ TotalCost(f, u) \in Nat
    BY <1>1, FillAmounts DEF TypeOK, UserPosition
  <2>2. CASE u \in f.users
    <3>1. position'[u].collateral = position[u].collateral - TotalCost(f, u)
      BY <2>1, <2>2 DEF ApplySettlement, SettledPosition, UserPosition
    <3>2. QED
      BY <2>1, <3>1
  <2>3. CASE u \notin f.users
    <3>1. f.fills[u] = NoFill
      BY <2>3, FramesAssumption
    <3>2. TotalCost(f, u) = CollateralFor(0, MIDPOINT_PRICE) + CollateralFor(0, HeavyPrice(f))
      BY <3>1 DEF TotalCost, HeavyResidual, NoFill
    <3>3. \A price \in Nat : CollateralFor(0, price) = 0
      <4>1. SCALE_FACTOR \in Nat \ {0}
        BY PricesAssumption
      <4>2. QED
        BY <4>1 DEF CollateralFor
    <3>4. TotalCost(f, u) = 0
      BY <1>1, <3>2, <3>3, HeavyPriceBounds, PricesAssumption
    <3>5. position'[u] = position[u]
      BY <2>3 DEF ApplySettlement
    <3>6. QED
      BY <2>1, <3>4, <3>5
  <2>4. QED
    BY <2>2, <2>3
<1>4. Total(Users, old) = Total(Users, new) + Total(Users, cost)
  <2> HIDE DEF old, new, cost
  <2>1. QED
    BY <1>2, <1>3, PartiesAssumption, TotalAdd
<1>5. Total(Users, old) \in Nat /\ Total(Users, new) \in Nat /\ Total(Users, cost) \in Nat
  <2> HIDE DEF old, new, cost
  <2>1. QED
    BY <1>2, PartiesAssumption, TotalType
<1>6. /\ market'.mm_collateral = market.mm_collateral - MmObligation(f)
      /\ market'.mm_yes = market.mm_yes + (IF IsYesHeavy(f) THEN 0 ELSE f.net_imbalance)
      /\ market'.outcome = market.outcome
  BY DEF ApplySettlement, SettledMarket, TypeOK, MarketState
<1>7. /\ market.mm_collateral \in Nat
      /\ market.mm_yes \in Nat
      /\ f.net_imbalance \in Nat
      /\ MmObligation(f) \in Nat
      /\ YesHeld \in Nat
      /\ vault \in Nat /\ vault' = vault
  BY <1>1, MmObligationType, HoldingsType, FrameFields DEF TypeOK, MarketState, ApplySettlement
<1>8. Locked' = Locked + (Cost(f) + MmObligation(f))
  <2>1. /\ FreeCollateral = Total(Users, old) + market.mm_collateral
        /\ FreeCollateral' = Total(Users, new) + market'.mm_collateral
        /\ Cost(f) = Total(Users, cost)
    BY DEF FreeCollateral, Cost, UserTotal
  <2> HIDE DEF old, new, cost
  <2>2. FreeCollateral' = FreeCollateral - (Cost(f) + MmObligation(f))
    BY <1>4, <1>5, <1>6, <1>7, <2>1
  <2>3. FreeCollateral \in Int /\ Cost(f) + MmObligation(f) \in Int
    BY <1>5, <1>7, <2>1
  <2>4. QED
    BY <1>7, <2>2, <2>3 DEF Locked
<1>9. OpenInterest' = OpenInterest + Created(f)
  <2>1. YesHeld' = YesHeld + AddYes(f)
    BY SettledHoldings
  <2>2. /\ AddYes(f) = UserTotal(P2pYes(f)) + (IF IsYesHeavy(f) THEN f.net_imbalance ELSE 0)
        /\ UserTotal(P2pYes(f)) \in Nat
    BY <1>1, AddedSupply
  <2>3. QED
    BY <1>6, <1>7, <2>1, <2>2 DEF OpenInterest, Created
<1>10. QED
  BY <1>6, <1>8, <1>9 DEF ApplySettlement

(* Zero contracts are worth nothing. *)
LEMMA PayoutZero ==
  ASSUME NEW outcome
  PROVE  Payout(outcome, 0, 0) = 0
PROOF
<1>1. SCALE_FACTOR \in Nat \ {0} /\ MIDPOINT_PRICE \in Nat
  BY PricesAssumption
<1>2. CollateralFor(0, SCALE_FACTOR) = 0 /\ CollateralFor(0, MIDPOINT_PRICE) = 0
  BY <1>1 DEF CollateralFor
<1>3. QED
  BY <1>2 DEF Payout

(* A claim takes from the locked tokens what it takes from the value of the *)
(* contracts.                                                               *)
LEMMA ClaimStep ==
  ASSUME TypeOK, TypeOK', NEW u \in Users, ClaimWinnings(u)
  PROVE  /\ UserPayout(u) \in Nat
         /\ Locked' = Locked - UserPayout(u)
         /\ Owed(market.outcome)' = Owed(market.outcome) - UserPayout(u)
         /\ OpenInterest' <= OpenInterest
         /\ NoHeld' <= NoHeld
         /\ market' = market
         /\ settled_fills' = settled_fills
PROOF
<1> DEFINE o == market.outcome
           old == [v \in Users |-> Payout(o, position[v].yes_qty, position[v].no_qty)]
           new == [v \in Users |-> Payout(o, position'[v].yes_qty, position'[v].no_qty)]
<1>1. market' = market /\ settled_fills' = settled_fills /\ Resolved
  BY DEF ClaimWinnings
<1>2. /\ \A v \in Users : /\ position[v] \in UserPosition
                          /\ position'[v] \in UserPosition
                          /\ position'[v].collateral = position[v].collateral
      /\ \A v \in Users \ {u} : position'[v] = position[v]
      /\ position'[u].yes_qty = 0 /\ position'[u].no_qty = 0
  BY DEF ClaimWinnings, Redeemed, TypeOK, UserPosition
<1>3. old \in [Users -> Nat] /\ new \in [Users -> Nat]
  BY <1>2, PayoutType DEF UserPosition
<1>4. /\ \A v \in Users \ {u} : new[v] = old[v]
      /\ new[u] = 0
      /\ old[u] = UserPayout(u)
  BY <1>2, PayoutZero DEF UserPayout
<1>5. UserPayout(u) \in Nat /\ Total(Users, old) \in Nat /\ Total(Users, new) \in Nat
  <2>1. Total(Users, old) \in Nat /\ Total(Users, new) \in Nat
    <3> HIDE DEF old, new
    <3>1. QED
      BY <1>3, PartiesAssumption, TotalType
  <2>2. QED
    BY <1>3, <1>4, <2>1
<1>6. Total(Users, new) + UserPayout(u) = Total(Users, old)
  <2>1. Total(Users, new) + old[u] = Total(Users, old) + new[u]
    <3> HIDE DEF old, new
    <3>1. QED
      BY <1>3, <1>4, PartiesAssumption, TotalUpdate
  <2> HIDE DEF old, new
  <2>2. QED
    BY <1>4, <1>5, <2>1
<1>7. Owed(o)' = Owed(o) - UserPayout(u)
  <2>1. Payout(o, market.mm_yes, market.mm_no) \in Nat
    BY PayoutType DEF TypeOK, MarketState
  <2>2. /\ Owed(o) = Total(Users, old) + Payout(o, market.mm_yes, market.mm_no)
        /\ Owed(o)' = Total(Users, new) + Payout(o, market.mm_yes, market.mm_no)
    BY <1>1 DEF Owed, UserTotal
  <2> HIDE DEF old, new
  <2>3. QED
    BY <1>5, <1>6, <2>1, <2>2
<1>8. Locked' = Locked - UserPayout(u)
  <2>1. FreeCollateral' = FreeCollateral
    BY <1>1, <1>2, CollateralUnchanged DEF FreeCollateral
  <2>2. vault' = vault - UserPayout(u) /\ vault \in Nat
    BY DEF ClaimWinnings, TransferOut, TypeOK
  <2>3. QED
    BY <1>5, <2>1, <2>2, LedgerTypes DEF Locked
<1>9. OpenInterest' <= OpenInterest /\ NoHeld' <= NoHeld
  <2>1. /\ [v \in Users |-> position[v].yes_qty] \in [Users -> Nat]
        /\ [v \in Users |-> position[v].no_qty] \in [Users -> Nat]
        /\ [v \in Users |-> position'[v].yes_qty] \in [Users -> Nat]
        /\ [v \in Users |-> position'[v].no_qty] \in [Users -> Nat]
    BY <1>2 DEF UserPosition
  <2>2. \A v \in Users : /\ position'[v].yes_qty <= position[v].yes_qty
                         /\ position'[v].no_qty <= position[v].no_qty
    BY <1>2 DEF UserPosition
  <2>3. YesHeld' <= YesHeld /\ NoHeld' <= NoHeld
    BY <2>1, <2>2, PartiesAssumption, TotalMonotone DEF YesHeld, NoHeld, UserTotal
  <2>4. /\ YesHeld' \in Nat /\ YesHeld \in Nat
        /\ market.mm_yes \in Nat
    BY <2>1, PartiesAssumption, TotalType DEF YesHeld, UserTotal, TypeOK, MarketState
  <2>5. QED
    BY <1>1, <2>3, <2>4 DEF OpenInterest
<1>10. QED
  BY <1>1, <1>5, <1>7, <1>8, <1>9

(* So does the claim of the market maker. *)
LEMMA MmClaimStep ==
  ASSUME TypeOK, ClaimMmWinnings
  PROVE  /\ MmPayout \in Nat
         /\ Locked' = Locked - MmPayout
         /\ Owed(market.outcome)' = Owed(market.outcome) - MmPayout
         /\ OpenInterest' <= OpenInterest
         /\ NoHeld' <= NoHeld
         /\ market'.outcome = market.outcome
         /\ settled_fills' = settled_fills
PROOF
<1> DEFINE o == market.outcome
<1>1. /\ market \in MarketState
      /\ market.mm_yes \in Nat /\ market.mm_no \in Nat
      /\ market'.mm_yes = 0 /\ market'.mm_no = 0
      /\ market'.mm_collateral = market.mm_collateral
      /\ market'.outcome = o
      /\ position' = position
      /\ settled_fills' = settled_fills
  BY DEF ClaimMmWinnings, MmRedeemed, TypeOK, MarketState
<1>2. MmPayout \in Nat
  BY <1>1, PayoutType DEF MmPayout
<1>3. YesHeld' = YesHeld /\ NoHeld' = NoHeld /\ YesHeld \in Nat /\ NoHeld \in Nat
  BY <1>1, HoldingsUnchanged, HoldingsType
<1>4. Owed(o)' = Owed(o) - MmPayout
  <2> DEFINE payouts == [u \in Users |-> Payout(o, position[u].yes_qty, position[u].no_qty)]
  <2>1. /\ Owed(o) = Total(Users, payouts) + MmPayout
        /\ Owed(o)' = Total(Users, payouts) + 0
    BY <1>1, PayoutZero DEF Owed, UserTotal, MmPayout
  <2>2. payouts \in [Users -> Nat]
    BY PayoutType DEF TypeOK, UserPosition
  <2> HIDE DEF payouts
  <2>3. Total(Users, payouts) \in Nat
    BY <2>2, PartiesAssumption, TotalType
  <2>4. QED
    BY <1>2, <2>1, <2>3
<1>5. Locked' = Locked - MmPayout
  <2>1. FreeCollateral' = FreeCollateral
    BY <1>1, CollateralUnchanged DEF FreeCollateral
  <2>2. vault' = vault - MmPayout /\ vault \in Nat
    BY DEF ClaimMmWinnings, TransferOut, TypeOK
  <2>3. QED
    BY <1>2, <2>1, <2>2, LedgerTypes DEF Locked
<1>6. QED
  BY <1>1, <1>2, <1>3, <1>4, <1>5 DEF OpenInterest

-----------------------------------------------------------------------------
(* The theorems. *)

(* Contracts are created by settlement only, under an epoch above all those *)
(* settled before, while trading is open: a batch that is submitted twice,  *)
(* late, or after the close creates none.                                   *)
THEOREM MintingIsFresh == Spec => MintsUnderFreshEpoch
PROOF
<1> DEFINE Fresh == OpenInterest' > OpenInterest \/ NoHeld' > NoHeld
                      => /\ IsTrading
                         /\ market'.last_epoch > market.last_epoch
<1>1. TypeOK /\ TypeOK' /\ LifecycleOK /\ [Next]_vars => Fresh
  <2> SUFFICES ASSUME TypeOK, TypeOK', LifecycleOK, [Next]_vars
               PROVE  Fresh
    OBVIOUS
  <2>1. /\ OpenInterest \in Int /\ OpenInterest' \in Int
        /\ NoHeld \in Int /\ NoHeld' \in Int
    <3>1. OpenInterest \in Nat /\ NoHeld \in Nat
      BY LedgerTypes, HoldingsType
    <3>2. /\ [u \in Users |-> position'[u].yes_qty] \in [Users -> Nat]
          /\ [u \in Users |-> position'[u].no_qty] \in [Users -> Nat]
          /\ market'.mm_yes \in Nat
      BY DEF TypeOK, UserPosition, MarketState
    <3>3. OpenInterest' \in Nat /\ NoHeld' \in Nat
      BY <3>2, PartiesAssumption, TotalType DEF OpenInterest, YesHeld, NoHeld, UserTotal
    <3>4. QED
      BY <3>1, <3>3
  <2>2. CASE Steady
    BY <2>1, <2>2, ValueUnchanged DEF Steady
  <2>3. ASSUME NEW f \in Frames, ApplySettlement(f)
        PROVE  Fresh
    BY <2>3 DEF ApplySettlement, FreshEpoch, SettledMarket, TypeOK, MarketState
  <2>4. ASSUME NEW u \in Users, ClaimWinnings(u)
        PROVE  Fresh
    BY <2>1, <2>4, ClaimStep
  <2>5. CASE ClaimMmWinnings
    BY <2>1, <2>5, MmClaimStep
  <2>6. QED
    BY <2>2, <2>3, <2>4, <2>5, SteadyStep
<1>2. TypeOK /\ TypeOK' /\ LifecycleOK /\ [Next]_vars => [Fresh]_vars
  BY <1>1
<1>3. QED
  BY <1>2, TypeCorrect, LifecycleCorrect, PTL DEF Spec, MintsUnderFreshEpoch

(* The part of the ledger invariant that holds until the resolution: the    *)
(* vault covers every free balance, and locks at most the open interest.    *)
LEMMA BackingStep ==
  ASSUME TypeOK, TypeOK', LifecycleOK, [Next]_vars, FreeCollateralCovered, NeverOvercharged
  PROVE  FreeCollateralCovered' /\ NeverOvercharged'
PROOF
<1>1. /\ OpenInterest = YesHeld + market.mm_yes
      /\ OpenInterest' = YesHeld' + market'.mm_yes
  BY DEF OpenInterest
<1>2. CASE Steady /\ (market'.outcome = market.outcome \/ \E o \in FinalOutcomes : ResolveMarket(o))
  <2>1. OpenInterest' = OpenInterest /\ Locked' = Locked
    BY <1>2, ValueUnchanged DEF Steady
  <2>2. ~Resolved' => ~Resolved
    BY <1>2 DEF Resolved, ResolveMarket, Resolvable
  <2>3. QED
    BY <1>1, <2>1, <2>2 DEF FreeCollateralCovered, NeverOvercharged
<1>3. ASSUME NEW f \in Frames, ApplySettlement(f)
      PROVE  FreeCollateralCovered' /\ NeverOvercharged'
  <2>1. /\ Locked' = Locked + (Cost(f) + MmObligation(f))
        /\ OpenInterest' = OpenInterest + Created(f)
        /\ market'.outcome = market.outcome
    BY <1>3, SettlementStep
  <2>2. /\ Cost(f) \in Nat /\ Created(f) \in Nat /\ MmObligation(f) \in Nat
        /\ Cost(f) + MmObligation(f) <= Created(f)
    BY <1>3, SettlementLocks, MmObligationType DEF ApplySettlement, IsTrading, Exists
  <2>3. Locked \in Int /\ OpenInterest \in Nat
    BY LedgerTypes
  <2>4. ~Resolved' => ~Resolved
    BY <2>1 DEF Resolved
  <2>5. QED
    BY <1>1, <2>1, <2>2, <2>3, <2>4 DEF FreeCollateralCovered, NeverOvercharged
<1>4. CASE (\E u \in Users : ClaimWinnings(u)) \/ ClaimMmWinnings
  <2>1. Resolved'
    BY <1>4, MmClaimStep DEF ClaimWinnings, ClaimMmWinnings, Resolved
  <2>2. QED
    BY <2>1 DEF FreeCollateralCovered, NeverOvercharged
<1>5. QED
  BY <1>2, <1>3, <1>4, SteadyStep

(* In the initial state nothing is locked and nothing is open. *)
LEMMA EmptyLedger ==
  ASSUME Init
  PROVE  Locked = 0 /\ OpenInterest = 0
PROOF
<1>1. /\ UserTotal([u \in Users |-> position[u].collateral]) = 0
      /\ UserTotal([u \in Users |-> position[u].yes_qty]) = 0
  BY TotalZero DEF Init, NoPosition, UserTotal
<1>2. QED
  BY <1>1 DEF Init, NoMarket, Locked, FreeCollateral, OpenInterest, YesHeld

(* Until the first payout no balance is paid out of another's: the vault    *)
(* holds all free collateral, whatever is deposited, settled and withdrawn. *)
THEOREM FreeCollateralIsCovered == Spec => []FreeCollateralCovered
PROOF
<1> DEFINE Inv == FreeCollateralCovered /\ NeverOvercharged
<1>1. Init => Inv
  BY EmptyLedger DEF FreeCollateralCovered, NeverOvercharged, OpenInterest
<1>2. TypeOK /\ TypeOK' /\ LifecycleOK /\ [Next]_vars /\ Inv => Inv'
  BY BackingStep
<1>3. QED
  BY <1>1, <1>2, TypeCorrect, LifecycleCorrect, PTL DEF Spec

(* No batch charges its participants and the market maker more than the $1  *)
(* at which each pair of contracts is redeemed.                             *)
THEOREM NobodyIsOvercharged == Spec => []NeverOvercharged
PROOF
<1> DEFINE Inv == FreeCollateralCovered /\ NeverOvercharged
<1>1. Init => Inv
  BY EmptyLedger DEF FreeCollateralCovered, NeverOvercharged, OpenInterest
<1>2. TypeOK /\ TypeOK' /\ LifecycleOK /\ [Next]_vars /\ Inv => Inv'
  BY BackingStep
<1>3. QED
  BY <1>1, <1>2, TypeCorrect, LifecycleCorrect, PTL DEF Spec

(* Under any outcome the contracts of a balanced market are redeemed for at *)
(* most the open interest.                                                  *)
LEMMA OwedIsBounded ==
  ASSUME TypeOK, OpenInterestBalanced, ~Resolved, NEW o \in FinalOutcomes
  PROVE  Owed(o) <= OpenInterest
PROOF
<1> DEFINE yes == [u \in Users |-> position[u].yes_qty]
           no == [u \in Users |-> position[u].no_qty]
           payouts == [u \in Users |-> Payout(o, position[u].yes_qty, position[u].no_qty)]
<1>1. /\ \A u \in Users : position[u].yes_qty \in Nat /\ position[u].no_qty \in Nat
      /\ market.mm_yes \in Nat /\ market.mm_no \in Nat
      /\ YesHeld \in Nat /\ NoHeld \in Nat
      /\ YesHeld + market.mm_yes = NoHeld + market.mm_no
  BY HoldingsType DEF TypeOK, UserPosition, MarketState, OpenInterestBalanced
<1>2. yes \in [Users -> Nat] /\ no \in [Users -> Nat] /\ payouts \in [Users -> Nat]
  BY <1>1, PayoutType
<1>3. /\ Owed(o) = Total(Users, payouts) + Payout(o, market.mm_yes, market.mm_no)
      /\ YesHeld = Total(Users, yes)
      /\ NoHeld = Total(Users, no)
  BY DEF Owed, UserTotal, YesHeld, NoHeld
<1>4. Total(Users, payouts) \in Nat /\ Payout(o, market.mm_yes, market.mm_no) \in Nat
  <2>1. Payout(o, market.mm_yes, market.mm_no) \in Nat
    BY <1>1, PayoutType
  <2> HIDE DEF payouts
  <2>2. QED
    BY <1>2, <2>1, PartiesAssumption, TotalType
<1>5. CASE o = OUTCOME_YES_WON
  <2>1. \A n, m \in Nat : Payout(o, n, m) = n
    <3> SUFFICES ASSUME NEW n \in Nat, NEW m \in Nat
                 PROVE  Payout(o, n, m) = n
      OBVIOUS
    <3>1. Payout(o, n, m) = CollateralFor(n, SCALE_FACTOR)
      BY <1>5 DEF Payout, OUTCOME_YES_WON, OUTCOME_NO_WON
    <3>2. QED
      BY <3>1, FullPrice
  <2>2. payouts = yes
    BY <1>1, <2>1
  <2>3. QED
    BY <1>1, <1>3, <2>1, <2>2 DEF OpenInterest
<1>6. CASE o = OUTCOME_NO_WON
  <2>1. \A n, m \in Nat : Payout(o, n, m) = m
    <3> SUFFICES ASSUME NEW n \in Nat, NEW m \in Nat
                 PROVE  Payout(o, n, m) = m
      OBVIOUS
    <3>1. Payout(o, n, m) = CollateralFor(m, SCALE_FACTOR)
      BY <1>6 DEF Payout, OUTCOME_YES_WON, OUTCOME_NO_WON
    <3>2. QED
      BY <3>1, FullPrice
  <2>2. payouts = no
    BY <1>1, <2>1
  <2>3. QED
    BY <1>1, <1>3, <2>1, <2>2 DEF OpenInterest
<1>7. CASE o = OUTCOME_INVALID
  <2>1. \A n, m \in Nat : 2 * Payout(o, n, m) <= n + m
    <3> SUFFICES ASSUME NEW n \in Nat, NEW m \in Nat
                 PROVE  2 * Payout(o, n, m) <= n + m
      OBVIOUS
    <3>1. Payout(o, n, m)
            = CollateralFor(n, MIDPOINT_PRICE) + CollateralFor(m, MIDPOINT_PRICE)
      BY <1>7 DEF Payout, OUTCOME_YES_WON, OUTCOME_NO_WON, OUTCOME_INVALID
    <3>2. QED
      BY <3>1, MidpointBounds
  <2>2. \A u \in Users : 2 * payouts[u] <= 1 * yes[u] + 1 * no[u]
    <3> SUFFICES ASSUME NEW u \in Users
                 PROVE  2 * payouts[u] <= 1 * yes[u] + 1 * no[u]
      OBVIOUS
    <3>1. /\ payouts[u] = Payout(o, yes[u], no[u])
          /\ payouts[u] \in Nat /\ yes[u] \in Nat /\ no[u] \in Nat
      BY <1>2
    <3> HIDE DEF payouts, yes, no
    <3>2. 2 * payouts[u] <= yes[u] + no[u]
      BY <2>1, <3>1
    <3>3. QED
      BY <3>1, <3>2
  <2>3. 2 * Total(Users, payouts) <= 1 * Total(Users, yes) + 1 * Total(Users, no)
    <3> HIDE DEF payouts, yes, no
    <3>1. QED
      BY <1>2, <2>2, PartiesAssumption, TotalCompare
  <2>4. 2 * Payout(o, market.mm_yes, market.mm_no) <= market.mm_yes + market.mm_no
    BY <1>1, <2>1
  <2> HIDE DEF payouts, yes, no
  <2>5. QED
    BY <1>1, <1>3, <1>4, <2>3, <2>4 DEF OpenInterest
<1>8. QED
  BY <1>5, <1>6, <1>7 DEF FinalOutcomes

(* The inductive form of ShortfallIsDust: until the resolution the open     *)
(* interest, and after it what is left to be redeemed, exceeds the locked   *)
(* tokens by no more than the rounding of the settled fills.                *)
DustBounded ==
  /\ ~Resolved => 2 * (OpenInterest - Locked) <= 3 * settled_fills
  /\ Resolved => 2 * (Owed(market.outcome) - Locked) <= 3 * settled_fills

(* DustBounded is inductive. *)
LEMMA DustStep ==
  ASSUME TypeOK, TypeOK', LifecycleOK, OpenInterestBalanced, [Next]_vars, DustBounded
  PROVE  DustBounded'
PROOF
<1>1. /\ OpenInterest \in Nat /\ Locked \in Int /\ settled_fills \in Nat
      /\ \A o \in FinalOutcomes : Owed(o) \in Nat
  BY LedgerTypes DEF TypeOK
<1>2. Resolved => market.outcome \in FinalOutcomes
  BY DEF Resolved, TypeOK, MarketState
<1>3. CASE Steady /\ market'.outcome = market.outcome
  <2>1. /\ OpenInterest' = OpenInterest /\ Locked' = Locked
        /\ settled_fills' = settled_fills
        /\ \A o \in FinalOutcomes : Owed(o)' = Owed(o)
    BY <1>3, ValueUnchanged DEF Steady
  <2>2. Resolved => Owed(market.outcome)' = Owed(market.outcome)
    BY <1>2, <1>3, <2>1
  <2>3. QED
    BY <1>3, <2>1, <2>2 DEF DustBounded, Resolved
<1>4. ASSUME Steady, NEW o \in FinalOutcomes, ResolveMarket(o)
      PROVE  DustBounded'
  <2>1. /\ Locked' = Locked
        /\ settled_fills' = settled_fills
        /\ \A p \in FinalOutcomes : Owed(p)' = Owed(p)
    BY <1>4, ValueUnchanged DEF Steady
  <2>2. /\ ~Resolved
        /\ market'.outcome = o
    BY <1>4 DEF ResolveMarket, Resolvable, TypeOK, MarketState
  <2>3. Owed(market.outcome)' = Owed(o)
    BY <2>1, <2>2
  <2>4. Owed(o) <= OpenInterest
    BY <2>2, OwedIsBounded
  <2>5. Resolved'
    BY <2>2 DEF Resolved, FinalOutcomes, OUTCOME_UNRESOLVED, OUTCOME_YES_WON, OUTCOME_NO_WON,
         OUTCOME_INVALID
  <2>6. QED
    BY <1>1, <2>1, <2>2, <2>3, <2>4, <2>5 DEF DustBounded
<1>5. ASSUME NEW f \in Frames, ApplySettlement(f)
      PROVE  DustBounded'
  <2>1. /\ Locked' = Locked + (Cost(f) + MmObligation(f))
        /\ OpenInterest' = OpenInterest + Created(f)
        /\ settled_fills' = settled_fills + Cardinality(f.users)
        /\ market'.outcome = market.outcome
    BY <1>5, SettlementStep
  <2>2. /\ Cost(f) \in Nat /\ Created(f) \in Nat /\ MmObligation(f) \in Nat
        /\ Cardinality(f.users) \in Nat
        /\ 2 * (Created(f) - (Cost(f) + MmObligation(f))) <= 3 * Cardinality(f.users)
    BY <1>5, SettlementLocks, MmObligationType, FrameFields DEF ApplySettlement, IsTrading, Exists
  <2>3. ~Resolved /\ ~Resolved'
    BY <1>5, <2>1 DEF ApplySettlement, LifecycleOK, IsTrading, IsClosed, Resolved, STATUS_TRADING,
         STATUS_CLOSED
  <2>4. QED
    BY <1>1, <2>1, <2>2, <2>3 DEF DustBounded
<1>6. ASSUME NEW u \in Users, ClaimWinnings(u)
      PROVE  DustBounded'
  <2>1. /\ UserPayout(u) \in Nat
        /\ Locked' = Locked - UserPayout(u)
        /\ Owed(market.outcome)' = Owed(market.outcome) - UserPayout(u)
        /\ market' = market
        /\ settled_fills' = settled_fills
    BY <1>6, ClaimStep
  <2>2. Resolved /\ Resolved'
    BY <1>6, <2>1 DEF ClaimWinnings, Resolved
  <2>3. QED
    BY <1>1, <1>2, <2>1, <2>2 DEF DustBounded
<1>7. ASSUME ClaimMmWinnings
      PROVE  DustBounded'
  <2>1. /\ MmPayout \in Nat
        /\ Locked' = Locked - MmPayout
        /\ Owed(market.outcome)' = Owed(market.outcome) - MmPayout
        /\ market'.outcome = market.outcome
        /\ settled_fills' = settled_fills
    BY <1>7, MmClaimStep
  <2>2. Resolved /\ Resolved'
    BY <1>7, <2>1 DEF ClaimMmWinnings, Resolved
  <2>3. QED
    BY <1>1, <1>2, <2>1, <2>2 DEF DustBounded
<1>8. QED
  BY <1>3, <1>4, <1>5, <1>6, <1>7, SteadyStep

(* Under every outcome still possible, what the contracts are redeemed for  *)
(* exceeds the tokens that back them by no more than three halves of a base *)
(* unit per settled fill.                                                   *)
THEOREM ShortfallIsBounded == Spec => []ShortfallIsDust
PROOF
<1>1. Init => DustBounded
  BY EmptyLedger DEF DustBounded, Init, NoMarket, Resolved
<1>2. TypeOK /\ TypeOK' /\ LifecycleOK /\ OpenInterestBalanced /\ [Next]_vars /\ DustBounded
        => DustBounded'
  BY DustStep
<1>3. TypeOK /\ OpenInterestBalanced /\ DustBounded => ShortfallIsDust
  <2> SUFFICES ASSUME TypeOK, OpenInterestBalanced, DustBounded, NEW o \in PossibleOutcomes
               PROVE  2 * (Owed(o) - Locked) <= 3 * settled_fills
    BY DEF ShortfallIsDust
  <2>1. CASE Resolved
    BY <2>1 DEF PossibleOutcomes, DustBounded
  <2>2. CASE ~Resolved
    <3>1. o \in FinalOutcomes
      BY <2>2 DEF PossibleOutcomes
    <3>2. Owed(o) <= OpenInterest
      BY <2>2, <3>1, OwedIsBounded
    <3>3. Owed(o) \in Nat /\ OpenInterest \in Nat /\ Locked \in Int /\ settled_fills \in Nat
      BY <3>1, LedgerTypes DEF TypeOK
    <3>4. QED
      BY <2>2, <3>2, <3>3 DEF DustBounded
  <2>3. QED
    BY <2>1, <2>2
<1>4. QED
  BY <1>1, <1>2, <1>3, TypeCorrect, LifecycleCorrect, OpenInterestStaysBalanced, PTL DEF Spec

(* A step after the resolution moves value between a user's wallet, its     *)
(* collateral and its contracts, or gives it to the backstop.               *)
LEMMA WorthStep ==
  ASSUME TypeOK, LifecycleOK, [Next]_vars, Resolved, NEW u \in Users
  PROVE  UserWorth(u) - UserWorth(u)' =
           (IF market'.mm_collateral > market.mm_collateral THEN wallet[u] - wallet'[u] ELSE 0)
PROOF
<1> DEFINE Goal == UserWorth(u) - UserWorth(u)' =
             (IF market'.mm_collateral > market.mm_collateral THEN wallet[u] - wallet'[u] ELSE 0)
<1>1. /\ market \in MarketState
      /\ market.mm_collateral \in Nat
      /\ position \in [Users -> UserPosition]
      /\ wallet \in [Parties -> Nat] /\ wallet[u] \in Nat
      /\ position[u].collateral \in Nat
      /\ position[u].yes_qty \in Nat /\ position[u].no_qty \in Nat
      /\ \A v \in Users : UserPayout(v) \in Nat
      /\ u \in Parties /\ u # MM
      /\ IsClosed
      /\ UserWorth(u) = wallet[u] + position[u].collateral + UserPayout(u)
      /\ UserWorth(u)' = wallet'[u] + position'[u].collateral + UserPayout(u)'
  BY PartiesAssumption, PayoutType
     DEF TypeOK, LifecycleOK, MarketState, UserPosition, Parties, UserPayout, UserWorth
<1>2. ASSUME wallet'[u] = wallet[u],
             position'[u].collateral = position[u].collateral,
             position'[u].yes_qty = position[u].yes_qty,
             position'[u].no_qty = position[u].no_qty,
             market'.outcome = market.outcome
      PROVE  Goal
  <2>1. UserPayout(u)' = UserPayout(u)
    BY <1>2 DEF UserPayout, Payout
  <2>2. QED
    BY <1>1, <1>2, <2>1
<1>3. CASE UNCHANGED vars
  BY <1>2, <1>3 DEF vars
<1>4. ASSUME NEW v \in Users, InitUserPosition(v)
      PROVE  Goal
  <2>1. /\ position'[u].collateral = position[u].collateral
        /\ position'[u].yes_qty = position[u].yes_qty
        /\ position'[u].no_qty = position[u].no_qty
    BY <1>1, <1>4 DEF InitUserPosition, LifecycleOK, NoPosition
  <2>2. QED
    BY <1>2, <1>4, <2>1 DEF InitUserPosition
<1>5. ASSUME NEW v \in Users, NEW amount \in Amounts,
             DepositCollateral(v, amount) \/ WithdrawCollateral(v, amount)
      PROVE  Goal
  <2>1. amount \in Nat /\ v \in Parties
    BY PartiesAssumption DEF Parties
  <2>2. market' = market
    BY <1>5 DEF DepositCollateral, WithdrawCollateral
  <2>3. /\ position'[u].yes_qty = position[u].yes_qty
        /\ position'[u].no_qty = position[u].no_qty
    BY <1>1, <1>5 DEF DepositCollateral, WithdrawCollateral, UserPosition
  <2>4. UserPayout(u)' = UserPayout(u)
    BY <2>2, <2>3 DEF UserPayout, Payout
  <2>5. wallet'[u] + position'[u].collateral = wallet[u] + position[u].collateral
    BY <1>1, <1>5, <2>1 DEF DepositCollateral, WithdrawCollateral, TransferIn, TransferOut,
         UserPosition
  <2>6. /\ UserWorth(u)' = wallet[u] + position[u].collateral + UserPayout(u)
        /\ ~(market'.mm_collateral > market.mm_collateral)
    BY <1>1, <2>2, <2>4, <2>5
  <2>7. QED
    BY <1>1, <2>6
<1>6. ASSUME NEW risk \in RiskParams, UpdateRiskParams(risk)
      PROVE  Goal
  BY <1>1, <1>2, <1>6 DEF UpdateRiskParams, MarketState
<1>7. ASSUME NEW p \in Parties, NEW amount \in Amounts, DepositMmCollateral(p, amount)
      PROVE  Goal
  <2>1. amount \in Nat
    BY PartiesAssumption
  <2>2. /\ market'.outcome = market.outcome
        /\ market'.mm_collateral = market.mm_collateral + amount
        /\ amount > 0
        /\ position' = position
        /\ wallet' \in [Parties -> Int]
    BY <1>1, <1>7, <2>1 DEF DepositMmCollateral, TransferIn, MarketState
  <2>3. UserPayout(u)' = UserPayout(u)
    BY <2>2 DEF UserPayout, Payout
  <2>4. wallet'[u] \in Int
    BY <1>1, <2>2
  <2>5. QED
    BY <1>1, <2>1, <2>2, <2>3, <2>4
<1>8. ASSUME NEW amount \in Amounts, WithdrawMmCollateral(amount)
      PROVE  Goal
  <2>1. wallet'[u] = wallet[u] /\ position' = position /\ market'.outcome = market.outcome
    BY <1>1, <1>8 DEF WithdrawMmCollateral, TransferOut, MarketState
  <2>2. QED
    BY <1>2, <2>1
<1>9. ASSUME NEW v \in Users, ClaimWinnings(v)
      PROVE  Goal
  <2>1. market' = market
    BY <1>9 DEF ClaimWinnings
  <2>2. CASE v = u
    <3>1. /\ wallet'[u] = wallet[u] + UserPayout(u)
          /\ position'[u].collateral = position[u].collateral
          /\ position'[u].yes_qty = 0
          /\ position'[u].no_qty = 0
      BY <1>1, <1>9, <2>2 DEF ClaimWinnings, TransferOut, Redeemed, UserPosition
    <3>2. UserPayout(u)' = 0
      BY <2>1, <3>1, PayoutZero DEF UserPayout
    <3>3. QED
      BY <1>1, <2>1, <3>1, <3>2
  <2>3. CASE v # u
    <3>1. wallet'[u] = wallet[u] /\ position'[u] = position[u]
      BY <1>1, <1>9, <2>3 DEF ClaimWinnings, TransferOut
    <3>2. QED
      BY <1>2, <2>1, <3>1
  <2>4. QED
    BY <2>2, <2>3
<1>10. ASSUME ClaimMmWinnings
       PROVE  Goal
  <2>1. wallet'[u] = wallet[u] /\ position' = position /\ market'.outcome = market.outcome
    BY <1>1, <1>10 DEF ClaimMmWinnings, TransferOut, MmRedeemed, MarketState
  <2>2. QED
    BY <1>2, <2>1
<1>11. /\ \A risk, trusted : ~InitializeMarket(risk, trusted)
       /\ \A f : ~ApplySettlement(f)
       /\ \A outcome : ~ResolveMarket(outcome)
       /\ ~CloseMarket
  BY <1>1 DEF InitializeMarket, ApplySettlement, ResolveMarket, Resolvable, CloseMarket, Exists,
       IsTrading, IsClosed, STATUS_TRADING, STATUS_CLOSED
<1>12. QED
  BY <1>3, <1>4, <1>5, <1>6, <1>7, <1>8, <1>9, <1>10, <1>11
     DEF Next, SubmitBatch, SubmitBatchTrusted

(* After the resolution no user gains by any order of claims, deposits and  *)
(* withdrawals: a contract is paid once, at its value, and a claim leaves   *)
(* the free collateral alone.                                               *)
THEOREM ClaimsAreNeutral == Spec => ClaimsAreWorthNeutral
PROOF
<1> DEFINE Neutral == Resolved =>
             \A u \in Users :
               UserWorth(u) - UserWorth(u)' =
                 (IF market'.mm_collateral > market.mm_collateral THEN wallet[u] - wallet'[u] ELSE 0)
<1>1. TypeOK /\ LifecycleOK /\ [Next]_vars => [Neutral]_vars
  BY WorthStep
<1>2. QED
  BY <1>1, TypeCorrect, LifecycleCorrect, PTL DEF Spec, ClaimsAreWorthNeutral

-----------------------------------------------------------------------------
(***************************************************************************)
(* The escrow: the program's initial state maps to the escrow's, and every *)
(* instruction maps to one step of the escrow or changes nothing that it    *)
(* knows of.                                                                *)
(***************************************************************************)

LEMMA LedgerTotal ==
  ASSUME NEW S, NEW f
  PROVE  Ledger!Total(S, f) = Total(S, f)
BY DEF Ledger!Total, Ledger!Units, Total, Units, Ledger!Cardinality, Cardinality, Ledger!IsFiniteSet, IsFiniteSet

(* A record of the parties: the entry of each user and of the market maker. *)
LEMMA OfPartiesFields ==
  ASSUME NEW f \in [Users -> Nat], NEW n \in Nat
  PROVE  /\ OfParties(f, n) \in [Parties -> Nat]
         /\ \A u \in Users : OfParties(f, n)[u] = f[u]
         /\ OfParties(f, n)[MM] = n
BY PartiesAssumption DEF OfParties, Parties

(* Adding the market maker's entry to the users' total. *)
LEMMA TotalOfParties ==
  ASSUME NEW f \in [Users -> Nat], NEW n \in Nat
  PROVE  Total(Parties, OfParties(f, n)) = Total(Users, f) + n
PROOF
<1> DEFINE F == OfParties(f, n)
           Z == OfParties(f, 0)
<1>1. F \in [Parties -> Nat] /\ Z \in [Parties -> Nat] /\ F[MM] = n /\ Z[MM] = 0
  BY OfPartiesFields
<1>2. \A u \in Users : F[u] = f[u] /\ Z[u] = f[u]
  BY OfPartiesFields
<1>3. IsFiniteSet(Parties) /\ MM \in Parties
  BY PartiesAssumption, FS_AddElement DEF Parties
<1>4. Parties \ {MM} = Users
  BY PartiesAssumption DEF Parties
<1> HIDE DEF F, Z
<1>5. Total(Parties, F) + Z[MM] = Total(Parties, Z) + F[MM]
  BY <1>1, <1>2, <1>3, <1>4, TotalUpdate
<1>6. Total(Parties, Z) = Total(Users, f)
  <2>1. ASSUME NEW x
        PROVE  x \in Units(Parties, Z) <=> x \in Units(Users, f)
    <3>1. x \in Units(Parties, Z) <=> \E p \in Parties : \E i \in 1 .. Z[p] : x = <<p, i>>
      BY UnitsElements
    <3>2. x \in Units(Users, f) <=> \E u \in Users : \E i \in 1 .. f[u] : x = <<u, i>>
      BY UnitsElements
    <3>3. \A i : i \notin 1 .. Z[MM]
      BY <1>1
    <3>4. \A p \in Parties : p # MM => p \in Users /\ Z[p] = f[p]
      BY <1>2, <1>4
    <3>5. \A u \in Users : u \in Parties /\ Z[u] = f[u]
      BY <1>2 DEF Parties
    <3>6. QED
      BY <3>1, <3>2, <3>3, <3>4, <3>5, Zenon
  <2>2. Units(Parties, Z) = Units(Users, f)
    BY <2>1
  <2>3. QED
    BY <2>2 DEF Total
<1>7. Total(Users, f) \in Nat /\ Total(Parties, F) \in Nat
  BY <1>1, <1>3, TotalType, PartiesAssumption
<1>8. QED
  BY <1>1, <1>5, <1>6, <1>7 DEF F

-----------------------------------------------------------------------------
(* The accounts of the escrow, read from the program's accounts. *)

Read ==
  /\ FreeBalances \in [Parties -> Nat]
  /\ YesContracts \in [Parties -> Nat]
  /\ NoContracts \in [Parties -> Nat]
  /\ \A u \in Users : /\ FreeBalances[u] = position[u].collateral
                      /\ YesContracts[u] = position[u].yes_qty
                      /\ NoContracts[u] = position[u].no_qty
  /\ FreeBalances[MM] = market.mm_collateral
  /\ YesContracts[MM] = market.mm_yes
  /\ NoContracts[MM] = market.mm_no

LEMMA AccountsRead == TypeOK => Read
PROOF
<1> SUFFICES ASSUME TypeOK
             PROVE  Read
  OBVIOUS
<1> DEFINE c == [u \in Users |-> position[u].collateral]
           y == [u \in Users |-> position[u].yes_qty]
           n == [u \in Users |-> position[u].no_qty]
<1>1. c \in [Users -> Nat] /\ y \in [Users -> Nat] /\ n \in [Users -> Nat]
  BY HoldingsType
<1>2. market.mm_collateral \in Nat /\ market.mm_yes \in Nat /\ market.mm_no \in Nat
  BY DEF TypeOK, MarketState
<1>3. \A u \in Users : /\ c[u] = position[u].collateral
                       /\ y[u] = position[u].yes_qty
                       /\ n[u] = position[u].no_qty
  OBVIOUS
<1>4. /\ FreeBalances = OfParties(c, market.mm_collateral)
      /\ YesContracts = OfParties(y, market.mm_yes)
      /\ NoContracts = OfParties(n, market.mm_no)
  BY DEF FreeBalances, YesContracts, NoContracts
<1> HIDE DEF c, y, n
<1>5. QED
  BY <1>1, <1>2, <1>3, <1>4, OfPartiesFields, ZenonT(30) DEF Read

LEMMA AccountsReadNext == TypeOK' => Read'
BY AccountsRead, PTL

(* What a step leaves alone, or changes at one account only. *)
LEMMA SameAccounts ==
  ASSUME NEW f \in [Parties -> Nat], NEW g \in [Parties -> Nat],
         \A u \in Users : g[u] = f[u], g[MM] = f[MM]
  PROVE  g = f
BY DEF Parties

LEMMA OneAccount ==
  ASSUME NEW f \in [Parties -> Nat], NEW g \in [Parties -> Nat], NEW p \in Parties,
         \A q \in Parties \ {p} : g[q] = f[q]
  PROVE  g = [f EXCEPT ![p] = g[p]]
OBVIOUS

LEMMA IsParty ==
  /\ MM \in Parties
  /\ \A u \in Users : u \in Parties /\ u # MM
  /\ \A p \in Parties : p \in Users \/ p = MM
BY PartiesAssumption DEF Parties

-----------------------------------------------------------------------------
(* The instructions that a user or the authority gives. *)

(* Nothing that the escrow knows of. *)
Unnoticed ==
  /\ UNCHANGED <<wallet, vault>>
  /\ market'.outcome = market.outcome
  /\ market'.mm_collateral = market.mm_collateral
  /\ market'.mm_yes = market.mm_yes
  /\ market'.mm_no = market.mm_no
  /\ \A u \in Users : /\ position'[u].collateral = position[u].collateral
                      /\ position'[u].yes_qty = position[u].yes_qty
                      /\ position'[u].no_qty = position[u].no_qty

LEMMA UnnoticedStutters ==
  ASSUME TypeOK, TypeOK', Unnoticed
  PROVE  UNCHANGED Ledger!vars
PROOF
<1>1. Read /\ Read'
  BY AccountsRead, AccountsReadNext
<1>2. FreeBalances' = FreeBalances
  BY <1>1, SameAccounts DEF Read, Unnoticed
<1>3. YesContracts' = YesContracts
  BY <1>1, SameAccounts DEF Read, Unnoticed
<1>4. NoContracts' = NoContracts
  BY <1>1, SameAccounts DEF Read, Unnoticed
<1>5. QED
  BY <1>2, <1>3, <1>4 DEF Unnoticed, Ledger!vars

LEMMA AdministrationStutters ==
  ASSUME TypeOK, TypeOK', LifecycleOK,
         \/ \E risk \in RiskParams, trusted \in BOOLEAN : InitializeMarket(risk, trusted)
         \/ \E u \in Users : InitUserPosition(u)
         \/ \E risk \in RiskParams : UpdateRiskParams(risk)
         \/ CloseMarket
  PROVE  Unnoticed
PROOF
<1>1. ASSUME NEW risk \in RiskParams, NEW trusted \in BOOLEAN, InitializeMarket(risk, trusted)
      PROVE  Unnoticed
  <2>1. market = NoMarket
    BY <1>1 DEF InitializeMarket, LifecycleOK
  <2>2. QED
    BY <1>1, <2>1 DEF InitializeMarket, Unnoticed, NoMarket
<1>2. ASSUME NEW u \in Users, InitUserPosition(u)
      PROVE  Unnoticed
  <2>1. position[u] = NoPosition
    BY <1>2 DEF InitUserPosition, LifecycleOK
  <2>2. position \in [Users -> UserPosition]
    BY DEF TypeOK
  <2>3. \A v \in Users : /\ position'[v].collateral = position[v].collateral
                         /\ position'[v].yes_qty = position[v].yes_qty
                         /\ position'[v].no_qty = position[v].no_qty
    BY <1>2, <2>1, <2>2 DEF InitUserPosition, NoPosition
  <2>4. QED
    BY <1>2, <2>3 DEF InitUserPosition, Unnoticed
<1>3. ASSUME NEW risk \in RiskParams, UpdateRiskParams(risk)
      PROVE  Unnoticed
  BY <1>3 DEF UpdateRiskParams, Unnoticed, TypeOK, MarketState
<1>4. ASSUME CloseMarket
      PROVE  Unnoticed
  BY <1>4 DEF CloseMarket, Unnoticed, TypeOK, MarketState
<1>5. QED
  BY <1>1, <1>2, <1>3, <1>4

LEMMA ResolutionMaps ==
  ASSUME TypeOK, TypeOK', NEW outcome \in FinalOutcomes, ResolveMarket(outcome)
  PROVE  Ledger!Resolve
PROOF
<1>1. Read /\ Read'
  BY AccountsRead, AccountsReadNext
<1>2. /\ market'.mm_collateral = market.mm_collateral
      /\ market'.mm_yes = market.mm_yes
      /\ market'.mm_no = market.mm_no
      /\ market'.outcome = outcome
      /\ market.outcome = OUTCOME_UNRESOLVED
      /\ UNCHANGED <<position, wallet, vault>>
  BY DEF ResolveMarket, Resolvable, Resolved, TypeOK, MarketState
<1>3. FreeBalances' = FreeBalances
  BY <1>1, <1>2, SameAccounts DEF Read
<1>4. YesContracts' = YesContracts
  BY <1>1, <1>2, SameAccounts DEF Read
<1>5. NoContracts' = NoContracts
  BY <1>1, <1>2, SameAccounts DEF Read
<1>6. QED
  BY <1>2, <1>3, <1>4, <1>5 DEF Ledger!Resolve, FinalOutcomes

(* What moves one free balance and nothing else. *)
FreeOnly(p) ==
  /\ market'.outcome = market.outcome
  /\ market'.mm_yes = market.mm_yes
  /\ market'.mm_no = market.mm_no
  /\ \A u \in Users : /\ position'[u].yes_qty = position[u].yes_qty
                      /\ position'[u].no_qty = position[u].no_qty
  /\ p # MM => market'.mm_collateral = market.mm_collateral
  /\ \A u \in Users \ {p} : position'[u].collateral = position[u].collateral

LEMMA FreeMoves ==
  ASSUME TypeOK, TypeOK', NEW p \in Parties, FreeOnly(p)
  PROVE  /\ FreeBalances' = [FreeBalances EXCEPT ![p] = FreeBalances'[p]]
         /\ UNCHANGED <<YesContracts, NoContracts>>
PROOF
<1>1. Read /\ Read'
  BY AccountsRead, AccountsReadNext
<1>2. YesContracts' = YesContracts
  BY <1>1, SameAccounts DEF Read, FreeOnly
<1>3. NoContracts' = NoContracts
  BY <1>1, SameAccounts DEF Read, FreeOnly
<1>4. \A q \in Parties \ {p} : FreeBalances'[q] = FreeBalances[q]
  BY <1>1, IsParty DEF Read, FreeOnly
<1>5. FreeBalances' = [FreeBalances EXCEPT ![p] = FreeBalances'[p]]
  BY <1>1, <1>4, OneAccount DEF Read
<1>6. QED
  BY <1>2, <1>3, <1>5

LEMMA DepositMaps ==
  ASSUME TypeOK, TypeOK', NEW u \in Users, NEW amount \in Amounts, DepositCollateral(u, amount)
  PROVE  Ledger!PayIn(u, u)
PROOF
<1>1. amount \in Nat /\ wallet[u] \in Nat /\ u \in Parties /\ u # MM
  BY PartiesAssumption, IsParty DEF TypeOK
<1>2. amount \in 1 .. wallet[u]
  BY <1>1 DEF DepositCollateral, TransferIn
<1>3. position'[u].collateral = position[u].collateral + amount
  BY DEF DepositCollateral, TypeOK, UserPosition
<1>4. FreeOnly(u)
  BY <1>1 DEF FreeOnly, DepositCollateral, TypeOK, UserPosition
<1>5. FreeBalances'[u] = FreeBalances[u] + amount
  BY <1>3, AccountsRead, AccountsReadNext DEF Read
<1>6. FreeBalances' = [FreeBalances EXCEPT ![u] = @ + amount]
  BY <1>1, <1>4, <1>5, FreeMoves
<1>7. UNCHANGED <<YesContracts, NoContracts, market.outcome>>
  BY <1>1, <1>4, FreeMoves DEF FreeOnly
<1>8. QED
  BY <1>2, <1>6, <1>7 DEF Ledger!PayIn, DepositCollateral, TransferIn

LEMMA MmDepositMaps ==
  ASSUME TypeOK, TypeOK', NEW p \in Parties, NEW amount \in Amounts,
         DepositMmCollateral(p, amount)
  PROVE  Ledger!PayIn(p, MM)
PROOF
<1>1. amount \in Nat /\ wallet[p] \in Nat /\ MM \in Parties
  BY PartiesAssumption, IsParty DEF TypeOK
<1>2. amount \in 1 .. wallet[p]
  BY <1>1 DEF DepositMmCollateral, TransferIn
<1>3. market'.mm_collateral = market.mm_collateral + amount
  BY DEF DepositMmCollateral, TypeOK, MarketState
<1>4. FreeOnly(MM)
  BY DEF FreeOnly, DepositMmCollateral, TypeOK, MarketState
<1>5. FreeBalances'[MM] = FreeBalances[MM] + amount
  BY <1>3, AccountsRead, AccountsReadNext DEF Read
<1>6. FreeBalances' = [FreeBalances EXCEPT ![MM] = @ + amount]
  BY <1>1, <1>4, <1>5, FreeMoves
<1>7. UNCHANGED <<YesContracts, NoContracts, market.outcome>>
  BY <1>1, <1>4, FreeMoves DEF FreeOnly
<1>8. QED
  BY <1>2, <1>6, <1>7 DEF Ledger!PayIn, DepositMmCollateral, TransferIn

LEMMA WithdrawalMaps ==
  ASSUME TypeOK, TypeOK', NEW u \in Users, NEW amount \in Amounts, WithdrawCollateral(u, amount)
  PROVE  Ledger!PayOut(u)
PROOF
<1>1. /\ amount \in Nat
      /\ FreeBalances[u] = position[u].collateral
      /\ FreeBalances[u] \in Nat
      /\ u \in Parties
      /\ u # MM
  BY PartiesAssumption, IsParty, AccountsRead DEF Read
<1>2. amount \in 1 .. FreeBalances[u]
  BY <1>1 DEF WithdrawCollateral
<1>3. position'[u].collateral = position[u].collateral - amount
  BY DEF WithdrawCollateral, TypeOK, UserPosition
<1>4. FreeOnly(u)
  BY <1>1 DEF FreeOnly, WithdrawCollateral, TypeOK, UserPosition
<1>5. FreeBalances'[u] = FreeBalances[u] - amount
  BY <1>3, AccountsRead, AccountsReadNext DEF Read
<1>6. FreeBalances' = [FreeBalances EXCEPT ![u] = @ - amount]
  BY <1>1, <1>4, <1>5, FreeMoves
<1>7. UNCHANGED <<YesContracts, NoContracts, market.outcome>>
  BY <1>1, <1>4, FreeMoves DEF FreeOnly
<1>8. QED
  BY <1>2, <1>6, <1>7 DEF Ledger!PayOut, WithdrawCollateral, TransferOut

LEMMA MmWithdrawalMaps ==
  ASSUME TypeOK, TypeOK', NEW amount \in Amounts, WithdrawMmCollateral(amount)
  PROVE  Ledger!PayOut(MM)
PROOF
<1>1. /\ amount \in Nat
      /\ FreeBalances[MM] = market.mm_collateral
      /\ FreeBalances[MM] \in Nat
      /\ MM \in Parties
  BY PartiesAssumption, IsParty, AccountsRead DEF Read
<1>2. amount \in 1 .. FreeBalances[MM]
  BY <1>1 DEF WithdrawMmCollateral
<1>3. market'.mm_collateral = market.mm_collateral - amount
  BY DEF WithdrawMmCollateral, TypeOK, MarketState
<1>4. FreeOnly(MM)
  BY DEF FreeOnly, WithdrawMmCollateral, TypeOK, MarketState
<1>5. FreeBalances'[MM] = FreeBalances[MM] - amount
  BY <1>3, AccountsRead, AccountsReadNext DEF Read
<1>6. FreeBalances' = [FreeBalances EXCEPT ![MM] = @ - amount]
  BY <1>1, <1>4, <1>5, FreeMoves
<1>7. UNCHANGED <<YesContracts, NoContracts, market.outcome>>
  BY <1>1, <1>4, FreeMoves DEF FreeOnly
<1>8. QED
  BY <1>2, <1>6, <1>7 DEF Ledger!PayOut, WithdrawMmCollateral, TransferOut

-----------------------------------------------------------------------------
(* Redemption: the prices of the program are the worths of the escrow. *)

LEMMA PayoutIsWorth ==
  ASSUME TypeOK, NEW p \in Parties,
         YesContracts[p] \in Nat, NoContracts[p] \in Nat
  PROVE  Ledger!Worth(p) = Payout(market.outcome, YesContracts[p], NoContracts[p])
PROOF
<1> DEFINE y == YesContracts[p]
           n == NoContracts[p]
<1>1. CollateralFor(y, SCALE_FACTOR) = y /\ CollateralFor(n, SCALE_FACTOR) = n
  BY FullPrice
<1>2. ASSUME NEW q \in Nat
      PROVE  CollateralFor(q, MIDPOINT_PRICE) = q \div 2
  <2> DEFINE c == CollateralFor(q, MIDPOINT_PRICE)
  <2>1. c \in Nat /\ 2 * c <= q /\ q <= 2 * c + 1
    BY MidpointBounds
  <2> HIDE DEF c
  <2>2. c = q \div 2
    BY <2>1
  <2>3. QED
    BY <2>2 DEF c
<1>3. /\ CollateralFor(y, MIDPOINT_PRICE) = y \div 2
      /\ CollateralFor(n, MIDPOINT_PRICE) = n \div 2
  BY <1>2
<1>4. market.outcome \in {0, 1, 2, 3}
  BY DEF TypeOK, MarketState, FinalOutcomes, OUTCOME_UNRESOLVED, OUTCOME_YES_WON, OUTCOME_NO_WON,
         OUTCOME_INVALID
<1>5. QED
  BY <1>1, <1>3, <1>4
     DEF Ledger!Worth, Payout, OUTCOME_UNRESOLVED, OUTCOME_YES_WON, OUTCOME_NO_WON, OUTCOME_INVALID

LEMMA ClaimMaps ==
  ASSUME TypeOK, TypeOK', NEW u \in Users, ClaimWinnings(u)
  PROVE  Ledger!Redeem(u)
PROOF
<1>1. Read /\ Read' /\ u \in Parties /\ u # MM
  BY AccountsRead, AccountsReadNext, IsParty
<1>2. Ledger!Worth(u) = UserPayout(u)
  <2>1. YesContracts[u] \in Nat /\ NoContracts[u] \in Nat
    BY <1>1 DEF Read
  <2>2. YesContracts[u] = position[u].yes_qty /\ NoContracts[u] = position[u].no_qty
    BY <1>1 DEF Read
  <2>3. QED
    BY <1>1, <2>1, <2>2, PayoutIsWorth DEF UserPayout
<1>3. /\ \A v \in Users : /\ position'[v].collateral = position[v].collateral
                          /\ v # u => /\ position'[v].yes_qty = position[v].yes_qty
                                      /\ position'[v].no_qty = position[v].no_qty
      /\ position'[u].yes_qty = 0
      /\ position'[u].no_qty = 0
      /\ market' = market
  BY DEF ClaimWinnings, Redeemed, TypeOK, UserPosition
<1>4. FreeBalances' = FreeBalances
  BY <1>1, <1>3, SameAccounts DEF Read
<1>5. YesContracts' = [YesContracts EXCEPT ![u] = 0]
  <2>1. /\ YesContracts'[u] = 0
        /\ \A q \in Parties \ {u} : YesContracts'[q] = YesContracts[q]
    BY <1>1, <1>3, IsParty DEF Read
  <2>2. QED
    BY <1>1, <2>1, OneAccount DEF Read
<1>6. NoContracts' = [NoContracts EXCEPT ![u] = 0]
  <2>1. /\ NoContracts'[u] = 0
        /\ \A q \in Parties \ {u} : NoContracts'[q] = NoContracts[q]
    BY <1>1, <1>3, IsParty DEF Read
  <2>2. QED
    BY <1>1, <2>1, OneAccount DEF Read
<1>7. QED
  BY <1>2, <1>3, <1>4, <1>5, <1>6 DEF Ledger!Redeem, ClaimWinnings, TransferOut, Resolved

LEMMA MmClaimMaps ==
  ASSUME TypeOK, TypeOK', ClaimMmWinnings
  PROVE  Ledger!Redeem(MM)
PROOF
<1>1. Read /\ Read' /\ MM \in Parties
  BY AccountsRead, AccountsReadNext, IsParty
<1>2. Ledger!Worth(MM) = MmPayout
  <2>1. YesContracts[MM] \in Nat /\ NoContracts[MM] \in Nat
    BY <1>1 DEF Read
  <2>2. YesContracts[MM] = market.mm_yes /\ NoContracts[MM] = market.mm_no
    BY <1>1 DEF Read
  <2>3. QED
    BY <1>1, <2>1, <2>2, PayoutIsWorth DEF MmPayout
<1>3. /\ position' = position
      /\ market'.mm_yes = 0
      /\ market'.mm_no = 0
      /\ market'.mm_collateral = market.mm_collateral
      /\ market'.outcome = market.outcome
  BY DEF ClaimMmWinnings, MmRedeemed, TypeOK, MarketState
<1>4. FreeBalances' = FreeBalances
  BY <1>1, <1>3, SameAccounts DEF Read
<1>5. YesContracts' = [YesContracts EXCEPT ![MM] = 0]
  <2>1. /\ YesContracts'[MM] = 0
        /\ \A q \in Parties \ {MM} : YesContracts'[q] = YesContracts[q]
    BY <1>1, <1>3, IsParty DEF Read
  <2>2. QED
    BY <1>1, <2>1, OneAccount DEF Read
<1>6. NoContracts' = [NoContracts EXCEPT ![MM] = 0]
  <2>1. /\ NoContracts'[MM] = 0
        /\ \A q \in Parties \ {MM} : NoContracts'[q] = NoContracts[q]
    BY <1>1, <1>3, IsParty DEF Read
  <2>2. QED
    BY <1>1, <2>1, OneAccount DEF Read
<1>7. QED
  BY <1>2, <1>3, <1>4, <1>5, <1>6 DEF Ledger!Redeem, ClaimMmWinnings, TransferOut, Resolved

-----------------------------------------------------------------------------
(* Settlement is a trade. *)

(* Nobody pays more than $1 for a contract. *)
LEMMA AtMostOneDollar ==
  ASSUME NEW qty \in Nat, NEW price \in Nat, price <= SCALE_FACTOR
  PROVE  CollateralFor(qty, price) <= qty
PROOF
<1> DEFINE c == CollateralFor(qty, price)
           S == SCALE_FACTOR
<1>1. S \in Nat \ {0} /\ c \in Nat
  BY PricesAssumption, CollateralForType
<1>2. S * c <= qty * price
  BY CollateralForBounds
<1> HIDE DEF c
<1>3. qty * price <= qty * S
  BY <1>1
<1>4. SUFFICES ASSUME qty + 1 <= c
               PROVE  FALSE
  BY <1>1 DEF c
<1>5. S * (qty + 1) <= S * c
  BY <1>1, <1>4
<1>6. S * (qty + 1) = qty * S + S
  BY <1>1
<1>7. qty * price \in Nat /\ qty * S \in Nat /\ S * c \in Nat
  BY <1>1
<1>8. QED
  BY <1>1, <1>2, <1>3, <1>5, <1>6, <1>7

(* What a settlement does to each account. *)
LEMMA SettledAccounts ==
  ASSUME TypeOK, NEW f \in Frames, ApplySettlement(f), NEW u \in Users
  PROVE  /\ position[u].collateral = position'[u].collateral + TotalCost(f, u)
         /\ position'[u].yes_qty = position[u].yes_qty + YesAdd(f, u)
         /\ position'[u].no_qty = position[u].no_qty + NoAdd(f, u)
PROOF
<1>1. Exists
  BY DEF ApplySettlement, IsTrading, Exists
<1>2. /\ position[u] \in UserPosition
      /\ position[u].collateral \in Nat
      /\ position[u].yes_qty \in Nat
      /\ position[u].no_qty \in Nat
      /\ TotalCost(f, u) \in Nat
      /\ YesAdd(f, u) \in Nat
      /\ NoAdd(f, u) \in Nat
  BY <1>1, FillAmounts DEF TypeOK, UserPosition
<1>3. CASE u \in f.users
  <2>1. /\ position'[u].collateral = position[u].collateral - TotalCost(f, u)
        /\ position'[u].yes_qty = position[u].yes_qty + YesAdd(f, u)
        /\ position'[u].no_qty = position[u].no_qty + NoAdd(f, u)
    BY <1>2, <1>3 DEF ApplySettlement, SettledPosition, UserPosition
  <2>2. QED
    BY <1>2, <2>1
<1>4. CASE u \notin f.users
  <2>1. f.fills[u] = NoFill
    BY <1>4, FramesAssumption
  <2>2. \A price \in Nat : CollateralFor(0, price) = 0
    BY PricesAssumption DEF CollateralFor
  <2>3. HeavyResidual(f, u) = 0
    BY <2>1 DEF HeavyResidual, NoFill
  <2>4. TotalCost(f, u) = 0
    BY <1>1, <2>1, <2>2, <2>3, HeavyPriceBounds, PricesAssumption DEF TotalCost, NoFill
  <2>5. YesAdd(f, u) = 0 /\ NoAdd(f, u) = 0
    BY <2>1, <2>3 DEF YesAdd, NoAdd, NoFill
  <2>6. position'[u] = position[u]
    BY <1>4 DEF ApplySettlement
  <2>7. QED
    BY <1>2, <2>4, <2>5, <2>6
<1>5. QED
  BY <1>3, <1>4

(* The changes of all accounts, the market maker's among them. *)
Charge(f) == OfParties([u \in Users |-> TotalCost(f, u)], MmObligation(f))
NewYes(f) == OfParties([u \in Users |-> YesAdd(f, u)],
                       IF IsYesHeavy(f) THEN 0 ELSE f.net_imbalance)
NewNo(f)  == OfParties([u \in Users |-> NoAdd(f, u)],
                       IF IsYesHeavy(f) THEN f.net_imbalance ELSE 0)

LEMMA ChangesRead ==
  ASSUME TypeOK, NEW f \in Frames, Exists
  PROVE  /\ Charge(f) \in [Parties -> Nat]
         /\ NewYes(f) \in [Parties -> Nat]
         /\ NewNo(f) \in [Parties -> Nat]
         /\ \A u \in Users : /\ Charge(f)[u] = TotalCost(f, u)
                             /\ NewYes(f)[u] = YesAdd(f, u)
                             /\ NewNo(f)[u] = NoAdd(f, u)
         /\ Charge(f)[MM] = MmObligation(f)
         /\ NewYes(f)[MM] = IF IsYesHeavy(f) THEN 0 ELSE f.net_imbalance
         /\ NewNo(f)[MM] = IF IsYesHeavy(f) THEN f.net_imbalance ELSE 0
         /\ Total(Parties, Charge(f)) = Cost(f) + MmObligation(f)
         /\ Total(Parties, NewYes(f)) = AddYes(f) + (IF IsYesHeavy(f) THEN 0 ELSE f.net_imbalance)
         /\ Total(Parties, NewNo(f)) = AddNo(f) + (IF IsYesHeavy(f) THEN f.net_imbalance ELSE 0)
PROOF
<1> DEFINE c == [u \in Users |-> TotalCost(f, u)]
           y == [u \in Users |-> YesAdd(f, u)]
           n == [u \in Users |-> NoAdd(f, u)]
           my == IF IsYesHeavy(f) THEN 0 ELSE f.net_imbalance
           mn == IF IsYesHeavy(f) THEN f.net_imbalance ELSE 0
<1>1. c \in [Users -> Nat] /\ y \in [Users -> Nat] /\ n \in [Users -> Nat]
  BY FillAmounts
<1>2. my \in Nat /\ mn \in Nat /\ MmObligation(f) \in Nat
  BY FrameFields, MmObligationType
<1>3. /\ Charge(f) = OfParties(c, MmObligation(f))
      /\ NewYes(f) = OfParties(y, my)
      /\ NewNo(f) = OfParties(n, mn)
  BY DEF Charge, NewYes, NewNo
<1>4. \A u \in Users : c[u] = TotalCost(f, u) /\ y[u] = YesAdd(f, u) /\ n[u] = NoAdd(f, u)
  OBVIOUS
<1>5. /\ Cost(f) = Total(Users, c)
      /\ AddYes(f) = Total(Users, y)
      /\ AddNo(f) = Total(Users, n)
  BY DEF Cost, AddYes, AddNo, UserTotal
<1> HIDE DEF c, y, n, my, mn
<1>6. /\ Total(Parties, Charge(f)) = Cost(f) + MmObligation(f)
      /\ Total(Parties, NewYes(f)) = AddYes(f) + my
      /\ Total(Parties, NewNo(f)) = AddNo(f) + mn
  BY <1>1, <1>2, <1>3, <1>5, TotalOfParties
<1>7. /\ Charge(f) \in [Parties -> Nat]
      /\ NewYes(f) \in [Parties -> Nat]
      /\ NewNo(f) \in [Parties -> Nat]
  BY <1>1, <1>2, <1>3, OfPartiesFields
<1>8. \A u \in Users : Charge(f)[u] = c[u] /\ NewYes(f)[u] = y[u] /\ NewNo(f)[u] = n[u]
  BY <1>1, <1>2, <1>3, OfPartiesFields
<1>9. Charge(f)[MM] = MmObligation(f) /\ NewYes(f)[MM] = my /\ NewNo(f)[MM] = mn
  BY <1>1, <1>2, <1>3, OfPartiesFields
<1>10. QED
  BY <1>4, <1>6, <1>7, <1>8, <1>9 DEF my, mn

(* No account pays more than $1 for each contract it gets. *)
LEMMA ChargedForContracts ==
  ASSUME TypeOK, NEW f \in Frames, Exists, NEW p \in Parties
  PROVE  Charge(f)[p] <= NewYes(f)[p] + NewNo(f)[p]
PROOF
<1>1. HeavyPrice(f) \in Nat /\ SCALE_FACTOR - HeavyPrice(f) \in Nat /\ SCALE_FACTOR \in Nat
  BY HeavyPriceBounds, PricesAssumption
<1>2. CASE p \in Users
  <2> DEFINE q == f.fills[p].p2p_yes + f.fills[p].p2p_no
             r == HeavyResidual(f, p)
  <2>1. q \in Nat /\ r \in Nat /\ f.fills[p].p2p_yes \in Nat /\ f.fills[p].p2p_no \in Nat
    BY <1>2, FrameFields, FillAmounts
  <2>2. CollateralFor(q, MIDPOINT_PRICE) \in Nat /\ CollateralFor(q, MIDPOINT_PRICE) <= q
    BY <2>1, MidpointBounds
  <2>3. CollateralFor(r, HeavyPrice(f)) \in Nat /\ CollateralFor(r, HeavyPrice(f)) <= r
    BY <1>1, <2>1, AtMostOneDollar, CollateralForType
  <2>4. TotalCost(f, p) <= q + r
    BY <2>1, <2>2, <2>3 DEF TotalCost
  <2>5. YesAdd(f, p) + NoAdd(f, p) = q + r
    BY <2>1 DEF YesAdd, NoAdd
  <2>6. QED
    BY <1>2, <2>4, <2>5, ChangesRead
<1>3. CASE p = MM
  <2>1. f.net_imbalance \in Nat
    BY FrameFields
  <2>2. MmObligation(f) <= f.net_imbalance
    BY <1>1, <2>1, AtMostOneDollar DEF MmObligation
  <2>3. QED
    BY <1>3, <2>1, <2>2, ChangesRead
<1>4. QED
  BY <1>2, <1>3, IsParty

LEMMA SettlementMaps ==
  ASSUME TypeOK, TypeOK', LifecycleOK, NEW f \in Frames, ApplySettlement(f)
  PROVE  Ledger!Trade
PROOF
<1> DEFINE charge  == [a \in Parties |-> FreeBalances[a] - FreeBalances'[a]]
           new_yes == [a \in Parties |-> YesContracts'[a] - YesContracts[a]]
           new_no  == [a \in Parties |-> NoContracts'[a] - NoContracts[a]]
<1>1. Exists /\ EconomicsMatch(f) /\ Read /\ Read'
  BY AccountsRead, AccountsReadNext DEF ApplySettlement, IsTrading, Exists
<1>2. /\ market.mm_collateral = market'.mm_collateral + MmObligation(f)
      /\ market'.mm_yes = market.mm_yes + (IF IsYesHeavy(f) THEN 0 ELSE f.net_imbalance)
      /\ market'.mm_no = market.mm_no + (IF IsYesHeavy(f) THEN f.net_imbalance ELSE 0)
      /\ market'.outcome = market.outcome
  <2>1. MmObligation(f) \in Nat /\ market.mm_collateral \in Nat
    BY <1>1, MmObligationType DEF TypeOK, MarketState
  <2>2. market'.mm_collateral = market.mm_collateral - MmObligation(f)
    BY DEF ApplySettlement, SettledMarket, TypeOK, MarketState
  <2>3. market.mm_collateral = market'.mm_collateral + MmObligation(f)
    BY <2>1, <2>2
  <2>4. QED
    BY <2>3 DEF ApplySettlement, SettledMarket, TypeOK, MarketState
<1>3. ASSUME NEW a \in Parties
      PROVE  /\ FreeBalances[a] - FreeBalances'[a] = Charge(f)[a]
             /\ YesContracts'[a] - YesContracts[a] = NewYes(f)[a]
             /\ NoContracts'[a] - NoContracts[a] = NewNo(f)[a]
  <2>1. /\ FreeBalances[a] = FreeBalances'[a] + Charge(f)[a]
        /\ YesContracts'[a] = YesContracts[a] + NewYes(f)[a]
        /\ NoContracts'[a] = NoContracts[a] + NewNo(f)[a]
    <3>1. CASE a \in Users
      BY <1>1, <3>1, SettledAccounts, ChangesRead DEF Read
    <3>2. CASE a = MM
      BY <1>1, <1>2, <3>2, ChangesRead DEF Read
    <3>3. QED
      BY <3>1, <3>2, IsParty
  <2>2. /\ FreeBalances[a] \in Nat /\ FreeBalances'[a] \in Nat /\ Charge(f)[a] \in Nat
        /\ YesContracts[a] \in Nat /\ YesContracts'[a] \in Nat /\ NewYes(f)[a] \in Nat
        /\ NoContracts[a] \in Nat /\ NoContracts'[a] \in Nat /\ NewNo(f)[a] \in Nat
    BY <1>1, ChangesRead DEF Read
  <2>3. QED
    BY <2>1, <2>2
<1>4. charge = Charge(f) /\ new_yes = NewYes(f) /\ new_no = NewNo(f)
  <2>1. /\ Charge(f) \in [Parties -> Nat]
        /\ NewYes(f) \in [Parties -> Nat]
        /\ NewNo(f) \in [Parties -> Nat]
    BY <1>1, ChangesRead
  <2>2. charge = Charge(f)
    BY <1>3, <2>1
  <2>3. new_yes = NewYes(f)
    BY <1>3, <2>1
  <2>4. new_no = NewNo(f)
    BY <1>3, <2>1
  <2>5. QED
    BY <2>2, <2>3, <2>4
<1>5. /\ Total(Parties, charge) = Cost(f) + MmObligation(f)
      /\ Total(Parties, new_yes) = Created(f)
      /\ Total(Parties, new_no) = Created(f)
  <2>1. f.net_imbalance \in Nat
    BY FrameFields
  <2>2. QED
    BY <1>1, <1>4, <2>1, ChangesRead, AddedSupply DEF Created
<1>6. 3 * Cardinality(f.users) <= 3 * Cardinality(Parties)
  <2>1. f.users \subseteq Parties /\ IsFiniteSet(Parties)
    BY FrameFields, PartiesAssumption, FS_AddElement DEF Parties
  <2>2. /\ Cardinality(f.users) <= Cardinality(Parties)
        /\ Cardinality(Parties) \in Nat
        /\ Cardinality(f.users) \in Nat
    BY <2>1, FS_Subset, FS_CardinalityType
  <2>3. QED
    BY <2>2
<1>7. Ledger!Cardinality(Parties) = Cardinality(Parties)
  BY DEF Ledger!Cardinality, Cardinality
<1>8. market.outcome = OUTCOME_UNRESOLVED
  BY DEF ApplySettlement, IsTrading, IsClosed, LifecycleOK, Resolved, STATUS_TRADING, STATUS_CLOSED
<1>9. {FreeBalances', YesContracts', NoContracts', charge, new_yes, new_no} \subseteq Ledger!Balances
  BY <1>1, <1>4, ChangesRead DEF Read, Ledger!Balances
<1>10. \A a \in Parties : charge[a] <= new_yes[a] + new_no[a]
  BY <1>1, <1>4, ChargedForContracts
<1>11. /\ Cost(f) + MmObligation(f) <= Created(f)
       /\ 2 * (Created(f) - (Cost(f) + MmObligation(f))) <= 3 * Ledger!Cardinality(Parties)
  <2>1. /\ Cost(f) \in Nat /\ Created(f) \in Nat /\ MmObligation(f) \in Nat
        /\ Cardinality(f.users) \in Nat /\ Cardinality(Parties) \in Nat
    BY <1>1, SettlementLocks, MmObligationType, FrameFields, PartiesAssumption, FS_AddElement,
       FS_CardinalityType DEF Parties
  <2>2. QED
    BY <1>6, <1>7, <2>1, SettlementLocks
<1>12. UNCHANGED <<wallet, vault, market.outcome>>
  BY <1>2 DEF ApplySettlement
<1>13. /\ Ledger!Total(Parties, charge) = Cost(f) + MmObligation(f)
       /\ Ledger!Total(Parties, new_yes) = Created(f)
       /\ Ledger!Total(Parties, new_no) = Created(f)
  BY <1>5, LedgerTotal
<1> HIDE DEF charge, new_yes, new_no
<1>14. /\ market.outcome = OUTCOME_UNRESOLVED
       /\ {FreeBalances', YesContracts', NoContracts', charge, new_yes, new_no}
            \subseteq Ledger!Balances
       /\ Ledger!Total(Parties, new_no) = Ledger!Total(Parties, new_yes)
       /\ \A a \in Parties : charge[a] <= new_yes[a] + new_no[a]
       /\ Ledger!Total(Parties, charge) <= Ledger!Total(Parties, new_yes)
       /\ 2 * (Ledger!Total(Parties, new_yes) - Ledger!Total(Parties, charge))
             <= 3 * Ledger!Cardinality(Parties)
       /\ UNCHANGED <<wallet, vault, market.outcome>>
  BY <1>8, <1>9, <1>10, <1>11, <1>12, <1>13
<1>15. QED
  BY <1>14, Zenon DEF Ledger!Trade, charge, new_yes, new_no

-----------------------------------------------------------------------------
LEMMA EscrowInit == Init => Ledger!Init
PROOF
<1> SUFFICES ASSUME Init
             PROVE  Ledger!Init
  OBVIOUS
<1>1. TypeOK
  BY TypeOKInit
<1>2. Read
  BY <1>1, AccountsRead
<1>3. \A p \in Parties : FreeBalances[p] = 0 /\ YesContracts[p] = 0 /\ NoContracts[p] = 0
  BY <1>2, IsParty DEF Read, Init, NoMarket, NoPosition
<1>4. /\ FreeBalances = Ledger!Nothing
      /\ YesContracts = Ledger!Nothing
      /\ NoContracts = Ledger!Nothing
  BY <1>2, <1>3 DEF Read, Ledger!Nothing
<1>5. wallet \in Ledger!Balances /\ vault = 0 /\ market.outcome = OUTCOME_UNRESOLVED
  BY PartiesAssumption DEF Init, Ledger!Balances, NoMarket
<1>6. QED
  BY <1>4, <1>5 DEF Ledger!Init

LEMMA EscrowStep ==
  TypeOK /\ TypeOK' /\ LifecycleOK /\ [Next]_vars => [Ledger!Next]_(Ledger!vars)
PROOF
<1> SUFFICES ASSUME TypeOK, TypeOK', LifecycleOK, [Next]_vars
             PROVE  Ledger!Next \/ UNCHANGED Ledger!vars
  OBVIOUS
<1>1. ASSUME UNCHANGED vars
      PROVE  UNCHANGED Ledger!vars
  <2>1. Unnoticed
    BY <1>1 DEF vars, Unnoticed
  <2>2. QED
    BY <2>1, UnnoticedStutters
<1>2. ASSUME \/ \E risk \in RiskParams, trusted \in BOOLEAN : InitializeMarket(risk, trusted)
             \/ \E u \in Users : InitUserPosition(u)
             \/ \E risk \in RiskParams : UpdateRiskParams(risk)
             \/ CloseMarket
      PROVE  UNCHANGED Ledger!vars
  <2>1. Unnoticed
    BY <1>2, AdministrationStutters
  <2>2. QED
    BY <2>1, UnnoticedStutters
<1>3. ASSUME NEW u \in Users, NEW amount \in Amounts, DepositCollateral(u, amount)
      PROVE  Ledger!Next
  BY <1>3, DepositMaps, IsParty DEF Ledger!Next
<1>4. ASSUME NEW u \in Users, NEW amount \in Amounts, WithdrawCollateral(u, amount)
      PROVE  Ledger!Next
  BY <1>4, WithdrawalMaps, IsParty DEF Ledger!Next
<1>5. ASSUME NEW p \in Parties, NEW amount \in Amounts, DepositMmCollateral(p, amount)
      PROVE  Ledger!Next
  BY <1>5, MmDepositMaps, IsParty DEF Ledger!Next
<1>6. ASSUME NEW amount \in Amounts, WithdrawMmCollateral(amount)
      PROVE  Ledger!Next
  BY <1>6, MmWithdrawalMaps, IsParty DEF Ledger!Next
<1>7. ASSUME NEW f \in Frames, ApplySettlement(f)
      PROVE  Ledger!Next
  BY <1>7, SettlementMaps DEF Ledger!Next
<1>8. ASSUME NEW outcome \in FinalOutcomes, ResolveMarket(outcome)
      PROVE  Ledger!Next
  BY <1>8, ResolutionMaps DEF Ledger!Next
<1>9. ASSUME NEW u \in Users, ClaimWinnings(u)
      PROVE  Ledger!Next
  BY <1>9, ClaimMaps, IsParty DEF Ledger!Next
<1>10. ASSUME ClaimMmWinnings
       PROVE  Ledger!Next
  BY <1>10, MmClaimMaps, IsParty DEF Ledger!Next
<1>11. QED
  BY <1>1, <1>2, <1>3, <1>4, <1>5, <1>6, <1>7, <1>8, <1>9, <1>10
     DEF Next, SubmitBatch, SubmitBatchTrusted

(* The settlement program implements the escrow: whatever instructions are  *)
(* given in whatever order, tokens and contracts move only as the escrow    *)
(* lets them, and every account is paid exactly once for what it holds.     *)
THEOREM EscrowIsImplemented == Spec => ImplementsEscrow
PROOF
<1>1. TypeOK /\ TypeOK' /\ LifecycleOK /\ [Next]_vars => [Ledger!Next]_(Ledger!vars)
  BY EscrowStep
<1>2. QED
  BY EscrowInit, <1>1, TypeCorrect, LifecycleCorrect, PTL DEF Spec, ImplementsEscrow, Ledger!Spec

=============================================================================
