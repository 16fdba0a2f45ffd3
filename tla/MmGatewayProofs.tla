-------------------------- MODULE MmGatewayProofs --------------------------
(***************************************************************************)
(* Theorems about MmGateway, for any residuals, conditions, policy, initial *)
(* parameters and bounds that satisfy GatewayAssumption.                    *)
(***************************************************************************)
EXTENDS MmGateway, TotalsProofs, SequenceTheorems

-----------------------------------------------------------------------------
(* Types. *)

ValidRisk == {risk \in RiskParams : Validates(risk)}

SettledBatch == [direction : Directions, net_imbalance : 0 .. U64Max, risk : ValidRisk]

SettlementEvent == [epoch : Nat, direction : Directions, net_imbalance : 0 .. U64Max]

HedgeOrder ==
  [epoch : Nat, side : {"Yes", "No"}, qty : 0 .. U64Max, limit_price : Int, risk : ValidRisk]

(* What the venue has yet to answer, and the gateway. *)
Unanswered == {<<>>} \cup {<<o>> : o \in HedgeOrder}

GatewayState ==
  [up : BOOLEAN, params : ValidRisk, running : BOOLEAN, max_events : SUBSET Nat,
   processed : Nat, order : Unanswered, outcomes : Seq(HedgeOrder)]

History == [starts : Nat, retunes : Nat, serial : BOOLEAN, returned : Nat, failed : BOOLEAN]

(* A run that goes on has an event left, and one that is over has handed    *)
(* its outcomes out.                                                        *)
RunBounded ==
  /\ \A m \in gateway.max_events :
       IF gateway.running THEN gateway.processed < Larger(m, 1)
                          ELSE gateway.processed <= Larger(m, 1)
  /\ gateway.running => gateway.up
  /\ gateway.order # <<>> => gateway.running
  /\ ~gateway.running => gateway.outcomes = <<>>

Typed ==
  /\ chain \in [risk : ValidRisk, settled : Seq(SettledBatch)]
  /\ stream \in [connected : BOOLEAN, events : Seq(SettlementEvent)]
  /\ updates \subseteq ValidRisk
  /\ gateway \in GatewayState
  /\ venue \in Seq([order : HedgeOrder, filled : Nat])
  /\ history \in History
  /\ RunBounded

(* Both prices are clamped, and the complement of a price is a price.       *)
LEMMA PremiumType ==
  ASSUME NEW net \in Nat, NEW risk \in ValidRisk
  PROVE  SkewPremium(net, risk.max_skew_premium, risk.imbalance_threshold) \in Nat
<1> DEFINE ratio == Smaller((net * SCALE_FACTOR) \div risk.imbalance_threshold, SCALE_FACTOR)
<1>1. \A n \in Nat, d \in Nat \ {0} : n \div d \in Nat
  OBVIOUS
<1>2. /\ risk.max_skew_premium \in Nat
      /\ risk.imbalance_threshold \in Nat \ {0}
      /\ SCALE_FACTOR \in Nat \ {0}
  BY PricesAssumption DEF ValidRisk, RiskParams, Validates
<1>3. net * SCALE_FACTOR \in Nat
  BY <1>2
<1>4. ratio \in Nat
  BY <1>1, <1>2, <1>3 DEF Smaller
<1>5. risk.max_skew_premium * ratio \in Nat
  BY <1>2, <1>4
<1> QED
  BY <1>1, <1>2, <1>5 DEF SkewPremium

(* The saturating arithmetic of the gateway and the program's meet in the   *)
(* clamp: the price ceiling is a u64.                                       *)
LEMMA SamePrice ==
  ASSUME NEW net \in Nat, NEW direction, NEW risk \in ValidRisk
  PROVE  /\ HedgeClearingPrice(net, direction, risk) = ClearingPrice(net, direction, risk)
         /\ ClearingPrice(net, direction, risk) \in Nat
<1> DEFINE premium == SkewPremium(net, risk.max_skew_premium, risk.imbalance_threshold)
<1>1. premium \in Nat /\ risk.base_oracle_price \in Nat
  BY PremiumType DEF ValidRisk, RiskParams
<1>2. ASSUME NEW p \in Nat
      PROVE  Clamp(SaturatingU64(p)) = Clamp(p) /\ Clamp(p) \in Nat
  BY PricesAssumption, SizesAssumption, GatewayAssumption
     DEF Clamp, SaturatingU64, Smaller, Larger
<1>3. risk.base_oracle_price + premium \in Nat /\ Larger(risk.base_oracle_price - premium, 0) \in Nat
  BY <1>1 DEF Larger
<1> QED
  BY <1>2, <1>3 DEF HedgeClearingPrice, ClearingPrice

LEMMA LimitPriceType ==
  ASSUME NEW e, e.net_imbalance \in Nat, NEW risk \in ValidRisk
  PROVE  LimitPrice(e, risk) \in Int
BY SamePrice, PricesAssumption DEF LimitPrice

LEMMA HedgeType ==
  ASSUME NEW e \in SettlementEvent, NEW risk \in ValidRisk
  PROVE  ComputeHedge(e, risk) \in HedgeOrder
<1>1. e.epoch \in Nat /\ e.net_imbalance \in 0 .. U64Max /\ e.net_imbalance \in Nat
  BY SizesAssumption DEF SettlementEvent
<1>2. LimitPrice(e, risk) \in Int
  BY <1>1, LimitPriceType
<1> QED
  BY <1>1, <1>2 DEF ComputeHedge, HedgeOrder, HedgeSide

(* What the policy proposes is a set of parameters, whatever the volatility. *)
LEMMA TargetType ==
  ASSUME NEW c \in Conditions, Validates(Target(c))
  PROVE  Target(c) \in ValidRisk
<1>1. /\ c.implied_vol \in Nat /\ c.fair_value \in Nat
      /\ Policy.premium_per_bp \in Nat /\ Policy.base_threshold \in Nat
      /\ Policy.threshold_tighten_per_bp \in Nat /\ Policy.min_threshold \in Nat
  BY GatewayAssumption, SizesAssumption
<1>2. /\ c.implied_vol * Policy.premium_per_bp \in Nat
      /\ c.implied_vol * Policy.threshold_tighten_per_bp \in Nat
  BY <1>1
<1>3. /\ MIN_PRICE \in Nat /\ MAX_PRICE \in Nat /\ U64Max \in Nat
  BY PricesAssumption, SizesAssumption
<1>4. \A n \in Nat : SaturatingU64(n) \in Nat
  BY <1>3 DEF SaturatingU64, Smaller
<1>5. Clamp(c.fair_value) \in Nat
  BY <1>1, <1>3 DEF Clamp, Smaller, Larger
<1>6. Smaller(SaturatingU64(c.implied_vol * Policy.premium_per_bp), MAX_PRICE) \in Nat
  BY <1>2, <1>3, <1>4 DEF Smaller
<1>7. \A t \in Nat :
        Larger(Larger(Policy.base_threshold - t, 0), Larger(Policy.min_threshold, 1)) \in Nat
  BY <1>1 DEF Larger
<1>8. Target(c) \in RiskParams
  BY <1>2, <1>4, <1>5, <1>6, <1>7 DEF Target, RiskParams
<1> QED
  BY <1>8 DEF ValidRisk

LEMMA TypedInit == Init => Typed
<1> SUFFICES ASSUME Init
             PROVE  Typed
  OBVIOUS
<1>1. InitialRisk \in ValidRisk
  BY GatewayAssumption DEF ValidRisk
<1>2. <<>> \in Seq(HedgeOrder) /\ <<>> \in Seq(SettlementEvent) /\ <<>> \in Unanswered
  BY EmptySeq DEF Unanswered
<1>3. Down \in GatewayState
  BY <1>1, <1>2 DEF Down, GatewayState
<1>4. RunBounded
  BY DEF Init, Down, RunBounded
<1>5. <<>> \in Seq(SettledBatch) /\ <<>> \in Seq([order : HedgeOrder, filled : Nat])
  BY EmptySeq
<1>6. chain \in [risk : ValidRisk, settled : Seq(SettledBatch)]
  BY <1>1, <1>5 DEF Init
<1>7. stream \in [connected : BOOLEAN, events : Seq(SettlementEvent)]
  BY <1>2 DEF Init
<1>8. history \in History
  BY DEF Init, History
<1> QED
  BY <1>3, <1>4, <1>5, <1>6, <1>7, <1>8 DEF Init, Typed

(* The end of an event's processing, and the end of a run by an error.      *)
LEMMA ProcessedTypes ==
  ASSUME Typed, gateway.running, NEW outcomes \in Seq(HedgeOrder), Processed(outcomes)
  PROVE  /\ gateway' \in GatewayState
         /\ history' \in History
         /\ RunBounded'
<1>1. <<>> \in Seq(HedgeOrder) /\ <<>> \in Unanswered /\ Len(outcomes) \in Nat
  BY EmptySeq, LenProperties DEF Unanswered
<1>0. gateway \in GatewayState
  BY DEF Typed
<1>3. \A m \in gateway.max_events : m \in Nat /\ gateway.processed \in Nat
  BY DEF Typed, GatewayState, History
<1>4. history.returned + Len(outcomes) \in Nat
  BY <1>1 DEF Typed, GatewayState, History
<1>5. /\ gateway' \in GatewayState
      /\ gateway'.up = gateway.up /\ gateway'.running = ~IsLastEvent /\ gateway'.order = <<>>
      /\ gateway'.outcomes = (IF IsLastEvent THEN <<>> ELSE outcomes)
      /\ gateway'.processed = gateway.processed + 1
      /\ gateway'.max_events = gateway.max_events
  <2> DEFINE next == gateway.processed + 1
  <2>n. next \in Nat
    BY <1>0 DEF GatewayState
  <2>1. CASE IsLastEvent
    <3>1. gateway' = [gateway EXCEPT !.processed = next, !.order = <<>>, !.outcomes = <<>>,
                                     !.running = FALSE]
      BY <2>1 DEF Processed
    <3> HIDE DEF next
    <3>2. gateway' \in GatewayState
      BY <1>0, <1>1, <2>n, <3>1 DEF GatewayState
    <3> QED
      BY <1>0, <2>1, <3>1, <3>2 DEF GatewayState, next
  <2>2. CASE ~IsLastEvent
    <3>1. gateway' = [gateway EXCEPT !.processed = next, !.order = <<>>, !.outcomes = outcomes,
                                     !.running = TRUE]
      BY <2>2 DEF Processed
    <3> HIDE DEF next
    <3>2. gateway' \in GatewayState
      BY <1>0, <1>1, <2>n, <3>1 DEF GatewayState
    <3> QED
      BY <1>0, <2>2, <3>1, <3>2 DEF GatewayState, next
  <2> QED
    BY <2>1, <2>2
<1>6. history' \in History
  BY <1>4 DEF Processed, Typed, GatewayState, History
<1>7. ASSUME NEW m \in gateway.max_events
      PROVE  IF ~IsLastEvent THEN gateway.processed + 1 < Larger(m, 1)
                             ELSE gateway.processed + 1 <= Larger(m, 1)
  <2>1. gateway.processed < Larger(m, 1)
    BY DEF Typed, RunBounded, GatewayState, History
  <2>2. ~IsLastEvent => gateway.processed + 1 < m
    BY <1>3 DEF IsLastEvent
  <2> QED
    BY <1>3, <2>1, <2>2 DEF Larger
<1>8. gateway.up
  BY DEF Typed, RunBounded, GatewayState, History
<1> QED
  BY <1>1, <1>5, <1>6, <1>7, <1>8 DEF RunBounded

LEMMA RunFailsTypes ==
  ASSUME Typed, gateway.running, RunFails
  PROVE  /\ gateway' \in GatewayState
         /\ history' \in History
         /\ RunBounded'
<1>1. <<>> \in Seq(HedgeOrder) /\ <<>> \in Unanswered
  BY EmptySeq DEF Unanswered
<1>2. /\ gateway' \in GatewayState
      /\ gateway'.up = gateway.up /\ gateway'.running = FALSE /\ gateway'.order = <<>>
      /\ gateway'.outcomes = <<>> /\ gateway'.processed = gateway.processed
      /\ gateway'.max_events = gateway.max_events
  BY <1>1 DEF RunFails, Typed, GatewayState, History
<1>3. \A m \in gateway.max_events : gateway.processed <= Larger(m, 1)
  <2>1. \A m \in gateway.max_events : m \in Nat /\ gateway.processed \in Nat
    BY DEF Typed, GatewayState, History
  <2> QED
    BY <2>1 DEF Typed, RunBounded, GatewayState, History, Larger
<1>4. RunBounded'
  BY <1>1, <1>2, <1>3 DEF RunBounded
<1>5. history' \in History
  BY DEF RunFails, Typed, GatewayState, History
<1> QED
  BY <1>2, <1>4, <1>5

(* An order on its way is the only one, and a run is waiting for it.        *)
LEMMA OrderOnItsWay ==
  ASSUME Typed, AwaitsVenue
  PROVE  /\ gateway.running
         /\ gateway.order[1] \in HedgeOrder
         /\ gateway.order = <<gateway.order[1]>>
<1>1. gateway.order \in Unanswered /\ gateway.order # <<>>
  BY DEF Typed, GatewayState, AwaitsVenue
<1>2. PICK o \in HedgeOrder : gateway.order = <<o>>
  BY <1>1 DEF Unanswered
<1>3. <<o>>[1] = o
  OBVIOUS
<1> QED
  BY <1>2, <1>3 DEF Typed, RunBounded, GatewayState, History, AwaitsVenue

LEMMA TypedStep == Typed /\ [Next]_vars => Typed'
<1> SUFFICES ASSUME Typed, [Next]_vars
             PROVE  Typed'
  OBVIOUS
<1>e. <<>> \in Seq(HedgeOrder) /\ <<>> \in Seq(SettlementEvent) /\ <<>> \in Unanswered
  BY EmptySeq DEF Unanswered
<1>r. InitialRisk \in ValidRisk
  BY GatewayAssumption DEF ValidRisk
<1>1. ASSUME NEW r \in Residuals, SettleBatch(r)
      PROVE  Typed'
  <2>1. r.direction \in Directions /\ r.net_imbalance \in 0 .. U64Max
    BY GatewayAssumption
  <2> DEFINE b == [direction |-> r.direction, net_imbalance |-> r.net_imbalance, risk |-> chain.risk]
             e == [epoch |-> Len(chain.settled) + 1, direction |-> r.direction,
                   net_imbalance |-> r.net_imbalance]
  <2>2. b \in SettledBatch
    BY <2>1 DEF SettledBatch, Typed, GatewayState, History
  <2>3. e \in SettlementEvent
    BY <2>1, LenProperties DEF SettlementEvent, Typed, GatewayState, History
  <2>4. chain' \in [risk : ValidRisk, settled : Seq(SettledBatch)]
    <3>1. Append(chain.settled, b) \in Seq(SettledBatch)
      BY <2>2, AppendProperties DEF Typed, GatewayState, History
    <3> QED
      BY <1>1, <3>1 DEF SettleBatch, Typed, GatewayState, History
  <2>5. stream' \in [connected : BOOLEAN, events : Seq(SettlementEvent)]
    <3>1. Append(stream.events, e) \in Seq(SettlementEvent)
      BY <2>3, AppendProperties DEF Typed, GatewayState, History
    <3> QED
      BY <1>1, <3>1 DEF SettleBatch, Typed, GatewayState, History
  <2> QED
    BY <1>1, <2>4, <2>5 DEF SettleBatch, Typed, RunBounded, GatewayState, History
<1>2. ASSUME NEW risk \in updates, ExecuteUpdate(risk) \/ DropUpdate(risk)
      PROVE  Typed'
  BY <1>2 DEF ExecuteUpdate, DropUpdate, Typed, RunBounded, GatewayState, History
<1>3. CASE Disconnect
  BY <1>3 DEF Disconnect, Typed, RunBounded, GatewayState, History
<1>4. CASE Start
  <2> DEFINE starts == history.starts + 1
  <2>1. starts \in Nat /\ history \in History /\ chain.risk \in ValidRisk
    BY DEF Typed, History
  <2>2. history' = [history EXCEPT !.starts = starts, !.serial = (updates = {})]
    BY <1>4 DEF Start
  <2> HIDE DEF starts
  <2>3. history' \in History
    BY <2>1, <2>2 DEF History
  <2>4. gateway' \in GatewayState
    BY <1>4, <1>e, <2>1 DEF Start, Down, GatewayState
  <2>5. stream' \in [connected : BOOLEAN, events : Seq(SettlementEvent)]
    BY <1>4, <1>e DEF Start
  <2>6. RunBounded'
    BY <1>4 DEF Start, Down, RunBounded
  <2> QED
    BY <1>4, <2>3, <2>4, <2>5, <2>6 DEF Start, Typed
<1>5. CASE Crash
  BY <1>5, <1>e, <1>r DEF Crash, Down, Typed, RunBounded, GatewayState, History
<1>6. ASSUME NEW max_events \in MaxEvents, StartRun(max_events)
      PROVE  Typed'
  <2>1. max_events \in SUBSET Nat
    BY GatewayAssumption
  <2>2. /\ gateway' \in GatewayState
        /\ gateway'.up /\ gateway'.running /\ gateway'.max_events = max_events
        /\ gateway'.processed = 0 /\ gateway'.order = gateway.order
    BY <1>6, <1>e, <2>1 DEF StartRun, Typed, GatewayState, History
  <2>3. \A m \in max_events : 0 < Larger(m, 1)
    BY <2>1 DEF Larger
  <2>4. RunBounded'
    BY <2>2, <2>3 DEF RunBounded, Typed, GatewayState, History
  <2> QED
    BY <1>6, <2>2, <2>4 DEF StartRun, Typed, GatewayState, History
<1>7. CASE NextEvent
  <2>1. gateway.running /\ stream.events \in Seq(SettlementEvent) /\ stream.events # <<>>
    BY <1>7 DEF NextEvent, AwaitsEvent, Typed, GatewayState, History
  <2>2. /\ Head(stream.events) \in SettlementEvent
        /\ Tail(stream.events) \in Seq(SettlementEvent)
    BY <2>1, HeadTailProperties
  <2>3. stream' \in [connected : BOOLEAN, events : Seq(SettlementEvent)]
    BY <1>7, <2>2 DEF NextEvent, LaterEvents, Typed, GatewayState, History
  <2>4. CASE HasResidual(Head(stream.events))
    <3> DEFINE o == ComputeHedge(Head(stream.events), gateway.params)
    <3>1. o \in HedgeOrder
      BY <2>2, HedgeType DEF Typed, GatewayState, History
    <3> HIDE DEF o
    <3>2. <<o>> \in Unanswered
      BY <3>1 DEF Unanswered
    <3>3. gateway' = [gateway EXCEPT !.order = <<o>>] /\ UNCHANGED history
      BY <1>7, <2>4 DEF NextEvent, o
    <3>4. UNCHANGED <<chain, updates, venue>>
      BY <1>7 DEF NextEvent
    <3> QED
      BY <2>1, <2>3, <3>2, <3>3, <3>4 DEF Typed, RunBounded, GatewayState, History
  <2>5. CASE ~HasResidual(Head(stream.events))
    <3>1. Processed(gateway.outcomes) /\ gateway.outcomes \in Seq(HedgeOrder)
      BY <1>7, <2>5 DEF NextEvent, Typed, GatewayState, History
    <3>2. UNCHANGED <<chain, updates, venue>>
      BY <1>7 DEF NextEvent
    <3> QED
      BY <2>1, <2>3, <3>1, <3>2, ProcessedTypes DEF Typed, GatewayState, History
  <2> QED
    BY <2>4, <2>5
<1>8. CASE StreamEnds
  <2>1. gateway.running /\ gateway.order = <<>>
    BY <1>8 DEF StreamEnds, AwaitsEvent
  <2>2. Len(gateway.outcomes) \in Nat
    BY LenProperties DEF Typed, GatewayState, History
  <2>3. /\ gateway' \in GatewayState
        /\ gateway'.running = FALSE /\ gateway'.max_events = gateway.max_events
        /\ gateway'.processed = gateway.processed /\ gateway'.order = <<>>
        /\ gateway'.outcomes = <<>>
    BY <1>8, <1>e, <2>1 DEF StreamEnds, Typed, GatewayState, History
  <2>4. \A m \in gateway.max_events : gateway.processed <= Larger(m, 1)
    <3>1. \A m \in gateway.max_events : m \in Nat /\ gateway.processed \in Nat
      BY DEF Typed, GatewayState, History
    <3> QED
      BY <3>1 DEF Typed, RunBounded, GatewayState, History, Larger
  <2>5. RunBounded'
    BY <1>e, <2>3, <2>4 DEF RunBounded
  <2>6. history' \in History
    <3> DEFINE returned == history.returned + Len(gateway.outcomes)
    <3>1. returned \in Nat /\ history \in History
      BY <2>2 DEF Typed, History
    <3>2. history' = [history EXCEPT !.returned = returned]
      BY <1>8 DEF StreamEnds
    <3> HIDE DEF returned
    <3> QED
      BY <3>1, <3>2 DEF History
  <2> QED
    BY <1>8, <2>3, <2>5, <2>6 DEF StreamEnds, Typed
<1>9. CASE StreamFails
  <2>1. gateway.running /\ RunFails
    BY <1>9 DEF StreamFails, AwaitsEvent
  <2> QED
    BY <1>9, <1>e, <2>1, RunFailsTypes DEF StreamFails, Typed, GatewayState, History
<1>10. CASE PlaceRefused
  <2>1. gateway.running /\ RunFails
    BY <1>10, OrderOnItsWay DEF PlaceRefused
  <2> QED
    BY <1>10, <2>1, RunFailsTypes DEF PlaceRefused, Typed, GatewayState, History
<1>11. ASSUME AwaitsVenue, NEW filled \in Fills, PlaceAcknowledged(filled) \/ PlaceUnanswered(filled)
       PROVE  Typed'
  <2>1. gateway.running /\ gateway.order[1] \in HedgeOrder
    BY <1>11, OrderOnItsWay
  <2>2. filled \in Nat
    BY <2>1, SizesAssumption DEF Fills, HedgeOrder
  <2>3. venue' \in Seq([order : HedgeOrder, filled : Nat])
    <3>1. [order |-> gateway.order[1], filled |-> filled] \in [order : HedgeOrder, filled : Nat]
      BY <2>1, <2>2
    <3> QED
      <4>1. venue' = Append(venue, [order |-> gateway.order[1], filled |-> filled])
        BY <1>11 DEF PlaceAcknowledged, PlaceUnanswered, TakenByVenue
      <4>2. venue \in Seq([order : HedgeOrder, filled : Nat])
        BY DEF Typed
      <4> QED
        BY <3>1, <4>1, <4>2, AppendProperties
  <2>4. UNCHANGED <<chain, stream, updates>>
    BY <1>11 DEF PlaceAcknowledged, PlaceUnanswered
  <2>5. CASE PlaceAcknowledged(filled)
    <3>1. Outcomes(filled) \in Seq(HedgeOrder)
      BY <2>1, AppendProperties DEF Outcomes, Typed, GatewayState, History
    <3> QED
      BY <2>1, <2>3, <2>4, <2>5, <3>1, ProcessedTypes DEF PlaceAcknowledged, Typed, GatewayState, History
  <2>6. CASE PlaceUnanswered(filled)
    BY <2>1, <2>3, <2>4, <2>6, RunFailsTypes DEF PlaceUnanswered, Typed, GatewayState, History
  <2> QED
    BY <1>11, <2>5, <2>6
<1>12. ASSUME NEW c \in Conditions, RetuneAnswered(c) \/ RetuneUnanswered(c)
       PROVE  Typed'
  <2>1. Target(c) \in ValidRisk /\ gateway \in GatewayState /\ history \in History
    BY <1>12, TargetType DEF RetuneAnswered, RetuneUnanswered, CanRetune, Typed
  <2>2. updates' \subseteq ValidRisk /\ UNCHANGED <<chain, stream, venue>>
    BY <1>12, <2>1 DEF RetuneAnswered, RetuneUnanswered, Broadcast, Typed
  <2>3. gateway' \in GatewayState
    BY <1>12, <2>1 DEF RetuneAnswered, RetuneUnanswered, AdoptedParams, GatewayState
  <2>4. history' \in History
    <3> DEFINE retunes == history.retunes + 1
    <3>1. retunes \in Nat
      BY <2>1 DEF History
    <3>2. PICK serial \in BOOLEAN : history' = [history EXCEPT !.retunes = retunes, !.serial = serial]
      BY <1>12 DEF RetuneAnswered, RetuneUnanswered
    <3> HIDE DEF retunes
    <3> QED
      BY <2>1, <3>1, <3>2 DEF History
  <2>5. RunBounded'
    <3>1. /\ gateway'.max_events = gateway.max_events /\ gateway'.running = gateway.running
          /\ gateway'.processed = gateway.processed /\ gateway'.up = gateway.up
          /\ gateway'.order = gateway.order /\ gateway'.outcomes = gateway.outcomes
      BY <1>12, <2>1 DEF RetuneAnswered, RetuneUnanswered, AdoptedParams, GatewayState
    <3> QED
      BY <3>1 DEF Typed, RunBounded
  <2> QED
    BY <2>2, <2>3, <2>4, <2>5 DEF Typed
<1>13. CASE UNCHANGED vars
  BY <1>13 DEF vars, Typed, RunBounded, GatewayState, History
<1> QED
  BY <1>1, <1>2, <1>3, <1>4, <1>5, <1>6, <1>7, <1>8, <1>9, <1>10, <1>11, <1>12, <1>13 DEF Next

LEMMA AlwaysTyped == Spec => []Typed
<1> QED
  BY TypedInit, TypedStep, PTL DEF Spec

(* The parameters on the chain and those of the gateway are always ones     *)
(* that the program accepts, and a bounded run keeps to its bound.          *)
THEOREM GatewayIsTyped == Spec => []TypeOK
<1>1. Typed => TypeOK
  <2> SUFFICES ASSUME Typed
               PROVE  TypeOK
    OBVIOUS
  <2>1. \A m \in gateway.max_events : m \in Nat /\ gateway.processed \in Nat
    BY DEF Typed, GatewayState, History
  <2>2. \A m \in gateway.max_events : gateway.processed <= Larger(m, 1)
    BY <2>1 DEF Typed, RunBounded, GatewayState, History, Larger
  <2> QED
    BY <2>2 DEF Typed, RunBounded, GatewayState, History, TypeOK, ValidRisk
<1> QED
  BY <1>1, AlwaysTyped, PTL

-----------------------------------------------------------------------------
(* The gateway's parameters. *)

(* An update that is answered while no other is under way is the only one   *)
(* until it has been executed.                                              *)
Synced ==
  history.serial /\ gateway.up =>
    IF updates = {} THEN gateway.params = chain.risk ELSE updates = {gateway.params}

LEMMA SyncedStep == Typed /\ Synced /\ [Next]_vars => Synced'
<1> SUFFICES ASSUME Typed, Synced, [Next]_vars
             PROVE  Synced'
  OBVIOUS
<1>0. /\ gateway \in GatewayState
      /\ history \in History
      /\ chain \in [risk : ValidRisk, settled : Seq(SettledBatch)]
  BY DEF Typed
<1>1. ASSUME UNCHANGED updates, gateway'.up = gateway.up, gateway'.params = gateway.params,
             chain'.risk = chain.risk, history'.serial = history.serial
      PROVE  Synced'
  BY <1>1 DEF Synced
<1>2. ASSUME NEW outcomes, Processed(outcomes)
      PROVE  /\ gateway'.up = gateway.up /\ gateway'.params = gateway.params
             /\ history'.serial = history.serial
  BY <1>0, <1>2 DEF Processed, GatewayState, History
<1>3. ASSUME RunFails
      PROVE  /\ gateway'.up = gateway.up /\ gateway'.params = gateway.params
             /\ history'.serial = history.serial
  BY <1>0, <1>3 DEF RunFails, GatewayState, History
<1>4. ASSUME NEW r \in Residuals, SettleBatch(r)
      PROVE  Synced'
  BY <1>0, <1>1, <1>4 DEF SettleBatch
<1>5. ASSUME NEW risk \in updates, ExecuteUpdate(risk)
      PROVE  Synced'
  <2>1. chain'.risk = risk /\ updates' = updates \ {risk} /\ UNCHANGED <<gateway, history>>
    BY <1>0, <1>5 DEF ExecuteUpdate
  <2> QED
    BY <2>1 DEF Synced
<1>6. ASSUME NEW risk \in updates, DropUpdate(risk)
      PROVE  Synced'
  BY <1>0, <1>6 DEF DropUpdate, Synced, History
<1>7. CASE Disconnect
  BY <1>1, <1>7 DEF Disconnect
<1>8. CASE Start
  <2>1. updates' = updates /\ gateway'.params = chain.risk /\ chain' = chain
    BY <1>8 DEF Start, Down
  <2>2. history'.serial = (updates = {})
    BY <1>0, <1>8 DEF Start, History
  <2> QED
    BY <2>1, <2>2 DEF Synced
<1>9. CASE Crash
  BY <1>9 DEF Crash, Down, Synced
<1>10. ASSUME NEW max_events \in MaxEvents, StartRun(max_events)
       PROVE  Synced'
  BY <1>0, <1>1, <1>10 DEF StartRun, GatewayState
<1>11. CASE NextEvent
  <2>1. CASE HasResidual(Head(stream.events))
    BY <1>0, <1>1, <1>11, <2>1 DEF NextEvent, GatewayState
  <2>2. CASE ~HasResidual(Head(stream.events))
    BY <1>1, <1>2, <1>11, <2>2 DEF NextEvent
  <2> QED
    BY <2>1, <2>2
<1>12. CASE StreamEnds
  BY <1>0, <1>1, <1>12 DEF StreamEnds, GatewayState, History
<1>13. CASE StreamFails \/ PlaceRefused
  BY <1>1, <1>3, <1>13 DEF StreamFails, PlaceRefused
<1>14. ASSUME AwaitsVenue, NEW filled \in Fills, PlaceAcknowledged(filled) \/ PlaceUnanswered(filled)
       PROVE  Synced'
  <2>1. UNCHANGED <<chain, updates>>
    BY <1>14 DEF PlaceAcknowledged, PlaceUnanswered
  <2>2. Processed(Outcomes(filled)) \/ RunFails
    BY <1>14 DEF PlaceAcknowledged, PlaceUnanswered
  <2> QED
    BY <1>1, <1>2, <1>3, <2>1, <2>2
<1>15. ASSUME NEW c \in Conditions, RetuneAnswered(c)
       PROVE  Synced'
  <2>1. updates' = updates \cup {Target(c)} /\ gateway'.params = Target(c)
    BY <1>0, <1>15 DEF RetuneAnswered, Broadcast, AdoptedParams, GatewayState
  <2>2. history'.serial = (updates = {})
    BY <1>0, <1>15 DEF RetuneAnswered, History
  <2> QED
    BY <2>1, <2>2 DEF Synced
<1>16. ASSUME NEW c \in Conditions, RetuneUnanswered(c)
       PROVE  Synced'
  <2>1. history'.serial = FALSE
    BY <1>0, <1>16 DEF RetuneUnanswered, History
  <2> QED
    BY <2>1 DEF Synced
<1>17. CASE UNCHANGED vars
  BY <1>1, <1>17 DEF vars
<1> QED
  BY <1>4, <1>5, <1>6, <1>7, <1>8, <1>9, <1>10, <1>11, <1>12, <1>13, <1>14, <1>15, <1>16, <1>17
     DEF Next

(* Once the updates have landed, one at a time, the gateway hedges with the *)
(* parameters that are live.                                                *)
THEOREM SerialRetunesSync == Spec => []SyncedBySerialRetunes
<1>1. Init => Synced
  BY DEF Init, Down, Synced
<1>2. Synced => SyncedBySerialRetunes
  BY DEF Synced, SyncedBySerialRetunes
<1> QED
  BY <1>1, <1>2, SyncedStep, AlwaysTyped, PTL DEF Spec

-----------------------------------------------------------------------------
(* The outcomes of the runs. *)

LEMMA AppendedLength ==
  ASSUME NEW S, NEW s \in Seq(S), NEW x \in S
  PROVE  Len(Append(s, x)) = Len(s) + 1 /\ Len(s) \in Nat
BY AppendProperties, LenProperties

(* What a step does to the outcomes: nothing, or a run fails, or it returns *)
(* what it has, with or without an order that the venue has just taken.     *)
OutcomesKept ==
  /\ Len(venue') = Len(venue)
  /\ ~history'.failed => ~history.failed
  /\ history'.returned + Len(gateway'.outcomes) = history.returned + Len(gateway.outcomes)

OutcomeAdded ==
  /\ Len(venue') = Len(venue) + 1
  /\ ~history'.failed => ~history.failed
  /\ history'.returned + Len(gateway'.outcomes) = history.returned + Len(gateway.outcomes) + 1

LEMMA ProcessedOutcomes ==
  ASSUME Typed, NEW outcomes \in Seq(HedgeOrder), Processed(outcomes)
  PROVE  /\ history'.failed = history.failed
         /\ history'.returned + Len(gateway'.outcomes) = history.returned + Len(outcomes)
<1>1. gateway \in GatewayState /\ history \in History
  BY DEF Typed
<1>2. Len(outcomes) \in Nat /\ Len(<<>>) = 0
  BY LenProperties
<1>3. CASE IsLastEvent
  <2>1. gateway'.outcomes = <<>>
    BY <1>1, <1>3 DEF Processed, GatewayState
  <2>2. history'.returned = history.returned + Len(outcomes) /\ history'.failed = history.failed
    BY <1>1, <1>3 DEF Processed, History
  <2>3. history.returned \in Nat
    BY <1>1 DEF History
  <2> QED
    BY <1>2, <2>1, <2>2, <2>3
<1>4. CASE ~IsLastEvent
  BY <1>1, <1>4 DEF Processed, GatewayState
<1> QED
  BY <1>3, <1>4

LEMMA OutcomesStep ==
  ASSUME Typed, [Next]_vars
  PROVE  OutcomesKept \/ OutcomeAdded \/ history'.failed
<1>0. /\ gateway \in GatewayState
      /\ history \in History
      /\ venue \in Seq([order : HedgeOrder, filled : Nat])
  BY DEF Typed
<1>1. ASSUME UNCHANGED venue, gateway'.outcomes = gateway.outcomes,
             history'.failed = history.failed, history'.returned = history.returned
      PROVE  OutcomesKept
  BY <1>1 DEF OutcomesKept
<1>2. ASSUME NEW r \in Residuals, SettleBatch(r)
      PROVE  OutcomesKept
  BY <1>1, <1>2 DEF SettleBatch
<1>3. ASSUME NEW risk \in updates, ExecuteUpdate(risk) \/ DropUpdate(risk)
      PROVE  OutcomesKept
  BY <1>0, <1>1, <1>3 DEF ExecuteUpdate, DropUpdate, History
<1>4. CASE Disconnect
  BY <1>1, <1>4 DEF Disconnect
<1>5. CASE Start
  <2>1. gateway.outcomes = <<>> /\ gateway'.outcomes = <<>>
    BY <1>5 DEF Start, Down, Typed, RunBounded
  <2>2. history'.failed = history.failed /\ history'.returned = history.returned /\ UNCHANGED venue
    BY <1>0, <1>5 DEF Start, History
  <2> QED
    BY <1>1, <2>1, <2>2
<1>6. CASE Crash \/ StreamFails \/ PlaceRefused
  BY <1>0, <1>6 DEF Crash, StreamFails, PlaceRefused, RunFails, History
<1>7. ASSUME NEW max_events \in MaxEvents, StartRun(max_events)
      PROVE  OutcomesKept
  <2>1. gateway.outcomes = <<>>
    BY <1>7 DEF StartRun, Typed, RunBounded
  <2>2. gateway'.outcomes = <<>>
    BY <1>0, <1>7 DEF StartRun, GatewayState
  <2> QED
    BY <1>1, <1>7, <2>1, <2>2 DEF StartRun
<1>8. CASE NextEvent
  <2>1. CASE HasResidual(Head(stream.events))
    BY <1>0, <1>1, <1>8, <2>1 DEF NextEvent, GatewayState
  <2>2. CASE ~HasResidual(Head(stream.events))
    <3>1. gateway.outcomes \in Seq(HedgeOrder) /\ Processed(gateway.outcomes) /\ UNCHANGED venue
      BY <1>0, <1>8, <2>2 DEF NextEvent, GatewayState
    <3> QED
      BY <3>1, ProcessedOutcomes DEF OutcomesKept
  <2> QED
    BY <2>1, <2>2
<1>9. CASE StreamEnds
  <2>1. /\ gateway'.outcomes = <<>> /\ history'.failed = history.failed /\ UNCHANGED venue
        /\ history'.returned = history.returned + Len(gateway.outcomes)
    BY <1>0, <1>9 DEF StreamEnds, GatewayState, History
  <2>2. Len(gateway.outcomes) \in Nat /\ history.returned \in Nat /\ Len(<<>>) = 0
    BY <1>0, LenProperties DEF GatewayState, History
  <2> QED
    BY <2>1, <2>2 DEF OutcomesKept
<1>10. ASSUME AwaitsVenue, NEW filled \in Fills, PlaceAcknowledged(filled)
       PROVE  OutcomeAdded
  <2>1. gateway.order[1] \in HedgeOrder /\ gateway.outcomes \in Seq(HedgeOrder)
    BY <1>0, <1>10, OrderOnItsWay DEF GatewayState
  <2>2. filled \in Nat
    BY <2>1, SizesAssumption DEF Fills, HedgeOrder
  <2>3. Len(venue') = Len(venue) + 1
    <3>1. [order |-> gateway.order[1], filled |-> filled] \in [order : HedgeOrder, filled : Nat]
      BY <2>1, <2>2
    <3>2. venue' = Append(venue, [order |-> gateway.order[1], filled |-> filled])
      BY <1>10 DEF PlaceAcknowledged, TakenByVenue
    <3> QED
      BY <1>0, <3>1, <3>2, AppendedLength
  <2>4. /\ Outcomes(filled) \in Seq(HedgeOrder)
        /\ Len(Outcomes(filled)) = Len(gateway.outcomes) + 1
        /\ Len(gateway.outcomes) \in Nat
    BY <2>1, AppendProperties, AppendedLength DEF Outcomes
  <2>5. /\ history'.failed = history.failed
        /\ history'.returned + Len(gateway'.outcomes) = history.returned + Len(Outcomes(filled))
    BY <1>10, <2>4, ProcessedOutcomes DEF PlaceAcknowledged
  <2>6. history.returned \in Nat
    BY <1>0 DEF History
  <2> QED
    BY <2>3, <2>4, <2>5, <2>6 DEF OutcomeAdded
<1>11. ASSUME AwaitsVenue, NEW filled \in Fills, PlaceUnanswered(filled)
       PROVE  history'.failed
  BY <1>0, <1>11 DEF PlaceUnanswered, RunFails, History
<1>12. ASSUME NEW c \in Conditions, RetuneAnswered(c) \/ RetuneUnanswered(c)
       PROVE  OutcomesKept
  <2>1. gateway'.outcomes = gateway.outcomes /\ UNCHANGED venue
    BY <1>0, <1>12 DEF RetuneAnswered, RetuneUnanswered, GatewayState
  <2>2. history'.failed = history.failed /\ history'.returned = history.returned
    BY <1>0, <1>12 DEF RetuneAnswered, RetuneUnanswered, History
  <2> QED
    BY <1>1, <2>1, <2>2
<1>13. CASE UNCHANGED vars
  BY <1>1, <1>13 DEF vars
<1> QED
  BY <1>2, <1>3, <1>4, <1>5, <1>6, <1>7, <1>8, <1>9, <1>10, <1>11, <1>12, <1>13 DEF Next

(* As long as no run has failed, the runs have returned every order that    *)
(* the venue took, but for those that the present run still holds.          *)
THEOREM OutcomesAreReturned == Spec => []PlacedIsReturned
<1>1. Init => PlacedIsReturned
  BY DEF Init, Down, PlacedIsReturned
<1>2. Typed /\ PlacedIsReturned /\ [Next]_vars => PlacedIsReturned'
  <2> SUFFICES ASSUME Typed, PlacedIsReturned, [Next]_vars
               PROVE  PlacedIsReturned'
    OBVIOUS
  <2>1. OutcomesKept \/ OutcomeAdded \/ history'.failed
    BY OutcomesStep
  <2> QED
    BY <2>1 DEF PlacedIsReturned, OutcomesKept, OutcomeAdded
<1> QED
  BY <1>1, <1>2, AlwaysTyped, PTL DEF Spec

-----------------------------------------------------------------------------
(* The hedges, from the batch to the venue. *)

(* What Append does to the entries of a sequence. *)
AppendOf(s, x, t) ==
  \E n \in Nat :
    /\ Len(s) = n /\ DOMAIN s = 1 .. n /\ DOMAIN t = 1 .. n + 1
    /\ t[n + 1] = x
    /\ \A i \in 1 .. n : t[i] = s[i]

LEMMA Appended ==
  ASSUME NEW S, NEW s \in Seq(S), NEW x \in S
  PROVE  AppendOf(s, x, Append(s, x))
<1> DEFINE t == Append(s, x)
<1>1. /\ Len(s) \in Nat /\ DOMAIN s = 1 .. Len(s)
      /\ t \in Seq(S) /\ Len(t) = Len(s) + 1
      /\ \A i \in 1 .. Len(s) : t[i] = s[i]
      /\ t[Len(s) + 1] = x
  BY LenProperties, AppendProperties
<1> HIDE DEF t
<1>2. DOMAIN t = 1 .. Len(t)
  BY <1>1, LenProperties
<1>3. DOMAIN t = 1 .. Len(s) + 1
  <2> DEFINE m == Len(t)
  <2>1. m = Len(s) + 1 /\ DOMAIN t = 1 .. m
    BY <1>1, <1>2
  <2> HIDE DEF m
  <2> QED
    BY <2>1
<1>4. AppendOf(s, x, t)
  <2> DEFINE n == Len(s)
  <2>1. n \in Nat /\ Len(s) = n /\ DOMAIN s = 1 .. n
    BY <1>1
  <2>2. DOMAIN t = 1 .. n + 1
    BY <1>3
  <2>3. t[n + 1] = x
    BY <1>1
  <2>4. \A i \in 1 .. n : t[i] = s[i]
    BY <1>1, Zenon
  <2> HIDE DEF n
  <2> QED
    BY <2>1, <2>2, <2>3, <2>4 DEF AppendOf
<1> QED
  BY <1>4 DEF t

(* What Tail does to them. *)
LEMMA TailOf ==
  ASSUME NEW S, NEW s \in Seq(S), s # <<>>
  PROVE  \E n \in Nat :
           /\ DOMAIN s = 1 .. n + 1 /\ DOMAIN Tail(s) = 1 .. n
           /\ Head(s) = s[1]
           /\ \A i \in 1 .. n : Tail(s)[i] = s[i + 1]
<1> DEFINE n == Len(s) - 1
<1>1. Len(s) \in Nat \ {0} /\ DOMAIN s = 1 .. Len(s)
  BY EmptySeq, LenProperties
<1>2. /\ Tail(s) \in Seq(S) /\ Len(Tail(s)) = Len(s) - 1
      /\ \A i \in 1 .. Len(Tail(s)) : Tail(s)[i] = s[i + 1]
  BY HeadTailProperties
<1>3. DOMAIN Tail(s) = 1 .. Len(Tail(s))
  BY <1>2, LenProperties
<1>4. n \in Nat /\ n + 1 = Len(s)
  BY <1>1
<1>5. Head(s) = s[1]
  OBVIOUS
<1>6. DOMAIN s = 1 .. n + 1
  BY <1>1, <1>4
<1>7. Len(Tail(s)) = n
  BY <1>2
<1>8. DOMAIN Tail(s) = 1 .. n
  BY <1>3, <1>7
<1>9. \A i \in 1 .. n : Tail(s)[i] = s[i + 1]
  BY <1>2, <1>7
<1> HIDE DEF n
<1> QED
  BY <1>4, <1>5, <1>6, <1>8, <1>9

(* An event tells of a batch that has settled. *)
Announced(settled, e) ==
  /\ e.epoch \in DOMAIN settled
  /\ e.direction = settled[e.epoch].direction
  /\ e.net_imbalance = settled[e.epoch].net_imbalance

(* An order buys the residual of its batch, up to its limit. *)
Hedges(settled, o) ==
  /\ o.epoch \in DOMAIN settled
  /\ o.side = HedgeSide(settled[o.epoch]) /\ o.qty = settled[o.epoch].net_imbalance
  /\ o.limit_price = LimitPrice(settled[o.epoch], o.risk)

HedgesOfBatches ==
  /\ \A j \in DOMAIN stream.events : Announced(chain.settled, stream.events[j])
  /\ gateway.order # <<>> => Hedges(chain.settled, gateway.order[1])
  /\ \A i \in DOMAIN venue :
       Hedges(chain.settled, venue[i].order) /\ venue[i].filled <= venue[i].order.qty

(* A batch is hedged before the next one: the venue's orders, the order on  *)
(* its way and the events on theirs are in the order of their epochs.       *)
InOrder ==
  /\ \A i, j \in DOMAIN venue : i < j => venue[i].order.epoch < venue[j].order.epoch
  /\ \A i, j \in DOMAIN stream.events :
       i < j => stream.events[i].epoch < stream.events[j].epoch
  /\ \A i \in DOMAIN venue, j \in DOMAIN stream.events :
       venue[i].order.epoch < stream.events[j].epoch
  /\ gateway.order # <<>> =>
       /\ \A i \in DOMAIN venue : venue[i].order.epoch < gateway.order[1].epoch
       /\ \A j \in DOMAIN stream.events : gateway.order[1].epoch < stream.events[j].epoch

HedgeInv == HedgesOfBatches /\ InOrder

(* What a step does to a hedge: nothing, or it is lost on its way; a batch   *)
(* settles, and its event is sent or not; the gateway takes an event; the    *)
(* venue takes an order.                                                     *)
NoneMoves ==
  /\ chain'.settled = chain.settled /\ venue' = venue
  /\ gateway'.order \in {gateway.order, <<>>}
  /\ stream'.events \in {stream.events, <<>>}

BatchSettles ==
  \E b \in SettledBatch, e \in SettlementEvent :
    /\ chain'.settled = Append(chain.settled, b) /\ venue' = venue
    /\ gateway'.order = gateway.order
    /\ stream'.events \in {stream.events, Append(stream.events, e)}
    /\ e.epoch = Len(chain.settled) + 1
    /\ e.direction = b.direction /\ e.net_imbalance = b.net_imbalance

EventTaken ==
  /\ chain'.settled = chain.settled /\ venue' = venue
  /\ stream.events # <<>> /\ stream'.events = Tail(stream.events)
  /\ gateway'.order \in {<<>>, <<ComputeHedge(Head(stream.events), gateway.params)>>}

OrderTaken ==
  /\ chain'.settled = chain.settled /\ stream'.events = stream.events
  /\ gateway.order # <<>> /\ gateway'.order = <<>>
  /\ \E filled \in Fills :
       venue' = Append(venue, [order |-> gateway.order[1], filled |-> filled])

LEMMA HedgesMove ==
  ASSUME Typed, [Next]_vars
  PROVE  NoneMoves \/ BatchSettles \/ EventTaken \/ OrderTaken
<1>0. /\ gateway \in GatewayState
      /\ chain \in [risk : ValidRisk, settled : Seq(SettledBatch)]
      /\ stream \in [connected : BOOLEAN, events : Seq(SettlementEvent)]
  BY DEF Typed
<1>1. ASSUME NEW outcomes, Processed(outcomes)
      PROVE  gateway'.order = <<>>
  BY <1>0, <1>1 DEF Processed, GatewayState
<1>2. ASSUME RunFails
      PROVE  gateway'.order = <<>>
  BY <1>0, <1>2 DEF RunFails, GatewayState
<1>3. ASSUME NEW r \in Residuals, SettleBatch(r)
      PROVE  BatchSettles
  <2> DEFINE b == [direction |-> r.direction, net_imbalance |-> r.net_imbalance, risk |-> chain.risk]
             e == [epoch |-> Len(chain.settled) + 1, direction |-> r.direction,
                   net_imbalance |-> r.net_imbalance]
  <2>1. r.direction \in Directions /\ r.net_imbalance \in 0 .. U64Max
    BY GatewayAssumption
  <2>2. b \in SettledBatch
    BY <1>0, <2>1 DEF SettledBatch
  <2>3. e \in SettlementEvent
    BY <1>0, <2>1, LenProperties DEF SettlementEvent
  <2>4. chain'.settled = Append(chain.settled, b) /\ UNCHANGED <<venue, gateway>>
    BY <1>0, <1>3 DEF SettleBatch
  <2>5. stream'.events \in {stream.events, Append(stream.events, e)}
    BY <1>0, <1>3 DEF SettleBatch
  <2>6. /\ e.epoch = Len(chain.settled) + 1
        /\ e.direction = b.direction /\ e.net_imbalance = b.net_imbalance
    OBVIOUS
  <2> HIDE DEF b, e
  <2> QED
    BY <2>2, <2>3, <2>4, <2>5, <2>6 DEF BatchSettles
<1>4. ASSUME NEW risk \in updates, ExecuteUpdate(risk) \/ DropUpdate(risk)
      PROVE  NoneMoves
  BY <1>0, <1>4 DEF ExecuteUpdate, DropUpdate, NoneMoves
<1>5. CASE Disconnect \/ Start \/ Crash
  <2>1. CASE Disconnect
    BY <1>0, <2>1 DEF Disconnect, NoneMoves
  <2>2. CASE Start \/ Crash
    <3>0. [Down EXCEPT !.up = TRUE, !.params = chain.risk].order = <<>> /\ Down.order = <<>>
      BY DEF Down
    <3>1. gateway'.order = <<>> /\ stream'.events = <<>>
      <4>1. CASE Start
        BY <4>1, <3>0 DEF Start
      <4>2. CASE Crash
        BY <4>2, <3>0 DEF Crash
      <4> QED
        BY <2>2, <4>1, <4>2
    <3>2. UNCHANGED <<chain, venue>>
      BY <2>2 DEF Start, Crash
    <3> QED
      BY <3>1, <3>2 DEF NoneMoves
  <2> QED
    BY <1>5, <2>1, <2>2
<1>6. ASSUME NEW max_events \in MaxEvents, StartRun(max_events)
      PROVE  NoneMoves
  BY <1>0, <1>6 DEF StartRun, NoneMoves, GatewayState
<1>7. CASE NextEvent
  <2>1. CASE HasResidual(Head(stream.events))
    BY <1>0, <1>7, <2>1 DEF NextEvent, LaterEvents, EventTaken, GatewayState
  <2>2. CASE ~HasResidual(Head(stream.events))
    BY <1>0, <1>1, <1>7, <2>2 DEF NextEvent, LaterEvents, EventTaken
  <2> QED
    BY <2>1, <2>2
<1>8. CASE StreamEnds
  BY <1>0, <1>8 DEF StreamEnds, AwaitsEvent, NoneMoves, GatewayState
<1>9. CASE StreamFails
  BY <1>2, <1>9 DEF StreamFails, NoneMoves
<1>10. CASE PlaceRefused
  BY <1>2, <1>10 DEF PlaceRefused, NoneMoves
<1>11. ASSUME AwaitsVenue, NEW filled \in Fills, PlaceAcknowledged(filled) \/ PlaceUnanswered(filled)
       PROVE  OrderTaken
  <2>1. UNCHANGED <<chain, stream>> /\ TakenByVenue(filled)
    BY <1>11 DEF PlaceAcknowledged, PlaceUnanswered
  <2>2. Processed(Outcomes(filled)) \/ RunFails
    BY <1>11 DEF PlaceAcknowledged, PlaceUnanswered
  <2> QED
    BY <1>1, <1>2, <1>11, <2>1, <2>2 DEF OrderTaken, TakenByVenue, AwaitsVenue
<1>12. ASSUME NEW c \in Conditions, RetuneAnswered(c) \/ RetuneUnanswered(c)
       PROVE  NoneMoves
  BY <1>0, <1>12 DEF RetuneAnswered, RetuneUnanswered, NoneMoves, GatewayState
<1>13. CASE UNCHANGED vars
  BY <1>13 DEF vars, NoneMoves
<1> QED
  BY <1>3, <1>4, <1>5, <1>6, <1>7, <1>8, <1>9, <1>10, <1>11, <1>12, <1>13 DEF Next

(* A batch that has settled stays what it is. *)
LEMMA BatchesKept ==
  ASSUME NEW settled \in Seq(SettledBatch), NEW b \in SettledBatch
  PROVE  /\ \A e : Announced(settled, e) => Announced(Append(settled, b), e)
         /\ \A o : Hedges(settled, o) => Hedges(Append(settled, b), o)
<1> DEFINE later == Append(settled, b)
<1>0. AppendOf(settled, b, later)
  BY Appended
<1> HIDE DEF later
<1>1. PICK n \in Nat :
        /\ DOMAIN settled = 1 .. n /\ DOMAIN later = 1 .. n + 1
        /\ \A i \in 1 .. n : later[i] = settled[i]
  BY <1>0 DEF AppendOf
<1>2. ASSUME NEW i \in DOMAIN settled
      PROVE  i \in DOMAIN later /\ later[i] = settled[i]
  BY <1>1
<1>3. ASSUME NEW e, Announced(settled, e)
      PROVE  Announced(later, e)
  BY <1>2, <1>3 DEF Announced
<1>4. ASSUME NEW o, Hedges(settled, o)
      PROVE  Hedges(later, o)
  BY <1>2, <1>4 DEF Hedges
<1> QED
  BY <1>3, <1>4 DEF later

LEMMA HedgesOfBatchesStep == Typed /\ HedgesOfBatches /\ [Next]_vars => HedgesOfBatches'
<1> SUFFICES ASSUME Typed, HedgesOfBatches, [Next]_vars
             PROVE  HedgesOfBatches'
  OBVIOUS
<1>0. /\ chain.settled \in Seq(SettledBatch)
      /\ stream.events \in Seq(SettlementEvent)
      /\ venue \in Seq([order : HedgeOrder, filled : Nat])
  BY DEF Typed
<1>1. CASE NoneMoves
  <2>1. DOMAIN <<>> = {}
    OBVIOUS
  <2>2. chain'.settled = chain.settled /\ venue' = venue
    BY <1>1 DEF NoneMoves
  <2>3. \A j \in DOMAIN stream'.events : Announced(chain.settled, stream'.events[j])
    BY <1>1, <2>1 DEF NoneMoves, HedgesOfBatches
  <2>4. gateway'.order # <<>> => Hedges(chain.settled, gateway'.order[1])
    BY <1>1 DEF NoneMoves, HedgesOfBatches
  <2> QED
    BY <2>2, <2>3, <2>4 DEF HedgesOfBatches
<1>2. CASE BatchSettles
  <2>1. PICK b \in SettledBatch, e \in SettlementEvent :
          /\ chain'.settled = Append(chain.settled, b) /\ venue' = venue
          /\ gateway'.order = gateway.order
          /\ stream'.events \in {stream.events, Append(stream.events, e)}
          /\ e.epoch = Len(chain.settled) + 1
          /\ e.direction = b.direction /\ e.net_imbalance = b.net_imbalance
    BY <1>2 DEF BatchSettles
  <2>2. /\ \A x : Announced(chain.settled, x) => Announced(chain'.settled, x)
        /\ \A o : Hedges(chain.settled, o) => Hedges(chain'.settled, o)
    BY <1>0, <2>1, BatchesKept
  <2>3. Announced(chain'.settled, e)
    <3> DEFINE later == Append(chain.settled, b)
    <3>1. AppendOf(chain.settled, b, later)
      BY <1>0, Appended
    <3>2. chain'.settled = later
      BY <2>1
    <3> HIDE DEF later
    <3>3. PICK n \in Nat :
            /\ Len(chain.settled) = n /\ DOMAIN later = 1 .. n + 1
            /\ later[n + 1] = b
      BY <3>1 DEF AppendOf
    <3> QED
      BY <2>1, <3>2, <3>3 DEF Announced
  <2>4. ASSUME NEW j \in DOMAIN stream'.events
        PROVE  Announced(chain'.settled, stream'.events[j])
    <3>1. CASE stream'.events = stream.events
      BY <2>2, <3>1 DEF HedgesOfBatches
    <3>2. CASE stream'.events = Append(stream.events, e)
      <4> DEFINE more == Append(stream.events, e)
      <4>0. AppendOf(stream.events, e, more)
        <5>1. stream.events \in Seq(SettlementEvent) /\ e \in SettlementEvent
          BY <1>0
        <5> QED
          BY <5>1, Appended
      <4>2. stream'.events = more
        BY <3>2
      <4> HIDE DEF more
      <4>1. PICK n \in Nat :
              /\ Len(stream.events) = n
              /\ DOMAIN stream.events = 1 .. n /\ DOMAIN more = 1 .. n + 1
              /\ more[n + 1] = e
              /\ \A i \in 1 .. n : more[i] = stream.events[i]
        BY <4>0 DEF AppendOf
      <4>3. CASE j = n + 1
        BY <2>3, <4>1, <4>2, <4>3
      <4>4. CASE j \in 1 .. n
        BY <2>2, <4>1, <4>2, <4>4 DEF HedgesOfBatches
      <4> QED
        BY <4>1, <4>2, <4>3, <4>4
    <3> QED
      BY <2>1, <3>1, <3>2
  <2> QED
    BY <2>1, <2>2, <2>4 DEF HedgesOfBatches
<1>3. CASE EventTaken
  <2> DEFINE rest == Tail(stream.events)
  <2>1. stream.events # <<>> /\ stream'.events = rest
    BY <1>3 DEF EventTaken
  <2>2. PICK n \in Nat :
          /\ DOMAIN stream.events = 1 .. n + 1 /\ DOMAIN rest = 1 .. n
          /\ Head(stream.events) = stream.events[1]
          /\ \A i \in 1 .. n : rest[i] = stream.events[i + 1]
    BY <1>0, <2>1, TailOf
  <2> HIDE DEF rest
  <2>3. ASSUME NEW j \in DOMAIN stream'.events
        PROVE  Announced(chain.settled, stream'.events[j])
    <3>1. j + 1 \in DOMAIN stream.events /\ stream'.events[j] = stream.events[j + 1]
      BY <2>1, <2>2
    <3> QED
      BY <3>1 DEF HedgesOfBatches
  <2>4. ASSUME gateway'.order # <<>>
        PROVE  Hedges(chain.settled, gateway'.order[1])
    <3> DEFINE e == stream.events[1]
               o == ComputeHedge(e, gateway.params)
               b == chain.settled[e.epoch]
    <3>1. 1 \in DOMAIN stream.events
      BY <2>2
    <3>2. Announced(chain.settled, e)
      BY <3>1 DEF HedgesOfBatches
    <3>3. gateway'.order[1] = o
      BY <1>3, <2>2, <2>4 DEF EventTaken
    <3>4. /\ o.epoch = e.epoch /\ o.side = HedgeSide(e) /\ o.qty = e.net_imbalance
          /\ o.limit_price = LimitPrice(e, gateway.params) /\ o.risk = gateway.params
      BY DEF ComputeHedge
    <3>5. e.epoch \in DOMAIN chain.settled
          /\ e.direction = b.direction /\ e.net_imbalance = b.net_imbalance
      BY <3>2 DEF Announced
    <3> HIDE DEF e, o
    <3>6. HedgeSide(b) = HedgeSide(e) /\ LimitPrice(b, gateway.params) = LimitPrice(e, gateway.params)
      BY <3>5 DEF HedgeSide, LimitPrice
    <3>7. Hedges(chain.settled, o)
      BY <3>4, <3>5, <3>6 DEF Hedges
    <3> QED
      BY <3>3, <3>7
  <2>5. chain'.settled = chain.settled /\ venue' = venue
    BY <1>3 DEF EventTaken
  <2> QED
    BY <2>3, <2>4, <2>5 DEF HedgesOfBatches
<1>4. CASE OrderTaken
  <2>1. /\ chain'.settled = chain.settled /\ stream'.events = stream.events
        /\ gateway'.order = <<>>
    BY <1>4 DEF OrderTaken
  <2>2. PICK filled \in Fills :
          venue' = Append(venue, [order |-> gateway.order[1], filled |-> filled])
    BY <1>4 DEF OrderTaken
  <2>3. gateway.order[1] \in HedgeOrder /\ Hedges(chain.settled, gateway.order[1])
    BY <1>4, OrderOnItsWay DEF OrderTaken, AwaitsVenue, HedgesOfBatches
  <2>4. filled \in Nat /\ filled <= gateway.order[1].qty
    BY <2>3, SizesAssumption DEF Fills, HedgeOrder
  <2> DEFINE taken == [order |-> gateway.order[1], filled |-> filled]
             more == Append(venue, taken)
  <2>5. taken \in [order : HedgeOrder, filled : Nat]
    BY <2>3, <2>4
  <2>6. taken.order = gateway.order[1] /\ taken.filled = filled /\ venue' = more
    BY <2>2
  <2> HIDE DEF taken
  <2>0. AppendOf(venue, taken, more)
    <3>1. venue \in Seq([order : HedgeOrder, filled : Nat])
      BY <1>0
    <3> QED
      BY <2>5, <3>1, Appended
  <2> HIDE DEF more
  <2>7. PICK n \in Nat :
          /\ Len(venue) = n
          /\ DOMAIN venue = 1 .. n /\ DOMAIN more = 1 .. n + 1
          /\ more[n + 1] = taken
          /\ \A i \in 1 .. n : more[i] = venue[i]
    BY <2>0 DEF AppendOf
  <2>8. ASSUME NEW i \in DOMAIN more
        PROVE  Hedges(chain.settled, more[i].order) /\ more[i].filled <= more[i].order.qty
    <3>1. CASE i = n + 1
      BY <2>3, <2>4, <2>6, <2>7, <3>1
    <3>2. CASE i \in 1 .. n
      BY <2>7, <3>2 DEF HedgesOfBatches
    <3> QED
      BY <2>7, <3>1, <3>2
  <2> QED
    BY <2>1, <2>6, <2>8 DEF HedgesOfBatches
<1> QED
  BY <1>1, <1>2, <1>3, <1>4, HedgesMove

LEMMA InOrderStep == Typed /\ HedgesOfBatches /\ InOrder /\ [Next]_vars => InOrder'
<1> SUFFICES ASSUME Typed, HedgesOfBatches, InOrder, [Next]_vars
             PROVE  InOrder'
  OBVIOUS
<1>0. /\ chain.settled \in Seq(SettledBatch)
      /\ stream.events \in Seq(SettlementEvent)
      /\ venue \in Seq([order : HedgeOrder, filled : Nat])
  BY DEF Typed
<1>1. CASE NoneMoves
  <2>1. DOMAIN <<>> = {}
    OBVIOUS
  <2>2. /\ venue' = venue
        /\ stream'.events = stream.events \/ DOMAIN stream'.events = {}
        /\ gateway'.order # <<>> => gateway'.order = gateway.order
    BY <1>1, <2>1 DEF NoneMoves
  <2> QED
    BY <2>2 DEF InOrder
<1>2. CASE BatchSettles
  <2>1. PICK b \in SettledBatch, e \in SettlementEvent :
          /\ venue' = venue /\ gateway'.order = gateway.order
          /\ stream'.events \in {stream.events, Append(stream.events, e)}
          /\ e.epoch = Len(chain.settled) + 1
    BY <1>2 DEF BatchSettles
  <2>2. CASE stream'.events = stream.events
    BY <2>1, <2>2 DEF InOrder
  <2>3. CASE stream'.events = Append(stream.events, e)
    <3>1. ASSUME NEW epoch \in DOMAIN chain.settled
          PROVE  epoch < e.epoch
      BY <1>0, <2>1, LenProperties
    <3>2. \A j \in DOMAIN stream.events : stream.events[j].epoch < e.epoch
      BY <3>1 DEF HedgesOfBatches, Announced
    <3>3. gateway.order # <<>> => gateway.order[1].epoch < e.epoch
      BY <3>1 DEF HedgesOfBatches, Hedges
    <3>4. \A i \in DOMAIN venue : venue[i].order.epoch < e.epoch
      BY <3>1 DEF HedgesOfBatches, Hedges
    <3> DEFINE more == Append(stream.events, e)
    <3>5. AppendOf(stream.events, e, more)
      <4>1. stream.events \in Seq(SettlementEvent) /\ e \in SettlementEvent
        BY <1>0
      <4> QED
        BY <4>1, Appended
    <3>0. stream'.events = more
      BY <2>3
    <3> HIDE DEF more
    <3>6. PICK n \in Nat :
            /\ Len(stream.events) = n
            /\ DOMAIN stream.events = 1 .. n /\ DOMAIN more = 1 .. n + 1
            /\ more[n + 1] = e
            /\ \A i \in 1 .. n : more[i] = stream.events[i]
      BY <3>5 DEF AppendOf
    <3>7. ASSUME NEW i \in 1 .. n + 1, NEW j \in 1 .. n + 1, i < j
          PROVE  more[i].epoch < more[j].epoch
      <4>1. CASE j = n + 1
        BY <3>2, <3>6, <3>7, <4>1
      <4>2. CASE j \in 1 .. n
        <5>1. i \in 1 .. n
          BY <3>7, <4>2
        <5> QED
          BY <3>6, <3>7, <4>2, <5>1 DEF InOrder
      <4> QED
        BY <4>1, <4>2
    <3>8. ASSUME NEW j \in 1 .. n + 1
          PROVE  /\ \A i \in DOMAIN venue : venue[i].order.epoch < more[j].epoch
                 /\ gateway.order # <<>> => gateway.order[1].epoch < more[j].epoch
      <4>1. CASE j = n + 1
        BY <3>3, <3>4, <3>6, <4>1
      <4>2. CASE j \in 1 .. n
        BY <3>6, <4>2 DEF InOrder
      <4> QED
        BY <4>1, <4>2
    <3>9. DOMAIN stream'.events = 1 .. n + 1
      BY <3>0, <3>6
    <3> QED
      BY <2>1, <3>0, <3>7, <3>8, <3>9 DEF InOrder
  <2> QED
    BY <2>1, <2>2, <2>3
<1>3. CASE EventTaken
  <2> DEFINE rest == Tail(stream.events)
  <2>1. stream.events # <<>> /\ stream'.events = rest /\ venue' = venue
    BY <1>3 DEF EventTaken
  <2>2. PICK n \in Nat :
          /\ DOMAIN stream.events = 1 .. n + 1 /\ DOMAIN rest = 1 .. n
          /\ Head(stream.events) = stream.events[1]
          /\ \A i \in 1 .. n : rest[i] = stream.events[i + 1]
    BY <1>0, <2>1, TailOf
  <2> HIDE DEF rest
  <2>3. gateway'.order # <<>> => gateway'.order[1].epoch = stream.events[1].epoch
    BY <1>3, <2>2 DEF EventTaken, ComputeHedge
  <2>4. 1 \in DOMAIN stream.events
    BY <2>2
  <2>5. ASSUME NEW j \in DOMAIN rest
        PROVE  /\ j + 1 \in DOMAIN stream.events /\ 1 < j + 1
               /\ rest[j] = stream.events[j + 1]
    BY <2>2
  <2>6. ASSUME NEW i \in DOMAIN rest, NEW j \in DOMAIN rest, i < j
        PROVE  rest[i].epoch < rest[j].epoch
    <3>1. i + 1 < j + 1
      BY <2>2, <2>6
    <3> QED
      BY <2>5, <3>1 DEF InOrder
  <2>7. ASSUME NEW j \in DOMAIN rest
        PROVE  /\ stream.events[1].epoch < rest[j].epoch
               /\ \A i \in DOMAIN venue : venue[i].order.epoch < rest[j].epoch
    BY <2>4, <2>5 DEF InOrder
  <2>8. \A i \in DOMAIN venue : venue[i].order.epoch < stream.events[1].epoch
    BY <2>4 DEF InOrder
  <2>9. \A i, j \in DOMAIN venue : i < j => venue[i].order.epoch < venue[j].order.epoch
    BY DEF InOrder
  <2> QED
    BY <2>1, <2>3, <2>6, <2>7, <2>8, <2>9 DEF InOrder
<1>4. CASE OrderTaken
  <2>1. stream'.events = stream.events /\ gateway.order # <<>> /\ gateway'.order = <<>>
    BY <1>4 DEF OrderTaken
  <2>2. PICK filled \in Fills :
          venue' = Append(venue, [order |-> gateway.order[1], filled |-> filled])
    BY <1>4 DEF OrderTaken
  <2>3. gateway.order[1] \in HedgeOrder
    BY <1>4, OrderOnItsWay DEF OrderTaken, AwaitsVenue
  <2>4. filled \in Nat
    BY <2>3, SizesAssumption DEF Fills, HedgeOrder
  <2> DEFINE taken == [order |-> gateway.order[1], filled |-> filled]
             more == Append(venue, taken)
  <2>5. taken \in [order : HedgeOrder, filled : Nat]
    BY <2>3, <2>4
  <2>6. taken.order = gateway.order[1] /\ venue' = more
    BY <2>2
  <2> HIDE DEF taken
  <2>0. AppendOf(venue, taken, more)
    <3>1. venue \in Seq([order : HedgeOrder, filled : Nat])
      BY <1>0
    <3> QED
      BY <2>5, <3>1, Appended
  <2> HIDE DEF more
  <2>7. PICK n \in Nat :
          /\ Len(venue) = n
          /\ DOMAIN venue = 1 .. n /\ DOMAIN more = 1 .. n + 1
          /\ more[n + 1] = taken
          /\ \A i \in 1 .. n : more[i] = venue[i]
    BY <2>0 DEF AppendOf
  <2>8. ASSUME NEW i \in 1 .. n + 1, NEW j \in 1 .. n + 1, i < j
        PROVE  more[i].order.epoch < more[j].order.epoch
    <3>1. i \in 1 .. n /\ more[i] = venue[i]
      BY <2>7, <2>8
    <3>2. CASE j = n + 1
      <4>1. venue[i].order.epoch < gateway.order[1].epoch
        BY <2>1, <2>7, <3>1 DEF InOrder
      <4> QED
        BY <2>6, <2>7, <3>1, <3>2, <4>1
    <3>3. CASE j \in 1 .. n
      BY <2>7, <2>8, <3>1, <3>3 DEF InOrder
    <3> QED
      BY <3>2, <3>3
  <2>9. ASSUME NEW i \in 1 .. n + 1, NEW j \in DOMAIN stream.events
        PROVE  more[i].order.epoch < stream.events[j].epoch
    <3>1. CASE i = n + 1
      <4>1. gateway.order[1].epoch < stream.events[j].epoch
        BY <2>1 DEF InOrder
      <4> QED
        BY <2>6, <2>7, <3>1, <4>1
    <3>2. CASE i \in 1 .. n
      BY <2>7, <3>2 DEF InOrder
    <3> QED
      BY <3>1, <3>2
  <2>10. \A i, j \in DOMAIN stream.events :
           i < j => stream.events[i].epoch < stream.events[j].epoch
    BY DEF InOrder
  <2> QED
    BY <2>1, <2>6, <2>7, <2>8, <2>9, <2>10 DEF InOrder
<1> QED
  BY <1>1, <1>2, <1>3, <1>4, HedgesMove

LEMMA AlwaysHedges == Spec => [](Typed /\ HedgeInv)
<1>1. Init => HedgeInv
  <2> SUFFICES ASSUME Init
               PROVE  HedgeInv
    OBVIOUS
  <2>1. stream.events = <<>> /\ gateway.order = <<>> /\ venue = <<>> /\ DOMAIN <<>> = {}
    BY DEF Init, Down
  <2> QED
    BY <2>1 DEF HedgeInv, HedgesOfBatches, InOrder
<1>2. Typed /\ HedgeInv /\ [Next]_vars => HedgeInv'
  BY HedgesOfBatchesStep, InOrderStep DEF HedgeInv
<1> QED
  BY <1>1, <1>2, AlwaysTyped, PTL DEF Spec

(* The gateway's clearing arithmetic, in u64 with saturation, and the       *)
(* program's give the same limit: an order priced with the parameters of    *)
(* its batch may pay what the buyers of the residual paid.                  *)
THEOREM LimitsArePricesPaid == Spec => []LimitIsPricePaid
<1>1. ASSUME NEW b \in SettledBatch
      PROVE  LimitPrice(b, b.risk) = HeavyPrice(b)
  <2>1. b.risk \in ValidRisk /\ b.net_imbalance \in Nat
    BY SizesAssumption DEF SettledBatch
  <2> QED
    BY <2>1, SamePrice DEF LimitPrice, HeavyPrice
<1>2. Typed /\ HedgeInv => LimitIsPricePaid
  <2> SUFFICES ASSUME Typed, HedgeInv, NEW i \in DOMAIN venue,
                      venue[i].order.risk = Batch(venue[i].order).risk
               PROVE  venue[i].order.limit_price = HeavyPrice(Batch(venue[i].order))
    BY DEF LimitIsPricePaid
  <2> DEFINE o == venue[i].order
             b == chain.settled[o.epoch]
  <2>1. Hedges(chain.settled, o)
    BY DEF HedgeInv, HedgesOfBatches
  <2>2. b \in SettledBatch
    <3>1. chain.settled \in Seq(SettledBatch) /\ o.epoch \in DOMAIN chain.settled
      BY <2>1 DEF Typed, Hedges
    <3> QED
      BY <3>1, LenProperties, ElementOfSeq
  <2>3. o.limit_price = LimitPrice(b, o.risk) /\ o.risk = b.risk
    BY <2>1 DEF Hedges, Batch
  <2> QED
    BY <1>1, <2>2, <2>3 DEF Batch
<1> QED
  BY <1>2, AlwaysHedges, PTL

(* However many answers are lost and however many gateways follow each      *)
(* other, no batch is hedged twice and no fill exceeds its order: on either *)
(* side, the market maker never buys more than it is short of.              *)
THEOREM HedgesAreCovered == Spec => []NeverOverhedged
<1>1. ASSUME Typed, HedgeInv, NEW side \in {"Yes", "No"}
      PROVE  FilledOn(side) <= ShortOn(side)
  <2> DEFINE S == {i \in DOMAIN venue : venue[i].order.side = side}
             T == {k \in DOMAIN chain.settled : HedgeSide(chain.settled[k]) = side}
             epochs == [i \in S |-> venue[i].order.epoch]
             filled == [i \in S |-> venue[i].filled]
             short == [k \in T |-> chain.settled[k].net_imbalance]
  <2>1. /\ chain.settled \in Seq(SettledBatch)
        /\ venue \in Seq([order : HedgeOrder, filled : Nat])
    BY <1>1 DEF Typed
  <2>a. \A i \in DOMAIN venue : venue[i] \in [order : HedgeOrder, filled : Nat] /\ i \in Nat
    <3> DEFINE Taken == [order : HedgeOrder, filled : Nat]
    <3>1. venue \in Seq(Taken)
      BY <2>1
    <3> HIDE DEF Taken
    <3>2. \A i \in DOMAIN venue : venue[i] \in Taken /\ i \in Nat
      BY <3>1, LenProperties, ElementOfSeq
    <3> QED
      BY <3>2 DEF Taken
  <2>2. IsFiniteSet(T)
    <3>1. DOMAIN chain.settled = 1 .. Len(chain.settled) /\ Len(chain.settled) \in Nat
      BY <2>1, LenProperties
    <3>2. IsFiniteSet(DOMAIN chain.settled)
      BY <3>1, FS_Interval
    <3> QED
      BY <3>2, FS_Subset
  <2>3. filled \in [S -> Nat]
    <3>1. \A i \in DOMAIN venue : venue[i].filled \in Nat
      BY <2>a
    <3> QED
      BY <3>1
  <2>4. short \in [T -> Nat]
    <3>1. \A k \in DOMAIN chain.settled : chain.settled[k] \in SettledBatch
      BY <2>1, LenProperties, ElementOfSeq, SMTT(30)
    <3> QED
      BY <3>1, SizesAssumption DEF SettledBatch
  <2>5. ASSUME NEW i \in S
        PROVE  epochs[i] \in T /\ filled[i] <= short[epochs[i]]
    <3>1. Hedges(chain.settled, venue[i].order) /\ venue[i].filled <= venue[i].order.qty
      BY <1>1 DEF HedgeInv, HedgesOfBatches
    <3> QED
      BY <3>1 DEF Hedges
  <2>6. ASSUME NEW i \in S, NEW j \in S, epochs[i] = epochs[j]
        PROVE  i = j
    <3>1. i \in Nat /\ j \in Nat
      BY <2>a
    <3>2. venue[i].order.epoch \in Nat /\ venue[i].order.epoch = venue[j].order.epoch
      <4>1. venue[i].order \in HedgeOrder
        BY <2>a
      <4> QED
        BY <2>6, <4>1 DEF HedgeOrder
    <3>3. ~(i < j) /\ ~(j < i)
      BY <1>1, <3>2 DEF HedgeInv, InOrder
    <3> QED
      BY <3>1, <3>3
  <2>7. epochs \in Injection(S, T)
    BY <2>5, <2>6 DEF Injection, IsInjective
  <2>8. \A i \in S : filled[i] <= short[epochs[i]]
    BY <2>5
  <2>9. FilledOn(side) = Total(S, filled) /\ ShortOn(side) = Total(T, short)
    BY TotalEqual DEF FilledOn, ShortOn
  <2> HIDE DEF S, T, epochs, filled, short
  <2> QED
    BY <2>2, <2>3, <2>4, <2>7, <2>8, <2>9, TotalInjection
<1>2. Typed /\ HedgeInv => NeverOverhedged
  BY <1>1 DEF NeverOverhedged
<1> QED
  BY <1>2, AlwaysHedges, PTL

=============================================================================
