---------------------------- MODULE MmGateway ----------------------------
(***************************************************************************)
(* The market maker's gateway: crate `mm-gateway`.  It hears of settled     *)
(* batches over a stream, hedges each residual on an external venue, and    *)
(* retunes the risk parameters of the market between two runs of its loop.  *)
(*                                                                         *)
(* `run` and `retune` both take the gateway exclusively, so they never      *)
(* overlap; the chain, the stream and the network move between any two of   *)
(* their awaits.  The chain, the stream and the venue are external.         *)
(***************************************************************************)
EXTENDS ClearingMath, Totals, Sequences

CONSTANTS
  Residuals,       \* the [direction, net_imbalance] of the batches that settle
  Conditions,      \* the market conditions that a retune reacts to
  Policy,          \* parameters of the LinearVolPolicy
  InitialRisk,     \* the risk parameters live when the gateway first starts
  MaxBatches,      \* bound: batches settled
  MaxRetunes,      \* bound: calls of retune
  MaxEvents,       \* the arguments of run: {} for None, {m} for Some(m)
  MaxStarts        \* bound: gateways started one after the other

RiskParams == [base_oracle_price : Nat, max_skew_premium : Nat, imbalance_threshold : Nat]

(* validate(): the bounds of the program's InitializeMarket and             *)
(* UpdateRiskParams.                                                        *)
Validates(risk) ==
  /\ risk.imbalance_threshold # 0
  /\ MIN_PRICE <= risk.base_oracle_price
  /\ risk.base_oracle_price <= MAX_PRICE
  /\ risk.max_skew_premium <= MAX_PRICE

ASSUME GatewayAssumption ==
  /\ MAX_PRICE <= U64Max
  /\ Residuals \subseteq [direction : Directions, net_imbalance : 0 .. U64Max]
  /\ Conditions \subseteq [implied_vol : Nat, fair_value : 0 .. U64Max]
  /\ Policy \in [premium_per_bp : Nat, base_threshold : Nat,
                 threshold_tighten_per_bp : Nat, min_threshold : Nat]
  /\ InitialRisk \in RiskParams /\ Validates(InitialRisk)
  /\ MaxEvents \subseteq SUBSET Nat

VARIABLES
  chain,      \* the live risk parameters and the batches settled, in order
  stream,     \* the WebSocket: connected or not, and the events on their way
  updates,    \* UpdateRiskParams transactions broadcast and not yet executed
  gateway,    \* the gateway's parameters and the run it is in
  venue,      \* the orders that the venue has taken
  history     \* of the updates and the runs; see Init

vars == <<chain, stream, updates, gateway, venue, history>>

-----------------------------------------------------------------------------
(* risk.rs *)

SaturatingU64(n) == Smaller(n, U64Max)

(* LinearVolPolicy::target: a wider premium and a tighter threshold as the  *)
(* volatility rises, both clamped into the program's bounds.                *)
Target(c) ==
  [base_oracle_price |-> Clamp(c.fair_value),
   max_skew_premium |-> Smaller(SaturatingU64(c.implied_vol * Policy.premium_per_bp), MAX_PRICE),
   imbalance_threshold |->
     LET tighten == SaturatingU64(c.implied_vol * Policy.threshold_tighten_per_bp)
     IN  Larger(Larger(Policy.base_threshold - tighten, 0), Larger(Policy.min_threshold, 1))]

-----------------------------------------------------------------------------
(* hedge.rs: the clearing arithmetic of the program, written a second time  *)
(* in u64 with saturation.                                                  *)

HedgeClearingPrice(net, direction, risk) ==
  LET premium == SkewPremium(net, risk.max_skew_premium, risk.imbalance_threshold)
  IN  Clamp(IF direction = DIRECTION_YES_HEAVY
            THEN SaturatingU64(risk.base_oracle_price + premium)
            ELSE Larger(risk.base_oracle_price - premium, 0))

(* Faulty variant: the price of a NO contract is not complemented. *)
LimitAtYesPrice(b, risk) == HedgeClearingPrice(b.net_imbalance, b.direction, risk)

(* compute_hedge buys the heavy side, at most at the price that the buyers *)
(* of the residual paid for it.                                             *)
LimitPrice(b, risk) ==
  LET clearing == HedgeClearingPrice(b.net_imbalance, b.direction, risk)
  IN  IF b.direction = DIRECTION_YES_HEAVY THEN clearing ELSE SCALE_FACTOR - clearing

HasResidual(b) == b.net_imbalance > 0

HedgeSide(b) == IF b.direction = DIRECTION_YES_HEAVY THEN "Yes" ELSE "No"

(* `risk` is history: the parameters that the order was priced with. *)
ComputeHedge(e, risk) ==
  [epoch |-> e.epoch, side |-> HedgeSide(e), qty |-> e.net_imbalance,
   limit_price |-> LimitPrice(e, risk), risk |-> risk]

-----------------------------------------------------------------------------
(* The program, as far as the gateway sees it. *)

(* What the buyers of a residual paid: apply_settlement. *)
HeavyPrice(b) ==
  LET clear_price == ClearingPrice(b.net_imbalance, b.direction, b.risk)
  IN  IF b.direction = DIRECTION_YES_HEAVY THEN clear_price ELSE SCALE_FACTOR - clear_price

(* A batch settles under the live parameters, and its event is sent to the *)
(* gateway that is connected.                                               *)
SettleBatch(r) ==
  /\ Len(chain.settled) < MaxBatches
  /\ chain' = [chain EXCEPT !.settled =
                 Append(@, [direction |-> r.direction, net_imbalance |-> r.net_imbalance,
                            risk |-> chain.risk])]
  /\ stream' = [stream EXCEPT !.events =
                  IF stream.connected
                  THEN Append(@, [epoch |-> Len(chain.settled) + 1, direction |-> r.direction,
                                  net_imbalance |-> r.net_imbalance])
                  ELSE @]
  /\ UNCHANGED <<updates, gateway, venue, history>>

(* Transactions that are under way together execute in any order. *)
ExecuteUpdate(risk) ==
  /\ chain' = [chain EXCEPT !.risk = risk]
  /\ updates' = updates \ {risk}
  /\ UNCHANGED <<stream, gateway, venue, history>>

(* A transaction that never lands: its blockhash expires. *)
DropUpdate(risk) ==
  /\ updates' = updates \ {risk}
  /\ history' = [history EXCEPT !.serial = FALSE]
  /\ UNCHANGED <<chain, stream, gateway, venue>>

Disconnect ==
  /\ stream.connected
  /\ stream' = [stream EXCEPT !.connected = FALSE]
  /\ UNCHANGED <<chain, updates, gateway, venue, history>>

-----------------------------------------------------------------------------
(* The gateway's process. *)

Down ==
  [up |-> FALSE, params |-> InitialRisk, running |-> FALSE, max_events |-> {}, processed |-> 0,
   order |-> <<>>, outcomes |-> <<>>]

(* new, with the parameters that are live, over a new connection. *)
Start ==
  /\ ~gateway.up
  /\ history.starts < MaxStarts
  /\ gateway' = [Down EXCEPT !.up = TRUE, !.params = chain.risk]
  /\ stream' = [connected |-> TRUE, events |-> <<>>]
  /\ history' = [history EXCEPT !.starts = @ + 1, !.serial = (updates = {})]
  /\ UNCHANGED <<chain, updates, venue>>

(* The process ends: events on their way and the outcomes of its run are    *)
(* lost.                                                                    *)
Crash ==
  /\ gateway.up
  /\ gateway' = Down
  /\ stream' = [connected |-> FALSE, events |-> <<>>]
  /\ history' = [history EXCEPT !.failed = TRUE]
  /\ UNCHANGED <<chain, updates, venue>>

-----------------------------------------------------------------------------
(* run: one step per await. *)

StartRun(max_events) ==
  /\ gateway.up
  /\ ~gateway.running
  /\ gateway' = [gateway EXCEPT !.running = TRUE, !.max_events = max_events,
                               !.processed = 0, !.outcomes = <<>>]
  /\ UNCHANGED <<chain, stream, updates, venue, history>>

(* Faulty variant: one event too many. *)
IsLateLastEvent == \E m \in gateway.max_events : gateway.processed + 1 > m

(* The bound is looked at after an event only. *)
IsLastEvent == \E m \in gateway.max_events : gateway.processed + 1 >= m

(* An event is done with: the loop goes on or the run returns its outcomes. *)
Processed(outcomes) ==
  /\ gateway' = [gateway EXCEPT !.processed = @ + 1, !.order = <<>>,
                               !.outcomes = IF IsLastEvent THEN <<>> ELSE outcomes,
                               !.running = ~IsLastEvent]
  /\ history' = IF IsLastEvent THEN [history EXCEPT !.returned = @ + Len(outcomes)] ELSE history

(* An error leaves the run at once, and with it the outcomes so far. *)
RunFails ==
  /\ gateway' = [gateway EXCEPT !.running = FALSE, !.order = <<>>, !.outcomes = <<>>]
  /\ history' = [history EXCEPT !.failed = TRUE]

AwaitsEvent == gateway.running /\ gateway.order = <<>>

(* Faulty variant: the event stays at the head of the stream. *)
AllEvents(events) == events

LaterEvents(events) == Tail(events)

NextEvent ==
  /\ AwaitsEvent
  /\ stream.events # <<>>
  /\ stream' = [stream EXCEPT !.events = LaterEvents(@)]
  /\ LET e == Head(stream.events)
     IN  IF HasResidual(e)
         THEN /\ gateway' = [gateway EXCEPT !.order = <<ComputeHedge(e, gateway.params)>>]
              /\ UNCHANGED history
         ELSE Processed(gateway.outcomes)
  /\ UNCHANGED <<chain, updates, venue>>

(* The stream has closed: the run returns what it has. *)
StreamEnds ==
  /\ AwaitsEvent
  /\ stream.events = <<>>
  /\ ~stream.connected
  /\ gateway' = [gateway EXCEPT !.running = FALSE, !.outcomes = <<>>]
  /\ history' = [history EXCEPT !.returned = @ + Len(gateway.outcomes)]
  /\ UNCHANGED <<chain, stream, updates, venue>>

StreamFails ==
  /\ AwaitsEvent
  /\ RunFails
  /\ stream' = [connected |-> FALSE, events |-> <<>>]
  /\ UNCHANGED <<chain, updates, venue>>

AwaitsVenue == gateway.order # <<>>

(* The venue takes the order and fills any part of it. *)
TakenByVenue(filled) == venue' = Append(venue, [order |-> gateway.order[1], filled |-> filled])

(* Faulty variant: only an order that is filled is kept. *)
FilledOutcomes(filled) ==
  IF filled > 0 THEN Append(gateway.outcomes, gateway.order[1]) ELSE gateway.outcomes

Outcomes(filled) == Append(gateway.outcomes, gateway.order[1])

PlaceAcknowledged(filled) ==
  /\ AwaitsVenue
  /\ TakenByVenue(filled)
  /\ Processed(Outcomes(filled))
  /\ UNCHANGED <<chain, stream, updates>>

(* The venue takes the order, but its answer is lost or not understood. *)
PlaceUnanswered(filled) ==
  /\ AwaitsVenue
  /\ TakenByVenue(filled)
  /\ RunFails
  /\ UNCHANGED <<chain, stream, updates>>

PlaceRefused ==
  /\ AwaitsVenue
  /\ RunFails
  /\ UNCHANGED <<chain, stream, updates, venue>>

-----------------------------------------------------------------------------
(* retune.  An answer means that the transaction was broadcast, not that it *)
(* was executed.                                                            *)

CanRetune(c) ==
  /\ gateway.up
  /\ ~gateway.running
  /\ history.retunes < MaxRetunes
  /\ Validates(Target(c))

Broadcast(risk) == updates' = updates \cup {risk}

(* Faulty variant: the parameters are not adopted. *)
KeepsParams(risk) == gateway.params

AdoptedParams(risk) == risk

RetuneAnswered(c) ==
  /\ CanRetune(c)
  /\ Broadcast(Target(c))
  /\ gateway' = [gateway EXCEPT !.params = AdoptedParams(Target(c))]
  /\ history' = [history EXCEPT !.retunes = @ + 1, !.serial = (updates = {})]
  /\ UNCHANGED <<chain, stream, venue>>

(* The transaction is broadcast but the call fails. *)
RetuneUnanswered(c) ==
  /\ CanRetune(c)
  /\ Broadcast(Target(c))
  /\ history' = [history EXCEPT !.retunes = @ + 1, !.serial = FALSE]
  /\ UNCHANGED <<chain, stream, gateway, venue>>

-----------------------------------------------------------------------------
(* `serial`: the last retune was answered while no other was under way, and *)
(* its transaction has not been lost.  `returned` counts the outcomes of    *)
(* the runs that returned; `failed`: some run did not.                      *)
Init ==
  /\ chain = [risk |-> InitialRisk, settled |-> <<>>]
  /\ stream = [connected |-> FALSE, events |-> <<>>]
  /\ updates = {}
  /\ gateway = Down
  /\ venue = <<>>
  /\ history = [starts |-> 0, retunes |-> 0, serial |-> TRUE, returned |-> 0, failed |-> FALSE]

Fills == 0 .. gateway.order[1].qty

Next ==
  \/ \E r \in Residuals : SettleBatch(r)
  \/ \E risk \in updates : ExecuteUpdate(risk) \/ DropUpdate(risk)
  \/ Disconnect \/ Start \/ Crash
  \/ \E max_events \in MaxEvents : StartRun(max_events)
  \/ NextEvent \/ StreamEnds \/ StreamFails \/ PlaceRefused
  \/ AwaitsVenue /\ \E filled \in Fills : PlaceAcknowledged(filled) \/ PlaceUnanswered(filled)
  \/ \E c \in Conditions : RetuneAnswered(c) \/ RetuneUnanswered(c)

Spec == Init /\ [][Next]_vars

-----------------------------------------------------------------------------
(* The parameters live on the chain are always ones that it accepts, and a  *)
(* bounded run processes no more events than its bound (but Some(0) lets    *)
(* one through).                                                            *)
TypeOK ==
  /\ chain.risk \in RiskParams /\ Validates(chain.risk)
  /\ gateway.params \in RiskParams
  /\ \A m \in gateway.max_events : gateway.processed <= Larger(m, 1)
  /\ gateway.order # <<>> => gateway.running

FilledOn(side) ==
  Total({i \in DOMAIN venue : venue[i].order.side = side}, [i \in DOMAIN venue |-> venue[i].filled])

(* What the market maker is short of on a side after its batches. *)
ShortOn(side) ==
  Total({i \in DOMAIN chain.settled : HedgeSide(chain.settled[i]) = side},
        [i \in DOMAIN chain.settled |-> chain.settled[i].net_imbalance])

(* Failed runs, lost answers, closed streams and restarts may leave a       *)
(* residual without a hedge, but never make the market maker buy more than  *)
(* it is short of: a hedge is not an exposure of its own.                   *)
NeverOverhedged == \A side \in {"Yes", "No"} : FilledOn(side) <= ShortOn(side)

Batch(order) == chain.settled[order.epoch]

(* The arithmetic of the gateway agrees with the program's: an order that   *)
(* is priced with the parameters its batch settled under may pay up to what *)
(* the buyers of the residual paid, on either side and at either clamp.     *)
LimitIsPricePaid ==
  \A i \in DOMAIN venue :
    LET order == venue[i].order
    IN  order.risk = Batch(order).risk => order.limit_price = HeavyPrice(Batch(order))

(* The comment of `new`, "kept in sync by retune": once the updates have    *)
(* landed, one at a time, the gateway's parameters are the live ones, also   *)
(* after earlier updates were lost, unanswered or overtaken.                *)
SyncedBySerialRetunes ==
  history.serial /\ updates = {} /\ gateway.up => gateway.params = chain.risk

(* The comment of `run`, "returns every hedge placed": as long as no run    *)
(* fails, every order of the venue is in the outcomes of some run.          *)
PlacedIsReturned ==
  ~history.failed => history.returned + Len(gateway.outcomes) = Len(venue)

=============================================================================
