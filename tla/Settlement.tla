---------------------------- MODULE Settlement ----------------------------
(***************************************************************************)
(* The settlement program of one market: crate `program`.  An instruction  *)
(* is one atomic transaction, so each handler is one action; a handler     *)
(* that returns an error changes nothing, so its conditions are the        *)
(* action's guard.                                                         *)
(*                                                                         *)
(* Accounts are abstracted to what the handlers read and write: the        *)
(* MarketState record, a UserPosition per user, and the token balances of  *)
(* the vault and of every party.  Key, ownership, PDA and mint checks are  *)
(* left out: an action is only taken with the accounts and the signer its  *)
(* handler requires.                                                       *)
(***************************************************************************)
EXTENDS ClearingMath, Totals

CONSTANTS
  Users,       \* owners of positions
  MM,          \* the market maker, holder of market.authority
  Frames,      \* the batch frames that the relayer may submit
  RiskParams,  \* the risk parameters that the authority may choose
  Amounts,     \* the amounts of deposits and withdrawals
  Endowment    \* the tokens each party starts with

VARIABLES
  market,        \* MarketState
  position,      \* UserPosition of each user
  vault,         \* token balance of the vault
  wallet,        \* token balance of each party
  settled_fills  \* history: the number of fills settled so far

vars == <<market, position, vault, wallet, settled_fills>>

Parties == Users \cup {MM}

(* A frame is a BatchHeader and the fills of `users`; the fill of any other *)
(* user is NoFill.  The engine aggregates orders per user, so a user has at *)
(* most one fill.  batch_id and p2p_volume are never read by the program.   *)
Frame ==
  [epoch : Nat, direction : Nat, net_imbalance : Nat,
   users : SUBSET Users, fills : [Users -> UserFill]]

UserTotal(f) == Total(Users, f)

P2pYes(f)      == [u \in Users |-> f.fills[u].p2p_yes]
P2pNo(f)       == [u \in Users |-> f.fills[u].p2p_no]
ResidualYes(f) == [u \in Users |-> f.fills[u].residual_yes]
ResidualNo(f)  == [u \in Users |-> f.fills[u].residual_no]

(* What the program takes on trust from the signers of a frame: Tier-1      *)
(* volume is crossed in YES/NO pairs.  The program re-derives the residual  *)
(* but never compares the two Tier-1 sums.                                  *)
CrossedInPairs(f) == UserTotal(P2pYes(f)) = UserTotal(P2pNo(f))

RiskRecord == [base_oracle_price : Nat, max_skew_premium : Nat, imbalance_threshold : Nat]

ASSUME PartiesAssumption ==
  /\ IsFiniteSet(Users)
  /\ MM \notin Users
  /\ Endowment \in [Parties -> Nat]
  /\ Amounts \subseteq Nat
  /\ RiskParams \subseteq RiskRecord

ASSUME FramesAssumption ==
  \A f \in Frames :
    /\ f \in Frame
    /\ CrossedInPairs(f)
    /\ \A u \in Users \ f.users : f.fills[u] = NoFill

-----------------------------------------------------------------------------
(* The lifecycle of the market account. *)

Exists    == market.exists
IsTrading == market.exists /\ market.status = STATUS_TRADING
IsClosed  == market.exists /\ market.status = STATUS_CLOSED
Resolved  == market.outcome # OUTCOME_UNRESOLVED

NoMarket ==
  [exists |-> FALSE, trusted |-> FALSE,
   status |-> STATUS_TRADING, outcome |-> OUTCOME_UNRESOLVED,
   risk |-> [base_oracle_price |-> 0, max_skew_premium |-> 0, imbalance_threshold |-> 0],
   total_yes_supply |-> 0, total_no_supply |-> 0, mm_yes |-> 0, mm_no |-> 0,
   last_epoch |-> 0, mm_collateral |-> 0]

NoPosition == [exists |-> FALSE, yes_qty |-> 0, no_qty |-> 0, collateral |-> 0]

Init ==
  /\ market = NoMarket
  /\ position = [u \in Users |-> NoPosition]
  /\ vault = 0
  /\ wallet = Endowment
  /\ settled_fills = 0

ValidRisk(risk) ==
  /\ risk.imbalance_threshold # 0
  /\ MIN_PRICE <= risk.base_oracle_price
  /\ risk.base_oracle_price <= MAX_PRICE
  /\ risk.max_skew_premium <= MAX_PRICE

(* InitializeMarket, with or without a trusted settlement authority. *)
InitializeMarket(risk, trusted) ==
  /\ ~Exists
  /\ ValidRisk(risk)
  /\ market' = [NoMarket EXCEPT !.exists = TRUE, !.trusted = trusted, !.risk = risk]
  /\ UNCHANGED <<position, vault, wallet, settled_fills>>

InitUserPosition(u) ==
  /\ Exists
  /\ ~position[u].exists
  /\ position' = [position EXCEPT ![u] = [NoPosition EXCEPT !.exists = TRUE]]
  /\ UNCHANGED <<market, vault, wallet, settled_fills>>

(* UpdateRiskParams looks at neither the status nor the outcome. *)
UpdateRiskParams(risk) ==
  /\ Exists
  /\ ValidRisk(risk)
  /\ market' = [market EXCEPT !.risk = risk]
  /\ UNCHANGED <<position, vault, wallet, settled_fills>>

CloseMarket ==
  /\ IsTrading
  /\ market' = [market EXCEPT !.status = STATUS_CLOSED]
  /\ UNCHANGED <<position, vault, wallet, settled_fills>>

(* Faulty variants: the outcome of a resolved market is not looked at, and  *)
(* trading need not be closed.                                              *)
ResolvableAgain == IsClosed
ResolvableWhileTrading == Exists /\ ~Resolved

Resolvable == IsClosed /\ ~Resolved

ResolveMarket(outcome) ==
  /\ outcome \in FinalOutcomes
  /\ Resolvable
  /\ market' = [market EXCEPT !.outcome = outcome]
  /\ UNCHANGED <<position, vault, wallet, settled_fills>>

-----------------------------------------------------------------------------
(* Collateral in and out of the vault. *)

(* TransferChecked into, and out of, the vault: the token program refuses  *)
(* to overdraw the source account.                                         *)
TransferIn(p, amount) ==
  /\ wallet[p] >= amount
  /\ wallet' = [wallet EXCEPT ![p] = @ - amount]
  /\ vault' = vault + amount

TransferOut(p, amount) ==
  /\ vault >= amount
  /\ vault' = vault - amount
  /\ wallet' = [wallet EXCEPT ![p] = @ + amount]

DepositCollateral(u, amount) ==
  /\ amount > 0
  /\ Exists
  /\ position[u].exists
  /\ FitsU64(position[u].collateral + amount)
  /\ TransferIn(u, amount)
  /\ position' = [position EXCEPT ![u].collateral = @ + amount]
  /\ UNCHANGED <<market, settled_fills>>

(* Faulty variant: the ledger is not debited by what leaves the vault. *)
WithdrawWithoutDebit(u, amount) ==
  /\ amount > 0
  /\ position[u].exists
  /\ position[u].collateral >= amount
  /\ TransferOut(u, amount)
  /\ UNCHANGED <<market, position, settled_fills>>

(* Free collateral may leave at any time, an order of its owner being in   *)
(* flight or not.                                                          *)
WithdrawCollateral(u, amount) ==
  /\ amount > 0
  /\ position[u].exists
  /\ position[u].collateral >= amount
  /\ TransferOut(u, amount)
  /\ position' = [position EXCEPT ![u].collateral = @ - amount]
  /\ UNCHANGED <<market, settled_fills>>

(* Anyone may fund the backstop. *)
DepositMmCollateral(p, amount) ==
  /\ amount > 0
  /\ Exists
  /\ FitsU64(market.mm_collateral + amount)
  /\ TransferIn(p, amount)
  /\ market' = [market EXCEPT !.mm_collateral = @ + amount]
  /\ UNCHANGED <<position, settled_fills>>

WithdrawMmCollateral(amount) ==
  /\ amount > 0
  /\ Exists
  /\ market.mm_collateral >= amount
  /\ TransferOut(MM, amount)
  /\ market' = [market EXCEPT !.mm_collateral = @ - amount]
  /\ UNCHANGED <<position, settled_fills>>

-----------------------------------------------------------------------------
(* Settlement of a batch: apply_settlement. *)

(* Faulty variant: the epoch of the last settlement is accepted again. *)
EpochNotOlder(f) == f.epoch >= market.last_epoch

FreshEpoch(f) == f.epoch > market.last_epoch

IsYesHeavy(f) == f.direction = DIRECTION_YES_HEAVY

(* The residual is re-derived from the fills: none on the light side, and   *)
(* the heavy side adds up to the header's net_imbalance.                    *)
LightSideEmpty(f) ==
  UserTotal(IF IsYesHeavy(f) THEN ResidualNo(f) ELSE ResidualYes(f)) = 0

(* Faulty variant: the header's net_imbalance is trusted. *)
HeaderTrusted(f) == TRUE

HeavySideMatchesHeader(f) ==
  UserTotal(IF IsYesHeavy(f) THEN ResidualYes(f) ELSE ResidualNo(f)) = f.net_imbalance

EconomicsMatch(f) ==
  /\ f.direction \in Directions
  /\ LightSideEmpty(f)
  /\ HeavySideMatchesHeader(f)

(* The price per contract of the heavy side. *)
HeavyPrice(f) ==
  LET clear_price == ClearingPrice(f.net_imbalance, f.direction, market.risk)
  IN  IF IsYesHeavy(f) THEN clear_price ELSE SCALE_FACTOR - clear_price

(* Faulty variant: the market maker is charged the price of the heavy side. *)
MmObligationAtHeavyPrice(f) == CollateralFor(f.net_imbalance, HeavyPrice(f))

(* The market maker takes the other side of the whole residual. *)
MmObligation(f) == CollateralFor(f.net_imbalance, SCALE_FACTOR - HeavyPrice(f))

HeavyResidual(f, u) ==
  IF IsYesHeavy(f) THEN f.fills[u].residual_yes ELSE f.fills[u].residual_no

TotalCost(f, u) ==
  CollateralFor(f.fills[u].p2p_yes + f.fills[u].p2p_no, MIDPOINT_PRICE)
    + CollateralFor(HeavyResidual(f, u), HeavyPrice(f))

YesAdd(f, u) == f.fills[u].p2p_yes + (IF IsYesHeavy(f) THEN HeavyResidual(f, u) ELSE 0)
NoAdd(f, u)  == f.fills[u].p2p_no  + (IF IsYesHeavy(f) THEN 0 ELSE HeavyResidual(f, u))

AddYes(f) == UserTotal([u \in Users |-> YesAdd(f, u)])
AddNo(f)  == UserTotal([u \in Users |-> NoAdd(f, u)])

(* Faulty variant: only the Tier-1 cost is checked. *)
ParticipantsCoverTier1(f) ==
  \A u \in f.users :
    /\ position[u].exists
    /\ position[u].collateral
         >= CollateralFor(f.fills[u].p2p_yes + f.fills[u].p2p_no, MIDPOINT_PRICE)

(* Every participant has a position and covers its whole cost: one that    *)
(* does not aborts the batch for all.                                      *)
ParticipantsCover(f) ==
  \A u \in f.users : position[u].exists /\ position[u].collateral >= TotalCost(f, u)

BackstopCovers(f) == market.mm_collateral >= MmObligation(f)

SettledPosition(f, u) ==
  [position[u] EXCEPT !.yes_qty = @ + YesAdd(f, u),
                      !.no_qty = @ + NoAdd(f, u),
                      !.collateral = @ - TotalCost(f, u)]

SettledMarket(f) ==
  [market EXCEPT !.total_yes_supply = @ + AddYes(f),
                 !.total_no_supply = @ + AddNo(f),
                 !.mm_yes = @ + (IF IsYesHeavy(f) THEN 0 ELSE f.net_imbalance),
                 !.mm_no = @ + (IF IsYesHeavy(f) THEN f.net_imbalance ELSE 0),
                 !.mm_collateral = @ - MmObligation(f),
                 !.last_epoch = f.epoch]

(* The checked additions of the loop and of the aggregates.  The residual  *)
(* sums and the sums over the fills need no line of their own: they are    *)
(* bounded by the new totals.                                              *)
NoOverflow(f) ==
  /\ FitsU64(SettledMarket(f).total_yes_supply)
  /\ FitsU64(SettledMarket(f).total_no_supply)
  /\ FitsU64(SettledMarket(f).mm_yes)
  /\ FitsU64(SettledMarket(f).mm_no)
  /\ \A u \in f.users :
       /\ FitsU64(f.fills[u].p2p_yes + f.fills[u].p2p_no)
       /\ FitsU64(TotalCost(f, u))
       /\ FitsU64(SettledPosition(f, u).yes_qty)
       /\ FitsU64(SettledPosition(f, u).no_qty)

ApplySettlement(f) ==
  /\ Cardinality(f.users) <= MAX_FILLS
  /\ IsTrading
  /\ FreshEpoch(f)
  /\ EconomicsMatch(f)
  /\ NoOverflow(f)
  /\ ParticipantsCover(f)
  /\ BackstopCovers(f)
  /\ position' = [u \in Users |-> IF u \in f.users THEN SettledPosition(f, u) ELSE position[u]]
  /\ market' = SettledMarket(f)
  /\ settled_fills' = settled_fills + Cardinality(f.users)
  /\ UNCHANGED <<vault, wallet>>

(* The committee path: f carries a threshold of committee signatures. *)
SubmitBatch(f) == ApplySettlement(f)

(* The gateway path: f is signed by the settlement authority, if there is one. *)
SubmitBatchTrusted(f) == market.trusted /\ ApplySettlement(f)

-----------------------------------------------------------------------------
(* Redemption after the resolution. *)

(* Faulty variant: a void market pays a contract in full. *)
VoidPaysInFull(outcome, yes, no) ==
  CASE outcome = OUTCOME_YES_WON -> CollateralFor(yes, SCALE_FACTOR)
    [] outcome = OUTCOME_NO_WON  -> CollateralFor(no, SCALE_FACTOR)
    [] OTHER -> CollateralFor(yes + no, SCALE_FACTOR)

(* What yes YES contracts and no NO contracts are redeemed for. *)
Payout(outcome, yes, no) ==
  CASE outcome = OUTCOME_YES_WON -> CollateralFor(yes, SCALE_FACTOR)
    [] outcome = OUTCOME_NO_WON  -> CollateralFor(no, SCALE_FACTOR)
    [] OTHER -> CollateralFor(yes, MIDPOINT_PRICE) + CollateralFor(no, MIDPOINT_PRICE)

UserPayout(u) == Payout(market.outcome, position[u].yes_qty, position[u].no_qty)
MmPayout == Payout(market.outcome, market.mm_yes, market.mm_no)

(* Faulty variants: a claim leaves the NO leg, or the market maker's legs. *)
NoLegKept(pos) == [pos EXCEPT !.yes_qty = 0]
MmLegsKept == market

(* Both legs are zeroed, the losing one too; the collateral is not touched. *)
Redeemed(pos) == [pos EXCEPT !.yes_qty = 0, !.no_qty = 0]
MmRedeemed == [market EXCEPT !.mm_yes = 0, !.mm_no = 0]

ClaimWinnings(u) ==
  /\ Resolved
  /\ position[u].exists
  /\ UserPayout(u) > 0
  /\ FitsU64(UserPayout(u))
  /\ TransferOut(u, UserPayout(u))
  /\ position' = [position EXCEPT ![u] = Redeemed(@)]
  /\ UNCHANGED <<market, settled_fills>>

ClaimMmWinnings ==
  /\ Resolved
  /\ MmPayout > 0
  /\ FitsU64(MmPayout)
  /\ TransferOut(MM, MmPayout)
  /\ market' = MmRedeemed
  /\ UNCHANGED <<position, settled_fills>>

-----------------------------------------------------------------------------
Next ==
  \/ \E risk \in RiskParams, trusted \in BOOLEAN : InitializeMarket(risk, trusted)
  \/ \E u \in Users : InitUserPosition(u)
  \/ \E u \in Users, amount \in Amounts : DepositCollateral(u, amount)
  \/ \E f \in Frames : SubmitBatch(f)
  \/ \E risk \in RiskParams : UpdateRiskParams(risk)
  \/ \E u \in Users, amount \in Amounts : WithdrawCollateral(u, amount)
  \/ \E p \in Parties, amount \in Amounts : DepositMmCollateral(p, amount)
  \/ \E outcome \in FinalOutcomes : ResolveMarket(outcome)
  \/ \E u \in Users : ClaimWinnings(u)
  \/ ClaimMmWinnings
  \/ \E f \in Frames : SubmitBatchTrusted(f)
  \/ CloseMarket
  \/ \E amount \in Amounts : WithdrawMmCollateral(amount)

Spec == Init /\ [][Next]_vars

-----------------------------------------------------------------------------
(* Types. *)

MarketState ==
  [exists : BOOLEAN, trusted : BOOLEAN,
   status : {STATUS_TRADING, STATUS_CLOSED},
   outcome : {OUTCOME_UNRESOLVED} \cup FinalOutcomes,
   risk : RiskRecord,
   total_yes_supply : Nat, total_no_supply : Nat, mm_yes : Nat, mm_no : Nat,
   last_epoch : Nat, mm_collateral : Nat]

UserPosition == [exists : BOOLEAN, yes_qty : Nat, no_qty : Nat, collateral : Nat]

(* What the accounts store are u64 words: no handler adds beyond the limit. *)
AccountsFit ==
  /\ FitsU64(market.total_yes_supply)
  /\ FitsU64(market.total_no_supply)
  /\ FitsU64(market.mm_yes)
  /\ FitsU64(market.mm_no)
  /\ FitsU64(market.mm_collateral)
  /\ \A u \in Users :
       /\ FitsU64(position[u].yes_qty)
       /\ FitsU64(position[u].no_qty)
       /\ FitsU64(position[u].collateral)

(* Every counter stays a natural number: no debit of a handler underflows, *)
(* in particular no participant and no backstop is charged beyond what it   *)
(* has put in; and none overflows.  An existing market never has the zero   *)
(* threshold by which the skew ratio would be divided.                      *)
TypeOK ==
  /\ AccountsFit
  /\ market \in MarketState
  /\ Exists => market.risk.imbalance_threshold # 0
  /\ position \in [Users -> UserPosition]
  /\ vault \in Nat
  /\ wallet \in [Parties -> Nat]
  /\ settled_fills \in Nat

-----------------------------------------------------------------------------
(* What the vault owes. *)

YesHeld == UserTotal([u \in Users |-> position[u].yes_qty])
NoHeld  == UserTotal([u \in Users |-> position[u].no_qty])

FreeCollateral == UserTotal([u \in Users |-> position[u].collateral]) + market.mm_collateral

(* The tokens that no free balance accounts for: they back the contracts. *)
Locked == vault - FreeCollateral

(* What all contracts together are redeemed for under an outcome. *)
Owed(outcome) ==
  UserTotal([u \in Users |-> Payout(outcome, position[u].yes_qty, position[u].no_qty)])
    + Payout(outcome, market.mm_yes, market.mm_no)

PossibleOutcomes == IF Resolved THEN {market.outcome} ELSE FinalOutcomes

(* An outcome implies a closed market, so that no batch settles after a     *)
(* payout has begun, and an account that is not initialized holds nothing,  *)
(* so that its first initialization overwrites no balance.                  *)
LifecycleOK ==
  /\ Resolved => IsClosed
  /\ ~Exists => market = NoMarket
  /\ \A u \in Users : ~position[u].exists => position[u] = NoPosition

(* Until the resolution, the users' supply of each leg is what the market   *)
(* account records, and with the market maker's legs every YES contract is  *)
(* matched by a NO contract: the premise of the "$1 per pair" argument in   *)
(* settle.rs and of the void payout ("solvent: yes_total == no_total").     *)
OpenInterestBalanced ==
  ~Resolved =>
    /\ market.total_yes_supply = YesHeld
    /\ market.total_no_supply = NoHeld
    /\ YesHeld + market.mm_yes = NoHeld + market.mm_no

(* Until payouts begin the vault covers every free balance, the users' and  *)
(* the market maker's together: no withdrawal can eat into another's        *)
(* collateral, and none fails for lack of tokens.                           *)
FreeCollateralCovered == ~Resolved => Locked >= 0

(* A pair never costs its buyers and the market maker more than the $1 it   *)
(* is redeemed for: settlement never locks more than the open interest.     *)
NeverOvercharged == ~Resolved => Locked <= YesHeld + market.mm_yes

(* Whatever outcome is still possible, the vault falls short of what it     *)
(* owes by no more than the rounding of the settled fills: half a unit of   *)
(* Tier-1 cost and one of Tier-2 cost per fill.  A lost debit, a double     *)
(* payment or a leg paid at the wrong price exceeds it.                     *)
ShortfallIsDust ==
  \A outcome \in PossibleOutcomes : 2 * (Owed(outcome) - Locked) <= 3 * settled_fills

-----------------------------------------------------------------------------
(* What a step may never do. *)

OpenInterest == YesHeld + market.mm_yes

(* Contracts are only created while trading is open and under an epoch      *)
(* above every epoch settled before: a frame that is replayed, or that      *)
(* arrives late or after the close, creates none.                           *)
MintsUnderFreshEpoch ==
  [][OpenInterest' > OpenInterest \/ NoHeld' > NoHeld
       => /\ IsTrading
          /\ market'.last_epoch > market.last_epoch]_vars

(* A resolved market keeps its outcome, stays closed and settles nothing. *)
ResolutionIsFinal ==
  [][Resolved => /\ market'.outcome = market.outcome
                 /\ market'.status = STATUS_CLOSED
                 /\ market'.last_epoch = market.last_epoch]_vars

(* What a user could walk away with after the resolution. *)
UserWorth(u) == wallet[u] + position[u].collateral + UserPayout(u)

(* After the resolution no user gains from any sequence of claims and       *)
(* withdrawals, and loses only what it gives to the backstop: a contract is *)
(* paid once, at the value of its outcome, and free collateral is untouched *)
(* by a claim.                                                              *)
ClaimsAreWorthNeutral ==
  [][Resolved =>
       \A u \in Users :
         UserWorth(u) - UserWorth(u)' =
           (IF market'.mm_collateral > market.mm_collateral THEN wallet[u] - wallet'[u] ELSE 0)
    ]_vars

(* The program implements an escrow: no order of instructions moves a free  *)
(* balance, a contract or a token in a way that Escrow does not allow.  The *)
(* market maker's account is the backstop.                                  *)
OfParties(of_user, of_mm) == [p \in Parties |-> IF p = MM THEN of_mm ELSE of_user[p]]

FreeBalances == OfParties([u \in Users |-> position[u].collateral], market.mm_collateral)
YesContracts == OfParties([u \in Users |-> position[u].yes_qty], market.mm_yes)
NoContracts  == OfParties([u \in Users |-> position[u].no_qty], market.mm_no)

Ledger == INSTANCE Escrow WITH
  Accounts <- Parties,
  Backstop <- MM,
  Open     <- OUTCOME_UNRESOLVED,
  YesWon   <- OUTCOME_YES_WON,
  NoWon    <- OUTCOME_NO_WON,
  Void     <- OUTCOME_INVALID,
  free     <- FreeBalances,
  yes      <- YesContracts,
  no       <- NoContracts,
  outcome  <- market.outcome

ImplementsEscrow == Ledger!Spec

(* The claim of the program's documentation, for any resolution: every      *)
(* contract is backed by $1 in the vault, so that all of them can be paid   *)
(* out and all free balances withdrawn.                                     *)
VaultIsSolvent == Resolved => Owed(market.outcome) + FreeCollateral <= vault

=============================================================================
