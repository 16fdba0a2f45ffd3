---------------------------- MODULE Protocol ----------------------------
(***************************************************************************)
(* The frozen interface that the settlement program and the off-chain     *)
(* matching engine share: crate `protocol`.                                *)
(*                                                                         *)
(* A price is a fixed-point number of 1/SCALE_FACTOR dollars.  The code    *)
(* fixes SCALE_FACTOR = 1000000, MIDPOINT_PRICE = 500000, MIN_PRICE =      *)
(* 10000 and MAX_PRICE = 990000.  They are parameters here: the theorems   *)
(* hold for every scale that satisfies PricesAssumption, and TLC uses      *)
(* whole cents (100, 50, 1 and 99).                                        *)
(***************************************************************************)
EXTENDS Naturals

CONSTANTS
  SCALE_FACTOR,    \* a price of one dollar
  MIDPOINT_PRICE,  \* the Tier-1 cross price
  MIN_PRICE,       \* the Tier-2 price floor
  MAX_PRICE,       \* the Tier-2 price ceiling
  MAX_FILLS,       \* most fills a frame may carry
  U64Max           \* 2^64 - 1 in the code

ASSUME PricesAssumption ==
  /\ SCALE_FACTOR \in Nat
  /\ MIDPOINT_PRICE \in Nat
  /\ SCALE_FACTOR = 2 * MIDPOINT_PRICE
  /\ MIN_PRICE \in Nat \ {0}
  /\ MAX_PRICE \in Nat
  /\ MIN_PRICE <= MAX_PRICE
  /\ MAX_PRICE < SCALE_FACTOR

ASSUME SizesAssumption == MAX_FILLS \in Nat /\ U64Max \in Nat

DIRECTION_YES_HEAVY == 0
DIRECTION_NO_HEAVY  == 1
Directions == {DIRECTION_YES_HEAVY, DIRECTION_NO_HEAVY}

OUTCOME_UNRESOLVED == 0
OUTCOME_YES_WON    == 1
OUTCOME_NO_WON     == 2
OUTCOME_INVALID    == 3
FinalOutcomes == {OUTCOME_YES_WON, OUTCOME_NO_WON, OUTCOME_INVALID}

STATUS_TRADING == 0
STATUS_CLOSED  == 1

(* One participant's settled amounts: `UserFill`, keyed by its user. *)
UserFill ==
  [p2p_yes : Nat, p2p_no : Nat, residual_yes : Nat, residual_no : Nat]

NoFill ==
  [p2p_yes |-> 0, p2p_no |-> 0, residual_yes |-> 0, residual_no |-> 0]

(* The checked u64 arithmetic of the code: a result above U64Max is an error. *)
FitsU64(n) == n <= U64Max

=============================================================================
