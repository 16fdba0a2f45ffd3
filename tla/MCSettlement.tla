---------------------------- MODULE MCSettlement ----------------------------
(***************************************************************************)
(* TLC instance of Settlement.  The frames are the ones the engine builds: *)
(* match_batch on every book of the given orders, for each of two epochs.  *)
(* Others are malformed, which the program has to refuse.                   *)
(***************************************************************************)
EXTENDS Settlement, Sequences

CONSTANTS
  Quantities,  \* the quantities that a user may demand on a side
  Epochs       \* the epochs of the frames

Engine == INSTANCE Matching

Books == [Users -> Quantities \X Quantities]

UserSequence == CHOOSE s \in [1 .. Cardinality(Users) -> Users] : {s[i] : i \in DOMAIN s} = Users

(* A book as the orders of one batch, the users in a fixed order. *)
OrdersOf(book) ==
  LET n == Cardinality(Users)
      order(i) == LET u == UserSequence[(i + 1) \div 2]
                  IN  IF i % 2 = 1
                      THEN [user |-> u, side |-> Engine!Yes, qty |-> book[u][1]]
                      ELSE [user |-> u, side |-> Engine!No, qty |-> book[u][2]]
  IN  SelectSeq([i \in 1 .. 2 * n |-> order(i)], LAMBDA o : o.qty > 0)

Batches == {OrdersOf(book) : book \in Books} \ {<<>>}

HonestFrames ==
  {Engine!BuildFrame(Users, epoch, Engine!MatchBatch(b)) : epoch \in Epochs,
     b \in {b \in Batches : Engine!MatchBatch(b).ok}}

(* Frames as a faulty signer could make them: a YES-heavy header over fills *)
(* that carry a NO residual too, and a header that hides the residual.      *)
TwoSidedFrames ==
  {[f EXCEPT !.fills = [u \in Users |-> [f.fills[u] EXCEPT !.residual_no = f.fills[u].residual_yes]]] :
     f \in {f \in HonestFrames : f.direction = DIRECTION_YES_HEAVY /\ f.net_imbalance > 0}}

HiddenResidualFrames ==
  {[f EXCEPT !.net_imbalance = 0] : f \in {f \in HonestFrames : f.net_imbalance > 0}}

MCFrames == HonestFrames \cup TwoSidedFrames \cup HiddenResidualFrames

CONSTANTS UserTokens, MmTokens
MCEndowment == [p \in Parties |-> IF p = MM THEN MmTokens ELSE UserTokens]

Risk(base, premium, threshold) ==
  [base_oracle_price |-> base, max_skew_premium |-> premium, imbalance_threshold |-> threshold]

(* A mid price, one that clamps at the ceiling, and an invalid one. *)
MCRiskParams == {Risk(50, 20, 4), Risk(90, 30, 2), Risk(50, 20, 0)}

=============================================================================
