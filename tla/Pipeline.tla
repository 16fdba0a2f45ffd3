----------------------------- MODULE Pipeline -----------------------------
(***************************************************************************)
(* From sealed blobs to positions: the engine's epoch (SecureEpoch), its    *)
(* frame, signatures and transaction (Submission, Committee), and the       *)
(* program that settles it (Settlement).                                    *)
(*                                                                         *)
(* Anyone may submit what was signed.  So besides the transactions of       *)
(* relay.rs the program meets ones that were put together differently: the  *)
(* accounts in another order, too few, or of another market; signatures too *)
(* few, or in instructions that refer to others; a frame with another epoch,*)
(* or with bytes missing or added.                                          *)
(***************************************************************************)
EXTENDS SecureEpoch, Submission

CONSTANTS
  MM,            \* the market maker
  Authority,     \* market.settlement_authority
  Members,       \* the committee's keys
  Threshold,
  Epoch,         \* params.epoch
  OtherMarket,   \* a second market of the program
  Risk,          \* the market's risk parameters
  Stake,         \* the collateral of each user
  Backstop       \* the market maker's collateral

ASSUME PipelineAssumption ==
  /\ ValidCommittee(Members, Threshold)
  /\ DOMAIN Members = 1 .. Len(Members)
  /\ Epoch \in Nat \ {0}
  /\ Stake \in [Users -> Nat]
  /\ Backstop \in Nat

VARIABLES market, position, vault, wallet, settled_fills

programVars == <<market, position, vault, wallet, settled_fills>>

vars == <<engineVars, programVars>>

Program == INSTANCE Settlement WITH
  Frames <- {}, RiskParams <- {Risk}, Amounts <- {1},
  Endowment <- [p \in Users \cup {MM} |-> IF p = MM THEN Backstop ELSE Stake[p]]

(* The market is open and everyone has deposited. *)
Init ==
  /\ EngineInit
  /\ market = [Program!NoMarket EXCEPT !.exists = TRUE, !.trusted = TRUE, !.risk = Risk,
                                       !.mm_collateral = Backstop]
  /\ position = [u \in Users |-> [Program!NoPosition EXCEPT !.exists = TRUE, !.collateral = Stake[u]]]
  /\ vault = Total(Users, Stake) + Backstop
  /\ wallet = [p \in Users \cup {MM} |-> 0]
  /\ settled_fills = 0

Engine == EngineNext /\ UNCHANGED programVars

-----------------------------------------------------------------------------
(* The transactions. *)

batch == SignedBatch(Members, Threshold, WireFrame(Market, Epoch, result), result)

Built == {BuildTransaction(Market, batch), BuildTrustedTransaction(Market, Authority, batch)}

Backwards(s) == [i \in DOMAIN s |-> s[Len(s) + 1 - i]]

OtherAccounts(tx) ==
  {[tx EXCEPT !.positions = Backwards(@)],
   [tx EXCEPT !.positions = SubSeq(@, 1, Len(@) - 1)],
   [tx EXCEPT !.positions = Append(@, PositionPda(OtherMarket, MM))],
   [tx EXCEPT !.positions = [i \in DOMAIN @ |-> PositionPda(OtherMarket, @[i].owner)]]}

OtherSigners(tx) ==
  {[tx EXCEPT !.signer = "other"],
   [tx EXCEPT !.precompiles = SubSeq(@, 1, Len(@) - 1)],
   [tx EXCEPT !.precompiles = [i \in DOMAIN @ |-> @[1]]],
   [tx EXCEPT !.precompiles = [i \in DOMAIN @ |-> [@[i] EXCEPT !.within = FALSE]]]}

OtherFrames(tx) ==
  {[tx EXCEPT !.frame.epoch = @ + 1],
   [tx EXCEPT !.frame.market = OtherMarket],
   [tx EXCEPT !.frame.stray = 1],
   [tx EXCEPT !.frame.fills = SubSeq(@, 1, Len(@) - 1)],
   [tx EXCEPT !.frame.fills = SubSeq(@, 1, Len(@) - 1),
              !.frame.fill_count = Len(SubSeq(tx.frame.fills, 1, @ - 1))]}

(* A transaction of the authority's carries the frame that it means: that   *)
(* path has nothing to compare it with.                                     *)
Submitted ==
  UNION {{tx} \cup OtherAccounts(tx) \cup OtherSigners(tx)
           \cup (IF tx.trusted THEN {} ELSE OtherFrames(tx)) : tx \in Built}

(* Any number of times, in any order. *)
SubmitBatch(tx) ==
  /\ ~tx.trusted
  /\ Authenticated(Members, Threshold, tx)
  /\ WellFormed(Market, tx)
  /\ Program!SubmitBatch(OnAccounts(Users, tx))
  /\ UNCHANGED engineVars

SubmitBatchTrusted(tx) ==
  /\ tx.trusted
  /\ tx.signer = Authority
  /\ WellFormed(Market, tx)
  /\ Program!SubmitBatchTrusted(OnAccounts(Users, tx))
  /\ UNCHANGED engineVars

(* A user may take collateral out while its batch is under way. *)
Withdraw(u) == result.ok /\ Program!WithdrawCollateral(u, 1) /\ UNCHANGED engineVars

CloseMarket == result.ok /\ Program!CloseMarket /\ UNCHANGED engineVars

Next ==
  \/ Engine
  \/ result.ok /\ \E tx \in Submitted : SubmitBatch(tx)
  \/ result.ok /\ \E tx \in Submitted : SubmitBatchTrusted(tx)
  \/ \E u \in Users : Withdraw(u)
  \/ CloseMarket

Spec == Init /\ [][Next]_vars

-----------------------------------------------------------------------------
(* What a user sealed on one side, over the blobs of the epoch. *)
Sealed(u, tag) ==
  Total({i \in DOMAIN blobs : blobs[i].bytes.user = u /\ blobs[i].bytes.tag = tag},
        [i \in DOMAIN blobs |-> blobs[i].bytes.qty])

SealedTotal(tag) == Total(Users, [u \in Users |-> Sealed(u, tag)])

NoTotalWraps == \A tag \in {0, 1} : FitsU64(SealedTotal(tag))

(* End to end: once the market has settled, every user holds exactly the    *)
(* contracts it sealed orders for, whatever was submitted how often; before *)
(* that nobody holds any.                                                   *)
SettledAsSealed ==
  \A u \in Users :
    LET held == market.last_epoch # 0
    IN  /\ position[u].yes_qty = (IF held THEN Sealed(u, 0) ELSE 0)
        /\ position[u].no_qty = (IF held THEN Sealed(u, 1) ELSE 0)

(* What Settlement assumes of a frame (FramesAssumption), and the program   *)
(* takes on trust, holds of every frame that gets past the signatures and   *)
(* the accounts, whoever put its transaction together.                      *)
Signed(tx) ==
  IF tx.trusted THEN tx.signer = Authority ELSE Authenticated(Members, Threshold, tx)

TrustIsEarned ==
  result.ok /\ NoTotalWraps =>
    \A tx \in Submitted : Signed(tx) /\ WellFormed(Market, tx) =>
      LET f == OnAccounts(Users, tx)
      IN  /\ f \in Program!Frame
          /\ Program!CrossedInPairs(f)
          /\ \A u \in Users \ f.users : f.fills[u] = NoFill

(* What relay.rs builds is "the precise mirror image" of what the program   *)
(* checks: a transaction of the engine's is never refused for its           *)
(* signatures, its length, its accounts or its economics, only for reasons  *)
(* of the market's: its epoch, its status and its collateral.               *)
BuiltIsAccepted ==
  result.ok /\ NoTotalWraps =>
    \A tx \in Built :
      /\ WellFormed(Market, tx)
      /\ tx.trusted \/ Authenticated(Members, Threshold, tx)
      /\ Len(tx.frame.fills) <= MAX_FILLS
      /\ Program!EconomicsMatch(OnAccounts(Users, tx))

=============================================================================
