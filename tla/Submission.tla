---------------------------- MODULE Submission ----------------------------
(***************************************************************************)
(* From a match to a transaction and into the program: build_frame of       *)
(* mpc-core/src/frame.rs, the transactions of relay.rs, and what the        *)
(* program checks of them before it settles: protocol/src/frame.rs, sig.rs, *)
(* submit_batch.rs, submit_batch_trusted.rs and the account checks of       *)
(* settle.rs.                                                               *)
(*                                                                         *)
(* A frame is its header, its whole fills and `stray`, the bytes after them *)
(* that make no fill.  An account is the PDA it is at.                      *)
(***************************************************************************)
EXTENDS Matching, Committee

WireFrame(market, epoch, result) ==
  [market |-> market, epoch |-> epoch, direction |-> result.direction,
   net_imbalance |-> result.net_imbalance, fill_count |-> Len(result.fills),
   fills |-> [i \in DOMAIN result.fills |->
                [user |-> result.users[i], amounts |-> result.fills[i]]],
   stray |-> 0]

(* What process_epoch and Relayer::settle return: the frame with the least  *)
(* signatures that finalize it.                                             *)
SignedBatch(members, threshold, frame, result) ==
  [frame |-> frame, signatures |-> SignThreshold(members, threshold, frame), result |-> result]

PositionPda(market, owner) == [market |-> market, owner |-> owner]

(* SignedBatch::fill_owners, RelayedBatch::fill_owners. *)
FillOwners(result) == result.users

(* Faulty variant: the accounts run against the order of the fills. *)
ReversedPositions(market, result) ==
  [i \in DOMAIN FillOwners(result) |->
     PositionPda(market, FillOwners(result)[Len(FillOwners(result)) + 1 - i])]

Positions(market, result) ==
  [i \in DOMAIN FillOwners(result) |-> PositionPda(market, FillOwners(result)[i])]

(* An Ed25519 instruction with one signature; `within` is whether it refers *)
(* to key, signature and message in its own data.                           *)
Ed25519PrecompileIx(signature, message) ==
  [key |-> signature.key, message |-> message, within |-> TRUE]

BuildTransaction(market, batch) ==
  [trusted |-> FALSE, signer |-> "relayer",
   precompiles |-> [i \in DOMAIN batch.signatures |->
                      Ed25519PrecompileIx(batch.signatures[i], batch.frame)],
   frame |-> batch.frame, positions |-> Positions(market, batch.result)]

BuildTrustedTransaction(market, authority, batch) ==
  [trusted |-> TRUE, signer |-> authority, precompiles |-> <<>>,
   frame |-> batch.frame, positions |-> Positions(market, batch.result)]

-----------------------------------------------------------------------------
(* What the program checks. *)

ValidFrameLen(frame) == frame.stray = 0 /\ Len(frame.fills) = frame.fill_count

(* The records that verify_committee reads: those contained in themselves. *)
SignaturesOf(tx) ==
  LET within == {i \in DOMAIN tx.precompiles : tx.precompiles[i].within}
  IN  [n \in 1 .. Cardinality(within) |-> tx.precompiles[Nth(within, n)]]

(* Faulty variant: an account of the market is taken for its slot's user's. *)
PositionsOfMarket(market, tx) ==
  /\ Len(tx.positions) >= tx.frame.fill_count
  /\ \A i \in 1 .. tx.frame.fill_count : tx.positions[i].market = market

(* The account in a fill's ordinal slot is its user's position in this      *)
(* market.  More accounts than fills are ignored.                           *)
PositionsMatch(market, tx) ==
  /\ Len(tx.positions) >= tx.frame.fill_count
  /\ \A i \in 1 .. tx.frame.fill_count :
       tx.positions[i] = PositionPda(market, tx.frame.fills[i].user)

Authenticated(members, threshold, tx) ==
  VerifyCommittee(members, threshold, tx.frame, SignaturesOf(tx))

WellFormed(market, tx) ==
  /\ ValidFrameLen(tx.frame)
  /\ tx.frame.market = market
  /\ PositionsMatch(market, tx)

(* The frame as the loop of apply_settlement executes it: each fill on the *)
(* account in its slot.                                                     *)
OnAccounts(Users, tx) ==
  LET slots   == 1 .. tx.frame.fill_count
      slot(u) == CHOOSE i \in slots : tx.positions[i].owner = u
      users   == {tx.positions[i].owner : i \in slots}
  IN  [epoch |-> tx.frame.epoch, direction |-> tx.frame.direction,
       net_imbalance |-> tx.frame.net_imbalance, users |-> users,
       fills |-> [u \in Users |-> IF u \in users THEN tx.frame.fills[slot(u)].amounts ELSE NoFill]]

=============================================================================
