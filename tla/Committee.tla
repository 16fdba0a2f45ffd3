---------------------------- MODULE Committee ----------------------------
(***************************************************************************)
(* Signing a frame with a threshold of the MPC committee, and counting the  *)
(* signers on chain: mpc-core/src/committee.rs, program/src/sig.rs.         *)
(*                                                                         *)
(* `members` is a sequence of public keys: the same on both sides, because  *)
(* the engine's keys are the ones that InitializeMarket registers.  A       *)
(* signature is the key and the message it is over; the runtime has         *)
(* verified each one before the program runs, so that only valid            *)
(* signatures occur.                                                        *)
(***************************************************************************)
EXTENDS Integers, Sequences, FiniteSets

CONSTANT MAX_COMMITTEE

ASSUME CommitteeAssumption == MAX_COMMITTEE \in Nat

(* The bounds of from_seeds and of InitializeMarket.  Neither asks whether  *)
(* the keys differ.                                                         *)
ValidCommittee(members, threshold) ==
  /\ Len(members) \in 1 .. MAX_COMMITTEE
  /\ threshold \in 1 .. Len(members)

Distinct(members) ==
  \A i, j \in DOMAIN members : members[i] = members[j] => i = j

-----------------------------------------------------------------------------
SignWith(members, frame, indices) ==
  [i \in DOMAIN indices |-> [key |-> members[indices[i]], message |-> frame]]

(* Faulty variant: one member too few. *)
BelowThreshold(threshold) == [i \in 1 .. threshold - 1 |-> i]

(* The first `threshold` members. *)
ThresholdIndices(threshold) == [i \in 1 .. threshold |-> i]

SignThreshold(members, threshold, frame) ==
  SignWith(members, frame, ThresholdIndices(threshold))

-----------------------------------------------------------------------------
(* Committee::index_of: the first position of a key. *)
IndexOf(members, key) ==
  CHOOSE i \in DOMAIN members : members[i] = key /\ \A j \in 1 .. i - 1 : members[j] # key

(* Faulty variant: what was signed is not compared. *)
CountsAnyMessage(members, message, signature) ==
  \E i \in DOMAIN members : members[i] = signature.key

Counts(members, message, signature) ==
  /\ signature.message = message
  /\ \E i \in DOMAIN members : members[i] = signature.key

(* The bits of the signer mask. *)
SignerMask(members, message, signatures) ==
  {IndexOf(members, signatures[i].key) :
     i \in {i \in DOMAIN signatures : Counts(members, message, signatures[i])}}

(* Faulty variant: a key that signs twice counts twice. *)
CountsSignatures(members, threshold, message, signatures) ==
  Cardinality({i \in DOMAIN signatures : Counts(members, message, signatures[i])}) >= threshold

VerifyCommittee(members, threshold, message, signatures) ==
  /\ signatures # <<>>
  /\ Cardinality(SignerMask(members, message, signatures)) >= threshold

=============================================================================
