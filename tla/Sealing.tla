------------------------------ MODULE Sealing ------------------------------
(***************************************************************************)
(* Sealed orders: mpc-core/src/order.rs and seal.rs.  A blob is a message   *)
(* encrypted to the key of one cluster.  It may reach the engine intact, or *)
(* too short to hold a tag, or changed so that the tag does not verify.     *)
(* The message need not come from Order::to_bytes: the key is published.    *)
(***************************************************************************)
EXTENDS Matching

Intact  == "intact"
Stub    == "stub"
Altered == "altered"

(* Canonical order bytes; `exact` is a length of ORDER_WIRE_LEN. *)
ToBytes(order) ==
  [user |-> order.user, market |-> order.market,
   tag |-> IF order.side = Yes THEN 0 ELSE 1, qty |-> order.qty, exact |-> TRUE]

Opened(order) == [ok |-> TRUE, order |-> order]

FromBytes(bytes) ==
  IF ~bytes.exact \/ bytes.tag \notin {0, 1}
  THEN MatchError("MalformedOrder")
  ELSE Opened([user |-> bytes.user, market |-> bytes.market,
               side |-> IF bytes.tag = 0 THEN Yes ELSE No, qty |-> bytes.qty])

SealBytes(bytes, cluster_public) ==
  [sealed_to |-> cluster_public, condition |-> Intact, bytes |-> bytes]

SealOrder(order, cluster_public) == SealBytes(ToBytes(order), cluster_public)

(* ClusterKey::open: length, then tag, then the order inside. *)
OpenBlob(key, blob) ==
  IF blob.condition = Stub THEN MatchError("MalformedSealedOrder")
  ELSE IF blob.condition = Altered \/ blob.sealed_to # key THEN MatchError("SealOpenFailed")
  ELSE FromBytes(blob.bytes)

=============================================================================
