---------------------------- MODULE MCBatchBook ----------------------------
(* TLC instance of BatchBook. *)
EXTENDS BatchBook, TLC

CONSTANTS u1, u2

(* The orders cross in part. *)
MCWish == u1 :> [side |-> 0, qty |-> 2] @@ u2 :> [side |-> 1, qty |-> 1]

=============================================================================
