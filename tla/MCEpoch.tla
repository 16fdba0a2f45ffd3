------------------------------ MODULE MCEpoch ------------------------------
(* TLC instance of Epoch. *)
EXTENDS Epoch, TLC

(* Sound: nothing but equality is asked of a user. *)
UserSymmetry == Permutations(Users)

=============================================================================
