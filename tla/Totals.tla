------------------------------ MODULE Totals ------------------------------
(***************************************************************************)
(* Sums over a finite set.  The sum of f over S is the number of units     *)
(* <<s, i>> with i in 1..f[s]: a definition without recursion, so that     *)
(* the facts about cardinalities are enough to reason about it.            *)
(***************************************************************************)
EXTENDS Naturals, FiniteSets

Units(S, f) == UNION {{s} \X (1 .. f[s]) : s \in S}

Total(S, f) == Cardinality(Units(S, f))

=============================================================================
