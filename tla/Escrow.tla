------------------------------- MODULE Escrow -------------------------------
(***************************************************************************)
(* What the settlement program promises to those who trust it with tokens: *)
(* an escrow for the two contracts of a yes/no question.  Tokens enter and *)
(* leave an account's free balance; a trade turns free balances into YES   *)
(* and NO contracts, equally many, for at most $1 a pair; once the outcome *)
(* is known every contract is redeemed once.  Prices, epochs, batches and  *)
(* the lifecycle of accounts do not appear.                                 *)
(***************************************************************************)
EXTENDS Integers, Totals

CONSTANTS
  Accounts,                 \* every party has an account
  Backstop,                 \* the account that anyone may pay into
  Open, YesWon, NoWon, Void \* the outcomes

VARIABLES
  wallet,   \* tokens of each party
  vault,    \* tokens in escrow
  free,     \* free balance of each account
  yes, no,  \* contracts of each account
  outcome

vars == <<wallet, vault, free, yes, no, outcome>>

Balances == [Accounts -> Nat]
Nothing  == [a \in Accounts |-> 0]

Init ==
  /\ wallet \in Balances
  /\ vault = 0
  /\ free = Nothing
  /\ yes = Nothing
  /\ no = Nothing
  /\ outcome = Open

PayIn(p, a) ==
  \E amount \in 1 .. wallet[p] :
    /\ a \in {p, Backstop}
    /\ wallet' = [wallet EXCEPT ![p] = @ - amount]
    /\ free' = [free EXCEPT ![a] = @ + amount]
    /\ vault' = vault + amount
    /\ UNCHANGED <<yes, no, outcome>>

(* Only its owner is paid from a free balance. *)
PayOut(a) ==
  \E amount \in 1 .. free[a] :
    /\ wallet' = [wallet EXCEPT ![a] = @ + amount]
    /\ free' = [free EXCEPT ![a] = @ - amount]
    /\ vault' = vault - amount
    /\ UNCHANGED <<yes, no, outcome>>

(* No account pays more than $1 for a contract, a pair costs at most $1,   *)
(* and what a trade leaves uncollected is rounding.                         *)
Trade ==
  LET charge  == [a \in Accounts |-> free[a] - free'[a]]
      new_yes == [a \in Accounts |-> yes'[a] - yes[a]]
      new_no  == [a \in Accounts |-> no'[a] - no[a]]
      pairs   == Total(Accounts, new_yes)
      paid    == Total(Accounts, charge)
  IN  /\ outcome = Open
      /\ {free', yes', no', charge, new_yes, new_no} \subseteq Balances
      /\ Total(Accounts, new_no) = pairs
      /\ \A a \in Accounts : charge[a] <= new_yes[a] + new_no[a]
      /\ paid <= pairs
      /\ 2 * (pairs - paid) <= 3 * Cardinality(Accounts)
      /\ UNCHANGED <<wallet, vault, outcome>>

Resolve ==
  /\ outcome = Open
  /\ outcome' \in {YesWon, NoWon, Void}
  /\ UNCHANGED <<wallet, vault, free, yes, no>>

Worth(a) ==
  CASE outcome = YesWon -> yes[a]
    [] outcome = NoWon  -> no[a]
    [] OTHER -> yes[a] \div 2 + no[a] \div 2

Redeem(a) ==
  /\ outcome # Open
  /\ wallet' = [wallet EXCEPT ![a] = @ + Worth(a)]
  /\ vault' = vault - Worth(a)
  /\ yes' = [yes EXCEPT ![a] = 0]
  /\ no' = [no EXCEPT ![a] = 0]
  /\ UNCHANGED <<free, outcome>>

Next ==
  \/ \E p, a \in Accounts : PayIn(p, a)
  \/ \E a \in Accounts : PayOut(a)
  \/ Trade
  \/ Resolve
  \/ \E a \in Accounts : Redeem(a)

Spec == Init /\ [][Next]_vars

=============================================================================
