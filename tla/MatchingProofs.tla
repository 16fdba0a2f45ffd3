-------------------------- MODULE MatchingProofs --------------------------
(***************************************************************************)
(* Facts about the operators of Matching, for any orders, weights and       *)
(* bounds: the users of a batch, the exact split, the fills of a match.     *)
(***************************************************************************)
EXTENDS Matching, TotalsProofs, SequenceTheorems

(***************************************************************************)
(* Division, and ranks in a strict order.                                   *)
(***************************************************************************)

LEMMA Division ==
  ASSUME NEW a \in Nat, NEW b \in Nat \ {0}
  PROVE  /\ a \div b \in Nat
         /\ a % b \in Nat
         /\ a % b < b
         /\ a = b * (a \div b) + (a % b)
OBVIOUS

(* Quotient and remainder are determined by the equation they satisfy. *)
LEMMA RemainderUnique ==
  ASSUME NEW m \in Nat \ {0}, NEW a \in Nat, NEW q \in Int, NEW r \in Nat, r < m,
         a = m * q + r
  PROVE  a % m = r
<1>1. a \div m \in Nat /\ a % m \in Nat /\ a % m < m /\ a = m * (a \div m) + (a % m)
  BY Division
<1> DEFINE d == q - a \div m
           s == a % m
<1>2. d \in Int /\ m * d = s - r
  BY <1>1
<1>3. CASE d > 0
  <2>1. m * d >= m
    <3>1. d - 1 \in Nat /\ m * (d - 1) >= 0 /\ m * d = m * (d - 1) + m
      BY <1>2, <1>3
    <3> QED
      BY <3>1
  <2> QED
    BY <1>1, <1>2, <2>1
<1>4. CASE d < 0
  <2>1. m * d <= 0 - m
    <3>1. 0 - d - 1 \in Nat /\ m * (0 - d - 1) >= 0 /\ m * d = 0 - m * (0 - d - 1) - m
      BY <1>2, <1>4
    <3> QED
      BY <3>1
  <2> QED
    BY <1>1, <1>2, <2>1
<1>5. CASE d = 0
  BY <1>1, <1>2, <1>5
<1> QED
  BY <1>2, <1>3, <1>4, <1>5

(* The number of elements before an element of a finite strict order: every *)
(* rank from 0 on is taken once.                                            *)
LEMMA RankOnto ==
  ASSUME NEW S, IsFiniteSet(S), NEW B \in SUBSET (S \X S),
         \A i, j \in S : i # j => <<i, j>> \in B \/ <<j, i>> \in B,
         \A i \in S : <<i, i>> \notin B,
         \A i, j, k \in S : <<i, j>> \in B /\ <<j, k>> \in B => <<i, k>> \in B,
         NEW rank, rank = [i \in S |-> Cardinality({j \in S : <<j, i>> \in B})]
  PROVE  /\ rank \in Bijection(S, 0 .. Cardinality(S) - 1)
         /\ \A i, j \in S : <<i, j>> \in B => rank[i] < rank[j]
<1> DEFINE before(i) == {j \in S : <<j, i>> \in B}
           n == Cardinality(S)
<1>1. n \in Nat
  BY FS_CardinalityType
<1>2. ASSUME NEW i \in S
      PROVE  IsFiniteSet(before(i)) /\ rank[i] = Cardinality(before(i)) /\ rank[i] \in 0 .. n - 1
  <2>1. before(i) \in SUBSET (S \ {i})
    OBVIOUS
  <2>2. IsFiniteSet(S \ {i}) /\ Cardinality(S \ {i}) = n - 1
    BY FS_RemoveElement
  <2>5. rank[i] = Cardinality(before(i))
    OBVIOUS
  <2> HIDE DEF before, n
  <2>3. IsFiniteSet(before(i)) /\ Cardinality(before(i)) <= n - 1
    BY <2>1, <2>2, FS_Subset
  <2>4. Cardinality(before(i)) \in Nat
    BY <2>3, FS_CardinalityType
  <2> QED
    BY <1>1, <2>3, <2>4, <2>5
<1>3. ASSUME NEW i \in S, NEW j \in S, <<i, j>> \in B
      PROVE  rank[i] < rank[j]
  <2>1. before(i) \in SUBSET before(j) /\ before(i) # before(j)
    BY <1>3
  <2> HIDE DEF before, n
  <2>2. Cardinality(before(i)) <= Cardinality(before(j))
        /\ Cardinality(before(i)) # Cardinality(before(j))
    BY <1>2, <2>1, FS_Subset
  <2> QED
    BY <1>1, <1>2, <2>2, SMTT(30)
<1>4. rank \in Injection(S, 0 .. n - 1)
  <2>1. rank \in [S -> 0 .. n - 1]
    BY <1>2
  <2>2. ASSUME NEW i \in S, NEW j \in S, rank[i] = rank[j]
        PROVE  i = j
    <3> HIDE DEF n, before
    <3>1. ~(rank[i] < rank[j]) /\ ~(rank[j] < rank[i])
      <4>1. rank[i] \in 0 .. n - 1
        BY <1>2
      <4> QED
        BY <1>1, <2>2, <4>1
    <3> QED
      BY <1>3, <3>1
  <2> QED
    BY <2>1, <2>2 DEF Injection, IsInjective
<1>5. IsFiniteSet(0 .. n - 1) /\ Cardinality(0 .. n - 1) = n
  <2>1. 0 \in Int /\ n - 1 \in Int /\ (0 > n - 1 <=> n = 0)
    BY <1>1
  <2> HIDE DEF n
  <2> QED
    BY <1>1, <2>1, FS_Interval
<1>6. rank \in Surjection(S, 0 .. n - 1)
  BY <1>4, <1>5, FS_Injection
<1> QED
  BY <1>3, <1>4, <1>6 DEF Bijection

(* The same for numbers in their own order. *)
LEMMA RankOfNumbers ==
  ASSUME NEW S \in SUBSET Nat, IsFiniteSet(S),
         NEW rank, rank = [i \in S |-> Cardinality({j \in S : j < i})]
  PROVE  rank \in Bijection(S, 0 .. Cardinality(S) - 1)
<1> DEFINE B == {p \in S \X S : p[1] < p[2]}
<1>1. B \in SUBSET (S \X S) /\ \A i, j \in S : <<i, j>> \in B <=> i < j
  OBVIOUS
<1>2. rank = [i \in S |-> Cardinality({j \in S : <<j, i>> \in B})]
  <2>1. \A i \in S : {j \in S : <<j, i>> \in B} = {j \in S : j < i}
    BY <1>1
  <2> QED
    BY <2>1
<1>3. /\ \A i, j \in S : i # j => <<i, j>> \in B \/ <<j, i>> \in B
      /\ \A i \in S : <<i, i>> \notin B
      /\ \A i, j, k \in S : <<i, j>> \in B /\ <<j, k>> \in B => <<i, k>> \in B
  BY <1>1
<1> HIDE DEF B
<1> QED
  BY <1>1, <1>2, <1>3, RankOnto

(* A finite non-empty set of numbers has a least one. *)
LEMMA Least ==
  ASSUME NEW S \in SUBSET Nat, IsFiniteSet(S), S # {}
  PROVE  \E i \in S : \A j \in S : i <= j
<1> DEFINE rank == [i \in S |-> Cardinality({j \in S : j < i})]
<1>1. rank \in Bijection(S, 0 .. Cardinality(S) - 1)
  <2>1. rank = [i \in S |-> Cardinality({j \in S : j < i})]
    OBVIOUS
  <2> HIDE DEF rank
  <2> QED
    BY <2>1, RankOfNumbers
<1>2. Cardinality(S) \in Nat /\ Cardinality(S) # 0
  BY FS_CardinalityType, FS_EmptySet
<1>3. PICK i \in S : rank[i] = 0
  <2>1. 0 \in 0 .. Cardinality(S) - 1
    BY <1>2
  <2> HIDE DEF rank
  <2> QED
    BY <1>1, <2>1 DEF Bijection, Surjection
<1>4. {j \in S : j < i} = {}
  <2>1. IsFiniteSet({j \in S : j < i})
    BY FS_Subset
  <2> QED
    BY <1>3, <2>1, FS_EmptySet
<1>5. ASSUME NEW j \in S
      PROVE  i <= j
  <2>1. i \in Nat /\ j \in Nat
    OBVIOUS
  <2>2. ~(j < i)
    BY <1>4
  <2> QED
    BY <2>1, <2>2
<1> QED
  BY <1>5

(***************************************************************************)
(* The users of a batch.                                                    *)
(***************************************************************************)

(* A batch of orders of the users in U. *)
OrderSeq(U) == Seq([user : U, side : Sides, qty : Nat])

OwnersOf(orders) == {orders[i].user : i \in DOMAIN orders}

LEMMA OrderTypes ==
  ASSUME NEW U, NEW orders \in OrderSeq(U)
  PROVE  /\ Len(orders) \in Nat /\ DOMAIN orders = 1 .. Len(orders) /\ IsFiniteSet(DOMAIN orders)
         /\ \A i \in DOMAIN orders : orders[i].user \in U /\ orders[i].qty \in Nat
<1> DEFINE O == [user : U, side : Sides, qty : Nat]
<1>1. \A o \in O : o.user \in U /\ o.qty \in Nat
  OBVIOUS
<1> HIDE DEF O
<1>2. Len(orders) \in Nat /\ orders \in [1 .. Len(orders) -> O] /\ DOMAIN orders = 1 .. Len(orders)
  <2>1. orders \in Seq(O)
    BY DEF O, OrderSeq
  <2> QED
    BY <2>1, LenProperties
<1>3. IsFiniteSet(1 .. Len(orders))
  BY <1>2, FS_Interval
<1> QED
  BY <1>1, <1>2, <1>3

(* Nth numbers the elements of a set. *)
LEMMA NthNumbers ==
  ASSUME NEW S \in SUBSET Nat, IsFiniteSet(S)
  PROVE  /\ Cardinality(S) \in Nat
         /\ \A k \in 1 .. Cardinality(S) : Nth(S, k) \in S
         /\ \A k, l \in 1 .. Cardinality(S) : Nth(S, k) = Nth(S, l) => k = l
         /\ \A i \in S : \E k \in 1 .. Cardinality(S) : Nth(S, k) = i
<1> DEFINE c == Cardinality(S)
           before(i) == Cardinality({j \in S : j < i})
           rank == [i \in S |-> before(i)]
<1>1. c \in Nat
  BY FS_CardinalityType
<1>2. rank \in Bijection(S, 0 .. c - 1)
  <2>1. rank = [i \in S |-> Cardinality({j \in S : j < i})]
    OBVIOUS
  <2> HIDE DEF rank
  <2> QED
    BY <2>1, RankOfNumbers
<1>3. ASSUME NEW k \in 1 .. c
      PROVE  Nth(S, k) \in S /\ rank[Nth(S, k)] = k - 1
  <2>1. k - 1 \in 0 .. c - 1
    BY <1>1
  <2>2. \E i \in S : rank[i] = k - 1
    <3> HIDE DEF rank, c
    <3> QED
      BY <1>2, <2>1 DEF Bijection, Surjection
  <2>3. \E i \in S : before(i) = k - 1
    BY <2>2
  <2>4. Nth(S, k) = CHOOSE i \in S : before(i) = k - 1
    BY DEF Nth
  <2> HIDE DEF before
  <2>5. Nth(S, k) \in S /\ before(Nth(S, k)) = k - 1
    BY <2>3, <2>4
  <2> QED
    BY <2>5
<1>4. ASSUME NEW k \in 1 .. c, NEW l \in 1 .. c, Nth(S, k) = Nth(S, l)
      PROVE  k = l
  <2>1. k - 1 = l - 1
    BY <1>3, <1>4
  <2> QED
    BY <1>1, <2>1
<1>5. ASSUME NEW i \in S
      PROVE  \E k \in 1 .. c : Nth(S, k) = i
  <2> HIDE DEF rank, c
  <2>1. rank[i] \in 0 .. c - 1 /\ \A a, b \in S : rank[a] = rank[b] => a = b
    BY <1>2 DEF Bijection, Injection, IsInjective
  <2>2. rank[i] + 1 \in 1 .. c /\ (rank[i] + 1) - 1 = rank[i]
    BY <1>1, <2>1
  <2>3. Nth(S, rank[i] + 1) \in S /\ rank[Nth(S, rank[i] + 1)] = rank[i]
    BY <1>3, <2>2
  <2>4. Nth(S, rank[i] + 1) = i
    BY <2>1, <2>3
  <2> QED
    BY <2>2, <2>4
<1> QED
  BY <1>1, <1>3, <1>4, <1>5

(* BatchUsers lists every owner of an order once. *)
LEMMA UsersOnce ==
  ASSUME NEW U, NEW orders \in OrderSeq(U),
         NEW users, users = BatchUsers(orders)
  PROVE  /\ users \in Seq(U)
         /\ users \in Bijection(1 .. Len(users), {orders[i].user : i \in DOMAIN orders})
<1> DEFINE F == FirstOrders(orders)
           c == Cardinality(F)
           nth(k) == Nth(F, k)
           owners == {orders[i].user : i \in DOMAIN orders}
<1>1. /\ F \in SUBSET DOMAIN orders /\ c \in Nat
      /\ \A k \in 1 .. c : nth(k) \in F
      /\ \A k, l \in 1 .. c : nth(k) = nth(l) => k = l
      /\ \A i \in F : \E k \in 1 .. c : nth(k) = i
  <2>1. F \in SUBSET DOMAIN orders /\ IsFiniteSet(DOMAIN orders) /\ DOMAIN orders \in SUBSET Nat
    BY OrderTypes DEF FirstOrders
  <2>2. F \in SUBSET Nat /\ IsFiniteSet(F)
    BY <2>1, FS_Subset
  <2> HIDE DEF F
  <2> QED
    BY <2>1, <2>2, NthNumbers
<1>2. users = [k \in 1 .. c |-> orders[nth(k)].user]
  BY DEF BatchUsers
<1>3. DOMAIN orders \in SUBSET (Nat \ {0}) /\ \A i \in DOMAIN orders : 1 .. i - 1 \in SUBSET DOMAIN orders
  BY OrderTypes
<1>4. ASSUME NEW i \in F, NEW j \in F, orders[i].user = orders[j].user
      PROVE  i = j
  <2>1. i \in Nat \ {0} /\ j \in Nat \ {0}
    BY <1>1, <1>3
  <2>2. ~(i < j) /\ ~(j < i)
    <3>1. /\ \A a \in 1 .. i - 1 : orders[a].user # orders[i].user
          /\ \A a \in 1 .. j - 1 : orders[a].user # orders[j].user
      BY DEF FirstOrders
    <3>2. (i < j => i \in 1 .. j - 1) /\ (j < i => j \in 1 .. i - 1)
      BY <2>1
    <3> QED
      BY <1>4, <3>1, <3>2
  <2> QED
    BY <2>1, <2>2
<1>5. ASSUME NEW i \in DOMAIN orders
      PROVE  \E j \in F : orders[j].user = orders[i].user
  <2> DEFINE T == {j \in DOMAIN orders : orders[j].user = orders[i].user}
  <2>1. T \in SUBSET Nat /\ IsFiniteSet(T) /\ T # {}
    <3>1. IsFiniteSet(DOMAIN orders)
      BY OrderTypes
    <3>2. T \in SUBSET DOMAIN orders /\ i \in T
      OBVIOUS
    <3> QED
      BY <1>3, <3>1, <3>2, FS_Subset
  <2>2. PICK j \in T : \A k \in T : j <= k
    <3> HIDE DEF T
    <3> QED
      BY <2>1, Least
  <2>3. \A k \in 1 .. j - 1 : orders[k].user # orders[j].user
    <3>1. ASSUME NEW k \in 1 .. j - 1
          PROVE  k \notin T
      <4>1. j \in Nat /\ k \in Nat /\ ~(j <= k)
        BY <1>3
      <4> QED
        BY <2>2, <4>1
    <3>2. \A k \in 1 .. j - 1 : k \in DOMAIN orders
      BY <1>3
    <3> QED
      BY <3>1, <3>2
  <2> QED
    BY <2>3 DEF FirstOrders
<1> HIDE DEF F, c, nth
<1>6. users \in [1 .. c -> U]
  <2>1. \A i \in DOMAIN orders : orders[i].user \in U
    BY OrderTypes
  <2>2. \A k \in 1 .. c : orders[nth(k)].user \in U
    BY <1>1, <2>1
  <2> QED
    BY <1>2, <2>2
<1>7. users \in Seq(U) /\ Len(users) = c
  BY <1>1, <1>6, SeqDef, LenProperties
<1>8. users \in Injection(1 .. c, owners)
  <2>1. users \in [1 .. c -> owners]
    BY <1>1, <1>2
  <2>2. \A k, l \in 1 .. c : users[k] = users[l] => k = l
    BY <1>1, <1>2, <1>4
  <2> QED
    BY <2>1, <2>2 DEF Injection, IsInjective
<1>9. users \in Surjection(1 .. c, owners)
  <2>1. users \in [1 .. c -> owners]
    BY <1>8 DEF Injection
  <2>2. ASSUME NEW u \in owners
        PROVE  \E k \in 1 .. c : users[k] = u
    <3>1. PICK i \in DOMAIN orders : u = orders[i].user
      OBVIOUS
    <3>2. PICK j \in F : orders[j].user = u
      BY <1>5, <3>1
    <3>3. PICK k \in 1 .. c : nth(k) = j
      BY <1>1
    <3> QED
      BY <1>2, <3>2, <3>3
  <2> QED
    BY <2>1, <2>2 DEF Surjection
<1> QED
  BY <1>7, <1>8, <1>9 DEF Bijection

(***************************************************************************)
(* Aggregates.                                                              *)
(***************************************************************************)

LEMMA DemandType ==
  ASSUME NEW U, NEW orders \in OrderSeq(U), NEW u, NEW side
  PROVE  /\ Demand(orders, u, side) \in Nat
         /\ u \notin {orders[i].user : i \in DOMAIN orders} => Demand(orders, u, side) = 0
<1> DEFINE T == {i \in DOMAIN orders : orders[i].user = u /\ orders[i].side = side}
           q == [i \in DOMAIN orders |-> orders[i].qty]
           p == [i \in T |-> orders[i].qty]
<1>1. Demand(orders, u, side) = Total(T, q)
  BY DEF Demand
<1>2. Total(T, q) = Total(T, p)
  <2>1. \A i \in T : q[i] = p[i]
    OBVIOUS
  <2> HIDE DEF p, q, T
  <2> QED
    BY <2>1, TotalEqual
<1>3. IsFiniteSet(T)
  <2>1. T \in SUBSET DOMAIN orders
    OBVIOUS
  <2> HIDE DEF T
  <2>2. IsFiniteSet(DOMAIN orders)
    BY OrderTypes
  <2> QED
    BY <2>1, <2>2, FS_Subset
<1>4. p \in [T -> Nat]
  <2>1. \A i \in DOMAIN orders : orders[i].qty \in Nat
    BY OrderTypes
  <2> QED
    BY <2>1
<1>5. Total(T, p) \in Nat
  <2> HIDE DEF p, T
  <2> QED
    BY <1>3, <1>4, TotalType
<1>6. ASSUME u \notin {orders[i].user : i \in DOMAIN orders}
      PROVE  Total(T, q) = 0
  <2>1. \A i \in T : q[i] = 0
    BY <1>6
  <2> HIDE DEF q, T
  <2> QED
    BY <2>1, TotalZero
<1> QED
  BY <1>1, <1>2, <1>5, <1>6

(* A sum over all users is the sum over the users of a batch, by index. *)
LEMMA TotalByUser ==
  ASSUME NEW U, IsFiniteSet(U), NEW V \in SUBSET U, NEW n \in Nat,
         NEW users \in Bijection(1 .. n, V),
         NEW f \in [U -> Nat], \A u \in U \ V : f[u] = 0,
         NEW g \in [1 .. n -> Nat], \A i \in 1 .. n : g[i] = f[users[i]]
  PROVE  Total(1 .. n, g) = Total(U, f)
<1> DEFINE r == [u \in V |-> f[u]]
<1>1. Total(U, f) = Total(V, f)
  BY TotalRestrict
<1>2. Total(V, f) = Total(V, r)
  <2>1. \A u \in V : f[u] = r[u]
    OBVIOUS
  <2> HIDE DEF r
  <2> QED
    BY <2>1, TotalEqual
<1>3. Total(1 .. n, g) = Total(V, r)
  <2>1. IsFiniteSet(1 .. n)
    BY FS_Interval
  <2>2. r \in [V -> Nat]
    OBVIOUS
  <2>3. \A i \in 1 .. n : users[i] \in V
    BY DEF Bijection, Injection
  <2>4. \A i \in 1 .. n : g[i] = r[users[i]]
    BY <2>3
  <2> HIDE DEF r
  <2> QED
    BY <2>1, <2>2, <2>4, TotalReindex, SMTT(30)
<1> QED
  BY <1>1, <1>2, <1>3

(* One number for each of n entries. *)
Columns(n) == [1 .. n -> Nat]

(* The demand of every user on a side. *)
Demands(U, orders, side) == [u \in U |-> Demand(orders, u, side)]

(* The columns of aggregates are those of the users, and add up to the      *)
(* demand of all.                                                           *)
LEMMA AggregatesAdd ==
  ASSUME NEW U, IsFiniteSet(U), NEW orders \in OrderSeq(U),
         NEW a, a = Aggregates(orders)
  PROVE  /\ Len(a.users) \in Nat
         /\ a.users \in Bijection(1 .. Len(a.users), OwnersOf(orders))
         /\ a.users \in Seq(U)
         /\ a.yes \in Columns(Len(a.users))
         /\ a.no \in Columns(Len(a.users))
         /\ \A i \in 1 .. Len(a.users) : /\ a.yes[i] = Demand(orders, a.users[i], Yes)
                                         /\ a.no[i] = Demand(orders, a.users[i], No)
         /\ Total(1 .. Len(a.users), a.yes) = Total(U, Demands(U, orders, Yes))
         /\ Total(1 .. Len(a.users), a.no) = Total(U, Demands(U, orders, No))
<1> DEFINE users == BatchUsers(orders)
           owners == {orders[i].user : i \in DOMAIN orders}
           n == Len(users)
           col(side) == [i \in DOMAIN users |-> Demand(orders, users[i], side)]
           all(side) == [u \in U |-> Demand(orders, u, side)]
<1>1. users \in Seq(U) /\ users \in Bijection(1 .. n, owners)
  BY UsersOnce
<1>2. n \in Nat /\ DOMAIN users = 1 .. n
  <2> HIDE DEF users
  <2> QED
    BY <1>1
<1>3. a = [users |-> users, yes |-> col(Yes), no |-> col(No)]
  BY DEF Aggregates
<1>4. owners \in SUBSET U
  BY OrderTypes
<1>5. ASSUME NEW f \in [U -> Nat], \A u \in U \ owners : f[u] = 0,
             NEW g \in [1 .. n -> Nat], \A i \in 1 .. n : g[i] = f[users[i]]
      PROVE  Total(1 .. n, g) = Total(U, f)
  <2> HIDE DEF users, owners, n
  <2> QED
    BY <1>1, <1>2, <1>4, <1>5, TotalByUser
<1>6. ASSUME NEW side
      PROVE  /\ col(side) \in [1 .. n -> Nat]
             /\ \A i \in 1 .. n : col(side)[i] = Demand(orders, users[i], side)
             /\ Total(1 .. n, col(side)) = Total(U, all(side))
  <2>1. col(side) \in [1 .. n -> Nat] /\ \A i \in 1 .. n : col(side)[i] = Demand(orders, users[i], side)
    <3> HIDE DEF users
    <3> QED
      BY <1>2, DemandType
  <2>2. all(side) \in [U -> Nat] /\ \A u \in U \ owners : all(side)[u] = 0
    BY DemandType
  <2>3. \A i \in 1 .. n : users[i] \in U
    BY <1>1, <1>2
  <2>4. \A i \in 1 .. n : col(side)[i] = all(side)[users[i]]
    BY <2>1, <2>3
  <2> HIDE DEF users, owners, n, col, all
  <2> QED
    <3>1. \A i \in 1 .. n : col(side)[i] = all(side)[users[i]]
      BY <2>4
    <3>2. Total(1 .. n, col(side)) = Total(U, all(side))
      BY <1>5, <2>1, <2>2, <3>1
    <3> QED
      BY <2>1, <3>2
<1>7. a.users = users /\ a.yes = col(Yes) /\ a.no = col(No)
  BY <1>3
<1> HIDE DEF users, owners, n, col
<1> QED
  BY <1>1, <1>2, <1>6, <1>7 DEF n, owners, OwnersOf, Columns, all, Demands

(***************************************************************************)
(* The exact split.                                                         *)
(***************************************************************************)

LEMMA ScaledColumn ==
  ASSUME NEW n \in Nat, NEW k \in Nat, NEW f \in Columns(n)
  PROVE  \E g : /\ g \in Columns(n)
                /\ \A i \in 1 .. n : g[i] = k * f[i]
                /\ Total(1 .. n, g) = k * Total(1 .. n, f)
<1> DEFINE g == [i \in 1 .. n |-> k * f[i]]
<1>1. g \in Columns(n) /\ \A i \in 1 .. n : g[i] = k * f[i]
  BY DEF Columns
<1>2. IsFiniteSet(1 .. n)
  BY FS_Interval
<1> HIDE DEF g
<1>3. Total(1 .. n, g) = k * Total(1 .. n, f)
  BY <1>1, <1>2, TotalScale DEF Columns
<1> QED
  BY <1>1, <1>3

LEMMA AddedColumns ==
  ASSUME NEW n \in Nat, NEW f \in Columns(n), NEW g \in Columns(n),
         NEW h \in Columns(n), \A i \in 1 .. n : h[i] = f[i] + g[i]
  PROVE  Total(1 .. n, h) = Total(1 .. n, f) + Total(1 .. n, g)
<1>1. IsFiniteSet(1 .. n)
  BY FS_Interval
<1> DEFINE S == 1 .. n
<1>2. f \in [S -> Nat] /\ g \in [S -> Nat] /\ h \in [S -> Nat]
  BY DEF Columns
<1>3. IsFiniteSet(S) /\ \A s \in S : h[s] = f[s] + g[s]
  BY <1>1
<1> HIDE DEF S
<1>4. Total(S, h) = Total(S, f) + Total(S, g)
  BY <1>2, <1>3, TotalAdd
<1> QED
  BY <1>4 DEF S

LEMMA DividedTotals ==
  ASSUME NEW n \in Nat, NEW total \in Nat, NEW sum \in Nat, NEW w, NEW q, NEW r
  PROVE  /\ w \in Columns(n) /\ q \in Columns(n) /\ r \in Columns(n)
         /\ \A i \in 1 .. n : total * w[i] = sum * q[i] + r[i]
         => total * Total(1 .. n, w) = sum * Total(1 .. n, q) + Total(1 .. n, r)
<1>1. SUFFICES ASSUME w \in Columns(n) /\ q \in Columns(n) /\ r \in Columns(n),
                      \A i \in 1 .. n : total * w[i] = sum * q[i] + r[i]
               PROVE  total * Total(1 .. n, w) = sum * Total(1 .. n, q) + Total(1 .. n, r)
  OBVIOUS
<1>2. w \in Columns(n)
  BY <1>1
<1>3. q \in Columns(n)
  BY <1>1
<1>4. r \in Columns(n)
  BY <1>1
<1>5. PICK tw : /\ tw \in Columns(n)
                /\ \A i \in 1 .. n : tw[i] = total * w[i]
                /\ Total(1 .. n, tw) = total * Total(1 .. n, w)
  BY <1>2, ScaledColumn
<1>6. PICK sq : /\ sq \in Columns(n)
                /\ \A i \in 1 .. n : sq[i] = sum * q[i]
                /\ Total(1 .. n, sq) = sum * Total(1 .. n, q)
  BY <1>3, ScaledColumn
<1>7. \A i \in 1 .. n : tw[i] = sq[i] + r[i]
  BY <1>1, <1>5, <1>6
<1>8. tw \in Columns(n)
  BY <1>5
<1>9. sq \in Columns(n)
  BY <1>6
<1>10. Total(1 .. n, tw) = Total(1 .. n, sq) + Total(1 .. n, r)
  BY <1>4, <1>7, <1>8, <1>9, AddedColumns
<1> QED
  BY <1>5, <1>6, <1>10

(* A share and its remainder. *)
LEMMA ShareDivides ==
  ASSUME NEW n \in Nat, NEW w \in Columns(n), NEW total \in Nat,
         NEW sum \in Nat \ {0}, sum = Total(1 .. n, w), NEW i \in 1 .. n
  PROVE  /\ Share(total, w, i) \in Nat
         /\ Remainder(total, w, i) \in Nat
         /\ Remainder(total, w, i) < sum
         /\ total * w[i] = sum * Share(total, w, i) + Remainder(total, w, i)
<1>1. DOMAIN w = 1 .. n /\ w[i] \in Nat
  BY DEF Columns
<1> DEFINE a == total * w[i]
<1>2. Share(total, w, i) = a \div sum /\ Remainder(total, w, i) = a % sum
  BY <1>1 DEF Share, Remainder
<1>3. a \in Nat
  BY <1>1
<1> HIDE DEF a
<1>4. /\ a \div sum \in Nat /\ a % sum \in Nat
      /\ a % sum < sum
      /\ a = sum * (a \div sum) + (a % sum)
  BY <1>3, Division
<1> QED
  BY <1>2, <1>4 DEF a

(* The entries with a remainder, the entries before i, the ranks below k. *)
Indivisible(n, r) == {i \in 1 .. n : r[i] > 0}
ServedBefore(n, r, i) == {j \in 1 .. n : r[j] > r[i] \/ (r[j] = r[i] /\ j < i)}
Below(n, rank, k) == {i \in 1 .. n : rank[i] < k}

(* There are no more leftover units than entries with a remainder. *)
LEMMA LeftoverBounded ==
  ASSUME NEW n \in Nat, NEW sum \in Nat \ {0}, NEW total \in Nat,
         NEW q \in Columns(n), NEW r \in Columns(n),
         \A i \in 1 .. n : r[i] < sum,
         total * sum = sum * Total(1 .. n, q) + Total(1 .. n, r),
         NEW left, left = total - Total(1 .. n, q)
  PROVE  left \in Nat /\ left <= Cardinality(Indivisible(n, r))
<1> DEFINE P == Indivisible(n, r)
           ind == [i \in 1 .. n |-> IF i \in P THEN 1 ELSE 0]
<1>1. IsFiniteSet(1 .. n)
  BY FS_Interval
<1>2. P \in SUBSET (1 .. n) /\ ind \in Columns(n)
  BY DEF Columns, Indivisible
<1>3. \A i \in 1 .. n : 1 * r[i] <= sum * ind[i] + 0 * ind[i]
  <2> TAKE i \in 1 .. n
  <2>1. r[i] \in Nat /\ r[i] < sum
    BY DEF Columns
  <2>2. CASE r[i] > 0
    BY <2>1, <2>2 DEF Indivisible
  <2>3. CASE r[i] = 0
    BY <2>1, <2>3 DEF Indivisible
  <2> QED
    BY <2>1, <2>2, <2>3
<1>4. Total(1 .. n, ind) = Cardinality(P)
  <2> HIDE DEF P
  <2> QED
    BY <1>1, <1>2, TotalIndicator
<1>5. Cardinality(P) \in Nat
  <2> HIDE DEF P
  <2> QED
    BY <1>1, <1>2, FS_Subset, FS_CardinalityType
<1> DEFINE tq == Total(1 .. n, q)
           tr == Total(1 .. n, r)
           c == Cardinality(P)
<1>6. tq \in Nat /\ tr \in Nat
  BY <1>1, TotalType DEF Columns
<1>7. 1 * tr <= sum * Total(1 .. n, ind) + 0 * Total(1 .. n, ind)
  <2> HIDE DEF P, ind
  <2> QED
    BY <1>1, <1>2, <1>3, TotalCompare DEF Columns
<1>8. tr <= sum * c
  <2> HIDE DEF P, ind, tr
  <2> QED
    BY <1>4, <1>5, <1>6, <1>7
<1>9. sum * left = tr
  <2>1. total * sum = sum * tq + tr
    OBVIOUS
  <2>2. left = total - tq
    OBVIOUS
  <2> HIDE DEF tq, tr
  <2>3. sum * (total - tq) = sum * total - sum * tq /\ sum * total = total * sum
    BY <1>6
  <2>4. sum * total \in Int /\ sum * tq \in Int
    BY <1>6
  <2>5. sum * left = sum * total - sum * tq
    BY <2>2, <2>3
  <2> QED
    BY <1>6, <2>1, <2>3, <2>4, <2>5
<1>10. left \in Int
  BY <1>6
<1> HIDE DEF c, tr, tq
<1>11. left >= 0
  <2> SUFFICES ASSUME left <= -1 PROVE FALSE
    BY <1>10
  <2> DEFINE d == -1 - left
  <2>1. d \in Nat /\ left = 0 - d - 1
    BY <1>10
  <2> HIDE DEF d
  <2>2. sum * (0 - d - 1) = 0 - sum * d - sum /\ sum * d \in Nat
    BY <2>1
  <2>3. sum * left = 0 - sum * d - sum
    BY <2>1, <2>2
  <2> QED
    BY <1>6, <1>9, <2>2, <2>3
<1>12. left <= c
  <2> SUFFICES ASSUME left >= c + 1 PROVE FALSE
    BY <1>5, <1>10 DEF c
  <2>1. c \in Nat
    BY <1>5 DEF c
  <2>2. sum * (left - c - 1) >= 0 /\ sum * left = sum * (left - c - 1) + sum * c + sum
    BY <1>10, <2>1, SMTT(30)
  <2> QED
    BY <1>6, <1>8, <1>9, <2>1, <2>2
<1> QED
  BY <1>10, <1>11, <1>12 DEF c

(* Serving by decreasing remainder: the ranks below k are those of k        *)
(* entries, and an entry without a remainder comes after all that have one. *)
LEMMA RemainderRanks ==
  ASSUME NEW n \in Nat, NEW r \in Columns(n),
         NEW rank \in Columns(n), \A i \in 1 .. n : rank[i] = Cardinality(ServedBefore(n, r, i))
  PROVE  /\ \A i \in 1 .. n : rank[i] \in 0 .. n - 1
         /\ \A i, j \in 1 .. n : r[j] > r[i] => rank[j] < rank[i]
         /\ \A i \in 1 .. n : r[i] = 0 => Cardinality(Indivisible(n, r)) <= rank[i]
         /\ \A k \in 0 .. n : Cardinality(Below(n, rank, k)) = k
<1> DEFINE S == 1 .. n
           B == {p \in S \X S : r[p[1]] > r[p[2]] \/ (r[p[1]] = r[p[2]] /\ p[1] < p[2])}
<1>1. B \in SUBSET (S \X S) /\ \A i, j \in S : <<i, j>> \in B <=> (r[i] > r[j] \/ (r[i] = r[j] /\ i < j))
  OBVIOUS
<1>2. IsFiniteSet(S) /\ Cardinality(S) = n
  <2>1. 1 \in Int /\ n \in Int /\ (1 > n <=> n = 0)
    OBVIOUS
  <2> QED
    BY <2>1, FS_Interval
<1>3. \A i \in S : r[i] \in Nat /\ i \in Nat
  BY DEF Columns
<1>4. rank = [i \in S |-> Cardinality({j \in S : <<j, i>> \in B})]
  <2>1. \A i \in S : {j \in S : <<j, i>> \in B} = ServedBefore(n, r, i)
    BY <1>1 DEF ServedBefore
  <2> QED
    BY <2>1 DEF Columns
<1>5. /\ \A i, j \in S : i # j => <<i, j>> \in B \/ <<j, i>> \in B
      /\ \A i \in S : <<i, i>> \notin B
      /\ \A i, j, k \in S : <<i, j>> \in B /\ <<j, k>> \in B => <<i, k>> \in B
  <2> HIDE DEF B, S
  <2> QED
    BY <1>1, <1>3
<1>6. /\ rank \in Bijection(S, 0 .. n - 1)
      /\ \A i, j \in S : <<i, j>> \in B => rank[i] < rank[j]
  <2> HIDE DEF B, S
  <2> QED
    BY <1>1, <1>2, <1>4, <1>5, RankOnto, ZenonT(30)
<1>7. rank \in [S -> 0 .. n - 1]
  <2> HIDE DEF B, S
  <2> QED
    BY <1>6 DEF Bijection, Injection
<1>8. ASSUME NEW i \in S, r[i] = 0
      PROVE  Cardinality(Indivisible(n, r)) <= rank[i]
  <2> DEFINE P == Indivisible(n, r)
             T == {j \in S : <<j, i>> \in B}
  <2>1. P \in SUBSET T /\ T \in SUBSET S
    BY <1>1, <1>8 DEF Indivisible
  <2>2. rank[i] = Cardinality(T)
    BY <1>4
  <2> HIDE DEF P, T, S
  <2>3. IsFiniteSet(T)
    BY <1>2, <2>1, FS_Subset
  <2>4. Cardinality(P) <= Cardinality(T)
    BY <2>1, <2>3, FS_Subset
  <2> QED
    BY <2>2, <2>4 DEF P
<1>9. ASSUME NEW k \in 0 .. n
      PROVE  Cardinality(Below(n, rank, k)) = k
  <2> DEFINE T == Below(n, rank, k)
             b == [i \in T |-> rank[i]]
  <2> HIDE DEF S, B
  <2>1. \A i \in T : i \in S /\ rank[i] \in 0 .. k - 1
    BY <1>7 DEF Below, S
  <2>2. b \in Injection(T, 0 .. k - 1)
    <3>1. \A i, j \in S : rank[i] = rank[j] => i = j
      BY <1>6 DEF Bijection, Injection, IsInjective
    <3>2. \A i, j \in T : b[i] = b[j] => i = j
      BY <2>1, <3>1
    <3>3. b \in [T -> 0 .. k - 1]
      BY <2>1
    <3> HIDE DEF b, T
    <3> QED
      BY <3>2, <3>3 DEF Injection, IsInjective
  <2>3. b \in Surjection(T, 0 .. k - 1)
    <3>1. b \in [T -> 0 .. k - 1]
      BY <2>1
    <3>2. ASSUME NEW x \in 0 .. k - 1
          PROVE  \E i \in T : b[i] = x
      <4>1. x \in 0 .. n - 1 /\ x < k
        OBVIOUS
      <4>2. PICK i \in S : rank[i] = x
        BY <1>6, <4>1 DEF Bijection, Surjection
      <4>3. i \in T
        BY <4>1, <4>2 DEF Below, S
      <4> QED
        BY <4>2, <4>3
    <3> HIDE DEF b, T
    <3> QED
      BY <3>1, <3>2 DEF Surjection
  <2>4. IsFiniteSet(0 .. k - 1) /\ Cardinality(0 .. k - 1) = k
    <3>1. 0 \in Int /\ k - 1 \in Int /\ (0 > k - 1 <=> k = 0) /\ (k - 1) - 0 + 1 = k
      OBVIOUS
    <3> QED
      BY <3>1, FS_Interval
  <2> HIDE DEF b, T
  <2>5. Cardinality(T) = Cardinality(0 .. k - 1)
    BY <2>2, <2>3, <2>4, FS_Injection
  <2> QED
    BY <2>4, <2>5 DEF T
<1>10. \A i, j \in S : r[j] > r[i] => rank[j] < rank[i]
  BY <1>1, <1>6
<1> QED
  BY <1>7, <1>8, <1>9, <1>10

(* One entry of the split: w' is another weight, its share and its units. *)
LEMMA EntryBounds ==
  ASSUME NEW sum \in Nat \ {0}, NEW total \in Nat, total <= sum,
         NEW w \in Nat, NEW q \in Nat, NEW r \in Nat, r < sum, NEW a \in Nat
  PROVE  /\ total * w = sum * q + r
         /\ a = q \/ (a = q + 1 /\ r > 0)
         => /\ a <= w
            /\ a * sum < total * w + sum
            /\ total * w < a * sum + sum
<1>1. SUFFICES ASSUME total * w = sum * q + r, a = q \/ (a = q + 1 /\ r > 0)
               PROVE  a <= w /\ a * sum < total * w + sum /\ total * w < a * sum + sum
  OBVIOUS
<1> DEFINE sq == sum * q
           tw == total * w
<1>2. sq \in Nat /\ tw \in Nat /\ tw = sq + r
  BY <1>1
<1>3. q * sum = sq /\ (q + 1) * sum = sq + sum
  OBVIOUS
<1>4. tw <= sum * w
  <2>1. (sum - total) * w >= 0 /\ (sum - total) * w = sum * w - total * w
    OBVIOUS
  <2> QED
    BY <2>1
<1>5. q > w => sq > sum * w
  <2>1. SUFFICES ASSUME q > w PROVE sum * q > sum * w
    OBVIOUS
  <2>2. q - w - 1 \in Nat
    BY <2>1
  <2>3. sum * (q - w - 1) >= 0 /\ sum * (q - w - 1) = sum * q - sum * w - sum
    BY <2>2
  <2> QED
    BY <2>3
<1>6. q = w => sq = sum * w
  OBVIOUS
<1>7. sum * w \in Nat
  OBVIOUS
<1> HIDE DEF sq, tw
<1>8. q <= w /\ (r > 0 => q + 1 <= w)
  BY <1>2, <1>4, <1>5, <1>6, <1>7
<1>9. a * sum = sq \/ (a * sum = sq + sum /\ r > 0)
  BY <1>1, <1>3
<1>10. a * sum < tw + sum /\ tw < a * sum + sum
  BY <1>2, <1>9
<1>11. a <= w
  BY <1>1, <1>8
<1> QED
  BY <1>10, <1>11 DEF tw

LEMMA ProductMonotone ==
  ASSUME NEW total \in Nat, NEW w \in Nat, NEW v \in Nat, w < v
  PROVE  total * w < total * v \/ (total * w = 0 /\ total * v = 0)
<1>1. CASE total = 0
  BY <1>1
<1>2. CASE total > 0
  <2>1. v - w - 1 \in Nat
    OBVIOUS
  <2>2. total * (v - w - 1) >= 0 /\ total * (v - w - 1) = total * v - total * w - total
    BY <2>1
  <2> QED
    BY <1>2, <2>2
<1> QED
  BY <1>1, <1>2

LEMMA MultiplesApart ==
  ASSUME NEW sum \in Nat, NEW q \in Nat, NEW p \in Nat
  PROVE  p < q => sum * q >= sum * p + sum
<1> SUFFICES ASSUME p < q PROVE sum * q >= sum * p + sum
  OBVIOUS
<1>1. q - p - 1 \in Nat
  OBVIOUS
<1>2. sum * (q - p - 1) >= 0 /\ sum * (q - p - 1) = sum * q - sum * p - sum
  BY <1>1
<1> QED
  BY <1>2

LEMMA EntriesMonotone ==
  ASSUME NEW sum \in Nat, NEW x \in Nat, NEW y \in Nat, x < y \/ (x = 0 /\ y = 0),
         NEW q \in Nat, NEW r \in Nat, r < sum, NEW p \in Nat, NEW s \in Nat, s < sum,
         NEW sq \in Nat, NEW sp \in Nat, x = sq + r, y = sp + s,
         p < q => sq >= sp + sum, q = p => sq = sp
  PROVE  q < p \/ (q = p /\ (r < s \/ (r = 0 /\ s = 0)))
OBVIOUS

(* allocate_exact distributes exactly `total`, nobody gets more than its    *)
(* weight, everyone its exact share rounded up or down, and a larger weight *)
(* never less than a smaller one.                                           *)
LEMMA AllocationIsExact ==
  ASSUME NEW n \in Nat, NEW w \in Columns(n), NEW total \in Nat,
         NEW sum, sum = Total(1 .. n, w), total <= sum,
         NEW a, a = AllocateExact(total, w)
  PROVE  /\ a \in Columns(n)
         /\ Total(1 .. n, a) = total
         /\ \A i \in 1 .. n : a[i] <= w[i]
         /\ sum > 0 => \A i \in 1 .. n : /\ a[i] * sum < total * w[i] + sum
                                         /\ total * w[i] < a[i] * sum + sum
         /\ \A i, j \in 1 .. n : w[i] < w[j] => a[i] <= a[j]
<1>1. DOMAIN w = 1 .. n /\ IsFiniteSet(1 .. n) /\ sum \in Nat
  <2>1. IsFiniteSet(1 .. n)
    BY FS_Interval
  <2>2. Total(1 .. n, w) \in Nat
    BY <2>1, TotalType DEF Columns
  <2> QED
    BY <2>1, <2>2 DEF Columns
<1>2. CASE sum = 0
  <2>1. a = [i \in 1 .. n |-> 0]
    BY <1>1, <1>2 DEF AllocateExact
  <2>2. \A i \in 1 .. n : a[i] = 0
    BY <2>1
  <2>3. Total(1 .. n, a) = 0
    BY <2>2, TotalZero
  <2>4. total = 0 /\ a \in Columns(n)
    BY <1>2, <2>1 DEF Columns
  <2> QED
    BY <1>1, <1>2, <2>2, <2>3, <2>4 DEF Columns
<1>3. CASE sum # 0
  <2> DEFINE q == [i \in 1 .. n |-> Share(total, w, i)]
             r == [i \in 1 .. n |-> Remainder(total, w, i)]
             rank == [i \in 1 .. n |-> Cardinality(ServedBefore(n, r, i))]
             left == Leftover(total, w)
             served == Below(n, rank, left)
             ind == [i \in 1 .. n |-> IF i \in served THEN 1 ELSE 0]
  <2>1. /\ sum \in Nat \ {0}
        /\ q \in Columns(n) /\ r \in Columns(n)
        /\ \A i \in 1 .. n : r[i] < sum
        /\ \A i \in 1 .. n : total * w[i] = sum * q[i] + r[i]
    <3>1. sum \in Nat \ {0}
      BY <1>1, <1>3
    <3>2. \A i \in 1 .. n : q[i] = Share(total, w, i) /\ r[i] = Remainder(total, w, i)
      OBVIOUS
    <3>3. \A i \in 1 .. n : /\ Share(total, w, i) \in Nat
                            /\ Remainder(total, w, i) \in Nat
                            /\ Remainder(total, w, i) < sum
                            /\ total * w[i] = sum * Share(total, w, i) + Remainder(total, w, i)
      BY <3>1, ShareDivides, ZenonT(30)
    <3>4. q \in Columns(n) /\ r \in Columns(n)
      BY <3>3 DEF Columns
    <3> HIDE DEF q, r
    <3> QED
      BY <3>1, <3>2, <3>3, <3>4
  <2>18. q \in Columns(n)
    BY <2>1
  <2>19. r \in Columns(n)
    BY <2>1
  <2>20. \A i \in 1 .. n : r[i] < sum
    BY <2>1
  <2>21. \A i \in 1 .. n : total * w[i] = sum * q[i] + r[i]
    BY <2>1
  <2>22. sum \in Nat \ {0}
    BY <2>1
  <2>2. left = total - Total(1 .. n, q)
    BY <1>1 DEF Leftover
  <2>3. a = [i \in 1 .. n |-> q[i] + ind[i]]
    <3>1. \A i \in 1 .. n : Rank(total, w, i) = rank[i]
      BY <1>1 DEF Rank, ServedBefore
    <3>2. a = [i \in 1 .. n |-> Share(total, w, i) + (IF Rank(total, w, i) < left THEN 1 ELSE 0)]
      BY <1>1, <1>3 DEF AllocateExact
    <3>3. \A i \in 1 .. n : ind[i] = IF rank[i] < left THEN 1 ELSE 0
      BY DEF Below
    <3>4. \A i \in 1 .. n : q[i] = Share(total, w, i)
      OBVIOUS
    <3> HIDE DEF q, r, rank, left, ind, served
    <3> QED
      BY <3>1, <3>2, <3>3, <3>4
  <2>4. rank \in Columns(n) /\ \A i \in 1 .. n : rank[i] = Cardinality(ServedBefore(n, r, i))
    <3>1. \A i \in 1 .. n : Cardinality(ServedBefore(n, r, i)) \in Nat
      <4>1. \A i \in 1 .. n : ServedBefore(n, r, i) \in SUBSET (1 .. n)
        BY DEF ServedBefore
      <4>2. IsFiniteSet(1 .. n)
        BY FS_Interval
      <4> QED
        BY <4>1, <4>2, FS_Subset, FS_CardinalityType
    <3> QED
      BY <3>1 DEF Columns
  <2>5. /\ \A i : i \in served <=> i \in 1 .. n /\ rank[i] < left
        /\ served \in SUBSET (1 .. n) /\ served = Below(n, rank, left)
    BY DEF Below
  <2>6. ind = [i \in 1 .. n |-> IF i \in served THEN 1 ELSE 0]
    OBVIOUS
  <2> HIDE DEF q, r, rank, left, ind, served
  <2>7. total * sum = sum * Total(1 .. n, q) + Total(1 .. n, r)
    <3>1. total * Total(1 .. n, w) = sum * Total(1 .. n, q) + Total(1 .. n, r)
      BY <1>1, <2>18, <2>19, <2>21, DividedTotals
    <3> QED
      BY <3>1
  <2>8. left \in Nat /\ left <= Cardinality(Indivisible(n, r))
    BY <2>2, <2>7, <2>18, <2>19, <2>20, <2>22, LeftoverBounded
  <2>9. /\ \A i \in 1 .. n : rank[i] \in 0 .. n - 1
        /\ \A i, j \in 1 .. n : r[j] > r[i] => rank[j] < rank[i]
        /\ \A i \in 1 .. n : r[i] = 0 => Cardinality(Indivisible(n, r)) <= rank[i]
        /\ \A k \in 0 .. n : Cardinality(Below(n, rank, k)) = k
    BY <2>4, <2>19, RemainderRanks
  <2>23. Cardinality(Indivisible(n, r)) \in Nat /\ Cardinality(Indivisible(n, r)) <= n
    <3>1. Indivisible(n, r) \in SUBSET (1 .. n)
      BY DEF Indivisible
    <3>2. IsFiniteSet(1 .. n) /\ Cardinality(1 .. n) = n
      <4>1. 1 \in Int /\ n \in Int /\ (1 > n <=> n = 0)
        OBVIOUS
      <4> QED
        BY <4>1, FS_Interval
    <3>3. IsFiniteSet(Indivisible(n, r)) /\ Cardinality(Indivisible(n, r)) <= n
      BY <3>1, <3>2, FS_Subset
    <3> QED
      BY <3>3, FS_CardinalityType
  <2>10. \A i \in served : r[i] > 0
    <3>1. SUFFICES ASSUME NEW i \in served, ~(r[i] > 0) PROVE FALSE
      OBVIOUS
    <3>2. i \in 1 .. n /\ rank[i] < left /\ rank[i] \in Nat
      BY <2>5, <2>9
    <3>3. r[i] = 0
      BY <2>1, <3>1, <3>2 DEF Columns
    <3>4. Cardinality(Indivisible(n, r)) <= rank[i]
      BY <2>9, <3>2, <3>3
    <3> QED
      BY <2>8, <2>23, <3>2, <3>4
  <2>11. Cardinality(served) = left
    <3>1. left <= n
      BY <2>8, <2>23
    <3>2. left \in 0 .. n
      BY <2>8, <3>1
    <3> QED
      BY <2>5, <2>9, <3>2
  <2>12. ind \in Columns(n) /\ \A i \in 1 .. n : ind[i] = IF i \in served THEN 1 ELSE 0
    BY <2>6 DEF Columns
  <2>13. \A i \in 1 .. n : /\ a[i] = q[i] + ind[i] /\ a[i] \in Nat
                           /\ a[i] = q[i] \/ (a[i] = q[i] + 1 /\ r[i] > 0)
    <3>1. \A i \in 1 .. n : a[i] = q[i] + ind[i] /\ q[i] \in Nat
      BY <2>1, <2>3 DEF Columns
    <3> QED
      BY <2>10, <2>12, <3>1
  <2>14. a \in Columns(n)
    BY <2>3, <2>13 DEF Columns
  <2>15. Total(1 .. n, a) = total
    <3>1. q \in Columns(n)
      BY <2>1
    <3>2. ind \in Columns(n)
      BY <2>12
    <3>3. \A i \in 1 .. n : a[i] = q[i] + ind[i]
      BY <2>13
    <3>4. Total(1 .. n, a) = Total(1 .. n, q) + Total(1 .. n, ind)
      BY <2>14, <3>1, <3>2, <3>3, AddedColumns, ZenonT(30)
    <3>5. Total(1 .. n, ind) = left
      BY <1>1, <2>5, <2>6, <2>11, TotalIndicator
    <3>6. Total(1 .. n, q) \in Nat
      BY <1>1, <3>1, TotalType DEF Columns
    <3> QED
      BY <2>2, <2>8, <3>4, <3>5, <3>6
  <2>16. ASSUME NEW i \in 1 .. n
         PROVE  /\ a[i] <= w[i]
                /\ a[i] * sum < total * w[i] + sum
                /\ total * w[i] < a[i] * sum + sum
    <3>1. w[i] \in Nat /\ q[i] \in Nat /\ r[i] \in Nat /\ r[i] < sum /\ a[i] \in Nat /\ sum \in Nat \ {0}
      BY <2>1, <2>13 DEF Columns
    <3>2. total * w[i] = sum * q[i] + r[i]
      BY <2>1
    <3>3. a[i] = q[i] \/ (a[i] = q[i] + 1 /\ r[i] > 0)
      BY <2>13
    <3> QED
      BY <3>1, <3>2, <3>3, EntryBounds, ZenonT(30)
  <2>17. ASSUME NEW i \in 1 .. n, NEW j \in 1 .. n, w[i] < w[j]
         PROVE  a[i] <= a[j]
    <3>1. /\ w[i] \in Nat /\ q[i] \in Nat /\ r[i] \in Nat /\ r[i] < sum
          /\ w[j] \in Nat /\ q[j] \in Nat /\ r[j] \in Nat /\ r[j] < sum /\ sum \in Nat \ {0}
      BY <2>1 DEF Columns
    <3>2. total * w[i] = sum * q[i] + r[i]
      BY <2>1
    <3>3. total * w[j] = sum * q[j] + r[j]
      BY <2>1
    <3>4. q[i] < q[j] \/ (q[i] = q[j] /\ (r[i] < r[j] \/ (r[i] = 0 /\ r[j] = 0)))
      <4>1. \/ total * w[i] < total * w[j]
            \/ total * w[i] = 0 /\ total * w[j] = 0
        BY <2>17, <3>1, ProductMonotone
      <4> DEFINE x == total * w[i]
                 y == total * w[j]
      <4>2. x \in Nat /\ y \in Nat
        BY <3>1, SMTT(30)
      <4>3. x = sum * q[i] + r[i] /\ y = sum * q[j] + r[j] /\ (x < y \/ (x = 0 /\ y = 0))
        BY <3>2, <3>3, <4>1
      <4> DEFINE sq == sum * q[i]
                 sp == sum * q[j]
      <4>4. sq \in Nat /\ sp \in Nat
        BY <3>1, SMTT(30)
      <4>5. x = sq + r[i]
        BY <4>3
      <4>6. y = sp + r[j]
        BY <4>3
      <4>7. x < y \/ (x = 0 /\ y = 0)
        BY <4>3
      <4>8. q[i] = q[j] => sq = sp
        OBVIOUS
      <4>9. q[j] < q[i] => sq >= sp + sum
        <5>1. q[i] \in Nat /\ q[j] \in Nat /\ sum \in Nat
          BY <3>1
        <5> QED
          BY <5>1, MultiplesApart
      <4> HIDE DEF x, y, sq, sp
      <4>10. PICK qi, qj, ri, rj : qi = q[i] /\ qj = q[j] /\ ri = r[i] /\ rj = r[j]
        OBVIOUS
      <4>11. qi \in Nat /\ qj \in Nat /\ ri \in Nat /\ rj \in Nat /\ ri < sum /\ rj < sum /\ sum \in Nat
        BY <3>1, <4>10
      <4>12. x = sq + ri /\ y = sp + rj /\ (qi = qj => sq = sp) /\ (qj < qi => sq >= sp + sum)
        BY <4>5, <4>6, <4>8, <4>9, <4>10
      <4>13. qi < qj \/ (qi = qj /\ (ri < rj \/ (ri = 0 /\ rj = 0)))
        BY <4>2, <4>4, <4>7, <4>11, <4>12
      <4> QED
        BY <4>10, <4>13
    <3>5. r[i] < r[j] /\ i \in served => j \in served
      <4>1. r[j] > r[i] => rank[j] < rank[i]
        BY <2>9
      <4>2. rank[i] \in Nat /\ rank[j] \in Nat
        BY <2>9
      <4> QED
        BY <2>5, <2>8, <3>1, <4>1, <4>2, SMTT(30)
    <3>6. a[i] = q[i] + ind[i] /\ a[j] = q[j] + ind[j]
      BY <2>13
    <3>7. ind[i] = (IF i \in served THEN 1 ELSE 0) /\ ind[j] = IF j \in served THEN 1 ELSE 0
      BY <2>12
    <3>8. i \in served => r[i] > 0
      BY <2>10
    <3> QED
      BY <3>1, <3>4, <3>5, <3>6, <3>7, <3>8
  <2> QED
    BY <2>14, <2>15, <2>16, <2>17
<1> QED
  BY <1>2, <1>3

(***************************************************************************)
(* The fills of a match.                                                    *)
(***************************************************************************)

(* What a blinded sum reveals is never more than the sum, and exact as long *)
(* as the sum is a word.                                                    *)
LEMMA BlindedSumBounds ==
  ASSUME NEW n \in Nat, NEW q \in Columns(n)
  PROVE  /\ BlindedSum(q) \in Nat
         /\ BlindedSum(q) <= U64Max
         /\ BlindedSum(q) <= Total(1 .. n, q)
         /\ FitsU64(Total(1 .. n, q)) => BlindedSum(q) = Total(1 .. n, q)
<1> DEFINE t == Total(1 .. n, q)
           m == U64Max + 1
<1>1. t \in Nat
  <2>1. IsFiniteSet(1 .. n)
    BY FS_Interval
  <2> QED
    BY <2>1, TotalType DEF Columns
<1>2. U64Max \in Nat /\ m \in Nat \ {0}
  BY SizesAssumption
<1>3. BlindedSum(q) = t % m
  BY DEF BlindedSum, Columns
<1> HIDE DEF t
<1>4. t \div m \in Nat /\ t % m \in Nat /\ t % m < m /\ t = m * (t \div m) + (t % m)
  <2> HIDE DEF m
  <2> QED
    BY <1>1, <1>2, Division
<1>5. m * (t \div m) >= 0
  BY <1>2, <1>4
<1>6. t % m <= t
  <2> DEFINE p == m * (t \div m)
             r == t % m
  <2>1. p \in Int /\ p >= 0 /\ r \in Nat /\ t = p + r
    BY <1>2, <1>4, <1>5
  <2> HIDE DEF p, r
  <2>2. r <= t
    BY <1>1, <2>1
  <2> QED
    BY <2>2 DEF r
<1>7. t <= U64Max => t % m = t
  <2> SUFFICES ASSUME t <= U64Max PROVE t % m = t
    OBVIOUS
  <2>1. t < m /\ t = m * 0 + t
    BY <1>1, <1>2
  <2> HIDE DEF m
  <2> QED
    BY <1>1, <1>2, <2>1, RemainderUnique
<1>8. t % m <= U64Max
  BY <1>2, <1>4
<1> QED
  BY <1>3, <1>4, <1>6, <1>7, <1>8 DEF t, FitsU64

(* On the heavy side the entries are matched by p of their weights w and    *)
(* the rest is residual, on the light side all is matched.                  *)
ExactFills(n, fills, hp, lp, hr, lr, w, v, p) ==
  \A i \in 1 .. n : /\ fills[i][hp] = p[i]
                    /\ fills[i][lp] = v[i]
                    /\ fills[i][hr] = w[i] - p[i]
                    /\ fills[i][lr] = 0

IsFill(fill) ==
  fill = Fill(fill["p2p_yes"], fill["p2p_no"], fill["residual_yes"], fill["residual_no"])

(* A sequence of n entries. *)
IsListOf(n, fills) == fills \in [1 .. n -> {fills[i] : i \in 1 .. n}]

LEMMA RevealedMatch ==
  ASSUME NEW n \in Nat, NEW a, a.yes \in Columns(n), a.no \in Columns(n),
         NEW ty \in Nat, NEW tn \in Nat,
         NEW res, res = MatchRevealed(a, ty, tn), res.ok
  PROVE  /\ res.users = a.users
         /\ DOMAIN res.fills = 1 .. n
         /\ IsListOf(n, res.fills)
         /\ \A i \in 1 .. n : IsFill(res.fills[i])
         /\ ty >= tn =>
              /\ res.direction = DIRECTION_YES_HEAVY
              /\ res.net_imbalance = ty - tn
              /\ ExactFills(n, res.fills, "p2p_yes", "p2p_no", "residual_yes", "residual_no",
                            a.yes, a.no, AllocateExact(tn, a.yes))
         /\ ~(ty >= tn) =>
              /\ res.direction = DIRECTION_NO_HEAVY
              /\ res.net_imbalance = tn - ty
              /\ ExactFills(n, res.fills, "p2p_no", "p2p_yes", "residual_no", "residual_yes",
                            a.no, a.yes, AllocateExact(ty, a.no))
<1> DEFINE fills == IF ty >= tn THEN YesHeavyFills(a.yes, a.no, tn) ELSE NoHeavyFills(a.yes, a.no, ty)
           py == AllocateExact(tn, a.yes)
           pn == AllocateExact(ty, a.no)
<1>1. FitsU64(P2pVolume(fills))
  <2> SUFFICES ASSUME ~FitsU64(P2pVolume(fills)) PROVE FALSE
    OBVIOUS
  <2>1. res = MatchError("QuantityOverflow")
    BY DEF MatchRevealed
  <2>2. res.ok = FALSE
    BY <2>1 DEF MatchError
  <2> QED
    BY <2>2
<1>2. res = [ok |-> TRUE, users |-> a.users, fills |-> fills,
             direction |-> IF ty >= tn THEN DIRECTION_YES_HEAVY ELSE DIRECTION_NO_HEAVY,
             net_imbalance |-> IF ty >= tn THEN ty - tn ELSE tn - ty,
             total_yes |-> ty, total_no |-> tn]
  BY <1>1 DEF MatchRevealed
<1>3. DOMAIN a.yes = 1 .. n /\ DOMAIN a.no = 1 .. n
  BY DEF Columns
<1>4. YesHeavyFills(a.yes, a.no, tn) = [i \in 1 .. n |-> Fill(py[i], a.no[i], a.yes[i] - py[i], 0)]
  BY <1>3 DEF YesHeavyFills
<1>5. NoHeavyFills(a.yes, a.no, ty) = [i \in 1 .. n |-> Fill(a.yes[i], pn[i], 0, a.no[i] - pn[i])]
  BY <1>3 DEF NoHeavyFills
<1>6. \A b, c, d, e : LET f == Fill(b, c, d, e)
                      IN  /\ f["p2p_yes"] = b /\ f["p2p_no"] = c
                          /\ f["residual_yes"] = d /\ f["residual_no"] = e
  BY DEF Fill
<1>7. res.users = a.users /\ res.fills = fills
  BY <1>2
<1>8. DOMAIN res.fills = 1 .. n /\ IsListOf(n, res.fills)
  <2> DEFINE S == {fills[i] : i \in 1 .. n}
  <2>1. \A i \in 1 .. n : fills[i] \in S
    OBVIOUS
  <2>2. fills \in [1 .. n -> S]
    <3> HIDE DEF S
    <3> QED
      BY <1>4, <1>5, <2>1
  <2> HIDE DEF fills
  <2>3. DOMAIN fills = 1 .. n
    BY <2>2
  <2>4. IsListOf(n, fills)
    BY <2>2 DEF IsListOf, S
  <2> QED
    BY <1>7, <2>3, <2>4
<1>11. \A i \in 1 .. n : IsFill(res.fills[i])
  <2>1. \A i \in 1 .. n : \E b, c, d, e : res.fills[i] = Fill(b, c, d, e)
    BY <1>4, <1>5, <1>7
  <2> QED
    BY <1>6, <2>1 DEF IsFill
<1>9. ASSUME ty >= tn
      PROVE  /\ res.direction = DIRECTION_YES_HEAVY
             /\ res.net_imbalance = ty - tn
             /\ ExactFills(n, res.fills, "p2p_yes", "p2p_no", "residual_yes", "residual_no",
                           a.yes, a.no, py)
  <2>1. res.direction = DIRECTION_YES_HEAVY /\ res.net_imbalance = ty - tn
    BY <1>2, <1>9
  <2>2. \A i \in 1 .. n : res.fills[i] = Fill(py[i], a.no[i], a.yes[i] - py[i], 0)
    BY <1>4, <1>7, <1>9
  <2> HIDE DEF py
  <2> QED
    BY <1>6, <2>1, <2>2 DEF ExactFills
<1>10. ASSUME ~(ty >= tn)
      PROVE  /\ res.direction = DIRECTION_NO_HEAVY
             /\ res.net_imbalance = tn - ty
             /\ ExactFills(n, res.fills, "p2p_no", "p2p_yes", "residual_no", "residual_yes",
                           a.no, a.yes, pn)
  <2>1. res.direction = DIRECTION_NO_HEAVY /\ res.net_imbalance = tn - ty
    BY <1>2, <1>10
  <2>2. \A i \in 1 .. n : res.fills[i] = Fill(a.yes[i], pn[i], 0, a.no[i] - pn[i])
    BY <1>5, <1>7, <1>10
  <2> HIDE DEF pn
  <2> QED
    BY <1>6, <2>1, <2>2 DEF ExactFills
<1> QED
  BY <1>7, <1>8, <1>9, <1>10, <1>11

(* A frame has the fill of each user of the match, and none for others. *)
LEMMA FrameFill ==
  ASSUME NEW U, NEW e, NEW res, NEW n \in Nat, NEW V \in SUBSET U,
         res.users \in Bijection(1 .. n, V)
  PROVE  /\ \A i \in 1 .. n : BuildFrame(U, e, res).fills[res.users[i]] = res.fills[i]
         /\ \A u \in U \ V : BuildFrame(U, e, res).fills[u] = NoFill
         /\ BuildFrame(U, e, res).net_imbalance = res.net_imbalance
         /\ BuildFrame(U, e, res).users = V
<1> DEFINE users == {res.users[i] : i \in DOMAIN res.users}
           fill(u) == CHOOSE i \in DOMAIN res.users : res.users[i] = u
           fr == BuildFrame(U, e, res)
<1>1. /\ DOMAIN res.users = 1 .. n
      /\ \A i \in 1 .. n : res.users[i] \in V
      /\ \A i, j \in 1 .. n : res.users[i] = res.users[j] => i = j
      /\ \A u \in V : \E i \in 1 .. n : res.users[i] = u
  BY DEF Bijection, Injection, Surjection, IsInjective
<1>2. users = V
  BY <1>1
<1>3. \A i \in 1 .. n : fill(res.users[i]) = i
  BY <1>1
<1>4. fr.fills = [u \in U |-> IF u \in users THEN res.fills[fill(u)] ELSE NoFill]
  BY DEF BuildFrame
<1>5. fr.net_imbalance = res.net_imbalance /\ fr.users = users
  BY DEF BuildFrame
<1> HIDE DEF fr, users, fill
<1>6. \A i \in 1 .. n : fr.fills[res.users[i]] = res.fills[i]
  BY <1>1, <1>2, <1>3, <1>4
<1>7. \A u \in U \ V : fr.fills[u] = NoFill
  BY <1>2, <1>4
<1> QED
  BY <1>2, <1>5, <1>6, <1>7 DEF fr

(* Whatever the nodes reveal, a user's fill adds up to its demand.          *)
LEMMA MatchFills ==
  ASSUME NEW U, IsFiniteSet(U), NEW orders \in OrderSeq(U),
         NEW res, res = MatchBatch(orders), res.ok,
         NEW e, NEW fr, fr = BuildFrame(U, e, res)
  PROVE  /\ \A u \in U :
              /\ fr.fills[u].p2p_yes + fr.fills[u].residual_yes = Demand(orders, u, Yes)
              /\ fr.fills[u].p2p_no + fr.fills[u].residual_no = Demand(orders, u, No)
         /\ res.total_yes \in Nat /\ res.total_yes <= Total(U, Demands(U, orders, Yes))
         /\ res.total_no \in Nat /\ res.total_no <= Total(U, Demands(U, orders, No))
<1> DEFINE a == Aggregates(orders)
           n == Len(a.users)
           V == OwnersOf(orders)
           ty == BlindedSum(a.yes)
           tn == BlindedSum(a.no)
<1>1. /\ n \in Nat
      /\ a.users \in Bijection(1 .. n, V)
      /\ a.yes \in Columns(n) /\ a.no \in Columns(n)
      /\ \A i \in 1 .. n : /\ a.yes[i] = Demand(orders, a.users[i], Yes)
                           /\ a.no[i] = Demand(orders, a.users[i], No)
      /\ Total(1 .. n, a.yes) = Total(U, Demands(U, orders, Yes))
      /\ Total(1 .. n, a.no) = Total(U, Demands(U, orders, No))
  BY AggregatesAdd
<1>2. \A reason : MatchError(reason).ok = FALSE
  BY DEF MatchError
<1>3. res = MatchRevealed(a, ty, tn)
  BY <1>2 DEF MatchBatch
<1> HIDE DEF a, n
<1>4. /\ ty \in Nat /\ ty <= Total(1 .. n, a.yes)
      /\ tn \in Nat /\ tn <= Total(1 .. n, a.no)
  BY <1>1, BlindedSumBounds
<1> HIDE DEF ty, tn
<1>5. res.total_yes = ty /\ res.total_no = tn
  BY <1>2, <1>3 DEF MatchRevealed
<1>6. /\ res.users = a.users
      /\ ty >= tn =>
           ExactFills(n, res.fills, "p2p_yes", "p2p_no", "residual_yes", "residual_no",
                      a.yes, a.no, AllocateExact(tn, a.yes))
      /\ ~(ty >= tn) =>
           ExactFills(n, res.fills, "p2p_no", "p2p_yes", "residual_no", "residual_yes",
                      a.no, a.yes, AllocateExact(ty, a.no))
  BY <1>1, <1>3, <1>4, RevealedMatch
<1>7. V \in SUBSET U
  BY OrderTypes DEF OwnersOf
<1>8. /\ \A i \in 1 .. n : fr.fills[res.users[i]] = res.fills[i]
      /\ \A u \in U \ V : fr.fills[u] = NoFill
  BY <1>1, <1>6, <1>7, FrameFill
<1>9. Total(1 .. n, a.yes) \in Nat /\ Total(1 .. n, a.no) \in Nat
  <2>1. IsFiniteSet(1 .. n)
    BY <1>1, FS_Interval
  <2>2. a.yes \in [1 .. n -> Nat] /\ a.no \in [1 .. n -> Nat]
    BY <1>1 DEF Columns
  <2> QED
    BY <2>1, <2>2, TotalType
<1>10. ASSUME NEW i \in 1 .. n
      PROVE  /\ res.fills[i].p2p_yes + res.fills[i].residual_yes = a.yes[i]
             /\ res.fills[i].p2p_no + res.fills[i].residual_no = a.no[i]
  <2>1. a.yes[i] \in Nat /\ a.no[i] \in Nat
    BY <1>1 DEF Columns
  <2>2. CASE ty >= tn
    <3>1. tn <= Total(1 .. n, a.yes)
      BY <1>4, <1>9, <2>2
    <3>2. AllocateExact(tn, a.yes) \in Columns(n)
      BY <1>1, <1>4, <3>1, AllocationIsExact
    <3>3. AllocateExact(tn, a.yes)[i] \in Nat
      BY <3>2 DEF Columns
    <3> QED
      BY <1>6, <2>1, <2>2, <3>3 DEF ExactFills
  <2>3. CASE ~(ty >= tn)
    <3>1. ty <= Total(1 .. n, a.no)
      BY <1>4, <1>9, <2>3
    <3>2. AllocateExact(ty, a.no) \in Columns(n)
      BY <1>1, <1>4, <3>1, AllocationIsExact
    <3>3. AllocateExact(ty, a.no)[i] \in Nat
      BY <3>2 DEF Columns
    <3> QED
      BY <1>6, <2>1, <2>3, <3>3 DEF ExactFills
  <2> QED
    BY <2>2, <2>3
<1>11. ASSUME NEW u \in U
       PROVE  /\ fr.fills[u].p2p_yes + fr.fills[u].residual_yes = Demand(orders, u, Yes)
              /\ fr.fills[u].p2p_no + fr.fills[u].residual_no = Demand(orders, u, No)
  <2>1. CASE u \notin V
    <3>1. Demand(orders, u, Yes) = 0 /\ Demand(orders, u, No) = 0
      BY <2>1, DemandType DEF OwnersOf
    <3>2. fr.fills[u] = NoFill
      BY <1>8, <2>1
    <3> QED
      BY <3>1, <3>2 DEF NoFill
  <2>2. CASE u \in V
    <3>1. PICK i \in 1 .. n : res.users[i] = u
      BY <1>1, <1>6, <2>2 DEF Bijection, Surjection
    <3>2. fr.fills[u] = res.fills[i]
      BY <1>8, <3>1
    <3>3. a.yes[i] = Demand(orders, u, Yes) /\ a.no[i] = Demand(orders, u, No)
      BY <1>1, <1>6, <3>1
    <3> QED
      BY <1>10, <3>2, <3>3
  <2> QED
    BY <2>1, <2>2
<1> QED
  BY <1>1, <1>4, <1>5, <1>11

(* A match of orders whose quantities fit into a word together, and which   *)
(* are no more than a frame has room for, is no error and reveals the totals.*)
LEMMA MatchSucceeds ==
  ASSUME NEW U, IsFiniteSet(U), NEW orders \in OrderSeq(U), Len(orders) <= MAX_FILLS,
         NEW ty, ty = Total(U, Demands(U, orders, Yes)),
         NEW tn, tn = Total(U, Demands(U, orders, No)),
         ty + tn <= U64Max,
         NEW res, res = MatchBatch(orders)
  PROVE  /\ res.ok
         /\ res.total_yes = ty /\ res.total_no = tn
         /\ res.direction = (IF ty >= tn THEN DIRECTION_YES_HEAVY ELSE DIRECTION_NO_HEAVY)
         /\ res.net_imbalance = (IF ty >= tn THEN ty - tn ELSE tn - ty)
<1> DEFINE a == Aggregates(orders)
           n == Len(a.users)
<1>1. /\ n \in Nat
      /\ a.users \in Bijection(1 .. n, OwnersOf(orders))
      /\ a.yes \in Columns(n) /\ a.no \in Columns(n)
      /\ Total(1 .. n, a.yes) = ty /\ Total(1 .. n, a.no) = tn
  BY AggregatesAdd
<1>2. U64Max \in Nat /\ MAX_FILLS \in Nat
  BY SizesAssumption
<1>3. n <= MAX_FILLS
  <2> DEFINE F == FirstOrders(orders)
  <2>1. DOMAIN orders = 1 .. Len(orders) /\ Len(orders) \in Nat /\ IsFiniteSet(DOMAIN orders)
    BY OrderTypes
  <2>2. F \in SUBSET DOMAIN orders
    BY DEF FirstOrders
  <2>3. IsFiniteSet(F) /\ Cardinality(F) <= Cardinality(DOMAIN orders)
    BY <2>1, <2>2, FS_Subset
  <2>4. Cardinality(DOMAIN orders) = Len(orders)
    <3>1. Cardinality(1 .. Len(orders)) = Len(orders)
      <4> DEFINE l == Len(orders)
      <4>1. l \in Nat
        BY <2>1
      <4> HIDE DEF l
      <4>2. Cardinality(1 .. l) = l
        BY <4>1, FS_Interval
      <4> QED
        BY <4>2 DEF l
    <3> QED
      BY <2>1, <3>1
  <2>5. Cardinality(F) \in Nat
    BY <2>3, FS_CardinalityType
  <2> DEFINE c == Cardinality(F)
             l == Len(orders)
  <2>6. n = c
    <3>1. DOMAIN a.users = 1 .. c
      BY DEF Aggregates, BatchUsers
    <3>2. DOMAIN a.users = 1 .. n
      BY <1>1 DEF Bijection, Injection
    <3> HIDE DEF n, c
    <3> QED
      BY <1>1, <2>5, <3>1, <3>2 DEF c
  <2>7. c <= l /\ l <= MAX_FILLS /\ l \in Nat /\ c \in Nat
    BY <2>1, <2>3, <2>4, <2>5
  <2> HIDE DEF n, c, l
  <2> QED
    BY <1>2, <2>6, <2>7
<1> HIDE DEF a, n
<1>4. IsFiniteSet(1 .. n) /\ a.yes \in [1 .. n -> Nat] /\ a.no \in [1 .. n -> Nat]
  <2>1. IsFiniteSet(1 .. n)
    BY <1>1, FS_Interval
  <2>2. a.yes \in [1 .. n -> Nat] /\ a.no \in [1 .. n -> Nat]
    BY <1>1 DEF Columns
  <2> QED
    BY <2>1, <2>2
<1>5. DOMAIN a.users = 1 .. n /\ DOMAIN a.yes = 1 .. n /\ DOMAIN a.no = 1 .. n
  BY <1>1, <1>4 DEF Bijection, Injection
<1>6. ty \in Nat /\ tn \in Nat /\ ty <= U64Max /\ tn <= U64Max
  <2>1. ty \in Nat /\ tn \in Nat
    BY <1>1, <1>4, TotalType
  <2> QED
    BY <1>2, <2>1
<1>7. \A i \in 1 .. n : FitsU64(a.yes[i]) /\ FitsU64(a.no[i])
  <2> SUFFICES ASSUME NEW i \in 1 .. n PROVE a.yes[i] <= U64Max /\ a.no[i] <= U64Max
    BY DEF FitsU64
  <2>1. a.yes[i] <= ty /\ a.no[i] <= tn /\ a.yes[i] \in Nat /\ a.no[i] \in Nat
    BY <1>1, <1>4, TotalEntry
  <2> QED
    BY <1>2, <1>6, <2>1, SMTT(30)
<1>8. AggregateError(a) = NoError
  <2>1. Len(a.users) = n
    BY DEF n
  <2>2. ~(Len(a.users) > MAX_FILLS)
    BY <1>1, <1>2, <1>3, <2>1
  <2> QED
    BY <1>5, <1>7, <2>2 DEF AggregateError
<1>9. BlindedSum(a.yes) = ty /\ BlindedSum(a.no) = tn
  BY <1>1, <1>6, BlindedSumBounds DEF FitsU64
<1>10. res = MatchRevealed(a, ty, tn)
  BY <1>8, <1>9 DEF MatchBatch, a
<1> DEFINE fills == IF ty >= tn THEN YesHeavyFills(a.yes, a.no, tn) ELSE NoHeavyFills(a.yes, a.no, ty)
<1>11. P2pVolume(fills) <= U64Max
  <2>1. ASSUME NEW w \in [1 .. n -> Nat], NEW v \in [1 .. n -> Nat], NEW t \in Nat,
               Total(1 .. n, v) = t, t <= Total(1 .. n, w), Total(1 .. n, w) + t <= U64Max,
               NEW f, DOMAIN f = 1 .. n,
               \A i \in 1 .. n : f[i].p2p_yes + f[i].p2p_no = AllocateExact(t, w)[i] + v[i]
        PROVE  P2pVolume(f) <= U64Max
    <3> DEFINE p == AllocateExact(t, w)
               both == [i \in 1 .. n |-> p[i] + v[i]]
               vol == [i \in 1 .. n |-> f[i].p2p_yes + f[i].p2p_no]
    <3>1. p \in [1 .. n -> Nat] /\ Total(1 .. n, p) = t
      <4>1. w \in Columns(n)
        BY DEF Columns
      <4>2. p \in Columns(n) /\ Total(1 .. n, p) = t
        BY <1>1, <2>1, <4>1, AllocationIsExact
      <4> QED
        BY <4>2 DEF Columns
    <3>2. P2pVolume(f) = Total(1 .. n, vol)
      BY <2>1 DEF P2pVolume
    <3> HIDE DEF p
    <3>3. both \in [1 .. n -> Nat] /\ \A i \in 1 .. n : both[i] = p[i] + v[i]
      BY <2>1, <3>1
    <3>4. \A i \in 1 .. n : vol[i] = both[i]
      BY <2>1 DEF p
    <3> HIDE DEF both, vol
    <3>5. Total(1 .. n, both) = Total(1 .. n, p) + Total(1 .. n, v)
      <4>1. p \in Columns(n) /\ v \in Columns(n) /\ both \in Columns(n)
        BY <2>1, <3>1, <3>3 DEF Columns
      <4>2. \A i \in 1 .. n : both[i] = p[i] + v[i]
        BY <3>3
      <4> QED
        BY <1>1, <4>1, <4>2, AddedColumns, ZenonT(30)
    <3>6. Total(1 .. n, vol) = Total(1 .. n, both)
      BY <3>4, TotalEqual
    <3>7. Total(1 .. n, w) \in Nat
      BY <1>4, <2>1, TotalType
    <3> DEFINE tw == Total(1 .. n, w)
    <3>8. tw \in Nat /\ t <= tw /\ tw + t <= U64Max
      BY <2>1, <3>7
    <3>9. P2pVolume(f) = t + t
      BY <2>1, <3>1, <3>2, <3>5, <3>6
    <3> HIDE DEF tw
    <3> QED
      BY <1>2, <2>1, <3>8, <3>9
  <2>2. CASE ty >= tn
    <3> DEFINE f == YesHeavyFills(a.yes, a.no, tn)
    <3>1. DOMAIN f = 1 .. n
      BY <1>5 DEF YesHeavyFills
    <3>2. \A i \in 1 .. n : f[i].p2p_yes + f[i].p2p_no = AllocateExact(tn, a.yes)[i] + a.no[i]
      BY <1>5 DEF YesHeavyFills, Fill
    <3> HIDE DEF f
    <3>3. P2pVolume(f) <= U64Max
      BY <1>1, <1>4, <1>6, <2>1, <2>2, <3>1, <3>2
    <3> QED
      BY <2>2, <3>3 DEF f
  <2>3. CASE ~(ty >= tn)
    <3> DEFINE f == NoHeavyFills(a.yes, a.no, ty)
    <3>1. DOMAIN f = 1 .. n
      BY <1>5 DEF NoHeavyFills
    <3>2. \A i \in 1 .. n : f[i].p2p_yes + f[i].p2p_no = AllocateExact(ty, a.no)[i] + a.yes[i]
      <4>1. SUFFICES ASSUME NEW i \in 1 .. n
                     PROVE  f[i].p2p_yes + f[i].p2p_no = AllocateExact(ty, a.no)[i] + a.yes[i]
        OBVIOUS
      <4>2. f[i].p2p_yes = a.yes[i] /\ f[i].p2p_no = AllocateExact(ty, a.no)[i]
        BY <1>5 DEF NoHeavyFills, Fill
      <4>3. AllocateExact(ty, a.no) \in [1 .. n -> Nat]
        <5>1. AllocateExact(ty, a.no) \in Columns(n)
          <6>1. ty <= tn
            BY <1>6, <2>3
          <6> QED
            BY <1>1, <1>6, <6>1, AllocationIsExact
        <5> QED
          BY <5>1 DEF Columns
      <4>4. AllocateExact(ty, a.no)[i] \in Nat /\ a.yes[i] \in Nat
        BY <1>4, <4>3
      <4> HIDE DEF f
      <4> QED
        BY <4>2, <4>4
    <3> HIDE DEF f
    <3>3. ty <= tn /\ tn + ty <= U64Max
      BY <1>6, <2>3
    <3>4. P2pVolume(f) <= U64Max
      BY <1>1, <1>4, <1>6, <2>1, <3>1, <3>2, <3>3
    <3> QED
      BY <2>3, <3>4 DEF f
  <2> QED
    BY <2>2, <2>3
<1> HIDE DEF fills
<1>12. FitsU64(P2pVolume(fills))
  BY <1>11 DEF FitsU64
<1>13. res = [ok |-> TRUE, users |-> a.users, fills |-> fills,
              direction |-> IF ty >= tn THEN DIRECTION_YES_HEAVY ELSE DIRECTION_NO_HEAVY,
              net_imbalance |-> IF ty >= tn THEN ty - tn ELSE tn - ty,
              total_yes |-> ty, total_no |-> tn]
  BY <1>10, <1>12 DEF MatchRevealed, fills
<1> QED
  BY <1>13

(***************************************************************************)
(* The columns of a frame, over all users.                                  *)
(***************************************************************************)

FrameColumn(U, fr, c) == [u \in U |-> fr.fills[u][c]]

(* Column c of a match of the users V. *)
MatchColumn(U, V, n, res, c, g) ==
  /\ IsFiniteSet(U) /\ V \in SUBSET U /\ n \in Nat
  /\ res.users \in Bijection(1 .. n, V)
  /\ NoFill[c] = 0
  /\ g \in Columns(n) /\ \A i \in 1 .. n : res.fills[i][c] = g[i]

LEMMA FrameColumnTotal ==
  ASSUME NEW U, NEW V, NEW n, NEW res, NEW c, NEW g, MatchColumn(U, V, n, res, c, g), NEW e
  PROVE  /\ FrameColumn(U, BuildFrame(U, e, res), c) \in [U -> Nat]
         /\ Total(U, FrameColumn(U, BuildFrame(U, e, res), c)) = Total(1 .. n, g)
<1> DEFINE fr == BuildFrame(U, e, res)
           f == FrameColumn(U, fr, c)
<1>1. /\ IsFiniteSet(U) /\ V \in SUBSET U /\ n \in Nat
      /\ res.users \in Bijection(1 .. n, V)
      /\ NoFill[c] = 0
      /\ g \in Columns(n) /\ \A i \in 1 .. n : res.fills[i][c] = g[i]
  BY DEF MatchColumn
<1>2. /\ \A i \in 1 .. n : fr.fills[res.users[i]] = res.fills[i]
      /\ \A u \in U \ V : fr.fills[u] = NoFill
  BY <1>1, FrameFill
<1> HIDE DEF fr
<1>3. /\ \A i \in 1 .. n : res.users[i] \in V
      /\ \A u \in V : \E i \in 1 .. n : res.users[i] = u
  BY <1>1 DEF Bijection, Injection, Surjection
<1>4. g \in [1 .. n -> Nat]
  BY <1>1 DEF Columns
<1>5. \A u \in U : f[u] = fr.fills[u][c]
  BY DEF FrameColumn
<1>6. \A u \in U \ V : f[u] = 0
  BY <1>1, <1>2, <1>5
<1>7. \A i \in 1 .. n : g[i] = f[res.users[i]]
  BY <1>1, <1>2, <1>3, <1>5
<1>8. ASSUME NEW u \in U PROVE f[u] \in Nat
  <2>1. CASE u \in V
    <3>1. PICK i \in 1 .. n : res.users[i] = u
      BY <1>3, <2>1
    <3>2. f[u] = g[i]
      BY <1>7, <3>1
    <3> QED
      BY <1>4, <3>2
  <2> QED
    BY <1>6, <2>1
<1>9. f \in [U -> Nat]
  BY <1>8 DEF FrameColumn
<1> HIDE DEF f
<1>10. Total(1 .. n, g) = Total(U, f)
  <2> DEFINE users == res.users
  <2>1. users \in Bijection(1 .. n, V) /\ \A i \in 1 .. n : g[i] = f[users[i]]
    BY <1>1, <1>7
  <2> HIDE DEF users
  <2> QED
    BY <1>1, <1>4, <1>6, <1>9, <2>1, TotalByUser
<1> QED
  BY <1>9, <1>10 DEF f, fr

(* Of the heavy column, as much is matched as the nodes revealed for the    *)
(* light one; the rest is residual.                                         *)
SplitColumns(n, fills, hp, lp, hr, lr, v, tl, rest) ==
  \E p, r, z \in Columns(n) :
    /\ Total(1 .. n, p) = tl /\ Total(1 .. n, r) = rest /\ Total(1 .. n, z) = 0
    /\ \A i \in 1 .. n : /\ fills[i][hp] = p[i] /\ fills[i][lp] = v[i]
                         /\ fills[i][hr] = r[i] /\ fills[i][lr] = z[i]

LEMMA HeavySplit ==
  ASSUME NEW n \in Nat, NEW w \in Columns(n), NEW v \in Columns(n),
         NEW sum, sum = Total(1 .. n, w), NEW tl \in Nat, tl <= sum,
         NEW fills, NEW hp, NEW lp, NEW hr, NEW lr,
         ExactFills(n, fills, hp, lp, hr, lr, w, v, AllocateExact(tl, w))
  PROVE  SplitColumns(n, fills, hp, lp, hr, lr, v, tl, sum - tl)
<1> DEFINE p == AllocateExact(tl, w)
           r == [i \in 1 .. n |-> w[i] - p[i]]
           z == [i \in 1 .. n |-> 0]
<1>1. sum \in Nat
  <2>1. w \in [1 .. n -> Nat]
    BY DEF Columns
  <2>2. IsFiniteSet(1 .. n)
    BY FS_Interval
  <2> QED
    BY <2>1, <2>2, TotalType
<1>2. /\ p \in Columns(n)
      /\ Total(1 .. n, p) = tl
      /\ \A i \in 1 .. n : p[i] <= w[i]
  BY <1>1, AllocationIsExact
<1>3. \A i \in 1 .. n : /\ fills[i][hp] = p[i] /\ fills[i][lp] = v[i]
                        /\ fills[i][hr] = r[i] /\ fills[i][lr] = z[i]
  BY DEF ExactFills
<1> HIDE DEF p
<1>4. \A i \in 1 .. n : w[i] \in Nat /\ p[i] \in Nat /\ r[i] \in Nat /\ w[i] = p[i] + r[i] /\ z[i] = 0
  BY <1>2 DEF Columns
<1>5. r \in Columns(n) /\ z \in Columns(n)
  BY <1>4 DEF Columns
<1> HIDE DEF r, z
<1>6. Total(1 .. n, w) = Total(1 .. n, p) + Total(1 .. n, r)
  BY <1>2, <1>4, <1>5, AddedColumns
<1>7. Total(1 .. n, z) = 0
  BY <1>4, TotalZero
<1>8. Total(1 .. n, r) \in Nat
  <2>1. r \in [1 .. n -> Nat]
    BY <1>5 DEF Columns
  <2>2. IsFiniteSet(1 .. n)
    BY FS_Interval
  <2> QED
    BY <2>1, <2>2, TotalType
<1>9. Total(1 .. n, r) = sum - tl
  BY <1>1, <1>2, <1>6, <1>8
<1> QED
  BY <1>2, <1>3, <1>5, <1>7, <1>9 DEF SplitColumns

FillNames == {"p2p_yes", "p2p_no", "residual_yes", "residual_no"}

FrameTotal(U, fr, c) == Total(U, FrameColumn(U, fr, c))

(* The amounts of the heavy and of the light side are all amounts.          *)
BothSides(hp, lp, hr, lr) == {hp, lp, hr, lr} = FillNames

(* A match of the users V, seen from its heavy side. *)
HeavyMatch(U, V, n, res, w, v, tl, hp, lp, hr, lr) ==
  /\ IsFiniteSet(U) /\ V \in SUBSET U /\ n \in Nat
  /\ res.users \in Bijection(1 .. n, V)
  /\ w \in Columns(n) /\ v \in Columns(n)
  /\ tl \in Nat /\ tl <= Total(1 .. n, w)
  /\ BothSides(hp, lp, hr, lr)
  /\ ExactFills(n, res.fills, hp, lp, hr, lr, w, v, AllocateExact(tl, w))

(* The split, by user. *)
LEMMA HeavyColumns ==
  ASSUME NEW U, NEW V, NEW n, NEW res, NEW w, NEW v, NEW tl, NEW hp, NEW lp, NEW hr, NEW lr,
         HeavyMatch(U, V, n, res, w, v, tl, hp, lp, hr, lr), NEW e
  PROVE  /\ \A c \in FillNames : FrameColumn(U, BuildFrame(U, e, res), c) \in [U -> Nat]
         /\ FrameTotal(U, BuildFrame(U, e, res), hp) = tl
         /\ FrameTotal(U, BuildFrame(U, e, res), lp) = Total(1 .. n, v)
         /\ FrameTotal(U, BuildFrame(U, e, res), hr) = Total(1 .. n, w) - tl
         /\ FrameTotal(U, BuildFrame(U, e, res), lr) = 0
<1> DEFINE fr == BuildFrame(U, e, res)
           sum == Total(1 .. n, w)
           fills == res.fills
<1>1. /\ IsFiniteSet(U) /\ V \in SUBSET U /\ n \in Nat /\ res.users \in Bijection(1 .. n, V)
      /\ w \in Columns(n) /\ v \in Columns(n) /\ tl \in Nat /\ tl <= sum
      /\ BothSides(hp, lp, hr, lr) /\ fr = BuildFrame(U, e, res)
      /\ ExactFills(n, fills, hp, lp, hr, lr, w, v, AllocateExact(tl, w))
  BY DEF HeavyMatch
<1> HIDE DEF fills, fr
<1>2. PICK p, r, z \in Columns(n) :
        /\ Total(1 .. n, p) = tl /\ Total(1 .. n, r) = sum - tl /\ Total(1 .. n, z) = 0
        /\ \A i \in 1 .. n : /\ fills[i][hp] = p[i] /\ fills[i][lp] = v[i]
                             /\ fills[i][hr] = r[i] /\ fills[i][lr] = z[i]
  <2>1. SplitColumns(n, fills, hp, lp, hr, lr, v, tl, sum - tl)
    BY <1>1, HeavySplit
  <2> QED
    BY <2>1 DEF SplitColumns
<1>3. ASSUME NEW c \in FillNames, NEW g \in Columns(n), \A i \in 1 .. n : fills[i][c] = g[i]
      PROVE  /\ FrameColumn(U, fr, c) \in [U -> Nat]
             /\ FrameTotal(U, fr, c) = Total(1 .. n, g)
  <2>1. NoFill[c] = 0
    BY DEF FillNames, NoFill
  <2>2. \A i \in 1 .. n : res.fills[i][c] = g[i]
    BY <1>3 DEF fills
  <2>3. MatchColumn(U, V, n, res, c, g)
    BY <1>1, <2>1, <2>2 DEF MatchColumn
  <2>4. /\ FrameColumn(U, BuildFrame(U, e, res), c) \in [U -> Nat]
        /\ Total(U, FrameColumn(U, BuildFrame(U, e, res), c)) = Total(1 .. n, g)
    BY <2>3, FrameColumnTotal
  <2> QED
    BY <2>4 DEF FrameTotal, fr
<1>4. {hp, lp, hr, lr} = FillNames
  BY <1>1 DEF BothSides
<1>5. FrameColumn(U, fr, hp) \in [U -> Nat] /\ FrameTotal(U, fr, hp) = tl
  BY <1>2, <1>3, <1>4
<1>6. FrameColumn(U, fr, lp) \in [U -> Nat] /\ FrameTotal(U, fr, lp) = Total(1 .. n, v)
  BY <1>1, <1>2, <1>3, <1>4
<1>7. FrameColumn(U, fr, hr) \in [U -> Nat] /\ FrameTotal(U, fr, hr) = sum - tl
  BY <1>2, <1>3, <1>4
<1>8. FrameColumn(U, fr, lr) \in [U -> Nat] /\ FrameTotal(U, fr, lr) = 0
  BY <1>2, <1>3, <1>4
<1>9. \A c \in FillNames : FrameColumn(U, fr, c) \in [U -> Nat]
  <2>1. \A c \in FillNames : c = hp \/ c = lp \/ c = hr \/ c = lr
    BY <1>4
  <2> QED
    BY <1>5, <1>6, <1>7, <1>8, <2>1
<1> QED
  BY <1>5, <1>6, <1>7, <1>8, <1>9 DEF fr

(* The frame of a match: its columns are numbers; and if no total wraps,    *)
(* its residual lies on the heavy side only and is the header's imbalance,  *)
(* and its Tier-1 volume is crossed in pairs.                               *)
LEMMA MatchedFrame ==
  ASSUME NEW U, IsFiniteSet(U), NEW orders \in OrderSeq(U),
         NEW res, res = MatchBatch(orders), res.ok,
         NEW e, NEW fr, fr = BuildFrame(U, e, res)
  PROVE  /\ res.direction \in Directions
         /\ \A c \in FillNames : FrameColumn(U, fr, c) \in [U -> Nat]
         /\ FitsU64(Total(U, Demands(U, orders, Yes))) /\ FitsU64(Total(U, Demands(U, orders, No))) =>
              /\ FrameTotal(U, fr, "p2p_yes") = FrameTotal(U, fr, "p2p_no")
              /\ IF res.direction = DIRECTION_YES_HEAVY
                 THEN /\ FrameTotal(U, fr, "residual_no") = 0
                      /\ FrameTotal(U, fr, "residual_yes") = res.net_imbalance
                 ELSE /\ FrameTotal(U, fr, "residual_yes") = 0
                      /\ FrameTotal(U, fr, "residual_no") = res.net_imbalance
<1> DEFINE a == Aggregates(orders)
           n == Len(a.users)
           V == OwnersOf(orders)
           ty == BlindedSum(a.yes)
           tn == BlindedSum(a.no)
           sy == Total(1 .. n, a.yes)
           sn == Total(1 .. n, a.no)
<1>1. /\ n \in Nat
      /\ a.users \in Bijection(1 .. n, V)
      /\ a.yes \in Columns(n) /\ a.no \in Columns(n)
      /\ sy = Total(U, Demands(U, orders, Yes))
      /\ sn = Total(U, Demands(U, orders, No))
  BY AggregatesAdd
<1>2. \A reason : MatchError(reason).ok = FALSE
  BY DEF MatchError
<1>3. res = MatchRevealed(a, ty, tn)
  BY <1>2 DEF MatchBatch
<1> HIDE DEF a, n
<1>4. /\ ty \in Nat /\ ty <= sy /\ (FitsU64(sy) => ty = sy)
      /\ tn \in Nat /\ tn <= sn /\ (FitsU64(sn) => tn = sn)
  BY <1>1, BlindedSumBounds
<1> HIDE DEF ty, tn
<1>5. /\ res.users = a.users
      /\ ty >= tn =>
           /\ res.direction = DIRECTION_YES_HEAVY
           /\ res.net_imbalance = ty - tn
           /\ ExactFills(n, res.fills, "p2p_yes", "p2p_no", "residual_yes", "residual_no",
                         a.yes, a.no, AllocateExact(tn, a.yes))
      /\ ~(ty >= tn) =>
           /\ res.direction = DIRECTION_NO_HEAVY
           /\ res.net_imbalance = tn - ty
           /\ ExactFills(n, res.fills, "p2p_no", "p2p_yes", "residual_no", "residual_yes",
                         a.no, a.yes, AllocateExact(ty, a.no))
  BY <1>1, <1>3, <1>4, RevealedMatch
<1>6. V \in SUBSET U
  BY OrderTypes DEF OwnersOf
<1>7. sy \in Nat /\ sn \in Nat
  <2>1. a.yes \in [1 .. n -> Nat] /\ a.no \in [1 .. n -> Nat]
    BY <1>1 DEF Columns
  <2>2. IsFiniteSet(1 .. n)
    BY <1>1, FS_Interval
  <2> QED
    BY <2>1, <2>2, TotalType
<1>8. CASE ty >= tn
  <2>1. tn <= sy
    BY <1>4, <1>7, <1>8
  <2> DEFINE hp == "p2p_yes"
             lp == "p2p_no"
             hr == "residual_yes"
             lr == "residual_no"
             w == a.yes
             v == a.no
  <2>2. BothSides(hp, lp, hr, lr)
    BY DEF BothSides, FillNames
  <2>3. res.users \in Bijection(1 .. n, V)
    BY <1>1, <1>5
  <2>5. w \in Columns(n) /\ v \in Columns(n) /\ sy = Total(1 .. n, w) /\ sn = Total(1 .. n, v)
    BY <1>1
  <2>6. ExactFills(n, res.fills, hp, lp, hr, lr, w, v, AllocateExact(tn, w))
    BY <1>5, <1>8
  <2> HIDE DEF V, hp, lp, hr, lr, w, v, sy, sn
  <2>9. HeavyMatch(U, V, n, res, w, v, tn, hp, lp, hr, lr)
    BY <1>1, <1>4, <1>6, <2>1, <2>2, <2>3, <2>5, <2>6 DEF HeavyMatch
  <2>7. /\ \A c \in FillNames : FrameColumn(U, fr, c) \in [U -> Nat]
        /\ FrameTotal(U, fr, hp) = tn /\ FrameTotal(U, fr, lp) = sn
        /\ FrameTotal(U, fr, hr) = sy - tn /\ FrameTotal(U, fr, lr) = 0
    BY <2>5, <2>9, HeavyColumns
  <2>4. /\ \A c \in FillNames : FrameColumn(U, fr, c) \in [U -> Nat]
        /\ FrameTotal(U, fr, "p2p_yes") = tn /\ FrameTotal(U, fr, "p2p_no") = sn
        /\ FrameTotal(U, fr, "residual_yes") = sy - tn /\ FrameTotal(U, fr, "residual_no") = 0
    BY <2>7 DEF hp, lp, hr, lr
  <2> QED
    BY <1>1, <1>4, <1>5, <1>8, <2>4 DEF Directions
<1>9. CASE ~(ty >= tn)
  <2>1. ty <= sn
    BY <1>4, <1>7, <1>9
  <2> DEFINE hp == "p2p_no"
             lp == "p2p_yes"
             hr == "residual_no"
             lr == "residual_yes"
             w == a.no
             v == a.yes
  <2>2. BothSides(hp, lp, hr, lr)
    BY DEF BothSides, FillNames
  <2>3. res.users \in Bijection(1 .. n, V)
    BY <1>1, <1>5
  <2>5. w \in Columns(n) /\ v \in Columns(n) /\ sn = Total(1 .. n, w) /\ sy = Total(1 .. n, v)
    BY <1>1
  <2>6. ExactFills(n, res.fills, hp, lp, hr, lr, w, v, AllocateExact(ty, w))
    BY <1>5, <1>9
  <2> HIDE DEF V, hp, lp, hr, lr, w, v, sy, sn
  <2>9. HeavyMatch(U, V, n, res, w, v, ty, hp, lp, hr, lr)
    BY <1>1, <1>4, <1>6, <2>1, <2>2, <2>3, <2>5, <2>6 DEF HeavyMatch
  <2>7. /\ \A c \in FillNames : FrameColumn(U, fr, c) \in [U -> Nat]
        /\ FrameTotal(U, fr, hp) = ty /\ FrameTotal(U, fr, lp) = sy
        /\ FrameTotal(U, fr, hr) = sn - ty /\ FrameTotal(U, fr, lr) = 0
    BY <2>5, <2>9, HeavyColumns
  <2>4. /\ \A c \in FillNames : FrameColumn(U, fr, c) \in [U -> Nat]
        /\ FrameTotal(U, fr, "p2p_no") = ty /\ FrameTotal(U, fr, "p2p_yes") = sy
        /\ FrameTotal(U, fr, "residual_no") = sn - ty /\ FrameTotal(U, fr, "residual_yes") = 0
    BY <2>7 DEF hp, lp, hr, lr
  <2>8. DIRECTION_NO_HEAVY # DIRECTION_YES_HEAVY
    BY DEF DIRECTION_NO_HEAVY, DIRECTION_YES_HEAVY
  <2> QED
    BY <1>1, <1>4, <1>5, <1>9, <2>4, <2>8 DEF Directions
<1> QED
  BY <1>8, <1>9

LEMMA LenOfNumbered ==
  ASSUME NEW n \in Nat, NEW S, NEW s \in [1 .. n -> S]
  PROVE  Len(s) = n /\ DOMAIN s = 1 .. n /\ s \in Seq(S)
<1>1. s \in Seq(S)
  BY SeqDef
<1> QED
  BY <1>1, LenProperties

(* A match lists n users, each of V once, with as many whole fills. *)
Listing(n, res, V) ==
  /\ n \in Nat /\ n <= MAX_FILLS
  /\ res.users \in Bijection(1 .. n, V)
  /\ DOMAIN res.users = 1 .. n /\ DOMAIN res.fills = 1 .. n /\ Len(res.fills) = n
  /\ \A i \in 1 .. n : IsFill(res.fills[i])

LEMMA MatchListing ==
  ASSUME NEW U, IsFiniteSet(U), NEW orders \in OrderSeq(U),
         NEW res, res = MatchBatch(orders), res.ok
  PROVE  Listing(Len(res.users), res, OwnersOf(orders))
<1> DEFINE a == Aggregates(orders)
           n == Len(a.users)
           ty == BlindedSum(a.yes)
           tn == BlindedSum(a.no)
<1>1. /\ n \in Nat
      /\ a.users \in Bijection(1 .. n, OwnersOf(orders)) /\ a.users \in Seq(U)
      /\ a.yes \in Columns(n) /\ a.no \in Columns(n)
  BY AggregatesAdd
<1>2. \A reason : MatchError(reason).ok = FALSE
  BY DEF MatchError
<1>3. res = MatchRevealed(a, ty, tn) /\ AggregateError(a) = NoError
  BY <1>2 DEF MatchBatch
<1>4. n <= MAX_FILLS
  <2>1. ~(n > MAX_FILLS)
    BY <1>3 DEF AggregateError, NoError
  <2> HIDE DEF n
  <2> QED
    BY <1>1, <2>1, SizesAssumption
<1>5. DOMAIN a.users = 1 .. n
  BY <1>1, LenProperties
<1> HIDE DEF a, n
<1>6. ty \in Nat /\ tn \in Nat
  BY <1>1, BlindedSumBounds
<1> HIDE DEF ty, tn
<1>7. /\ res.users = a.users
      /\ IsListOf(n, res.fills)
      /\ \A i \in 1 .. n : IsFill(res.fills[i])
  <2>1. /\ n \in Nat /\ a.yes \in Columns(n) /\ a.no \in Columns(n)
        /\ ty \in Nat /\ tn \in Nat
        /\ res = MatchRevealed(a, ty, tn) /\ res.ok
    BY <1>1, <1>3, <1>6
  <2> QED
    BY <2>1, RevealedMatch
<1>8. Len(res.fills) = n /\ DOMAIN res.fills = 1 .. n
  <2> DEFINE S == {res.fills[i] : i \in 1 .. n}
  <2>1. res.fills \in [1 .. n -> S]
    BY <1>7 DEF IsListOf
  <2> HIDE DEF S
  <2> QED
    BY <1>1, <2>1, LenOfNumbered
<1>9. Listing(n, res, OwnersOf(orders))
  BY <1>1, <1>4, <1>5, <1>7, <1>8 DEF Listing
<1> QED
  BY <1>7, <1>9 DEF n

=============================================================================
