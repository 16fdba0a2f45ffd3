--------------------------- MODULE TotalsProofs ---------------------------
(***************************************************************************)
(* Facts about sums over a finite set.  A sum is the cardinality of a set  *)
(* of units, so each fact follows from one about finite sets: the sum of   *)
(* f + g counts the units of f and, shifted above them, the units of g.    *)
(***************************************************************************)
EXTENDS Totals, Integers, Functions, FiniteSetTheorems, TLAPS

(* A unit is an element and a number between 1 and the value at it. *)
LEMMA UnitsElements ==
  ASSUME NEW S, NEW f
  PROVE  \A x : x \in Units(S, f) <=> \E s \in S : \E i \in 1 .. f[s] : x = <<s, i>>
PROOF
<1>1. ASSUME NEW x, x \in Units(S, f)
      PROVE  \E s \in S : \E i \in 1 .. f[s] : x = <<s, i>>
  <2>1. PICK s \in S : x \in {s} \X (1 .. f[s])
    BY <1>1 DEF Units
  <2>2. QED
    BY <2>1
<1>2. ASSUME NEW s \in S, NEW i \in 1 .. f[s]
      PROVE  <<s, i>> \in Units(S, f)
  <2>1. <<s, i>> \in {s} \X (1 .. f[s])
    OBVIOUS
  <2>2. QED
    BY <2>1 DEF Units
<1>3. QED
  BY <1>1, <1>2

(* The units of a function into the naturals are finitely many. *)
LEMMA UnitsFinite ==
  ASSUME NEW S, IsFiniteSet(S), NEW f \in [S -> Nat]
  PROVE  IsFiniteSet(Units(S, f))
PROOF
<1> DEFINE row == [s \in S |-> {s} \X (1 .. f[s])]
<1> DEFINE rows == {row[s] : s \in S}
<1>1. row \in Surjection(S, rows)
  BY DEF Surjection
<1>2. IsFiniteSet(rows)
  BY <1>1, FS_Surjection
<1>3. ASSUME NEW s \in S
      PROVE  IsFiniteSet(row[s])
  <2>1. IsFiniteSet({s})
    BY FS_Singleton
  <2>2. IsFiniteSet(1 .. f[s])
    <3>1. 1 \in Int /\ f[s] \in Int
      OBVIOUS
    <3>2. QED
      BY <3>1, FS_Interval
  <2>3. QED
    BY <2>1, <2>2, FS_Product
<1>4. IsFiniteSet(UNION rows)
  <2>1. \A T \in rows : IsFiniteSet(T)
    BY <1>3
  <2>2. QED
    BY <1>2, <2>1, FS_UNION
<1>5. UNION rows = Units(S, f)
  BY DEF Units
<1>6. QED
  BY <1>4, <1>5

(* A sum of natural numbers is a natural number. *)
LEMMA TotalType ==
  ASSUME NEW S, IsFiniteSet(S), NEW f \in [S -> Nat]
  PROVE  Total(S, f) \in Nat
BY UnitsFinite, FS_CardinalityType DEF Total

(* A sum of zeros is zero. *)
LEMMA TotalZero ==
  ASSUME NEW S, NEW f, \A s \in S : f[s] = 0
  PROVE  Total(S, f) = 0
PROOF
<1>1. Units(S, f) = {}
  <2>1. \A s \in S : 1 .. f[s] = {}
    OBVIOUS
  <2>2. QED
    BY <2>1, UnitsElements
<1>2. QED
  BY <1>1, FS_EmptySet DEF Total

(* Sums add up pointwise. *)
LEMMA TotalAdd ==
  ASSUME NEW S, IsFiniteSet(S),
         NEW f \in [S -> Nat], NEW g \in [S -> Nat], NEW h \in [S -> Nat],
         \A s \in S : h[s] = f[s] + g[s]
  PROVE  Total(S, h) = Total(S, f) + Total(S, g)
PROOF
<1> DEFINE shift == [x \in Units(S, g) |-> <<x[1], f[x[1]] + x[2]>>]
<1> DEFINE upper == {shift[x] : x \in Units(S, g)}
<1>1. IsFiniteSet(Units(S, f)) /\ IsFiniteSet(Units(S, g)) /\ IsFiniteSet(Units(S, h))
  BY UnitsFinite
<1>2. IsFiniteSet(upper) /\ Cardinality(upper) = Cardinality(Units(S, g))
  <2>1. \A x, y \in Units(S, g) : shift[x] = shift[y] => x = y
    <3> SUFFICES ASSUME NEW x \in Units(S, g), NEW y \in Units(S, g), shift[x] = shift[y]
                 PROVE  x = y
      OBVIOUS
    <3>1. PICK s \in S, i \in Int : i \in 1 .. g[s] /\ x = <<s, i>>
      BY UnitsElements
    <3>2. PICK t \in S, j \in Int : j \in 1 .. g[t] /\ y = <<t, j>>
      BY UnitsElements
    <3>3. s = t /\ f[s] + i = f[t] + j
      BY <3>1, <3>2
    <3>4. QED
      BY <3>1, <3>2, <3>3
  <2>2. shift \in Surjection(Units(S, g), upper)
    BY DEF Surjection
  <2>3. shift \in Injection(Units(S, g), upper)
    BY <2>1, <2>2 DEF Injection, IsInjective, Surjection
  <2>4. QED
    BY <1>1, <2>2, <2>3, FS_Surjection
<1>3. Units(S, h) = Units(S, f) \cup upper
  <2>1. ASSUME NEW x, x \in Units(S, h)
        PROVE  x \in Units(S, f) \cup upper
    <3>1. PICK s \in S, i \in Int : i \in 1 .. h[s] /\ x = <<s, i>>
      BY <2>1, UnitsElements
    <3>2. CASE i <= f[s]
      <4>1. i \in 1 .. f[s]
        BY <3>1, <3>2
      <4>2. QED
        BY <3>1, <4>1, UnitsElements
    <3>3. CASE i > f[s]
      <4>1. i - f[s] \in 1 .. g[s]
        BY <3>1, <3>3
      <4>2. <<s, i - f[s]>> \in Units(S, g)
        BY <4>1, UnitsElements
      <4>3. shift[<<s, i - f[s]>>] = <<s, f[s] + (i - f[s])>>
        BY <4>2
      <4>4. f[s] + (i - f[s]) = i
        OBVIOUS
      <4>5. QED
        BY <3>1, <4>2, <4>3, <4>4
    <3>4. QED
      BY <3>2, <3>3
  <2>2. ASSUME NEW x, x \in Units(S, f)
        PROVE  x \in Units(S, h)
    <3>1. PICK s \in S, i \in Int : i \in 1 .. f[s] /\ x = <<s, i>>
      BY <2>2, UnitsElements
    <3>2. i \in 1 .. h[s]
      BY <3>1
    <3>3. QED
      BY <3>1, <3>2, UnitsElements
  <2>3. ASSUME NEW y \in Units(S, g)
        PROVE  shift[y] \in Units(S, h)
    <3>1. PICK s \in S, i \in Int : i \in 1 .. g[s] /\ y = <<s, i>>
      BY UnitsElements
    <3>2. f[s] + i \in 1 .. h[s]
      BY <3>1
    <3>3. shift[y] = <<s, f[s] + i>>
      BY <3>1
    <3>4. QED
      BY <3>2, <3>3, UnitsElements
  <2>4. QED
    BY <2>1, <2>2, <2>3
<1>4. Units(S, f) \cap upper = {}
  <2> SUFFICES ASSUME NEW y \in Units(S, g), shift[y] \in Units(S, f)
               PROVE  FALSE
    OBVIOUS
  <2>1. PICK s \in S, i \in Int : i \in 1 .. g[s] /\ y = <<s, i>>
    BY UnitsElements
  <2>2. PICK t \in S, j \in Int : j \in 1 .. f[t] /\ shift[y] = <<t, j>>
    BY UnitsElements
  <2>3. s = t /\ f[s] + i = j
    BY <2>1, <2>2
  <2>4. QED
    BY <2>1, <2>2, <2>3
<1>5. QED
  <2>1. Cardinality(Units(S, h)) = Cardinality(Units(S, f)) + Cardinality(upper)
                                     - Cardinality(Units(S, f) \cap upper)
    BY <1>1, <1>2, <1>3, FS_Union
  <2>2. Cardinality(Units(S, f) \cap upper) = 0
    BY <1>4, FS_EmptySet
  <2>3. Cardinality(Units(S, f)) \in Nat /\ Cardinality(Units(S, g)) \in Nat
    BY <1>1, FS_CardinalityType
  <2>4. QED
    BY <1>2, <2>1, <2>2, <2>3 DEF Total

(* A sum grows with its terms. *)
LEMMA TotalMonotone ==
  ASSUME NEW S, IsFiniteSet(S), NEW f \in [S -> Nat], NEW g \in [S -> Nat],
         \A s \in S : f[s] <= g[s]
  PROVE  Total(S, f) <= Total(S, g)
PROOF
<1>1. Units(S, f) \subseteq Units(S, g)
  <2> SUFFICES ASSUME NEW x \in Units(S, f)
               PROVE  x \in Units(S, g)
    OBVIOUS
  <2>1. PICK s \in S, i \in Int : i \in 1 .. f[s] /\ x = <<s, i>>
    BY UnitsElements
  <2>2. i \in 1 .. g[s]
    BY <2>1
  <2>3. QED
    BY <2>1, <2>2, UnitsElements
<1>2. QED
  BY <1>1, UnitsFinite, FS_Subset DEF Total

(* A sum with a single term. *)
LEMMA TotalSingle ==
  ASSUME NEW S, NEW u \in S, NEW n \in Nat, NEW f,
         f[u] = n, \A s \in S \ {u} : f[s] = 0
  PROVE  Total(S, f) = n
PROOF
<1>1. Units(S, f) = {u} \X (1 .. n)
  <2>1. ASSUME NEW x, x \in Units(S, f)
        PROVE  x \in {u} \X (1 .. n)
    <3>1. PICK s \in S, i \in Int : i \in 1 .. f[s] /\ x = <<s, i>>
      BY <2>1, UnitsElements
    <3>2. s = u
      <4> SUFFICES ASSUME s # u
                   PROVE  FALSE
        OBVIOUS
      <4>1. f[s] = 0
        OBVIOUS
      <4>2. QED
        BY <3>1, <4>1
    <3>3. i \in 1 .. n
      BY <3>1, <3>2
    <3>4. QED
      BY <3>1, <3>2, <3>3
  <2>2. ASSUME NEW x, x \in {u} \X (1 .. n)
        PROVE  x \in Units(S, f)
    <3>1. PICK i \in 1 .. n : x = <<u, i>>
      BY <2>2
    <3>2. f[u] = n
      OBVIOUS
    <3>3. QED
      BY <3>1, <3>2, UnitsElements
  <2>3. QED
    BY <2>1, <2>2
<1>2. IsFiniteSet({u}) /\ Cardinality({u}) = 1
  BY FS_Singleton
<1>3. IsFiniteSet(1 .. n) /\ Cardinality(1 .. n) = n
  <2>1. 1 \in Int /\ n \in Int /\ (IF 1 > n THEN 0 ELSE n - 1 + 1) = n
    OBVIOUS
  <2>2. QED
    BY <2>1, FS_Interval
<1>4. Cardinality({u} \X (1 .. n)) = 1 * n
  <2> DEFINE A == {u}
             B == 1 .. n
  <2>1. IsFiniteSet(A) /\ Cardinality(A) = 1 /\ IsFiniteSet(B) /\ Cardinality(B) = n
    BY <1>2, <1>3
  <2> HIDE DEF A, B
  <2>2. Cardinality(A \X B) = Cardinality(A) * Cardinality(B)
    BY <2>1, FS_Product, Zenon
  <2>3. Cardinality(A \X B) = 1 * n
    BY <2>1, <2>2
  <2>4. QED
    BY <2>3 DEF A, B
<1>5. QED
  BY <1>1, <1>4 DEF Total

(* Changing one term changes the sum by as much. *)
LEMMA TotalUpdate ==
  ASSUME NEW S, IsFiniteSet(S), NEW u \in S, NEW f \in [S -> Nat], NEW g \in [S -> Nat],
         \A s \in S \ {u} : g[s] = f[s]
  PROVE  Total(S, g) + f[u] = Total(S, f) + g[u]
PROOF
<1> DEFINE rest == [s \in S |-> IF s = u THEN 0 ELSE f[s]]
           old == [s \in S |-> IF s = u THEN f[u] ELSE 0]
           new == [s \in S |-> IF s = u THEN g[u] ELSE 0]
<1>1. rest \in [S -> Nat] /\ old \in [S -> Nat] /\ new \in [S -> Nat]
  OBVIOUS
<1>2. \A s \in S : f[s] = rest[s] + old[s] /\ g[s] = rest[s] + new[s]
  OBVIOUS
<1>3. Total(S, old) = f[u]
  <2>1. f[u] \in Nat /\ old[u] = f[u] /\ \A s \in S \ {u} : old[s] = 0
    OBVIOUS
  <2> HIDE DEF old
  <2>2. QED
    BY <2>1, TotalSingle
<1>4. Total(S, new) = g[u]
  <2>1. g[u] \in Nat /\ new[u] = g[u] /\ \A s \in S \ {u} : new[s] = 0
    OBVIOUS
  <2> HIDE DEF new
  <2>2. QED
    BY <2>1, TotalSingle
<1>5. Total(S, f) = Total(S, rest) + Total(S, old)
  <2> HIDE DEF rest, old, new
  <2>1. QED
    BY <1>1, <1>2, TotalAdd
<1>6. Total(S, g) = Total(S, rest) + Total(S, new)
  <2> HIDE DEF rest, old, new
  <2>1. QED
    BY <1>1, <1>2, TotalAdd
<1>7. Total(S, rest) \in Nat
  BY <1>1, TotalType
<1>8. QED
  BY <1>3, <1>4, <1>5, <1>6, <1>7

(* Scaling every term by a factor scales the sum: the units of the scaled   *)
(* function are the units of the function, each split in k parts.           *)
LEMMA TotalScale ==
  ASSUME NEW S, IsFiniteSet(S), NEW k \in Nat, NEW f \in [S -> Nat], NEW g \in [S -> Nat],
         \A s \in S : g[s] = k * f[s]
  PROVE  Total(S, g) = k * Total(S, f)
PROOF
<1> DEFINE parts == Units(S, f) \X (1 .. k)
           join == [p \in parts |-> <<p[1][1], (p[1][2] - 1) * k + p[2]>>]
<1>1. IsFiniteSet(Units(S, f)) /\ IsFiniteSet(Units(S, g))
  BY UnitsFinite
<1>2. IsFiniteSet(1 .. k) /\ Cardinality(1 .. k) = k
  <2>1. 1 \in Int /\ k \in Int /\ (IF 1 > k THEN 0 ELSE k - 1 + 1) = k
    OBVIOUS
  <2>2. QED
    BY <2>1, FS_Interval
<1>3. IsFiniteSet(parts) /\ Cardinality(parts) = Cardinality(Units(S, f)) * k
  BY <1>1, <1>2, FS_Product
<1>4. ASSUME NEW m \in Nat, NEW i \in 1 .. m, NEW j \in 1 .. k
      PROVE  (i - 1) * k + j \in 1 .. k * m
  <2>1. (i - 1) * k >= 0
    OBVIOUS
  <2>2. (m - i) * k >= 0
    OBVIOUS
  <2>3. k * m = (i - 1) * k + k + (m - i) * k
    OBVIOUS
  <2>4. QED
    BY <2>1, <2>2, <2>3
<1>5. ASSUME NEW m \in Nat, NEW n \in 1 .. k * m
      PROVE  \E i \in 1 .. m, j \in 1 .. k : n = (i - 1) * k + j
  <2>1. k # 0
    OBVIOUS
  <2> DEFINE q == (n - 1) \div k
             r == (n - 1) % k
  <2>2. q \in Int /\ r \in 0 .. k - 1 /\ n - 1 = k * q + r
    BY <2>1
  <2> HIDE DEF q, r
  <2>3. q >= 0
    <3> SUFFICES ASSUME q <= -1
                 PROVE  FALSE
      BY <2>2
    <3>1. k * q <= -k
      BY <2>2
    <3>2. QED
      BY <2>2, <3>1
  <2>4. q < m
    <3> SUFFICES ASSUME q >= m
                 PROVE  FALSE
      BY <2>2
    <3>1. k * q >= k * m
      BY <2>2
    <3>2. QED
      BY <2>2, <3>1
  <2>5. q + 1 \in 1 .. m /\ r + 1 \in 1 .. k
    BY <2>2, <2>3, <2>4
  <2>6. n = ((q + 1) - 1) * k + (r + 1)
    BY <2>2
  <2>7. QED
    BY <2>5, <2>6
<1>6. ASSUME NEW i \in Int, NEW a \in Int, NEW j \in 1 .. k, NEW b \in 1 .. k,
             (i - 1) * k + j = (a - 1) * k + b
      PROVE  i = a /\ j = b
  <2>1. (i - a) * k = b - j
    BY <1>6
  <2>2. CASE i > a
    <3>1. (i - a) * k >= k
      BY <2>2
    <3>2. QED
      BY <2>1, <3>1
  <2>3. CASE i < a
    <3>1. (a - i) * k >= k
      BY <2>3
    <3>2. (a - i) * k = j - b
      BY <2>1
    <3>3. QED
      BY <3>1, <3>2
  <2>4. QED
    BY <1>6, <2>2, <2>3
<1>7. ASSUME NEW p \in parts
      PROVE  \E s \in S, i \in Int, j \in 1 .. k :
               /\ i \in 1 .. f[s]
               /\ p = << <<s, i>>, j>>
               /\ join[p] = <<s, (i - 1) * k + j>>
  <2>1. PICK x \in Units(S, f), j \in 1 .. k : p = <<x, j>>
    OBVIOUS
  <2>2. PICK s \in S, i \in Int : i \in 1 .. f[s] /\ x = <<s, i>>
    BY UnitsElements
  <2>3. p[1][1] = s /\ p[1][2] = i /\ p[2] = j
    BY <2>1, <2>2
  <2>4. join[p] = <<s, (i - 1) * k + j>>
    BY <2>3
  <2>5. QED
    BY <2>1, <2>2, <2>4
<1>8. join \in Surjection(parts, Units(S, g))
  <2>1. ASSUME NEW p \in parts
        PROVE  join[p] \in Units(S, g)
    <3>1. PICK s \in S, i \in Int, j \in 1 .. k :
            i \in 1 .. f[s] /\ join[p] = <<s, (i - 1) * k + j>>
      <4> HIDE DEF join, parts
      <4>1. QED
        BY <1>7
    <3>2. (i - 1) * k + j \in 1 .. g[s]
      BY <1>4, <3>1
    <3>3. QED
      BY <3>1, <3>2, UnitsElements
  <2>2. ASSUME NEW y \in Units(S, g)
        PROVE  \E p \in parts : join[p] = y
    <3>1. PICK s \in S, n \in Int : n \in 1 .. g[s] /\ y = <<s, n>>
      BY UnitsElements
    <3>2. PICK i \in 1 .. f[s], j \in 1 .. k : n = (i - 1) * k + j
      <4>1. f[s] \in Nat /\ n \in 1 .. k * f[s]
        BY <3>1
      <4>2. QED
        BY <1>5, <4>1
    <3>3. <<s, i>> \in Units(S, f)
      BY UnitsElements
    <3>4. << <<s, i>>, j>> \in parts
      BY <3>3
    <3>5. join[<< <<s, i>>, j>>] = <<s, (i - 1) * k + j>>
      BY <3>4
    <3>6. QED
      BY <3>1, <3>2, <3>4, <3>5
  <2>3. QED
    BY <2>1, <2>2 DEF Surjection
<1>9. join \in Injection(parts, Units(S, g))
  <2>1. ASSUME NEW p \in parts, NEW q \in parts, join[p] = join[q]
        PROVE  p = q
    <3>1. PICK s \in S, i \in Int, j \in 1 .. k :
            p = << <<s, i>>, j>> /\ join[p] = <<s, (i - 1) * k + j>>
      <4> HIDE DEF join, parts
      <4>1. QED
        BY <1>7
    <3>2. PICK t \in S, a \in Int, b \in 1 .. k :
            q = << <<t, a>>, b>> /\ join[q] = <<t, (a - 1) * k + b>>
      <4> HIDE DEF join, parts
      <4>1. QED
        BY <1>7
    <3>3. s = t /\ (i - 1) * k + j = (a - 1) * k + b
      BY <2>1, <3>1, <3>2
    <3>4. i = a /\ j = b
      BY <1>6, <3>3
    <3>5. QED
      BY <3>1, <3>2, <3>3, <3>4
  <2>2. QED
    BY <1>8, <2>1 DEF Injection, IsInjective, Surjection
<1>10. Cardinality(Units(S, g)) = Cardinality(parts)
  <2> HIDE DEF join, parts
  <2>1. QED
    BY <1>3, <1>8, <1>9, FS_Surjection
<1>11. Cardinality(Units(S, f)) \in Nat
  BY <1>1, FS_CardinalityType
<1>12. QED
  BY <1>3, <1>10, <1>11 DEF Total

(* The sum of an indicator counts the elements it indicates. *)
LEMMA TotalIndicator ==
  ASSUME NEW S, IsFiniteSet(S), NEW T \in SUBSET S
  PROVE  Total(S, [s \in S |-> IF s \in T THEN 1 ELSE 0]) = Cardinality(T)
PROOF
<1> DEFINE f == [s \in S |-> IF s \in T THEN 1 ELSE 0]
<1>1. Units(S, f) = T \X {1}
  <2>1. ASSUME NEW x, x \in Units(S, f)
        PROVE  x \in T \X {1}
    <3>1. PICK s \in S, i \in Int : i \in 1 .. f[s] /\ x = <<s, i>>
      BY <2>1, UnitsElements
    <3>2. s \in T /\ i = 1
      BY <3>1
    <3>3. QED
      BY <3>1, <3>2
  <2>2. ASSUME NEW s \in T
        PROVE  <<s, 1>> \in Units(S, f)
    <3>1. s \in S /\ 1 \in 1 .. f[s]
      OBVIOUS
    <3>2. QED
      BY <3>1, UnitsElements
  <2>3. QED
    BY <2>1, <2>2
<1>2. IsFiniteSet(T) /\ Cardinality(T) \in Nat
  BY FS_Subset, FS_CardinalityType
<1>3. IsFiniteSet({1}) /\ Cardinality({1}) = 1
  BY FS_Singleton
<1>4. Cardinality(T \X {1}) = Cardinality(T) * 1
  BY <1>2, <1>3, FS_Product
<1>5. Total(S, f) = Cardinality(T \X {1})
  BY <1>1 DEF Total
<1>6. Cardinality(T) * 1 = Cardinality(T)
  BY <1>2
<1>7. QED
  BY <1>4, <1>5, <1>6

(* An inequality between linear forms of the terms holds for the sums. *)
LEMMA TotalCompare ==
  ASSUME NEW S, IsFiniteSet(S), NEW a \in Nat, NEW b \in Nat, NEW c \in Nat,
         NEW f \in [S -> Nat], NEW g \in [S -> Nat], NEW h \in [S -> Nat],
         \A s \in S : a * f[s] <= b * g[s] + c * h[s]
  PROVE  a * Total(S, f) <= b * Total(S, g) + c * Total(S, h)
PROOF
<1> DEFINE af == [s \in S |-> a * f[s]]
           bg == [s \in S |-> b * g[s]]
           ch == [s \in S |-> c * h[s]]
           sum == [s \in S |-> b * g[s] + c * h[s]]
<1>1. /\ af \in [S -> Nat] /\ bg \in [S -> Nat] /\ ch \in [S -> Nat] /\ sum \in [S -> Nat]
  OBVIOUS
<1>2. /\ \A s \in S : sum[s] = bg[s] + ch[s]
      /\ \A s \in S : af[s] <= sum[s]
  OBVIOUS
<1>3. Total(S, af) = a * Total(S, f)
  <2>1. af \in [S -> Nat] /\ \A s \in S : af[s] = a * f[s]
    BY <1>1
  <2> HIDE DEF af, bg, ch, sum
  <2>2. QED
    BY <2>1, TotalScale
<1>4. Total(S, bg) = b * Total(S, g)
  <2>1. bg \in [S -> Nat] /\ \A s \in S : bg[s] = b * g[s]
    BY <1>1
  <2> HIDE DEF af, bg, ch, sum
  <2>2. QED
    BY <2>1, TotalScale
<1>5. Total(S, ch) = c * Total(S, h)
  <2>1. ch \in [S -> Nat] /\ \A s \in S : ch[s] = c * h[s]
    BY <1>1
  <2> HIDE DEF af, bg, ch, sum
  <2>2. QED
    BY <2>1, TotalScale
<1> HIDE DEF af, bg, ch, sum
<1>6. Total(S, sum) = Total(S, bg) + Total(S, ch)
  <2>1. \A s \in S : sum[s] = bg[s] + ch[s]
    BY <1>2
  <2>2. QED
    BY <1>1, <2>1, TotalAdd
<1>7. Total(S, af) <= Total(S, sum)
  <2>1. \A s \in S : af[s] <= sum[s]
    BY <1>2
  <2>2. QED
    BY <1>1, <2>1, TotalMonotone
<1>8. QED
  BY <1>3, <1>4, <1>5, <1>6, <1>7

(* A sum depends on the terms only. *)
LEMMA TotalEqual ==
  ASSUME NEW S, NEW f, NEW g, \A s \in S : f[s] = g[s]
  PROVE  Total(S, f) = Total(S, g)
<1>1. {{s} \X (1 .. f[s]) : s \in S} = {{s} \X (1 .. g[s]) : s \in S}
  OBVIOUS
<1> QED
  BY <1>1 DEF Total, Units

(* Terms that are zero may be left out. *)
LEMMA TotalRestrict ==
  ASSUME NEW S, NEW T \in SUBSET S, NEW f, \A s \in S \ T : f[s] = 0
  PROVE  Total(S, f) = Total(T, f)
<1>1. ASSUME NEW x
      PROVE  x \in Units(S, f) <=> x \in Units(T, f)
  <2>1. ASSUME NEW s \in S, NEW i \in 1 .. f[s]
        PROVE  s \in T
    <3>1. CASE s \in S \ T
      <4>1. f[s] = 0
        BY <3>1
      <4> QED
        BY <2>1, <4>1
    <3> QED
      BY <3>1
  <2>2. x \in Units(S, f) <=> \E s \in S : \E i \in 1 .. f[s] : x = <<s, i>>
    BY UnitsElements
  <2>3. x \in Units(T, f) <=> \E s \in T : \E i \in 1 .. f[s] : x = <<s, i>>
    BY UnitsElements
  <2> QED
    BY <2>1, <2>2, <2>3
<1>2. Units(S, f) = Units(T, f)
  BY <1>1
<1> QED
  BY <1>2 DEF Total

(* One more term. *)
LEMMA TotalInsert ==
  ASSUME NEW S, IsFiniteSet(S), NEW T, NEW x \in S, T = S \ {x}, NEW f \in [S -> Nat]
  PROVE  Total(S, f) = Total(T, f) + f[x]
<1> DEFINE zero == [s \in S |-> IF s = x THEN 0 ELSE f[s]]
<1>1. zero \in [S -> Nat] /\ zero[x] = 0 /\ (\A s \in T : zero[s] = f[s]) /\ T \in SUBSET S
  OBVIOUS
<1>2. \A s \in S \ {x} : zero[s] = f[s]
  OBVIOUS
<1> HIDE DEF zero
<1>3. Total(S, f) + zero[x] = Total(S, zero) + f[x]
  BY <1>1, <1>2, TotalUpdate
<1>4. Total(S, zero) = Total(T, zero)
  BY <1>1, TotalRestrict
<1>5. Total(T, zero) = Total(T, f)
  BY <1>1, TotalEqual
<1>6. Total(S, f) \in Nat
  BY TotalType
<1> QED
  BY <1>1, <1>3, <1>4, <1>5, <1>6

(* A sum does not depend on how its terms are indexed. *)
LEMMA TotalReindex ==
  ASSUME NEW S, IsFiniteSet(S), NEW T, NEW b \in Bijection(S, T),
         NEW f \in [S -> Nat], NEW g \in [T -> Nat], \A s \in S : f[s] = g[b[s]]
  PROVE  Total(S, f) = Total(T, g)
<1> DEFINE move == [x \in Units(S, f) |-> <<b[x[1]], x[2]>>]
<1>1. b \in [S -> T] /\ (\A s, r \in S : b[s] = b[r] => s = r) /\ (\A t \in T : \E s \in S : b[s] = t)
  BY DEF Bijection, Injection, Surjection, IsInjective
<1>2. \A x : x \in Units(S, f) <=> \E s \in S : \E i \in 1 .. f[s] : x = <<s, i>>
  BY UnitsElements
<1>3. \A x : x \in Units(T, g) <=> \E t \in T : \E i \in 1 .. g[t] : x = <<t, i>>
  BY UnitsElements
<1>4. ASSUME NEW x \in Units(S, f)
      PROVE  /\ move[x] \in Units(T, g)
             /\ \A y \in Units(S, f) : move[x] = move[y] => x = y
  <2>1a. PICK s \in S : \E i \in 1 .. f[s] : x = <<s, i>>
    BY <1>2
  <2>1. PICK i \in 1 .. f[s] : x = <<s, i>>
    BY <2>1a
  <2>2. move[x] = <<b[s], i>>
    BY <2>1
  <2>3. b[s] \in T /\ i \in 1 .. g[b[s]]
    BY <1>1
  <2>4. move[x] \in Units(T, g)
    BY <1>3, <2>2, <2>3
  <2>5. ASSUME NEW y \in Units(S, f), move[x] = move[y]
        PROVE  x = y
    <3>1a. PICK r \in S : \E j \in 1 .. f[r] : y = <<r, j>>
      BY <1>2
    <3>1. PICK j \in 1 .. f[r] : y = <<r, j>>
      BY <3>1a
    <3>2. move[y] = <<b[r], j>>
      BY <3>1
    <3>3. b[s] = b[r] /\ i = j
      BY <2>2, <2>5, <3>2
    <3> QED
      BY <1>1, <2>1, <3>1, <3>3
  <2> QED
    BY <2>4, <2>5
<1>5. ASSUME NEW z \in Units(T, g)
      PROVE  \E x \in Units(S, f) : move[x] = z
  <2>1a. PICK t \in T : \E i \in 1 .. g[t] : z = <<t, i>>
    BY <1>3
  <2>1. PICK i \in 1 .. g[t] : z = <<t, i>>
    BY <2>1a
  <2>2. PICK s \in S : b[s] = t
    BY <1>1
  <2>3. i \in 1 .. f[s]
    BY <2>2
  <2>4. <<s, i>> \in Units(S, f)
    BY <1>2, <2>3
  <2>5. move[<<s, i>>] = z
    BY <2>1, <2>2, <2>4
  <2> QED
    BY <2>4, <2>5
<1>6. move \in [Units(S, f) -> Units(T, g)]
  BY <1>4
<1>7. move \in Bijection(Units(S, f), Units(T, g))
  BY <1>4, <1>5, <1>6 DEF Bijection, Injection, Surjection, IsInjective
<1>8. ExistsBijection(Units(S, f), Units(T, g))
  BY <1>7 DEF ExistsBijection
<1> QED
  BY <1>8, UnitsFinite, FS_Bijection DEF Total

(* An injection that never maps to a smaller value maps to a larger sum.    *)
LEMMA TotalInjection ==
  ASSUME NEW S, NEW T, IsFiniteSet(T), NEW b \in Injection(S, T),
         NEW f \in [S -> Nat], NEW g \in [T -> Nat], \A s \in S : f[s] <= g[b[s]]
  PROVE  Total(S, f) <= Total(T, g)
<1> DEFINE move == [x \in Units(S, f) |-> <<b[x[1]], x[2]>>]
<1>1. b \in [S -> T] /\ (\A s, r \in S : b[s] = b[r] => s = r)
  BY DEF Injection, IsInjective
<1>2. ASSUME NEW x \in Units(S, f)
      PROVE  move[x] \in Units(T, g)
  <2>1. PICK s \in S, i \in Int : i \in 1 .. f[s] /\ x = <<s, i>>
    BY UnitsElements
  <2>2. b[s] \in T /\ i \in 1 .. g[b[s]]
    BY <1>1, <2>1
  <2>3. move[x] = <<b[s], i>>
    BY <2>1
  <2> QED
    BY <2>2, <2>3, UnitsElements
<1>3. ASSUME NEW x \in Units(S, f), NEW y \in Units(S, f), move[x] = move[y]
      PROVE  x = y
  <2>1. PICK s \in S, i \in Int : i \in 1 .. f[s] /\ x = <<s, i>>
    BY UnitsElements
  <2>2. PICK r \in S, j \in Int : j \in 1 .. f[r] /\ y = <<r, j>>
    BY UnitsElements
  <2>3. b[s] = b[r] /\ i = j
    BY <1>3, <2>1, <2>2
  <2> QED
    BY <1>1, <2>1, <2>2, <2>3
<1>4. move \in Injection(Units(S, f), Units(T, g))
  BY <1>2, <1>3 DEF Injection, IsInjective
<1>5. IsFiniteSet(Units(T, g))
  BY UnitsFinite
<1> QED
  BY <1>4, <1>5, FS_Injection DEF Total

(* Of two sums, one entrywise below the other, the totals agree only if     *)
(* every entry does.                                                        *)
LEMMA TotalSame ==
  ASSUME NEW S, IsFiniteSet(S), NEW f \in [S -> Nat], NEW g \in [S -> Nat],
         \A s \in S : f[s] <= g[s], Total(S, g) <= Total(S, f)
  PROVE  \A s \in S : f[s] = g[s]
<1> SUFFICES ASSUME NEW u \in S, f[u] # g[u]
             PROVE  FALSE
  OBVIOUS
<1> DEFINE h == [s \in S |-> IF s = u THEN f[u] ELSE g[s]]
<1>1. h \in [S -> Nat] /\ h[u] = f[u] /\ \A s \in S \ {u} : h[s] = g[s]
  OBVIOUS
<1>2. \A s \in S : f[s] <= h[s]
  OBVIOUS
<1> HIDE DEF h
<1>3. Total(S, h) + g[u] = Total(S, g) + h[u]
  BY <1>1, TotalUpdate
<1>4. Total(S, f) <= Total(S, h)
  BY <1>1, <1>2, TotalMonotone
<1>5. Total(S, f) \in Nat /\ Total(S, g) \in Nat /\ Total(S, h) \in Nat
  BY <1>1, TotalType
<1>6. f[u] < g[u] /\ f[u] \in Nat /\ g[u] \in Nat
  OBVIOUS
<1> QED
  BY <1>1, <1>3, <1>4, <1>5, <1>6

(* No entry exceeds the sum. *)
LEMMA TotalEntry ==
  ASSUME NEW S, IsFiniteSet(S), NEW f \in [S -> Nat], NEW x \in S
  PROVE  f[x] <= Total(S, f)
<1> DEFINE g == [s \in S |-> IF s = x THEN f[x] ELSE 0]
<1>1. g \in [S -> Nat] /\ g[x] = f[x] /\ f[x] \in Nat
  OBVIOUS
<1>2. /\ \A s \in S \ {x} : g[s] = 0
      /\ \A s \in S : g[s] <= f[s]
  OBVIOUS
<1> HIDE DEF g
<1>3. Total(S, g) = f[x]
  BY <1>1, <1>2, TotalSingle
<1>4. Total(S, g) <= Total(S, f)
  BY <1>1, <1>2, TotalMonotone
<1> QED
  BY <1>3, <1>4

=============================================================================
