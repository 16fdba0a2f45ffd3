-------------------------- MODULE PipelineProofs --------------------------
(***************************************************************************)
(* From sealed blobs to positions, for any number of nodes, any blinds, any *)
(* orders and any users.                                                    *)
(*                                                                         *)
(* First the node matrix: shares of a word sum to it, sums of shares to the *)
(* sum of what was shared, all modulo 2^64, and so every behaviour of       *)
(* SecureEpoch is one of Epoch.  Then what the program makes of the engine's*)
(* frame: a transaction that passes the checks carries that frame and that  *)
(* epoch, so that it settles what was sealed (PipelineInv).                 *)
(***************************************************************************)
EXTENDS Pipeline, MatchingProofs

(***************************************************************************)
(* Secret sharing.                                                          *)
(***************************************************************************)

ShareVectors(n) == [1 .. n -> Word]

LEMMA Modulus == U64Max \in Nat /\ U64Max + 1 \in Nat \ {0}
  BY SizesAssumption

LEMMA Quotient ==
  ASSUME NEW m \in Nat \ {0}, NEW a \in Nat
  PROVE  \E q \in Nat : a = m * q + (a % m)
BY Division

(* A summand may be reduced before it is added. *)
LEMMA ReducedSum ==
  ASSUME NEW m \in Nat \ {0}, NEW a \in Nat, NEW b \in Nat
  PROVE  ((a % m) + b) % m = (a + b) % m
<1>1. PICK p, q \in Nat : p = (a % m) /\ a = m * q + p
  BY Division
<1>2. p + b \in Nat
  OBVIOUS
<1>3. PICK t, k \in Nat : t = ((p + b) % m) /\ t < m /\ p + b = m * k + t
  BY <1>2, Division
<1>4. PICK x \in Nat, z \in Int : x = a + b /\ z = q + k
  OBVIOUS
<1>5. x = m * z + t
  <2>1. m * (q + k) = m * q + m * k
    OBVIOUS
  <2> QED
    BY <1>1, <1>3, <1>4, <2>1
<1>6. t < m
  BY <1>3
<1>7. x % m = t
  BY <1>5, <1>6, RemainderUnique
<1> QED
  BY <1>1, <1>3, <1>4, <1>7

LEMMA RemainderSum ==
  ASSUME NEW m \in Nat \ {0}, NEW a \in Nat, NEW b \in Nat
  PROVE  ((a % m) + (b % m)) % m = (a + b) % m
<1>1. PICK p, q \in Nat : p = (a % m) /\ q = (b % m)
  BY Division
<1>2. ((a % m) + q) % m = (a + q) % m
  BY ReducedSum
<1>3. ((b % m) + a) % m = (b + a) % m
  BY ReducedSum
<1>4. q + a = a + q /\ b + a = a + b
  OBVIOUS
<1> QED
  BY <1>1, <1>2, <1>3, <1>4

LEMMA Wrapping ==
  ASSUME NEW a \in Word, NEW b \in Word
  PROVE  /\ WrappingAdd(a, b) \in Word
         /\ a + b <= U64Max => WrappingAdd(a, b) = a + b
         /\ a + b > U64Max => WrappingAdd(a, b) = a + b - (U64Max + 1)
         /\ WrappingSub(a, b) \in Word
         /\ WrappingSub(a, b) = a - b \/ WrappingSub(a, b) = a - b + (U64Max + 1)
BY Modulus DEF Word, WrappingAdd, WrappingSub

LEMMA WordSum ==
  ASSUME NEW n \in Nat, NEW f \in ShareVectors(n)
  PROVE  /\ f \in Columns(n)
         /\ \A i \in 1 .. n : f[i] \in Word
         /\ Total(1 .. n, f) \in Nat
         /\ WrappingSum(f) = Total(1 .. n, f) % (U64Max + 1)
         /\ WrappingSum(f) \in Word
<1>1. DOMAIN f = 1 .. n /\ \A i \in 1 .. n : f[i] \in Word
  BY DEF ShareVectors
<1>2. f \in [1 .. n -> Nat]
  BY Modulus DEF ShareVectors, Word
<1>3. f \in Columns(n)
  BY <1>2 DEF Columns
<1>4. Total(1 .. n, f) \in Nat
  BY <1>2, FS_Interval, TotalType
<1>5. WrappingSum(f) = Total(1 .. n, f) % (U64Max + 1)
  BY <1>1 DEF WrappingSum
<1>6. WrappingSum(f) \in Word
  <2>1. Total(1 .. n, f) % (U64Max + 1) \in Nat /\ Total(1 .. n, f) % (U64Max + 1) < U64Max + 1
    BY <1>4, Modulus, Division
  <2> QED
    BY <1>5, <2>1, Modulus DEF Word
<1> QED
  BY <1>1, <1>3, <1>4, <1>5, <1>6

(* The shares of a secret sum to it, whatever the blinds are. *)
LEMMA SplitSums ==
  ASSUME NEW n \in Nat \ {0}, NEW secret \in Word, NEW blinds \in Blinds(n),
         NEW s, s = Split(secret, n, blinds)
  PROVE  s \in ShareVectors(n) /\ WrappingSum(s) = secret
<1> DEFINE b == WrappingSum(blinds)
           T == Total(1 .. n - 1, blinds)
           last == WrappingSub(secret, b)
<1>1. n - 1 \in Nat /\ blinds \in ShareVectors(n - 1)
  BY DEF Blinds, ShareVectors
<1>2. /\ T \in Nat /\ b = T % (U64Max + 1) /\ b \in Word
      /\ \A i \in 1 .. n - 1 : blinds[i] \in Word
  BY <1>1, WordSum
<1>3. last \in Word /\ (last = secret - b \/ last = secret - b + (U64Max + 1))
  BY <1>2, Wrapping
<1>4. s = [i \in 1 .. n |-> IF i = n THEN last ELSE blinds[i]]
  BY DEF Split
<1>5. s \in ShareVectors(n) /\ s[n] = last /\ \A i \in 1 .. n - 1 : s[i] = blinds[i]
  <2>1. \A i \in 1 .. n : i = n \/ i \in 1 .. n - 1
    OBVIOUS
  <2>2. \A i \in 1 .. n - 1 : i \in 1 .. n /\ i # n
    OBVIOUS
  <2> HIDE DEF last
  <2> QED
    BY <1>2, <1>3, <1>4, <2>1, <2>2 DEF ShareVectors
<1>6. Total(1 .. n, s) = Total(1 .. n - 1, s) + s[n]
  <2>1. IsFiniteSet(1 .. n)
    BY FS_Interval
  <2>3. n \in 1 .. n /\ 1 .. n - 1 = (1 .. n) \ {n}
    OBVIOUS
  <2>2. s \in [1 .. n -> Nat]
    BY <1>5, WordSum DEF Columns
  <2> HIDE DEF last, T, b
  <2> QED
    BY <2>1, <2>2, <2>3, TotalInsert
<1>7. Total(1 .. n - 1, s) = T
  BY <1>5, TotalEqual
<1>8. Total(1 .. n, s) = T + last
  BY <1>5, <1>6, <1>7
<1>9. PICK q \in Nat : T = (U64Max + 1) * q + b
  <2> HIDE DEF last, T, b
  <2> QED
    BY <1>2, Modulus, Quotient
<1>10. \E k \in Int : Total(1 .. n, s) = (U64Max + 1) * k + secret
  <2> HIDE DEF last, T, b
  <2>1. b \in Int /\ last \in Int /\ secret \in Int /\ U64Max + 1 \in Nat /\ q \in Int
    BY <1>2, <1>3, Modulus DEF Word
  <2>2. PICK m \in Nat : m = U64Max + 1
    BY <2>1
  <2>3. last = secret - b \/ last = secret - b + m
    BY <1>3, <2>2
  <2>4. CASE last = secret - b
    <3>1. (m * q + b) + last = m * q + secret
      BY <2>1, <2>4
    <3> QED
      BY <1>8, <1>9, <2>1, <2>2, <3>1
  <2>5. CASE last = secret - b + m
    <3>1. (m * q + b) + last = m * (q + 1) + secret
      BY <2>1, <2>5
    <3>2. q + 1 \in Int
      BY <2>1
    <3> QED
      BY <1>8, <1>9, <2>2, <3>1, <3>2
  <2> QED
    BY <2>3, <2>4, <2>5
<1>11. /\ Total(1 .. n, s) \in Nat
       /\ WrappingSum(s) = Total(1 .. n, s) % (U64Max + 1)
  BY <1>5, WordSum
<1>12. secret \in Nat /\ secret < U64Max + 1
  BY Modulus DEF Word
<1>13. Total(1 .. n, s) % (U64Max + 1) = secret
  BY <1>10, <1>11, <1>12, Modulus, RemainderUnique
<1> QED
  BY <1>5, <1>11, <1>13

(* Adding shares node by node adds what they share. *)
LEMMA AddSums ==
  ASSUME NEW n \in Nat, NEW f \in ShareVectors(n), NEW g \in ShareVectors(n),
         NEW h, h = AddShares(f, g)
  PROVE  /\ h \in ShareVectors(n)
         /\ WrappingSum(h) = (WrappingSum(f) + WrappingSum(g)) % (U64Max + 1)
<1> DEFINE c == [i \in 1 .. n |-> IF f[i] + g[i] <= U64Max THEN 0 ELSE 1]
           sum == [i \in 1 .. n |-> f[i] + g[i]]
           m == U64Max + 1
<1>1. /\ f \in Columns(n) /\ g \in Columns(n)
      /\ \A i \in 1 .. n : f[i] \in Word /\ g[i] \in Word /\ f[i] \in Nat /\ g[i] \in Nat
      /\ Total(1 .. n, f) \in Nat /\ WrappingSum(f) = Total(1 .. n, f) % m
      /\ Total(1 .. n, g) \in Nat /\ WrappingSum(g) = Total(1 .. n, g) % m
  BY WordSum, Modulus DEF Word
<1>2. /\ DOMAIN f = 1 .. n
      /\ h = [i \in 1 .. n |-> WrappingAdd(f[i], g[i])]
  BY DEF AddShares, ShareVectors
<1>3. \A i \in 1 .. n : WrappingAdd(f[i], g[i]) \in Word
  BY <1>1, Wrapping
<1>4. h \in ShareVectors(n)
  BY <1>2, <1>3 DEF ShareVectors
<1>5. c \in Columns(n) /\ sum \in Columns(n)
  BY <1>1 DEF Columns
<1>6. PICK mc : /\ mc \in Columns(n)
                /\ \A i \in 1 .. n : mc[i] = m * c[i]
                /\ Total(1 .. n, mc) = m * Total(1 .. n, c)
  <2> HIDE DEF c, sum
  <2> QED
    BY <1>5, Modulus, ScaledColumn
<1>7. \A i \in 1 .. n : sum[i] = h[i] + mc[i]
  <2> TAKE i \in 1 .. n
  <2>1. mc[i] = m * c[i] /\ h[i] = WrappingAdd(f[i], g[i]) /\ f[i] \in Word /\ g[i] \in Word
    BY <1>1, <1>2, <1>6
  <2>2. sum[i] = f[i] + g[i] /\ f[i] \in Nat /\ g[i] \in Nat
    BY <1>1
  <2>3. CASE f[i] + g[i] <= U64Max
    <3>1. c[i] = 0 /\ h[i] = f[i] + g[i]
      BY <2>1, <2>3, Wrapping
    <3>2. mc[i] = 0
      BY <2>1, <3>1, Modulus
    <3> QED
      BY <2>2, <3>1, <3>2
  <2>4. CASE ~(f[i] + g[i] <= U64Max)
    <3>1. f[i] + g[i] > U64Max
      BY <2>2, <2>4, Modulus
    <3>2. c[i] = 1 /\ h[i] = f[i] + g[i] - m
      BY <2>1, <2>4, <3>1, Wrapping
    <3>3. mc[i] = m
      BY <2>1, <3>2, Modulus
    <3> QED
      BY <2>2, <3>2, <3>3, Modulus
  <2> QED
    BY <2>3, <2>4
<1>8. /\ h \in Columns(n) /\ Total(1 .. n, h) \in Nat
      /\ WrappingSum(h) = Total(1 .. n, h) % m
  BY <1>4, WordSum
<1>9. /\ Total(1 .. n, sum) = Total(1 .. n, f) + Total(1 .. n, g)
      /\ Total(1 .. n, sum) = Total(1 .. n, h) + Total(1 .. n, mc)
  <2>1. \A i \in 1 .. n : sum[i] = f[i] + g[i]
    OBVIOUS
  <2>2. /\ f \in Columns(n) /\ g \in Columns(n) /\ sum \in Columns(n)
        /\ h \in Columns(n) /\ mc \in Columns(n)
    BY <1>1, <1>5, <1>6, <1>8
  <2> HIDE DEF sum
  <2>3. Total(1 .. n, sum) = Total(1 .. n, f) + Total(1 .. n, g)
    BY <2>1, <2>2, AddedColumns
  <2>4. Total(1 .. n, sum) = Total(1 .. n, h) + Total(1 .. n, mc)
    BY <1>7, <2>2, AddedColumns
  <2> QED
    BY <2>3, <2>4
<1>10. Total(1 .. n, c) \in Nat
  <2> HIDE DEF c
  <2>1. c \in [1 .. n -> Nat]
    BY <1>5 DEF Columns
  <2>2. IsFiniteSet(1 .. n)
    BY FS_Interval
  <2> QED
    BY <2>1, <2>2, TotalType
<1> HIDE DEF c, sum
<1>11. (Total(1 .. n, f) + Total(1 .. n, g)) % m = Total(1 .. n, h) % m
  <2>1. PICK th, tc, tf, tg \in Nat :
          th = Total(1 .. n, h) /\ tc = Total(1 .. n, c) /\ tf = Total(1 .. n, f) /\ tg = Total(1 .. n, g)
    BY <1>1, <1>8, <1>10
  <2>2. tf + tg = th + m * tc
    BY <1>6, <1>9, <2>1
  <2>3. PICK q, r \in Nat : th = m * q + r /\ r = th % m /\ r < m
    BY Modulus, Division
  <2>4. tf + tg \in Nat /\ q + tc \in Int /\ tf + tg = m * (q + tc) + r
    BY <2>2, <2>3, Modulus
  <2>5. (tf + tg) % m = r
    BY <2>3, <2>4, Modulus, RemainderUnique
  <2> QED
    BY <2>1, <2>3, <2>5
<1>12. (WrappingSum(f) + WrappingSum(g)) % m = (Total(1 .. n, f) + Total(1 .. n, g)) % m
  <2>1. PICK tf, tg \in Nat : tf = Total(1 .. n, f) /\ tg = Total(1 .. n, g)
    BY <1>1
  <2>2. ASSUME NEW k \in Nat \ {0} PROVE ((tf % k) + (tg % k)) % k = (tf + tg) % k
    BY RemainderSum
  <2>3. ((tf % m) + (tg % m)) % m = (tf + tg) % m
    BY <2>2, Modulus
  <2> QED
    BY <1>1, <2>1, <2>3
<1> QED
  BY <1>4, <1>8, <1>11, <1>12

LEMMA NewSums ==
  ASSUME NEW n \in Nat
  PROVE  /\ NewAccumulator(n) \in ShareVectors(n)
         /\ Reveal(NewAccumulator(n)) = 0
<1>1. NewAccumulator(n) \in ShareVectors(n) /\ \A i \in 1 .. n : NewAccumulator(n)[i] = 0
  BY Modulus DEF NewAccumulator, ShareVectors, Word
<1>2. Total(1 .. n, NewAccumulator(n)) = 0
  BY <1>1, TotalZero
<1>3. 0 % (U64Max + 1) = 0
  BY Modulus, RemainderUnique
<1> QED
  BY <1>1, <1>2, <1>3, WordSum DEF Reveal

(***************************************************************************)
(* The operators of Epoch's instance are those of this module.              *)
(***************************************************************************)

LEMMA PlainTotal ==
  ASSUME NEW S, NEW f
  PROVE  Plain!Total(S, f) = Total(S, f)
BY DEF Plain!Total, Plain!Units, Total, Units, Plain!Cardinality, Cardinality,
       Plain!IsFiniteSet, IsFiniteSet

LEMMA PlainCardinality ==
  ASSUME NEW S
  PROVE  Plain!Cardinality(S) = Cardinality(S)
BY DEF Plain!Cardinality, Cardinality, Plain!IsFiniteSet, IsFiniteSet

LEMMA PlainUsers ==
  ASSUME NEW os
  PROVE  Plain!BatchUsers(os) = BatchUsers(os)
<1>1. Plain!FirstOrders(os) = FirstOrders(os)
  BY DEF Plain!FirstOrders, FirstOrders
<1>2. \A S, n : Plain!Nth(S, n) = Nth(S, n)
  BY PlainCardinality DEF Plain!Nth, Nth
<1> QED
  BY <1>1, <1>2, PlainCardinality DEF Plain!BatchUsers, BatchUsers

LEMMA PlainAggregates ==
  ASSUME NEW os
  PROVE  Plain!Aggregates(os) = Aggregates(os)
<1>1. \A u, side : Plain!Demand(os, u, side) = Demand(os, u, side)
  BY PlainTotal DEF Plain!Demand, Demand
<1> QED
  BY <1>1, PlainUsers DEF Plain!Aggregates, Aggregates, Plain!Yes, Yes, Plain!No, No

LEMMA PlainAggregateError ==
  ASSUME NEW a
  PROVE  Plain!AggregateError(a) = AggregateError(a)
BY DEF Plain!AggregateError, AggregateError, Plain!FitsU64, FitsU64, Plain!NoError, NoError

LEMMA PlainAllocateExact ==
  ASSUME NEW total, NEW w
  PROVE  Plain!AllocateExact(total, w) = AllocateExact(total, w)
<1>1. \A i : Plain!Share(total, w, i) = Share(total, w, i)
  BY PlainTotal DEF Plain!Share, Share
<1>2. \A i : Plain!Remainder(total, w, i) = Remainder(total, w, i)
  BY PlainTotal DEF Plain!Remainder, Remainder
<1>3. \A i : Plain!Rank(total, w, i) = Rank(total, w, i)
  BY <1>2, PlainCardinality DEF Plain!Rank, Rank
<1>4. Plain!Leftover(total, w) = Leftover(total, w)
  BY <1>1, PlainTotal DEF Plain!Leftover, Leftover
<1> QED
  BY <1>1, <1>3, <1>4, PlainTotal DEF Plain!AllocateExact, AllocateExact

LEMMA PlainRevealed ==
  ASSUME NEW a, NEW ty, NEW tn
  PROVE  Plain!MatchRevealed(a, ty, tn) = MatchRevealed(a, ty, tn)
<1>1. \A y, n, m : Plain!YesHeavyFills(y, n, m) = YesHeavyFills(y, n, m)
  BY PlainAllocateExact DEF Plain!YesHeavyFills, YesHeavyFills, Plain!Fill, Fill
<1>2. \A y, n, m : Plain!NoHeavyFills(y, n, m) = NoHeavyFills(y, n, m)
  BY PlainAllocateExact DEF Plain!NoHeavyFills, NoHeavyFills, Plain!Fill, Fill
<1>3. \A f : Plain!P2pVolume(f) = P2pVolume(f)
  BY PlainTotal DEF Plain!P2pVolume, P2pVolume
<1> QED
  BY <1>1, <1>2, <1>3
     DEF Plain!MatchRevealed, MatchRevealed, Plain!FitsU64, FitsU64, Plain!MatchError, MatchError,
         Plain!DIRECTION_YES_HEAVY, DIRECTION_YES_HEAVY, Plain!DIRECTION_NO_HEAVY, DIRECTION_NO_HEAVY

LEMMA PlainMatch ==
  ASSUME NEW os
  PROVE  Plain!MatchBatch(os) = MatchBatch(os)
<1>1. \A q : Plain!BlindedSum(q) = BlindedSum(q)
  BY PlainTotal DEF Plain!BlindedSum, BlindedSum
<1> QED
  BY <1>1, PlainAggregates, PlainAggregateError, PlainRevealed
     DEF Plain!MatchBatch, MatchBatch, Plain!MatchError, MatchError, Plain!NoError, NoError

(***************************************************************************)
(* The invariant.  A column is in work only after the checks of its         *)
(* aggregates, and its part that is folded in is what the sums hold.        *)
(***************************************************************************)

Fields == {"stage", "folded", "sums", "total_yes"}

InWork ==
  /\ matrix.stage \in {"yes", "no"}
  /\ result = Pending
  /\ AggregateError(Aggregates(orders)) = NoError
  /\ matrix.sums \in ShareVectors(nodes)
  /\ matrix.folded \in 0 .. Len(ColumnInWork)
  /\ Reveal(matrix.sums) = Total(1 .. matrix.folded, ColumnInWork) % (U64Max + 1)
  /\ matrix.total_yes \in Word
  /\ matrix.stage = "no" => matrix.total_yes = BlindedSum(Aggregates(orders).yes)

Inv ==
  /\ nodes \in Nat \ {0}
  /\ orders \in OrderSeq(Users)
  /\ DOMAIN matrix = Fields
  /\ matrix = IdleMatrix \/ InWork

(* Columns of aggregates that passed the checks, and their partial sums. *)
LEMMA CheckedColumn ==
  ASSUME NEW a, a = Aggregates(orders), orders \in OrderSeq(Users),
         AggregateError(a) = NoError,
         NEW col, col = a.yes \/ col = a.no
  PROVE  /\ Len(col) \in Nat /\ col \in Columns(Len(col))
         /\ \A i \in 1 .. Len(col) : col[i] \in Word
         /\ BlindedSum(col) = Total(1 .. Len(col), col) % (U64Max + 1)
<1>1. /\ Len(a.users) \in Nat
      /\ a.yes \in Columns(Len(a.users))
      /\ a.no \in Columns(Len(a.users))
      /\ a.users \in Seq(Users)
  BY AggregatesAdd, BlobsAssumption
<1>2. PICK n \in Nat : n = Len(a.users)
  BY <1>1
<1>3. col \in [1 .. n -> Nat]
  BY <1>1, <1>2 DEF Columns
<1>4. Len(col) = n /\ DOMAIN col = 1 .. n
  <2>1. col \in Seq(Nat)
    BY <1>3, SeqDef
  <2> QED
    BY <1>3, <2>1, LenProperties
<1>5. \A i \in 1 .. n : col[i] \in Word
  <2>1. DOMAIN a.users = 1 .. n
    BY <1>1, <1>2, LenProperties
  <2>2. \A i \in 1 .. n : FitsU64(a.yes[i]) /\ FitsU64(a.no[i])
    BY <2>1 DEF AggregateError, NoError
  <2>3. \A i \in 1 .. n : col[i] \in Nat
    BY <1>3
  <2> QED
    BY <2>2, <2>3, Modulus DEF FitsU64, Word
<1> QED
  BY <1>3, <1>4, <1>5 DEF Columns, BlindedSum

LEMMA PartialSum ==
  ASSUME NEW n \in Nat, NEW col \in Columns(n), NEW k \in 0 .. n
  PROVE  /\ Total(1 .. k, col) \in Nat
         /\ k < n => Total(1 .. k + 1, col) = Total(1 .. k, col) + col[k + 1]
<1>1. ASSUME NEW j \in 0 .. n
      PROVE  \E f \in [1 .. j -> Nat] : \A i \in 1 .. j : f[i] = col[i]
  <2>1. [i \in 1 .. j |-> col[i]] \in [1 .. j -> Nat]
    BY DEF Columns
  <2> QED
    BY <2>1
<1>2. PICK f \in [1 .. k -> Nat] : \A i \in 1 .. k : f[i] = col[i]
  BY <1>1
<1>3. IsFiniteSet(1 .. k)
  BY FS_Interval
<1>4. Total(1 .. k, f) \in Nat
  BY <1>3, TotalType
<1>5. Total(1 .. k, f) = Total(1 .. k, col)
  BY <1>2, TotalEqual
<1>6. ASSUME k < n
      PROVE  Total(1 .. k + 1, col) = Total(1 .. k, col) + col[k + 1]
  <2>1. k + 1 \in 0 .. n
    BY <1>6
  <2>2. PICK g \in [1 .. k + 1 -> Nat] : \A i \in 1 .. k + 1 : g[i] = col[i]
    BY <1>1, <2>1
  <2>3. Total(1 .. k + 1, g) = Total(1 .. k + 1, col)
    BY <2>2, TotalEqual
  <2>4. IsFiniteSet(1 .. k + 1)
    BY FS_Interval
  <2>5. k + 1 \in 1 .. k + 1 /\ 1 .. k = (1 .. k + 1) \ {k + 1}
    OBVIOUS
  <2>6. Total(1 .. k + 1, g) = Total(1 .. k, g) + g[k + 1]
    BY <2>4, <2>5, TotalInsert
  <2>7. \A i \in 1 .. k : g[i] = col[i]
    BY <2>2
  <2>8. Total(1 .. k, g) = Total(1 .. k, col)
    BY <2>7, TotalEqual
  <2> QED
    BY <2>2, <2>3, <2>5, <2>6, <2>8
<1> QED
  BY <1>4, <1>5, <1>6

LEMMA InvInit == EngineInit => Inv
<1> SUFFICES ASSUME EngineInit PROVE Inv
  OBVIOUS
<1>1. PICK n \in NodeCounts : nodes = Larger(n, 1)
  BY DEF EngineInit
<1>2. nodes \in Nat \ {0}
  BY <1>1, NodesAssumption DEF Larger
<1>3. orders \in OrderSeq(Users)
  BY DEF EngineInit, OrderSeq
<1>4. matrix = IdleMatrix /\ DOMAIN matrix = Fields
  BY DEF EngineInit, IdleMatrix, Fields
<1> QED
  BY <1>2, <1>3, <1>4 DEF Inv

(* What a step maps to: a step of Epoch, or none of its variables changes. *)
PlainStep == Plain!Next \/ (orders' = orders /\ result' = result)

LEMMA OpenStep ==
  ASSUME Inv, NEW blob \in Blobs, OpenOrder(blob)
  PROVE  Inv' /\ PlainStep
<1> DEFINE order == OpenBlob(ClusterKey, blob).order
           o == [user |-> order.user, side |-> order.side, qty |-> order.qty]
<1>1. /\ OpenBlob(ClusterKey, blob).ok
      /\ result = Pending /\ matrix.stage = "idle" /\ Len(orders) < MaxOrders
      /\ orders' = Append(orders, o)
      /\ result' = result /\ nodes' = nodes /\ matrix' = matrix
  BY DEF OpenOrder, Opening
<1>2. OpenBlob(ClusterKey, blob) = FromBytes(blob.bytes)
  BY <1>1 DEF OpenBlob, MatchError
<1>3. order = [user |-> blob.bytes.user, market |-> blob.bytes.market,
               side |-> IF blob.bytes.tag = 0 THEN Yes ELSE No, qty |-> blob.bytes.qty]
  BY <1>1, <1>2 DEF FromBytes, MatchError, Opened
<1>4. /\ o.user \in Users /\ o.side \in Sides /\ o.qty \in Quantities /\ o.qty \in Nat
      /\ o = [user |-> o.user, side |-> o.side, qty |-> o.qty]
  <2>1. blob.bytes.user \in Users /\ blob.bytes.qty \in Quantities
    BY BlobsAssumption
  <2>2. blob.bytes.qty \in Nat
    <3>1. \A q \in Quantities : q \in 0 .. U64Max
      BY BlobsAssumption
    <3> QED
      BY <2>1, <3>1, Modulus
  <2>3. o.user = blob.bytes.user /\ o.qty = blob.bytes.qty /\ o.side \in {Yes, No}
    BY <1>3
  <2>4. o = [user |-> o.user, side |-> o.side, qty |-> o.qty]
    OBVIOUS
  <2> QED
    BY <2>1, <2>2, <2>3, <2>4 DEF Sides
<1> HIDE DEF o
<1>5. o \in [user : Users, side : Sides, qty : Nat] /\ o \in Plain!Order
  BY <1>4 DEF Plain!Order, Plain!Sides, Plain!Yes, Plain!No, Sides, Yes, No
<1>6. orders' \in OrderSeq(Users)
  <2> DEFINE O == [user : Users, side : Sides, qty : Nat]
  <2>1. orders \in Seq(O) /\ o \in O
    BY <1>5 DEF Inv, OrderSeq
  <2> HIDE DEF O
  <2>2. Append(orders, o) \in Seq(O)
    BY <2>1
  <2> QED
    BY <1>1, <2>2 DEF O, OrderSeq
<1>7. matrix = IdleMatrix
  BY <1>1 DEF Inv, InWork
<1>8. Inv'
  BY <1>1, <1>6, <1>7 DEF Inv, IdleMatrix
<1>9. Plain!OpenOrder(o)
  BY <1>1 DEF Plain!OpenOrder, Plain!Pending, Plain!MatchError, Pending, MatchError
<1> QED
  BY <1>5, <1>8, <1>9 DEF PlainStep, Plain!Next

LEMMA FailStep ==
  ASSUME Inv, NEW blob \in Blobs, FailToOpen(blob)
  PROVE  Inv' /\ PlainStep
<1> DEFINE opened == OpenBlob(ClusterKey, blob)
<1>1. /\ result = Pending /\ matrix.stage = "idle" /\ Len(orders) < MaxOrders
      /\ (~opened.ok /\ result' = opened) \/ result' = MatchError("MarketMismatch")
      /\ orders' = orders /\ nodes' = nodes /\ matrix' = matrix
  BY DEF FailToOpen, Opening
<1>2. \/ opened = MatchError("MalformedSealedOrder") \/ opened = MatchError("SealOpenFailed")
      \/ opened = MatchError("MalformedOrder") \/ opened.ok
  BY DEF OpenBlob, FromBytes, Opened
<1>3. PICK reason \in Plain!OpenErrors : result' = MatchError(reason)
  BY <1>1, <1>2 DEF Plain!OpenErrors
<1>4. Plain!FailToOpen(reason)
  BY <1>1, <1>3 DEF Plain!FailToOpen, Plain!Pending, Plain!MatchError, Pending, MatchError
<1>5. matrix = IdleMatrix
  BY <1>1 DEF Inv, InWork
<1>6. Inv'
  BY <1>1, <1>5 DEF Inv, IdleMatrix
<1> QED
  BY <1>3, <1>4, <1>6 DEF PlainStep, Plain!Next

LEMMA FreshColumn ==
  ASSUME nodes \in Nat \ {0}, NEW stage, NEW total
  PROVE  /\ DOMAIN NewColumn(stage, total) = Fields
         /\ NewColumn(stage, total).stage = stage
         /\ NewColumn(stage, total).folded = 0
         /\ NewColumn(stage, total).total_yes = total
         /\ NewColumn(stage, total).sums \in ShareVectors(nodes)
         /\ Reveal(NewColumn(stage, total).sums) = 0
<1>1. /\ DOMAIN NewColumn(stage, total) = Fields
      /\ NewColumn(stage, total).stage = stage
      /\ NewColumn(stage, total).folded = 0
      /\ NewColumn(stage, total).total_yes = total
      /\ NewColumn(stage, total).sums = NewAccumulator(nodes)
  BY DEF NewColumn, IdleMatrix, Fields
<1> QED
  BY <1>1, NewSums

LEMMA EmptySum ==
  ASSUME NEW col
  PROVE  Total(1 .. 0, col) % (U64Max + 1) = 0
<1>1. Total(1 .. 0, col) = 0
  <2>1. \A i \in 1 .. 0 : col[i] = 0
    OBVIOUS
  <2> QED
    BY <2>1, TotalZero
<1>2. 0 % (U64Max + 1) = 0
  <2>1. PICK m \in Nat \ {0} : m = U64Max + 1
    BY Modulus
  <2>2. 0 = m * 0 + 0 /\ 0 < m
    BY <2>1
  <2>3. 0 % m = 0
    BY <2>2, RemainderUnique
  <2> QED
    BY <2>1, <2>3
<1> QED
  BY <1>1, <1>2

LEMMA AggregateStep ==
  ASSUME Inv, Aggregate
  PROVE  Inv' /\ PlainStep
<1> DEFINE a == Aggregates(orders)
<1>1. /\ result = Pending /\ matrix.stage = "idle"
      /\ orders' = orders /\ nodes' = nodes
  BY DEF Aggregate
<1>2. matrix = IdleMatrix
  BY <1>1 DEF Inv, InWork
<1>3. CASE AggregateError(a) = NoError
  <2>1. matrix' = NewColumn("yes", 0) /\ result' = result
    BY <1>3 DEF Aggregate
  <2>2. ColumnInWork' = a.yes
    BY <1>1, <2>1, FreshColumn DEF ColumnInWork, Inv
  <2>3. Len(a.yes) \in Nat
    BY <1>3, CheckedColumn DEF Inv
  <2>4. InWork'
    <3>1. /\ matrix'.stage = "yes" /\ matrix'.folded = 0 /\ matrix'.total_yes = 0
          /\ matrix'.sums \in ShareVectors(nodes') /\ Reveal(matrix'.sums) = 0
      BY <1>1, <2>1, FreshColumn DEF Inv
    <3>2. Total(1 .. 0, ColumnInWork') % (U64Max + 1) = 0
      BY EmptySum
    <3>3. 0 \in Word /\ 0 \in 0 .. Len(ColumnInWork')
      BY <2>2, <2>3, Modulus DEF Word
    <3>4. result' = Pending' /\ AggregateError(Aggregates(orders')) = NoError
      BY <1>1, <1>3, <2>1 DEF Pending
    <3> QED
      BY <3>1, <3>2, <3>3, <3>4 DEF InWork
  <2>5. Inv'
    BY <1>1, <2>1, <2>4, FreshColumn DEF Inv
  <2> QED
    BY <1>1, <2>1, <2>5 DEF PlainStep
<1>4. CASE AggregateError(a) # NoError
  <2>1. matrix' = matrix /\ result' = MatchError(AggregateError(a))
    BY <1>4 DEF Aggregate
  <2>2. result' = MatchBatch(orders)
    BY <1>4, <2>1 DEF MatchBatch
  <2>3. Plain!MatchOrders
    BY <1>1, <2>2, PlainMatch DEF Plain!MatchOrders, Plain!Pending, Plain!MatchError, Pending, MatchError
  <2>4. Inv'
    BY <1>1, <1>2, <2>1 DEF Inv, IdleMatrix
  <2> QED
    BY <2>3, <2>4 DEF PlainStep, Plain!Next
<1> QED
  BY <1>3, <1>4

LEMMA WorkingColumn ==
  ASSUME Inv, InWork
  PROVE  /\ Len(ColumnInWork) \in Nat /\ ColumnInWork \in Columns(Len(ColumnInWork))
         /\ \A i \in 1 .. Len(ColumnInWork) : ColumnInWork[i] \in Word
         /\ matrix.folded = Len(ColumnInWork) => Reveal(matrix.sums) = BlindedSum(ColumnInWork)
<1>1. ColumnInWork = Aggregates(orders).yes \/ ColumnInWork = Aggregates(orders).no
  BY DEF ColumnInWork
<1>2. /\ Len(ColumnInWork) \in Nat /\ ColumnInWork \in Columns(Len(ColumnInWork))
      /\ \A i \in 1 .. Len(ColumnInWork) : ColumnInWork[i] \in Word
      /\ BlindedSum(ColumnInWork) = Total(1 .. Len(ColumnInWork), ColumnInWork) % (U64Max + 1)
  BY <1>1, CheckedColumn DEF Inv, InWork
<1> QED
  BY <1>2 DEF InWork

LEMMA FoldStep ==
  ASSUME Inv, FoldShares
  PROVE  Inv' /\ PlainStep
<1> DEFINE col == ColumnInWork
           k == matrix.folded
           secret == col[k + 1]
           m == U64Max + 1
<1>1. InWork
  BY DEF FoldShares, Inv, IdleMatrix
<1>2. /\ k < Len(col) /\ orders' = orders /\ nodes' = nodes
      /\ nodes \in Nat \ {0} /\ orders \in OrderSeq(Users) /\ DOMAIN matrix = Fields
  BY DEF FoldShares, Inv
<1>3. /\ Len(col) \in Nat /\ col \in Columns(Len(col)) /\ \A i \in 1 .. Len(col) : col[i] \in Word
      /\ k \in 0 .. Len(col)
  BY <1>1, WorkingColumn DEF InWork
<1>4. k + 1 \in 1 .. Len(col) /\ secret \in Word
  BY <1>2, <1>3
<1>5. PICK blinds \in Blinds(nodes) :
        LET shares == Split(secret, nodes, blinds)
        IN  IF FitsAccumulator(matrix.sums, shares)
            THEN /\ matrix' = [matrix EXCEPT !.folded = @ + 1, !.sums = AddShares(@, shares)]
                 /\ UNCHANGED result
            ELSE /\ result' = MatchError("InvalidShareSet")
                 /\ matrix' = IdleMatrix
  BY DEF FoldShares
<1> DEFINE shares == Split(secret, nodes, blinds)
           sums == AddShares(matrix.sums, shares)
<1>6. shares \in ShareVectors(nodes) /\ WrappingSum(shares) = secret
  <2> HIDE DEF secret
  <2> QED
    BY <1>2, <1>4, SplitSums
<1>7. matrix.sums \in ShareVectors(nodes)
  BY <1>1 DEF InWork
<1>8. FitsAccumulator(matrix.sums, shares)
  <2> HIDE DEF shares
  <2>1. DOMAIN shares = 1 .. nodes /\ DOMAIN matrix.sums = 1 .. nodes /\ 1 \in 1 .. nodes
    BY <1>2, <1>6, <1>7 DEF ShareVectors
  <2> QED
    BY <2>1 DEF FitsAccumulator
<1>9. /\ matrix' = [matrix EXCEPT !.folded = @ + 1, !.sums = AddShares(@, shares)]
      /\ result' = result
  BY <1>5, <1>8
<1>10. /\ DOMAIN matrix' = Fields /\ matrix'.stage = matrix.stage /\ matrix'.folded = k + 1
       /\ matrix'.sums = sums /\ matrix'.total_yes = matrix.total_yes
  <2> HIDE DEF shares
  <2> QED
    BY <1>2, <1>9 DEF Fields
<1>11. ColumnInWork' = col
  BY <1>2, <1>10 DEF ColumnInWork
<1>12. /\ sums \in ShareVectors(nodes)
       /\ Reveal(sums) = (Reveal(matrix.sums) + secret) % m
  <2> HIDE DEF shares, secret
  <2> QED
    BY <1>2, <1>6, <1>7, AddSums DEF Reveal
<1>13. Reveal(sums) = Total(1 .. k + 1, col) % m
  <2>1. Reveal(matrix.sums) = Total(1 .. k, col) % m
    BY <1>1 DEF InWork
  <2>2. Total(1 .. k, col) \in Nat /\ Total(1 .. k + 1, col) = Total(1 .. k, col) + secret
    <3> HIDE DEF k
    <3> QED
      BY <1>2, <1>3, PartialSum
  <2>3. PICK t, x \in Nat : t = Total(1 .. k, col) /\ x = secret
    BY <1>4, <2>2, Modulus DEF Word
  <2>4. ((t % m) + x) % m = (t + x) % m
    <3>1. ASSUME NEW n \in Nat \ {0} PROVE ((t % n) + x) % n = (t + x) % n
      BY ReducedSum
    <3> QED
      BY <3>1, Modulus
  <2> QED
    BY <1>12, <2>1, <2>2, <2>3, <2>4
<1>14. InWork'
  <2>1. matrix'.folded \in 0 .. Len(ColumnInWork')
    BY <1>3, <1>4, <1>10, <1>11
  <2>2. Reveal(matrix'.sums) = Total(1 .. matrix'.folded, ColumnInWork') % m
    BY <1>10, <1>11, <1>13
  <2>3. matrix'.sums \in ShareVectors(nodes')
    BY <1>2, <1>10, <1>12
  <2>4. /\ matrix'.stage \in {"yes", "no"} /\ result' = Pending'
        /\ AggregateError(Aggregates(orders')) = NoError
        /\ matrix'.total_yes \in Word
        /\ matrix'.stage = "no" => matrix'.total_yes = BlindedSum(Aggregates(orders').yes)
    BY <1>1, <1>2, <1>9, <1>10 DEF InWork, Pending
  <2> HIDE DEF col, k, secret, shares, sums
  <2> QED
    BY <2>1, <2>2, <2>3, <2>4 DEF InWork
<1>15. Inv'
  BY <1>2, <1>10, <1>14 DEF Inv
<1> QED
  BY <1>2, <1>9, <1>15 DEF PlainStep

LEMMA RevealYesStep ==
  ASSUME Inv, RevealYes
  PROVE  Inv' /\ PlainStep
<1> DEFINE a == Aggregates(orders)
<1>1. /\ matrix.stage = "yes" /\ matrix.folded = Len(ColumnInWork)
      /\ matrix' = NewColumn("no", Reveal(matrix.sums))
      /\ orders' = orders /\ result' = result /\ nodes' = nodes
      /\ nodes \in Nat \ {0} /\ orders \in OrderSeq(Users)
  BY DEF RevealYes, Inv
<1>2. InWork
  BY <1>1 DEF Inv, IdleMatrix
<1>3. ColumnInWork = a.yes
  BY <1>1 DEF ColumnInWork
<1>4. Reveal(matrix.sums) = BlindedSum(a.yes) /\ Reveal(matrix.sums) \in Word
  <2>1. Reveal(matrix.sums) = BlindedSum(a.yes)
    BY <1>1, <1>2, <1>3, WorkingColumn
  <2>2. matrix.sums \in ShareVectors(nodes)
    BY <1>2 DEF InWork
  <2> QED
    BY <1>1, <2>1, <2>2, WordSum DEF Reveal
<1>5. /\ DOMAIN matrix' = Fields /\ matrix'.stage = "no" /\ matrix'.folded = 0
      /\ matrix'.total_yes = Reveal(matrix.sums)
      /\ matrix'.sums \in ShareVectors(nodes') /\ Reveal(matrix'.sums) = 0
  BY <1>1, FreshColumn
<1>6. ColumnInWork' = a.no
  BY <1>1, <1>5 DEF ColumnInWork
<1>7. AggregateError(a) = NoError /\ result = Pending
  BY <1>2 DEF InWork
<1>8. Len(a.no) \in Nat
  BY <1>1, <1>7, CheckedColumn
<1>9. InWork'
  <2>1. Total(1 .. 0, ColumnInWork') % (U64Max + 1) = 0
    BY EmptySum
  <2>2. 0 \in 0 .. Len(ColumnInWork')
    BY <1>6, <1>8
  <2>3. result' = Pending' /\ AggregateError(Aggregates(orders')) = NoError
    BY <1>1, <1>7 DEF Pending
  <2> QED
    BY <1>1, <1>4, <1>5, <2>1, <2>2, <2>3 DEF InWork
<1>10. Inv'
  BY <1>1, <1>5, <1>9 DEF Inv
<1> QED
  BY <1>1, <1>10 DEF PlainStep

LEMMA RevealNoStep ==
  ASSUME Inv, RevealNo
  PROVE  Inv' /\ PlainStep
<1> DEFINE a == Aggregates(orders)
<1>1. /\ matrix.stage = "no" /\ matrix.folded = Len(ColumnInWork)
      /\ result' = MatchRevealed(a, matrix.total_yes, Reveal(matrix.sums))
      /\ matrix' = IdleMatrix
      /\ orders' = orders /\ nodes' = nodes
      /\ nodes \in Nat \ {0} /\ orders \in OrderSeq(Users)
  BY DEF RevealNo, Inv
<1>2. InWork
  BY <1>1 DEF Inv, IdleMatrix
<1>3. ColumnInWork = a.no
  BY <1>1 DEF ColumnInWork
<1>4. Reveal(matrix.sums) = BlindedSum(a.no) /\ matrix.total_yes = BlindedSum(a.yes)
  BY <1>1, <1>2, <1>3, WorkingColumn DEF InWork
<1>5. AggregateError(a) = NoError /\ result = Pending
  BY <1>2 DEF InWork
<1>6. result' = MatchBatch(orders)
  BY <1>1, <1>4, <1>5 DEF MatchBatch
<1>7. Plain!MatchOrders
  BY <1>1, <1>5, <1>6, PlainMatch DEF Plain!MatchOrders, Plain!Pending, Plain!MatchError, Pending, MatchError
<1>8. DOMAIN IdleMatrix = Fields
  BY DEF IdleMatrix, Fields
<1>9. Inv'
  BY <1>1, <1>8 DEF Inv, IdleMatrix
<1> QED
  BY <1>7, <1>9 DEF PlainStep, Plain!Next

LEMMA InvNext == Inv /\ [EngineNext]_engineVars => Inv' /\ PlainStep
<1> SUFFICES ASSUME Inv, [EngineNext]_engineVars PROVE Inv' /\ PlainStep
  OBVIOUS
<1>1. CASE UNCHANGED engineVars
  <2>1. orders' = orders /\ result' = result /\ nodes' = nodes /\ matrix' = matrix
    BY <1>1 DEF engineVars
  <2>2. ColumnInWork' = ColumnInWork
    BY <2>1 DEF ColumnInWork
  <2> QED
    BY <2>1, <2>2 DEF Inv, InWork, IdleMatrix, Pending, PlainStep
<1> QED
  BY <1>1, OpenStep, FailStep, AggregateStep, FoldStep, RevealYesStep, RevealNoStep DEF EngineNext

-----------------------------------------------------------------------------
(* In every reachable state a column is in work only before the result and  *)
(* after its checks, and what is folded in is what the sums hold.           *)
THEOREM MatrixInvariant == EngineSpec => []Inv
  BY InvInit, InvNext, PTL DEF EngineSpec

(* EngineTypeOK: the accumulators hold words, one for each node.            *)
THEOREM MatrixIsTyped == EngineSpec => []EngineTypeOK
<1>1. Inv => EngineTypeOK
  <2> SUFFICES ASSUME Inv PROVE EngineTypeOK
    OBVIOUS
  <2>1. CASE matrix = IdleMatrix
    BY <2>1, Modulus DEF Inv, EngineTypeOK, IdleMatrix, Word
  <2>2. CASE InWork
    <3>1. Len(ColumnInWork) \in Nat
      BY <2>2, WorkingColumn
    <3> QED
      BY <2>2, <3>1 DEF Inv, InWork, EngineTypeOK, ShareVectors
  <2> QED
    BY <2>1, <2>2 DEF Inv
<1> QED
  BY <1>1, MatrixInvariant, PTL

(* SumsAreShared: the sums of the nodes reveal exactly what was folded in,  *)
(* for any number of nodes and any blinds.                                  *)
THEOREM SharesReveal == EngineSpec => []SumsAreShared
<1>1. Inv => SumsAreShared
  BY DEF Inv, InWork, IdleMatrix, SumsAreShared
<1> QED
  BY <1>1, MatrixInvariant, PTL

(* ImplementsEpoch: the node matrix implements the plain engine.            *)
THEOREM MatrixIsEpoch == EngineSpec => ImplementsEpoch
<1>1. EngineInit => Plain!Init
  BY DEF EngineInit, Plain!Init, Plain!Pending, Plain!MatchError, Pending, MatchError
<1>2. Inv /\ [EngineNext]_engineVars => [Plain!Next]_(Plain!vars)
  BY InvNext DEF PlainStep, Plain!vars
<1> QED
  BY <1>1, <1>2, MatrixInvariant, PTL DEF EngineSpec, ImplementsEpoch, Plain!Spec

(***************************************************************************)
(* From the engine to the program.                                          *)
(***************************************************************************)

LEMMA ProgramTotal ==
  ASSUME NEW S, NEW f
  PROVE  Program!Total(S, f) = Total(S, f)
BY DEF Program!Total, Program!Units, Total, Units, Program!Cardinality, Cardinality,
       Program!IsFiniteSet, IsFiniteSet

(* The frame of a match on the wire, slot by slot. *)
LEMMA WireSlots ==
  ASSUME NEW n, NEW res, NEW V, Listing(n, res, V),
         NEW fr, fr = WireFrame(Market, Epoch, res)
  PROVE  /\ fr.market = Market /\ fr.epoch = Epoch /\ fr.stray = 0
         /\ fr.direction = res.direction /\ fr.net_imbalance = res.net_imbalance
         /\ fr.fill_count = n /\ Len(fr.fills) = n
         /\ \A i \in 1 .. n : fr.fills[i].user = res.users[i] /\ fr.fills[i].amounts = res.fills[i]
<1> DEFINE slot(i) == [user |-> res.users[i], amounts |-> res.fills[i]]
           S == {slot(i) : i \in 1 .. n}
           slots == [i \in 1 .. n |-> slot(i)]
<1>1. n \in Nat /\ DOMAIN res.fills = 1 .. n /\ Len(res.fills) = n
  BY DEF Listing
<1>2. fr = [market |-> Market, epoch |-> Epoch, direction |-> res.direction,
            net_imbalance |-> res.net_imbalance, fill_count |-> n, fills |-> slots, stray |-> 0]
  BY <1>1 DEF WireFrame
<1>3. Len(slots) = n
  <2>1. slots \in [1 .. n -> S]
    OBVIOUS
  <2> HIDE DEF slots, S
  <2> QED
    BY <1>1, <2>1, LenOfNumbered
<1>4. \A i \in 1 .. n : slots[i].user = res.users[i] /\ slots[i].amounts = res.fills[i]
  OBVIOUS
<1> HIDE DEF slots
<1>5. fr.fills = slots
  BY <1>2
<1>6. /\ fr.market = Market /\ fr.epoch = Epoch /\ fr.stray = 0
      /\ fr.direction = res.direction /\ fr.net_imbalance = res.net_imbalance
      /\ fr.fill_count = n
  BY <1>2
<1> QED
  BY <1>3, <1>4, <1>5, <1>6

(* The program executes the wire's frame as build_frame means it, if the    *)
(* account of each slot is its user's.                                      *)
LEMMA ExecutedFrame ==
  ASSUME NEW n, NEW res, NEW V, Listing(n, res, V),
         NEW tx, tx.frame = WireFrame(Market, Epoch, res), WellFormed(Market, tx)
  PROVE  OnAccounts(Users, tx) = BuildFrame(Users, Epoch, res)
<1> DEFINE owner(i) == tx.positions[i].owner
           slot(u) == CHOOSE i \in 1 .. n : owner(i) = u
           fill(u) == CHOOSE i \in DOMAIN res.users : res.users[i] = u
           executed == [u \in Users |-> IF u \in {owner(i) : i \in 1 .. n}
                                        THEN tx.frame.fills[slot(u)].amounts ELSE NoFill]
           built == [u \in Users |-> IF u \in {res.users[i] : i \in DOMAIN res.users}
                                     THEN res.fills[fill(u)] ELSE NoFill]
<1>1. /\ tx.frame.epoch = Epoch /\ tx.frame.direction = res.direction
      /\ tx.frame.net_imbalance = res.net_imbalance /\ tx.frame.fill_count = n
      /\ \A i \in 1 .. n : /\ tx.frame.fills[i].user = res.users[i]
                           /\ tx.frame.fills[i].amounts = res.fills[i]
  BY WireSlots
<1>2. DOMAIN res.users = 1 .. n
  BY DEF Listing
<1>3. \A i \in 1 .. n : owner(i) = res.users[i]
  <2>1. \A i \in 1 .. n : tx.positions[i] = PositionPda(Market, res.users[i])
    <3>1. \A i \in 1 .. tx.frame.fill_count :
            tx.positions[i] = PositionPda(Market, tx.frame.fills[i].user)
      BY DEF WellFormed, PositionsMatch
    <3> QED
      BY <1>1, <3>1
  <2>2. \A u : PositionPda(Market, u).owner = u
    BY DEF PositionPda
  <2> QED
    BY <2>1, <2>2
<1>4. {owner(i) : i \in 1 .. n} = {res.users[i] : i \in DOMAIN res.users}
  BY <1>2, <1>3
<1>5. ASSUME NEW u \in {owner(i) : i \in 1 .. n}
      PROVE  tx.frame.fills[slot(u)].amounts = res.fills[fill(u)]
  <2>1. slot(u) \in 1 .. n /\ owner(slot(u)) = u
    <3>1. \E i \in 1 .. n : owner(i) = u
      OBVIOUS
    <3> QED
      BY <3>1
  <2>2. fill(u) \in 1 .. n /\ res.users[fill(u)] = u
    <3>1. \E i \in DOMAIN res.users : res.users[i] = u
      BY <1>2, <1>3
    <3> QED
      BY <1>2, <3>1
  <2>3. \A i, j \in 1 .. n : res.users[i] = res.users[j] => i = j
    BY <1>2 DEF Listing, Bijection, Injection, IsInjective
  <2> HIDE DEF slot, fill, owner
  <2>4. slot(u) = fill(u)
    BY <1>3, <2>1, <2>2, <2>3
  <2> QED
    BY <1>1, <2>1, <2>4
<1>6. executed = built
  <2> HIDE DEF slot, fill, owner
  <2> QED
    BY <1>4, <1>5
<1>7. OnAccounts(Users, tx) =
        [epoch |-> Epoch, direction |-> res.direction, net_imbalance |-> res.net_imbalance,
         users |-> {owner(i) : i \in 1 .. n}, fills |-> executed]
  BY <1>1 DEF OnAccounts
<1>8. BuildFrame(Users, Epoch, res) =
        [epoch |-> Epoch, direction |-> res.direction, net_imbalance |-> res.net_imbalance,
         users |-> {res.users[i] : i \in DOMAIN res.users}, fills |-> built]
  BY DEF BuildFrame
<1> HIDE DEF executed, built
<1> QED
  BY <1>4, <1>6, <1>7, <1>8

(* The accounts of relay.rs are those that the program looks for. *)
LEMMA BuiltAccounts ==
  ASSUME NEW n, NEW res, NEW V, Listing(n, res, V),
         NEW tx, tx.frame = WireFrame(Market, Epoch, res), tx.positions = Positions(Market, res)
  PROVE  WellFormed(Market, tx) /\ Len(tx.frame.fills) <= MAX_FILLS
<1> DEFINE pda(i) == PositionPda(Market, res.users[i])
           S == {pda(i) : i \in 1 .. n}
<1>1. n \in Nat /\ n <= MAX_FILLS /\ DOMAIN res.users = 1 .. n
  BY DEF Listing
<1>2. /\ tx.frame.market = Market /\ tx.frame.stray = 0
      /\ tx.frame.fill_count = n /\ Len(tx.frame.fills) = n
      /\ \A i \in 1 .. n : tx.frame.fills[i].user = res.users[i]
  BY WireSlots
<1>3. tx.positions = [i \in 1 .. n |-> pda(i)]
  BY <1>1 DEF Positions, FillOwners
<1>4. Len(tx.positions) = n /\ \A i \in 1 .. n : tx.positions[i] = pda(i)
  <2>1. tx.positions \in [1 .. n -> S]
    BY <1>3
  <2>2. \A i \in 1 .. n : tx.positions[i] = pda(i)
    BY <1>3
  <2> HIDE DEF S
  <2> QED
    BY <1>1, <2>1, <2>2, LenOfNumbered
<1>5. PositionsMatch(Market, tx)
  <2>1. Len(tx.positions) >= tx.frame.fill_count
    BY <1>1, <1>2, <1>4
  <2>2. \A i \in 1 .. tx.frame.fill_count :
          tx.positions[i] = PositionPda(Market, tx.frame.fills[i].user)
    BY <1>2, <1>4
  <2> QED
    BY <2>1, <2>2 DEF PositionsMatch
<1>6. ValidFrameLen(tx.frame)
  BY <1>2 DEF ValidFrameLen
<1> QED
  BY <1>1, <1>2, <1>5, <1>6 DEF WellFormed

FrameSet ==
  [epoch : Nat, direction : Nat, net_imbalance : Nat,
   users : SUBSET Users, fills : [Users -> UserFill]]

Economics(f) ==
  /\ f.direction \in Directions
  /\ FrameTotal(Users, f, "p2p_yes") = FrameTotal(Users, f, "p2p_no")
  /\ IF f.direction = DIRECTION_YES_HEAVY
     THEN /\ FrameTotal(Users, f, "residual_no") = 0
          /\ FrameTotal(Users, f, "residual_yes") = f.net_imbalance
     ELSE /\ FrameTotal(Users, f, "residual_yes") = 0
          /\ FrameTotal(Users, f, "residual_no") = f.net_imbalance

LEMMA ProgramColumns ==
  ASSUME NEW f
  PROVE  /\ Program!P2pYes(f) = FrameColumn(Users, f, "p2p_yes")
         /\ Program!P2pNo(f) = FrameColumn(Users, f, "p2p_no")
         /\ Program!ResidualYes(f) = FrameColumn(Users, f, "residual_yes")
         /\ Program!ResidualNo(f) = FrameColumn(Users, f, "residual_no")
         /\ \A g : Program!UserTotal(g) = Total(Users, g)
BY ProgramTotal DEF Program!P2pYes, Program!P2pNo, Program!ResidualYes, Program!ResidualNo,
                    Program!UserTotal, FrameColumn

(* The program's checks of a frame, in terms of its columns. *)
LEMMA ProgramEconomics ==
  ASSUME NEW f, Economics(f)
  PROVE  Program!EconomicsMatch(f) /\ Program!CrossedInPairs(f)
<1>1. Program!IsYesHeavy(f) <=> f.direction = DIRECTION_YES_HEAVY
  BY DEF Program!IsYesHeavy, Program!DIRECTION_YES_HEAVY, DIRECTION_YES_HEAVY
<1>2. f.direction \in Program!Directions
  BY DEF Economics, Directions, Program!Directions, DIRECTION_YES_HEAVY, DIRECTION_NO_HEAVY,
         Program!DIRECTION_YES_HEAVY, Program!DIRECTION_NO_HEAVY
<1>3. Program!CrossedInPairs(f)
  BY ProgramColumns DEF Program!CrossedInPairs, Economics, FrameTotal
<1>4. Program!LightSideEmpty(f) /\ Program!HeavySideMatchesHeader(f)
  BY <1>1, ProgramColumns
     DEF Program!LightSideEmpty, Program!HeavySideMatchesHeader, Economics, FrameTotal
<1> QED
  BY <1>2, <1>3, <1>4 DEF Program!EconomicsMatch

(* A fill whose amounts are numbers. *)
LEMMA TypedFill ==
  ASSUME NEW fill, IsFill(fill) \/ fill = NoFill, \A c \in FillNames : fill[c] \in Nat
  PROVE  fill \in UserFill
<1>1. /\ fill["p2p_yes"] \in Nat /\ fill["p2p_no"] \in Nat
      /\ fill["residual_yes"] \in Nat /\ fill["residual_no"] \in Nat
  BY DEF FillNames
<1> QED
  BY <1>1 DEF IsFill, Fill, NoFill, UserFill

(* The engine's frame, if no total wraps. *)
LEMMA EngineFrame ==
  ASSUME NEW os \in OrderSeq(Users), NEW res, res = MatchBatch(os), res.ok,
         FitsU64(Total(Users, Demands(Users, os, Yes))),
         FitsU64(Total(Users, Demands(Users, os, No))),
         NEW f, f = BuildFrame(Users, Epoch, res)
  PROVE  Economics(f) /\ f \in FrameSet /\ \A u \in Users \ f.users : f.fills[u] = NoFill
<1> DEFINE n == Len(res.users)
           V == OwnersOf(os)
<1>1. IsFiniteSet(Users) /\ Epoch \in Nat
  BY BlobsAssumption, PipelineAssumption
<1>2. /\ res.direction \in Directions
      /\ \A c \in FillNames : FrameColumn(Users, f, c) \in [Users -> Nat]
      /\ FrameTotal(Users, f, "p2p_yes") = FrameTotal(Users, f, "p2p_no")
      /\ IF res.direction = DIRECTION_YES_HEAVY
         THEN /\ FrameTotal(Users, f, "residual_no") = 0
              /\ FrameTotal(Users, f, "residual_yes") = res.net_imbalance
         ELSE /\ FrameTotal(Users, f, "residual_yes") = 0
              /\ FrameTotal(Users, f, "residual_no") = res.net_imbalance
  BY <1>1, MatchedFrame
<1>3. Listing(n, res, V)
  BY <1>1, MatchListing
<1>4. V \in SUBSET Users
  BY OrderTypes DEF OwnersOf
<1>5. n \in Nat /\ res.users \in Bijection(1 .. n, V) /\ \A i \in 1 .. n : IsFill(res.fills[i])
  BY <1>3 DEF Listing
<1> HIDE DEF n, V
<1>6. /\ \A i \in 1 .. n : f.fills[res.users[i]] = res.fills[i]
      /\ \A u \in Users \ V : f.fills[u] = NoFill
      /\ f.users = V
  BY <1>4, <1>5, FrameFill
<1>7. /\ f.epoch = Epoch /\ f.direction = res.direction /\ f.net_imbalance = res.net_imbalance
      /\ f = [epoch |-> f.epoch, direction |-> f.direction, net_imbalance |-> f.net_imbalance,
              users |-> f.users, fills |-> f.fills]
      /\ f.fills = [u \in Users |-> f.fills[u]]
  BY DEF BuildFrame
<1>8. Economics(f)
  BY <1>2, <1>7 DEF Economics
<1>9. f.net_imbalance \in Nat
  <2>1. \A c \in FillNames : FrameTotal(Users, f, c) \in Nat
    BY <1>1, <1>2, TotalType DEF FrameTotal
  <2>2. "residual_yes" \in FillNames /\ "residual_no" \in FillNames
    BY DEF FillNames
  <2> QED
    BY <1>2, <1>7, <2>1, <2>2
<1>10. ASSUME NEW u \in Users
       PROVE  f.fills[u] \in UserFill
  <2>1. \A c \in FillNames : f.fills[u][c] \in Nat
    <3>1. \A c \in FillNames : FrameColumn(Users, f, c)[u] \in Nat
      BY <1>2
    <3>2. \A c : FrameColumn(Users, f, c)[u] = f.fills[u][c]
      BY DEF FrameColumn
    <3> QED
      BY <3>1, <3>2
  <2>2. IsFill(f.fills[u]) \/ f.fills[u] = NoFill
    <3>1. CASE u \in V
      <4>1. PICK i \in 1 .. n : res.users[i] = u
        BY <1>5, <3>1 DEF Bijection, Surjection
      <4> QED
        BY <1>5, <1>6, <4>1
    <3> QED
      BY <1>6, <3>1
  <2> QED
    BY <2>1, <2>2, TypedFill
<1>11. f.direction \in Nat
  BY <1>2, <1>7 DEF Directions, DIRECTION_YES_HEAVY, DIRECTION_NO_HEAVY
<1>12. f \in FrameSet
  <2>1. f.fills \in [Users -> UserFill]
    BY <1>7, <1>10
  <2> QED
    BY <1>1, <1>4, <1>6, <1>7, <1>9, <1>11, <2>1 DEF FrameSet
<1> QED
  BY <1>6, <1>8, <1>12

(***************************************************************************)
(* Signatures.                                                              *)
(***************************************************************************)

LEMMA CommitteeSize ==
  /\ Threshold \in Nat /\ Threshold >= 1
  /\ DOMAIN Members = 1 .. Len(Members) /\ Len(Members) \in Nat
  /\ 1 .. Threshold \subseteq DOMAIN Members
<1> DEFINE l == Len(Members)
<1>1. /\ l \in 1 .. MAX_COMMITTEE /\ Threshold \in 1 .. l
      /\ DOMAIN Members = 1 .. l /\ MAX_COMMITTEE \in Nat
  BY PipelineAssumption, CommitteeAssumption DEF ValidCommittee
<1> HIDE DEF l
<1>2. /\ Threshold \in Nat /\ Threshold >= 1 /\ l \in Nat
      /\ DOMAIN Members = 1 .. l /\ 1 .. Threshold \subseteq DOMAIN Members
  BY <1>1
<1> QED
  BY <1>2 DEF l

(* The records that verify_committee reads of a list of n: those contained  *)
(* in themselves, each once.                                                *)
Within(tx) == {i \in DOMAIN tx.precompiles : tx.precompiles[i].within}

Records(tx, c, sigs) ==
  /\ c \in Nat /\ DOMAIN sigs = 1 .. c
  /\ \A k \in 1 .. c : /\ Nth(Within(tx), k) \in Within(tx)
                       /\ sigs[k] = tx.precompiles[Nth(Within(tx), k)]
  /\ \A i \in Within(tx) : \E k \in 1 .. c : sigs[k] = tx.precompiles[i]

LEMMA RecordsRead ==
  ASSUME NEW n \in Nat, NEW tx, DOMAIN tx.precompiles = 1 .. n
  PROVE  Records(tx, Cardinality(Within(tx)), SignaturesOf(tx))
<1> DEFINE W == Within(tx)
           c == Cardinality(Within(tx))
           sigs == SignaturesOf(tx)
<1>1. sigs = [k \in 1 .. Cardinality(W) |-> tx.precompiles[Nth(W, k)]]
  BY DEF SignaturesOf, Within
<1>2. W \in SUBSET Nat /\ IsFiniteSet(W)
  <2>1. W \subseteq 1 .. n
    BY DEF Within
  <2>2. IsFiniteSet(1 .. n)
    BY FS_Interval
  <2> HIDE DEF W
  <2>3. IsFiniteSet(W)
    BY <2>1, <2>2, FS_Subset
  <2> QED
    BY <2>1, <2>3
<1> HIDE DEF W
<1>3. /\ Cardinality(W) \in Nat
      /\ \A k \in 1 .. Cardinality(W) : Nth(W, k) \in W
      /\ \A i \in W : \E k \in 1 .. Cardinality(W) : Nth(W, k) = i
  BY <1>2, NthNumbers
<1>4. c = Cardinality(W)
  BY DEF W
<1> HIDE DEF c, sigs
<1>5. DOMAIN sigs = 1 .. c /\ \A k \in 1 .. c : sigs[k] = tx.precompiles[Nth(W, k)]
  BY <1>1, <1>4
<1>6. \A i \in W : \E k \in 1 .. c : sigs[k] = tx.precompiles[i]
  BY <1>3, <1>4, <1>5
<1>7. Records(tx, c, sigs)
  BY <1>3, <1>4, <1>5, <1>6 DEF W, Records
<1> QED
  BY <1>7 DEF c, sigs

(* If all the signatures of a transaction are over one message, its frame   *)
(* is that message or the committee's check refuses it.                     *)
LEMMA VerifiedMessage ==
  ASSUME NEW n \in Nat, NEW tx, DOMAIN tx.precompiles = 1 .. n, NEW m,
         \A i \in 1 .. n : tx.precompiles[i].message = m,
         Authenticated(Members, Threshold, tx)
  PROVE  tx.frame = m
<1> SUFFICES ASSUME tx.frame # m PROVE FALSE
  OBVIOUS
<1> DEFINE c == Cardinality(Within(tx))
           sigs == SignaturesOf(tx)
           mask == SignerMask(Members, tx.frame, sigs)
<1>1. DOMAIN sigs = 1 .. c /\ \A k \in 1 .. c : sigs[k].message = m
  <2>1. Records(tx, c, sigs)
    BY RecordsRead
  <2>2. \A i \in Within(tx) : i \in 1 .. n
    BY DEF Within
  <2> HIDE DEF sigs, c
  <2>3. DOMAIN sigs = 1 .. c
    BY <2>1 DEF Records
  <2>4. ASSUME NEW k \in 1 .. c
        PROVE  sigs[k].message = m
    <3>1. Nth(Within(tx), k) \in Within(tx) /\ sigs[k] = tx.precompiles[Nth(Within(tx), k)]
      BY <2>1 DEF Records
    <3>2. PICK i \in 1 .. n : sigs[k] = tx.precompiles[i]
      BY <2>2, <3>1
    <3> QED
      BY <3>2
  <2> QED
    BY <2>3, <2>4
<1> HIDE DEF sigs, c
<1>2. {k \in DOMAIN sigs : Counts(Members, tx.frame, sigs[k])} = {}
  BY <1>1 DEF Counts
<1>3. mask = {}
  BY <1>2 DEF SignerMask
<1>4. Cardinality(mask) >= Threshold
  BY DEF Authenticated, VerifyCommittee, sigs
<1> QED
  BY <1>3, <1>4, CommitteeSize, FS_EmptySet

LEMMA IndexOfKey ==
  ASSUME Distinct(Members), NEW i \in 1 .. Threshold
  PROVE  IndexOf(Members, Members[i]) = i
<1> DEFINE IsFirst(k) == Members[k] = Members[i] /\ \A j \in 1 .. k - 1 : Members[j] # Members[i]
<1>1. i \in DOMAIN Members /\ DOMAIN Members = 1 .. Len(Members) /\ Len(Members) \in Nat
  BY CommitteeSize
<1>2. ASSUME NEW j \in 1 .. i - 1
      PROVE  Members[j] # Members[i]
  <2>1. j \in DOMAIN Members /\ j # i
    BY <1>1
  <2> QED
    BY <1>1, <2>1 DEF Distinct
<1>3. IsFirst(i)
  BY <1>2
<1>4. \A k \in DOMAIN Members : IsFirst(k) => k = i
  BY <1>1 DEF Distinct
<1> QED
  BY <1>1, <1>3, <1>4 DEF IndexOf

(* What the engine's transaction carries, and that it is enough. *)
PrecompilesOver(frame) ==
  [i \in 1 .. Threshold |-> [key |-> Members[i], message |-> frame, within |-> TRUE]]

LEMMA BuiltSignatures ==
  ASSUME Distinct(Members), NEW frame,
         NEW tx, tx.frame = frame, tx.precompiles = PrecompilesOver(frame)
  PROVE  Authenticated(Members, Threshold, tx)
<1> DEFINE W == 1 .. Threshold
           sigs == SignaturesOf(tx)
           mask == SignerMask(Members, frame, sigs)
<1>1. Threshold \in Nat /\ Threshold >= 1 /\ W \subseteq DOMAIN Members
  BY CommitteeSize
<1>2. /\ DOMAIN tx.precompiles = W
      /\ \A i \in W : /\ tx.precompiles[i].key = Members[i]
                      /\ tx.precompiles[i].message = frame
                      /\ tx.precompiles[i].within
  BY DEF PrecompilesOver
<1>3. Within(tx) = W
  BY <1>2 DEF Within
<1>4. IsFiniteSet(W) /\ Cardinality(W) = Threshold
  BY <1>1, FS_Interval
<1>5. /\ DOMAIN sigs = 1 .. Threshold
      /\ \A k \in 1 .. Threshold : Nth(W, k) \in W /\ sigs[k] = tx.precompiles[Nth(W, k)]
      /\ \A i \in W : \E k \in 1 .. Threshold : sigs[k] = tx.precompiles[i]
  <2> DEFINE c == Cardinality(Within(tx))
  <2>1. c = Threshold
    BY <1>3, <1>4
  <2>2. DOMAIN tx.precompiles = 1 .. Threshold
    BY <1>2
  <2>3. Records(tx, c, sigs)
    BY <1>1, <2>2, RecordsRead
  <2> HIDE DEF c, sigs, W
  <2> QED
    BY <1>3, <2>1, <2>3 DEF Records
<1> HIDE DEF W, sigs
<1>6. \A k \in 1 .. Threshold : \E i \in W : sigs[k] = tx.precompiles[i]
  BY <1>5
<1>7. {k \in DOMAIN sigs : Counts(Members, frame, sigs[k])} = 1 .. Threshold
  <2>1. \A k \in 1 .. Threshold : Counts(Members, frame, sigs[k])
    <3>1. ASSUME NEW k \in 1 .. Threshold
          PROVE  Counts(Members, frame, sigs[k])
      <4>1. PICK i \in W : sigs[k] = tx.precompiles[i]
        BY <1>6
      <4>2. i \in DOMAIN Members /\ sigs[k].key = Members[i] /\ sigs[k].message = frame
        BY <1>1, <1>2, <4>1
      <4> QED
        BY <4>2 DEF Counts
    <3> QED
      BY <3>1
  <2> QED
    BY <1>5, <2>1
<1>8. \A i \in W : IndexOf(Members, tx.precompiles[i].key) = i
  BY <1>2, IndexOfKey DEF W
<1>9. mask = W
  <2>1. mask = {IndexOf(Members, sigs[k].key) : k \in 1 .. Threshold}
    BY <1>7 DEF SignerMask
  <2>2. \A k \in 1 .. Threshold : IndexOf(Members, sigs[k].key) \in W
    BY <1>6, <1>8
  <2>3. \A i \in W : \E k \in 1 .. Threshold : IndexOf(Members, sigs[k].key) = i
    BY <1>5, <1>8
  <2> HIDE DEF mask
  <2> QED
    BY <2>1, <2>2, <2>3
<1>10. sigs # <<>>
  <2>1. 1 \in DOMAIN sigs
    BY <1>1, <1>5
  <2>2. DOMAIN << >> = {}
    OBVIOUS
  <2> QED
    BY <2>1, <2>2
<1>11. Cardinality(mask) >= Threshold
  BY <1>1, <1>4, <1>9
<1> HIDE DEF mask
<1> QED
  BY <1>10, <1>11 DEF Authenticated, VerifyCommittee, sigs, mask

TxFields == {"trusted", "signer", "precompiles", "frame", "positions"}

(* What relay.rs builds. *)
LEMMA BuiltFields ==
  ASSUME NEW t \in Built
  PROVE  /\ DOMAIN t = TxFields
         /\ t.frame = WireFrame(Market, Epoch, result)
         /\ t.positions = Positions(Market, result)
         /\ \/ t.trusted = TRUE /\ t.signer = Authority
            \/ t.trusted = FALSE /\ t.precompiles = PrecompilesOver(t.frame)
<1> DEFINE fr == WireFrame(Market, Epoch, result)
<1>1. /\ batch.frame = fr /\ batch.result = result
      /\ batch.signatures = [i \in 1 .. Threshold |-> [key |-> Members[i], message |-> fr]]
  <2> HIDE DEF fr
  <2>1. SignThreshold(Members, Threshold, fr)
          = [i \in 1 .. Threshold |-> [key |-> Members[i], message |-> fr]]
    BY DEF SignThreshold, SignWith, ThresholdIndices
  <2> QED
    BY <2>1 DEF batch, SignedBatch, fr
<1> HIDE DEF fr
<1>2. CASE t = BuildTransaction(Market, batch)
  <2>1. t = [trusted |-> FALSE, signer |-> "relayer",
             precompiles |-> PrecompilesOver(fr),
             frame |-> fr, positions |-> Positions(Market, result)]
    <3>1. [i \in DOMAIN batch.signatures |-> Ed25519PrecompileIx(batch.signatures[i], fr)]
            = PrecompilesOver(fr)
      BY <1>1 DEF Ed25519PrecompileIx, PrecompilesOver
    <3> QED
      BY <1>1, <1>2, <3>1 DEF BuildTransaction
  <2> QED
    BY <2>1 DEF fr, TxFields
<1>3. CASE t = BuildTrustedTransaction(Market, Authority, batch)
  <2>1. t = [trusted |-> TRUE, signer |-> Authority, precompiles |-> <<>>,
             frame |-> fr, positions |-> Positions(Market, result)]
    BY <1>1, <1>3 DEF BuildTrustedTransaction
  <2> QED
    BY <2>1 DEF fr, TxFields
<1> QED
  BY <1>2, <1>3 DEF Built

(* However a transaction was put together: if its signatures are accepted,  *)
(* its frame is the one that the committee signed.                          *)
LEMMA SubmittedFrame ==
  ASSUME NEW tx \in Submitted, Signed(tx)
  PROVE  tx.frame = WireFrame(Market, Epoch, result)
<1> DEFINE m == WireFrame(Market, Epoch, result)
<1>1. PICK t \in Built : \/ tx = t \/ tx \in OtherAccounts(t) \/ tx \in OtherSigners(t)
                         \/ ~t.trusted /\ tx \in OtherFrames(t)
  BY DEF Submitted
<1>2. /\ DOMAIN t = TxFields /\ t.frame = m
      /\ t.trusted \in BOOLEAN
      /\ ~t.trusted => t.precompiles = PrecompilesOver(m)
  BY BuiltFields
<1> HIDE DEF m
<1>3. ASSUME tx \in OtherAccounts(t)
      PROVE  tx.frame = t.frame /\ tx.trusted = t.trusted /\ tx.precompiles = t.precompiles
  BY <1>2, <1>3 DEF OtherAccounts, TxFields
<1>4. ASSUME tx \in OtherSigners(t)
      PROVE  /\ tx.frame = t.frame /\ tx.trusted = t.trusted
             /\ \/ tx.precompiles = t.precompiles
                \/ tx.precompiles = SubSeq(t.precompiles, 1, Len(t.precompiles) - 1)
                \/ tx.precompiles = [i \in DOMAIN t.precompiles |-> t.precompiles[1]]
                \/ tx.precompiles = [i \in DOMAIN t.precompiles |->
                                       [t.precompiles[i] EXCEPT !.within = FALSE]]
  BY <1>2, <1>4 DEF OtherSigners, TxFields
<1>5. ASSUME tx \in OtherFrames(t)
      PROVE  tx.trusted = t.trusted /\ tx.precompiles = t.precompiles
  BY <1>2, <1>5 DEF OtherFrames, TxFields
<1>6. CASE t.trusted
  BY <1>1, <1>2, <1>3, <1>4, <1>6 DEF m
<1>7. CASE ~t.trusted
  <2> DEFINE p == t.precompiles
             q == tx.precompiles
  <2>1. Threshold \in Nat /\ Threshold >= 1
    BY CommitteeSize
  <2>2. /\ DOMAIN p = 1 .. Threshold
        /\ \A i \in 1 .. Threshold : /\ p[i].message = m
                                     /\ p[i] = [key |-> Members[i], message |-> m, within |-> TRUE]
    <3>1. p = PrecompilesOver(m)
      BY <1>2, <1>7
    <3> HIDE DEF p
    <3>2. /\ DOMAIN p = 1 .. Threshold
          /\ \A i \in 1 .. Threshold :
               p[i] = [key |-> Members[i], message |-> m, within |-> TRUE]
      BY <3>1 DEF PrecompilesOver
    <3> QED
      BY <3>2
  <2>3. Len(p) = Threshold
    <3> DEFINE record(i) == [key |-> Members[i], message |-> m, within |-> TRUE]
               S == {record(i) : i \in 1 .. Threshold}
    <3>1. PrecompilesOver(m) \in [1 .. Threshold -> S]
      BY DEF PrecompilesOver
    <3>2. p = PrecompilesOver(m)
      BY <1>2, <1>7
    <3> HIDE DEF S
    <3> QED
      BY <2>1, <3>1, <3>2, LenOfNumbered
  <2> HIDE DEF p
  <2>4. PICK n \in Nat : DOMAIN q = 1 .. n /\ \A i \in 1 .. n : q[i].message = m
    <3>1. \/ q = p \/ q = SubSeq(p, 1, Threshold - 1)
          \/ q = [i \in 1 .. Threshold |-> p[1]]
          \/ q = [i \in 1 .. Threshold |-> [p[i] EXCEPT !.within = FALSE]]
      BY <1>1, <1>3, <1>4, <1>5, <2>2, <2>3 DEF p
    <3>2. CASE q = SubSeq(p, 1, Threshold - 1)
      <4> DEFINE k == Threshold - 1
                 S == {p[i] : i \in 1 .. Threshold}
      <4>1. 1 \in Int /\ k \in Int /\ k \in Nat /\ \A i \in 1 .. k : i \in 1 .. Threshold /\ p[i] \in S
        BY <2>1
      <4>2. k - 1 + 1 = k /\ (1 <= k \/ k = 0) /\ \A i \in 1 .. k : 1 + i - 1 = i
        BY <2>1
      <4> HIDE DEF k, S
      <4>3. /\ SubSeq(p, 1, k) \in Seq(S)
            /\ Len(SubSeq(p, 1, k)) = IF 1 <= k THEN k - 1 + 1 ELSE 0
            /\ \A i \in 1 .. k - 1 + 1 : SubSeq(p, 1, k)[i] = p[1 + i - 1]
        BY <4>1, SubSeqProperties
      <4>4. q \in Seq(S) /\ Len(q) = k /\ \A i \in 1 .. k : q[i] = p[i]
        BY <3>2, <4>1, <4>2, <4>3 DEF k
      <4>5. DOMAIN q = 1 .. k
        BY <4>4, LenProperties
      <4>6. \A i \in 1 .. k : q[i].message = m
        BY <2>2, <4>1, <4>4
      <4> QED
        BY <4>1, <4>5, <4>6
    <3>3. CASE q = p
      BY <2>1, <2>2, <3>3
    <3>4. CASE q = [i \in 1 .. Threshold |-> p[1]]
      BY <2>1, <2>2, <3>4
    <3>5. CASE q = [i \in 1 .. Threshold |-> [p[i] EXCEPT !.within = FALSE]]
      <4>1. \A i \in 1 .. Threshold : [p[i] EXCEPT !.within = FALSE].message = m
        BY <2>2
      <4> QED
        BY <2>1, <3>5, <4>1
    <3> QED
      BY <3>1, <3>2, <3>3, <3>4, <3>5
  <2>5. Authenticated(Members, Threshold, tx)
    BY <1>1, <1>3, <1>4, <1>5, <1>7 DEF Signed
  <2>6. tx.frame = m
    BY <2>4, <2>5, VerifiedMessage
  <2> QED
    BY <2>6 DEF m
<1> QED
  BY <1>2, <1>6, <1>7

(***************************************************************************)
(* The invariant of the engine and the program together.                    *)
(***************************************************************************)

Opens(blob, order) ==
  /\ blob.bytes.user = order.user /\ blob.bytes.qty = order.qty
  /\ blob.bytes.tag = (IF order.side = Yes THEN 0 ELSE 1)

(* The blobs are those of the orders; a result is the match of the orders.  *)
Mirrored ==
  /\ blobs \in Seq(Blobs) /\ Len(blobs) = Len(orders)
  /\ \A i \in 1 .. Len(orders) : Opens(blobs[i], orders[i])

Matched == result.ok => result = MatchBatch(orders)

LEMMA PendingIsNotOk == Pending.ok = FALSE /\ \A reason : MatchError(reason).ok = FALSE
  BY DEF Pending, MatchError

LEMMA MatchedStep ==
  ASSUME Inv, Matched, [EngineNext]_engineVars
  PROVE  Matched' /\ (result.ok => orders' = orders /\ result' = result)
<1>1. PlainStep
  BY InvNext
<1>2. CASE orders' = orders /\ result' = result
  BY <1>2 DEF Matched
<1>3. CASE Plain!Next
  <2>1. result = Pending /\ ~result.ok
    BY <1>3, PendingIsNotOk
       DEF Plain!Next, Plain!OpenOrder, Plain!FailToOpen, Plain!MatchOrders,
           Plain!Pending, Plain!MatchError, Pending, MatchError
  <2>2. \/ result' = result
        \/ \E reason : result' = MatchError(reason)
        \/ orders' = orders /\ result' = MatchBatch(orders)
    BY <1>3, PlainMatch
       DEF Plain!Next, Plain!OpenOrder, Plain!FailToOpen, Plain!MatchOrders,
           Plain!MatchError, MatchError
  <2> QED
    BY <2>1, <2>2, PendingIsNotOk DEF Matched
<1> QED
  BY <1>1, <1>2, <1>3 DEF PlainStep

LEMMA MirroredStep ==
  ASSUME Inv, Mirrored, [EngineNext]_engineVars
  PROVE  Mirrored' /\ (result.ok => blobs' = blobs)
<1>1. CASE \E blob \in Blobs : OpenOrder(blob)
  <2>1. PICK blob \in Blobs : OpenOrder(blob)
    BY <1>1
  <2> DEFINE order == OpenBlob(ClusterKey, blob).order
             o == [user |-> order.user, side |-> order.side, qty |-> order.qty]
             b == blob.bytes
             n == Len(orders)
  <2>2. /\ OpenBlob(ClusterKey, blob).ok /\ result = Pending
        /\ orders' = Append(orders, o) /\ blobs' = Append(blobs, blob)
    BY <2>1 DEF OpenOrder, Opening
  <2>3. OpenBlob(ClusterKey, blob) = FromBytes(b)
    BY <2>2, PendingIsNotOk DEF OpenBlob
  <2>4. /\ b.tag \in {0, 1}
        /\ FromBytes(b) = Opened([user |-> b.user, market |-> b.market,
                                  side |-> IF b.tag = 0 THEN Yes ELSE No, qty |-> b.qty])
    BY <2>2, <2>3, PendingIsNotOk DEF FromBytes
  <2>5. order = [user |-> b.user, market |-> b.market,
                 side |-> IF b.tag = 0 THEN Yes ELSE No, qty |-> b.qty]
    BY <2>3, <2>4 DEF Opened
  <2>6. Opens(blob, o)
    <3>1. o.user = b.user /\ o.qty = b.qty /\ o.side = IF b.tag = 0 THEN Yes ELSE No
      BY <2>5
    <3> HIDE DEF o
    <3> QED
      BY <2>4, <3>1 DEF Opens, Yes, No
  <2> HIDE DEF o
  <2>7. n \in Nat /\ orders \in Seq([user : Users, side : Sides, qty : Nat])
    BY LenProperties DEF Inv, OrderSeq
  <2>8. /\ Len(orders') = n + 1 /\ orders'[n + 1] = o
        /\ \A i \in 1 .. n : orders'[i] = orders[i]
    BY <2>2, <2>7
  <2>9. /\ blobs' \in Seq(Blobs) /\ Len(blobs') = n + 1 /\ blobs'[n + 1] = blob
        /\ \A i \in 1 .. n : blobs'[i] = blobs[i]
    BY <2>1, <2>2 DEF Mirrored
  <2>10. \A i \in 1 .. n + 1 : i \in 1 .. n \/ i = n + 1
    BY <2>7
  <2> HIDE DEF n
  <2>11. \A i \in 1 .. n + 1 : Opens(blobs'[i], orders'[i])
    <3>1. \A i \in 1 .. n : Opens(blobs[i], orders[i])
      BY DEF Mirrored, n
    <3> QED
      BY <2>6, <2>8, <2>9, <2>10, <3>1
  <2>12. Mirrored'
    BY <2>8, <2>9, <2>11 DEF Mirrored
  <2> QED
    BY <2>2, <2>12, PendingIsNotOk
<1>2. CASE blobs' = blobs /\ orders' = orders
  BY <1>2 DEF Mirrored
<1>3. \/ \E blob \in Blobs : OpenOrder(blob)
      \/ blobs' = blobs /\ orders' = orders
  BY DEF EngineNext, FailToOpen, Aggregate, FoldShares, RevealYes, RevealNo, engineVars
<1> QED
  BY <1>1, <1>2, <1>3

(* What users sealed is what the orders demand. *)
LEMMA SealedDemand ==
  ASSUME Inv, Mirrored
  PROVE  /\ \A u : Sealed(u, 0) = Demand(orders, u, Yes) /\ Sealed(u, 1) = Demand(orders, u, No)
         /\ SealedTotal(0) = Total(Users, Demands(Users, orders, Yes))
         /\ SealedTotal(1) = Total(Users, Demands(Users, orders, No))
<1>1. DOMAIN orders = 1 .. Len(orders) /\ DOMAIN blobs = 1 .. Len(orders)
  BY LenProperties DEF Inv, OrderSeq, Mirrored
<1>2. \A i \in DOMAIN orders : orders[i].side \in {Yes, No}
  <2> DEFINE O == [user : Users, side : Sides, qty : Nat]
  <2>1. orders \in [1 .. Len(orders) -> O]
    <3> HIDE DEF O
    <3>1. orders \in Seq(O)
      BY DEF Inv, OrderSeq, O
    <3> QED
      BY <3>1, LenProperties
  <2> QED
    BY <1>1, <2>1 DEF Sides
<1>3. \A i \in DOMAIN orders :
        /\ blobs[i].bytes.user = orders[i].user /\ blobs[i].bytes.qty = orders[i].qty
        /\ blobs[i].bytes.tag = 0 <=> orders[i].side = Yes
        /\ blobs[i].bytes.tag = 1 <=> orders[i].side = No
  BY <1>1, <1>2 DEF Mirrored, Opens, Yes, No
<1>4. [i \in DOMAIN blobs |-> blobs[i].bytes.qty] = [i \in DOMAIN orders |-> orders[i].qty]
  BY <1>1, <1>3
<1>5. ASSUME NEW u
      PROVE  Sealed(u, 0) = Demand(orders, u, Yes) /\ Sealed(u, 1) = Demand(orders, u, No)
  <2>1. {i \in DOMAIN blobs : blobs[i].bytes.user = u /\ blobs[i].bytes.tag = 0}
          = {i \in DOMAIN orders : orders[i].user = u /\ orders[i].side = Yes}
    BY <1>1, <1>3
  <2>2. {i \in DOMAIN blobs : blobs[i].bytes.user = u /\ blobs[i].bytes.tag = 1}
          = {i \in DOMAIN orders : orders[i].user = u /\ orders[i].side = No}
    BY <1>1, <1>3
  <2> QED
    BY <1>4, <2>1, <2>2 DEF Sealed, Demand
<1>6. /\ [u \in Users |-> Sealed(u, 0)] = Demands(Users, orders, Yes)
      /\ [u \in Users |-> Sealed(u, 1)] = Demands(Users, orders, No)
  BY <1>5 DEF Demands
<1> QED
  BY <1>5, <1>6 DEF SealedTotal

Legs == {"yes_qty", "no_qty", "collateral"}

(* What the positions hold: the demand of their users once the epoch is     *)
(* settled, which is after its match.                                       *)
Held ==
  /\ "last_epoch" \in DOMAIN market
  /\ market.last_epoch \in {0, Epoch}
  /\ market.last_epoch # 0 => result.ok
  /\ DOMAIN position = Users
  /\ \A u \in Users :
       LET held == market.last_epoch # 0
       IN  /\ Legs \subseteq DOMAIN position[u]
           /\ position[u].yes_qty = (IF held THEN Demand(orders, u, Yes) ELSE 0)
           /\ position[u].no_qty = (IF held THEN Demand(orders, u, No) ELSE 0)

PipelineInv == Inv /\ Matched /\ Mirrored /\ Held

(* What a settlement of the engine's frame adds to a position is what its   *)
(* user demanded.                                                           *)
LEMMA SettledAdds ==
  ASSUME Inv, Matched, result.ok,
         NEW f, f = BuildFrame(Users, Epoch, result), Program!EconomicsMatch(f), NEW u \in Users
  PROVE  /\ Program!YesAdd(f, u) = Demand(orders, u, Yes)
         /\ Program!NoAdd(f, u) = Demand(orders, u, No)
         /\ Demand(orders, u, Yes) \in Nat /\ Demand(orders, u, No) \in Nat
<1>1. IsFiniteSet(Users) /\ orders \in OrderSeq(Users) /\ result = MatchBatch(orders)
  BY BlobsAssumption DEF Inv, Matched
<1>2. /\ f.fills[u].p2p_yes + f.fills[u].residual_yes = Demand(orders, u, Yes)
      /\ f.fills[u].p2p_no + f.fills[u].residual_no = Demand(orders, u, No)
  BY <1>1, MatchFills
<1>3. \A c \in FillNames : FrameColumn(Users, f, c) \in [Users -> Nat]
  BY <1>1, MatchedFrame
<1>4. \A c : FrameColumn(Users, f, c)[u] = f.fills[u][c]
  BY DEF FrameColumn
<1>5. /\ f.fills[u]["p2p_yes"] \in Nat /\ f.fills[u]["p2p_no"] \in Nat
      /\ f.fills[u]["residual_yes"] \in Nat /\ f.fills[u]["residual_no"] \in Nat
  BY <1>3, <1>4 DEF FillNames
<1>6. Demand(orders, u, Yes) \in Nat /\ Demand(orders, u, No) \in Nat
  BY <1>1, DemandType
<1>7. ASSUME NEW c \in FillNames, Total(Users, FrameColumn(Users, f, c)) = 0
      PROVE  f.fills[u][c] = 0
  <2> DEFINE col == FrameColumn(Users, f, c)
  <2>1. col \in [Users -> Nat] /\ col[u] = f.fills[u][c]
    BY <1>3, <1>4
  <2>2. Total(Users, col) = 0
    BY <1>7
  <2> HIDE DEF col
  <2>3. col[u] <= Total(Users, col) /\ col[u] \in Nat
    BY <1>1, <2>1, TotalEntry
  <2>4. col[u] = 0
    BY <2>2, <2>3
  <2> QED
    BY <2>1, <2>4
<1>8. "residual_yes" \in FillNames /\ "residual_no" \in FillNames
  BY DEF FillNames
<1>9. Program!LightSideEmpty(f)
  BY DEF Program!EconomicsMatch
<1>10. CASE Program!IsYesHeavy(f)
  <2>1. f.fills[u]["residual_no"] = 0
    BY <1>7, <1>8, <1>9, <1>10, ProgramColumns DEF Program!LightSideEmpty
  <2>2. /\ Program!YesAdd(f, u) = f.fills[u].p2p_yes + f.fills[u].residual_yes
        /\ Program!NoAdd(f, u) = f.fills[u].p2p_no + 0
    BY <1>10 DEF Program!YesAdd, Program!NoAdd, Program!HeavyResidual
  <2> QED
    BY <1>2, <1>5, <1>6, <2>1, <2>2
<1>11. CASE ~Program!IsYesHeavy(f)
  <2>1. f.fills[u]["residual_yes"] = 0
    BY <1>7, <1>8, <1>9, <1>11, ProgramColumns DEF Program!LightSideEmpty
  <2>2. /\ Program!YesAdd(f, u) = f.fills[u].p2p_yes + 0
        /\ Program!NoAdd(f, u) = f.fills[u].p2p_no + f.fills[u].residual_no
    BY <1>11 DEF Program!YesAdd, Program!NoAdd, Program!HeavyResidual
  <2> QED
    BY <1>2, <1>5, <1>6, <2>1, <2>2
<1> QED
  BY <1>10, <1>11

LEMMA SettleStep ==
  ASSUME PipelineInv, result.ok, NEW f, f = BuildFrame(Users, Epoch, result),
         Program!ApplySettlement(f), UNCHANGED engineVars
  PROVE  Held'
<1> DEFINE settled(u) == Program!SettledPosition(f, u)
<1>1. /\ f.epoch > market.last_epoch /\ Program!EconomicsMatch(f)
      /\ position' = [u \in Users |-> IF u \in f.users THEN settled(u) ELSE position[u]]
      /\ market' = Program!SettledMarket(f)
  BY DEF Program!ApplySettlement, Program!FreshEpoch
<1>2. f.epoch = Epoch /\ f.users = {result.users[i] : i \in DOMAIN result.users}
  BY DEF BuildFrame
<1>3. Epoch \in Nat /\ Epoch # 0
  BY PipelineAssumption
<1>4. market.last_epoch = 0
  BY <1>1, <1>2, <1>3 DEF PipelineInv, Held
<1>5. orders' = orders /\ result' = result
  BY DEF engineVars
<1>6. "last_epoch" \in DOMAIN market' /\ market'.last_epoch = Epoch
  <2>1. "last_epoch" \in DOMAIN market
    BY DEF PipelineInv, Held
  <2> QED
    BY <1>1, <1>2, <2>1 DEF Program!SettledMarket
<1>7. ASSUME NEW u \in Users
      PROVE  /\ Legs \subseteq DOMAIN position[u]
             /\ position[u].yes_qty = 0 /\ position[u].no_qty = 0
             /\ Program!YesAdd(f, u) = Demand(orders, u, Yes)
             /\ Program!NoAdd(f, u) = Demand(orders, u, No)
             /\ Demand(orders, u, Yes) \in Nat /\ Demand(orders, u, No) \in Nat
  <2>1. Legs \subseteq DOMAIN position[u] /\ position[u].yes_qty = 0 /\ position[u].no_qty = 0
    BY <1>4 DEF PipelineInv, Held
  <2> QED
    BY <1>1, <2>1, SettledAdds DEF PipelineInv
<1>8. ASSUME NEW u \in Users \ f.users
      PROVE  Demand(orders, u, Yes) = 0 /\ Demand(orders, u, No) = 0
  <2>1. IsFiniteSet(Users) /\ orders \in OrderSeq(Users) /\ result = MatchBatch(orders)
    BY BlobsAssumption DEF PipelineInv, Inv, Matched
  <2>2. Listing(Len(result.users), result, OwnersOf(orders))
    BY <2>1, MatchListing
  <2>3. u \notin OwnersOf(orders)
    <3> SUFFICES ASSUME u \in OwnersOf(orders) PROVE FALSE
      OBVIOUS
    <3>1. \E i \in DOMAIN result.users : result.users[i] = u
      BY <2>2 DEF Listing, Bijection, Surjection
    <3> QED
      BY <1>2, <3>1
  <2>4. u \notin {orders[i].user : i \in DOMAIN orders}
    BY <2>3 DEF OwnersOf
  <2> QED
    BY <2>1, <2>4, DemandType
<1>9. ASSUME NEW u \in Users
      PROVE  /\ Legs \subseteq DOMAIN position'[u]
             /\ position'[u].yes_qty = Demand(orders, u, Yes)
             /\ position'[u].no_qty = Demand(orders, u, No)
  <2>1. CASE u \in f.users
    <3> DEFINE p == position[u]
               y == Program!YesAdd(f, u)
               n == Program!NoAdd(f, u)
               c == Program!TotalCost(f, u)
    <3>1. position'[u] = settled(u)
      BY <1>1, <2>1
    <3>2. settled(u) = [p EXCEPT !.yes_qty = @ + y, !.no_qty = @ + n, !.collateral = @ - c]
      BY DEF Program!SettledPosition
    <3> HIDE DEF p, y, n, c, settled
    <3>3. Legs \subseteq DOMAIN p /\ p.yes_qty = 0 /\ p.no_qty = 0
      BY <1>7 DEF p
    <3>4. /\ DOMAIN position'[u] = DOMAIN p
          /\ position'[u].yes_qty = 0 + y /\ position'[u].no_qty = 0 + n
      BY <3>1, <3>2, <3>3 DEF Legs
    <3>5. /\ y = Demand(orders, u, Yes) /\ y \in Nat
          /\ n = Demand(orders, u, No) /\ n \in Nat
      BY <1>7 DEF y, n
    <3> QED
      BY <3>3, <3>4, <3>5
  <2>2. CASE u \notin f.users
    <3>1. position'[u] = position[u]
      BY <1>1, <2>2
    <3> QED
      BY <1>7, <1>8, <2>2, <3>1
  <2> QED
    BY <2>1, <2>2
<1>10. DOMAIN position' = Users
  BY <1>1
<1> QED
  BY <1>3, <1>5, <1>6, <1>9, <1>10 DEF Held

LEMMA PipelineInit == Init => PipelineInv
<1> SUFFICES ASSUME Init PROVE PipelineInv
  OBVIOUS
<1>1. Inv /\ result = Pending /\ orders = <<>> /\ blobs = <<>>
  BY InvInit DEF Init, EngineInit
<1>2. Matched
  BY <1>1, PendingIsNotOk DEF Matched
<1>3. Mirrored
  <2>1. Len(<<>>) = 0 /\ <<>> \in Seq(Blobs)
    OBVIOUS
  <2> QED
    BY <1>1, <2>1 DEF Mirrored
<1>4. "last_epoch" \in DOMAIN market /\ market.last_epoch = 0
  BY DEF Init, Program!NoMarket
<1>5. /\ DOMAIN position = Users
      /\ \A u \in Users : /\ Legs \subseteq DOMAIN position[u]
                          /\ position[u].yes_qty = 0 /\ position[u].no_qty = 0
  BY DEF Init, Program!NoPosition, Legs
<1>6. Held
  BY <1>4, <1>5 DEF Held
<1> QED
  BY <1>1, <1>2, <1>3, <1>6 DEF PipelineInv

(* A transaction that the program executes settles the engine's frame. *)
LEMMA SubmitStep ==
  ASSUME PipelineInv, result.ok, NEW tx \in Submitted, SubmitBatch(tx) \/ SubmitBatchTrusted(tx)
  PROVE  Held' /\ UNCHANGED engineVars
<1> DEFINE f == OnAccounts(Users, tx)
<1>1. Signed(tx) /\ WellFormed(Market, tx) /\ UNCHANGED engineVars
  BY DEF SubmitBatch, SubmitBatchTrusted, Signed
<1>2. Program!ApplySettlement(f)
  BY DEF SubmitBatch, SubmitBatchTrusted, Program!SubmitBatch, Program!SubmitBatchTrusted
<1>3. tx.frame = WireFrame(Market, Epoch, result)
  BY <1>1, SubmittedFrame
<1>4. Listing(Len(result.users), result, OwnersOf(orders))
  BY MatchListing, BlobsAssumption DEF PipelineInv, Inv, Matched
<1>5. f = BuildFrame(Users, Epoch, result)
  <2> DEFINE n == Len(result.users)
  <2>1. Listing(n, result, OwnersOf(orders))
    BY <1>4
  <2> HIDE DEF n
  <2> QED
    BY <1>1, <1>3, <2>1, ExecutedFrame
<1> HIDE DEF f
<1> QED
  BY <1>1, <1>2, <1>5, SettleStep

LEMMA PipelineNext == PipelineInv /\ [Next]_vars => PipelineInv'
<1> SUFFICES ASSUME PipelineInv, [Next]_vars PROVE PipelineInv'
  OBVIOUS
<1>1. ASSUME [EngineNext]_engineVars
      PROVE  /\ Inv' /\ Matched' /\ Mirrored'
             /\ result.ok => orders' = orders /\ result' = result
  BY <1>1, InvNext, MatchedStep, MirroredStep DEF PipelineInv
<1>2. ASSUME UNCHANGED engineVars
      PROVE  Inv' /\ Matched' /\ Mirrored' /\ orders' = orders /\ result' = result
  BY <1>1, <1>2 DEF engineVars
<1>3. ASSUME [EngineNext]_engineVars, UNCHANGED programVars
      PROVE  PipelineInv'
  <2>1. market' = market /\ position' = position
    BY <1>3 DEF programVars
  <2>2. Held'
    <3>1. CASE result.ok
      <4>1. orders' = orders /\ result' = result
        BY <1>1, <1>3, <3>1
      <4> QED
        BY <2>1, <4>1 DEF PipelineInv, Held
    <3>2. CASE ~result.ok
      BY <2>1, <3>2 DEF PipelineInv, Held
    <3> QED
      BY <3>1, <3>2
  <2> QED
    BY <1>1, <1>3, <2>2 DEF PipelineInv
<1>4. CASE Engine \/ UNCHANGED vars
  BY <1>3, <1>4 DEF Engine, vars
<1>5. ASSUME result.ok, NEW tx \in Submitted, SubmitBatch(tx) \/ SubmitBatchTrusted(tx)
      PROVE  PipelineInv'
  BY <1>2, <1>5, SubmitStep DEF PipelineInv
<1>6. ASSUME NEW u \in Users, Withdraw(u)
      PROVE  PipelineInv'
  <2>1. /\ UNCHANGED engineVars /\ market' = market
        /\ position' = [position EXCEPT ![u].collateral = @ - 1]
    BY <1>6 DEF Withdraw, Program!WithdrawCollateral
  <2>2. /\ DOMAIN position = Users
        /\ \A v \in Users : Legs \subseteq DOMAIN position[v]
    BY DEF PipelineInv, Held
  <2>3. ASSUME NEW v \in Users
        PROVE  /\ Legs \subseteq DOMAIN position'[v]
               /\ position'[v].yes_qty = position[v].yes_qty
               /\ position'[v].no_qty = position[v].no_qty
    <3> DEFINE p == position[v]
    <3>1. position'[v] = IF v = u THEN [p EXCEPT !.collateral = @ - 1] ELSE p
      BY <2>1, <2>2
    <3>2. Legs \subseteq DOMAIN p
      BY <2>2
    <3> HIDE DEF p
    <3>3. /\ Legs \subseteq DOMAIN position'[v]
          /\ position'[v].yes_qty = p.yes_qty /\ position'[v].no_qty = p.no_qty
      BY <3>1, <3>2 DEF Legs
    <3> QED
      BY <3>3 DEF p
  <2>4. Inv' /\ Matched' /\ Mirrored' /\ orders' = orders /\ result' = result
    BY <1>2, <2>1
  <2>5. DOMAIN position' = Users
    BY <2>1, <2>2
  <2>6. Held'
    BY <2>1, <2>3, <2>4, <2>5 DEF PipelineInv, Held
  <2> QED
    BY <2>4, <2>6 DEF PipelineInv
<1>7. ASSUME CloseMarket
      PROVE  PipelineInv'
  <2>1. /\ UNCHANGED engineVars /\ position' = position
        /\ market' = [market EXCEPT !.status = Program!STATUS_CLOSED]
    BY <1>7 DEF CloseMarket, Program!CloseMarket
  <2>2. "last_epoch" \in DOMAIN market' /\ market'.last_epoch = market.last_epoch
    BY <2>1 DEF PipelineInv, Held
  <2>3. Inv' /\ Matched' /\ Mirrored' /\ orders' = orders /\ result' = result
    BY <1>2, <2>1
  <2>4. Held'
    BY <2>1, <2>2, <2>3 DEF PipelineInv, Held
  <2> QED
    BY <2>3, <2>4 DEF PipelineInv
<1> QED
  BY <1>4, <1>5, <1>6, <1>7 DEF Next

-----------------------------------------------------------------------------
(* In every reachable state the blobs mirror the orders, a result is their  *)
(* match, and every position is empty or its user's whole demand.           *)
THEOREM PipelineInvariant == Spec => []PipelineInv
  BY PipelineInit, PipelineNext, PTL DEF Spec

(* The engine of the pipeline is the engine alone: whatever is submitted    *)
(* and executed, it takes none but its own steps.                           *)
THEOREM PipelineRunsEngine == Spec => EngineSpec
<1>1. Init => EngineInit
  BY DEF Init
<1>2. [Next]_vars => [EngineNext]_engineVars
  BY DEF Next, vars, Engine, SubmitBatch, SubmitBatchTrusted, Withdraw, CloseMarket
<1> QED
  BY <1>1, <1>2, PTL DEF Spec, EngineSpec

(* SettledAsSealed: end to end, for any users, orders, nodes, blinds,       *)
(* committee and transactions, every user ends up with exactly the          *)
(* contracts that it sealed orders for, even when totals wrap.              *)
THEOREM SealedIsSettled == Spec => []SettledAsSealed
<1>1. PipelineInv => SettledAsSealed
  <2> SUFFICES ASSUME PipelineInv PROVE SettledAsSealed
    OBVIOUS
  <2>1. \A u : Sealed(u, 0) = Demand(orders, u, Yes) /\ Sealed(u, 1) = Demand(orders, u, No)
    BY SealedDemand DEF PipelineInv
  <2> QED
    BY <2>1 DEF PipelineInv, Held, SettledAsSealed
<1> QED
  BY <1>1, PipelineInvariant, PTL

(* The engine's result as EngineFrame and MatchListing want it. *)
LEMMA UnwrappedMatch ==
  ASSUME PipelineInv, result.ok, NoTotalWraps
  PROVE  /\ Listing(Len(result.users), result, OwnersOf(orders))
         /\ Economics(BuildFrame(Users, Epoch, result))
         /\ BuildFrame(Users, Epoch, result) \in FrameSet
         /\ \A u \in Users \ BuildFrame(Users, Epoch, result).users :
              BuildFrame(Users, Epoch, result).fills[u] = NoFill
<1>1. IsFiniteSet(Users) /\ orders \in OrderSeq(Users) /\ result = MatchBatch(orders)
  BY BlobsAssumption DEF PipelineInv, Inv, Matched
<1>2. FitsU64(SealedTotal(0)) /\ FitsU64(SealedTotal(1))
  BY DEF NoTotalWraps
<1>3. /\ FitsU64(Total(Users, Demands(Users, orders, Yes)))
      /\ FitsU64(Total(Users, Demands(Users, orders, No)))
  BY <1>2, SealedDemand DEF PipelineInv
<1> QED
  BY <1>1, <1>3, MatchListing, EngineFrame

(* TrustIsEarned: no frame that the signatures and the account checks let   *)
(* through breaks what Settlement's theorems assume of the frames.          *)
THEOREM FramesAreAsAssumed == Spec => []TrustIsEarned
<1>1. PipelineInv => TrustIsEarned
  <2> SUFFICES ASSUME PipelineInv, result.ok, NoTotalWraps,
                      NEW tx \in Submitted, Signed(tx), WellFormed(Market, tx),
                      NEW f, f = OnAccounts(Users, tx)
               PROVE  /\ f \in Program!Frame /\ Program!CrossedInPairs(f)
                      /\ \A u \in Users \ f.users : f.fills[u] = NoFill
    BY DEF TrustIsEarned
  <2> DEFINE n == Len(result.users)
  <2>1. /\ Listing(n, result, OwnersOf(orders))
        /\ Economics(BuildFrame(Users, Epoch, result))
        /\ BuildFrame(Users, Epoch, result) \in FrameSet
        /\ \A u \in Users \ BuildFrame(Users, Epoch, result).users :
             BuildFrame(Users, Epoch, result).fills[u] = NoFill
    BY UnwrappedMatch
  <2> HIDE DEF n
  <2>2. f = BuildFrame(Users, Epoch, result)
    <3>1. tx.frame = WireFrame(Market, Epoch, result)
      BY SubmittedFrame
    <3> QED
      BY <2>1, <3>1, ExecutedFrame
  <2>3. Program!CrossedInPairs(f)
    BY <2>1, <2>2, ProgramEconomics
  <2>4. FrameSet = Program!Frame
    BY DEF FrameSet, Program!Frame, UserFill, Program!UserFill
  <2> QED
    BY <2>1, <2>2, <2>3, <2>4
<1> QED
  BY <1>1, PipelineInvariant, PTL

(* BuiltIsAccepted: what relay.rs builds passes every check of the program  *)
(* on its signatures, its length, its accounts and its economics, for any   *)
(* committee without a repeated key.                                        *)
THEOREM MirrorsTheChecks ==
  ASSUME Distinct(Members)
  PROVE  Spec => []BuiltIsAccepted
<1>1. PipelineInv => BuiltIsAccepted
  <2> SUFFICES ASSUME PipelineInv, result.ok, NoTotalWraps, NEW tx \in Built
               PROVE  /\ WellFormed(Market, tx)
                      /\ tx.trusted \/ Authenticated(Members, Threshold, tx)
                      /\ Len(tx.frame.fills) <= MAX_FILLS
                      /\ Program!EconomicsMatch(OnAccounts(Users, tx))
    BY DEF BuiltIsAccepted
  <2> DEFINE n == Len(result.users)
  <2>1. /\ Listing(n, result, OwnersOf(orders))
        /\ Economics(BuildFrame(Users, Epoch, result))
    BY UnwrappedMatch
  <2> HIDE DEF n
  <2>2. /\ tx.frame = WireFrame(Market, Epoch, result)
        /\ tx.positions = Positions(Market, result)
        /\ tx.trusted = TRUE \/ tx.precompiles = PrecompilesOver(tx.frame)
    BY BuiltFields
  <2>3. WellFormed(Market, tx) /\ Len(tx.frame.fills) <= MAX_FILLS
    BY <2>1, <2>2, BuiltAccounts
  <2>4. tx.trusted \/ Authenticated(Members, Threshold, tx)
    BY <2>2, BuiltSignatures
  <2>5. OnAccounts(Users, tx) = BuildFrame(Users, Epoch, result)
    BY <2>1, <2>2, <2>3, ExecutedFrame
  <2>6. Program!EconomicsMatch(OnAccounts(Users, tx))
    BY <2>1, <2>5, ProgramEconomics
  <2> QED
    BY <2>3, <2>4, <2>6
<1> QED
  BY <1>1, PipelineInvariant, PTL

=============================================================================
