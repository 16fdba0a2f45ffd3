---------------------------- MODULE EpochProofs ----------------------------
(***************************************************************************)
(* What the engine's frames guarantee, for any users, quantities and batch  *)
(* sizes: they are well-typed and settleable, fill every demand and split   *)
(* Tier-1 volume pro rata.                                                  *)
(***************************************************************************)
EXTENDS Epoch, MatchingProofs

(* The invariant: a result is the match of the orders that were opened. *)
Inv ==
  /\ orders \in OrderSeq(Users)
  /\ result.ok => result = MatchBatch(orders)

LEMMA NotOk == \A reason : MatchError(reason).ok = FALSE
  BY DEF MatchError

LEMMA InvInit == Init => Inv
<1> SUFFICES ASSUME Init PROVE Inv
  OBVIOUS
<1>1. orders \in OrderSeq(Users)
  BY DEF Init, OrderSeq
<1>2. ~result.ok
  BY NotOk DEF Init, Pending
<1> QED
  BY <1>1, <1>2 DEF Inv

LEMMA InvNext == Inv /\ [Next]_vars => Inv'
<1> SUFFICES ASSUME Inv, [Next]_vars PROVE Inv'
  OBVIOUS
<1>1. ASSUME NEW o \in Order, OpenOrder(o)
      PROVE  Inv'
  <2> DEFINE O == [user : Users, side : Sides, qty : Nat]
  <2>1. o \in O
    <3>1. \A q \in Quantities : q \in Nat
      BY BatchAssumption, SizesAssumption
    <3> QED
      BY <3>1 DEF Order
  <2>2. orders \in Seq(O)
    BY DEF Inv, OrderSeq
  <2>3. orders' = Append(orders, o)
    BY <1>1 DEF OpenOrder
  <2> HIDE DEF O
  <2>4. Append(orders, o) \in Seq(O)
    BY <2>1, <2>2
  <2>5. orders' \in OrderSeq(Users)
    BY <2>3, <2>4 DEF O, OrderSeq
  <2>6. ~result'.ok
    <3>1. result' = Pending
      BY <1>1 DEF OpenOrder
    <3> QED
      BY <3>1, NotOk DEF Pending
  <2> QED
    BY <2>5, <2>6 DEF Inv
<1>2. ASSUME NEW reason \in OpenErrors, FailToOpen(reason)
      PROVE  Inv'
  <2>1. orders' = orders /\ result' = MatchError(reason)
    BY <1>2 DEF FailToOpen
  <2> QED
    BY <2>1, NotOk DEF Inv
<1>3. CASE MatchOrders
  <2>1. orders' = orders /\ result' = MatchBatch(orders)
    BY <1>3 DEF MatchOrders
  <2> QED
    BY <2>1 DEF Inv
<1>4. CASE UNCHANGED vars
  BY <1>4 DEF Inv, vars
<1> QED
  BY <1>1, <1>2, <1>3, <1>4 DEF Next

THEOREM Invariant == Spec => []Inv
  BY InvInit, InvNext, PTL DEF Spec

-----------------------------------------------------------------------------
(* The frame seen from its heavy side: w and v are the columns of           *)
(* aggregates, th and tl the totals that were revealed.                     *)
HeavyFrame(n, heavy, light, hp, lp, hr, lr, w, v, th, tl) ==
  /\ \A i \in 1 .. n : /\ w[i] = Demand(orders, result.users[i], heavy)
                       /\ v[i] = Demand(orders, result.users[i], light)
  /\ w \in Columns(n) /\ v \in Columns(n)
  /\ Total(1 .. n, w) = TotalDemand(heavy)
  /\ Total(1 .. n, v) = TotalDemand(light)
  /\ th \in Nat /\ tl \in Nat /\ tl <= th
  /\ th <= TotalDemand(heavy) /\ tl <= TotalDemand(light)
  /\ NoTotalWraps => th = TotalDemand(heavy) /\ tl = TotalDemand(light)
  /\ result.net_imbalance = th - tl
  /\ ExactFills(n, result.fills, hp, lp, hr, lr, w, v, AllocateExact(tl, w))

Owners == OwnersOf(orders)

Listed(n) ==
  /\ result.users \in Bijection(1 .. n, Owners)
  /\ DOMAIN result.fills = 1 .. n
  /\ \A i \in 1 .. n : IsFill(result.fills[i])

LEMMA DemandIsTotal ==
  ASSUME NEW side
  PROVE  TotalDemand(side) = Total(Users, Demands(Users, orders, side))
BY DEF TotalDemand, SideDemand, Demands

LEMMA HeavyCases ==
  ASSUME Inv, result.ok
  PROVE  \E n \in Nat : \E yes, no, ty, tn :
           /\ Listed(n)
           /\ \/ /\ YesHeavy
                 /\ HeavyFrame(n, Yes, No, "p2p_yes", "p2p_no", "residual_yes", "residual_no",
                               yes, no, ty, tn)
              \/ /\ ~YesHeavy
                 /\ HeavyFrame(n, No, Yes, "p2p_no", "p2p_yes", "residual_no", "residual_yes",
                               no, yes, tn, ty)
<1> DEFINE a == Aggregates(orders)
           n == Len(a.users)
           ty == BlindedSum(a.yes)
           tn == BlindedSum(a.no)
<1>1. result = MatchBatch(orders) /\ orders \in OrderSeq(Users) /\ IsFiniteSet(Users)
  BY BatchAssumption DEF Inv
<1>2. result = MatchRevealed(a, ty, tn)
  <2> SUFFICES ASSUME AggregateError(a) # NoError PROVE FALSE
    BY <1>1 DEF MatchBatch
  <2>1. result = MatchError(AggregateError(a))
    BY <1>1 DEF MatchBatch
  <2> QED
    BY <2>1, NotOk
<1>3. /\ n \in Nat
      /\ a.users \in Bijection(1 .. n, Owners)
      /\ a.yes \in Columns(n)
      /\ a.no \in Columns(n)
      /\ \A i \in 1 .. n : /\ a.yes[i] = Demand(orders, a.users[i], Yes)
                           /\ a.no[i] = Demand(orders, a.users[i], No)
      /\ Total(1 .. n, a.yes) = TotalDemand(Yes)
      /\ Total(1 .. n, a.no) = TotalDemand(No)
  <2>1. a = Aggregates(orders)
    OBVIOUS
  <2> HIDE DEF a
  <2>2. /\ Len(a.users) \in Nat
        /\ a.users \in Bijection(1 .. Len(a.users), OwnersOf(orders))
        /\ a.yes \in Columns(Len(a.users))
        /\ a.no \in Columns(Len(a.users))
        /\ \A i \in 1 .. Len(a.users) : /\ a.yes[i] = Demand(orders, a.users[i], Yes)
                                        /\ a.no[i] = Demand(orders, a.users[i], No)
        /\ Total(1 .. Len(a.users), a.yes) = Total(Users, Demands(Users, orders, Yes))
        /\ Total(1 .. Len(a.users), a.no) = Total(Users, Demands(Users, orders, No))
    BY <1>1, <2>1, AggregatesAdd
  <2> QED
    BY <2>2, DemandIsTotal DEF Owners
<1>4. a.yes \in Columns(n) /\ a.no \in Columns(n)
  BY <1>3
<1> HIDE DEF a
<1>5. /\ ty \in Nat /\ ty <= TotalDemand(Yes)
      /\ FitsU64(TotalDemand(Yes)) => ty = TotalDemand(Yes)
  <2>1. Total(1 .. n, a.yes) = TotalDemand(Yes)
    BY <1>3
  <2> QED
    BY <1>3, <1>4, <2>1, BlindedSumBounds
<1>6. /\ tn \in Nat /\ tn <= TotalDemand(No)
      /\ FitsU64(TotalDemand(No)) => tn = TotalDemand(No)
  <2>1. Total(1 .. n, a.no) = TotalDemand(No)
    BY <1>3
  <2> QED
    BY <1>3, <1>4, <2>1, BlindedSumBounds
<1>7. NoTotalWraps => ty = TotalDemand(Yes) /\ tn = TotalDemand(No)
  BY <1>5, <1>6 DEF NoTotalWraps, Sides
<1> HIDE DEF n, ty, tn
<1>8. n \in Nat
  BY <1>3
<1>9. /\ result.users = a.users
      /\ DOMAIN result.fills = 1 .. n
      /\ \A i \in 1 .. n : IsFill(result.fills[i])
      /\ ty >= tn =>
           /\ result.direction = DIRECTION_YES_HEAVY
           /\ result.net_imbalance = ty - tn
           /\ ExactFills(n, result.fills, "p2p_yes", "p2p_no", "residual_yes", "residual_no",
                         a.yes, a.no, AllocateExact(tn, a.yes))
      /\ ~(ty >= tn) =>
           /\ result.direction = DIRECTION_NO_HEAVY
           /\ result.net_imbalance = tn - ty
           /\ ExactFills(n, result.fills, "p2p_no", "p2p_yes", "residual_no", "residual_yes",
                         a.no, a.yes, AllocateExact(ty, a.no))
  BY <1>2, <1>4, <1>5, <1>6, <1>8, RevealedMatch
<1>10. Listed(n)
  BY <1>3, <1>9 DEF Listed
<1>11. CASE ty >= tn
  <2>1. YesHeavy
    BY <1>9, <1>11 DEF YesHeavy
  <2>2. HeavyFrame(n, Yes, No, "p2p_yes", "p2p_no", "residual_yes", "residual_no",
                   a.yes, a.no, ty, tn)
    BY <1>3, <1>4, <1>5, <1>6, <1>7, <1>9, <1>11 DEF HeavyFrame
  <2> QED
    BY <1>8, <1>10, <2>1, <2>2
<1>12. CASE ~(ty >= tn)
  <2>1. ~YesHeavy
    BY <1>9, <1>12 DEF YesHeavy, DIRECTION_YES_HEAVY, DIRECTION_NO_HEAVY
  <2>2. ty <= tn
    BY <1>5, <1>6, <1>12
  <2>3. HeavyFrame(n, No, Yes, "p2p_no", "p2p_yes", "residual_no", "residual_yes",
                   a.no, a.yes, tn, ty)
    BY <1>3, <1>4, <1>5, <1>6, <1>7, <1>9, <1>12, <2>2 DEF HeavyFrame
  <2> QED
    BY <1>8, <1>10, <2>1, <2>3
<1> QED
  BY <1>11, <1>12

LEMMA OwnersAreUsers ==
  ASSUME orders \in OrderSeq(Users)
  PROVE  Owners \in SUBSET Users
BY OrderTypes DEF Owners, OwnersOf

LEMMA SideDemandType ==
  ASSUME orders \in OrderSeq(Users), NEW side
  PROVE  /\ \A u \in Users : SideDemand(side)[u] = Demand(orders, u, side)
         /\ \A u \in Users : SideDemand(side)[u] \in Nat
         /\ \A u \in Users \ Owners : SideDemand(side)[u] = 0
BY DemandType DEF SideDemand, Owners, OwnersOf

(* A column of the frame is that of the match, by user. *)
LEMMA ColumnByEntry ==
  ASSUME NEW n \in Nat, Listed(n), orders \in OrderSeq(Users),
         NEW c, NoFill[c] = 0, NEW g \in Columns(n), \A i \in 1 .. n : result.fills[i][c] = g[i]
  PROVE  /\ ColumnTotal(c) = Total(1 .. n, g)
         /\ \A i \in 1 .. n : frame.fills[result.users[i]][c] = g[i]
         /\ \A u \in Users \ Owners : frame.fills[u][c] = 0
         /\ \A u \in Users : Column(c)[u] = frame.fills[u][c]
<1>1. Owners \in SUBSET Users /\ IsFiniteSet(Users) /\ result.users \in Bijection(1 .. n, Owners)
  BY OwnersAreUsers, BatchAssumption DEF Listed
<1>2. /\ \A i \in 1 .. n : frame.fills[result.users[i]] = result.fills[i]
      /\ \A u \in Users \ Owners : frame.fills[u] = NoFill
  BY <1>1, FrameFill DEF frame
<1>3. \A i \in 1 .. n : frame.fills[result.users[i]][c] = g[i]
  BY <1>2
<1>4. \A u \in Users \ Owners : frame.fills[u][c] = 0
  BY <1>2
<1> DEFINE col == Column(c)
<1>5. \A u \in Users : col[u] = frame.fills[u][c]
  BY DEF Column
<1>6. \A i \in 1 .. n : result.users[i] \in Owners
  BY <1>1 DEF Bijection, Injection
<1>7. \A i \in 1 .. n : g[i] = col[result.users[i]]
  BY <1>1, <1>3, <1>5, <1>6
<1>8. col \in [Users -> Nat]
  <2>1. \A u \in Owners : \E i \in 1 .. n : u = result.users[i]
    BY <1>1 DEF Bijection, Surjection
  <2>2. \A i \in 1 .. n : g[i] \in Nat
    BY DEF Columns
  <2>3. \A u \in Users : frame.fills[u][c] \in Nat
    BY <1>3, <1>4, <2>1, <2>2
  <2> QED
    BY <2>3 DEF Column
<1>9. \A u \in Users \ Owners : col[u] = 0
  BY <1>4, <1>5
<1> HIDE DEF col
<1>10. g \in [1 .. n -> Nat]
  BY DEF Columns
<1>11. Total(1 .. n, g) = Total(Users, col)
  BY <1>1, <1>7, <1>8, <1>9, <1>10, TotalByUser
<1> QED
  BY <1>3, <1>4, <1>5, <1>11 DEF col, ColumnTotal

(* What a frame guarantees, in terms of its heavy side. *)
FrameFacts(heavy, light, hp, lp, hr, lr) ==
  /\ ColumnTotal(lr) = 0
  /\ ColumnTotal(hr) = frame.net_imbalance
  /\ ColumnTotal(hp) = ColumnTotal(lp)
  /\ \A u \in Users :
       /\ frame.fills[u][hp] + frame.fills[u][hr] = SideDemand(heavy)[u]
       /\ frame.fills[u][lp] + frame.fills[u][lr] = SideDemand(light)[u]
  /\ TotalDemand(light) <= TotalDemand(heavy)
  /\ TotalDemand(heavy) > 0 =>
       \A u \in Users :
         /\ Column(hp)[u] * TotalDemand(heavy)
              < TotalDemand(light) * SideDemand(heavy)[u] + TotalDemand(heavy)
         /\ TotalDemand(light) * SideDemand(heavy)[u]
              < Column(hp)[u] * TotalDemand(heavy) + TotalDemand(heavy)
         /\ \A v \in Users : SideDemand(heavy)[u] < SideDemand(heavy)[v]
                             => Column(hp)[u] <= Column(hp)[v]

LEMMA HeavyFrameFacts ==
  ASSUME NEW n \in Nat, Listed(n), orders \in OrderSeq(Users), NoTotalWraps,
         NEW heavy, NEW light, NEW hp, NEW lp, NEW hr, NEW lr,
         NoFill[hp] = 0, NoFill[lp] = 0, NoFill[hr] = 0, NoFill[lr] = 0,
         NEW w, NEW v, NEW th, NEW tl, HeavyFrame(n, heavy, light, hp, lp, hr, lr, w, v, th, tl)
  PROVE  FrameFacts(heavy, light, hp, lp, hr, lr)
<1> DEFINE p == AllocateExact(tl, w)
           r == [i \in 1 .. n |-> w[i] - p[i]]
           z == [i \in 1 .. n |-> 0]
           sum == TotalDemand(heavy)
<1>1. /\ w \in Columns(n) /\ v \in Columns(n)
      /\ \A i \in 1 .. n : w[i] = Demand(orders, result.users[i], heavy)
      /\ \A i \in 1 .. n : v[i] = Demand(orders, result.users[i], light)
      /\ Total(1 .. n, w) = sum
      /\ Total(1 .. n, v) = TotalDemand(light)
      /\ th \in Nat /\ tl \in Nat /\ tl <= th
      /\ th = sum /\ tl = TotalDemand(light)
      /\ result.net_imbalance = th - tl
      /\ ExactFills(n, result.fills, hp, lp, hr, lr, w, v, p)
  BY DEF HeavyFrame
<1>2. /\ p \in Columns(n)
      /\ Total(1 .. n, p) = tl
      /\ \A i \in 1 .. n : p[i] <= w[i]
      /\ sum > 0 => \A i \in 1 .. n : /\ p[i] * sum < tl * w[i] + sum
                                      /\ tl * w[i] < p[i] * sum + sum
      /\ \A i, j \in 1 .. n : w[i] < w[j] => p[i] <= p[j]
  <2> HIDE DEF sum
  <2> QED
    BY <1>1, AllocationIsExact, SMTT(30)
<1>3. \A i \in 1 .. n : /\ result.fills[i][hp] = p[i]
                        /\ result.fills[i][lp] = v[i]
                        /\ result.fills[i][hr] = r[i]
                        /\ result.fills[i][lr] = z[i]
  BY <1>1 DEF ExactFills
<1> HIDE DEF p, sum
<1>4. \A i \in 1 .. n : w[i] \in Nat /\ p[i] \in Nat /\ r[i] \in Nat /\ w[i] = p[i] + r[i] /\ z[i] = 0
  BY <1>1, <1>2 DEF Columns
<1>5. r \in Columns(n) /\ z \in Columns(n)
  BY <1>4 DEF Columns
<1> HIDE DEF r, z
<1>6. Total(1 .. n, w) = Total(1 .. n, p) + Total(1 .. n, r)
  BY <1>1, <1>2, <1>4, <1>5, AddedColumns
<1>7. Total(1 .. n, z) = 0
  BY <1>4, TotalZero
<1>8. Total(1 .. n, r) \in Nat
  BY <1>5, TotalType, FS_Interval, SMTT(30) DEF Columns
<1>9. /\ ColumnTotal(hp) = Total(1 .. n, p)
      /\ \A i \in 1 .. n : frame.fills[result.users[i]][hp] = p[i]
      /\ \A u \in Users \ Owners : frame.fills[u][hp] = 0
      /\ \A u \in Users : Column(hp)[u] = frame.fills[u][hp]
  BY <1>2, <1>3, ColumnByEntry
<1>10. /\ ColumnTotal(lp) = Total(1 .. n, v)
       /\ \A i \in 1 .. n : frame.fills[result.users[i]][lp] = v[i]
       /\ \A u \in Users \ Owners : frame.fills[u][lp] = 0
  BY <1>1, <1>3, ColumnByEntry, SMTT(30)
<1>11. /\ ColumnTotal(hr) = Total(1 .. n, r)
       /\ \A i \in 1 .. n : frame.fills[result.users[i]][hr] = r[i]
       /\ \A u \in Users \ Owners : frame.fills[u][hr] = 0
  BY <1>3, <1>5, ColumnByEntry
<1>12. /\ ColumnTotal(lr) = Total(1 .. n, z)
       /\ \A i \in 1 .. n : frame.fills[result.users[i]][lr] = z[i]
       /\ \A u \in Users \ Owners : frame.fills[u][lr] = 0
  BY <1>3, <1>5, ColumnByEntry
<1>13. result.users \in Bijection(1 .. n, Owners) /\ Owners \in SUBSET Users
  BY OwnersAreUsers DEF Listed
<1>14. frame.net_imbalance = th - tl
  BY <1>1, <1>13, FrameFill DEF frame
<1>15. /\ \A u \in Owners : \E i \in 1 .. n : u = result.users[i]
       /\ \A i \in 1 .. n : result.users[i] \in Users
  BY <1>13 DEF Bijection, Surjection, Injection
<1>16. /\ \A i \in 1 .. n : /\ SideDemand(heavy)[result.users[i]] = w[i]
                            /\ SideDemand(light)[result.users[i]] = v[i]
       /\ \A u \in Users \ Owners : SideDemand(heavy)[u] = 0 /\ SideDemand(light)[u] = 0
  BY <1>1, <1>15, SideDemandType
<1>17. \A i \in 1 .. n : v[i] \in Nat
  BY <1>1 DEF Columns
<1>18. ASSUME NEW u \in Users
       PROVE  /\ frame.fills[u][hp] + frame.fills[u][hr] = SideDemand(heavy)[u]
              /\ frame.fills[u][lp] + frame.fills[u][lr] = SideDemand(light)[u]
  <2>1. CASE u \notin Owners
    BY <1>9, <1>10, <1>11, <1>12, <1>16, <2>1
  <2>2. CASE u \in Owners
    <3>1. PICK i \in 1 .. n : u = result.users[i]
      BY <1>15, <2>2
    <3>2. frame.fills[u][hp] = p[i] /\ frame.fills[u][hr] = r[i] /\ SideDemand(heavy)[u] = w[i]
      BY <1>9, <1>11, <1>16, <3>1
    <3>3. frame.fills[u][lp] = v[i] /\ frame.fills[u][lr] = 0 /\ SideDemand(light)[u] = v[i]
      BY <1>4, <1>10, <1>12, <1>16, <3>1
    <3> QED
      BY <1>4, <1>17, <3>2, <3>3
  <2> QED
    BY <2>1, <2>2
<1>19. ASSUME sum > 0, NEW u \in Users
       PROVE  /\ Column(hp)[u] * sum < tl * SideDemand(heavy)[u] + sum
              /\ tl * SideDemand(heavy)[u] < Column(hp)[u] * sum + sum
  <2>1. CASE u \notin Owners
    <3>1. Column(hp)[u] = 0 /\ SideDemand(heavy)[u] = 0
      BY <1>9, <1>16, <2>1
    <3>2. sum \in Nat /\ tl \in Nat
      BY <1>1
    <3> QED
      BY <1>19, <3>1, <3>2
  <2>2. CASE u \in Owners
    <3>1. PICK i \in 1 .. n : u = result.users[i]
      BY <1>15, <2>2
    <3>2. Column(hp)[u] = p[i] /\ SideDemand(heavy)[u] = w[i]
      BY <1>9, <1>16, <3>1
    <3>3. p[i] * sum < tl * w[i] + sum /\ tl * w[i] < p[i] * sum + sum
      BY <1>2, <1>19
    <3> QED
      BY <3>2, <3>3
  <2> QED
    BY <2>1, <2>2
<1>20. ASSUME NEW u \in Users, NEW x \in Users, SideDemand(heavy)[u] < SideDemand(heavy)[x]
       PROVE  Column(hp)[u] <= Column(hp)[x]
  <2>1. x \in Owners
    <3> SUFFICES ASSUME x \notin Owners PROVE FALSE
      OBVIOUS
    <3>1. SideDemand(heavy)[x] = 0 /\ SideDemand(heavy)[u] \in Nat
      BY <1>16, SideDemandType
    <3> QED
      BY <1>20, <3>1
  <2>2. PICK j \in 1 .. n : x = result.users[j]
    BY <1>15, <2>1
  <2>3. Column(hp)[x] = p[j] /\ SideDemand(heavy)[x] = w[j] /\ p[j] \in Nat
    BY <1>4, <1>9, <1>16, <2>2
  <2>4. CASE u \notin Owners
    <3>1. Column(hp)[u] = 0
      BY <1>9, <2>4
    <3> QED
      BY <2>3, <3>1
  <2>5. CASE u \in Owners
    <3>1. PICK i \in 1 .. n : u = result.users[i]
      BY <1>15, <2>5
    <3>2. Column(hp)[u] = p[i] /\ SideDemand(heavy)[u] = w[i]
      BY <1>9, <1>16, <3>1
    <3> QED
      BY <1>2, <1>20, <2>3, <3>2
  <2> QED
    BY <2>4, <2>5
<1>21. ColumnTotal(lr) = 0 /\ ColumnTotal(hp) = ColumnTotal(lp)
  BY <1>1, <1>2, <1>7, <1>9, <1>10, <1>12
<1>22. ColumnTotal(hr) = frame.net_imbalance
  <2>1. ColumnTotal(hr) = Total(1 .. n, r)
    BY <1>11
  <2>2. th = tl + Total(1 .. n, r)
    BY <1>1, <1>2, <1>6
  <2> QED
    BY <1>1, <1>8, <1>14, <2>1, <2>2
<1>23. TotalDemand(light) <= sum
  BY <1>1
<1>24. tl = TotalDemand(light)
  BY <1>1
<1> QED
  BY <1>18, <1>19, <1>20, <1>21, <1>22, <1>23, <1>24 DEF FrameFacts, sum

LEMMA NoFillIsZero ==
  /\ NoFill["p2p_yes"] = 0 /\ NoFill["p2p_no"] = 0
  /\ NoFill["residual_yes"] = 0 /\ NoFill["residual_no"] = 0
BY DEF NoFill

(* The facts in terms of the direction that the header carries. *)
LEMMA FactsByDirection ==
  ASSUME Inv, result.ok, NoTotalWraps
  PROVE  IF YesHeavy
         THEN FrameFacts(Yes, No, "p2p_yes", "p2p_no", "residual_yes", "residual_no")
         ELSE FrameFacts(No, Yes, "p2p_no", "p2p_yes", "residual_no", "residual_yes")
<1>1. orders \in OrderSeq(Users)
  BY DEF Inv
<1>2. PICK n \in Nat : \E yes, no, ty, tn :
           /\ Listed(n)
           /\ \/ /\ YesHeavy
                 /\ HeavyFrame(n, Yes, No, "p2p_yes", "p2p_no", "residual_yes", "residual_no",
                               yes, no, ty, tn)
              \/ /\ ~YesHeavy
                 /\ HeavyFrame(n, No, Yes, "p2p_no", "p2p_yes", "residual_no", "residual_yes",
                               no, yes, tn, ty)
  BY HeavyCases
<1>3. PICK yes, no, ty, tn :
           /\ Listed(n)
           /\ \/ /\ YesHeavy
                 /\ HeavyFrame(n, Yes, No, "p2p_yes", "p2p_no", "residual_yes", "residual_no",
                               yes, no, ty, tn)
              \/ /\ ~YesHeavy
                 /\ HeavyFrame(n, No, Yes, "p2p_no", "p2p_yes", "residual_no", "residual_yes",
                               no, yes, tn, ty)
  BY <1>2
<1>4. CASE YesHeavy
  <2>1. Listed(n) /\ HeavyFrame(n, Yes, No, "p2p_yes", "p2p_no", "residual_yes", "residual_no",
                                yes, no, ty, tn)
    BY <1>3, <1>4
  <2>2. FrameFacts(Yes, No, "p2p_yes", "p2p_no", "residual_yes", "residual_no")
    BY <1>1, <2>1, NoFillIsZero, HeavyFrameFacts
  <2> QED
    BY <1>4, <2>2
<1>5. CASE ~YesHeavy
  <2>1. Listed(n) /\ HeavyFrame(n, No, Yes, "p2p_no", "p2p_yes", "residual_no", "residual_yes",
                                no, yes, tn, ty)
    BY <1>3, <1>5
  <2>2. FrameFacts(No, Yes, "p2p_no", "p2p_yes", "residual_no", "residual_yes")
    BY <1>1, <2>1, NoFillIsZero, HeavyFrameFacts
  <2> QED
    BY <1>5, <2>2
<1> QED
  BY <1>4, <1>5

LEMMA SettleableFromInv == Inv => FrameIsSettleable
<1> SUFFICES ASSUME Inv, result.ok, NoTotalWraps
             PROVE  /\ ColumnTotal(IF YesHeavy THEN "residual_no" ELSE "residual_yes") = 0
                    /\ ColumnTotal(IF YesHeavy THEN "residual_yes" ELSE "residual_no") = frame.net_imbalance
                    /\ ColumnTotal("p2p_yes") = ColumnTotal("p2p_no")
  BY DEF FrameIsSettleable
<1>1. CASE YesHeavy
  BY <1>1, FactsByDirection DEF FrameFacts
<1>2. CASE ~YesHeavy
  BY <1>2, FactsByDirection DEF FrameFacts
<1> QED
  BY <1>1, <1>2

LEMMA FilledFromInv == Inv => DemandIsFilled
<1> SUFFICES ASSUME Inv, result.ok, NoTotalWraps
             PROVE  \A u \in Users :
               /\ frame.fills[u].p2p_yes + frame.fills[u].residual_yes = SideDemand(Yes)[u]
               /\ frame.fills[u].p2p_no + frame.fills[u].residual_no = SideDemand(No)[u]
  BY DEF DemandIsFilled
<1>1. CASE YesHeavy
  BY <1>1, FactsByDirection DEF FrameFacts
<1>2. CASE ~YesHeavy
  BY <1>2, FactsByDirection DEF FrameFacts
<1> QED
  BY <1>1, <1>2

LEMMA TotalDemandType ==
  ASSUME orders \in OrderSeq(Users), NEW side
  PROVE  TotalDemand(side) \in Nat
<1>1. IsFiniteSet(Users)
  BY BatchAssumption
<1> DEFINE d == SideDemand(side)
<1>2. d \in [Users -> Nat]
  BY SideDemandType DEF SideDemand
<1> HIDE DEF d
<1>3. Total(Users, d) \in Nat
  BY <1>1, <1>2, TotalType
<1> QED
  BY <1>3 DEF TotalDemand, d

LEMMA ProRataFromInv == Inv => AllocationIsProRata
<1> DEFINE heavy == IF YesHeavy THEN Yes ELSE No
           light == IF YesHeavy THEN No ELSE Yes
           hp == IF YesHeavy THEN "p2p_yes" ELSE "p2p_no"
           matched == Smaller(TotalDemand(Yes), TotalDemand(No))
           ProRata ==
             \A u \in Users :
               /\ Column(hp)[u] * TotalDemand(heavy)
                    < matched * SideDemand(heavy)[u] + TotalDemand(heavy)
               /\ matched * SideDemand(heavy)[u]
                    < Column(hp)[u] * TotalDemand(heavy) + TotalDemand(heavy)
               /\ \A v \in Users : SideDemand(heavy)[u] < SideDemand(heavy)[v]
                                   => Column(hp)[u] <= Column(hp)[v]
<1>1. SUFFICES ASSUME Inv, result.ok, NoTotalWraps, TotalDemand(heavy) > 0
               PROVE  ProRata
  BY DEF AllocationIsProRata
<1>2. TotalDemand(Yes) \in Nat /\ TotalDemand(No) \in Nat
  BY <1>1, TotalDemandType DEF Inv
<1>3. CASE YesHeavy
  <2>1. FrameFacts(Yes, No, "p2p_yes", "p2p_no", "residual_yes", "residual_no")
    BY <1>1, <1>3, FactsByDirection
  <2>2. heavy = Yes /\ hp = "p2p_yes"
    BY <1>3
  <2>3. matched = TotalDemand(No)
    BY <1>2, <2>1 DEF FrameFacts, Smaller
  <2> HIDE DEF heavy, hp, matched
  <2> QED
    BY <1>1, <2>1, <2>2, <2>3 DEF FrameFacts
<1>4. CASE ~YesHeavy
  <2>1. FrameFacts(No, Yes, "p2p_no", "p2p_yes", "residual_no", "residual_yes")
    BY <1>1, <1>4, FactsByDirection
  <2>2. heavy = No /\ hp = "p2p_no"
    BY <1>4
  <2>3. matched = TotalDemand(Yes)
    BY <1>2, <2>1 DEF FrameFacts, Smaller
  <2> HIDE DEF heavy, hp, matched
  <2> QED
    BY <1>1, <2>1, <2>2, <2>3 DEF FrameFacts
<1> QED
  BY <1>3, <1>4

(* Whatever the totals revealed, no fill is negative. *)
LEMMA HeavyFrameTypes ==
  ASSUME NEW n \in Nat, Listed(n), orders \in OrderSeq(Users),
         NEW heavy, NEW light, NEW hp, NEW lp, NEW hr, NEW lr,
         NEW w, NEW v, NEW th, NEW tl, HeavyFrame(n, heavy, light, hp, lp, hr, lr, w, v, th, tl),
         NEW i \in 1 .. n
  PROVE  /\ result.fills[i][hp] \in Nat /\ result.fills[i][lp] \in Nat
         /\ result.fills[i][hr] \in Nat /\ result.fills[i][lr] \in Nat
<1> DEFINE p == AllocateExact(tl, w)
           sum == Total(1 .. n, w)
<1>1. /\ w \in Columns(n) /\ v \in Columns(n) /\ tl \in Nat /\ th \in Nat /\ tl <= th
      /\ th <= sum /\ sum = TotalDemand(heavy)
      /\ ExactFills(n, result.fills, hp, lp, hr, lr, w, v, p)
  BY DEF HeavyFrame
<1>2. tl <= sum
  <2>1. sum \in Nat
    BY <1>1, TotalDemandType
  <2> HIDE DEF sum
  <2> QED
    BY <1>1, <2>1
<1>3. p \in Columns(n) /\ p[i] <= w[i]
  BY <1>1, <1>2, AllocationIsExact
<1>4. /\ result.fills[i][hp] = p[i] /\ result.fills[i][lp] = v[i]
      /\ result.fills[i][hr] = w[i] - p[i] /\ result.fills[i][lr] = 0
  BY <1>1 DEF ExactFills
<1> HIDE DEF p
<1>5. p[i] \in Nat /\ w[i] \in Nat /\ v[i] \in Nat
  BY <1>1, <1>3 DEF Columns
<1> QED
  BY <1>3, <1>4, <1>5

LEMMA TypeFromInv == Inv => TypeOK
<1>1. SUFFICES ASSUME Inv, result.ok
               PROVE  /\ \A i \in DOMAIN result.fills : result.fills[i] \in UserFill
                      /\ \A i, j \in DOMAIN result.users : result.users[i] = result.users[j] => i = j
                      /\ {result.users[i] : i \in DOMAIN result.users} = {orders[i].user : i \in DOMAIN orders}
  BY DEF TypeOK
<1>2. orders \in OrderSeq(Users)
  BY <1>1 DEF Inv
<1>3. PICK n \in Nat : \E yes, no, ty, tn :
           /\ Listed(n)
           /\ \/ /\ YesHeavy
                 /\ HeavyFrame(n, Yes, No, "p2p_yes", "p2p_no", "residual_yes", "residual_no",
                               yes, no, ty, tn)
              \/ /\ ~YesHeavy
                 /\ HeavyFrame(n, No, Yes, "p2p_no", "p2p_yes", "residual_no", "residual_yes",
                               no, yes, tn, ty)
  BY <1>1, HeavyCases
<1>4. Listed(n)
  BY <1>3
<1>5. ASSUME NEW i \in 1 .. n
      PROVE  result.fills[i] \in UserFill
  <2>1. /\ result.fills[i]["p2p_yes"] \in Nat /\ result.fills[i]["p2p_no"] \in Nat
        /\ result.fills[i]["residual_yes"] \in Nat /\ result.fills[i]["residual_no"] \in Nat
    BY <1>2, <1>3, <1>4, HeavyFrameTypes
  <2>2. IsFill(result.fills[i])
    BY <1>4 DEF Listed
  <2> QED
    BY <2>1, <2>2 DEF IsFill, Fill, UserFill
<1>6. /\ DOMAIN result.users = 1 .. n /\ DOMAIN result.fills = 1 .. n
      /\ \A i, j \in 1 .. n : result.users[i] = result.users[j] => i = j
      /\ \A i \in 1 .. n : result.users[i] \in Owners
      /\ \A u \in Owners : \E i \in 1 .. n : result.users[i] = u
  BY <1>4 DEF Listed, Bijection, Injection, Surjection, IsInjective
<1>7. {result.users[i] : i \in DOMAIN result.users} = Owners
  BY <1>6
<1> QED
  BY <1>5, <1>6, <1>7 DEF Owners, OwnersOf

(* Every match is well-typed and lists every user of the batch once: no     *)
(* column underflows, whatever the quantities, even when totals wrap.       *)
THEOREM MatchIsTyped == Spec => []TypeOK
  BY Invariant, TypeFromInv, PTL

(* The engine's frame has its residual on one side only, adding up to the   *)
(* header's net_imbalance, and crosses Tier-1 volume in pairs.              *)
THEOREM FrameSettles == Spec => []FrameIsSettleable
  BY Invariant, SettleableFromInv, PTL

(* Every user is filled for exactly what it ordered on each side.           *)
THEOREM DemandFills == Spec => []DemandIsFilled
  BY Invariant, FilledFromInv, PTL

(* Tier-1 volume of the heavy side is split pro rata, rounded by less than  *)
(* one unit, and a larger demand never gets less.                           *)
THEOREM AllocationSplits == Spec => []AllocationIsProRata
  BY Invariant, ProRataFromInv, PTL

=============================================================================
