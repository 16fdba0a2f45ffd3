-------------------------- MODULE BatchBookProofs --------------------------
(***************************************************************************)
(* Proofs about the confidential path of one epoch, for any owners, orders, *)
(* capacities and bounds: the book counts what is folded into it, and what  *)
(* the relayer builds from a book opened once fills every user for exactly  *)
(* its orders in it; and used serially, the path loses and refuses nothing. *)
(***************************************************************************)
EXTENDS BatchBook, MatchingProofs

(***************************************************************************)
(* Types.                                                                   *)
(***************************************************************************)

OrderType == [side : {0, 1}, qty : Nat]

Content ==
  [readable : BOOLEAN, count : Nat, total_yes : Nat, total_no : Nat,
   orders : [Slots -> OrderType], folded : SUBSET Nat]

Computation ==
  [kind : {"init_book", "ingest_order", "clear_batch"}, slot : Nat, order : OrderType,
   owners : SUBSET Owners, nonce : Nat,
   status : {"queued", "executed", "finalized", "failed"}, output : Content]

Account ==
  [exists : BOOLEAN, inits : Nat, slot_count : 0 .. BATCH_BOOK_FIELDS, nonce : Nat,
   state : [nonce : Nat, content : Content]]

Typed ==
  /\ book \in Account
  /\ computations \in Seq(Computation)
  /\ registry \in [0 .. BATCH_BOOK_FIELDS - 1 -> SUBSET Owners]

(***************************************************************************)
(* What a book accounts for.                                                *)
(***************************************************************************)

(* What some computations amount to for a user, on one side. *)
FoldedOf(comps, folded, u, side) ==
  Total({i \in folded : comps[i].owners = {u} /\ comps[i].order.side = side},
        [i \in DOMAIN comps |-> comps[i].order.qty])

FoldedSide(comps, folded, side) == [u \in Owners |-> FoldedOf(comps, folded, u, side)]

(* A book holds what is folded into it: its count and its totals are those *)
(* of the folded orders, and an occupied slot holds one of them.            *)
Accounts(comps, content) ==
  /\ \A i \in content.folded : /\ i \in DOMAIN comps
                               /\ comps[i].kind = "ingest_order"
                               /\ comps[i].status # "queued"
  /\ content.count = Cardinality(content.folded)
  /\ content.total_yes = Total(Owners, FoldedSide(comps, content.folded, 0))
  /\ content.total_no = Total(Owners, FoldedSide(comps, content.folded, 1))
  /\ \A s \in Slots :
       content.orders[s].qty # 0 =>
         \E i \in content.folded : comps[i].slot = s /\ comps[i].order = content.orders[s]

(* Every computation stays what it is once queued, and never queues again. *)
Grows(old, new) ==
  \A i \in DOMAIN old :
    /\ i \in DOMAIN new
    /\ new[i].kind = old[i].kind /\ new[i].slot = old[i].slot
    /\ new[i].order = old[i].order /\ new[i].owners = old[i].owners
    /\ old[i].status # "queued" => new[i].status # "queued"

Filled(comps, r) ==
  \A u \in Owners :
    LET fill == r.verdict.frame.fills[u]
    IN  /\ fill.p2p_yes + fill.residual_yes = FoldedOf(comps, r.event.content.folded, u, 0)
        /\ fill.p2p_no + fill.residual_no = FoldedOf(comps, r.event.content.folded, u, 1)

(***************************************************************************)
(* The inductive invariant.                                                 *)
(***************************************************************************)

Owned == \A i \in DOMAIN computations :
           computations[i].kind = "ingest_order" => \E u \in Owners : computations[i].owners = {u}

Accounted ==
  /\ Accounts(computations, book.state.content)
  /\ \A i \in DOMAIN computations : Accounts(computations, computations[i].output)
  /\ \A e \in cleared : e.content \in Content /\ Accounts(computations, e.content)

(* The slots of a book that is opened at most once are taken once, and the *)
(* registry has who took each.                                              *)
Attributed ==
  /\ book.inits = 0 => ~book.exists
  /\ ~book.exists => computations = <<>>
  /\ book.inits <= 1 =>
       \A i \in DOMAIN computations :
         computations[i].kind = "ingest_order" =>
           /\ computations[i].slot < book.slot_count
           /\ registry[computations[i].slot] = computations[i].owners

RelayedFills ==
  \A r \in relayed : /\ r.event \in cleared
                     /\ book.inits <= 1 /\ r.verdict.ok => Filled(computations, r)

BookInv == Typed /\ Owned /\ Accounted /\ Attributed /\ RelayedFills

(***************************************************************************)
(* Sums over the folded orders.                                             *)
(***************************************************************************)

LEMMA CountsAreNumbers ==
  /\ BATCH_CAP \in Nat /\ BATCH_BOOK_FIELDS \in Nat /\ MaxInits \in Nat /\ MaxClears \in Nat
  /\ IsFiniteSet(Owners)
  /\ \A u \in Owners : Wish[u] \in OrderType
<1>1. U64Max \in Nat
  BY SizesAssumption
<1> QED
  BY <1>1, BookAssumption DEF OrderType

LEMMA ComputationFields ==
  \A c \in Computation :
    /\ c.slot \in Nat /\ c.order \in OrderType /\ c.order.qty \in Nat /\ c.order.side \in {0, 1}
    /\ c.nonce \in Nat /\ c.output \in Content
BY DEF Computation, OrderType

LEMMA ComputationsTyped ==
  ASSUME NEW comps \in Seq(Computation)
  PROVE  /\ DOMAIN comps \in SUBSET Nat /\ IsFiniteSet(DOMAIN comps)
         /\ \A i \in DOMAIN comps : comps[i] \in Computation
<1> HIDE DEF Computation
<1>1. Len(comps) \in Nat /\ DOMAIN comps = 1 .. Len(comps) /\ comps \in [1 .. Len(comps) -> Computation]
  BY LenProperties
<1>2. IsFiniteSet(1 .. Len(comps))
  BY <1>1, FS_Interval
<1> QED
  BY <1>1, <1>2

(* A sum over part of a function's domain. *)
LEMMA TotalPart ==
  ASSUME NEW D, NEW f \in [D -> Nat], NEW S \in SUBSET D, IsFiniteSet(S)
  PROVE  /\ Total(S, f) \in Nat
         /\ Total(S, f) = Total(S, [s \in S |-> f[s]])
         /\ \A x \in S : Total(S, f) = Total(S \ {x}, f) + f[x]
<1> DEFINE g == [s \in S |-> f[s]]
<1>1. g \in [S -> Nat] /\ \A s \in S : f[s] = g[s]
  OBVIOUS
<1> HIDE DEF g
<1>2. Total(S, f) = Total(S, g)
  BY <1>1, TotalEqual
<1>3. Total(S, g) \in Nat
  BY <1>1, TotalType
<1>4. ASSUME NEW x \in S
      PROVE  Total(S, f) = Total(S \ {x}, f) + f[x]
  <2>1. Total(S, g) = Total(S \ {x}, g) + g[x]
    BY <1>1, TotalInsert
  <2>2. \A s \in S \ {x} : f[s] = g[s]
    BY <1>1
  <2>3. Total(S \ {x}, f) = Total(S \ {x}, g)
    BY <2>2, TotalEqual
  <2> QED
    BY <1>1, <1>2, <2>1, <2>3
<1> QED
  BY <1>2, <1>3, <1>4 DEF g

LEMMA FoldedType ==
  ASSUME NEW comps \in Seq(Computation), NEW F \in SUBSET DOMAIN comps, NEW side
  PROVE  /\ \A u : FoldedOf(comps, F, u, side) \in Nat
         /\ FoldedSide(comps, F, side) \in [Owners -> Nat]
         /\ \A u \in Owners : FoldedSide(comps, F, side)[u] = FoldedOf(comps, F, u, side)
         /\ Total(Owners, FoldedSide(comps, F, side)) \in Nat
<1>1. ASSUME NEW u
      PROVE  FoldedOf(comps, F, u, side) \in Nat
  <2> DEFINE S == {i \in F : comps[i].owners = {u} /\ comps[i].order.side = side}
             q == [i \in DOMAIN comps |-> comps[i].order.qty]
  <2>1. S \in SUBSET DOMAIN comps /\ IsFiniteSet(S)
    BY ComputationsTyped, FS_Subset
  <2>2. q \in [DOMAIN comps -> Nat]
    BY ComputationsTyped, ComputationFields
  <2>3. FoldedOf(comps, F, u, side) = Total(S, q)
    BY DEF FoldedOf
  <2> DEFINE D == DOMAIN comps
  <2>4. q \in [D -> Nat] /\ S \in SUBSET D /\ IsFiniteSet(S)
    BY <2>1, <2>2
  <2> HIDE DEF S, q, D
  <2>5. Total(S, q) \in Nat
    BY <2>4, TotalPart
  <2> QED
    BY <2>3, <2>5
<1>2. FoldedSide(comps, F, side) \in [Owners -> Nat]
  BY <1>1 DEF FoldedSide
<1>3. \A u \in Owners : FoldedSide(comps, F, side)[u] = FoldedOf(comps, F, u, side)
  BY DEF FoldedSide
<1>4. Total(Owners, FoldedSide(comps, F, side)) \in Nat
  BY <1>2, CountsAreNumbers, TotalType
<1> QED
  BY <1>1, <1>2, <1>3, <1>4

(* What is folded is not changed by later computations. *)
LEMMA FoldedKept ==
  ASSUME NEW old, NEW new, Grows(old, new), NEW F \in SUBSET DOMAIN old, NEW u, NEW side
  PROVE  FoldedOf(new, F, u, side) = FoldedOf(old, F, u, side)
<1> DEFINE S(comps) == {i \in F : comps[i].owners = {u} /\ comps[i].order.side = side}
           q(comps) == [i \in DOMAIN comps |-> comps[i].order.qty]
<1>1. S(new) = S(old)
  BY DEF Grows
<1>2. \A i \in S(old) : q(new)[i] = q(old)[i]
  BY DEF Grows
<1>3. FoldedOf(new, F, u, side) = Total(S(new), q(new)) /\ FoldedOf(old, F, u, side) = Total(S(old), q(old))
  BY DEF FoldedOf
<1> HIDE DEF S, q
<1>4. Total(S(old), q(new)) = Total(S(old), q(old))
  BY <1>2, TotalEqual
<1> QED
  BY <1>1, <1>3, <1>4

LEMMA AccountsKept ==
  ASSUME NEW old, NEW new, Grows(old, new), NEW content, Accounts(old, content)
  PROVE  Accounts(new, content)
<1> DEFINE F == content.folded
<1>1. F \in SUBSET DOMAIN old
  BY DEF Accounts
<1>2. \A side : FoldedSide(new, F, side) = FoldedSide(old, F, side)
  <2>1. \A u, side : FoldedOf(new, F, u, side) = FoldedOf(old, F, u, side)
    BY <1>1, FoldedKept
  <2> QED
    BY <2>1 DEF FoldedSide
<1>3. \A i \in F : /\ i \in DOMAIN new
                   /\ new[i].kind = "ingest_order"
                   /\ new[i].status # "queued"
  BY DEF Accounts, Grows
<1>4. \A i \in F : new[i].slot = old[i].slot /\ new[i].order = old[i].order
  BY <1>1 DEF Grows
<1>5. \A s \in Slots : content.orders[s].qty # 0 =>
         \E i \in content.folded : new[i].slot = s /\ new[i].order = content.orders[s]
  BY <1>4 DEF Accounts
<1> QED
  BY <1>2, <1>3, <1>5 DEF Accounts

LEMMA FilledKept ==
  ASSUME NEW old, NEW new, Grows(old, new), NEW r, Accounts(old, r.event.content), Filled(old, r)
  PROVE  Filled(new, r)
<1> DEFINE F == r.event.content.folded
<1>1. F \in SUBSET DOMAIN old
  BY DEF Accounts
<1>2. \A u, side : FoldedOf(new, F, u, side) = FoldedOf(old, F, u, side)
  BY <1>1, FoldedKept
<1> QED
  BY <1>2 DEF Filled

(***************************************************************************)
(* The circuits.                                                            *)
(***************************************************************************)

(* Nothing is folded into an empty book. *)
LEMMA EmptyAccounts ==
  ASSUME NEW comps, NEW content \in {EmptyBook, Unreadable}
  PROVE  content \in Content /\ Accounts(comps, content) /\ content.folded = {}
<1>1. /\ content.folded = {} /\ content.count = 0 /\ content.total_yes = 0 /\ content.total_no = 0
      /\ \A s \in Slots : content.orders[s].qty = 0
      /\ content \in Content
  <2>1. [s \in Slots |-> [side |-> 0, qty |-> 0]] \in [Slots -> OrderType]
    BY DEF OrderType
  <2> DEFINE none == [s \in Slots |-> [side |-> 0, qty |-> 0]]
  <2>2. \E b \in BOOLEAN :
          content = [readable |-> b, count |-> 0, total_yes |-> 0, total_no |-> 0,
                     orders |-> none, folded |-> {}]
    BY DEF EmptyBook, Unreadable
  <2>3. \A s \in Slots : none[s].qty = 0
    OBVIOUS
  <2> HIDE DEF none
  <2> QED
    BY <2>1, <2>2, <2>3 DEF Content, none
<1>2. ASSUME NEW side
      PROVE  Total(Owners, FoldedSide(comps, {}, side)) = 0
  <2>1. \A u \in Owners : FoldedSide(comps, {}, side)[u] = 0
    <3>1. ASSUME NEW u
          PROVE  FoldedOf(comps, {}, u, side) = 0
      BY TotalZero DEF FoldedOf
    <3> QED
      BY <3>1 DEF FoldedSide
  <2> QED
    BY <2>1, TotalZero
<1>3. Cardinality({}) = 0
  BY FS_EmptySet
<1> QED
  BY <1>1, <1>2, <1>3 DEF Accounts

QtyOn(order, side) == IF order.side = side THEN order.qty ELSE 0

(* Folding an order adds its quantity to its owner's, on its side. *)
LEMMA FoldedAdded ==
  ASSUME NEW comps \in Seq(Computation), NEW F \in SUBSET DOMAIN comps,
         NEW i \in DOMAIN comps, i \notin F, NEW G, G = F \cup {i},
         NEW u \in Owners, comps[i].owners = {u}, NEW side
  PROVE  Total(Owners, FoldedSide(comps, G, side))
           = Total(Owners, FoldedSide(comps, F, side)) + QtyOn(comps[i].order, side)
<1> DEFINE old(v) == {j \in F : comps[j].owners = {v} /\ comps[j].order.side = side}
           new(v) == {j \in G : comps[j].owners = {v} /\ comps[j].order.side = side}
           q == [j \in DOMAIN comps |-> comps[j].order.qty]
           f == FoldedSide(comps, F, side)
           g == FoldedSide(comps, G, side)
<1>1. G \in SUBSET DOMAIN comps
  OBVIOUS
<1>2. /\ f \in [Owners -> Nat] /\ \A v \in Owners : f[v] = FoldedOf(comps, F, v, side)
      /\ g \in [Owners -> Nat] /\ \A v \in Owners : g[v] = FoldedOf(comps, G, v, side)
      /\ Total(Owners, f) \in Nat /\ Total(Owners, g) \in Nat
  BY <1>1, FoldedType
<1>3. /\ \A v : FoldedOf(comps, F, v, side) = Total(old(v), q)
      /\ \A v : FoldedOf(comps, G, v, side) = Total(new(v), q)
  BY DEF FoldedOf
<1>4. \A v \in Owners \ {u} : new(v) = old(v)
  OBVIOUS
<1>5. comps[i].order.side = side => old(u) = new(u) \ {i} /\ i \in new(u)
  OBVIOUS
<1>6. comps[i].order.side # side => old(u) = new(u)
  OBVIOUS
<1>7. q \in [DOMAIN comps -> Nat] /\ q[i] = comps[i].order.qty
  BY ComputationsTyped, ComputationFields
<1>8. new(u) \in SUBSET DOMAIN comps /\ IsFiniteSet(new(u))
  BY ComputationsTyped, FS_Subset
<1> HIDE DEF old, new, q, f, g
<1>9. comps[i].order.side = side => Total(new(u), q) = Total(old(u), q) + q[i]
  <2> SUFFICES ASSUME comps[i].order.side = side
               PROVE  Total(new(u), q) = Total(old(u), q) + q[i]
    OBVIOUS
  <2> DEFINE T == new(u)
  <2>1. old(u) = T \ {i} /\ i \in T
    BY <1>5
  <2>2. T \in SUBSET DOMAIN comps /\ IsFiniteSet(T)
    BY <1>8
  <2>3. \A x \in T : Total(T, q) = Total(T \ {x}, q) + q[x]
    <3> DEFINE D == DOMAIN comps
    <3>1. q \in [D -> Nat] /\ T \in SUBSET D /\ IsFiniteSet(T)
      BY <1>7, <2>2
    <3> HIDE DEF T, D
    <3> QED
      BY <3>1, TotalPart, ZenonT(30)
  <2> QED
    BY <2>1, <2>3
<1>10. \A v \in Owners \ {u} : g[v] = f[v]
  <2> TAKE v \in Owners \ {u}
  <2>1. Total(new(v), q) = Total(old(v), q)
    BY <1>4
  <2> QED
    BY <1>2, <1>3, <2>1
<1>11. Total(Owners, g) + f[u] = Total(Owners, f) + g[u]
  <2>1. /\ IsFiniteSet(Owners) /\ u \in Owners
        /\ f \in [Owners -> Nat] /\ g \in [Owners -> Nat]
    BY <1>2, CountsAreNumbers
  <2> QED
    BY <2>1, <1>10, TotalUpdate
<1>12. g[u] = f[u] + (IF comps[i].order.side = side THEN comps[i].order.qty ELSE 0)
  <2>1. f[u] \in Nat
    BY <1>2
  <2>2. CASE comps[i].order.side = side
    BY <1>2, <1>3, <1>7, <1>9, <2>2
  <2>3. CASE comps[i].order.side # side
    <3>1. g[u] = f[u]
      <4>1. old(u) = new(u)
        BY <1>6, <2>3
      <4>2. Total(old(u), q) = Total(new(u), q)
        BY <4>1
      <4> QED
        BY <1>2, <1>3, <4>2
    <3> QED
      BY <2>1, <2>3, <3>1
  <2> QED
    BY <2>2, <2>3
<1>13. f[u] \in Nat /\ Total(Owners, f) \in Nat /\ Total(Owners, g) \in Nat
  BY <1>2
<1>14. (IF comps[i].order.side = side THEN comps[i].order.qty ELSE 0) \in Nat
  BY ComputationsTyped, ComputationFields
<1> QED
  <2> DEFINE x == IF comps[i].order.side = side THEN comps[i].order.qty ELSE 0
  <2>1. x \in Nat /\ g[u] = f[u] + x
    BY <1>12, <1>14
  <2> HIDE DEF x
  <2>2. Total(Owners, g) = Total(Owners, f) + x
    BY <1>11, <1>13, <2>1, SMTT(30)
  <2> QED
    BY <2>2 DEF x, f, g, QtyOn

(* An order that is not in the book yet is folded into it. *)
LEMMA FoldAccounts ==
  ASSUME NEW comps \in Seq(Computation), NEW content \in Content, Accounts(comps, content),
         NEW i \in DOMAIN comps, i \notin content.folded,
         comps[i].kind = "ingest_order", comps[i].status # "queued",
         NEW u \in Owners, comps[i].owners = {u},
         NEW slot, slot = comps[i].slot, NEW order, order = comps[i].order,
         NEW new, new = FoldOrder(content, slot, order, i)
  PROVE  new \in Content /\ Accounts(comps, new)
<1> DEFINE F == content.folded
           G == F \cup {i}
           y == IF order.side = 0 THEN order.qty ELSE 0
           n == IF order.side = 0 THEN 0 ELSE order.qty
<1>1. CASE ~content.readable
  <2>1. new = Unreadable
    BY <1>1 DEF FoldOrder
  <2> QED
    BY <2>1, EmptyAccounts
<1>2. CASE content.readable
  <2>1. new = [content EXCEPT
                 !.count = @ + 1, !.total_yes = @ + y, !.total_no = @ + n,
                 !.orders = [s \in Slots |-> IF s = slot THEN order ELSE @[s]],
                 !.folded = @ \cup {i}]
    BY <1>2 DEF FoldOrder
  <2>2. order \in OrderType /\ order.qty \in Nat /\ order.side \in {0, 1}
    BY ComputationsTyped, ComputationFields
  <2>3. y \in Nat /\ n \in Nat
    BY <2>2
  <2>4. i \in Nat /\ F \in SUBSET DOMAIN comps /\ IsFiniteSet(F)
    <3>1. F \in SUBSET DOMAIN comps
      BY DEF Accounts
    <3> QED
      BY <3>1, ComputationsTyped, FS_Subset
  <2> HIDE DEF y, n
  <2>f. \A side : Total(Owners, FoldedSide(comps, G, side))
                    = Total(Owners, FoldedSide(comps, F, side)) + QtyOn(comps[i].order, side)
    <3>1. F \in SUBSET DOMAIN comps /\ i \notin F /\ G = F \cup {i}
      BY <2>4
    <3> HIDE DEF F, G
    <3> QED
      BY <3>1, FoldedAdded
  <2>5. /\ content.count \in Nat /\ content.total_yes \in Nat /\ content.total_no \in Nat
        /\ content.orders \in [Slots -> OrderType] /\ content.folded \in SUBSET Nat
    BY DEF Content
  <2>6. /\ new.count = content.count + 1
        /\ new.total_yes = content.total_yes + y
        /\ new.total_no = content.total_no + n
        /\ new.orders = [s \in Slots |-> IF s = slot THEN order ELSE content.orders[s]]
        /\ new.folded = G
    BY <2>1 DEF Content
  <2>7. new \in Content
    <3> HIDE DEF OrderType
    <3>1. content.count + 1 \in Nat /\ content.total_yes + y \in Nat /\ content.total_no + n \in Nat
      BY <2>3, <2>5, SMTT(30)
    <3>2. [s \in Slots |-> IF s = slot THEN order ELSE content.orders[s]] \in [Slots -> OrderType]
      BY <2>2, <2>5
    <3>3. content.folded \cup {i} \in SUBSET Nat
      BY <2>4, <2>5
    <3>4. content = [readable |-> content.readable, count |-> content.count,
                     total_yes |-> content.total_yes, total_no |-> content.total_no,
                     orders |-> content.orders, folded |-> content.folded]
          /\ content.readable \in BOOLEAN
      BY DEF Content
    <3>5. new = [readable |-> content.readable, count |-> content.count + 1,
                 total_yes |-> content.total_yes + y, total_no |-> content.total_no + n,
                 orders |-> [s \in Slots |-> IF s = slot THEN order ELSE content.orders[s]],
                 folded |-> content.folded \cup {i}]
      BY <2>1, <3>4
    <3> QED
      BY <3>1, <3>2, <3>3, <3>4, <3>5 DEF Content
  <2>8. \A j \in G : j \in DOMAIN comps /\ comps[j].kind = "ingest_order" /\ comps[j].status # "queued"
    BY DEF Accounts
  <2>9. new.count = Cardinality(G)
    <3>1. Cardinality(G) = Cardinality(F) + 1
      BY <2>4, FS_AddElement
    <3> QED
      BY <2>6, <3>1 DEF Accounts
  <2>10. new.total_yes = Total(Owners, FoldedSide(comps, G, 0))
    <3>1. Total(Owners, FoldedSide(comps, G, 0))
            = Total(Owners, FoldedSide(comps, F, 0)) + QtyOn(comps[i].order, 0)
      BY <2>f
    <3>2. content.total_yes = Total(Owners, FoldedSide(comps, F, 0))
      BY DEF Accounts
    <3> QED
      BY <2>6, <3>1, <3>2 DEF y, QtyOn
  <2>11. new.total_no = Total(Owners, FoldedSide(comps, G, 1))
    <3>1. Total(Owners, FoldedSide(comps, G, 1))
            = Total(Owners, FoldedSide(comps, F, 1)) + QtyOn(comps[i].order, 1)
      BY <2>f
    <3>2. content.total_no = Total(Owners, FoldedSide(comps, F, 1))
      BY DEF Accounts
    <3>3. n = QtyOn(comps[i].order, 1)
      BY <2>2 DEF n, QtyOn
    <3> QED
      BY <2>6, <3>1, <3>2, <3>3
  <2>12. ASSUME NEW s \in Slots, new.orders[s].qty # 0
         PROVE  \E j \in G : comps[j].slot = s /\ comps[j].order = new.orders[s]
    <3>1. CASE s = slot
      BY <2>6, <3>1
    <3>2. CASE s # slot
      BY <2>6, <2>12, <3>2 DEF Accounts
    <3> QED
      BY <3>1, <3>2
  <2> QED
    BY <2>6, <2>7, <2>8, <2>9, <2>10, <2>11, <2>12 DEF Accounts
<1> QED
  BY <1>1, <1>2

(***************************************************************************)
(* What the relayer builds from a revealed book.                            *)
(***************************************************************************)

(* Every active slot was folded by its owner in the registry. *)
LEMMA ActiveSlotsFolded ==
  ASSUME Typed, Owned, Attributed, book.inits <= 1,
         NEW e, e.content \in Content, Accounts(computations, e.content),
         e.content.count <= BATCH_CAP,
         NEW s \in ActiveSlots(e)
  PROVE  /\ s \in Slots
         /\ \E i \in e.content.folded :
              /\ computations[i].slot = s
              /\ computations[i].order = e.content.orders[s]
              /\ OwnerOf(s) \in Owners
              /\ computations[i].owners = {OwnerOf(s)}
<1>1. s \in Slots
  <2>1. e.content.count \in Nat
    BY DEF Content
  <2> QED
    BY <2>1, CountsAreNumbers DEF ActiveSlots, Slots
<1>2. e.content.orders[s].qty # 0
  BY DEF ActiveSlots
<1>3. PICK i \in e.content.folded : computations[i].slot = s /\ computations[i].order = e.content.orders[s]
  BY <1>1, <1>2 DEF Accounts
<1>4. i \in DOMAIN computations /\ computations[i].kind = "ingest_order"
  BY DEF Accounts
<1>5. PICK u \in Owners : computations[i].owners = {u}
  BY <1>4 DEF Owned
<1>6. registry[s] = {u}
  BY <1>3, <1>4, <1>5 DEF Attributed
<1>7. OwnerOf(s) \in Owners /\ registry[s] = {OwnerOf(s)}
  BY <1>6 DEF OwnerOf
<1>8. OwnerOf(s) = u
  BY <1>6, <1>7
<1> QED
  BY <1>1, <1>3, <1>5, <1>8

SideOf(side) == IF side = 0 THEN Yes ELSE No

(* The reconstructed orders are orders of the owners. *)
LEMMA ReconstructedTypes ==
  ASSUME Typed, Owned, Attributed, book.inits <= 1,
         NEW e, e.content \in Content, Accounts(computations, e.content),
         e.content.count <= BATCH_CAP
  PROVE  /\ ActiveSlots(e) \in SUBSET Nat /\ IsFiniteSet(ActiveSlots(e))
         /\ ReconstructedOrders(e) \in OrderSeq(Owners)
<1> DEFINE A == ActiveSlots(e)
           n == Cardinality(A)
           O == [user : Owners, side : Sides, qty : Nat]
           R == ReconstructedOrders(e)
<1>1. A \in SUBSET Nat /\ IsFiniteSet(A)
  <2>1. A \in SUBSET Slots
    BY ActiveSlotsFolded
  <2>2. Slots \in SUBSET Nat
    BY CountsAreNumbers DEF Slots
  <2>3. IsFiniteSet(Slots)
    BY CountsAreNumbers, FS_Interval DEF Slots
  <2> QED
    BY <2>1, <2>2, <2>3, FS_Subset
<1>2. n \in Nat /\ \A k \in 1 .. n : Nth(A, k) \in A
  <2> HIDE DEF A
  <2> QED
    BY <1>1, NthNumbers
<1>3. ASSUME NEW s \in A
      PROVE  [user |-> OwnerOf(s), side |-> SideOf(e.content.orders[s].side),
              qty |-> e.content.orders[s].qty] \in O
  <2>1. s \in Slots /\ OwnerOf(s) \in Owners
    BY ActiveSlotsFolded
  <2>2. e.content.orders[s].qty \in Nat
    BY <2>1 DEF Content, OrderType
  <2> QED
    BY <2>1, <2>2 DEF SideOf, Sides
<1>4. R = [k \in 1 .. n |-> [user |-> OwnerOf(Nth(A, k)), side |-> SideOf(e.content.orders[Nth(A, k)].side),
                             qty |-> e.content.orders[Nth(A, k)].qty]]
  BY DEF ReconstructedOrders, SideOf
<1> HIDE DEF A, n, O, R
<1>5. R \in [1 .. n -> O]
  BY <1>2, <1>3, <1>4
<1>6. R \in Seq(O)
  BY <1>2, <1>5, IsASeq
<1> QED
  BY <1>1, <1>6 DEF O, A, R, OrderSeq

(* No user demands more than what is folded for it: every active slot is    *)
(* an order of its own.                                                     *)
LEMMA DemandIsFolded ==
  ASSUME Typed, Owned, Attributed, book.inits <= 1,
         NEW e, e.content \in Content, Accounts(computations, e.content),
         e.content.count <= BATCH_CAP,
         NEW side \in {0, 1}, NEW u \in Owners
  PROVE  Demand(ReconstructedOrders(e), u, SideOf(side)) <= FoldedOf(computations, e.content.folded, u, side)
<1> DEFINE A == ActiveSlots(e)
           n == Cardinality(A)
           R == ReconstructedOrders(e)
           F == e.content.folded
           S == {k \in DOMAIN R : R[k].user = u /\ R[k].side = SideOf(side)}
           T == {i \in F : computations[i].owners = {u} /\ computations[i].order.side = side}
           qR == [k \in DOMAIN R |-> R[k].qty]
           qC == [i \in DOMAIN computations |-> computations[i].order.qty]
           Source(s, i) == /\ computations[i].slot = s
                           /\ computations[i].order = e.content.orders[s]
                           /\ computations[i].owners = {OwnerOf(s)}
           source(k) == CHOOSE i \in F : Source(Nth(A, k), i)
           b == [k \in S |-> source(k)]
           f == [k \in S |-> qR[k]]
           g == [i \in T |-> qC[i]]
<1>1. A \in SUBSET Nat /\ IsFiniteSet(A) /\ R \in OrderSeq(Owners)
  BY ReconstructedTypes
<1>2. /\ n \in Nat
      /\ \A k \in 1 .. n : Nth(A, k) \in A
      /\ \A k, l \in 1 .. n : Nth(A, k) = Nth(A, l) => k = l
  <2> HIDE DEF A
  <2> QED
    BY <1>1, NthNumbers
<1>3. \A s \in A : \E i \in F : Source(s, i)
  BY ActiveSlotsFolded
<1>4. /\ DOMAIN R = 1 .. n
      /\ \A k \in 1 .. n : /\ R[k].user = OwnerOf(Nth(A, k))
                           /\ R[k].side = SideOf(e.content.orders[Nth(A, k)].side)
                           /\ R[k].qty = e.content.orders[Nth(A, k)].qty
  BY DEF ReconstructedOrders, SideOf
<1>5. \A s \in A : e.content.orders[s].side \in {0, 1}
  BY ActiveSlotsFolded DEF Content, OrderType
<1>6. \A k \in 1 .. n : source(k) \in F /\ Source(Nth(A, k), source(k))
  BY <1>2, <1>3, SMTT(30)
<1>7. \A k \in S : source(k) \in T
  <2> SUFFICES ASSUME NEW k \in S PROVE source(k) \in T
    OBVIOUS
  <2>1. k \in 1 .. n /\ R[k].user = u /\ R[k].side = SideOf(side)
    BY <1>4
  <2>2. source(k) \in F /\ Source(Nth(A, k), source(k))
    BY <1>6, <2>1
  <2>3. computations[source(k)].owners = {u}
    BY <1>4, <2>1, <2>2
  <2>4. computations[source(k)].order.side = side
    <3> DEFINE d == e.content.orders[Nth(A, k)].side
    <3>1. d \in {0, 1}
      BY <1>2, <1>5, <2>1
    <3>2. SideOf(d) = SideOf(side)
      BY <1>4, <2>1
    <3>3. computations[source(k)].order.side = d
      BY <2>2
    <3> HIDE DEF d
    <3>4. d = side
      BY <3>1, <3>2 DEF SideOf, Yes, No
    <3> QED
      BY <3>3, <3>4
  <2> QED
    BY <2>2, <2>3, <2>4
<1>8. \A k, l \in S : source(k) = source(l) => k = l
  <2> SUFFICES ASSUME NEW k \in S, NEW l \in S, source(k) = source(l) PROVE k = l
    OBVIOUS
  <2>1. k \in 1 .. n /\ l \in 1 .. n
    BY <1>4
  <2>2. Nth(A, k) = Nth(A, l)
    BY <1>6, <2>1
  <2> QED
    BY <1>2, <2>1, <2>2
<1>9. b \in Injection(S, T)
  BY <1>7, <1>8, ZenonT(30) DEF Injection, IsInjective
<1>10. F \in SUBSET DOMAIN computations
  BY DEF Accounts
<1>11. \A k \in S : qR[k] = qC[source(k)]
  <2> SUFFICES ASSUME NEW k \in S PROVE qR[k] = qC[source(k)]
    OBVIOUS
  <2>1. k \in 1 .. n /\ k \in DOMAIN R
    BY <1>4
  <2>2. source(k) \in DOMAIN computations /\ computations[source(k)].order = e.content.orders[Nth(A, k)]
    BY <1>6, <1>10, <2>1
  <2> QED
    BY <1>4, <2>1, <2>2
<1>12. /\ T \in SUBSET DOMAIN computations /\ IsFiniteSet(T)
       /\ qC \in [DOMAIN computations -> Nat]
  <2>1. computations \in Seq(Computation)
    BY DEF Typed
  <2>2. T \in SUBSET DOMAIN computations /\ IsFiniteSet(T)
    BY <1>10, <2>1, ComputationsTyped, FS_Subset
  <2>3. qC \in [DOMAIN computations -> Nat]
    BY <2>1, ComputationsTyped, ComputationFields
  <2> QED
    BY <2>2, <2>3
<1>13. qR \in [DOMAIN R -> Nat]
  <2>1. \A k \in DOMAIN R : R[k].qty \in Nat
    BY <1>1, OrderTypes
  <2> QED
    BY <2>1
<1>14. S \in SUBSET DOMAIN R
  OBVIOUS
<1>15. Demand(R, u, SideOf(side)) = Total(S, qR) /\ FoldedOf(computations, F, u, side) = Total(T, qC)
  BY SMTT(30) DEF Demand, FoldedOf
<1>16. \A k \in S : f[k] = qR[k] /\ b[k] = source(k)
  OBVIOUS
<1>17. \A i \in T : g[i] = qC[i]
  OBVIOUS
<1> HIDE DEF S, T, qR, qC, source, b, A, n, R, F
<1>18. f \in [S -> Nat] /\ g \in [T -> Nat]
  BY <1>12, <1>13, <1>14
<1>19. \A k \in S : f[k] <= g[b[k]]
  <2> SUFFICES ASSUME NEW k \in S PROVE f[k] <= g[b[k]]
    OBVIOUS
  <2>1. f[k] \in Nat
    BY <1>18
  <2>2. f[k] = g[b[k]]
    BY <1>7, <1>11, <1>16, <1>17
  <2> QED
    BY <2>1, <2>2
<1> HIDE DEF f, g
<1>20. Total(S, f) <= Total(T, g)
  BY <1>9, <1>12, <1>18, <1>19, TotalInjection
<1>21. Total(S, qR) = Total(S, f)
  BY <1>16, TotalEqual
<1>22. Total(T, qC) = Total(T, g)
  BY <1>17, TotalEqual
<1> QED
  BY <1>15, <1>20, <1>21, <1>22 DEF R, F

(* What passes the cross-check fills every user for exactly what is folded: *)
(* the matched totals are at most what the slots demand, those at most what *)
(* is folded, and the revealed totals are what is folded.                   *)
LEMMA RelayFills ==
  ASSUME Typed, Owned, Attributed, book.inits <= 1,
         NEW e, e.content \in Content, Accounts(computations, e.content),
         NEW r, r.event = e, r.verdict = Relay(e), r.verdict.ok
  PROVE  Filled(computations, r)
<1> DEFINE R == ReconstructedOrders(e)
           F == e.content.folded
           res == MatchBatch(R)
           fr == BuildFrame(Owners, 1, res)
           fd(side) == FoldedSide(computations, F, side)
           dm(side) == Demands(Owners, R, side)
<1>1. /\ e.content.count <= BATCH_CAP
      /\ res.ok /\ CrossChecked(e, res)
      /\ r.verdict.frame = fr
  <2>1. ~Refused.ok
    BY DEF Refused
  <2>2. e.content.count \in Nat
    BY DEF Content
  <2> QED
    BY <2>1, <2>2, CountsAreNumbers DEF Relay
<1>2. R \in OrderSeq(Owners) /\ IsFiniteSet(Owners)
  BY <1>1, ReconstructedTypes, CountsAreNumbers
<1>3. /\ \A u \in Owners :
           /\ fr.fills[u].p2p_yes + fr.fills[u].residual_yes = Demand(R, u, Yes)
           /\ fr.fills[u].p2p_no + fr.fills[u].residual_no = Demand(R, u, No)
      /\ res.total_yes \in Nat /\ res.total_yes <= Total(Owners, dm(Yes))
      /\ res.total_no \in Nat /\ res.total_no <= Total(Owners, dm(No))
  <2> HIDE DEF R, res, fr
  <2>1. res = MatchBatch(R) /\ res.ok /\ fr = BuildFrame(Owners, 1, res)
    BY <1>1 DEF res, fr
  <2> QED
    BY <1>2, <2>1, MatchFills
<1>4. F \in SUBSET DOMAIN computations /\ computations \in Seq(Computation)
  BY DEF Accounts, Typed
<1>5. /\ res.total_yes = Total(Owners, fd(0))
      /\ res.total_no = Total(Owners, fd(1))
  BY <1>1 DEF CrossChecked, Accounts
<1>6. \A side : /\ fd(side) \in [Owners -> Nat]
                /\ \A u \in Owners : fd(side)[u] = FoldedOf(computations, F, u, side)
  <2> HIDE DEF F
  <2> QED
    BY <1>4, FoldedType
<1>7. ASSUME NEW side
      PROVE  /\ dm(side) \in [Owners -> Nat]
             /\ \A u \in Owners : dm(side)[u] = Demand(R, u, side)
  <2>1. \A u \in Owners : Demand(R, u, side) \in Nat
    BY <1>2, DemandType
  <2> QED
    BY <2>1 DEF Demands
<1>8. \A u \in Owners : /\ Demand(R, u, Yes) <= FoldedOf(computations, F, u, 0)
                        /\ Demand(R, u, No) <= FoldedOf(computations, F, u, 1)
  <2>1. SideOf(0) = Yes /\ SideOf(1) = No
    BY DEF SideOf
  <2>2. \A u \in Owners : \A side \in {0, 1} :
           Demand(R, u, SideOf(side)) <= FoldedOf(computations, F, u, side)
    BY <1>1, DemandIsFolded
  <2>3. \A u \in Owners : Demand(R, u, SideOf(0)) <= FoldedOf(computations, F, u, 0)
    BY <2>2
  <2>4. \A u \in Owners : Demand(R, u, SideOf(1)) <= FoldedOf(computations, F, u, 1)
    BY <2>2
  <2> QED
    BY <2>1, <2>3, <2>4
<1> HIDE DEF R, F, res, fr, fd, dm
<1>9. \A u \in Owners : dm(Yes)[u] = fd(0)[u]
  <2>1. \A u \in Owners : dm(Yes)[u] <= fd(0)[u]
    BY <1>6, <1>7, <1>8
  <2>2. Total(Owners, fd(0)) <= Total(Owners, dm(Yes))
    BY <1>3, <1>5
  <2>3. dm(Yes) \in [Owners -> Nat] /\ fd(0) \in [Owners -> Nat]
    BY <1>6, <1>7
  <2> DEFINE x == dm(Yes)
             y == fd(0)
  <2> HIDE DEF x, y
  <2>4. \A u \in Owners : x[u] = y[u]
    BY <1>2, <2>1, <2>2, <2>3, TotalSame DEF x, y
  <2> QED
    BY <2>4 DEF x, y
<1>10. \A u \in Owners : dm(No)[u] = fd(1)[u]
  <2>1. \A u \in Owners : dm(No)[u] <= fd(1)[u]
    BY <1>6, <1>7, <1>8
  <2>2. Total(Owners, fd(1)) <= Total(Owners, dm(No))
    BY <1>3, <1>5
  <2>3. dm(No) \in [Owners -> Nat] /\ fd(1) \in [Owners -> Nat]
    BY <1>6, <1>7
  <2> DEFINE x == dm(No)
             y == fd(1)
  <2> HIDE DEF x, y
  <2>4. \A u \in Owners : x[u] = y[u]
    BY <1>2, <2>1, <2>2, <2>3, TotalSame DEF x, y
  <2> QED
    BY <2>4 DEF x, y
<1>11. \A u \in Owners : /\ Demand(R, u, Yes) = FoldedOf(computations, F, u, 0)
                         /\ Demand(R, u, No) = FoldedOf(computations, F, u, 1)
  BY <1>6, <1>7, <1>9, <1>10
<1> QED
  BY <1>1, <1>3, <1>11 DEF Filled, F

(***************************************************************************)
(* The steps.                                                               *)
(***************************************************************************)

LEMMA BookInvInit == Init => BookInv
<1> SUFFICES ASSUME Init
             PROVE  BookInv
  OBVIOUS
<1>1. book = NoBook /\ computations = <<>> /\ cleared = {} /\ relayed = {}
      /\ registry = [slot \in 0 .. BATCH_BOOK_FIELDS - 1 |-> {}]
  BY DEF Init
<1>2. DOMAIN computations = {}
  BY <1>1
<1>3. Unreadable \in Content /\ Accounts(computations, Unreadable)
  BY EmptyAccounts
<1>4. Typed
  <2>1. book \in Account
    <3>1. 0 \in 0 .. BATCH_BOOK_FIELDS
      BY CountsAreNumbers
    <3> QED
      BY <1>1, <1>3, <3>1 DEF Account, NoBook
  <2>2. computations \in Seq(Computation)
    BY <1>1
  <2>3. registry \in [0 .. BATCH_BOOK_FIELDS - 1 -> SUBSET Owners]
    BY <1>1
  <2> QED
    BY <2>1, <2>2, <2>3 DEF Typed
<1>5. Owned
  BY <1>2 DEF Owned
<1>6. Accounted
  BY <1>1, <1>2, <1>3 DEF Accounted, NoBook
<1>7. Attributed
  BY <1>1, <1>2 DEF Attributed, NoBook
<1>8. RelayedFills
  BY <1>1 DEF RelayedFills
<1> QED
  BY <1>4, <1>5, <1>6, <1>7, <1>8 DEF BookInv

(* What is accounted for stays so when the computations grow, for the       *)
(* outputs and the books that are there already.                            *)
LEMMA AccountedKept ==
  ASSUME Accounted, Grows(computations, computations'),
         \/ book'.state.content = book.state.content
         \/ \E i \in DOMAIN computations : book'.state.content = computations[i].output,
         \A i \in DOMAIN computations' :
           \/ i \in DOMAIN computations /\ computations'[i].output = computations[i].output
           \/ Accounts(computations', computations'[i].output),
         \A e \in cleared' :
           \/ e \in cleared
           \/ /\ e.content \in Content
              /\ \E i \in DOMAIN computations : e.content = computations[i].output
  PROVE  Accounted'
<1>1. \A content : Accounts(computations, content) => Accounts(computations', content)
  BY AccountsKept
<1>2. Accounts(computations', book'.state.content)
  BY <1>1 DEF Accounted
<1>3. \A i \in DOMAIN computations' : Accounts(computations', computations'[i].output)
  BY <1>1 DEF Accounted
<1>4. \A e \in cleared' : e.content \in Content /\ Accounts(computations', e.content)
  BY <1>1 DEF Accounted
<1> QED
  BY <1>2, <1>3, <1>4 DEF Accounted

LEMMA RelayedKept ==
  ASSUME Accounted, RelayedFills, Grows(computations, computations'),
         cleared \subseteq cleared', relayed' = relayed,
         book'.inits <= 1 => book.inits <= 1
  PROVE  RelayedFills'
<1> SUFFICES ASSUME NEW r \in relayed
             PROVE  /\ r.event \in cleared'
                    /\ book'.inits <= 1 /\ r.verdict.ok => Filled(computations', r)
  BY DEF RelayedFills
<1>1. r.event \in cleared /\ (book.inits <= 1 /\ r.verdict.ok => Filled(computations, r))
  BY DEF RelayedFills
<1>2. Accounts(computations, r.event.content)
  BY <1>1 DEF Accounted
<1>3. Filled(computations, r) => Filled(computations', r)
  BY <1>2, FilledKept
<1> QED
  BY <1>1, <1>3

LEMMA Queued ==
  ASSUME computations \in Seq(Computation),
         NEW kind \in {"init_book", "ingest_order", "clear_batch"}, NEW slot \in Nat,
         NEW order \in OrderType, NEW owners \in SUBSET Owners, NEW nonce \in Nat,
         Queue(kind, slot, order, owners, nonce)
  PROVE  \E n \in Nat :
           /\ DOMAIN computations = 1 .. n
           /\ DOMAIN computations' = 1 .. n + 1
           /\ computations' \in Seq(Computation)
           /\ \A i \in 1 .. n : computations'[i] = computations[i]
           /\ computations'[n + 1].kind = kind
           /\ computations'[n + 1].slot = slot
           /\ computations'[n + 1].owners = owners
           /\ computations'[n + 1].output = Unreadable
           /\ Grows(computations, computations')
<1> DEFINE c == [kind |-> kind, slot |-> slot, order |-> order, owners |-> owners, nonce |-> nonce,
                 status |-> "queued", output |-> Unreadable]
           n == Len(computations)
<1>1. computations' = Append(computations, c)
  BY DEF Queue
<1>2. Unreadable \in Content
  BY EmptyAccounts
<1>3. c \in Computation
  BY <1>2 DEF Computation
<1>4. c.kind = kind /\ c.slot = slot /\ c.owners = owners /\ c.output = Unreadable
  OBVIOUS
<1> HIDE DEF c
<1>5. n \in Nat /\ DOMAIN computations = 1 .. n
  <2> HIDE DEF Computation
  <2> QED
    BY LenProperties
<1>6. /\ computations' \in Seq(Computation)
      /\ Len(computations') = n + 1
      /\ computations'[n + 1] = c
      /\ \A i \in 1 .. n : computations'[i] = computations[i]
  <2> HIDE DEF Computation
  <2> QED
    BY <1>1, <1>3, AppendProperties
<1>7. DOMAIN computations' = 1 .. n + 1
  <2> HIDE DEF Computation
  <2> QED
    BY <1>6, LenProperties
<1> HIDE DEF n
<1>8. Grows(computations, computations')
  BY <1>5, <1>6, <1>7 DEF Grows
<1> QED
  BY <1>4, <1>5, <1>6, <1>7, <1>8

LEMMA QueuedAccounted ==
  ASSUME Accounted, NEW n \in Nat, DOMAIN computations = 1 .. n, DOMAIN computations' = 1 .. n + 1,
         \A i \in 1 .. n : computations'[i] = computations[i],
         computations'[n + 1].output = Unreadable,
         Grows(computations, computations'),
         book'.state.content = book.state.content, cleared' = cleared
  PROVE  Accounted'
<1>1. Accounts(computations', Unreadable)
  BY EmptyAccounts
<1>2. \A i \in 1 .. n + 1 : i = n + 1 \/ i \in 1 .. n
  OBVIOUS
<1>3. \A i \in DOMAIN computations' :
        \/ i \in DOMAIN computations /\ computations'[i].output = computations[i].output
        \/ Accounts(computations', computations'[i].output)
  BY <1>1, <1>2
<1> QED
  BY <1>3, AccountedKept

LEMMA InitBookStep == BookInv /\ InitBook => BookInv'
<1> SUFFICES ASSUME BookInv, InitBook
             PROVE  BookInv'
  OBVIOUS
<1>1. /\ book \in Account /\ computations \in Seq(Computation)
      /\ registry \in [0 .. BATCH_BOOK_FIELDS - 1 -> SUBSET Owners]
      /\ Owned /\ Accounted /\ Attributed /\ RelayedFills
  BY DEF BookInv, Typed
<1>2. NoOrder \in OrderType
  BY DEF NoOrder, OrderType
<1>3. /\ book' = [book EXCEPT !.exists = TRUE, !.inits = @ + 1, !.slot_count = 0, !.nonce = 0]
      /\ Queue("init_book", 0, NoOrder, {}, 0)
      /\ registry' = registry /\ cleared' = cleared /\ relayed' = relayed
  BY DEF InitBook, relayVars
<1>4. /\ book.inits \in Nat /\ book'.inits = book.inits + 1
      /\ book'.state = book.state
      /\ book'.exists = TRUE /\ book'.slot_count = 0 /\ book'.nonce = 0
  BY <1>1, <1>3 DEF Account
<1>5. PICK n \in Nat :
         /\ DOMAIN computations = 1 .. n
         /\ DOMAIN computations' = 1 .. n + 1
         /\ computations' \in Seq(Computation)
         /\ \A i \in 1 .. n : computations'[i] = computations[i]
         /\ computations'[n + 1].kind = "init_book"
         /\ computations'[n + 1].slot = 0
         /\ computations'[n + 1].owners = {}
         /\ computations'[n + 1].output = Unreadable
         /\ Grows(computations, computations')
  <2>1. 0 \in Nat /\ {} \in SUBSET Owners /\ "init_book" \in {"init_book", "ingest_order", "clear_batch"}
    OBVIOUS
  <2>2. computations \in Seq(Computation)
    BY <1>1
  <2>3. Queue("init_book", 0, NoOrder, {}, 0)
    BY <1>3
  <2> QED
    BY <1>2, <2>1, <2>2, <2>3, Queued
<1>6. \A i \in 1 .. n + 1 : i = n + 1 \/ i \in 1 .. n
  OBVIOUS
<1>7. Typed'
  <2>1. book' \in Account
    <3>1. 0 \in 0 .. BATCH_BOOK_FIELDS
      BY CountsAreNumbers
    <3>2. book.inits + 1 \in Nat
      BY <1>4
    <3> QED
      BY <1>1, <1>3, <3>1, <3>2 DEF Account
  <2> QED
    BY <1>1, <1>3, <1>5, <2>1 DEF Typed
<1>8. Owned'
  BY <1>1, <1>5, <1>6 DEF Owned
<1>9. Accounted'
  BY <1>1, <1>3, <1>4, <1>5, QueuedAccounted
<1>10. Attributed'
  <2>1. book'.inits # 0 /\ book'.exists
    BY <1>4
  <2>2. ASSUME book'.inits <= 1, NEW i \in 1 .. n + 1, computations'[i].kind = "ingest_order"
        PROVE  FALSE
    <3>1. book.inits = 0
      BY <1>4, <2>2
    <3>2. computations = <<>>
      BY <1>1, <3>1 DEF Attributed
    <3>3. n = 0
      <4>1. DOMAIN computations = {}
        BY <3>2
      <4> QED
        BY <1>5, <4>1
    <3> QED
      BY <1>5, <1>6, <2>2, <3>3
  <2> QED
    BY <1>5, <2>1, <2>2 DEF Attributed
<1>11. RelayedFills'
  <2>1. book'.inits <= 1 => book.inits <= 1
    BY <1>4
  <2> QED
    BY <1>1, <1>3, <1>5, <2>1, RelayedKept
<1> QED
  BY <1>7, <1>8, <1>9, <1>10, <1>11 DEF BookInv

LEMMA ClearBatchStep == BookInv /\ ClearBatch => BookInv'
<1> SUFFICES ASSUME BookInv, ClearBatch
             PROVE  BookInv'
  OBVIOUS
<1>1. /\ book \in Account /\ computations \in Seq(Computation)
      /\ registry \in [0 .. BATCH_BOOK_FIELDS - 1 -> SUBSET Owners]
      /\ Owned /\ Accounted /\ Attributed /\ RelayedFills
  BY DEF BookInv, Typed
<1>2. NoOrder \in OrderType /\ book.nonce \in Nat
  BY <1>1 DEF NoOrder, OrderType, Account
<1>3. /\ Queue("clear_batch", 0, NoOrder, {}, book.nonce)
      /\ book.exists
      /\ book' = book /\ registry' = registry /\ cleared' = cleared /\ relayed' = relayed
  BY DEF ClearBatch, relayVars
<1>4. PICK n \in Nat :
         /\ DOMAIN computations = 1 .. n
         /\ DOMAIN computations' = 1 .. n + 1
         /\ computations' \in Seq(Computation)
         /\ \A i \in 1 .. n : computations'[i] = computations[i]
         /\ computations'[n + 1].kind = "clear_batch"
         /\ computations'[n + 1].slot = 0
         /\ computations'[n + 1].owners = {}
         /\ computations'[n + 1].output = Unreadable
         /\ Grows(computations, computations')
  BY <1>1, <1>2, <1>3, Queued
<1>5. \A i \in 1 .. n + 1 : i = n + 1 \/ i \in 1 .. n
  OBVIOUS
<1>6. Typed'
  BY <1>1, <1>3, <1>4 DEF Typed
<1>7. Owned'
  BY <1>1, <1>4, <1>5 DEF Owned
<1>8. Accounted'
  BY <1>1, <1>3, <1>4, QueuedAccounted
<1>9. Attributed'
  BY <1>1, <1>3, <1>4, <1>5 DEF Attributed
<1>10. RelayedFills'
  BY <1>1, <1>3, <1>4, RelayedKept
<1> QED
  BY <1>6, <1>7, <1>8, <1>9, <1>10 DEF BookInv

LEMMA IngestStep == ASSUME NEW u \in Owners PROVE BookInv /\ IngestOrder(u) => BookInv'
<1> SUFFICES ASSUME BookInv, IngestOrder(u)
             PROVE  BookInv'
  OBVIOUS
<1>1. /\ book \in Account /\ computations \in Seq(Computation)
      /\ registry \in [0 .. BATCH_BOOK_FIELDS - 1 -> SUBSET Owners]
      /\ Owned /\ Accounted /\ Attributed /\ RelayedFills
  BY DEF BookInv, Typed
<1> DEFINE slot == book.slot_count
<1>2. Wish[u] \in OrderType /\ book.nonce \in Nat /\ slot \in Nat /\ slot \in 0 .. BATCH_BOOK_FIELDS
  BY <1>1, CountsAreNumbers DEF Account
<1>3. /\ Queue("ingest_order", slot, Wish[u], {u}, book.nonce)
      /\ book.exists /\ slot < BATCH_BOOK_FIELDS
      /\ book' = [book EXCEPT !.slot_count = @ + 1]
      /\ registry' = [registry EXCEPT ![slot] = {u}]
      /\ cleared' = cleared /\ relayed' = relayed
  BY DEF IngestOrder
<1>4. /\ book'.inits = book.inits /\ book'.exists = book.exists /\ book'.nonce = book.nonce
      /\ book'.state = book.state /\ book'.slot_count = slot + 1
  BY <1>1, <1>3 DEF Account
<1>5. PICK n \in Nat :
         /\ DOMAIN computations = 1 .. n
         /\ DOMAIN computations' = 1 .. n + 1
         /\ computations' \in Seq(Computation)
         /\ \A i \in 1 .. n : computations'[i] = computations[i]
         /\ computations'[n + 1].kind = "ingest_order"
         /\ computations'[n + 1].slot = slot
         /\ computations'[n + 1].owners = {u}
         /\ computations'[n + 1].output = Unreadable
         /\ Grows(computations, computations')
  <2>1. {u} \in SUBSET Owners /\ "ingest_order" \in {"init_book", "ingest_order", "clear_batch"}
    OBVIOUS
  <2> HIDE DEF slot
  <2>2. computations \in Seq(Computation)
    BY <1>1
  <2>3. Queue("ingest_order", slot, Wish[u], {u}, book.nonce)
    BY <1>3
  <2> QED
    BY <1>2, <2>1, <2>2, <2>3, Queued
<1>6. \A i \in 1 .. n + 1 : i = n + 1 \/ i \in 1 .. n
  OBVIOUS
<1>7. Typed'
  <2>1. book' \in Account
    <3>1. slot + 1 \in 0 .. BATCH_BOOK_FIELDS
      BY <1>2, <1>3, CountsAreNumbers
    <3> QED
      BY <1>1, <1>3, <3>1 DEF Account
  <2>2. registry' \in [0 .. BATCH_BOOK_FIELDS - 1 -> SUBSET Owners]
    BY <1>1, <1>3
  <2> QED
    BY <1>5, <2>1, <2>2 DEF Typed
<1>8. Owned'
  BY <1>1, <1>5, <1>6 DEF Owned
<1>9. Accounted'
  BY <1>1, <1>3, <1>4, <1>5, QueuedAccounted
<1>10. Attributed'
  <2>1. book'.exists /\ book'.inits # 0
    BY <1>1, <1>3, <1>4 DEF Attributed
  <2>2. ASSUME book'.inits <= 1, NEW i \in 1 .. n + 1, computations'[i].kind = "ingest_order"
        PROVE  /\ computations'[i].slot < book'.slot_count
               /\ registry'[computations'[i].slot] = computations'[i].owners
    <3>1. slot \in 0 .. BATCH_BOOK_FIELDS - 1
      BY <1>2, <1>3, CountsAreNumbers
    <3>2. CASE i = n + 1
      <4>1. computations'[i].slot = slot /\ computations'[i].owners = {u}
        BY <1>5, <3>2
      <4>2. registry'[slot] = {u}
        BY <1>1, <1>3, <3>1
      <4>3. slot < slot + 1
        BY <1>2
      <4> HIDE DEF slot
      <4> QED
        BY <1>4, <4>1, <4>2, <4>3
    <3>3. CASE i \in 1 .. n
      <4>1. computations[i].slot \in Nat
        BY <1>1, <1>5, <3>3, ComputationsTyped, ComputationFields
      <4>2. computations[i].slot < slot /\ registry[computations[i].slot] = computations[i].owners
        BY <1>1, <1>4, <1>5, <2>2, <3>3 DEF Attributed
      <4>3. computations[i].slot \in 0 .. BATCH_BOOK_FIELDS - 1 /\ computations[i].slot # slot
        BY <1>2, <3>1, <4>1, <4>2, CountsAreNumbers
      <4>4. registry'[computations[i].slot] = registry[computations[i].slot]
        BY <1>1, <1>3, <4>3
      <4>5. computations[i].slot < slot + 1
        BY <1>2, <4>1, <4>2
      <4> QED
        BY <1>4, <1>5, <3>3, <4>2, <4>4, <4>5
    <3> QED
      BY <1>6, <3>2, <3>3
  <2> QED
    BY <1>5, <2>1, <2>2 DEF Attributed
<1>11. RelayedFills'
  BY <1>1, <1>3, <1>4, <1>5, RelayedKept
<1> QED
  BY <1>7, <1>8, <1>9, <1>10, <1>11 DEF BookInv

(* A computation that is past its queue goes on, with an output. *)
LEMMA Advanced ==
  ASSUME computations \in Seq(Computation), NEW i \in DOMAIN computations,
         NEW status \in {"executed", "finalized", "failed"}, NEW output \in Content,
         \/ computations' = [computations EXCEPT ![i].status = status, ![i].output = output]
         \/ /\ computations' = [computations EXCEPT ![i].status = status]
            /\ output = computations[i].output
  PROVE  /\ computations' \in Seq(Computation)
         /\ DOMAIN computations' = DOMAIN computations
         /\ \A j \in DOMAIN computations : j # i => computations'[j] = computations[j]
         /\ computations'[i].output = output /\ computations'[i].status = status
         /\ Grows(computations, computations')
<1> DEFINE old == computations[i]
           c == [kind |-> old.kind, slot |-> old.slot, order |-> old.order, owners |-> old.owners,
                 nonce |-> old.nonce, status |-> status, output |-> output]
<1>1. old \in Computation
  BY ComputationsTyped
<1>2. c \in Computation
  BY <1>1 DEF Computation
<1>3. computations' = [computations EXCEPT ![i] = c]
  <2>1. /\ [old EXCEPT !.status = status, !.output = output] = c
        /\ output = old.output => [old EXCEPT !.status = status] = c
    <3>1. old = [kind |-> old.kind, slot |-> old.slot, order |-> old.order, owners |-> old.owners,
                 nonce |-> old.nonce, status |-> old.status, output |-> old.output]
      BY <1>1 DEF Computation
    <3> HIDE DEF old
    <3>2. [old EXCEPT !.status = status, !.output = output] = c
      <4> DEFINE d == [old EXCEPT !.status = status]
      <4>1. d = [kind |-> old.kind, slot |-> old.slot, order |-> old.order, owners |-> old.owners,
                 nonce |-> old.nonce, status |-> status, output |-> old.output]
        BY <3>1
      <4>2. [old EXCEPT !.status = status, !.output = output] = [d EXCEPT !.output = output]
        OBVIOUS
      <4> HIDE DEF d
      <4>3. [d EXCEPT !.output = output] = c
        BY <4>1
      <4> QED
        BY <4>2, <4>3
    <3>3. output = old.output => [old EXCEPT !.status = status] = c
      BY <3>1
    <3> QED
      BY <3>2, <3>3
  <2>2. CASE computations' = [computations EXCEPT ![i].status = status, ![i].output = output]
    BY <2>1, <2>2
  <2>3. CASE /\ computations' = [computations EXCEPT ![i].status = status]
             /\ output = computations[i].output
    BY <2>1, <2>3
  <2> QED
    BY <2>2, <2>3
<1>4. /\ c.kind = old.kind /\ c.slot = old.slot /\ c.order = old.order /\ c.owners = old.owners
      /\ c.status = status /\ c.output = output
  OBVIOUS
<1> HIDE DEF c
<1>5. /\ DOMAIN computations' = DOMAIN computations
      /\ \A j \in DOMAIN computations : j # i => computations'[j] = computations[j]
      /\ computations'[i] = c
  BY <1>3
<1>6. computations' \in Seq(Computation)
  <2> HIDE DEF Computation
  <2>1. Len(computations) \in Nat /\ DOMAIN computations = 1 .. Len(computations)
        /\ computations \in [1 .. Len(computations) -> Computation]
    BY LenProperties
  <2>2. computations' \in [1 .. Len(computations) -> Computation]
    BY <1>2, <1>3, <2>1
  <2> QED
    BY <2>1, <2>2, IsASeq
<1>7. Grows(computations, computations')
  <2>1. status # "queued"
    OBVIOUS
  <2> QED
    BY <1>4, <1>5, <2>1 DEF Grows
<1> QED
  BY <1>4, <1>5, <1>6, <1>7

(* Nor do the owners and slots of the computations change then. *)
LEMMA AttributedKept ==
  ASSUME Owned, Attributed, DOMAIN computations' = DOMAIN computations,
         Grows(computations, computations'),
         computations = <<>> => computations' = <<>>,
         registry' = registry, book'.inits = book.inits, book'.exists = book.exists,
         book'.slot_count = book.slot_count
  PROVE  Owned' /\ Attributed'
<1>1. Owned'
  BY DEF Owned, Grows
<1>2. ASSUME book'.inits <= 1, NEW i \in DOMAIN computations', computations'[i].kind = "ingest_order"
      PROVE  /\ computations'[i].slot < book'.slot_count
             /\ registry'[computations'[i].slot] = computations'[i].owners
  <2>1. computations'[i].slot = computations[i].slot /\ computations'[i].owners = computations[i].owners
        /\ i \in DOMAIN computations /\ computations[i].kind = "ingest_order"
    BY <1>2 DEF Grows
  <2> QED
    BY <1>2, <2>1 DEF Attributed
<1>3. book'.inits = 0 => ~book'.exists
  BY DEF Attributed
<1>4. ~book'.exists => computations' = <<>>
  BY DEF Attributed
<1> QED
  BY <1>1, <1>2, <1>3, <1>4 DEF Attributed

LEMMA ExecuteStep == ASSUME NEW i \in DOMAIN computations PROVE BookInv /\ Execute(i) => BookInv'
<1> SUFFICES ASSUME BookInv, Execute(i)
             PROVE  BookInv'
  OBVIOUS
<1> DEFINE c == computations[i]
           opened == Opened(c)
           output == CASE c.kind = "init_book"    -> EmptyBook
                       [] c.kind = "ingest_order" -> FoldOrder(opened, c.slot, c.order, i)
                       [] c.kind = "clear_batch"  -> opened
<1>1. /\ book \in Account /\ computations \in Seq(Computation)
      /\ registry \in [0 .. BATCH_BOOK_FIELDS - 1 -> SUBSET Owners]
      /\ Owned /\ Accounted /\ Attributed /\ RelayedFills
  BY DEF BookInv, Typed
<1>2. /\ c.status = "queued"
      /\ computations' = [computations EXCEPT ![i].status = "executed", ![i].output = output]
      /\ book' = book /\ registry' = registry /\ cleared' = cleared /\ relayed' = relayed
  BY DEF Execute, relayVars
<1>3. opened \in Content /\ Accounts(computations, opened)
  BY <1>1, EmptyAccounts DEF Opened, Accounted, Account
<1>4. i \notin opened.folded
  BY <1>2, <1>3 DEF Accounts
<1>5. c \in Computation
  BY <1>1, ComputationsTyped
<1>6. c.kind = "ingest_order" => \E u \in Owners : c.owners = {u}
  BY <1>1 DEF Owned
<1> HIDE DEF opened
<1>7. output \in Content
  <2>1. CASE c.kind = "ingest_order"
    <3> DEFINE comps == [computations EXCEPT ![i] = [c EXCEPT !.status = "executed"]]
    <3>1. [c EXCEPT !.status = "executed"] \in Computation
      BY <1>5 DEF Computation
    <3>2. comps \in Seq(Computation) /\ i \in DOMAIN comps
      <4>1. Len(computations) \in Nat /\ DOMAIN computations = 1 .. Len(computations)
            /\ computations \in [1 .. Len(computations) -> Computation]
        BY <1>1, LenProperties
      <4>2. comps \in [1 .. Len(computations) -> Computation]
        BY <3>1, <4>1
      <4> QED
        BY <4>1, <4>2, IsASeq
    <3>3. /\ comps[i].kind = c.kind /\ comps[i].slot = c.slot /\ comps[i].order = c.order
          /\ comps[i].owners = c.owners /\ comps[i].status = "executed"
      BY <1>5 DEF Computation
    <3>4. Grows(computations, comps)
      BY <1>5, <3>3 DEF Grows
    <3> HIDE DEF comps, c
    <3>5. Accounts(comps, opened)
      BY <1>3, <3>4, AccountsKept
    <3>6. FoldOrder(opened, c.slot, c.order, i) \in Content
      BY <1>3, <1>4, <1>6, <2>1, <3>2, <3>3, <3>5, FoldAccounts
    <3> QED
      BY <2>1, <3>6
  <2>2. CASE c.kind = "init_book"
    BY <2>2, EmptyAccounts
  <2>3. CASE c.kind = "clear_batch"
    BY <1>3, <2>3
  <2>4. c.kind \in {"init_book", "ingest_order", "clear_batch"}
    BY <1>5 DEF Computation
  <2> QED
    BY <2>1, <2>2, <2>3, <2>4
<1>8. /\ computations' \in Seq(Computation)
      /\ DOMAIN computations' = DOMAIN computations
      /\ \A j \in DOMAIN computations : j # i => computations'[j] = computations[j]
      /\ computations'[i].output = output /\ computations'[i].status = "executed"
      /\ Grows(computations, computations')
  <2> HIDE DEF output
  <2> QED
    BY <1>1, <1>2, <1>7, Advanced
<1>9. Accounts(computations', opened)
  BY <1>3, <1>8, AccountsKept
<1>10. Accounts(computations', output)
  <2>1. CASE c.kind = "ingest_order"
    <3>1. /\ computations'[i].kind = c.kind /\ computations'[i].slot = c.slot
          /\ computations'[i].order = c.order /\ computations'[i].owners = c.owners
          /\ i \in DOMAIN computations'
      BY <1>8 DEF Grows
    <3>2. PICK u \in Owners : c.owners = {u}
      BY <1>6, <2>1
    <3> DEFINE comps == computations'
    <3>3. /\ comps \in Seq(Computation) /\ i \in DOMAIN comps /\ comps[i].kind = "ingest_order"
          /\ comps[i].status # "queued" /\ comps[i].owners = {u}
          /\ c.slot = comps[i].slot /\ c.order = comps[i].order
      BY <1>8, <2>1, <3>1, <3>2
    <3>4. Accounts(comps, opened)
      BY <1>9
    <3> HIDE DEF comps, c
    <3>5. Accounts(comps, FoldOrder(opened, c.slot, c.order, i))
      BY <1>3, <1>4, <3>3, <3>4, FoldAccounts
    <3> QED
      BY <2>1, <3>5 DEF comps
  <2>2. CASE c.kind = "init_book"
    BY <2>2, EmptyAccounts
  <2>3. CASE c.kind = "clear_batch"
    BY <1>9, <2>3
  <2>4. c.kind \in {"init_book", "ingest_order", "clear_batch"}
    BY <1>5 DEF Computation
  <2> QED
    BY <2>1, <2>2, <2>3, <2>4
<1> HIDE DEF output, c
<1>11. Typed'
  BY <1>1, <1>2, <1>8 DEF Typed
<1>12. Accounted'
  BY <1>1, <1>2, <1>8, <1>10, AccountedKept
<1>13. Owned' /\ Attributed'
  <2>1. computations # <<>>
    OBVIOUS
  <2> QED
    BY <1>1, <1>2, <1>8, <2>1, AttributedKept
<1>14. RelayedFills'
  BY <1>1, <1>2, <1>8, RelayedKept
<1> QED
  BY <1>11, <1>12, <1>13, <1>14 DEF BookInv

LEMMA BookCallbackStep == ASSUME NEW i \in DOMAIN computations PROVE BookInv /\ BookCallback(i) => BookInv'
<1> SUFFICES ASSUME BookInv, BookCallback(i)
             PROVE  BookInv'
  OBVIOUS
<1>1. /\ book \in Account /\ computations \in Seq(Computation)
      /\ registry \in [0 .. BATCH_BOOK_FIELDS - 1 -> SUBSET Owners]
      /\ Owned /\ Accounted /\ Attributed /\ RelayedFills
  BY DEF BookInv, Typed
<1>2. /\ book' = [book EXCEPT !.nonce = i, !.state = [nonce |-> i, content |-> computations[i].output]]
      /\ computations' = [computations EXCEPT ![i].status = "finalized"]
      /\ registry' = registry /\ cleared' = cleared /\ relayed' = relayed
  BY DEF BookCallback, BookWritten, relayVars
<1>3. computations[i].output \in Content /\ i \in Nat
  BY <1>1, ComputationsTyped, ComputationFields
<1>4. /\ computations' \in Seq(Computation)
      /\ DOMAIN computations' = DOMAIN computations
      /\ \A j \in DOMAIN computations : j # i => computations'[j] = computations[j]
      /\ computations'[i].output = computations[i].output
      /\ Grows(computations, computations')
  BY <1>1, <1>2, <1>3, Advanced
<1>5. /\ book'.inits = book.inits /\ book'.exists = book.exists
      /\ book'.slot_count = book.slot_count
      /\ book'.state.content = computations[i].output
      /\ book' \in Account
  BY <1>1, <1>2, <1>3 DEF Account
<1>6. Typed'
  BY <1>1, <1>2, <1>4, <1>5 DEF Typed
<1>7. Accounted'
  BY <1>1, <1>2, <1>4, <1>5, AccountedKept
<1>8. Owned' /\ Attributed'
  <2>1. computations # <<>>
    OBVIOUS
  <2> QED
    BY <1>1, <1>2, <1>4, <1>5, <2>1, AttributedKept
<1>9. RelayedFills'
  BY <1>1, <1>2, <1>4, <1>5, RelayedKept
<1> QED
  BY <1>6, <1>7, <1>8, <1>9 DEF BookInv

LEMMA ClearCallbackStep ==
  ASSUME NEW i \in DOMAIN computations
  PROVE  BookInv /\ (ClearBatchCallback(i) \/ AbortedCallback(i)) => BookInv'
<1> SUFFICES ASSUME BookInv, ClearBatchCallback(i) \/ AbortedCallback(i)
             PROVE  BookInv'
  OBVIOUS
<1>1. /\ book \in Account /\ computations \in Seq(Computation)
      /\ registry \in [0 .. BATCH_BOOK_FIELDS - 1 -> SUBSET Owners]
      /\ Owned /\ Accounted /\ Attributed /\ RelayedFills
  BY DEF BookInv, Typed
<1>2. /\ \E status \in {"finalized", "failed"} :
           computations' = [computations EXCEPT ![i].status = status]
      /\ cleared' = cleared \/ cleared' = cleared \cup {Reveal(computations[i].output)}
      /\ book' = book /\ registry' = registry /\ relayed' = relayed
  BY DEF ClearBatchCallback, AbortedCallback, relayVars
<1>3. computations[i].output \in Content
  BY <1>1, ComputationsTyped, ComputationFields
<1>4. /\ computations' \in Seq(Computation)
      /\ DOMAIN computations' = DOMAIN computations
      /\ \A j \in DOMAIN computations : j # i => computations'[j] = computations[j]
      /\ computations'[i].output = computations[i].output
      /\ Grows(computations, computations')
  <2>1. PICK status \in {"finalized", "failed"} :
          computations' = [computations EXCEPT ![i].status = status]
    BY <1>2
  <2> QED
    BY <1>1, <1>3, <2>1, Advanced
<1>5. Typed'
  BY <1>1, <1>2, <1>4 DEF Typed
<1>6. Accounted'
  <2>1. Reveal(computations[i].output).content = computations[i].output
    BY DEF Reveal
  <2>2. \A e \in cleared' :
          \/ e \in cleared
          \/ /\ e.content \in Content
             /\ \E j \in DOMAIN computations : e.content = computations[j].output
    BY <1>2, <1>3, <2>1
  <2> QED
    BY <1>1, <1>2, <1>4, <2>2, AccountedKept
<1>7. Owned' /\ Attributed'
  <2>1. computations # <<>>
    OBVIOUS
  <2> QED
    BY <1>1, <1>2, <1>4, <2>1, AttributedKept
<1>8. RelayedFills'
  BY <1>1, <1>2, <1>4, RelayedKept
<1> QED
  BY <1>5, <1>6, <1>7, <1>8 DEF BookInv

LEMMA RelayStep == ASSUME NEW e \in cleared PROVE BookInv /\ RelayBatch(e) => BookInv'
<1> SUFFICES ASSUME BookInv, RelayBatch(e)
             PROVE  BookInv'
  OBVIOUS
<1>1. Typed /\ Owned /\ Accounted /\ Attributed /\ RelayedFills
  BY DEF BookInv
<1>2. /\ relayed' = relayed \cup {[event |-> e, verdict |-> Relay(e)]}
      /\ book' = book /\ computations' = computations /\ registry' = registry /\ cleared' = cleared
  BY DEF RelayBatch
<1>3. Typed' /\ Owned' /\ Accounted' /\ Attributed'
  BY <1>1, <1>2 DEF Typed, Owned, Accounted, Attributed
<1>4. RelayedFills'
  <2>1. ASSUME NEW r \in relayed'
        PROVE  /\ r.event \in cleared
               /\ book.inits <= 1 /\ r.verdict.ok => Filled(computations, r)
    <3>1. CASE r \in relayed
      BY <1>1, <3>1 DEF RelayedFills
    <3>2. CASE r = [event |-> e, verdict |-> Relay(e)]
      <4>1. r.event = e /\ r.verdict = Relay(e)
        BY <3>2
      <4>2. e.content \in Content /\ Accounts(computations, e.content)
        BY <1>1 DEF Accounted
      <4>3. book.inits <= 1 /\ r.verdict.ok => Filled(computations, r)
        BY <1>1, <4>1, <4>2, RelayFills
      <4> QED
        BY <4>1, <4>3
    <3> QED
      BY <1>2, <3>1, <3>2
  <2> QED
    BY <1>2, <2>1 DEF RelayedFills
<1> QED
  BY <1>3, <1>4 DEF BookInv

LEMMA BookInvKept ==
  ASSUME BookInv, UNCHANGED <<book, computations, relayVars>>
  PROVE  BookInv'
BY DEF BookInv, Typed, Owned, Accounted, Attributed, RelayedFills, relayVars

LEMMA BookInvNext == BookInv /\ [Next]_vars => BookInv'
<1> SUFFICES ASSUME BookInv, [Next]_vars
             PROVE  BookInv'
  OBVIOUS
<1>1. CASE InitBook
  BY <1>1, InitBookStep
<1>2. CASE ClearBatch
  BY <1>2, ClearBatchStep
<1>3. ASSUME NEW i \in DOMAIN computations, Cluster(i)
      PROVE  BookInv'
  BY <1>3, ExecuteStep, BookCallbackStep, ClearCallbackStep DEF Cluster
<1>4. ASSUME NEW u \in Owners, Client(u)
      PROVE  BookInv'
  <2>1. CASE Submit(u) \/ SubmitUnseen(u)
    <3>1. IngestOrder(u)
      BY <2>1 DEF Submit, SubmitUnseen
    <3> QED
      BY <3>1, IngestStep
  <2>2. CASE SubmitFails(u) \/ Resolve(u) \/ Retry(u)
    <3>1. UNCHANGED <<book, computations, relayVars>>
      BY <2>2 DEF SubmitFails, Resolve, Retry
    <3> QED
      BY <3>1, BookInvKept
  <2> QED
    BY <1>4, <2>1, <2>2 DEF Client
<1>5. ASSUME NEW e \in cleared, RelayBatch(e)
      PROVE  BookInv'
  BY <1>5, RelayStep
<1>6. CASE UNCHANGED vars
  <2>1. UNCHANGED <<book, computations, relayVars>>
    BY <1>6 DEF vars, relayVars
  <2> QED
    BY <2>1, BookInvKept
<1> QED
  BY <1>1, <1>2, <1>3, <1>4, <1>5, <1>6 DEF Next

LEMMA AlwaysBookInv == Spec => []BookInv
<1>1. Init => BookInv
  BY BookInvInit
<1>2. BookInv /\ [Next]_vars => BookInv'
  BY BookInvNext
<1> QED
  BY <1>1, <1>2, PTL DEF Spec

(***************************************************************************)
(* The theorems.                                                            *)
(***************************************************************************)

(* The ciphertext of the book and every output hold a book whose count is   *)
(* the number of orders folded into it, and no slot is taken beyond the     *)
(* gateway's limit.                                                         *)
THEOREM BookIsTyped == Spec => []TypeOK
<1>1. BookInv => TypeOK
  <2> SUFFICES ASSUME BookInv
               PROVE  TypeOK
    OBVIOUS
  <2>1. book \in Account /\ computations \in Seq(Computation) /\ Accounted
    BY DEF BookInv, Typed
  <2>2. book.slot_count \in 0 .. BATCH_BOOK_FIELDS /\ book.state.content \in Content
    BY <2>1 DEF Account
  <2>3. \A i \in DOMAIN computations : computations[i].output \in Content
    BY <2>1, ComputationsTyped, ComputationFields
  <2>4. ASSUME NEW content \in Content, Accounts(computations, content)
        PROVE  content \in BookContent /\ content.count = Cardinality(content.folded)
    <3>1. content.folded \in SUBSET DOMAIN computations /\ content.count = Cardinality(content.folded)
      BY <2>4 DEF Accounts
    <3> QED
      BY <3>1 DEF Content, OrderType, BookContent
  <2> QED
    BY <2>1, <2>2, <2>3, <2>4 DEF TypeOK, Accounted
<1> QED
  BY <1>1, AlwaysBookInv, PTL

(* While the book of the epoch is opened once, what the relayer builds from *)
(* a revealed batch fills each user for exactly its orders in it, whatever  *)
(* overlapped, aborted or was retried before.                               *)
THEOREM RelayedFramesAreWhole == Spec => []RelayedIsWhole
<1>1. BookInv => RelayedIsWhole
  <2> SUFFICES ASSUME BookInv, book.inits = 1, NEW r \in relayed, r.verdict.ok
               PROVE  FillsAreFolded(r)
    BY DEF RelayedIsWhole
  <2>1. Filled(computations, r)
    BY DEF BookInv, RelayedFills
  <2>2. \A u, side : FoldedDemand(r.event, u, side)
                       = FoldedOf(computations, r.event.content.folded, u, side)
    BY DEF FoldedDemand, FoldedOf
  <2> QED
    BY <2>1, <2>2 DEF Filled, FillsAreFolded
<1> QED
  BY <1>1, AlwaysBookInv, PTL

(***************************************************************************)
(* Serial use.  While computations run one at a time, none aborts, the book *)
(* is opened once and its orders fit into its slots, the account, the       *)
(* ciphertext and the slots agree.                                          *)
(***************************************************************************)

(* The orders are small enough for the circuits' words: any BATCH_CAP of    *)
(* them add up to a word.  In the code BATCH_CAP is 8, so that orders below *)
(* 2^61 contracts do, and MAX_FILLS is 64.                                  *)
SmallOrders(q) ==
  /\ \A u \in Owners : Wish[u].qty <= q
  /\ BATCH_CAP * q <= U64Max
  /\ BATCH_CAP <= MAX_FILLS

(* The folded orders are in the slots below the count, each in its own.     *)
Whole(comps, content, q) ==
  /\ content.readable
  /\ content.count <= BATCH_CAP
  /\ content.total_yes + content.total_no <= q * content.count
  /\ \A i \in content.folded : /\ comps[i].slot < content.count
                               /\ content.orders[comps[i].slot] = comps[i].order
  /\ \A i, j \in content.folded : comps[i].slot = comps[j].slot => i = j

(* What a client waits for or was told of is an ingestion of its order.     *)
Awaited ==
  /\ client \in [Owners -> [attempt : Nat, offset : Nat,
                            status : {"submitting", "awaiting", "resolved", "failed"}]]
  /\ \A u \in Owners :
       client[u].status \in {"awaiting", "resolved"} =>
         /\ client[u].offset \in DOMAIN computations
         /\ computations[client[u].offset].kind = "ingest_order"
         /\ computations[client[u].offset].owners = {u}
         /\ client[u].status = "resolved" =>
              computations[client[u].offset].status \in {"finalized", "failed"}

Wishes == \A i \in DOMAIN computations :
            computations[i].kind = "ingest_order" => \E u \in Owners : computations[i].order = Wish[u]

Running == {i \in DOMAIN computations : IsRunning(computations[i])}

(* At most one computation runs, and with the nonce of the ciphertext.      *)
OneRuns ==
  /\ book.state.nonce = book.nonce
  /\ \A i, j \in Running : i = j
  /\ \A i \in Running : computations[i].kind # "init_book" => computations[i].nonce = book.nonce

(* Until init_book has called back there is nothing else. *)
OpensFirst ==
  LET content == book.state.content
  IN  /\ ~content.readable =>
           /\ book.slot_count = 0
           /\ book.exists => Running # {}
           /\ \A i \in DOMAIN computations : computations[i].kind = "init_book" /\ i \in Running
      /\ content.readable => \A i \in Running : computations[i].kind # "init_book"

(* Every ingestion that is done is in the book, the running one is next.    *)
AllFolded ==
  LET content == book.state.content
      ingests == {i \in DOMAIN computations : computations[i].kind = "ingest_order"}
  IN  /\ \A i \in ingests : computations[i].status = "finalized" => i \in content.folded
      /\ \A i \in ingests \cap Running : /\ computations[i].slot = content.count
                                         /\ book.slot_count = content.count + 1
      /\ ingests \cap Running = {} => book.slot_count = content.count

(* The output of a computation is that of its circuit on the present book.  *)
OutputsFit ==
  \A i \in DOMAIN computations :
    LET c == computations[i]
    IN  c.status = "executed" =>
          c.output = CASE c.kind = "init_book"    -> EmptyBook
                       [] c.kind = "ingest_order" -> FoldOrder(book.state.content, c.slot, c.order, i)
                       [] c.kind = "clear_batch"  -> book.state.content

BooksWhole(q) ==
  /\ book.state.content.readable => Whole(computations, book.state.content, q)
  /\ \A e \in cleared : Whole(computations, e.content, q)
  /\ \A r \in relayed : r.verdict.ok

Steady ==
  /\ book.inits = 0 => book = NoBook
  /\ \A e \in cleared : e = Reveal(e.content)
  /\ Awaited
  /\ Wishes

Fits(q) == OneRuns /\ OpensFirst /\ AllFolded /\ OutputsFit /\ BooksWhole(q)

Serial(q) == UsedSerially => Fits(q)

LEMMA EmptyWhole ==
  ASSUME NEW comps, NEW q \in Nat
  PROVE  Whole(comps, EmptyBook, q)
<1>1. /\ EmptyBook.readable /\ EmptyBook.count = 0 /\ EmptyBook.folded = {}
      /\ EmptyBook.total_yes = 0 /\ EmptyBook.total_no = 0
  BY DEF EmptyBook
<1>2. q * 0 = 0 /\ 0 + 0 <= 0
  OBVIOUS
<1>3. 0 <= BATCH_CAP
  BY CountsAreNumbers
<1> QED
  BY <1>1, <1>2, <1>3 DEF Whole

LEMMA WholeKept ==
  ASSUME NEW old, NEW new, Grows(old, new), NEW content, Accounts(old, content), NEW q,
         Whole(old, content, q)
  PROVE  Whole(new, content, q)
<1>1. \A i \in content.folded : new[i].slot = old[i].slot /\ new[i].order = old[i].order
  BY DEF Accounts, Grows
<1> QED
  BY <1>1 DEF Whole

(* The next order is folded into the next slot. *)
LEMMA FoldWhole ==
  ASSUME NEW comps \in Seq(Computation), NEW content \in Content, Accounts(comps, content),
         NEW q \in Nat, Whole(comps, content, q),
         NEW i \in DOMAIN comps, i \notin content.folded,
         comps[i].slot = content.count, content.count < BATCH_CAP, comps[i].order.qty <= q,
         NEW new, new = FoldOrder(content, comps[i].slot, comps[i].order, i)
  PROVE  Whole(comps, new, q) /\ new.count = content.count + 1 /\ i \in new.folded
         /\ content.folded \subseteq new.folded
<1> DEFINE slot == comps[i].slot
           order == comps[i].order
           y == IF order.side = 0 THEN order.qty ELSE 0
           n == IF order.side = 0 THEN 0 ELSE order.qty
           count == content.count
           F == content.folded
<1>1. /\ content.readable /\ count <= BATCH_CAP
      /\ content.total_yes + content.total_no <= q * count
      /\ \A j \in F : comps[j].slot < count /\ content.orders[comps[j].slot] = comps[j].order
      /\ \A j, k \in F : comps[j].slot = comps[k].slot => j = k
  BY DEF Whole
<1>2. /\ count \in Nat /\ content.total_yes \in Nat /\ content.total_no \in Nat
      /\ content.orders \in [Slots -> OrderType] /\ F \in SUBSET Nat
  BY DEF Content
<1>3. order \in OrderType /\ order.qty \in Nat /\ order.side \in {0, 1}
  BY ComputationsTyped, ComputationFields
<1>4. y \in Nat /\ n \in Nat /\ y + n <= q
  BY <1>3
<1> HIDE DEF y, n
<1>5. new = [content EXCEPT
               !.count = @ + 1, !.total_yes = @ + y, !.total_no = @ + n,
               !.orders = [s \in Slots |-> IF s = slot THEN order ELSE @[s]],
               !.folded = @ \cup {i}]
  BY <1>1 DEF FoldOrder, y, n
<1>6. /\ new.readable = content.readable
      /\ new.count = content.count + 1
      /\ new.total_yes = content.total_yes + y
      /\ new.total_no = content.total_no + n
      /\ new.orders = [s \in Slots |-> IF s = slot THEN order ELSE content.orders[s]]
      /\ new.folded = content.folded \cup {i}
  BY <1>5 DEF Content
<1>7. new.total_yes + new.total_no <= q * new.count
  <2> DEFINE a == content.total_yes
             b == content.total_no
             p == q * count
  <2>1. p \in Nat
    BY <1>2
  <2>2. q * (count + 1) = p + q
    BY <1>2
  <2>3. a \in Nat /\ b \in Nat /\ a + b <= p
    BY <1>1, <1>2
  <2> HIDE DEF a, b, p
  <2>4. (a + y) + (b + n) <= p + q
    BY <1>4, <2>1, <2>3
  <2> QED
    BY <1>6, <2>2, <2>4 DEF a, b
<1>8. \A j \in F : comps[j].slot \in Nat
  BY ComputationsTyped, ComputationFields DEF Accounts
<1>9. BATCH_CAP \in Nat
  BY CountsAreNumbers
<1>10. \A j \in new.folded : /\ comps[j].slot < new.count
                             /\ new.orders[comps[j].slot] = comps[j].order
  <2> SUFFICES ASSUME NEW j \in new.folded
               PROVE  comps[j].slot < new.count /\ new.orders[comps[j].slot] = comps[j].order
    OBVIOUS
  <2>1. CASE j = i
    <3>1. slot \in Slots
      BY <1>2, <1>9 DEF Slots
    <3> QED
      <4>1. comps[j].slot = slot /\ comps[j].order = order
        BY <2>1
      <4>2. new.orders[slot] = order
        BY <1>6, <3>1
      <4>3. slot < new.count
        BY <1>2, <1>6
      <4> QED
        BY <4>1, <4>2, <4>3
  <2>2. CASE j \in F
    <3>1. comps[j].slot \in Nat /\ comps[j].slot < count
      BY <1>1, <1>8, <2>2
    <3>2. comps[j].slot \in Slots /\ comps[j].slot # slot /\ comps[j].slot < count + 1
      <4> DEFINE s == comps[j].slot
      <4> HIDE DEF s
      <4>1. s \in Nat /\ s < count
        BY <3>1 DEF s
      <4>2. count < BATCH_CAP
        BY <1>1
      <4>3. s # slot
        BY <1>1, <1>2, <4>1
      <4> SUFFICES s \in Slots /\ s # slot /\ s < count + 1
        BY DEF s
      <4> QED
        BY <4>1, <4>2, <4>3, <1>2, <1>9 DEF Slots
    <3>3. new.orders[comps[j].slot] = content.orders[comps[j].slot]
      BY <1>6, <3>2
    <3>4. content.orders[comps[j].slot] = comps[j].order
      BY <1>1, <2>2
    <3>5. comps[j].slot < new.count
      BY <1>6, <3>2
    <3> QED
      BY <3>3, <3>4, <3>5
  <2> QED
    BY <1>6, <2>1, <2>2
<1>11. \A j, k \in new.folded : comps[j].slot = comps[k].slot => j = k
  <2>1. \A j \in F : comps[j].slot # comps[i].slot
    BY <1>1, <1>2, <1>8
  <2>2. new.folded = F \cup {i}
    BY <1>6
  <2> HIDE DEF F
  <2> QED
    BY <1>1, <2>1, <2>2
<1>12. new.count <= BATCH_CAP
  BY <1>2, <1>6, <1>9
<1> QED
  BY <1>1, <1>6, <1>7, <1>10, <1>11, <1>12 DEF Whole

(* All that is folded for a user is demanded, when the book is whole. *)
LEMMA FoldedIsDemanded ==
  ASSUME Typed, Owned, Attributed, book.inits <= 1,
         NEW e, e.content \in Content, Accounts(computations, e.content),
         NEW q, Whole(computations, e.content, q),
         NEW side \in {0, 1}, NEW u \in Owners
  PROVE  FoldedOf(computations, e.content.folded, u, side) <= Demand(ReconstructedOrders(e), u, SideOf(side))
<1> DEFINE A == ActiveSlots(e)
           n == Cardinality(A)
           R == ReconstructedOrders(e)
           F == e.content.folded
           S == {k \in DOMAIN R : R[k].user = u /\ R[k].side = SideOf(side)}
           T == {i \in F : computations[i].owners = {u} /\ computations[i].order.side = side}
           Q == {i \in T : computations[i].order.qty # 0}
           qR == [k \in DOMAIN R |-> R[k].qty]
           qC == [i \in DOMAIN computations |-> computations[i].order.qty]
           place(i) == CHOOSE k \in 1 .. n : Nth(A, k) = computations[i].slot
           b == [i \in Q |-> place(i)]
           f == [k \in S |-> qR[k]]
           g == [i \in Q |-> qC[i]]
<1>1. A \in SUBSET Nat /\ IsFiniteSet(A) /\ R \in OrderSeq(Owners)
  BY ReconstructedTypes DEF Whole
<1>2. n \in Nat /\ \A s \in A : \E k \in 1 .. n : Nth(A, k) = s
  <2> HIDE DEF A
  <2> QED
    BY <1>1, NthNumbers
<1>3. /\ DOMAIN R = 1 .. n
      /\ \A k \in 1 .. n : /\ R[k].user = OwnerOf(Nth(A, k))
                           /\ R[k].side = SideOf(e.content.orders[Nth(A, k)].side)
                           /\ R[k].qty = e.content.orders[Nth(A, k)].qty
  BY DEF ReconstructedOrders, SideOf
<1>4. computations \in Seq(Computation)
  BY DEF Typed
<1>5. F \in SUBSET DOMAIN computations /\ \A i \in F : computations[i].kind = "ingest_order"
  BY DEF Accounts
<1>6. ASSUME NEW i \in Q
      PROVE  /\ computations[i].slot \in A
             /\ OwnerOf(computations[i].slot) = u
             /\ e.content.orders[computations[i].slot] = computations[i].order
  <2>1. computations[i].slot < e.content.count
        /\ e.content.orders[computations[i].slot] = computations[i].order
    BY DEF Whole
  <2>2. computations[i].slot \in Nat /\ e.content.count \in Nat
    BY <1>4, <1>5, ComputationsTyped, ComputationFields DEF Content
  <2>3. computations[i].slot \in 0 .. e.content.count - 1
    BY <2>1, <2>2
  <2>4. computations[i].slot \in A
    BY <2>1, <2>3 DEF ActiveSlots
  <2>5. registry[computations[i].slot] = {u}
    BY <1>5 DEF Attributed
  <2>6. OwnerOf(computations[i].slot) = u
    BY <2>5 DEF OwnerOf
  <2> QED
    BY <2>1, <2>4, <2>6
<1>7. \A i \in Q : place(i) \in 1 .. n /\ Nth(A, place(i)) = computations[i].slot
  BY <1>2, <1>6
<1>8. \A i \in Q : place(i) \in S /\ qC[i] = qR[place(i)]
  <2> SUFFICES ASSUME NEW i \in Q
               PROVE  place(i) \in S /\ qC[i] = qR[place(i)]
    OBVIOUS
  <2>1. place(i) \in 1 .. n /\ Nth(A, place(i)) = computations[i].slot
    BY <1>7
  <2>2. /\ R[place(i)].user = u
        /\ R[place(i)].side = SideOf(side)
        /\ R[place(i)].qty = computations[i].order.qty
    BY <1>3, <1>6, <2>1
  <2>3. i \in DOMAIN computations
    BY <1>5
  <2> QED
    BY <1>3, <2>1, <2>2, <2>3
<1>9. \A i, j \in Q : place(i) = place(j) => i = j
  <2> SUFFICES ASSUME NEW i \in Q, NEW j \in Q, place(i) = place(j)
               PROVE  i = j
    OBVIOUS
  <2>1. computations[i].slot = computations[j].slot
    BY <1>7
  <2>2. \A k, l \in F : computations[k].slot = computations[l].slot => k = l
    BY DEF Whole
  <2>3. i \in F /\ j \in F
    OBVIOUS
  <2> QED
    BY <2>1, <2>2, <2>3
<1>10. b \in Injection(Q, S)
  <2>1. b \in [Q -> S] /\ \A i \in Q : b[i] = place(i)
    BY <1>8
  <2> HIDE DEF b
  <2>2. \A i, j \in Q : b[i] = b[j] => i = j
    BY <1>9, <2>1
  <2> QED
    BY <2>1, <2>2 DEF Injection, IsInjective
<1>11. /\ qC \in [DOMAIN computations -> Nat]
       /\ Q \in SUBSET T /\ T \in SUBSET DOMAIN computations
       /\ \A i \in T \ Q : qC[i] = 0
  BY <1>4, <1>5, ComputationsTyped, ComputationFields
<1>12. qR \in [DOMAIN R -> Nat]
  <2>1. \A k \in DOMAIN R : R[k].qty \in Nat
    BY <1>1, OrderTypes
  <2> QED
    BY <2>1
<1>13. S \in SUBSET DOMAIN R /\ IsFiniteSet(S)
  <2>1. S \in SUBSET DOMAIN R
    OBVIOUS
  <2>2. IsFiniteSet(DOMAIN R)
    BY <1>1, OrderTypes
  <2> QED
    BY <2>1, <2>2, FS_Subset
<1>14. Demand(R, u, SideOf(side)) = Total(S, qR) /\ FoldedOf(computations, F, u, side) = Total(T, qC)
  BY DEF Demand, FoldedOf
<1>15. \A k \in S : f[k] = qR[k]
  OBVIOUS
<1>16. \A i \in Q : g[i] = qC[i] /\ b[i] = place(i)
  OBVIOUS
<1> HIDE DEF S, T, Q, qR, qC, place, b, A, n, R, F
<1>17. f \in [S -> Nat] /\ g \in [Q -> Nat]
  BY <1>11, <1>12, <1>13
<1>18. \A i \in Q : g[i] <= f[b[i]]
  <2> SUFFICES ASSUME NEW i \in Q PROVE g[i] <= f[b[i]]
    OBVIOUS
  <2>1. g[i] \in Nat
    BY <1>17
  <2>2. g[i] = f[b[i]]
    BY <1>8, <1>15, <1>16
  <2> QED
    BY <2>1, <2>2
<1> HIDE DEF f, g
<1>19. Total(Q, g) <= Total(S, f)
  BY <1>10, <1>13, <1>17, <1>18, TotalInjection
<1>20. Total(S, qR) = Total(S, f)
  BY <1>15, TotalEqual
<1>21. Total(Q, qC) = Total(Q, g)
  BY <1>16, TotalEqual
<1>22. Total(T, qC) = Total(Q, qC)
  BY <1>11, TotalRestrict
<1> QED
  BY <1>14, <1>19, <1>20, <1>21, <1>22 DEF R, F

(* A whole book of small orders is relayed. *)
LEMMA RelaySucceeds ==
  ASSUME Typed, Owned, Attributed, book.inits <= 1,
         NEW e, e = Reveal(e.content), e.content \in Content, Accounts(computations, e.content),
         NEW q \in Nat, SmallOrders(q), Whole(computations, e.content, q)
  PROVE  Relay(e).ok
<1> DEFINE R == ReconstructedOrders(e)
           F == e.content.folded
           A == ActiveSlots(e)
           res == MatchBatch(R)
           ty == e.content.total_yes
           tn == e.content.total_no
           count == e.content.count
           fd(side) == FoldedSide(computations, F, side)
           dm(side) == Demands(Owners, R, side)
<1>1. /\ e.content.readable /\ count <= BATCH_CAP /\ ty + tn <= q * count
      /\ count \in Nat /\ ty \in Nat /\ tn \in Nat /\ BATCH_CAP \in Nat
  BY CountsAreNumbers DEF Whole, Content
<1>2. /\ IsFiniteSet(Owners)
      /\ A \in SUBSET Nat /\ IsFiniteSet(A)
      /\ R \in OrderSeq(Owners)
  BY <1>1, ReconstructedTypes, CountsAreNumbers
<1>3. \A s \in A : registry[s] # {}
  <2> SUFFICES ASSUME NEW s \in A PROVE registry[s] # {}
    OBVIOUS
  <2>1. PICK i \in F : /\ computations[i].slot = s
                       /\ computations[i].order = e.content.orders[s]
                       /\ OwnerOf(s) \in Owners
                       /\ computations[i].owners = {OwnerOf(s)}
    BY <1>1, ActiveSlotsFolded, ZenonT(30)
  <2>2. i \in DOMAIN computations /\ computations[i].kind = "ingest_order"
    BY DEF Accounts
  <2> QED
    BY <2>1, <2>2 DEF Attributed
<1>4. Len(R) <= MAX_FILLS
  <2>1. A \in SUBSET (0 .. count - 1)
    BY DEF ActiveSlots
  <2>2. IsFiniteSet(0 .. count - 1) /\ Cardinality(0 .. count - 1) = count
    <3> HIDE DEF count
    <3>1. count - 1 \in Int /\ 0 \in Int
      BY <1>1
    <3>2. IsFiniteSet(0 .. count - 1)
          /\ Cardinality(0 .. count - 1) = (IF 0 > count - 1 THEN 0 ELSE (count - 1) - 0 + 1)
      BY <3>1, FS_Interval
    <3> QED
      BY <1>1, <3>2
  <2>3. Cardinality(A) <= count /\ Cardinality(A) \in Nat
    BY <1>2, <2>1, <2>2, FS_Subset, FS_CardinalityType
  <2>4. DOMAIN R = 1 .. Cardinality(A)
    BY DEF ReconstructedOrders
  <2>5. DOMAIN R = 1 .. Len(R) /\ Len(R) \in Nat
    BY <1>2, OrderTypes
  <2> DEFINE c == Cardinality(A)
             l == Len(R)
  <2>6. l \in Nat /\ c \in Nat /\ 1 .. l = 1 .. c /\ c <= count
    BY <2>3, <2>4, <2>5
  <2>7. BATCH_CAP <= MAX_FILLS /\ MAX_FILLS \in Nat
    BY SizesAssumption DEF SmallOrders
  <2> HIDE DEF c, l, count
  <2>8. l = c
    BY <2>6
  <2> QED
    BY <1>1, <2>6, <2>7, <2>8 DEF l
<1>5. ty = Total(Owners, fd(0)) /\ tn = Total(Owners, fd(1))
  BY DEF Accounts
<1>6. \A u \in Owners : /\ Demand(R, u, Yes) = FoldedOf(computations, F, u, 0)
                        /\ Demand(R, u, No) = FoldedOf(computations, F, u, 1)
  <2>1. SideOf(0) = Yes /\ SideOf(1) = No
    BY DEF SideOf
  <2>2. ASSUME NEW u \in Owners, NEW side \in {0, 1}
        PROVE  Demand(R, u, SideOf(side)) = FoldedOf(computations, F, u, side)
    <3>1. Demand(R, u, SideOf(side)) <= FoldedOf(computations, F, u, side)
      BY <1>1, DemandIsFolded
    <3>2. FoldedOf(computations, F, u, side) <= Demand(R, u, SideOf(side))
      BY FoldedIsDemanded
    <3>3. Demand(R, u, SideOf(side)) \in Nat
      BY <1>2, DemandType
    <3>4. FoldedOf(computations, F, u, side) \in Nat
      <4>1. F \in SUBSET DOMAIN computations /\ computations \in Seq(Computation)
        BY DEF Accounts, Typed
      <4> HIDE DEF F
      <4> QED
        BY <4>1, FoldedType
    <3> QED
      BY <3>1, <3>2, <3>3, <3>4
  <2>3. \A u \in Owners : Demand(R, u, SideOf(0)) = FoldedOf(computations, F, u, 0)
    BY <2>2
  <2>4. \A u \in Owners : Demand(R, u, SideOf(1)) = FoldedOf(computations, F, u, 1)
    BY <2>2
  <2> QED
    BY <2>1, <2>3, <2>4
<1>7. dm(Yes) = fd(0) /\ dm(No) = fd(1)
  BY <1>6 DEF Demands, FoldedSide
<1>8. ty + tn <= U64Max
  <2> DEFINE p == q * count
             b == q * BATCH_CAP
  <2>1. b = BATCH_CAP * q
    BY <1>1
  <2>2. b <= U64Max /\ U64Max \in Nat
    BY <2>1, SizesAssumption DEF SmallOrders
  <2>3. p <= b
    <3> HIDE DEF count
    <3> QED
      BY <1>1, ProductMonotone
  <2>4. p \in Nat /\ b \in Nat
    BY <1>1
  <2>5. ty + tn <= p /\ ty + tn \in Nat
    BY <1>1
  <2> HIDE DEF p, b, ty, tn
  <2> DEFINE sum == ty + tn
  <2> HIDE DEF sum
  <2>6. sum <= U64Max
    BY <2>2, <2>3, <2>4, <2>5 DEF sum
  <2> QED
    BY <2>6 DEF sum
<1>9. /\ res.ok
      /\ res.total_yes = ty /\ res.total_no = tn
      /\ res.direction = (IF ty >= tn THEN DIRECTION_YES_HEAVY ELSE DIRECTION_NO_HEAVY)
      /\ res.net_imbalance = (IF ty >= tn THEN ty - tn ELSE tn - ty)
  <2>1. ty = Total(Owners, dm(Yes)) /\ tn = Total(Owners, dm(No))
    BY <1>5, <1>7
  <2>2. res = MatchBatch(R)
    OBVIOUS
  <2> HIDE DEF res, ty, tn, R
  <2> QED
    BY <1>2, <1>4, <1>8, <2>1, <2>2, MatchSucceeds
<1>10. /\ e.direction = (IF ty >= tn THEN DIRECTION_YES_HEAVY ELSE DIRECTION_NO_HEAVY)
       /\ e.net_imbalance = (IF ty >= tn THEN ty - tn ELSE tn - ty)
  BY DEF Reveal
<1>11. CrossChecked(e, res)
  BY <1>9, <1>10 DEF CrossChecked
<1>12. ~(count > BATCH_CAP)
  BY <1>1
<1> QED
  BY <1>1, <1>3, <1>9, <1>11, <1>12 DEF Relay

(* No computation leaves its end. *)
Settles(old, new) ==
  \A i \in DOMAIN old : old[i].status \in {"finalized", "failed"} => new[i].status = old[i].status

LEMMA QueuedLast ==
  ASSUME computations \in Seq(Computation),
         NEW kind \in {"init_book", "ingest_order", "clear_batch"}, NEW slot \in Nat,
         NEW order \in OrderType, NEW owners \in SUBSET Owners, NEW nonce \in Nat,
         Queue(kind, slot, order, owners, nonce)
  PROVE  /\ Len(computations) \in Nat
         /\ DOMAIN computations = 1 .. Len(computations)
         /\ DOMAIN computations' = 1 .. Len(computations) + 1
         /\ \A i \in 1 .. Len(computations) : computations'[i] = computations[i]
         /\ computations'[Len(computations) + 1] =
              [kind |-> kind, slot |-> slot, order |-> order, owners |-> owners, nonce |-> nonce,
               status |-> "queued", output |-> Unreadable]
         /\ overlapped' = (overlapped \/ Running # {})
<1> DEFINE c == [kind |-> kind, slot |-> slot, order |-> order, owners |-> owners, nonce |-> nonce,
                 status |-> "queued", output |-> Unreadable]
<1>1. computations' = Append(computations, c)
      /\ overlapped' = (overlapped \/ \E i \in DOMAIN computations : IsRunning(computations[i]))
  BY DEF Queue
<1>2. Unreadable \in Content
  BY EmptyAccounts
<1>3. c \in Computation
  BY <1>2 DEF Computation
<1> HIDE DEF c
<1>4. Len(computations) \in Nat /\ DOMAIN computations = 1 .. Len(computations)
  <2> HIDE DEF Computation
  <2> QED
    BY LenProperties
<1>5. /\ computations' \in Seq(Computation)
      /\ Len(computations') = Len(computations) + 1
      /\ computations'[Len(computations) + 1] = c
      /\ \A i \in 1 .. Len(computations) : computations'[i] = computations[i]
  <2> HIDE DEF Computation
  <2> QED
    BY <1>1, <1>3, AppendProperties
<1>6. DOMAIN computations' = 1 .. Len(computations) + 1
  <2> HIDE DEF Computation
  <2> QED
    BY <1>5, LenProperties
<1>7. overlapped' = (overlapped \/ Running # {})
  BY <1>1 DEF Running
<1> QED
  BY <1>4, <1>5, <1>6, <1>7 DEF c

(* The three instructions queue one computation each. *)
LEMMA Instructions ==
  ASSUME Typed
  PROVE  /\ InitBook => Queue("init_book", 0, NoOrder, {}, 0)
                        /\ 0 \in Nat /\ NoOrder \in OrderType /\ {} \in SUBSET Owners
         /\ ClearBatch => Queue("clear_batch", 0, NoOrder, {}, book.nonce)
                          /\ 0 \in Nat /\ NoOrder \in OrderType /\ {} \in SUBSET Owners /\ book.nonce \in Nat
         /\ \A u \in Owners :
              IngestOrder(u) => Queue("ingest_order", book.slot_count, Wish[u], {u}, book.nonce)
                                /\ book.slot_count \in Nat /\ Wish[u] \in OrderType
                                /\ {u} \in SUBSET Owners /\ book.nonce \in Nat
<1>1. book.nonce \in Nat /\ book.slot_count \in Nat
  BY CountsAreNumbers DEF Typed, Account
<1>2. NoOrder \in OrderType
  BY DEF NoOrder, OrderType
<1>3. \A u \in Owners : Wish[u] \in OrderType
  BY CountsAreNumbers
<1> QED
  BY <1>1, <1>2, <1>3 DEF InitBook, ClearBatch, IngestOrder

(* What each of them queues, last. *)
Last(kind, slot, order, owners, nonce) ==
  /\ Len(computations) \in Nat
  /\ DOMAIN computations = 1 .. Len(computations)
  /\ DOMAIN computations' = 1 .. Len(computations) + 1
  /\ \A i \in 1 .. Len(computations) : computations'[i] = computations[i]
  /\ computations'[Len(computations) + 1] =
       [kind |-> kind, slot |-> slot, order |-> order, owners |-> owners, nonce |-> nonce,
        status |-> "queued", output |-> Unreadable]
  /\ overlapped' = (overlapped \/ Running # {})

LEMMA InstructionsQueue ==
  ASSUME Typed
  PROVE  /\ InitBook => Last("init_book", 0, NoOrder, {}, 0)
         /\ ClearBatch => Last("clear_batch", 0, NoOrder, {}, book.nonce)
         /\ \A u \in Owners :
              IngestOrder(u) => Last("ingest_order", book.slot_count, Wish[u], {u}, book.nonce)
<1>1. computations \in Seq(Computation)
  BY DEF Typed
<1>2. ASSUME InitBook PROVE Last("init_book", 0, NoOrder, {}, 0)
  <2> DEFINE kind == "init_book"
             slot == 0
             owners == {}
  <2>1. /\ Queue(kind, slot, NoOrder, owners, slot)
        /\ slot \in Nat /\ NoOrder \in OrderType /\ owners \in SUBSET Owners
    BY <1>2, Instructions
  <2>2. kind \in {"init_book", "ingest_order", "clear_batch"}
    OBVIOUS
  <2> HIDE DEF kind, slot, owners
  <2>3. Last(kind, slot, NoOrder, owners, slot)
    BY <1>1, <2>1, <2>2, QueuedLast DEF Last
  <2> QED
    BY <2>3 DEF kind, slot, owners
<1>3. ASSUME ClearBatch PROVE Last("clear_batch", 0, NoOrder, {}, book.nonce)
  <2> DEFINE kind == "clear_batch"
             slot == 0
             owners == {}
  <2>1. /\ Queue(kind, slot, NoOrder, owners, book.nonce)
        /\ slot \in Nat /\ NoOrder \in OrderType /\ owners \in SUBSET Owners /\ book.nonce \in Nat
    BY <1>3, Instructions
  <2>2. kind \in {"init_book", "ingest_order", "clear_batch"}
    OBVIOUS
  <2> HIDE DEF kind, slot, owners
  <2>3. Last(kind, slot, NoOrder, owners, book.nonce)
    BY <1>1, <2>1, <2>2, QueuedLast DEF Last
  <2> QED
    BY <2>3 DEF kind, slot, owners
<1>4. ASSUME NEW u \in Owners, IngestOrder(u)
      PROVE  Last("ingest_order", book.slot_count, Wish[u], {u}, book.nonce)
  <2> DEFINE kind == "ingest_order"
             owners == {u}
             order == Wish[u]
  <2>1. /\ Queue(kind, book.slot_count, order, owners, book.nonce)
        /\ book.slot_count \in Nat /\ order \in OrderType /\ owners \in SUBSET Owners /\ book.nonce \in Nat
    BY <1>4, Instructions
  <2>2. kind \in {"init_book", "ingest_order", "clear_batch"}
    OBVIOUS
  <2> HIDE DEF kind, owners, order
  <2>3. Last(kind, book.slot_count, order, owners, book.nonce)
    BY <1>1, <2>1, <2>2, QueuedLast DEF Last
  <2> QED
    BY <2>3 DEF kind, owners, order
<1> QED
  BY <1>2, <1>3, <1>4

(* What a computation that goes on keeps. *)
Moves(i, status) ==
  /\ DOMAIN computations' = DOMAIN computations
  /\ \A j \in DOMAIN computations : j # i => computations'[j] = computations[j]
  /\ computations'[i].kind = computations[i].kind /\ computations'[i].slot = computations[i].slot
  /\ computations'[i].order = computations[i].order /\ computations'[i].owners = computations[i].owners
  /\ computations'[i].nonce = computations[i].nonce /\ computations'[i].status = status

LEMMA ComputationsMove ==
  ASSUME computations \in Seq(Computation), NEW i \in DOMAIN computations
  PROVE  /\ Execute(i) => computations[i].status = "queued" /\ Moves(i, "executed")
         /\ BookCallback(i) \/ ClearBatchCallback(i) =>
              /\ computations[i].status = "executed" /\ Moves(i, "finalized")
              /\ computations'[i].output = computations[i].output
         /\ AbortedCallback(i) => computations[i].status = "queued" /\ Moves(i, "failed")
<1>1. computations[i] \in Computation
  BY ComputationsTyped
<1>2. ASSUME NEW status, computations' = [computations EXCEPT ![i].status = status]
      PROVE  Moves(i, status) /\ computations'[i].output = computations[i].output
  BY <1>1, <1>2 DEF Moves, Computation
<1>3. ASSUME NEW output, computations' = [computations EXCEPT ![i].status = "executed", ![i].output = output]
      PROVE  Moves(i, "executed")
  <2> DEFINE c == computations[i]
             d == [c EXCEPT !.status = "executed"]
             f == [d EXCEPT !.output = output]
  <2>4. c = [kind |-> c.kind, slot |-> c.slot, order |-> c.order, owners |-> c.owners,
             nonce |-> c.nonce, status |-> c.status, output |-> c.output]
    <3> HIDE DEF c
    <3>1. c \in Computation
      BY <1>1 DEF c
    <3> QED
      BY <3>1 DEF Computation
  <2>1. d = [kind |-> c.kind, slot |-> c.slot, order |-> c.order, owners |-> c.owners,
             nonce |-> c.nonce, status |-> "executed", output |-> c.output]
    <3> HIDE DEF c
    <3> QED
      BY <2>4
  <2>2. computations' = [computations EXCEPT ![i] = f]
    BY <1>3
  <2> HIDE DEF d, c
  <2>3. /\ f.kind = d.kind /\ f.slot = d.slot /\ f.order = d.order /\ f.owners = d.owners
        /\ f.nonce = d.nonce /\ f.status = d.status
    BY <2>1
  <2> HIDE DEF f
  <2> QED
    BY <2>1, <2>2, <2>3 DEF Moves, c
<1>4. Execute(i) => computations[i].status = "queued" /\ Moves(i, "executed")
  BY <1>3 DEF Execute
<1>5. BookCallback(i) \/ ClearBatchCallback(i) =>
        /\ computations[i].status = "executed" /\ Moves(i, "finalized")
        /\ computations'[i].output = computations[i].output
  BY <1>2 DEF BookCallback, ClearBatchCallback
<1>6. AbortedCallback(i) => computations[i].status = "queued" /\ Moves(i, "failed")
  BY <1>2 DEF AbortedCallback
<1> QED
  BY <1>4, <1>5, <1>6

LEMMA MovesSettle ==
  ASSUME NEW i \in DOMAIN computations, NEW status \in {"executed", "finalized", "failed"},
         computations[i].status \in {"queued", "executed"}, Moves(i, status)
  PROVE  Grows(computations, computations') /\ Settles(computations, computations')
<1>1. ASSUME NEW j \in DOMAIN computations
      PROVE  /\ j \in DOMAIN computations'
             /\ computations'[j].kind = computations[j].kind /\ computations'[j].slot = computations[j].slot
             /\ computations'[j].order = computations[j].order /\ computations'[j].owners = computations[j].owners
             /\ computations[j].status # "queued" => computations'[j].status # "queued"
             /\ computations[j].status \in {"finalized", "failed"} =>
                  computations'[j].status = computations[j].status
  <2>1. CASE j = i
    BY <2>1 DEF Moves
  <2>2. CASE j # i
    BY <2>2 DEF Moves
  <2> QED
    BY <2>1, <2>2
<1> QED
  BY <1>1 DEF Grows, Settles

LEMMA LastSettles ==
  ASSUME NEW kind, NEW slot, NEW order, NEW owners, NEW nonce, Last(kind, slot, order, owners, nonce)
  PROVE  Grows(computations, computations') /\ Settles(computations, computations')
<1>1. \A i \in DOMAIN computations : i \in DOMAIN computations' /\ computations'[i] = computations[i]
  BY DEF Last
<1> QED
  BY <1>1 DEF Grows, Settles

(* Every step of the system grows the computations, and settles some. *)
LEMMA NextSettles ==
  ASSUME Typed, [Next]_vars
  PROVE  Grows(computations, computations') /\ Settles(computations, computations')
<1>1. computations \in Seq(Computation)
  BY DEF Typed
<1>2. CASE InitBook \/ ClearBatch
  BY <1>2, InstructionsQueue, LastSettles
<1>3. ASSUME NEW i \in DOMAIN computations, Cluster(i)
      PROVE  Grows(computations, computations') /\ Settles(computations, computations')
  BY <1>1, <1>3, ComputationsMove, MovesSettle DEF Cluster
<1>4. ASSUME NEW u \in Owners, IngestOrder(u)
      PROVE  Grows(computations, computations') /\ Settles(computations, computations')
  BY <1>4, InstructionsQueue, LastSettles
<1>5. CASE UNCHANGED computations
  BY <1>5 DEF Grows, Settles
<1>6. ASSUME NEW u \in Owners, Client(u)
      PROVE  IngestOrder(u) \/ UNCHANGED computations
  BY <1>6 DEF Client, Submit, SubmitUnseen, SubmitFails, Resolve, Retry
<1>7. ASSUME NEW e \in cleared, RelayBatch(e)
      PROVE  UNCHANGED computations
  BY <1>7 DEF RelayBatch
<1>8. UNCHANGED vars => UNCHANGED computations
  BY DEF vars
<1> QED
  BY <1>2, <1>3, <1>4, <1>5, <1>6, <1>7, <1>8 DEF Next

(* What a client waits for is there after every step, its own included. *)
LEMMA AwaitedNext ==
  ASSUME Typed, Awaited, [Next]_vars
  PROVE  Awaited'
<1> DEFINE Clients == [attempt : Nat, offset : Nat,
                       status : {"submitting", "awaiting", "resolved", "failed"}]
           Waits(c, comps, u) ==
             c.status \in {"awaiting", "resolved"} =>
               /\ c.offset \in DOMAIN comps
               /\ comps[c.offset].kind = "ingest_order"
               /\ comps[c.offset].owners = {u}
               /\ c.status = "resolved" => comps[c.offset].status \in {"finalized", "failed"}
<1>1. client \in [Owners -> Clients] /\ \A u \in Owners : Waits(client[u], computations, u)
  BY DEF Awaited
<1>2. Grows(computations, computations') /\ Settles(computations, computations')
  BY NextSettles
<1>3. \A u \in Owners : Waits(client[u], computations', u)
  <2> SUFFICES ASSUME NEW u \in Owners, client[u].status \in {"awaiting", "resolved"}
               PROVE  /\ client[u].offset \in DOMAIN computations'
                      /\ computations'[client[u].offset].kind = "ingest_order"
                      /\ computations'[client[u].offset].owners = {u}
                      /\ client[u].status = "resolved" =>
                           computations'[client[u].offset].status \in {"finalized", "failed"}
    OBVIOUS
  <2>1. /\ client[u].offset \in DOMAIN computations
        /\ computations[client[u].offset].kind = "ingest_order"
        /\ computations[client[u].offset].owners = {u}
        /\ client[u].status = "resolved" =>
             computations[client[u].offset].status \in {"finalized", "failed"}
    BY <1>1
  <2> QED
    BY <1>2, <2>1 DEF Grows, Settles
<1>4. CASE UNCHANGED client
  BY <1>1, <1>3, <1>4 DEF Awaited
<1>5. ASSUME NEW u \in Owners, NEW c \in Clients, client' = [client EXCEPT ![u] = c],
             Waits(c, computations', u)
      PROVE  Awaited'
  <2>1. client' \in [Owners -> Clients]
    BY <1>1, <1>5
  <2>2. \A v \in Owners : client'[v] = IF v = u THEN c ELSE client[v]
    BY <1>1, <1>5
  <2>3. \A v \in Owners : Waits(client'[v], computations', v)
    <3> HIDE DEF Waits, Clients
    <3> QED
      BY <1>3, <1>5, <2>2
  <2> QED
    BY <2>1, <2>3 DEF Awaited
<1>6. ASSUME NEW u \in Owners, Client(u)
      PROVE  Awaited'
  <2>1. client[u] \in Clients /\ client[u].attempt \in Nat
    BY <1>1
  <2>2. NextAttempt(client[u]) \in Clients /\ Waits(NextAttempt(client[u]), computations', u)
    BY <2>1 DEF NextAttempt, Idle
  <2>3. CASE SubmitUnseen(u) \/ SubmitFails(u) \/ Retry(u)
    <3>1. client' = [client EXCEPT ![u] = NextAttempt(client[u])]
      BY <2>3 DEF SubmitUnseen, SubmitFails, Retry, Retried
    <3> HIDE DEF Waits, Clients
    <3> QED
      BY <1>5, <2>2, <3>1
  <2>4. CASE Submit(u)
    <3> DEFINE n == Len(computations) + 1
               d == [client[u] EXCEPT !.status = "awaiting"]
               c == [d EXCEPT !.offset = n]
    <3>1. Last("ingest_order", book.slot_count, Wish[u], {u}, book.nonce)
      BY <2>4, InstructionsQueue DEF Submit
    <3>2. /\ n \in Nat /\ n \in DOMAIN computations'
          /\ computations'[n].kind = "ingest_order" /\ computations'[n].owners = {u}
      BY <3>1 DEF Last
    <3>3. client' = [client EXCEPT ![u].status = "awaiting", ![u].offset = n]
      BY <2>4 DEF Submit
    <3> HIDE DEF n
    <3>4. d \in Clients /\ d.status = "awaiting"
      BY <2>1
    <3>5. client' = [client EXCEPT ![u] = c]
      BY <1>1, <3>3
    <3> HIDE DEF d
    <3>6. c \in Clients /\ c.status = "awaiting" /\ c.offset = n
      BY <3>2, <3>4
    <3> HIDE DEF c
    <3>7. Waits(c, computations', u)
      BY <3>2, <3>6
    <3> HIDE DEF Waits, Clients
    <3> QED
      BY <1>5, <3>5, <3>6, <3>7
  <2>5. CASE Resolve(u)
    <3> DEFINE c == [client[u] EXCEPT !.status = "resolved"]
    <3>1. /\ client[u].status = "awaiting"
          /\ computations[client[u].offset].status \in {"finalized", "failed"}
          /\ client' = [client EXCEPT ![u] = c]
          /\ computations' = computations
      BY <1>1, <2>5 DEF Resolve
    <3>2. c \in Clients /\ c.status = "resolved" /\ c.offset = client[u].offset
      BY <2>1
    <3>3. Waits(c, computations', u)
      BY <1>1, <3>1, <3>2
    <3> HIDE DEF Waits, Clients, c
    <3> QED
      BY <1>5, <3>1, <3>2, <3>3
  <2> QED
    BY <1>6, <2>3, <2>4, <2>5 DEF Client
<1>7. (\E u \in Owners : Client(u)) \/ UNCHANGED client
  BY DEF Next, vars, InitBook, ClearBatch, Cluster, Execute, BookCallback, ClearBatchCallback,
         AbortedCallback, RelayBatch
<1> QED
  BY <1>4, <1>6, <1>7

LEMMA SteadyNext ==
  ASSUME BookInv, Steady, [Next]_vars
  PROVE  Steady'
<1>1. Typed /\ Attributed /\ Owned /\ computations \in Seq(Computation) /\ book \in Account
  BY DEF BookInv, Typed
<1>2. Grows(computations, computations')
  BY <1>1, NextSettles
<1>3. Awaited'
  BY <1>1, AwaitedNext DEF Steady
<1>4. ASSUME NEW kind, NEW slot, NEW order, NEW owners, NEW nonce,
             Last(kind, slot, order, owners, nonce),
             kind = "ingest_order" => \E u \in Owners : order = Wish[u]
      PROVE  Wishes'
  <2>1. ASSUME NEW i \in DOMAIN computations', computations'[i].kind = "ingest_order"
        PROVE  \E u \in Owners : computations'[i].order = Wish[u]
    <3>1. i \in 1 .. Len(computations) \/ i = Len(computations) + 1
      BY <1>4 DEF Last
    <3>2. CASE i \in 1 .. Len(computations)
      BY <1>4, <2>1, <3>2 DEF Last, Steady, Wishes
    <3>3. CASE i = Len(computations) + 1
      BY <1>4, <2>1, <3>3 DEF Last
    <3> QED
      BY <3>1, <3>2, <3>3
  <2> QED
    BY <2>1 DEF Wishes
<1>5. DOMAIN computations' = DOMAIN computations => Wishes'
  BY <1>2 DEF Steady, Wishes, Grows
<1>6. CASE InitBook
  <2>1. Last("init_book", 0, NoOrder, {}, 0)
    BY <1>1, <1>6, InstructionsQueue
  <2>2. Wishes'
    BY <1>4, <2>1
  <2>3. book'.inits # 0 /\ cleared' = cleared
    BY <1>1, <1>6 DEF InitBook, relayVars, Account
  <2> QED
    BY <1>3, <2>2, <2>3 DEF Steady
<1>7. CASE ClearBatch
  <2>1. Last("clear_batch", 0, NoOrder, {}, book.nonce)
    BY <1>1, <1>7, InstructionsQueue
  <2>2. Wishes'
    BY <1>4, <2>1
  <2>3. book' = book /\ cleared' = cleared
    BY <1>7 DEF ClearBatch, relayVars
  <2> QED
    BY <1>3, <2>2, <2>3 DEF Steady
<1>8. ASSUME NEW u \in Owners, IngestOrder(u)
      PROVE  Steady'
  <2>1. Last("ingest_order", book.slot_count, Wish[u], {u}, book.nonce)
    BY <1>1, <1>8, InstructionsQueue
  <2>2. Wishes'
    BY <1>4, <2>1
  <2>3. book'.inits = book.inits /\ book.exists /\ cleared' = cleared
    BY <1>1, <1>8 DEF IngestOrder, Account
  <2>4. book'.inits # 0
    BY <1>1, <2>3 DEF Attributed
  <2> QED
    BY <1>3, <2>2, <2>3, <2>4 DEF Steady
<1>9. ASSUME NEW i \in DOMAIN computations, Cluster(i)
      PROVE  Steady'
  <2>1. Wishes'
    BY <1>1, <1>5, <1>9, ComputationsMove DEF Cluster, Moves
  <2>2. computations # <<>>
    OBVIOUS
  <2>3. book.inits # 0
    BY <1>1, <2>2 DEF Attributed
  <2>4. book'.inits = book.inits
    BY <1>1, <1>9 DEF Cluster, Execute, BookCallback, BookWritten, ClearBatchCallback,
                      AbortedCallback, Account
  <2>5. \A e \in cleared' : e = Reveal(e.content)
    <3>1. cleared' = cleared \/ cleared' = cleared \cup {Reveal(computations[i].output)}
      BY <1>9 DEF Cluster, Execute, BookCallback, ClearBatchCallback, AbortedCallback, relayVars
    <3>2. Reveal(computations[i].output).content = computations[i].output
      BY DEF Reveal
    <3> QED
      BY <3>1, <3>2 DEF Steady
  <2> QED
    BY <1>3, <2>1, <2>3, <2>4, <2>5 DEF Steady
<1>10. ASSUME UNCHANGED <<book, computations, cleared>>
       PROVE  Steady'
  BY <1>3, <1>5, <1>10 DEF Steady
<1>11. ASSUME NEW u \in Owners, Client(u)
       PROVE  IngestOrder(u) \/ UNCHANGED <<book, computations, cleared>>
  BY <1>11 DEF Client, Submit, SubmitUnseen, SubmitFails, Resolve, Retry, relayVars
<1>12. ASSUME NEW e \in cleared, RelayBatch(e)
       PROVE  UNCHANGED <<book, computations, cleared>>
  BY <1>12 DEF RelayBatch
<1>13. UNCHANGED vars => UNCHANGED <<book, computations, cleared>>
  BY DEF vars
<1> QED
  BY <1>6, <1>7, <1>8, <1>9, <1>10, <1>11, <1>12, <1>13 DEF Next

(* Serial use does not come back once it is lost. *)
LEMMA SerialBefore ==
  ASSUME BookInv, Steady, [Next]_vars, UsedSerially'
  PROVE  UsedSerially
<1>1. Typed /\ computations \in Seq(Computation) /\ book \in Account
  BY DEF BookInv, Typed
<1>2. Settles(computations, computations') /\ Grows(computations, computations')
  BY <1>1, NextSettles
<1>3. \A i \in DOMAIN computations : computations[i].status # "failed"
  BY <1>2 DEF UsedSerially, Settles, Grows
<1>4. /\ ~overlapped
      /\ book.inits <= 1 /\ book.slot_count <= BATCH_CAP
  <2>1. CASE InitBook
    <3>1. ~overlapped
      BY <2>1 DEF InitBook, Queue, UsedSerially
    <3>2. book'.inits = book.inits + 1 /\ book.inits \in Nat /\ book'.inits <= 1
      BY <1>1, <2>1 DEF InitBook, Account, UsedSerially
    <3>3. book.inits = 0
      BY <3>2
    <3>4. book.slot_count = 0
      BY <3>3 DEF Steady, NoBook
    <3> QED
      BY <3>1, <3>3, <3>4, CountsAreNumbers
  <2>2. CASE ClearBatch
    BY <2>2 DEF ClearBatch, Queue, UsedSerially
  <2>3. ASSUME NEW u \in Owners, IngestOrder(u)
        PROVE  /\ ~overlapped
               /\ book.inits <= 1 /\ book.slot_count <= BATCH_CAP
    <3>1. ~overlapped
      BY <2>3 DEF IngestOrder, Queue, UsedSerially
    <3>2. /\ book'.slot_count = book.slot_count + 1 /\ book'.inits = book.inits
          /\ book.slot_count \in Nat
      BY <1>1, <2>3, CountsAreNumbers DEF IngestOrder, Account
    <3>3. book.slot_count <= BATCH_CAP
      BY <3>2, CountsAreNumbers DEF UsedSerially
    <3> QED
      BY <3>1, <3>2, <3>3 DEF UsedSerially
  <2>4. ASSUME NEW i \in DOMAIN computations, Cluster(i)
        PROVE  /\ ~overlapped
               /\ book.inits <= 1 /\ book.slot_count <= BATCH_CAP
    <3>1. overlapped' = overlapped /\ book'.inits = book.inits /\ book'.slot_count = book.slot_count
      BY <1>1, <2>4 DEF Cluster, Execute, BookCallback, BookWritten, ClearBatchCallback,
                        AbortedCallback, Account
    <3> QED
      BY <3>1 DEF UsedSerially
  <2>5. ASSUME UNCHANGED <<book, overlapped>>
        PROVE  /\ ~overlapped
               /\ book.inits <= 1 /\ book.slot_count <= BATCH_CAP
    BY <2>5 DEF UsedSerially
  <2>6. ASSUME NEW u \in Owners, Client(u)
        PROVE  IngestOrder(u) \/ UNCHANGED <<book, overlapped>>
    BY <2>6 DEF Client, Submit, SubmitUnseen, SubmitFails, Resolve, Retry
  <2>7. ASSUME NEW e \in cleared, RelayBatch(e)
        PROVE  UNCHANGED <<book, overlapped>>
    BY <2>7 DEF RelayBatch
  <2>8. UNCHANGED vars => UNCHANGED <<book, overlapped>>
    BY DEF vars
  <2> QED
    BY <2>1, <2>2, <2>3, <2>4, <2>5, <2>6, <2>7, <2>8 DEF Next
<1> QED
  BY <1>3, <1>4 DEF UsedSerially

LEMMA BooksKept ==
  ASSUME Accounted, NEW q, BooksWhole(q), Grows(computations, computations'),
         book'.state.content = book.state.content, cleared' = cleared, relayed' = relayed
  PROVE  BooksWhole(q)'
<1>1. \A e \in cleared : Whole(computations', e.content, q)
  BY WholeKept DEF BooksWhole, Accounted
<1>2. book.state.content.readable => Whole(computations', book.state.content, q)
  BY WholeKept DEF BooksWhole, Accounted
<1> QED
  BY <1>1, <1>2 DEF BooksWhole

(* A clear or an ingestion that is queued while nothing runs. *)
LEMMA QueueFits ==
  ASSUME BookInv, NEW q, Fits(q), book.exists, ~overlapped',
         NEW kind \in {"ingest_order", "clear_batch"}, NEW slot, NEW order, NEW owners,
         Last(kind, slot, order, owners, book.nonce),
         book'.state = book.state, book'.nonce = book.nonce,
         kind = "ingest_order" => slot = book.slot_count /\ book'.slot_count = book.slot_count + 1,
         kind = "clear_batch" => book'.slot_count = book.slot_count,
         cleared' = cleared, relayed' = relayed
  PROVE  Fits(q)'
<1> DEFINE content == book.state.content
           n == Len(computations)
           ingests == {i \in DOMAIN computations : computations[i].kind = "ingest_order"}
<1>1. OneRuns /\ OpensFirst /\ AllFolded /\ OutputsFit /\ BooksWhole(q)
  BY DEF Fits
<1>2. /\ n \in Nat /\ DOMAIN computations = 1 .. n /\ DOMAIN computations' = 1 .. n + 1
      /\ \A i \in 1 .. n : computations'[i] = computations[i]
      /\ computations'[n + 1].kind = kind /\ computations'[n + 1].slot = slot
      /\ computations'[n + 1].nonce = book.nonce /\ computations'[n + 1].status = "queued"
      /\ Running = {}
  <2>1. overlapped' = (overlapped \/ Running # {})
    BY DEF Last
  <2>2. Running = {}
    BY <2>1, Zenon
  <2> QED
    BY <2>2 DEF Last
<1>3. Grows(computations, computations')
  BY LastSettles
<1> HIDE DEF n
<1>4. \A i \in 1 .. n + 1 : i = n + 1 \/ i \in 1 .. n
  BY <1>2
<1>5. Running' = {n + 1}
  <2>1. n + 1 \in Running'
    BY <1>2 DEF Running, IsRunning
  <2>2. \A i \in Running' : i \notin 1 .. n
    BY <1>2 DEF Running, IsRunning
  <2> QED
    BY <1>2, <1>4, <2>1, <2>2 DEF Running
<1>6. content.readable
  BY <1>1, <1>2 DEF OpensFirst
<1>7. book'.state.content = content
  OBVIOUS
<1>8. OneRuns'
  BY <1>1, <1>2, <1>5 DEF OneRuns
<1>9. OpensFirst'
  BY <1>2, <1>5, <1>6, <1>7 DEF OpensFirst
<1>10. AllFolded'
  <2>1. book.slot_count = content.count
    BY <1>1, <1>2 DEF AllFolded
  <2>2. \A i \in DOMAIN computations' :
          computations'[i].kind = "ingest_order" /\ computations'[i].status = "finalized" => i \in content.folded
    BY <1>1, <1>2, <1>4 DEF AllFolded
  <2>3. \A i \in DOMAIN computations' :
          i \in Running' /\ computations'[i].kind = "ingest_order" =>
            /\ computations'[i].slot = content.count /\ book'.slot_count = content.count + 1
    BY <1>2, <1>5, <2>1
  <2>4. (~\E i \in DOMAIN computations' : i \in Running' /\ computations'[i].kind = "ingest_order")
          => book'.slot_count = content.count
    BY <1>2, <1>5, <2>1
  <2> QED
    BY <1>7, <2>2, <2>3, <2>4 DEF AllFolded
<1>11. OutputsFit'
  <2>1. ASSUME NEW i \in DOMAIN computations', computations'[i].status = "executed"
        PROVE  i \in Running
    BY <1>2, <1>4, <2>1 DEF Running, IsRunning
  <2> QED
    BY <1>2, <2>1 DEF OutputsFit
<1>12. BooksWhole(q)'
  BY <1>1, <1>3, <1>7, BooksKept DEF BookInv
<1> QED
  BY <1>8, <1>9, <1>10, <1>11, <1>12 DEF Fits

LEMMA InstructionFits ==
  ASSUME BookInv, NEW q, Fits(q), UsedSerially'
  PROVE  /\ ClearBatch => Fits(q)'
         /\ \A u \in Owners : IngestOrder(u) => Fits(q)'
<1>1. Typed /\ book \in Account /\ ~overlapped'
  BY DEF BookInv, Typed, UsedSerially
<1>2. ASSUME ClearBatch
      PROVE  Fits(q)'
  <2> DEFINE kind == "clear_batch"
             slot == 0
             owners == {}
  <2>1. Last(kind, slot, NoOrder, owners, book.nonce)
    BY <1>1, <1>2, InstructionsQueue
  <2>2. book.exists /\ book' = book /\ cleared' = cleared /\ relayed' = relayed
    BY <1>2 DEF ClearBatch, relayVars
  <2>3. kind \in {"ingest_order", "clear_batch"} /\ kind # "ingest_order"
    OBVIOUS
  <2> HIDE DEF kind, slot, owners
  <2> QED
    BY <1>1, <2>1, <2>2, <2>3, QueueFits
<1>3. ASSUME NEW u \in Owners, IngestOrder(u)
      PROVE  Fits(q)'
  <2> DEFINE kind == "ingest_order"
             owners == {u}
             order == Wish[u]
             slot == book.slot_count
  <2>1. Last(kind, slot, order, owners, book.nonce)
    BY <1>1, <1>3, InstructionsQueue
  <2>2. /\ book.exists /\ cleared' = cleared /\ relayed' = relayed
        /\ book'.state = book.state /\ book'.nonce = book.nonce
        /\ book'.slot_count = book.slot_count + 1
    BY <1>1, <1>3 DEF IngestOrder, Account
  <2>3. kind \in {"ingest_order", "clear_batch"} /\ kind # "clear_batch"
    OBVIOUS
  <2>4. slot = book.slot_count
    OBVIOUS
  <2> HIDE DEF kind, owners, order, slot
  <2> QED
    BY <1>1, <2>1, <2>2, <2>3, <2>4, QueueFits
<1> QED
  BY <1>2, <1>3

LEMMA InitBookFits ==
  ASSUME BookInv, Steady, NEW q, Fits(q), InitBook, UsedSerially'
  PROVE  Fits(q)'
<1>1. Typed /\ book \in Account /\ Attributed /\ Accounted
  BY DEF BookInv, Typed
<1>2. /\ book' = [book EXCEPT !.exists = TRUE, !.inits = @ + 1, !.slot_count = 0, !.nonce = 0]
      /\ cleared' = cleared /\ relayed' = relayed
  BY DEF InitBook, relayVars
<1>3. book.inits = 0
  <2>1. book'.inits = book.inits + 1 /\ book.inits \in Nat /\ book'.inits <= 1
    BY <1>1, <1>2 DEF UsedSerially, Account
  <2> QED
    BY <2>1
<1>4. book = NoBook /\ computations = <<>>
  BY <1>1, <1>3 DEF Steady, Attributed
<1>5. /\ book'.exists /\ book'.slot_count = 0 /\ book'.nonce = 0
      /\ book'.state = [nonce |-> 0, content |-> Unreadable]
  BY <1>2, <1>4 DEF NoBook
<1>6. ~Unreadable.readable /\ Unreadable.count = 0
  BY DEF Unreadable, EmptyBook
<1>7. Last("init_book", 0, NoOrder, {}, 0)
  BY <1>1, InstructionsQueue
<1>8. DOMAIN computations' = {1} /\ computations'[1].kind = "init_book" /\ computations'[1].status = "queued"
  <2>1. Len(computations) = 0
    BY <1>4
  <2>2. /\ DOMAIN computations' = 1 .. 0 + 1
        /\ computations'[0 + 1].kind = "init_book" /\ computations'[0 + 1].status = "queued"
    BY <1>7, <2>1 DEF Last
  <2> QED
    BY <2>2
<1>9. Running' = {1}
  BY <1>8 DEF Running, IsRunning
<1>10. OneRuns'
  BY <1>5, <1>8, <1>9 DEF OneRuns
<1>11. OpensFirst'
  BY <1>5, <1>6, <1>8, <1>9 DEF OpensFirst
<1>12. AllFolded'
  <2>1. book'.state.content = Unreadable
    BY <1>5
  <2> QED
    BY <1>5, <1>6, <1>8, <2>1 DEF AllFolded
<1>13. OutputsFit'
  BY <1>8 DEF OutputsFit
<1>14. BooksWhole(q)'
  <2>1. book'.state.content = book.state.content
    BY <1>4, <1>5 DEF NoBook
  <2>2. Grows(computations, computations')
    BY <1>7, LastSettles
  <2>3. BooksWhole(q)
    BY DEF Fits
  <2> QED
    BY <1>1, <1>2, <2>1, <2>2, <2>3, BooksKept
<1> QED
  BY <1>10, <1>11, <1>12, <1>13, <1>14 DEF Fits

LEMMA ExecuteFits ==
  ASSUME BookInv, NEW q, Fits(q), NEW i \in DOMAIN computations, Execute(i)
  PROVE  Fits(q)'
<1> DEFINE c == computations[i]
           content == book.state.content
<1>1. Typed /\ Accounted /\ computations \in Seq(Computation)
  BY DEF BookInv, Typed
<1>2. OneRuns /\ OpensFirst /\ AllFolded /\ OutputsFit /\ BooksWhole(q)
  BY DEF Fits
<1>3. c.status = "queued" /\ Moves(i, "executed")
  BY <1>1, ComputationsMove
<1>4. book' = book /\ cleared' = cleared /\ relayed' = relayed
  BY DEF Execute, relayVars
<1>5. \A j \in DOMAIN computations :
        /\ j \in DOMAIN computations'
        /\ computations'[j].kind = computations[j].kind /\ computations'[j].slot = computations[j].slot
        /\ computations'[j].order = computations[j].order /\ computations'[j].nonce = computations[j].nonce
        /\ IsRunning(computations'[j]) <=> IsRunning(computations[j])
        /\ computations'[j].status = "finalized" <=> computations[j].status = "finalized"
  <2> SUFFICES ASSUME NEW j \in DOMAIN computations
               PROVE  /\ j \in DOMAIN computations'
                      /\ computations'[j].kind = computations[j].kind /\ computations'[j].slot = computations[j].slot
                      /\ computations'[j].order = computations[j].order /\ computations'[j].nonce = computations[j].nonce
                      /\ IsRunning(computations'[j]) <=> IsRunning(computations[j])
                      /\ computations'[j].status = "finalized" <=> computations[j].status = "finalized"
    OBVIOUS
  <2>1. CASE j = i
    BY <1>3, <2>1 DEF Moves, IsRunning
  <2>2. CASE j # i
    BY <1>3, <2>2 DEF Moves
  <2> QED
    BY <2>1, <2>2
<1>6. DOMAIN computations' = DOMAIN computations
  BY <1>3 DEF Moves
<1>7. Running' = Running /\ i \in Running
  BY <1>3, <1>5, <1>6 DEF Running, IsRunning
<1>8. OneRuns'
  <2>1. \A j \in Running : j \in DOMAIN computations
    BY DEF Running
  <2> QED
    BY <1>2, <1>4, <1>5, <1>7, <2>1 DEF OneRuns
<1>9. OpensFirst'
  <2>1. \A j \in Running : j \in DOMAIN computations
    BY DEF Running
  <2> QED
    BY <1>2, <1>4, <1>5, <1>6, <1>7, <2>1 DEF OpensFirst
<1>10. AllFolded'
  <2>1. {j \in DOMAIN computations' : computations'[j].kind = "ingest_order"}
          = {j \in DOMAIN computations : computations[j].kind = "ingest_order"}
    BY <1>5, <1>6
  <2> QED
    BY <1>2, <1>4, <1>5, <1>7, <2>1 DEF AllFolded
<1>11. OutputsFit'
  <2> SUFFICES ASSUME NEW j \in DOMAIN computations, computations'[j].status = "executed"
               PROVE  computations'[j].output =
                        CASE computations'[j].kind = "init_book"    -> EmptyBook
                          [] computations'[j].kind = "ingest_order" ->
                               FoldOrder(content, computations'[j].slot, computations'[j].order, j)
                          [] computations'[j].kind = "clear_batch"  -> content
    BY <1>4, <1>6 DEF OutputsFit
  <2>1. CASE j = i
    <3>1. c.kind # "init_book" => Opened(c) = content
      BY <1>2, <1>7 DEF OneRuns, Opened
    <3>2. computations'[i].output =
            CASE c.kind = "init_book"    -> EmptyBook
              [] c.kind = "ingest_order" -> FoldOrder(Opened(c), c.slot, c.order, i)
              [] c.kind = "clear_batch"  -> Opened(c)
      <4> DEFINE out == CASE c.kind = "init_book"    -> EmptyBook
                          [] c.kind = "ingest_order" -> FoldOrder(Opened(c), c.slot, c.order, i)
                          [] c.kind = "clear_batch"  -> Opened(c)
                 d == [c EXCEPT !.status = "executed"]
      <4>1. computations' = [computations EXCEPT ![i].status = "executed", ![i].output = out]
        BY DEF Execute
      <4>2. d \in Computation
        <5>1. c \in Computation
          BY <1>1, ComputationsTyped
        <5> QED
          BY <5>1 DEF Computation
      <4> HIDE DEF out, c
      <4>3. computations' = [computations EXCEPT ![i] = [d EXCEPT !.output = out]]
        BY <4>1 DEF c
      <4> HIDE DEF d
      <4>4. [d EXCEPT !.output = out].output = out
        BY <4>2 DEF Computation
      <4>5. computations'[i].output = out
        BY <4>3, <4>4
      <4> QED
        BY <4>5 DEF out, c
    <3>3. c.kind \in {"init_book", "ingest_order", "clear_batch"}
      BY <1>1, ComputationsTyped DEF Computation
    <3>4. /\ computations'[i].kind = c.kind /\ computations'[i].slot = c.slot
          /\ computations'[i].order = c.order
      BY <1>5
    <3> HIDE DEF content, c
    <3>5. CASE c.kind = "init_book"
      BY <2>1, <3>2, <3>4, <3>5
    <3>6. CASE c.kind = "ingest_order"
      BY <2>1, <3>1, <3>2, <3>4, <3>6
    <3>7. CASE c.kind = "clear_batch"
      BY <2>1, <3>1, <3>2, <3>4, <3>7
    <3> QED
      BY <3>3, <3>5, <3>6, <3>7
  <2>2. CASE j # i
    <3>1. computations'[j] = computations[j]
      BY <1>3, <2>2 DEF Moves
    <3> QED
      BY <1>2, <3>1 DEF OutputsFit
  <2> QED
    BY <2>1, <2>2
<1>12. BooksWhole(q)'
  <2>1. Grows(computations, computations')
    BY <1>3, MovesSettle
  <2> QED
    BY <1>1, <1>2, <1>4, <2>1, BooksKept
<1> QED
  BY <1>8, <1>9, <1>10, <1>11, <1>12 DEF Fits

(* A callback ends the only computation that runs. *)
LEMMA CallbackIdles ==
  ASSUME BookInv, OneRuns, NEW i \in DOMAIN computations, computations[i].status = "executed",
         Moves(i, "finalized")
  PROVE  Running = {i} /\ Running' = {}
<1>1. i \in Running
  BY DEF Running, IsRunning
<1>2. Running = {i}
  BY <1>1 DEF OneRuns
<1>3. ASSUME NEW j \in Running'
      PROVE  FALSE
  <2>1. j \in DOMAIN computations /\ IsRunning(computations'[j])
    BY DEF Running, Moves
  <2>2. CASE j = i
    BY <2>1, <2>2 DEF Moves, IsRunning
  <2>3. CASE j # i
    BY <1>2, <2>1, <2>3 DEF Moves, Running
  <2> QED
    BY <2>2, <2>3
<1> QED
  BY <1>2, <1>3

(* After the callback nothing runs, so that the book only has to be whole. *)
LEMMA IdleFits ==
  ASSUME BookInv, NEW q, Fits(q), NEW i \in DOMAIN computations, computations[i].status = "executed",
         Moves(i, "finalized"),
         book'.state.nonce = book'.nonce, book'.state.content.readable,
         book'.slot_count = book'.state.content.count,
         computations[i].kind = "ingest_order" => i \in book'.state.content.folded,
         book.state.content.readable => book.state.content.folded \subseteq book'.state.content.folded,
         BooksWhole(q)'
  PROVE  Fits(q)'
<1>1. OneRuns /\ OpensFirst /\ AllFolded
  BY DEF Fits
<1>2. Running = {i} /\ Running' = {}
  BY <1>1, CallbackIdles
<1>3. OneRuns'
  BY <1>2 DEF OneRuns
<1>4. OpensFirst'
  BY <1>2 DEF OpensFirst
<1>5. AllFolded'
  <2>1. ASSUME NEW j \in DOMAIN computations', computations'[j].kind = "ingest_order",
               computations'[j].status = "finalized"
        PROVE  j \in book'.state.content.folded
    <3>1. j \in DOMAIN computations
      BY DEF Moves
    <3>2. CASE j = i
      BY <2>1, <3>2 DEF Moves
    <3>3. CASE j # i
      <4>1. computations'[j] = computations[j]
        BY <3>1, <3>3 DEF Moves
      <4>2. book.state.content.readable
        BY <1>1, <2>1, <3>1, <4>1 DEF OpensFirst
      <4>3. j \in book.state.content.folded
        BY <1>1, <2>1, <3>1, <4>1 DEF AllFolded
      <4> QED
        BY <4>2, <4>3
    <3> QED
      BY <3>2, <3>3
  <2> QED
    BY <1>2, <2>1 DEF AllFolded
<1>6. OutputsFit'
  <2>1. \A j \in DOMAIN computations' : computations'[j].status # "executed"
    BY <1>2 DEF Running, IsRunning
  <2> QED
    BY <2>1 DEF OutputsFit
<1> QED
  BY <1>3, <1>4, <1>5, <1>6 DEF Fits

LEMMA ClearCallbackFits ==
  ASSUME BookInv, NEW q, Fits(q), NEW i \in DOMAIN computations, ClearBatchCallback(i)
  PROVE  Fits(q)'
<1> DEFINE content == book.state.content
<1>1. Typed /\ Accounted /\ computations \in Seq(Computation)
  BY DEF BookInv, Typed
<1>2. OneRuns /\ OpensFirst /\ AllFolded /\ OutputsFit /\ BooksWhole(q)
  BY DEF Fits
<1>3. /\ computations[i].status = "executed" /\ Moves(i, "finalized")
      /\ computations[i].kind = "clear_batch"
      /\ cleared' = cleared \cup {Reveal(computations[i].output)}
      /\ book' = book /\ relayed' = relayed
  BY <1>1, ComputationsMove DEF ClearBatchCallback
<1>4. Running = {i}
  BY <1>2, <1>3, CallbackIdles
<1>5. content.readable
  BY <1>2, <1>3 DEF OpensFirst
<1>6. book.slot_count = content.count
  BY <1>2, <1>3, <1>4 DEF AllFolded
<1>7. computations[i].output = content
  BY <1>2, <1>3 DEF OutputsFit
<1>8. Grows(computations, computations')
  BY <1>3, MovesSettle
<1>9. BooksWhole(q)'
  <2>1. \A e \in cleared : Whole(computations', e.content, q)
    BY <1>1, <1>2, <1>8, WholeKept DEF BooksWhole, Accounted
  <2>2. Whole(computations', content, q)
    BY <1>1, <1>2, <1>5, <1>8, WholeKept DEF BooksWhole, Accounted
  <2>3. Reveal(computations[i].output).content = content
    BY <1>7 DEF Reveal
  <2> QED
    BY <1>2, <1>3, <2>1, <2>2, <2>3 DEF BooksWhole
<1>10. book'.state.nonce = book'.nonce
  BY <1>2, <1>3 DEF OneRuns
<1>11. book'.state.content = content /\ book'.slot_count = content.count
  BY <1>3, <1>6
<1> QED
  BY <1>3, <1>5, <1>9, <1>10, <1>11, IdleFits

LEMMA BookCallbackFits ==
  ASSUME BookInv, Steady, NEW q \in Nat, SmallOrders(q), Fits(q), UsedSerially,
         NEW i \in DOMAIN computations, BookCallback(i)
  PROVE  Fits(q)'
<1> DEFINE content == book.state.content
           c == computations[i]
           new == computations[i].output
<1>1. Typed /\ Accounted /\ computations \in Seq(Computation) /\ book \in Account
  BY DEF BookInv, Typed
<1>2. OneRuns /\ OpensFirst /\ AllFolded /\ OutputsFit /\ BooksWhole(q)
  BY DEF Fits
<1>3. /\ c.status = "executed" /\ Moves(i, "finalized")
      /\ c.kind \in {"init_book", "ingest_order"}
      /\ cleared' = cleared /\ relayed' = relayed
      /\ book' = [book EXCEPT !.nonce = i, !.state = [nonce |-> i, content |-> new]]
  BY <1>1, ComputationsMove DEF BookCallback, BookWritten, relayVars
<1>4. Running = {i} /\ i \in Running
  BY <1>2, <1>3, CallbackIdles
<1>5. /\ book'.state.nonce = i /\ book'.nonce = i /\ book'.state.content = new
      /\ book'.slot_count = book.slot_count
  BY <1>1, <1>3 DEF Account
<1>6. Grows(computations, computations')
  BY <1>3, MovesSettle
<1>7. new.readable /\ new.count = book.slot_count /\ Whole(computations, new, q)
      /\ (c.kind = "ingest_order" => i \in new.folded)
      /\ (content.readable => content.folded \subseteq new.folded)
  <2>1. CASE c.kind = "init_book"
    <3>1. ~content.readable
      BY <1>2, <1>4, <2>1 DEF OpensFirst
    <3>2. book.slot_count = 0
      BY <1>2, <3>1 DEF OpensFirst
    <3>3. new = EmptyBook
      BY <1>2, <1>3, <2>1 DEF OutputsFit
    <3>4. EmptyBook.readable /\ EmptyBook.count = 0
      BY DEF EmptyBook
    <3> QED
      BY <2>1, <3>1, <3>2, <3>3, <3>4, EmptyWhole
  <2>2. CASE c.kind = "ingest_order"
    <3>1. content.readable
      BY <1>2, <2>2 DEF OpensFirst
    <3>2. Whole(computations, content, q) /\ Accounts(computations, content) /\ content \in Content
      BY <1>1, <1>2, <3>1 DEF BooksWhole, Accounted, Account
    <3>3. c.slot = content.count /\ book.slot_count = content.count + 1
      BY <1>2, <1>4, <2>2 DEF AllFolded
    <3>4. content.count \in Nat
      BY <3>2 DEF Content
    <3>5. c.slot < BATCH_CAP
      BY <3>3, <3>4, CountsAreNumbers DEF UsedSerially
    <3>6. i \notin content.folded
      BY <3>2, <3>3, <3>4 DEF Whole
    <3>7. c.order.qty <= q
      BY <2>2 DEF Steady, Wishes, SmallOrders
    <3>8. new = FoldOrder(content, c.slot, c.order, i)
      BY <1>2, <1>3, <2>2 DEF OutputsFit
    <3> HIDE DEF new, content
    <3>11. /\ Whole(computations, new, q) /\ new.count = content.count + 1 /\ i \in new.folded
           /\ content.folded \subseteq new.folded
      <4>1. computations \in Seq(Computation) /\ content \in Content /\ Accounts(computations, content)
        BY <1>1, <3>2
      <4>2. Whole(computations, content, q) /\ q \in Nat
        BY <3>2
      <4>3. computations[i].slot = content.count /\ content.count < BATCH_CAP
        BY <3>3, <3>5
      <4>4. computations[i].order.qty <= q
        BY <3>7
      <4>5. new = FoldOrder(content, computations[i].slot, computations[i].order, i)
        BY <3>8
      <4> QED
        BY <3>6, <4>1, <4>2, <4>3, <4>4, <4>5, FoldWhole
    <3>12. new.readable
      BY <3>11 DEF Whole
    <3> QED
      BY <3>3, <3>11, <3>12
  <2> QED
    BY <1>3, <2>1, <2>2
<1>8. BooksWhole(q)'
  <2>1. \A e \in cleared : Whole(computations', e.content, q)
    BY <1>1, <1>2, <1>6, WholeKept DEF BooksWhole, Accounted
  <2>2. Accounts(computations, new)
    BY <1>1 DEF Accounted
  <2>3. Whole(computations', new, q)
    BY <1>6, <1>7, <2>2, WholeKept
  <2> QED
    BY <1>2, <1>3, <1>5, <2>1, <2>3 DEF BooksWhole
<1>9. book'.state.nonce = book'.nonce /\ book'.state.content.readable
      /\ book'.slot_count = book'.state.content.count
      /\ (c.kind = "ingest_order" => i \in book'.state.content.folded)
      /\ (content.readable => content.folded \subseteq book'.state.content.folded)
  BY <1>5, <1>7
<1> QED
  BY <1>3, <1>8, <1>9, IdleFits

LEMMA RelayBatchFits ==
  ASSUME BookInv, Steady, NEW q \in Nat, SmallOrders(q), Fits(q), UsedSerially,
         NEW e \in cleared, RelayBatch(e)
  PROVE  Fits(q)'
<1>1. Typed /\ Owned /\ Attributed /\ Accounted
  BY DEF BookInv
<1>2. OneRuns /\ OpensFirst /\ AllFolded /\ OutputsFit /\ BooksWhole(q)
  BY DEF Fits
<1>3. /\ relayed' = relayed \cup {[event |-> e, verdict |-> Relay(e)]}
      /\ book' = book /\ computations' = computations /\ cleared' = cleared
  BY DEF RelayBatch
<1>4. Relay(e).ok
  <2>1. /\ e = Reveal(e.content) /\ e.content \in Content /\ Accounts(computations, e.content)
        /\ Whole(computations, e.content, q) /\ book.inits <= 1
    BY <1>1, <1>2 DEF Steady, Accounted, BooksWhole, UsedSerially
  <2> QED
    BY <1>1, <2>1, RelaySucceeds
<1>5. OneRuns' /\ OpensFirst' /\ AllFolded' /\ OutputsFit'
  BY <1>2, <1>3 DEF OneRuns, OpensFirst, AllFolded, OutputsFit, Running
<1>6. \A r \in relayed' : r.verdict.ok
  <2>1. \A r \in relayed' : r \in relayed \/ r.verdict = Relay(e)
    BY <1>3
  <2> QED
    BY <1>2, <1>4, <2>1 DEF BooksWhole
<1>7. BooksWhole(q)'
  BY <1>2, <1>3, <1>6 DEF BooksWhole
<1> QED
  BY <1>5, <1>7 DEF Fits

LEMMA SteadyInit == Init => Steady
<1> SUFFICES ASSUME Init
             PROVE  Steady
  OBVIOUS
<1>1. book = NoBook /\ computations = <<>> /\ cleared = {} /\ client = [u \in Owners |-> Idle]
  BY DEF Init
<1>2. Idle \in [attempt : Nat, offset : Nat,
                status : {"submitting", "awaiting", "resolved", "failed"}]
  BY DEF Idle
<1>3. Idle.status \notin {"awaiting", "resolved"}
  BY DEF Idle
<1>4. Awaited
  BY <1>1, <1>2, <1>3 DEF Awaited
<1>5. Wishes
  BY <1>1 DEF Wishes
<1> QED
  BY <1>1, <1>4, <1>5 DEF Steady

LEMMA SerialInit == ASSUME NEW q PROVE Init => Serial(q)
<1> SUFFICES ASSUME Init
             PROVE  Fits(q)
  BY DEF Serial
<1>1. book = NoBook /\ computations = <<>> /\ cleared = {} /\ relayed = {}
  BY DEF Init
<1>2. /\ book.state = [nonce |-> 0, content |-> Unreadable] /\ book.nonce = 0
      /\ book.slot_count = 0 /\ ~book.exists
  BY <1>1 DEF NoBook
<1>3. ~Unreadable.readable /\ Unreadable.count = 0
  BY DEF Unreadable, EmptyBook
<1>4. DOMAIN computations = {} /\ Running = {}
  BY <1>1 DEF Running
<1>5. OneRuns
  BY <1>2, <1>4 DEF OneRuns
<1>6. OpensFirst
  BY <1>2, <1>3, <1>4 DEF OpensFirst
<1>7. AllFolded
  <2>1. book.state.content = Unreadable
    BY <1>2
  <2> QED
    BY <1>2, <1>3, <1>4, <2>1 DEF AllFolded
<1>8. OutputsFit
  BY <1>4 DEF OutputsFit
<1>9. BooksWhole(q)
  BY <1>1, <1>2, <1>3 DEF BooksWhole
<1> QED
  BY <1>5, <1>6, <1>7, <1>8, <1>9 DEF Fits

LEMMA SerialNext ==
  ASSUME NEW q \in Nat, SmallOrders(q), BookInv, Steady, Serial(q), [Next]_vars
  PROVE  Serial(q)'
<1> SUFFICES ASSUME UsedSerially'
             PROVE  Fits(q)'
  BY DEF Serial
<1>1. UsedSerially /\ Fits(q)
  BY SerialBefore DEF Serial
<1>2. CASE InitBook
  BY <1>1, <1>2, InitBookFits
<1>3. CASE ClearBatch
  BY <1>1, <1>3, InstructionFits
<1>4. ASSUME NEW i \in DOMAIN computations, Cluster(i)
      PROVE  Fits(q)'
  <2>1. CASE Execute(i)
    BY <1>1, <2>1, ExecuteFits
  <2>2. CASE BookCallback(i)
    BY <1>1, <2>2, BookCallbackFits
  <2>3. CASE ClearBatchCallback(i)
    BY <1>1, <2>3, ClearCallbackFits
  <2>4. CASE AbortedCallback(i)
    <3>1. computations \in Seq(Computation)
      BY DEF BookInv, Typed
    <3>2. i \in DOMAIN computations' /\ computations'[i].status = "failed"
      BY <2>4, <3>1, ComputationsMove DEF Moves
    <3> QED
      BY <3>2 DEF UsedSerially
  <2> QED
    BY <1>4, <2>1, <2>2, <2>3, <2>4 DEF Cluster
<1>5. ASSUME UNCHANGED <<book, computations, relayVars>>
      PROVE  Fits(q)'
  BY <1>1, <1>5 DEF Fits, OneRuns, OpensFirst, AllFolded, OutputsFit, BooksWhole, Running, relayVars
<1>6. ASSUME NEW u \in Owners, Client(u)
      PROVE  Fits(q)'
  <2>1. IngestOrder(u) \/ UNCHANGED <<book, computations, relayVars>>
    BY <1>6 DEF Client, Submit, SubmitUnseen, SubmitFails, Resolve, Retry
  <2> QED
    BY <1>1, <1>5, <2>1, InstructionFits
<1>7. ASSUME NEW e \in cleared, RelayBatch(e)
      PROVE  Fits(q)'
  BY <1>1, <1>7, RelayBatchFits
<1>8. CASE UNCHANGED vars
  BY <1>5, <1>8 DEF vars, relayVars
<1> QED
  BY <1>2, <1>3, <1>4, <1>6, <1>7, <1>8 DEF Next

(* Used one computation at a time, with none aborted, the book opened once  *)
(* and no more orders than slots, the path is reliable: every resolved      *)
(* order is in the book and every revealed batch is relayed, provided that  *)
(* any BATCH_CAP of the orders add up to a word.                            *)
THEOREM SerialUseHolds ==
  ASSUME NEW q \in Nat, SmallOrders(q)
  PROVE  Spec => []SerialUseIsReliable
<1> DEFINE Inv == BookInv /\ Steady /\ Serial(q)
<1>1. Init => Inv
  BY BookInvInit, SteadyInit, SerialInit
<1>2. Inv /\ [Next]_vars => Inv'
  <2> SUFFICES ASSUME BookInv, Steady, Serial(q), [Next]_vars
               PROVE  BookInv' /\ Steady' /\ Serial(q)'
    OBVIOUS
  <2> QED
    BY BookInvNext, SteadyNext, SerialNext
<1>3. Inv => SerialUseIsReliable
  <2> SUFFICES ASSUME BookInv, Steady, Serial(q), UsedSerially
               PROVE  /\ \A u \in Owners : client[u].status = "resolved" => IsFolded(u)
                      /\ \A r \in relayed : r.verdict.ok
    BY DEF SerialUseIsReliable
  <2>1. OpensFirst /\ AllFolded /\ BooksWhole(q)
    BY DEF Serial, Fits
  <2>2. ASSUME NEW u \in Owners, client[u].status = "resolved"
        PROVE  IsFolded(u)
    <3> DEFINE i == client[u].offset
    <3>1. /\ i \in DOMAIN computations /\ computations[i].kind = "ingest_order"
          /\ computations[i].owners = {u} /\ computations[i].status \in {"finalized", "failed"}
          /\ computations[i].status # "failed"
      BY <2>2 DEF Steady, Awaited, UsedSerially
    <3>2. i \in book.state.content.folded
      BY <2>1, <3>1 DEF AllFolded
    <3> QED
      BY <3>1, <3>2 DEF IsFolded
  <2> QED
    BY <2>1, <2>2 DEF BooksWhole
<1> HIDE DEF Inv
<1> QED
  BY <1>1, <1>2, <1>3, PTL DEF Spec

=============================================================================
