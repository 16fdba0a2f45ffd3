----------------------------- MODULE BatchBook -----------------------------
(***************************************************************************)
(* The confidential path of one market epoch: clients seal orders and      *)
(* submit them to the gateway (programs/shadowstate_mxe), the circuits of  *)
(* encrypted-ixs fold them into the encrypted book and reveal it, and the   *)
(* relayer of mpc-core turns the revealed clearing into a settlement frame. *)
(*                                                                         *)
(* An instruction of the gateway only queues a computation.  The cluster    *)
(* runs it later, on the book's ciphertext as it is then but with the nonce *)
(* that the instruction passed, and calls back.  The cluster is external.   *)
(* A ciphertext is the content it encrypts and the nonce it is encrypted    *)
(* under: with another nonce it opens to Unreadable.                        *)
(***************************************************************************)
EXTENDS Matching

CONSTANTS
  Owners,             \* users, the client of each submits one order
  Wish,               \* the order that the client of each owner seals
  BATCH_CAP,          \* order slots of the circuits' book
  BATCH_BOOK_FIELDS,  \* ciphertexts of the book, the gateway's slot limit
  MAX_RETRIES,        \* attempts of a client
  MaxInits,           \* bound: calls of init_book
  MaxClears           \* bound: calls of clear_batch

ASSUME BookAssumption ==
  /\ IsFiniteSet(Owners)
  /\ Wish \in [Owners -> [side : {0, 1}, qty : 0 .. U64Max]]
  /\ {BATCH_CAP, BATCH_BOOK_FIELDS, MAX_RETRIES, MaxInits, MaxClears} \subseteq Nat

VARIABLES
  book,          \* BatchBookAccount
  computations,  \* the queued computations, indexed by their offsets
  client,        \* submitSealedOrder of each client
  registry,      \* SlotRegistry of the relayer
  cleared,       \* the BatchCleared events
  relayed,       \* the relayer's verdicts on the events
  overlapped     \* history: a computation was queued while another was running

vars == <<book, computations, client, registry, cleared, relayed, overlapped>>

relayVars == <<registry, cleared, relayed>>

-----------------------------------------------------------------------------
(* The circuits.  `folded` is history: the offsets of the orders folded in. *)

Slots == 0 .. BATCH_CAP - 1

EmptyBook ==
  [readable |-> TRUE, count |-> 0, total_yes |-> 0, total_no |-> 0,
   orders |-> [i \in Slots |-> [side |-> 0, qty |-> 0]], folded |-> {}]

Unreadable == [EmptyBook EXCEPT !.readable = FALSE]

(* Faulty variant: the order count is not kept. *)
FoldOrderUncounted(content, slot, order, offset) ==
  IF content.readable
  THEN [content EXCEPT
          !.total_yes = @ + (IF order.side = 0 THEN order.qty ELSE 0),
          !.total_no = @ + (IF order.side = 0 THEN 0 ELSE order.qty),
          !.orders = [i \in Slots |-> IF i = slot THEN order ELSE @[i]],
          !.folded = @ \cup {offset}]
  ELSE Unreadable

(* An order whose slot lies beyond the capacity hits no slot, but counts.  *)
FoldOrder(content, slot, order, offset) ==
  IF content.readable
  THEN [content EXCEPT
          !.count = @ + 1,
          !.total_yes = @ + (IF order.side = 0 THEN order.qty ELSE 0),
          !.total_no = @ + (IF order.side = 0 THEN 0 ELSE order.qty),
          !.orders = [i \in Slots |-> IF i = slot THEN order ELSE @[i]],
          !.folded = @ \cup {offset}]
  ELSE Unreadable

Reveal(content) ==
  [content |-> content,
   direction |-> IF content.total_yes >= content.total_no
                 THEN DIRECTION_YES_HEAVY ELSE DIRECTION_NO_HEAVY,
   net_imbalance |-> IF content.total_yes >= content.total_no
                     THEN content.total_yes - content.total_no
                     ELSE content.total_no - content.total_yes]

-----------------------------------------------------------------------------
(* The gateway's instructions, and the cluster. *)

(* The account before init_book: its bytes are no encryption of a book.    *)
(* `inits` is history: the calls of init_book.                              *)
NoBook ==
  [exists |-> FALSE, inits |-> 0, slot_count |-> 0, nonce |-> 0,
   state |-> [nonce |-> 0, content |-> Unreadable]]

IsRunning(c) == c.status \in {"queued", "executed"}

(* `owners` is history: who submitted the order. *)
Queue(kind, slot, order, owners, nonce) ==
  /\ computations' = Append(computations,
       [kind |-> kind, slot |-> slot, order |-> order, owners |-> owners, nonce |-> nonce,
        status |-> "queued", output |-> Unreadable])
  /\ overlapped' = (overlapped \/ \E i \in DOMAIN computations : IsRunning(computations[i]))

NoOrder == [side |-> 0, qty |-> 0]

(* init_if_needed: the book of the epoch may be opened again, which resets *)
(* the slots and the nonce at once and the ciphertext with the callback.    *)
InitBook ==
  /\ book.inits < MaxInits
  /\ book' = [book EXCEPT !.exists = TRUE, !.inits = @ + 1, !.slot_count = 0, !.nonce = 0]
  /\ Queue("init_book", 0, NoOrder, {}, 0)
  /\ UNCHANGED <<client, relayVars>>

(* The transaction of ingest_order lands: the slot is taken before the     *)
(* computation has run.  The relayer records who took it.                   *)
IngestOrder(u) ==
  /\ book.exists
  /\ book.slot_count < BATCH_BOOK_FIELDS
  /\ book' = [book EXCEPT !.slot_count = @ + 1]
  /\ Queue("ingest_order", book.slot_count, Wish[u], {u}, book.nonce)
  /\ registry' = [registry EXCEPT ![book.slot_count] = {u}]
  /\ UNCHANGED <<cleared, relayed>>

(* Only the authority of the book may clear it; it may at any time. *)
ClearBatch ==
  /\ book.exists
  /\ Cardinality({i \in DOMAIN computations : computations[i].kind = "clear_batch"}) < MaxClears
  /\ Queue("clear_batch", 0, NoOrder, {}, book.nonce)
  /\ UNCHANGED <<book, client, relayVars>>

Opened(c) == IF book.state.nonce = c.nonce THEN book.state.content ELSE Unreadable

Execute(i) ==
  LET c == computations[i]
  IN  /\ c.status = "queued"
      /\ computations' = [computations EXCEPT
           ![i].status = "executed",
           ![i].output = CASE c.kind = "init_book"    -> EmptyBook
                           [] c.kind = "ingest_order" -> FoldOrder(Opened(c), c.slot, c.order, i)
                           [] c.kind = "clear_batch"  -> Opened(c)]
      /\ UNCHANGED <<book, client, relayVars, overlapped>>

(* Faulty variant: the nonce of the new ciphertext is not stored. *)
StateStored(i) == [book EXCEPT !.state = [nonce |-> i, content |-> computations[i].output]]

BookWritten(i) ==
  [book EXCEPT !.nonce = i, !.state = [nonce |-> i, content |-> computations[i].output]]

(* init_book_callback and ingest_order_callback overwrite the ciphertext    *)
(* and its nonce, whatever has been written since the computation ran.      *)
BookCallback(i) ==
  /\ computations[i].kind \in {"init_book", "ingest_order"}
  /\ computations[i].status = "executed"
  /\ book' = BookWritten(i)
  /\ computations' = [computations EXCEPT ![i].status = "finalized"]
  /\ UNCHANGED <<client, relayVars, overlapped>>

ClearBatchCallback(i) ==
  /\ computations[i].kind = "clear_batch"
  /\ computations[i].status = "executed"
  /\ cleared' = cleared \cup {Reveal(computations[i].output)}
  /\ computations' = [computations EXCEPT ![i].status = "finalized"]
  /\ UNCHANGED <<book, client, registry, relayed, overlapped>>

(* The nodes disagree: a callback whose output does not verify is an error *)
(* and writes nothing.  The slot that ingest_order took stays taken.        *)
AbortedCallback(i) ==
  /\ computations[i].status = "queued"
  /\ computations' = [computations EXCEPT ![i].status = "failed"]
  /\ UNCHANGED <<book, client, relayVars, overlapped>>

-----------------------------------------------------------------------------
(* submitSealedOrder: up to MAX_RETRIES attempts, each a new computation.   *)

Idle == [attempt |-> 1, status |-> "submitting", offset |-> 0]

(* Faulty variant: the attempts are not counted. *)
SameAttempt(c) == [Idle EXCEPT !.attempt = c.attempt]

NextAttempt(c) ==
  IF c.attempt >= MAX_RETRIES THEN [c EXCEPT !.status = "failed"]
                              ELSE [Idle EXCEPT !.attempt = c.attempt + 1]

Retried(u) == client' = [client EXCEPT ![u] = NextAttempt(@)]

(* The call returns and the client awaits its computation. *)
Submit(u) ==
  /\ client[u].status = "submitting"
  /\ IngestOrder(u)
  /\ client' = [client EXCEPT ![u].status = "awaiting", ![u].offset = Len(computations) + 1]

(* The transaction lands but the call throws, as on a timeout: the client   *)
(* starts another attempt.                                                  *)
SubmitUnseen(u) ==
  /\ client[u].status = "submitting"
  /\ IngestOrder(u)
  /\ Retried(u)

(* The transaction does not land. *)
SubmitFails(u) ==
  /\ client[u].status = "submitting"
  /\ Retried(u)
  /\ UNCHANGED <<book, computations, relayVars, overlapped>>

(* The client fetches the transaction that finalized its computation and    *)
(* asks it for an error.  It resolves when there is none, and also when the *)
(* fetch finds no transaction, even if the computation was aborted.         *)
Resolve(u) ==
  /\ client[u].status = "awaiting"
  /\ computations[client[u].offset].status \in {"finalized", "failed"}
  /\ client' = [client EXCEPT ![u].status = "resolved"]
  /\ UNCHANGED <<book, computations, relayVars, overlapped>>

Retry(u) ==
  /\ client[u].status = "awaiting"
  /\ computations[client[u].offset].status = "failed"
  /\ Retried(u)
  /\ UNCHANGED <<book, computations, relayVars, overlapped>>

-----------------------------------------------------------------------------
(* The relayer: ClearedBatch::from_gateway and Relayer::clear. *)

(* The slots 0 .. count - 1 that carry a quantity. *)
ActiveSlots(e) == {s \in 0 .. e.content.count - 1 : e.content.orders[s].qty # 0}

OwnerOf(slot) == CHOOSE u \in Owners : registry[slot] = {u}

(* The orders of the active slots, in slot order. *)
ReconstructedOrders(e) ==
  [n \in 1 .. Cardinality(ActiveSlots(e)) |->
     LET slot  == Nth(ActiveSlots(e), n)
         order == e.content.orders[slot]
     IN  [user |-> OwnerOf(slot), side |-> IF order.side = 0 THEN Yes ELSE No, qty |-> order.qty]]

(* Faulty variant: the revealed aggregates are not compared. *)
NotCrossChecked(e, result) == TRUE

CrossChecked(e, result) ==
  /\ result.direction = e.direction
  /\ result.net_imbalance = e.net_imbalance
  /\ result.total_yes = e.content.total_yes
  /\ result.total_no = e.content.total_no

Refused == [ok |-> FALSE]

(* Values opened under a wrong nonce agree with their own aggregates with  *)
(* negligible probability: they are refused.                                *)
Relay(e) ==
  IF ~e.content.readable \/ e.content.count > BATCH_CAP THEN Refused
  ELSE IF \E s \in ActiveSlots(e) : registry[s] = {} THEN Refused
  ELSE LET result == MatchBatch(ReconstructedOrders(e))
       IN  IF result.ok /\ CrossChecked(e, result)
           THEN [ok |-> TRUE, frame |-> BuildFrame(Owners, 1, result)]
           ELSE Refused

RelayBatch(e) ==
  /\ relayed' = relayed \cup {[event |-> e, verdict |-> Relay(e)]}
  /\ relayed' # relayed
  /\ UNCHANGED <<book, computations, client, registry, cleared, overlapped>>

-----------------------------------------------------------------------------
Init ==
  /\ book = NoBook
  /\ computations = <<>>
  /\ client = [u \in Owners |-> Idle]
  /\ registry = [slot \in 0 .. BATCH_BOOK_FIELDS - 1 |-> {}]
  /\ cleared = {}
  /\ relayed = {}
  /\ overlapped = FALSE

Cluster(i) == Execute(i) \/ BookCallback(i) \/ ClearBatchCallback(i) \/ AbortedCallback(i)
Client(u) == Submit(u) \/ SubmitUnseen(u) \/ SubmitFails(u) \/ Resolve(u) \/ Retry(u)

Next ==
  \/ InitBook
  \/ ClearBatch
  \/ \E i \in DOMAIN computations : Cluster(i)
  \/ \E u \in Owners : Client(u)
  \/ \E e \in cleared : RelayBatch(e)

MaxComputations == MaxInits + MaxClears + Cardinality(Owners) * MAX_RETRIES

(* The cluster runs what is queued and calls back, and a client goes on.    *)
Fairness ==
  /\ \A i \in 1 .. MaxComputations : WF_vars(i \in DOMAIN computations /\ Cluster(i))
  /\ \A u \in Owners : WF_vars(Client(u))

Spec == Init /\ [][Next]_vars /\ Fairness

-----------------------------------------------------------------------------
BookContent ==
  [readable : BOOLEAN, count : Nat, total_yes : Nat, total_no : Nat,
   orders : [Slots -> [side : {0, 1}, qty : Nat]], folded : SUBSET (DOMAIN computations)]

(* The book counts what is folded into it, and no slot beyond the gateway's *)
(* limit is ever taken.                                                     *)
TypeOK ==
  /\ book.slot_count \in 0 .. BATCH_BOOK_FIELDS
  /\ book.state.content \in BookContent
  /\ book.state.content.count = Cardinality(book.state.content.folded)
  /\ \A i \in DOMAIN computations : computations[i].output \in BookContent

(* What the orders folded into an event's book amount to for a user. *)
FoldedDemand(e, u, side) ==
  Total({i \in e.content.folded : computations[i].owners = {u} /\ computations[i].order.side = side},
        [i \in DOMAIN computations |-> computations[i].order.qty])

FillsAreFolded(r) ==
  \A u \in Owners :
    LET fill == r.verdict.frame.fills[u]
    IN  /\ fill.p2p_yes + fill.residual_yes = FoldedDemand(r.event, u, 0)
        /\ fill.p2p_no + fill.residual_no = FoldedDemand(r.event, u, 1)

(* A frame is never partial and never misattributed: while the book is not  *)
(* reopened, what is relayed fills each user for exactly its orders in the  *)
(* revealed book, however computations overlapped, aborted or were retried. *)
RelayedIsWhole ==
  book.inits = 1 => \A r \in relayed : r.verdict.ok => FillsAreFolded(r)

IsFolded(u) == \E i \in book.state.content.folded : computations[i].owners = {u}

(* What makes the path reliable: one computation at a time, none aborted,  *)
(* the book opened once and no more orders than slots.  Then every resolved *)
(* order is in the book and every revealed batch is relayed.                *)
UsedSerially ==
  /\ ~overlapped
  /\ book.inits <= 1
  /\ book.slot_count <= BATCH_CAP
  /\ \A i \in DOMAIN computations : computations[i].status # "failed"

SerialUseIsReliable ==
  UsedSerially =>
    /\ \A u \in Owners : client[u].status = "resolved" => IsFolded(u)
    /\ \A r \in relayed : r.verdict.ok

(* submitSealedOrder returns: it resolves or gives up. *)
ClientReturns == \A u \in Owners : <>(client[u].status \in {"resolved", "failed"})

(* The comment of submitSealedOrder: it resolves once the order is folded   *)
(* into the encrypted book.  There it is to stay: the book does not become  *)
(* one, readable and never reopened, that lacks it.                         *)
ResolvedOrderIsFolded ==
  book.inits = 1 /\ book.state.content.readable =>
    \A u \in Owners :
      client[u].status = "resolved" /\ computations[client[u].offset].output.readable => IsFolded(u)

(* ClearedBatch: the slots of a revealed batch are one per ingested order,  *)
(* so that the relayer's totals agree with the gateway's.                   *)
RevealedBatchIsRelayed ==
  ~overlapped => \A r \in relayed : r.event.content.readable => r.verdict.ok

(* init_book is called once per epoch: no frame ever fills a user for an    *)
(* order that is not its own.                                               *)
RelayedIsAttributed == \A r \in relayed : r.verdict.ok => FillsAreFolded(r)

=============================================================================
