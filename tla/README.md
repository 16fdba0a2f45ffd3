# ShadowState in TLA+

A verification project for ShadowState, a prediction market whose orders stay
encrypted until a frequent batch auction (FBA) clears them, and whose
settlement program on Solana keeps the collateral. Paths below are relative to
the repository (`src/` in `PROJECT.json`); `PROJECT.json` maps every definition
to the lines it models.

## 1. The system

| Component | Code | State it keeps | Operations |
|---|---|---|---|
| Settlement program | `program/src` | `MarketState` (lifecycle, risk parameters, aggregates, backstop, `last_epoch`), one `UserPosition` per user, the vault's tokens | 13 instructions: initialize market / position, four collateral moves, two settlements, risk update, close, resolve, two claims |
| Wire protocol | `protocol/src` | none | header and fill records, constants |
| Committee | `program/src/sig.rs`, `mpc-core/src/committee.rs` | member keys, threshold | sign a frame, count the signatures on chain |
| Matching engine | `mpc-core/src/{engine,mxe,frame}.rs` | an order list during one epoch | open, match, split pro rata, build the frame |
| Secret sharing, sealing, order encoding | `mpc-core/src/{secret_share,seal,order}.rs` | none | split, reconstruct, seal, open |
| FBA loop | `mpc-core/src/ingestion.rs` | the epoch counter | tick, run |
| Gateway program and circuits | `shadowstate_mxe` | `BatchBookAccount` per market and epoch: ciphertext, nonce, `slot_count` | queue `init_book`, `ingest_order`, `clear_batch`; three callbacks |
| Order client | `client/shadowstate-client.ts` | the attempt it is in | `submitSealedOrder` |
| Relayer | `mpc-core/src/relayer.rs` | `SlotRegistry`: who took which slot | reconstruct a revealed batch, match it again, cross-check, build the frame |
| Transactions | `mpc-core/src/relay.rs` | none | build and broadcast a submission |
| Market-maker gateway | `mm-gateway/src` | hedge parameters, latest risk state | hedge settled batches, retune |
| Web application | `web` | none of the protocol | user interface |

**Interactions.** Two paths end in the same program function,
`apply_settlement`. In the local path the FBA loop fetches sealed orders, runs
`process_epoch`, and a frame signed by a threshold of the committee goes to
`SubmitBatch`. In the confidential path a client submits a sealed order to the
gateway, which *queues* a computation; a cluster outside the repository runs the
circuit later and calls back; `clear_batch` reveals the book in an event, the
relayer reconstructs the orders, and the settlement authority sends the frame to
`SubmitBatchTrusted`. The program trusts neither blindly: it re-derives the
residual. Risk parameters are the market maker's and change between epochs.

**What is hard here.**
- *Interleaving and stale state.* Risk updates, withdrawals and backstop
  withdrawals land between the making of a frame and its settlement. A
  gateway computation runs on the ciphertext of one moment with the nonce of
  another, and its callback overwrites whatever was written in between.
- *Atomicity and partial failure.* One participant without collateral fails a
  batch for all; one blob that does not open fails an epoch; an aborted
  computation keeps its slot.
- *Replay and order.* Frames are repeated, late or out of order; the epoch guard
  is the only defence. A client's retry is a second order. A book can be opened
  twice.
- *Numbers.* Collateral is rounded down fill by fill; sums are checked or not;
  the pro-rata split must be exact; shares wrap on every node by themselves;
  capacities differ between layers.
- *Layers that must mirror each other.* `relay.rs` lists accounts and signatures
  in the order and form in which the program reads them; fills and position
  accounts meet by ordinal slot.
- *Crashes and lost answers.* An engine restarts from an epoch that may be old; a
  delivery, a hedge or a retune may have taken effect although the call failed.
- *Progress.* The client's retry loop must end.

`hazards` in `PROJECT.json` lists each one at its line with the properties that
cover it.

**What makes each component correct.** The program: no balance below zero or beyond
its u64, open interest balanced, free collateral always covered, nobody charged more than the
value of a pair, a shortfall never above rounding, a contract paid once and at
its outcome, contracts created only under a fresh epoch, an outcome that is
final; all of it in one sentence is the abstract ledger `Escrow`. The engine:
every frame is settleable, everyone is filled for what it ordered, the split is pro
rata, and the node matrix computes what an engine without one would. From end to end: users hold what
they sealed, and a transaction that the engine's side builds is not refused. The confidential path: what is relayed is whole
and attributed to the right users; a client returns; used one computation at a
time, it loses nothing. The auction: one frame per epoch, no order settled more
often than it was fetched, nothing settled below the committee's threshold, no
frame of a lone engine refused but for its own later ones. The market maker's
gateway: never more hedges than exposure, the program's own prices, and the
chain's parameters once updates have landed one by one.

## 2. Modules

| Module | Models |
|---|---|
| `Protocol` | constants, header, fill record, `PricesAssumption`, `SizesAssumption` |
| `ClearingMath` | `math.rs`: skew premium, clearing price, collateral with its rounding |
| `Totals` | the sum of a function over a finite set, defined so that it can be proved about |
| `Settlement` | the program: one action per instruction |
| `Escrow` | what the program promises: an abstract ledger that `Settlement` implements |
| `TotalsProofs`, `SettlementProofs` | theorems about them |
| `Matching` | `match_batch`, `allocate_exact`, `build_frame` as operators |
| `Epoch` | `process_epoch`, every batch within bounds; extends `Matching` |
| `MatchingProofs`, `EpochProofs` | theorems about them |
| `SecretSharing` | `secret_share.rs`: shares, accumulator and reveal modulo 2^w, as operators |
| `Sealing` | `seal.rs`, `order.rs`: sealed blobs and how they open, as operators |
| `SecureEpoch` | `process_epoch` with the node matrix, share by share; implements `Epoch` |
| `Submission` | frame, signatures, transactions and the program's checks of them, as operators |
| `Pipeline` | `SecureEpoch`, `Submission`, `Committee` and `Settlement` composed |
| `PipelineProofs` | theorems about the four |
| `BatchBook` | gateway, circuits, client and relayer composed; the relayer's matching is `Matching`'s |
| `BatchBookProofs` | theorems about it |
| `Committee` | threshold signing and the on-chain count of signers, as operators |
| `Auction` | the FBA loop, the network and the program's epoch guard composed; extends `Committee` |
| `AuctionProofs` | theorems about both |
| `MmGateway` | `run` and `retune` of the market maker's gateway against chain, stream and venue |
| `MmGatewayProofs` | theorems about it |
| `MC*` | TLC instances |

**`Settlement`.** `market`, `position` and `vault`/`wallet` are `MarketState`,
the `UserPosition` accounts and the token balances; a position's or a market's
`exists` is the account's initialization. `settled_fills` is history. A handler
runs in one transaction, so it is one action; an error rolls everything back, so
its conditions are the guard. `ApplySettlement` is the whole of
`apply_settlement`, in both passes, all checked additions included;
`SubmitBatch` and `SubmitBatchTrusted` are its two callers. Keys, owners, PDAs,
mints and signatures are preconditions: an action is only taken with the accounts
and the signer its handler demands. A frame has at most one fill per user, which is
what the engine produces. What the program does not check, that Tier-1 volume
crosses in pairs, is the assumption `CrossedInPairs` on frames; `TrustIsEarned` of
`Pipeline` shows that it holds of every frame that gets past the signatures.

**`Escrow`.** Accounts with a wallet, a free balance and two kinds of
contracts; tokens enter and leave balances, a trade turns balances into equally
many YES and NO contracts, the outcome is decided once and contracts are redeemed
once. No prices, batches or epochs. `Settlement!ImplementsEscrow` maps the
users and the market maker to its accounts: `free` is `collateral` and
`mm_collateral`, `yes` and `no` are the quantities and the market maker's legs.
`Trade` leaves prices open but not their bounds: at most `$1` a contract and a
pair, and what remains uncollected is rounding.

**`Matching` / `Epoch`.** Orders are opened one by one (`OpenOrder`), any of them
may fail the epoch (`FailToOpen`), then `MatchOrders` runs all of `match_batch`.
The node shares are represented by what they reveal, a sum modulo `U64Max + 1`.
`limit_price` does not appear because `match_batch` never reads it.

**`SecretSharing`, `Sealing`, `SecureEpoch`.** A share is a word modulo
`U64Max + 1`; the blinds of a split are any words. That is more than `ShareRng`
can draw, and sound for what the shares reveal; it says nothing about what they
hide (section 5). `SecureEpoch` has the variables of `Epoch` and adds the `nodes` and the
`matrix`: which column is in work, how much of it is folded in, the sums of the
nodes and the shares folded last. `Aggregate` is `match_batch` up to its last
check, `FoldShares` one round of `blinded_sum`, `RevealYes` and `RevealNo` its
two results. A blob has a condition (intact, too short, altered), a key and bytes
that need not come from `to_bytes`; `OpenBlob` gives the order or the error that
`open` gives. The ciphers are ideal. `ImplementsEpoch` keeps `orders` and
`result` as they are and forgets the rest.

**`Submission` / `Pipeline`.** `WireFrame` is what `build_frame` writes: header,
fills in order, and `stray` for bytes that belong to neither.
`BuildTransaction` and `BuildTrustedTransaction` are the two of `relay.rs`, with
a position account for each fill. `WellFormed`, `Authenticated` and
`PositionsMatch` are the program's checks before and in its loop, and
`OnAccounts` is the frame as that loop executes it, each fill on the account in
its slot, which is the frame that `Settlement` settles. `Pipeline` starts with
funded users and an open market. Besides what `relay.rs` builds, anyone may
submit transactions put together differently: accounts reversed, missing,
added or of another market, signatures missing, repeated or in
instructions that refer to others, a frame with another epoch or market, or with fills
or bytes missing or added. Signatures are over the frame, so a changed frame carries none
for it.

**`BatchBook`.** `book` is the account of one market and epoch: its ciphertext is
the content plus the nonce it is encrypted under. `computations` holds what was
queued, with the nonce that the instruction passed; `Execute` runs the circuit on
the ciphertext *of that moment*, and opens to `Unreadable` if the nonces
differ; `BookCallback` overwrites; `AbortedCallback` writes nothing.
`client` is the attempt loop, including a call that throws although the
transaction landed (`SubmitUnseen`), and a client that resolves an aborted
computation because the fetch of its transaction found none (`Resolve`). `registry` is the relayer's; it is
recorded when the ingestion lands. `Relay` is `from_gateway` plus
`Relayer::clear`; `from_gateway` also refuses a side byte other than 0 and 1,
which the repository's client never sends and no order here has. A garbled reveal is taken to fail the cross-check. The
sums of the circuits are not wrapped: orders are far below the limit here, and
the relayer's own sums wrap in `Matching`.

**`Committee` / `Auction`.** A signature is a key and the message it is over;
the runtime verifies signatures before the program runs, so only valid ones
occur. `SignerMask` is the bit mask of `verify_committee`. `engine` is the
`FbaEngine` together with the place of its loop: between `Fetch` and
`SignBatch` it holds the fetched orders in `sealed`, between `SignBatch` and the
answer of the sink it holds the batch in `batch`; each action is the code
between two awaits. An error is `RunFailed`: the run ends, the engine keeps its
epoch, and may be run again. Matching is abstracted to whether an epoch fails and
whether its batch is empty, which is all that the loop sees. The ingestion
accounts are outside the repository: a fetch may find any orders. `network` is
what was broadcast; a frame may settle late, again, after a later one, or be lost,
with any list of the signatures that are under way. The trusted path is a second
submitter on the same `last_epoch`. `history` records what was signed and
fetched, and whether the present engine has been `sole`: started from the exact
last epoch with nothing under way, and undisturbed by the trusted path. Amounts
and prices are `Settlement`'s; here a settlement is its frame and its signers.

**`MmGateway`.** `gateway` is the `Gateway` and the place of its loop: `order`
holds the hedge that the venue has not answered. `run` and `retune` borrow the
gateway mutably, so they alternate, while the chain, the stream and the
broadcast updates move at any time. The venue may take an order although the call fails,
and may fill any part. A retune's answer means that the transaction was
broadcast. The hedge arithmetic of `hedge.rs` is translated as it stands,
next to the program's (`ClearingMath`), and `LimitIsPricePaid` compares the two.
The stream is taken to carry the settled batches of this market, each at most
once: the gateway itself looks at neither the market nor the epoch of an event
(`gateway.rs:77-78`), so `NeverOverhedged` rests on that.

Definitions commented as *faulty variants* are forms of an operator that a
plausible bug would give it; nothing uses them but the mutation entries of
`PROJECT.json`, which say which property each one breaks.

## 3. Runs

| Run | Shows |
|---|---|
| `settlement` | all nine properties of the program hold, and it implements `Escrow` |
| `settlement_solvency` | **fails**: the vault can be short of what it owes |
| `epoch` | frames are settleable, demand is filled, the split is pro rata |
| `epoch_totals` | **fails**: totals over users wrap |
| `book` | relayed frames are whole; serial use is reliable |
| `book_client` | every client returns |
| `book_lost_order` | **fails**: a resolved order is lost to a concurrent ingestion |
| `book_gap` | **fails**: an aborted ingestion makes the batch unrelayable |
| `book_reopened` | **fails**: a reopened book is relayed under wrong owners |
| `auction` | no epoch and no fetch settles twice, whatever fails or restarts; the threshold is met and needed |
| `hedge` | hedges never exceed exposure, prices and parameters agree with the chain's |
| `pipeline` | the node matrix implements the engine, its transactions are accepted, no other frame than a matched one passes, users hold what they sealed |

The failing runs each check one statement of the repository's own comments; the
findings in `PROJECT.json` quote it. In short:

1. `collateral_for` rounds every fill and the market maker's obligation down, so
   the vault may lock less than `$1` per contract. `ShortfallIsDust` bounds the
   loss: one and a half units per settled fill.
2. `match_batch` checks each user's aggregate but not the totals, which then
   wrap, against the comment at `mxe.rs:111`.
3. Two ingestions queued on the same ciphertext: the later callback drops the
   order of the earlier.
4. An aborted ingestion keeps its slot, so that active slots are no longer
   `0 .. count - 1` and the relayer refuses the batch.
5. `init_book` is `init_if_needed`; a second call resets the slots, and a clearing
   of the first round meets the owners of the second.

**Bounds and why they suffice.**
- `settlement`: two users, the market maker, frames of epochs 1 and 2 with
  quantities 0 and 3, both directions, plus frames with residual on both sides
  and frames that hide the residual, which must be refused; two valid risk
  settings (one that clamps) and an invalid one; token stocks of 2 each and
  `U64Max = 7`, so that shortage of funds and overflow both occur. Prices are
  cents rather than millionths: the rounding is the same, and an odd quantity at
  50 or at 99 cents shows it. Two epochs are the fewest that allow replay and
  reordering; two users are the fewest with a counterparty.
- `epoch`: four users and four orders of 0, 1, 2 or 4 contracts, `MAX_FILLS` 3
  (one below the users, so that too many fills occur) and `U64Max` 10 (so that a
  user's aggregate and the P2P volume can overflow). Remainders tie and differ.
  Users are symmetric: they are only compared. `epoch_totals` uses three users.
- `book`: two clients with crossing orders, two attempts each, two circuit slots
  and a gateway limit of three, as the gateway's limit exceeds the circuits'
  capacity in the code (19 and 8). One opening and one clearing; the
  reopening is a run of its own. `book_client` leaves the clearing out: no client
  waits for one.
- `auction`: two good orders, which are symmetric because they are only
  compared, and one that fails its epoch; two epochs, two engines one after the
  other, runs without a bound and of one tick. Two lives are the fewest for a
  restart, two epochs the fewest for overtaking. A committee of three with a
  threshold of two, once with three keys and once with a repeated one, which both
  sides accept. Lists of at most two signatures: a longer list that
  passes has a part of two that passes.
- `hedge`: two batches, two retunes, two starts; residuals of 0, 1 and 2 in both
  directions; a calm and an extreme condition, so that the
  threshold reaches its floor, the premium saturates and the price is clamped;
  prices in cents and `U64Max = 120`, so that the addition saturates too. Runs without a bound, of one event, and with a
  bound of zero, which the code lets process one.
- `pipeline`: two users, three orders of one or two contracts, words modulo 4 (so
  that shares, aggregates and totals all wrap), one blob for each way not to open,
  clusters built with 0 nodes (the code makes it one), 2 and 3: the fewest that are no
  sharing, the first, and one where a blind is neither first nor last. Two
  tokens for each user and one for the backstop, so that settlements also lack funds.
  Withdrawals and the close come only while a frame is under way: before that they
  change where it starts, which `settlement` varies.
- Deadlock is not checked in `auction` and `hedge` (epochs and calls are
  bounded), in `epoch` and `pipeline` (one epoch ends) and in the `book` runs
  (everything is bounded). It is checked in `settlement`.

**Fairness** is assumed in `BatchBook` only (nothing in the code makes anyone
call `run` again after an error, so that `Auction` and `MmGateway` promise no
progress): weak fairness of the cluster for
every queued computation (it runs or aborts, and calls back: an assumption on an
external service, without which no client could return) and of each client's own
loop, which is a `for` with awaits. `init_book` and `clear_batch` are not fair:
an operator calls them or does not. The safety properties need none of it.

## 4. Proofs

The theorems about `Settlement` hold for any users, frames, amounts and
prices. They assume `PricesAssumption` (the scale is twice the midpoint, the
price band lies inside it), `SizesAssumption`, `PartiesAssumption` (a finite set of
users that the market maker is not in) and `FramesAssumption` (a frame is typed, its
Tier-1 volume crosses in pairs and only its users have fills). `Frames` may
otherwise be anything: two-sided, with a false `net_imbalance`, replayed.

| Theorem | Property | Argument |
|---|---|---|
| `TypeCorrect` | `TypeOK` | inductive, the u64 limits included (`AccountsFit`); `ClearingPrice` lies in the band, so both Tier-2 prices are natural |
| `LifecycleCorrect` | `LifecycleOK` | inductive with `TypeOK` |
| `OutcomeIsFinal` | `ResolutionIsFinal` | from `LifecycleOK` |
| `OpenInterestStaysBalanced` | `OpenInterestBalanced` | a settlement adds the sums of its fills (`SettledHoldings`), equal on both sides with the market maker's leg (`AddedSupply`) |
| `MintingIsFresh` | `MintsUnderFreshEpoch` | only `ApplySettlement` adds a leg |
| `FreeCollateralIsCovered`, `NobodyIsOvercharged` | same | `SettlementLocks`: what a batch debits is at most the pairs it creates |
| `ShortfallIsBounded` | `ShortfallIsDust` | `DustBounded`, below |
| `ClaimsAreNeutral` | `ClaimsAreWorthNeutral` | a payout moves worth from position to wallet |

`ShortfallIsDust` is not inductive: what a resolved market owes says nothing of
the outcomes that were possible before. `DustBounded` strengthens it: before the
resolution, twice the open interest less twice the locked tokens is at most
three per settled fill; after it, the same of what is owed under the outcome. The
resolution connects the two because `OpenInterestBalanced` makes every outcome
owe at most the open interest; a settlement keeps it by the rounding lemmas
(`RoundingBounds`, `CollateralForBounds`, `MidpointBounds`); a claim lowers both
sides by the same payout. `TotalsProofs` proves what the sums need: a sum is a natural
number, sums add, a change of one entry changes the sum by as much, bounds
carry over.

All six properties of `Auction` are proved, for any orders, committees, number of
epochs and number of engines. They assume `CommitteeAssumption` (the maximal size
is a number) and `AuctionAssumption`: bad orders are orders, the bounds are
numbers, and a market's committee has a size and a threshold within the limits
that both sides check. That keys differ is *not* assumed: it is the premise of
`SignedMeetsQuorum`, and `SettledUnderQuorum` does without it.

| Theorem | Property | Argument |
|---|---|---|
| `TypesHold` | `TypeOK` | `Typed` and `Placed`: a running engine has ticks left, one that has fetched has an epoch left |
| `OneFramePerEpochHolds` | `OneFramePerEpoch` | `EpochInv`: an engine that is up has passed every epoch it signed, the chain every epoch it settled |
| `AloneIsFreshHolds` | `AloneIsFresh` | `AloneInv`: a lone engine is at or ahead of the chain and of its frames; a settlement refuses only what it overtakes (`SettlingOvertakes`) |
| `SettlesOncePerFetchHolds` | `SettlesOncePerFetch` | `FetchInv` counts what was signed and is still in the tick against the fetches; settled batches have different epochs, so they inject into what was signed |
| `SignedMeetsQuorumHolds` | `SignedMeetsQuorum` | `ThresholdSuffices`: with different keys the mask of the first members is the interval `1 .. threshold` |
| `SettledUnderQuorumHolds` | `SettledUnderQuorum` | `QuorumNeedsKeys`: the mask is an image of the keys that signed the frame |

The four properties of `Epoch` are proved for any users, quantities and batch
sizes, from `SizesAssumption` and `BatchAssumption` (finitely many users,
quantities are words).

| Theorem | Property | Argument |
|---|---|---|
| `MatchIsTyped` | `TypeOK` | a result is the match of the orders (`Inv`); first orders are numbered without gaps (`RankOnto`), so users are listed once (`UsersOnce`) |
| `FrameSettles`, `DemandFills` | `FrameIsSettleable`, `DemandIsFilled` | `AllocationIsExact`; totals over users are totals over the columns (`AggregatesAdd`) |
| `AllocationSplits` | `AllocationIsProRata` | `EntryBounds`, `EntriesMonotone` |

`AllocationIsExact` is a counting argument: the remainders add up to the leftover
times the sum of the weights, so at least as many entries have a remainder as there are
units left over (`LeftoverBounded`); ranks by remainder are a bijection
(`RemainderRanks`), so exactly that many entries get one more, and only entries that
have a remainder, which keeps each at or below its weight.

Two refinements are proved.

| Theorem | Property | Argument |
|---|---|---|
| `EscrowIsImplemented` | `ImplementsEscrow` | each instruction is one step of `Escrow` or none; a settlement is a `Trade` by the sums and rounding lemmas of `SettlementProofs` |
| `MatrixIsEpoch` | `ImplementsEpoch` | `Inv` of `PipelineProofs`: a column is in work only after the checks passed, and the sums of the nodes are what is folded in; a reveal is then `BlindedSum` |
| `SharesReveal`, `MatrixIsTyped` | `SumsAreShared`, `EngineTypeOK` | the same invariant |

The shares enter by three facts about words: the shares of a secret sum to it
(`SplitSums`), adding node by node adds what is shared (`AddSums`), and
a summand may be reduced before it is added (`ReducedSum`). They hold for every
number of nodes and every `U64Max`. The theorems assume `BlobsAssumption` (finitely
many users, quantities are words) and `NodesAssumption`; they are about
`EngineSpec`, which `Pipeline` implements (`PipelineRunsEngine`).

`EngineEffects` sorts the eleven actions of the engine into five effects, so that
each invariant is proved once per effect and not once per action.

The three safety properties of `BatchBook` are proved for any owners, orders,
capacities and bounds, from `BookAssumption` and `SizesAssumption`.

| Theorem | Property | Argument |
|---|---|---|
| `BookIsTyped` | `TypeOK` | `BookInv`, below |
| `RelayedFramesAreWhole` | `RelayedIsWhole` | `RelayFills` from `BookInv` and the cross-check |
| `SerialUseHolds` | `SerialUseIsReliable` | `Steady` and `Serial(q)` on top of `BookInv`, below |

`BookInv` says what a book *accounts for*: wherever one is, in the account, in the
output of a computation or in an event, its count and its totals are those of the
orders folded into it, and an occupied slot holds one of them (`Accounted`). Which
callback overwrote which does not matter to it, so it survives every overlap. As
long as the book is opened once, a slot is taken once and the registry has who took
it (`Attributed`). That says nothing yet of orders that hit no slot or were
overwritten in theirs. The cross-check does: for every user and side, what the
active slots hold is at most what was folded (`DemandIsFolded`, by the injection of
active slots into folded orders), yet the totals agree, so that
they agree user by user (`TotalSame`). `MatchFills` carries this through the match.

For `SerialUseIsReliable` the opposite bound is needed: every folded order is in a slot of
its own below the count (`Whole`), so that the relayer refuses nothing. `Serial(q)`
keeps it: at most one computation runs and it has the nonce of the
ciphertext (`OneRuns`), nothing is queued before `init_book` has called
back (`OpensFirst`), what is done is folded and what runs takes the next slot
(`AllFolded`), and an output is its circuit's on the present book (`OutputsFit`).
`SerialBefore` shows that serial use, once lost, does not come back. The theorem has
a premise, `SmallOrders(q)`: any `BATCH_CAP` orders add up to a word and fit into a
frame. In the code eight orders below 2^61 contracts do; without it the
match refuses a total that wraps, which is what `epoch_totals` is about.

The five properties of `MmGateway` are proved from `GatewayAssumption` (which
includes that the market starts with parameters that it validates, as
`initialize_market` sees to), `PricesAssumption` and `SizesAssumption`.

| Theorem | Property | Argument |
|---|---|---|
| `GatewayIsTyped` | `TypeOK` | `Typed`: chain and gateway only ever hold validated parameters |
| `SerialRetunesSync` | `SyncedBySerialRetunes` | `Synced`: with no update under way chain and gateway agree, otherwise the one under way has the gateway's parameters |
| `OutcomesAreReturned` | `PlacedIsReturned` | `OutcomesKept`: what was placed is returned, in the present run's outcomes or being added to them |
| `LimitsArePricesPaid` | `LimitIsPricePaid` | the saturating sum equals the exact one below the clamp, and the complement keeps the band |
| `HedgesAreCovered` | `NeverOverhedged` | `HedgeInv`: epochs of orders are different and increasing, each is that of a settled batch and at most its residual (`InOrder`, `HedgesOfBatches`), so fills inject into residuals (`TotalInjection`) |

The whole way from blobs to positions is proved too, for any users, blobs, nodes,
blinds, committees and risk parameters, from the assumptions of the modules above and
`PipelineAssumption` (a valid committee, an epoch other than 0, amounts that
are numbers).

| Theorem | Property | Argument |
|---|---|---|
| `PipelineRunsEngine` | none | nothing outside the engine touches its variables, so that `SharesReveal`, `MatrixIsTyped` and `MatrixIsEpoch` hold of the pipeline |
| `SealedIsSettled` | `SettledAsSealed` | `PipelineInv`, below |
| `FramesAreAsAssumed` | `TrustIsEarned` | `SubmittedFrame`: a frame whose signatures are accepted is the engine's; `MatchListing` gives its sums |
| `MirrorsTheChecks` | `BuiltIsAccepted` | `BuiltSignatures` (by `ThresholdSuffices`'s argument), `BuiltAccounts` (a user is listed once) and `MatchListing` |

`PipelineInv` adds three parts to the engine's `Inv`. `Mirrored`: the orders are what the blobs
opened to, one for one, so that what is sealed is what is demanded
(`SealedDemand`). `Matched`: a result is the match of these orders; the engine takes no
step after it. `Held`: the market's last epoch is 0 or the engine's, and a
position holds nothing before and its user's whole demand after. The step that could
break `Held` is a settlement. A transaction that passes `Signed` and `WellFormed`
carries the signed frame, with each fill on its user's own account
(`SubmittedFrame`, for every transaction of `Submitted`, that is for each way of
putting one together that section 2 lists). `MatchFills` says that these fills are
the demand; and the epoch guard lets the frame through once.

`SettledAsSealed` holds even where the totals over users wrap: a match fills everyone for its demand
whatever the reveal says, and the program refuses the header. `TrustIsEarned` and `BuiltIsAccepted` need
`NoTotalWraps`, since a wrapped total makes pairs that do not cross (`epoch_totals`). `TrustIsEarned` closes
the gap between the two halves: it is what `FramesAssumption` asks, so
the theorems about `Settlement` apply to the engine's frames. `MirrorsTheChecks` has the premise that keys differ:
with a repeated key `sign_threshold` falls short of the threshold, as in `SignedMeetsQuorum`.

**Only model-checked:** `ClientReturns`, the one liveness property, which is
beyond the prover.

## 5. Not modelled

- Cryptography, byte layouts, discriminators and the derivation of addresses. Ciphers
  and signatures are ideal, an account is the address it is at.
- Account and signer checks of the instructions other than the two settlements:
  preconditions, as said above.
- The debug build, which panics where totals wrap (`mxe.rs:116`), and frames shorter
  than their header, which nothing builds.
- The web application: it keeps no protocol state.
- Where frames come from is in `Pipeline` and `Auction`; in `Settlement` a submitted
  frame is any member of `Frames`, at any time and any number of times.
- Time: a tick of the loop may come at any moment. HTTP calls carry no timeout in
  the code, so a call that is never answered is an action not taken.
- `captured_premium` of a hedge, which is only reported; and log lines that do not
  parse, which the stream skips.
- What shares hide. `secret_share.rs:6-9` claims that all shares but one are jointly
  uniform. The blinds are outputs of a SplitMix64 generator with 64 bits of
  state (`secret_share.rs:48-55`), so from three nodes on they are not independent
  and the claim does not hold as stated. No secrecy property is stated here.
- Two things that the models do and that no document forbids, so that no property is
  about them: an order accepted after the first reveal is in no frame of its epoch,
  and the retry of a call whose transaction landed is a second order of the user.
- A slot registry that serves several epochs (it is keyed by slot alone,
  `relayer.rs:93`): `BatchBook` is one epoch with one registry.
- `limit_price` binds nobody, in the code and so here.
- Crashes of the program do not exist (transactions are atomic). Those of the
  engine and of the market maker's gateway are modelled, those of the
  relayer are not: its registry lives in memory, and nothing in the code restores it.

## 6. Plan

The order follows what a failure would cost. Done: the ledger and the escrow it
implements, the engine's frames with the node matrix below them and the
transactions above, the confidential path, the auction loop with the committee, and the
market maker's gateway. Left, in this order:

1. The relayer with one registry over several epochs, up to
   `SubmitBatchTrusted`: whether an owner of an earlier epoch can be charged.
2. `Auction` over `Settlement`: a settled batch of `Auction` is a step of
   `ApplySettlement`, so that the two are one specification at the epoch guard.
3. Proofs: `PipelineInvariant` for a market with several epochs, once 1 or 2 is there.
4. Statements of the repository that the models already contradict and that no
   run shows yet: a committee with a repeated key makes `sign_threshold`
   fall short of "the minimal quorum that finalizes a batch"
   (`mpc-core/src/committee.rs:93`); `Some(0)` ticks once where
   `mpc-core/src/ingestion.rs:103` says "exactly"; and a hedge is priced with the
   parameters that the gateway holds when it reads the event, so after a retune
   its limit may exceed what `mm-gateway/src/hedge.rs:9` calls the price "the
   residual buyers paid".
