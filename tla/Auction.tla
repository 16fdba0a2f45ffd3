----------------------------- MODULE Auction -----------------------------
(***************************************************************************)
(* The frequent batch auction: FbaEngine of mpc-core/src/ingestion.rs, the  *)
(* sink that broadcasts its batches, and the epoch guard of the settlement  *)
(* program that it shares with the trusted gateway path.                    *)
(*                                                                         *)
(* The ingestion accounts, the network and the gateway's submitter are      *)
(* external.  Matching is abstracted to what the loop can tell: an epoch    *)
(* fails or not, and its batch is empty, when it has no orders, or not.     *)
(* Settlement and Epoch model what happens inside.                          *)
(***************************************************************************)
EXTENDS Committee

CONSTANTS
  Blobs,         \* sealed orders in the ingestion accounts
  BadBlobs,      \* those that no epoch survives: they do not open, or overflow
  Committees,    \* the [members, threshold] that a market may have
  MaxEpoch,      \* bound: epochs of the engine and of the trusted submitter
  MaxTicks,      \* the arguments of run: {} for None, {m} for Some(m)
  MaxLives       \* bound: engines started one after the other

ASSUME AuctionAssumption ==
  /\ BadBlobs \subseteq Blobs
  /\ \A c \in Committees : /\ DOMAIN c.members = 1 .. Len(c.members)
                           /\ ValidCommittee(c.members, c.threshold)
  /\ MaxEpoch \in Nat /\ MaxLives \in Nat
  /\ MaxTicks \subseteq SUBSET Nat

VARIABLES
  committee,  \* the registered committee
  engine,     \* the FbaEngine and the run it is in
  network,    \* the frames that were broadcast and may still land
  chain,      \* last_epoch and the batches settled, in order
  history     \* of the engines and of the fetches; see Init

vars == <<committee, engine, network, chain, history>>

-----------------------------------------------------------------------------
(* The engine's process.  `sealed` is what the tick has fetched and `batch`  *)
(* what it delivers: empty, or a set with one element.                      *)

Down ==
  [up |-> FALSE, epoch |-> 0, running |-> FALSE, max_ticks |-> {}, count |-> 0,
   sealed |-> {}, batch |-> {}]

(* new, with a last_settled_epoch that was read from the chain at any time. *)
Start(last_settled_epoch) ==
  /\ ~engine.up
  /\ history.life < MaxLives
  /\ engine' = [Down EXCEPT !.up = TRUE, !.epoch = last_settled_epoch]
  /\ history' = [history EXCEPT !.life = @ + 1, !.since = Len(chain.settled),
                   !.sole = (network = {} /\ last_settled_epoch = chain.last_epoch)]
  /\ UNCHANGED <<committee, network, chain>>

Crash ==
  /\ engine.up
  /\ engine' = Down
  /\ UNCHANGED <<committee, network, chain, history>>

-----------------------------------------------------------------------------
(* run: one step per await.  The timer only says that a tick may happen     *)
(* later; missed ticks are skipped.                                         *)

StartRun(max_ticks) ==
  /\ engine.up
  /\ ~engine.running
  /\ engine' = [engine EXCEPT !.running = TRUE, !.max_ticks = max_ticks, !.count = 0]
  /\ UNCHANGED <<committee, network, chain, history>>

(* Faulty variant: one tick too many. *)
IsLateLastTick == \E m \in engine.max_ticks : engine.count + 1 > m

(* The bound is looked at after a tick only. *)
IsLastTick == \E m \in engine.max_ticks : engine.count + 1 >= m

TickDone == [engine EXCEPT !.sealed = {}, !.batch = {}, !.count = @ + 1,
                           !.running = ~IsLastTick]

(* An error ends the run, bounded or not. *)
RunFailed == [engine EXCEPT !.sealed = {}, !.batch = {}, !.running = FALSE]

AwaitsFetch == engine.running /\ engine.sealed = {} /\ engine.batch = {}

(* The users place, replace and remove orders as they like, so that a fetch *)
(* may find any of them.                                                    *)
Fetch(sealed) ==
  /\ AwaitsFetch
  /\ engine.epoch < MaxEpoch
  /\ engine' = [engine EXCEPT !.sealed = {sealed}]
  /\ history' = [history EXCEPT !.fetches =
                   [b \in Blobs |-> IF b \in sealed THEN @[b] + 1 ELSE @[b]]]
  /\ UNCHANGED <<committee, network, chain>>

(* The epoch does not advance. *)
FetchFails ==
  /\ AwaitsFetch
  /\ engine' = RunFailed
  /\ UNCHANGED <<committee, network, chain, history>>

(* Faulty variant: the epoch is used before it is advanced. *)
UnadvancedEpoch == engine.epoch

(* Faulty variant: the next epoch of the chain, not of the engine. *)
ChainEpoch == chain.last_epoch + 1

TickEpoch == engine.epoch + 1

(* process_epoch fails, and the epoch has advanced. *)
EpochFails ==
  /\ \E sealed \in engine.sealed : sealed \cap BadBlobs # {}
  /\ engine' = [RunFailed EXCEPT !.epoch = engine.epoch + 1]
  /\ UNCHANGED <<committee, network, chain, history>>

EmptyEpoch ==
  /\ {} \in engine.sealed
  /\ engine' = [TickDone EXCEPT !.epoch = engine.epoch + 1]
  /\ UNCHANGED <<committee, network, chain, history>>

(* process_epoch signs a batch, and run starts to deliver it. *)
SignBatch ==
  \E sealed \in engine.sealed :
    LET frame == [epoch |-> TickEpoch, orders |-> sealed]
    IN  /\ sealed # {}
        /\ sealed \cap BadBlobs = {}
        /\ engine' = [engine EXCEPT !.epoch = @ + 1, !.sealed = {}, !.batch = {frame}]
        /\ history' = [history EXCEPT !.signed = @ \cup {[life |-> history.life, frame |-> frame]}]
        /\ UNCHANGED <<committee, network, chain>>

AwaitsDelivery == engine.batch # {}

Broadcast == network' = network \cup engine.batch

Delivered ==
  /\ AwaitsDelivery
  /\ Broadcast
  /\ engine' = TickDone
  /\ UNCHANGED <<committee, chain, history>>

(* The batch is on its way although the sink reports an error. *)
DeliveredUnanswered ==
  /\ AwaitsDelivery
  /\ Broadcast
  /\ engine' = RunFailed
  /\ UNCHANGED <<committee, chain, history>>

DeliveryFails ==
  /\ AwaitsDelivery
  /\ engine' = RunFailed
  /\ UNCHANGED <<committee, network, chain, history>>

-----------------------------------------------------------------------------
(* The network and the program.  A broadcast may land late, more than once, *)
(* after a later one, or never.                                             *)

SignaturesOf(frame) == SignThreshold(committee.members, committee.threshold, frame)

(* What a relayer has seen: the signatures of every batch under way. *)
SeenSignatures ==
  {SignaturesOf(frame)[i] : frame \in network, i \in 1 .. committee.threshold}

(* Any of them, in any order, some missing and some repeated. *)
SignatureLists == UNION {[1 .. n -> SeenSignatures] : n \in 0 .. committee.threshold}

(* Faulty variant: the epoch that was settled last is let through again. *)
EpochNotOlder(epoch) == epoch >= chain.last_epoch

FreshEpoch(epoch) == epoch > chain.last_epoch

Settled(frame, signers) ==
  chain' = [last_epoch |-> frame.epoch,
            settled |-> Append(chain.settled, [frame |-> frame, signers |-> signers])]

(* SubmitBatch, from any relayer.  A participant without collateral is a    *)
(* reason for it not to happen now: the frame may be submitted again.       *)
SubmitBatch(frame, signatures) ==
  /\ FreshEpoch(frame.epoch)
  /\ VerifyCommittee(committee.members, committee.threshold, frame, signatures)
  /\ Settled(frame, {signatures[i].key :
                       i \in {i \in DOMAIN signatures : signatures[i].message = frame}})
  /\ UNCHANGED <<committee, engine, network, history>>

(* SubmitBatchTrusted: the gateway's submitter has epochs of its own. *)
SubmitBatchTrusted(epoch) ==
  /\ FreshEpoch(epoch)
  /\ Settled([epoch |-> epoch, orders |-> {}], {})
  /\ history' = [history EXCEPT !.sole = FALSE]
  /\ UNCHANGED <<committee, engine, network>>

LoseFrame(frame) ==
  /\ network' = network \ {frame}
  /\ UNCHANGED <<committee, engine, chain, history>>

-----------------------------------------------------------------------------
(* `sole`: the engine of this life started from the exact last_epoch with   *)
(* nothing under way, and nobody else has settled a batch since.  `since`   *)
(* counts the batches that were settled before this life; `fetches`, how    *)
(* often each order was fetched.                                            *)
Init ==
  /\ committee \in Committees
  /\ engine = Down
  /\ network = {}
  /\ chain = [last_epoch |-> 0, settled |-> <<>>]
  /\ history = [life |-> 0, since |-> 0, sole |-> FALSE, signed |-> {},
                fetches |-> [b \in Blobs |-> 0]]

Next ==
  \/ \E last_settled_epoch \in 0 .. chain.last_epoch : Start(last_settled_epoch)
  \/ Crash
  \/ \E max_ticks \in MaxTicks : StartRun(max_ticks)
  \/ \E sealed \in SUBSET Blobs : Fetch(sealed)
  \/ FetchFails \/ EpochFails \/ EmptyEpoch \/ SignBatch
  \/ Delivered \/ DeliveredUnanswered \/ DeliveryFails
  \/ \E frame \in network :
       LoseFrame(frame) \/ \E signatures \in SignatureLists : SubmitBatch(frame, signatures)
  \/ \E epoch \in 1 .. MaxEpoch : SubmitBatchTrusted(epoch)

Spec == Init /\ [][Next]_vars

-----------------------------------------------------------------------------
(* The engine is in one place of its loop, only in a run, and a bounded run *)
(* ticks no more often than its bound (but Some(0) ticks once).             *)
TypeOK ==
  /\ engine.epoch \in 0 .. MaxEpoch /\ chain.last_epoch \in 0 .. MaxEpoch
  /\ engine.sealed = {} \/ engine.batch = {}
  /\ engine.sealed \cup engine.batch # {} => engine.running
  /\ engine.running => engine.up
  /\ \A m \in engine.max_ticks : engine.count <= m \/ engine.count = 1

(* "Every produced frame carries a strictly-increasing epoch": an engine    *)
(* never signs two frames for one epoch, whatever fails, is skipped or is   *)
(* run again.  Two engines may; then at most one of their frames settles.   *)
OneFramePerEpoch ==
  /\ \A s, t \in history.signed :
       s.life = t.life /\ s.frame.epoch = t.frame.epoch => s = t
  /\ \A i, j \in DOMAIN chain.settled :
       chain.settled[i].frame.epoch = chain.settled[j].frame.epoch => i = j

(* The comment of `new`, "satisfying the on-chain replay guard": an engine  *)
(* that started from the exact last epoch, with nothing under way, and that *)
(* is the only one to settle, has no frame refused but for one of its own   *)
(* later frames.                                                            *)
AloneIsFresh ==
  history.sole =>
    \A frame \in network :
      FreshEpoch(frame.epoch)
        \/ \E i \in history.since + 1 .. Len(chain.settled) :
             chain.settled[i].frame.epoch >= frame.epoch

SettledWith(b) == {i \in DOMAIN chain.settled : b \in chain.settled[i].frame.orders}

(* An order that stays in its account is fetched, and may settle, once per  *)
(* tick.  But it never settles more often than it was fetched: not by late  *)
(* or repeated frames, not by a run after a delivery without an answer, not *)
(* by a restart from an old epoch.                                          *)
SettlesOncePerFetch ==
  \A b \in Blobs : Cardinality(SettledWith(b)) <= history.fetches[b]

(* "The minimal quorum that finalizes a batch": the signatures of a batch   *)
(* suffice whenever the members are distinct.                               *)
SignedMeetsQuorum ==
  Distinct(committee.members) =>
    \A s \in history.signed :
      VerifyCommittee(committee.members, committee.threshold, s.frame, SignaturesOf(s.frame))

(* What settles by SubmitBatch has been signed by a threshold of different  *)
(* members, over that very frame.                                           *)
SettledUnderQuorum ==
  \A i \in DOMAIN chain.settled :
    LET s == chain.settled[i]
    IN  s.frame.orders # {} => Cardinality(s.signers) >= committee.threshold

=============================================================================
