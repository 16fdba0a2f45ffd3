-------------------------- MODULE AuctionProofs --------------------------
(***************************************************************************)
(* Theorems about Auction and Committee, for any orders, committees and    *)
(* bounds.                                                                  *)
(***************************************************************************)
EXTENDS Auction, FiniteSetTheorems, TLAPS

(***************************************************************************)
(* The committee's threshold, for any members and signatures.               *)
(***************************************************************************)

(* When the keys differ, index_of finds the position a key was taken from. *)
LEMMA IndexOfMember ==
  ASSUME NEW members, Len(members) \in Nat, DOMAIN members = 1 .. Len(members),
         Distinct(members), NEW i \in DOMAIN members
  PROVE  IndexOf(members, members[i]) = i
<1> DEFINE IsFirst(n) == members[n] = members[i] /\ \A j \in 1 .. n - 1 : members[j] # members[i]
<1>1. ASSUME NEW j \in 1 .. i - 1
      PROVE  members[j] # members[i]
  <2>1. j \in DOMAIN members /\ j # i
    OBVIOUS
  <2> QED
    BY <2>1 DEF Distinct
<1>2. IsFirst(i)
  BY <1>1
<1>3. \A n \in DOMAIN members : IsFirst(n) => n = i
  BY DEF Distinct
<1> QED
  BY <1>2, <1>3 DEF IndexOf

(* sign_threshold meets the on-chain check: the first `threshold` members   *)
(* are the minimal quorum that finalizes a batch, provided that no key is   *)
(* registered twice.                                                        *)
THEOREM ThresholdSuffices ==
  ASSUME NEW members, Len(members) \in Nat, DOMAIN members = 1 .. Len(members),
         NEW threshold, ValidCommittee(members, threshold), Distinct(members), NEW frame
  PROVE  VerifyCommittee(members, threshold, frame, SignThreshold(members, threshold, frame))
<1> DEFINE signatures == SignThreshold(members, threshold, frame)
           signers == 1 .. threshold
<1>1. threshold \in Nat /\ threshold >= 1 /\ signers \subseteq DOMAIN members
  BY DEF ValidCommittee
<1>2. /\ DOMAIN signatures = signers
      /\ \A i \in signers : signatures[i] = [key |-> members[i], message |-> frame]
  BY <1>1 DEF SignThreshold, SignWith, ThresholdIndices
<1>3. \A i \in signers : Counts(members, frame, signatures[i])
  BY <1>1, <1>2 DEF Counts
<1>4. \A i \in signers : IndexOf(members, signatures[i].key) = i
  BY <1>1, <1>2, IndexOfMember
<1>5. SignerMask(members, frame, signatures) = signers
  <2>1. {i \in DOMAIN signatures : Counts(members, frame, signatures[i])} = signers
    BY <1>2, <1>3
  <2> HIDE DEF signatures
  <2>2. {IndexOf(members, signatures[i].key) : i \in signers} = signers
    BY <1>4
  <2> QED
    BY <2>1, <2>2 DEF SignerMask
<1>6. Cardinality(signers) = threshold
  BY <1>1, FS_Interval
<1>7. signatures # <<>>
  <2>1. 1 \in DOMAIN signatures
    BY <1>1, <1>2
  <2>2. DOMAIN << >> = {}
    OBVIOUS
  <2> HIDE DEF signatures
  <2> QED
    BY <2>1, <2>2
<1> HIDE DEF signatures, signers
<1>8. VerifyCommittee(members, threshold, frame, signatures)
  BY <1>1, <1>5, <1>6, <1>7 DEF VerifyCommittee
<1> QED
  BY <1>8 DEF signatures

(* The keys with a signature over the frame in a list of signatures. *)
Signers(frame, signatures) ==
  {signatures[i].key : i \in {i \in DOMAIN signatures : signatures[i].message = frame}}

(* The signer mask has at most one bit for every key that signed the       *)
(* message: signing twice, or over something else, counts for nothing.      *)
THEOREM QuorumNeedsKeys ==
  ASSUME NEW members, NEW threshold \in Nat, NEW message, NEW signatures, NEW n \in Nat,
         DOMAIN signatures = 1 .. n,
         VerifyCommittee(members, threshold, message, signatures)
  PROVE  Cardinality(Signers(message, signatures)) >= threshold
<1> DEFINE over == {i \in DOMAIN signatures : signatures[i].message = message}
           counted == {i \in DOMAIN signatures : Counts(members, message, signatures[i])}
           keys == {signatures[i].key : i \in over}
           countedKeys == {signatures[i].key : i \in counted}
           mask == SignerMask(members, message, signatures)
           key == [i \in over |-> signatures[i].key]
           index == [k \in countedKeys |-> IndexOf(members, k)]
<1>1. IsFiniteSet(over)
  BY FS_Interval, FS_Subset
<1>2. counted \subseteq over
  BY DEF Counts
<1>3. IsFiniteSet(keys)
  <2>1. key \in Surjection(over, keys)
    BY DEF Surjection
  <2> QED
    BY <1>1, <2>1, FS_Surjection
<1>4. IsFiniteSet(countedKeys) /\ Cardinality(countedKeys) <= Cardinality(keys)
  <2>1. countedKeys \subseteq keys
    BY <1>2
  <2> QED
    BY <1>3, <2>1, FS_Subset
<1>5. IsFiniteSet(mask) /\ Cardinality(mask) <= Cardinality(countedKeys)
  <2>1. mask = {IndexOf(members, k) : k \in countedKeys}
    BY DEF SignerMask
  <2>2. index \in Surjection(countedKeys, mask)
    BY <2>1 DEF Surjection
  <2> QED
    BY <1>4, <2>2, FS_Surjection
<1>6. Cardinality(mask) >= threshold
  BY DEF VerifyCommittee
<1>7. Cardinality(mask) \in Nat /\ Cardinality(countedKeys) \in Nat /\ Cardinality(keys) \in Nat
  BY <1>3, <1>4, <1>5, FS_CardinalityType
<1> HIDE DEF mask, countedKeys, keys
<1>8. Cardinality(keys) >= threshold
  BY <1>4, <1>5, <1>6, <1>7
<1> QED
  BY <1>8 DEF keys, Signers

(***************************************************************************)
(* The engine, the network and the chain.                                   *)
(***************************************************************************)

MemberKeys == UNION {{c.members[i] : i \in DOMAIN c.members} : c \in Committees}

Frames == [epoch : Nat, orders : SUBSET Blobs]

Engines ==
  [up : BOOLEAN, epoch : Nat, running : BOOLEAN, max_ticks : SUBSET Nat,
   count : Nat, sealed : SUBSET SUBSET Blobs, batch : SUBSET Frames]

Histories ==
  [life : Nat, since : Nat, sole : BOOLEAN,
   signed : SUBSET [life : Nat, frame : Frames], fetches : [Blobs -> Nat]]

Chains ==
  [last_epoch : Nat, settled : Seq([frame : Frames, signers : SUBSET MemberKeys])]

Typed ==
  /\ committee \in Committees
  /\ engine \in Engines
  /\ network \subseteq Frames
  /\ chain \in Chains
  /\ history \in Histories

(* The steps of the engine's loop: what each step leaves alone. *)
EngineStep ==
  \/ \E last_settled_epoch \in 0 .. chain.last_epoch : Start(last_settled_epoch)
  \/ Crash
  \/ \E max_ticks \in MaxTicks : StartRun(max_ticks)
  \/ \E sealed \in SUBSET Blobs : Fetch(sealed)
  \/ FetchFails \/ EpochFails \/ EmptyEpoch \/ SignBatch
  \/ Delivered \/ DeliveredUnanswered \/ DeliveryFails

LEMMA CommitteeIsValid ==
  ASSUME Typed
  PROVE  /\ committee.threshold \in Nat
         /\ Len(committee.members) \in Nat
         /\ DOMAIN committee.members = 1 .. Len(committee.members)
         /\ ValidCommittee(committee.members, committee.threshold)
BY AuctionAssumption, CommitteeAssumption DEF Typed, ValidCommittee

-----------------------------------------------------------------------------
(* Typing. *)

LEMMA TypedInit == Init => Typed
BY DEF Init, Typed, Engines, Histories, Chains, Down, Frames

LEMMA RunFailedTyped ==
  ASSUME engine \in Engines
  PROVE  RunFailed \in Engines
BY DEF RunFailed, Engines

LEMMA TickDoneTyped ==
  ASSUME engine \in Engines
  PROVE  TickDone \in Engines
<1>1. engine.count + 1 \in Nat
  BY DEF Engines
<1>2. PICK b \in BOOLEAN : TickDone = [engine EXCEPT !.sealed = {}, !.batch = {}, !.count = @ + 1,
                                                    !.running = b]
  BY Zenon DEF TickDone
<1> QED
  BY <1>1, <1>2 DEF Engines

LEMMA EngineKeepsTypes ==
  ASSUME Typed, EngineStep
  PROVE  Typed' /\ UNCHANGED <<committee, chain>>
<1>1. /\ engine \in Engines /\ history \in Histories
      /\ network \subseteq Frames /\ engine.batch \subseteq Frames
      /\ engine.epoch \in Nat
  BY DEF Typed, Engines
<1>2. RunFailed \in Engines /\ TickDone \in Engines
  BY <1>1, RunFailedTyped, TickDoneTyped
<1> SUFFICES /\ engine' \in Engines /\ history' \in Histories /\ network' \subseteq Frames
             /\ UNCHANGED <<committee, chain>>
  BY DEF Typed
<1>3. ASSUME NEW e \in 0 .. chain.last_epoch, Start(e)
      PROVE  /\ engine' \in Engines /\ history' \in Histories /\ network' \subseteq Frames
             /\ UNCHANGED <<committee, chain>>
  <2>1. e \in Nat /\ Len(chain.settled) \in Nat /\ history.life + 1 \in Nat
    BY DEF Typed, Chains, Histories
  <2>2. engine' \in Engines
    BY <1>3, <2>1 DEF Start, Down, Engines
  <2>3. PICK b \in BOOLEAN :
          history' = [history EXCEPT !.life = @ + 1, !.since = Len(chain.settled), !.sole = b]
    BY <1>3 DEF Start
  <2>4. history' \in Histories
    BY <1>1, <2>1, <2>3 DEF Histories
  <2> QED
    BY <1>1, <1>3, <2>2, <2>4 DEF Start
<1>4. CASE Crash
  BY <1>1, <1>4 DEF Crash, Down, Engines
<1>5. ASSUME NEW max_ticks \in MaxTicks, StartRun(max_ticks)
      PROVE  /\ engine' \in Engines /\ history' \in Histories /\ network' \subseteq Frames
             /\ UNCHANGED <<committee, chain>>
  <2>1. max_ticks \in SUBSET Nat
    BY AuctionAssumption
  <2> QED
    BY <1>1, <1>5, <2>1 DEF StartRun, Engines
<1>6. ASSUME NEW sealed \in SUBSET Blobs, Fetch(sealed)
      PROVE  /\ engine' \in Engines /\ history' \in Histories /\ network' \subseteq Frames
             /\ UNCHANGED <<committee, chain>>
  <2>1. engine' \in Engines
    BY <1>1, <1>6 DEF Fetch, Engines
  <2>2. history' \in Histories
    BY <1>1, <1>6 DEF Fetch, Histories
  <2> QED
    BY <1>1, <1>6, <2>1, <2>2 DEF Fetch
<1>7. CASE FetchFails
  BY <1>1, <1>2, <1>7 DEF FetchFails
<1>8. CASE EpochFails
  <2>1. engine' \in Engines
    <3> HIDE DEF RunFailed
    <3> QED
      BY <1>1, <1>2, <1>8 DEF EpochFails, Engines
  <2> QED
    BY <1>1, <1>8, <2>1 DEF EpochFails
<1>9. CASE EmptyEpoch
  <2>1. engine' \in Engines
    BY <1>1, <1>2, <1>9 DEF EmptyEpoch, Engines
  <2> QED
    BY <1>1, <1>9, <2>1 DEF EmptyEpoch
<1>10. CASE SignBatch
  <2> DEFINE frame(sealed) == [epoch |-> TickEpoch, orders |-> sealed]
  <2>1. PICK sealed \in engine.sealed :
          /\ engine' = [engine EXCEPT !.epoch = @ + 1, !.sealed = {}, !.batch = {frame(sealed)}]
          /\ history' = [history EXCEPT !.signed =
                           @ \cup {[life |-> history.life, frame |-> frame(sealed)]}]
          /\ UNCHANGED <<committee, network, chain>>
    BY <1>10 DEF SignBatch
  <2>2. frame(sealed) \in Frames
    BY <1>1 DEF TickEpoch, Engines, Frames
  <2> HIDE DEF frame
  <2>3. {frame(sealed)} \in SUBSET Frames /\ engine.epoch + 1 \in Nat
    BY <1>1, <2>2
  <2>4. engine' \in Engines
    BY <1>1, <2>1, <2>3 DEF Engines
  <2>5. history' \in Histories
    BY <1>1, <2>1, <2>2 DEF Histories
  <2> QED
    BY <1>1, <2>1, <2>4, <2>5
<1>11. CASE Delivered
  BY <1>1, <1>2, <1>11 DEF Delivered, Broadcast
<1>12. CASE DeliveredUnanswered
  BY <1>1, <1>2, <1>12 DEF DeliveredUnanswered, Broadcast
<1>13. CASE DeliveryFails
  BY <1>1, <1>2, <1>13 DEF DeliveryFails
<1> QED
  BY <1>3, <1>4, <1>5, <1>6, <1>7, <1>8, <1>9, <1>10, <1>11, <1>12, <1>13 DEF EngineStep

(* What every settled batch leaves behind, whoever submits it. *)
LEMMA SettlingAppends ==
  ASSUME chain \in Chains, NEW frame \in Frames, NEW signers \in SUBSET MemberKeys,
         FreshEpoch(frame.epoch), Settled(frame, signers)
  PROVE  /\ chain' \in Chains
         /\ Len(chain'.settled) = Len(chain.settled) + 1
         /\ \A i \in DOMAIN chain.settled : chain'.settled[i] = chain.settled[i]
         /\ chain'.settled[Len(chain.settled) + 1] = [frame |-> frame, signers |-> signers]
         /\ chain'.last_epoch = frame.epoch
         /\ frame.epoch > chain.last_epoch
<1> DEFINE batch == [frame |-> frame, signers |-> signers]
<1>1. chain'.settled = Append(chain.settled, batch) /\ chain'.last_epoch = frame.epoch
  BY DEF Settled
<1>2. chain' \in Chains
  BY DEF Settled, Chains, Frames
<1>3. chain.settled \in Seq([frame : Frames, signers : SUBSET MemberKeys])
  BY DEF Chains
<1>4. batch \in [frame : Frames, signers : SUBSET MemberKeys]
  OBVIOUS
<1> HIDE DEF batch
<1>5. /\ Len(chain'.settled) = Len(chain.settled) + 1
      /\ \A i \in DOMAIN chain.settled : chain'.settled[i] = chain.settled[i]
      /\ chain'.settled[Len(chain.settled) + 1] = batch
  BY <1>1, <1>3, <1>4
<1> QED
  BY <1>1, <1>2, <1>5 DEF batch, FreshEpoch

LEMMA SignersAreMembers ==
  ASSUME Typed, NEW frame, NEW signatures \in SignatureLists
  PROVE  Signers(frame, signatures) \in SUBSET MemberKeys
<1>1. /\ committee \in Committees /\ committee.threshold \in Nat
      /\ \A i \in 1 .. committee.threshold : i \in DOMAIN committee.members
  BY CommitteeIsValid DEF Typed, ValidCommittee
<1>2. \A s \in SeenSignatures : s.key \in MemberKeys
  <2>1. \A f \in network, i \in 1 .. committee.threshold :
          SignaturesOf(f)[i] = [key |-> committee.members[i], message |-> f]
    BY <1>1 DEF SignaturesOf, SignThreshold, SignWith, ThresholdIndices
  <2>2. \A i \in 1 .. committee.threshold : committee.members[i] \in MemberKeys
    BY <1>1 DEF MemberKeys
  <2> SUFFICES ASSUME NEW s \in SeenSignatures
               PROVE  s.key \in MemberKeys
    OBVIOUS
  <2>3. PICK f \in network, i \in 1 .. committee.threshold : s = SignaturesOf(f)[i]
    BY DEF SeenSignatures
  <2>4. s = [key |-> committee.members[i], message |-> f]
    BY <2>1, <2>3
  <2>5. s.key = committee.members[i]
    BY <2>4
  <2> QED
    BY <2>2, <2>5
<1>3. \A i \in DOMAIN signatures : signatures[i] \in SeenSignatures
  BY DEF SignatureLists
<1> QED
  BY <1>2, <1>3 DEF Signers

(* A step of Spec is a step of the engine, a settlement, a loss or nothing. *)
LEMMA Steps ==
  ASSUME [Next]_vars
  PROVE  \/ EngineStep
         \/ \E frame \in network, signatures \in SignatureLists : SubmitBatch(frame, signatures)
         \/ \E epoch \in 1 .. MaxEpoch : SubmitBatchTrusted(epoch)
         \/ \E frame \in network : LoseFrame(frame)
         \/ UNCHANGED vars
BY DEF Next, EngineStep

LEMMA TypedStep == Typed /\ [Next]_vars => Typed'
<1> SUFFICES ASSUME Typed, [Next]_vars
             PROVE  Typed'
  OBVIOUS
<1>1. CASE EngineStep
  BY <1>1, EngineKeepsTypes
<1>2. ASSUME NEW frame \in network, NEW signatures \in SignatureLists,
             SubmitBatch(frame, signatures)
      PROVE  Typed'
  <2> DEFINE signers == Signers(frame, signatures)
  <2>1. signers \in SUBSET MemberKeys /\ frame \in Frames /\ chain \in Chains
    BY SignersAreMembers DEF Typed
  <2>2. FreshEpoch(frame.epoch) /\ Settled(frame, signers)
    BY <1>2 DEF SubmitBatch, Signers
  <2> HIDE DEF signers
  <2>3. chain' \in Chains
    BY <2>1, <2>2, SettlingAppends
  <2> QED
    BY <1>2, <2>3 DEF SubmitBatch, Typed
<1>3. ASSUME NEW epoch \in 1 .. MaxEpoch, SubmitBatchTrusted(epoch)
      PROVE  Typed'
  <2> DEFINE frame == [epoch |-> epoch, orders |-> {}]
  <2>1. frame \in Frames /\ {} \in SUBSET MemberKeys /\ chain \in Chains
    BY AuctionAssumption DEF Frames, Typed
  <2>2. FreshEpoch(frame.epoch) /\ Settled(frame, {})
    BY <1>3 DEF SubmitBatchTrusted
  <2> HIDE DEF frame
  <2>3. chain' \in Chains
    BY <2>1, <2>2, SettlingAppends
  <2>4. history' \in Histories
    BY <1>3 DEF SubmitBatchTrusted, Typed, Histories
  <2> QED
    BY <1>3, <2>3, <2>4 DEF SubmitBatchTrusted, Typed
<1>4. ASSUME NEW frame \in network, LoseFrame(frame)
      PROVE  Typed'
  BY <1>4 DEF LoseFrame, Typed
<1>5. CASE UNCHANGED vars
  BY <1>5 DEF vars, Typed
<1> QED
  BY <1>1, <1>2, <1>3, <1>4, <1>5, Steps

LEMMA AlwaysTyped == Spec => []Typed
BY TypedInit, TypedStep, PTL DEF Spec

-----------------------------------------------------------------------------
(* TypeOK.  A running engine has ticks left, and a tick that has fetched    *)
(* has an epoch left; frames stay within the bound.                         *)

InLoop(e) ==
  /\ e.sealed = {} \/ e.batch = {}
  /\ e.sealed \cup e.batch # {} => e.running
  /\ e.running => e.up
  /\ e.running => \A m \in e.max_ticks : e.count < m \/ e.count = 0
  /\ \A m \in e.max_ticks : e.count <= m \/ e.count = 1

InBounds ==
  /\ engine.epoch <= MaxEpoch
  /\ engine.sealed # {} => engine.epoch < MaxEpoch
  /\ \A frame \in network \cup engine.batch : frame.epoch <= MaxEpoch
  /\ chain.last_epoch <= MaxEpoch

Placed == InLoop(engine) /\ InBounds

LEMMA PlacedInit == Init => Placed
BY AuctionAssumption DEF Init, Placed, InLoop, InBounds, Down

(* The steps of a run that neither fetch nor sign. *)
Quiet ==
  /\ engine.up /\ engine'.up
  /\ engine'.epoch \in {engine.epoch, engine.epoch + 1}
  /\ engine'.epoch # engine.epoch => engine.sealed # {}
  /\ engine'.sealed = {} /\ engine'.batch = {}
  /\ history' = history
  /\ network \subseteq network' /\ network' \subseteq network \cup engine.batch

LEMMA RunFailedQuiet ==
  ASSUME engine \in Engines
  PROVE  /\ RunFailed.up = engine.up /\ RunFailed.epoch = engine.epoch /\ ~RunFailed.running
         /\ RunFailed.sealed = {} /\ RunFailed.batch = {}
         /\ RunFailed.count = engine.count /\ RunFailed.max_ticks = engine.max_ticks
BY DEF RunFailed, Engines

LEMMA TickDoneQuiet ==
  ASSUME engine \in Engines
  PROVE  /\ TickDone.up = engine.up /\ TickDone.epoch = engine.epoch
         /\ TickDone.running <=> ~IsLastTick
         /\ TickDone.sealed = {} /\ TickDone.batch = {}
         /\ TickDone.count = engine.count + 1 /\ TickDone.max_ticks = engine.max_ticks
<1>1. PICK b \in BOOLEAN : /\ TickDone = [engine EXCEPT !.sealed = {}, !.batch = {}, !.count = @ + 1,
                                                       !.running = b]
                           /\ b <=> ~IsLastTick
  BY Zenon DEF TickDone
<1> QED
  BY <1>1 DEF Engines

(* A failed run and a finished tick leave the loop, or begin its next tick. *)
LEMMA LoopLeft ==
  ASSUME engine \in Engines, InLoop(engine), engine.running
  PROVE  /\ InLoop(RunFailed) /\ InLoop(TickDone)
         /\ \A n \in Nat : /\ InLoop([RunFailed EXCEPT !.epoch = n])
                           /\ InLoop([TickDone EXCEPT !.epoch = n])
<1>1. engine.count \in Nat /\ engine.max_ticks \in SUBSET Nat
  BY DEF Engines
<1>2. InLoop(RunFailed)
  BY <1>1, RunFailedQuiet DEF InLoop
<1>3. InLoop(TickDone)
  BY <1>1, TickDoneQuiet DEF InLoop, IsLastTick
<1>4. RunFailed \in Engines /\ TickDone \in Engines
  BY RunFailedTyped, TickDoneTyped
<1> QED
  BY <1>2, <1>3, <1>4 DEF InLoop, Engines

LEMMA EngineEffects ==
  ASSUME Typed, Placed, EngineStep
  PROVE  /\ InLoop(engine')
         /\ \/ \E last_settled_epoch \in 0 .. chain.last_epoch : Start(last_settled_epoch)
            \/ Crash
            \/ \E sealed \in SUBSET Blobs : Fetch(sealed)
            \/ SignBatch
            \/ Quiet
<1>1. /\ engine \in Engines /\ InLoop(engine)
      /\ engine.epoch + 1 \in Nat
      /\ RunFailed \in Engines /\ TickDone \in Engines
  BY RunFailedTyped, TickDoneTyped DEF Typed, Placed, Engines
<1>2. ASSUME NEW e \in 0 .. chain.last_epoch, Start(e)
      PROVE  InLoop(engine')
  BY <1>2 DEF Start, Down, InLoop
<1>3. CASE Crash
  <2>1. InLoop(engine')
    BY <1>3 DEF Crash, Down, InLoop
  <2> QED
    BY <1>3, <2>1
<1>4. ASSUME NEW max_ticks \in MaxTicks, StartRun(max_ticks)
      PROVE  InLoop(engine') /\ Quiet
  <2>1. /\ engine.up /\ ~engine.running
        /\ engine' = [engine EXCEPT !.running = TRUE, !.max_ticks = max_ticks, !.count = 0]
        /\ history' = history /\ network' = network
    BY <1>4 DEF StartRun
  <2>2. engine.sealed = {} /\ engine.batch = {}
    BY <1>1, <2>1 DEF InLoop
  <2>3. max_ticks \in SUBSET Nat
    BY AuctionAssumption
  <2> QED
    BY <1>1, <2>1, <2>2, <2>3 DEF InLoop, Quiet, Engines
<1>5. ASSUME NEW sealed \in SUBSET Blobs, Fetch(sealed)
      PROVE  InLoop(engine')
  BY <1>1, <1>5 DEF Fetch, AwaitsFetch, InLoop, Engines
<1>6. CASE FetchFails
  <2>1. engine.running /\ engine' = RunFailed /\ history' = history /\ network' = network
    BY <1>6 DEF FetchFails, AwaitsFetch
  <2> QED
    BY <1>1, <2>1, LoopLeft, RunFailedQuiet DEF InLoop, Quiet
<1>7. CASE EpochFails
  <2>1. /\ engine.sealed # {} /\ engine' = [RunFailed EXCEPT !.epoch = engine.epoch + 1]
        /\ history' = history /\ network' = network
    BY <1>7 DEF EpochFails
  <2>2. engine.running /\ engine.up
    BY <1>1, <2>1 DEF InLoop
  <2>3. InLoop(engine')
    BY <1>1, <2>1, <2>2, LoopLeft
  <2>4. /\ engine'.up = RunFailed.up /\ engine'.epoch = engine.epoch + 1
        /\ engine'.sealed = RunFailed.sealed /\ engine'.batch = RunFailed.batch
    BY <1>1, <2>1 DEF Engines
  <2> QED
    BY <1>1, <2>1, <2>2, <2>3, <2>4, RunFailedQuiet DEF Quiet
<1>8. CASE EmptyEpoch
  <2>1. /\ engine.sealed # {} /\ engine' = [TickDone EXCEPT !.epoch = engine.epoch + 1]
        /\ history' = history /\ network' = network
    BY <1>8 DEF EmptyEpoch
  <2>2. engine.running /\ engine.up
    BY <1>1, <2>1 DEF InLoop
  <2>3. InLoop(engine')
    BY <1>1, <2>1, <2>2, LoopLeft
  <2>4. /\ engine'.up = TickDone.up /\ engine'.epoch = engine.epoch + 1
        /\ engine'.sealed = TickDone.sealed /\ engine'.batch = TickDone.batch
    BY <1>1, <2>1 DEF Engines
  <2> QED
    BY <1>1, <2>1, <2>2, <2>3, <2>4, TickDoneQuiet DEF Quiet
<1>9. CASE SignBatch
  <2>1. PICK sealed, batch :
          /\ sealed \in engine.sealed
          /\ engine' = [engine EXCEPT !.epoch = @ + 1, !.sealed = {}, !.batch = batch]
    BY <1>9 DEF SignBatch
  <2>2. engine.running
    BY <1>1, <2>1 DEF InLoop
  <2>3. InLoop(engine')
    BY <1>1, <2>1, <2>2 DEF InLoop, Engines
  <2> QED
    BY <1>9, <2>3
<1>10. CASE Delivered
  <2>1. /\ engine.batch # {} /\ engine' = TickDone
        /\ history' = history /\ network' = network \cup engine.batch
    BY <1>10 DEF Delivered, AwaitsDelivery, Broadcast
  <2> QED
    BY <1>1, <2>1, LoopLeft, TickDoneQuiet DEF InLoop, Quiet
<1>11. CASE DeliveredUnanswered
  <2>1. /\ engine.batch # {} /\ engine' = RunFailed
        /\ history' = history /\ network' = network \cup engine.batch
    BY <1>11 DEF DeliveredUnanswered, AwaitsDelivery, Broadcast
  <2> QED
    BY <1>1, <2>1, LoopLeft, RunFailedQuiet DEF InLoop, Quiet
<1>12. CASE DeliveryFails
  <2>1. /\ engine.batch # {} /\ engine' = RunFailed
        /\ history' = history /\ network' = network
    BY <1>12 DEF DeliveryFails, AwaitsDelivery
  <2> QED
    BY <1>1, <2>1, LoopLeft, RunFailedQuiet DEF InLoop, Quiet
<1> QED
  BY <1>2, <1>3, <1>4, <1>5, <1>6, <1>7, <1>8, <1>9, <1>10, <1>11, <1>12 DEF EngineStep

(* What a signing tick changes. *)
LEMMA Signing ==
  ASSUME Typed, SignBatch
  PROVE  \E sealed \in engine.sealed, frame \in Frames :
           /\ sealed # {} /\ frame = [epoch |-> engine.epoch + 1, orders |-> sealed]
           /\ engine'.up = engine.up /\ engine'.epoch = engine.epoch + 1
           /\ engine'.sealed = {} /\ engine'.batch = {frame}
           /\ history' = [history EXCEPT !.signed = @ \cup {[life |-> history.life, frame |-> frame]}]
           /\ network' = network
<1>1. PICK sealed \in engine.sealed :
        LET frame == [epoch |-> engine.epoch + 1, orders |-> sealed]
        IN  /\ sealed # {}
            /\ engine' = [engine EXCEPT !.epoch = @ + 1, !.sealed = {}, !.batch = {frame}]
            /\ history' = [history EXCEPT !.signed = @ \cup {[life |-> history.life, frame |-> frame]}]
            /\ network' = network
  BY DEF SignBatch, TickEpoch
<1> DEFINE frame == [epoch |-> engine.epoch + 1, orders |-> sealed]
<1>2. frame \in Frames /\ engine \in Engines
  BY DEF Typed, Engines, Frames
<1>3. /\ engine' = [engine EXCEPT !.epoch = @ + 1, !.sealed = {}, !.batch = {frame}]
      /\ history' = [history EXCEPT !.signed = @ \cup {[life |-> history.life, frame |-> frame]}]
  BY <1>1
<1>4. frame = [epoch |-> engine.epoch + 1, orders |-> sealed]
  OBVIOUS
<1> HIDE DEF frame
<1>5. /\ engine'.up = engine.up /\ engine'.epoch = engine.epoch + 1
      /\ engine'.sealed = {} /\ engine'.batch = {frame}
  BY <1>2, <1>3 DEF Engines
<1> QED
  BY <1>1, <1>2, <1>3, <1>4, <1>5

(* What a settling step changes beside the chain. *)
LEMMA Settling ==
  ASSUME Typed,
         NEW frame \in network, NEW signatures \in SignatureLists, SubmitBatch(frame, signatures)
  PROVE  /\ frame \in Frames
         /\ Signers(frame, signatures) \in SUBSET MemberKeys
         /\ FreshEpoch(frame.epoch)
         /\ Settled(frame, Signers(frame, signatures))
         /\ UNCHANGED <<committee, engine, network, history>>
BY SignersAreMembers DEF SubmitBatch, Signers, Typed

LEMMA TrustedSettling ==
  ASSUME Typed, NEW epoch \in 1 .. MaxEpoch, SubmitBatchTrusted(epoch)
  PROVE  /\ [epoch |-> epoch, orders |-> {}] \in Frames
         /\ FreshEpoch(epoch)
         /\ Settled([epoch |-> epoch, orders |-> {}], {})
         /\ history' = [history EXCEPT !.sole = FALSE]
         /\ UNCHANGED <<committee, engine, network>>
BY AuctionAssumption DEF SubmitBatchTrusted, Frames

LEMMA PlacedStep == Typed /\ Placed /\ [Next]_vars => Placed'
<1> SUFFICES ASSUME Typed, Placed, [Next]_vars
             PROVE  Placed'
  OBVIOUS
<1>1. /\ engine \in Engines /\ chain \in Chains /\ network \subseteq Frames /\ MaxEpoch \in Nat
      /\ engine.epoch \in Nat /\ chain.last_epoch \in Nat /\ engine.batch \subseteq Frames
      /\ \A frame \in Frames : frame.epoch \in Nat
  BY AuctionAssumption DEF Typed, Engines, Chains, Frames
<1>2. CASE EngineStep
  <2>1. InLoop(engine') /\ chain' = chain
    BY <1>2, EngineEffects, EngineKeepsTypes
  <2>2. ASSUME NEW e \in 0 .. chain.last_epoch, Start(e)
        PROVE  InBounds'
    BY <1>1, <2>1, <2>2 DEF Start, Down, Placed, InBounds
  <2>3. CASE Crash
    BY <1>1, <2>1, <2>3, AuctionAssumption DEF Crash, Down, Placed, InBounds
  <2>4. ASSUME NEW sealed \in SUBSET Blobs, Fetch(sealed)
        PROVE  InBounds'
    BY <1>1, <2>1, <2>4 DEF Fetch, Placed, InBounds, Engines
  <2>5. CASE SignBatch
    <3>1. PICK frame \in Frames :
            /\ engine.sealed # {} /\ frame.epoch = engine.epoch + 1
            /\ engine'.epoch = engine.epoch + 1
            /\ engine'.sealed = {} /\ engine'.batch = {frame} /\ network' = network
      BY <2>5, Signing
    <3> QED
      BY <1>1, <2>1, <3>1 DEF Placed, InBounds
  <2>6. CASE Quiet
    BY <1>1, <2>1, <2>6 DEF Quiet, Placed, InBounds
  <2> QED
    BY <1>2, <2>1, <2>2, <2>3, <2>4, <2>5, <2>6, EngineEffects DEF Placed
<1>3. ASSUME NEW frame \in network, NEW signatures \in SignatureLists,
             SubmitBatch(frame, signatures)
      PROVE  Placed'
  <2>1. chain'.last_epoch = frame.epoch /\ engine' = engine /\ network' = network
    BY <1>1, <1>3, Settling, SettlingAppends
  <2> QED
    BY <1>1, <2>1 DEF Placed, InBounds
<1>4. ASSUME NEW epoch \in 1 .. MaxEpoch, SubmitBatchTrusted(epoch)
      PROVE  Placed'
  <2>1. /\ engine' = engine /\ network' = network
        /\ Settled([epoch |-> epoch, orders |-> {}], {})
    BY <1>4, TrustedSettling
  <2>2. chain'.last_epoch = epoch
    BY <2>1 DEF Settled
  <2> QED
    BY <1>1, <2>1, <2>2 DEF Placed, InBounds
<1>5. ASSUME NEW frame \in network, LoseFrame(frame)
      PROVE  Placed'
  BY <1>5 DEF LoseFrame, Placed, InBounds
<1>6. CASE UNCHANGED vars
  BY <1>6 DEF vars, Placed, InBounds
<1> QED
  BY <1>2, <1>3, <1>4, <1>5, <1>6, Steps

LEMMA AlwaysPlaced == Spec => [](Typed /\ Placed)
BY TypedInit, TypedStep, PlacedInit, PlacedStep, PTL DEF Spec

(* The engine is in one place of its loop, only in a run, and a bounded run *)
(* ticks no more often than its bound.                                      *)
THEOREM TypesHold == Spec => []TypeOK
<1>1. Typed /\ Placed => TypeOK
  BY AuctionAssumption DEF Typed, Placed, InLoop, InBounds, TypeOK, Engines, Chains
<1> QED
  BY <1>1, AlwaysPlaced, PTL

-----------------------------------------------------------------------------
(* OneFramePerEpoch.  An engine that is up has passed the epochs it signed, *)
(* and the chain those that it settled.                                     *)

EpochsUsed ==
  /\ \A s \in history.signed :
       /\ s.life <= history.life
       /\ s.life = history.life /\ engine.up => s.frame.epoch <= engine.epoch
  /\ \A i \in DOMAIN chain.settled : chain.settled[i].frame.epoch <= chain.last_epoch

SignedOnce ==
  \A s, t \in history.signed :
    s.life = t.life /\ s.frame.epoch = t.frame.epoch => s = t

SettledOnce ==
  \A i, j \in DOMAIN chain.settled :
    chain.settled[i].frame.epoch = chain.settled[j].frame.epoch => i = j

EpochInv == EpochsUsed /\ SignedOnce /\ SettledOnce

(* A batch settles in an epoch that none before it had. *)
LEMMA SettlingUsesEpoch ==
  ASSUME chain \in Chains, NEW frame \in Frames, NEW signers \in SUBSET MemberKeys,
         FreshEpoch(frame.epoch), Settled(frame, signers),
         \A i \in DOMAIN chain.settled : chain.settled[i].frame.epoch <= chain.last_epoch,
         SettledOnce
  PROVE  /\ \A i \in DOMAIN chain'.settled : chain'.settled[i].frame.epoch <= chain'.last_epoch
         /\ SettledOnce'
<1> DEFINE n == Len(chain.settled)
           Batches == [frame : Frames, signers : SUBSET MemberKeys]
<1>1. /\ \A b \in Batches : b.frame \in Frames
      /\ \A f \in Frames : f.epoch \in Nat
  BY DEF Frames
<1>2. chain.settled \in Seq(Batches) /\ chain.last_epoch \in Nat
  BY DEF Chains
<1>3. /\ chain' \in Chains /\ Len(chain'.settled) = n + 1
      /\ \A i \in DOMAIN chain.settled : chain'.settled[i] = chain.settled[i]
      /\ chain'.settled[n + 1] = [frame |-> frame, signers |-> signers]
      /\ chain'.last_epoch = frame.epoch /\ frame.epoch > chain.last_epoch
  BY SettlingAppends
<1>4. chain'.settled \in Seq(Batches)
  BY <1>3 DEF Chains
<1>5. chain'.settled[n + 1].frame = frame
  BY <1>3
<1> HIDE DEF Batches
<1>6. /\ n \in Nat /\ DOMAIN chain.settled = 1 .. n
      /\ DOMAIN chain'.settled = 1 .. n + 1
      /\ \A i \in 1 .. n : chain.settled[i] \in Batches
  BY <1>2, <1>3, <1>4
<1>7. /\ frame.epoch \in Nat
      /\ \A i \in 1 .. n : /\ chain'.settled[i] = chain.settled[i]
                           /\ chain.settled[i].frame.epoch \in Nat
                           /\ chain.settled[i].frame.epoch < frame.epoch
  BY <1>1, <1>2, <1>3, <1>6
<1> HIDE DEF n
<1>8. \A i \in 1 .. n + 1 : i \in 1 .. n \/ i = n + 1
  BY <1>6
<1>9. \A i \in 1 .. n : /\ chain'.settled[i].frame.epoch \in Nat
                        /\ chain'.settled[i].frame.epoch < frame.epoch
  BY <1>7
<1>10. \A i \in DOMAIN chain'.settled : chain'.settled[i].frame.epoch <= chain'.last_epoch
  <2>1. chain'.last_epoch = frame.epoch
    BY <1>3
  <2> QED
    BY <2>1, <1>5, <1>6, <1>7, <1>8, <1>9
<1>11. ASSUME NEW i \in 1 .. n + 1, NEW j \in 1 .. n + 1,
              chain'.settled[i].frame.epoch = chain'.settled[j].frame.epoch
       PROVE  i = j
  <2>1. CASE i \in 1 .. n /\ j \in 1 .. n
    BY <1>6, <1>7, <1>11, <2>1 DEF SettledOnce
  <2>2. CASE i = n + 1 \/ j = n + 1
    BY <1>5, <1>7, <1>8, <1>9, <1>11, <2>2
  <2> QED
    BY <1>8, <2>1, <2>2
<1> QED
  BY <1>6, <1>10, <1>11 DEF SettledOnce

LEMMA EpochInvStep == Typed /\ Placed /\ EpochInv /\ [Next]_vars => EpochInv'
<1> SUFFICES ASSUME Typed, Placed, EpochInv, [Next]_vars
             PROVE  EpochInv'
  OBVIOUS
<1>1. /\ engine.epoch \in Nat /\ history.life \in Nat /\ engine.up \in BOOLEAN
      /\ chain \in Chains /\ history \in Histories
      /\ \A s \in history.signed : s.life \in Nat /\ s.frame.epoch \in Nat
  BY DEF Typed, Engines, Chains, Histories, Frames
<1>2. CASE EngineStep
  <2>1. chain' = chain
    BY <1>2, EngineKeepsTypes
  <2>2. ASSUME NEW e \in 0 .. chain.last_epoch, Start(e)
        PROVE  EpochInv'
    <3>1. PICK b \in BOOLEAN :
            history' = [history EXCEPT !.life = @ + 1, !.since = Len(chain.settled), !.sole = b]
      BY <2>2 DEF Start
    <3>2. history'.life = history.life + 1 /\ history'.signed = history.signed
      BY <1>1, <3>1 DEF Histories
    <3> QED
      BY <1>1, <2>1, <3>2 DEF EpochInv, EpochsUsed, SignedOnce, SettledOnce
  <2>3. CASE Crash
    BY <1>1, <2>1, <2>3 DEF Crash, Down, EpochInv, EpochsUsed, SignedOnce, SettledOnce
  <2>4. ASSUME NEW sealed \in SUBSET Blobs, Fetch(sealed)
        PROVE  EpochInv'
    <3>1. /\ engine'.epoch = engine.epoch /\ engine'.up = engine.up
          /\ history'.life = history.life /\ history'.signed = history.signed
      BY <1>1, <2>4 DEF Fetch, Typed, Engines, Histories
    <3> QED
      BY <1>1, <2>1, <3>1 DEF EpochInv, EpochsUsed, SignedOnce, SettledOnce
  <2>5. CASE SignBatch
    <3>1. PICK frame \in Frames :
            /\ engine.sealed # {} /\ frame.epoch = engine.epoch + 1
            /\ engine'.epoch = engine.epoch + 1 /\ engine'.up = engine.up
            /\ history' = [history EXCEPT !.signed =
                             @ \cup {[life |-> history.life, frame |-> frame]}]
      BY <2>5, Signing
    <3> DEFINE signed == [life |-> history.life, frame |-> frame]
    <3>2. /\ history'.life = history.life
          /\ history'.signed = history.signed \cup {signed}
          /\ signed.life = history.life /\ signed.frame.epoch = engine.epoch + 1
      BY <1>1, <3>1 DEF Histories
    <3>3. engine.up
      BY <3>1 DEF Placed, InLoop
    <3> HIDE DEF signed
    <3>4. \A s \in history.signed : s.life = history.life => s.frame.epoch < engine.epoch + 1
      BY <1>1, <3>3 DEF EpochInv, EpochsUsed
    <3>5. EpochsUsed'
      BY <1>1, <2>1, <3>1, <3>2, <3>4 DEF EpochInv, EpochsUsed
    <3>6. SignedOnce'
      BY <1>1, <3>2, <3>4 DEF EpochInv, SignedOnce
    <3> QED
      BY <2>1, <3>5, <3>6 DEF EpochInv, SettledOnce
  <2>6. CASE Quiet
    BY <1>1, <2>1, <2>6 DEF Quiet, EpochInv, EpochsUsed, SignedOnce, SettledOnce
  <2> QED
    BY <1>2, <2>2, <2>3, <2>4, <2>5, <2>6, EngineEffects
<1>3. ASSUME NEW frame \in network, NEW signatures \in SignatureLists,
             SubmitBatch(frame, signatures)
      PROVE  EpochInv'
  <2>1. engine' = engine /\ history' = history
    BY <1>3, Settling
  <2>2. /\ \A i \in DOMAIN chain'.settled : chain'.settled[i].frame.epoch <= chain'.last_epoch
        /\ SettledOnce'
    BY <1>1, <1>3, Settling, SettlingUsesEpoch DEF EpochInv, EpochsUsed
  <2> QED
    BY <2>1, <2>2 DEF EpochInv, EpochsUsed, SignedOnce
<1>4. ASSUME NEW epoch \in 1 .. MaxEpoch, SubmitBatchTrusted(epoch)
      PROVE  EpochInv'
  <2>1. engine' = engine /\ history' = [history EXCEPT !.sole = FALSE]
    BY <1>4, TrustedSettling
  <2>2. history'.life = history.life /\ history'.signed = history.signed
    BY <1>1, <2>1 DEF Histories
  <2>3. /\ \A i \in DOMAIN chain'.settled : chain'.settled[i].frame.epoch <= chain'.last_epoch
        /\ SettledOnce'
    <3> DEFINE frame == [epoch |-> epoch, orders |-> {}]
    <3>1. frame \in Frames /\ FreshEpoch(frame.epoch) /\ Settled(frame, {})
      BY <1>4, TrustedSettling
    <3> HIDE DEF frame
    <3>2. {} \in SUBSET MemberKeys
      OBVIOUS
    <3> QED
      BY <1>1, <3>1, <3>2, SettlingUsesEpoch DEF EpochInv, EpochsUsed
  <2> QED
    BY <2>1, <2>2, <2>3 DEF EpochInv, EpochsUsed, SignedOnce
<1>5. ASSUME NEW frame \in network, LoseFrame(frame)
      PROVE  EpochInv'
  BY <1>5 DEF LoseFrame, EpochInv, EpochsUsed, SignedOnce, SettledOnce
<1>6. CASE UNCHANGED vars
  BY <1>6 DEF vars, EpochInv, EpochsUsed, SignedOnce, SettledOnce
<1> QED
  BY <1>2, <1>3, <1>4, <1>5, <1>6, Steps

LEMMA EpochInvHolds == Spec => [](Typed /\ Placed /\ EpochInv)
<1>1. Init => EpochInv
  BY DEF Init, EpochInv, EpochsUsed, SignedOnce, SettledOnce
<1> QED
  BY <1>1, AlwaysPlaced, EpochInvStep, PTL DEF Spec

(* An engine signs one frame at most for every epoch, and the chain settles *)
(* one batch at most for every epoch, whichever engines signed for it.      *)
THEOREM OneFramePerEpochHolds == Spec => []OneFramePerEpoch
<1>1. EpochInv => OneFramePerEpoch
  BY DEF EpochInv, SignedOnce, SettledOnce, OneFramePerEpoch
<1> QED
  BY <1>1, EpochInvHolds, PTL

-----------------------------------------------------------------------------
(* The batches after a settlement: those before, and the new one. *)
LEMMA SettledThen ==
  ASSUME chain \in Chains, NEW frame \in Frames, NEW signers \in SUBSET MemberKeys,
         FreshEpoch(frame.epoch), Settled(frame, signers)
  PROVE  /\ DOMAIN chain.settled = 1 .. Len(chain.settled)
         /\ DOMAIN chain'.settled = 1 .. Len(chain'.settled)
         /\ Len(chain.settled) \in Nat /\ Len(chain'.settled) = Len(chain.settled) + 1
         /\ \A i \in DOMAIN chain'.settled :
              \/ i \in DOMAIN chain.settled /\ chain'.settled[i] = chain.settled[i]
              \/ /\ i = Len(chain.settled) + 1
                 /\ chain'.settled[i].frame = frame /\ chain'.settled[i].signers = signers
<1> DEFINE Batches == [frame : Frames, signers : SUBSET MemberKeys]
<1>1. /\ chain' \in Chains /\ Len(chain'.settled) = Len(chain.settled) + 1
      /\ \A i \in DOMAIN chain.settled : chain'.settled[i] = chain.settled[i]
      /\ chain'.settled[Len(chain.settled) + 1] = [frame |-> frame, signers |-> signers]
  BY SettlingAppends
<1>2. chain.settled \in Seq(Batches)
  BY DEF Chains
<1>3. chain'.settled \in Seq(Batches)
  BY <1>1 DEF Chains
<1>4. /\ chain'.settled[Len(chain.settled) + 1].frame = frame
      /\ chain'.settled[Len(chain.settled) + 1].signers = signers
  BY <1>1
<1> HIDE DEF Batches
<1>5. /\ DOMAIN chain.settled = 1 .. Len(chain.settled)
      /\ DOMAIN chain'.settled = 1 .. Len(chain.settled) + 1
      /\ Len(chain.settled) \in Nat
  BY <1>1, <1>2, <1>3
<1>6. \A i \in DOMAIN chain'.settled : i \in DOMAIN chain.settled \/ i = Len(chain.settled) + 1
  BY <1>5
<1> QED
  BY <1>1, <1>4, <1>5, <1>6

(* SignedMeetsQuorum needs no strengthening: the committee never changes,   *)
(* so that what ThresholdSuffices says of one frame holds of all of them.   *)
THEOREM SignedMeetsQuorumHolds == Spec => []SignedMeetsQuorum
<1>1. Typed => SignedMeetsQuorum
  <2> SUFFICES ASSUME Typed, Distinct(committee.members), NEW s \in history.signed
               PROVE  VerifyCommittee(committee.members, committee.threshold, s.frame,
                                      SignaturesOf(s.frame))
    BY DEF SignedMeetsQuorum
  <2> QED
    BY CommitteeIsValid, ThresholdSuffices DEF SignaturesOf
<1> QED
  BY <1>1, AlwaysTyped, PTL

LEMMA QuorumStep == Typed /\ SettledUnderQuorum /\ [Next]_vars => SettledUnderQuorum'
<1> SUFFICES ASSUME Typed, SettledUnderQuorum, [Next]_vars
             PROVE  SettledUnderQuorum'
  OBVIOUS
<1>1. CASE EngineStep
  BY <1>1, EngineKeepsTypes DEF SettledUnderQuorum
<1>2. ASSUME NEW frame \in network, NEW signatures \in SignatureLists,
             SubmitBatch(frame, signatures)
      PROVE  SettledUnderQuorum'
  <2> DEFINE signers == Signers(frame, signatures)
  <2>1. PICK n \in Nat : DOMAIN signatures = 1 .. n
    <3>1. PICK n \in 0 .. committee.threshold : signatures \in [1 .. n -> SeenSignatures]
      BY DEF SignatureLists
    <3> QED
      BY <3>1, CommitteeIsValid
  <2>2. Cardinality(signers) >= committee.threshold
    <3>1. VerifyCommittee(committee.members, committee.threshold, frame, signatures)
      BY <1>2 DEF SubmitBatch
    <3>2. committee.threshold \in Nat
      BY CommitteeIsValid
    <3> QED
      BY <2>1, <3>1, <3>2, QuorumNeedsKeys
  <2>3. /\ committee' = committee
        /\ chain \in Chains /\ frame \in Frames /\ signers \in SUBSET MemberKeys
        /\ FreshEpoch(frame.epoch) /\ Settled(frame, signers)
    BY <1>2, Settling DEF Typed
  <2> HIDE DEF signers
  <2>4. \A i \in DOMAIN chain'.settled :
          \/ i \in DOMAIN chain.settled /\ chain'.settled[i] = chain.settled[i]
          \/ chain'.settled[i].signers = signers
    BY <2>3, SettledThen
  <2> QED
    BY <2>2, <2>3, <2>4 DEF SettledUnderQuorum
<1>3. ASSUME NEW epoch \in 1 .. MaxEpoch, SubmitBatchTrusted(epoch)
      PROVE  SettledUnderQuorum'
  <2> DEFINE frame == [epoch |-> epoch, orders |-> {}]
  <2>1. /\ committee' = committee
        /\ chain \in Chains /\ frame \in Frames /\ {} \in SUBSET MemberKeys
        /\ FreshEpoch(frame.epoch) /\ Settled(frame, {})
    BY <1>3, TrustedSettling DEF Typed
  <2>2. frame.orders = {}
    OBVIOUS
  <2> HIDE DEF frame
  <2>3. \A i \in DOMAIN chain'.settled :
          \/ i \in DOMAIN chain.settled /\ chain'.settled[i] = chain.settled[i]
          \/ chain'.settled[i].frame = frame
    BY <2>1, SettledThen
  <2> QED
    BY <2>1, <2>2, <2>3 DEF SettledUnderQuorum
<1>4. ASSUME NEW frame \in network, LoseFrame(frame)
      PROVE  SettledUnderQuorum'
  BY <1>4 DEF LoseFrame, SettledUnderQuorum
<1>5. CASE UNCHANGED vars
  BY <1>5 DEF vars, SettledUnderQuorum
<1> QED
  BY <1>1, <1>2, <1>3, <1>4, <1>5, Steps

(* What settles by SubmitBatch has been signed by a threshold of different  *)
(* keys, even when a key is registered twice.                               *)
THEOREM SettledUnderQuorumHolds == Spec => []SettledUnderQuorum
<1>1. Init => SettledUnderQuorum
  BY DEF Init, SettledUnderQuorum
<1> QED
  BY <1>1, AlwaysTyped, QuorumStep, PTL DEF Spec

-----------------------------------------------------------------------------
(* AloneIsFresh.  An engine that is alone is ahead of the chain, and of the *)
(* frames under way; a frame that is no longer fresh was overtaken.         *)

Overtaken(epoch) ==
  \E i \in history.since + 1 .. Len(chain.settled) : chain.settled[i].frame.epoch >= epoch

AloneInv ==
  /\ history.since <= Len(chain.settled)
  /\ history.sole =>
       /\ engine.up => engine.epoch >= chain.last_epoch
       /\ \A frame \in network \cup engine.batch :
            /\ FreshEpoch(frame.epoch) \/ Overtaken(frame.epoch)
            /\ engine.up => frame.epoch <= engine.epoch

(* A settlement refuses only the frames that it overtakes. *)
LEMMA SettlingOvertakes ==
  ASSUME Typed, NEW frame \in Frames, NEW signers \in SUBSET MemberKeys,
         FreshEpoch(frame.epoch), Settled(frame, signers),
         history' = history, history.since <= Len(chain.settled),
         NEW epoch \in Nat, FreshEpoch(epoch) \/ Overtaken(epoch)
  PROVE  FreshEpoch(epoch)' \/ Overtaken(epoch)'
<1> DEFINE n == Len(chain.settled)
<1>1. /\ n \in Nat /\ Len(chain'.settled) = n + 1
      /\ DOMAIN chain.settled = 1 .. n /\ DOMAIN chain'.settled = 1 .. n + 1
      /\ \A i \in 1 .. n : chain'.settled[i] = chain.settled[i]
      /\ chain'.settled[n + 1].frame = frame /\ chain'.last_epoch = frame.epoch
  <2>1. chain \in Chains
    BY DEF Typed
  <2>2. /\ \A i \in DOMAIN chain.settled : chain'.settled[i] = chain.settled[i]
        /\ chain'.settled[n + 1] = [frame |-> frame, signers |-> signers]
        /\ chain'.last_epoch = frame.epoch
    BY <2>1, SettlingAppends
  <2>3. chain'.settled[n + 1].frame = frame
    BY <2>2
  <2> QED
    BY <2>1, <2>2, <2>3, SettledThen
<1>2. frame.epoch \in Nat /\ chain.last_epoch \in Nat /\ history.since \in Nat
  BY DEF Typed, Frames, Chains, Histories
<1> HIDE DEF n
<1>3. CASE epoch > frame.epoch
  BY <1>1, <1>3 DEF FreshEpoch
<1>4. CASE epoch <= frame.epoch
  <2>1. n + 1 \in history.since + 1 .. n + 1
    BY <1>1, <1>2 DEF n
  <2> QED
    BY <1>1, <1>2, <1>4, <2>1 DEF Overtaken
<1> QED
  BY <1>2, <1>3, <1>4

LEMMA AloneStep == Typed /\ Placed /\ AloneInv /\ [Next]_vars => AloneInv'
<1> SUFFICES ASSUME Typed, Placed, AloneInv, [Next]_vars
             PROVE  AloneInv'
  OBVIOUS
<1>1. /\ engine \in Engines /\ chain \in Chains /\ history \in Histories /\ network \subseteq Frames
      /\ engine.epoch \in Nat /\ engine.up \in BOOLEAN /\ engine.batch \subseteq Frames
      /\ chain.last_epoch \in Nat /\ history.since \in Nat /\ Len(chain.settled) \in Nat
      /\ \A frame \in Frames : frame.epoch \in Nat
  BY DEF Typed, Engines, Chains, Histories, Frames
<1>2. CASE EngineStep
  <2>1. chain' = chain
    BY <1>2, EngineKeepsTypes
  <2>2. ASSUME NEW e \in 0 .. chain.last_epoch, Start(e)
        PROVE  AloneInv'
    <3>1. PICK b \in BOOLEAN :
            /\ history' = [history EXCEPT !.life = @ + 1, !.since = Len(chain.settled), !.sole = b]
            /\ b <=> (network = {} /\ e = chain.last_epoch)
      BY Zenon, <2>2 DEF Start
    <3>2. history'.since = Len(chain.settled) /\ history'.sole = b
      BY <1>1, <3>1 DEF Histories
    <3>3. engine'.epoch = e /\ engine'.batch = {} /\ network' = network
      BY <2>2 DEF Start, Down
    <3> QED
      BY <1>1, <2>1, <3>1, <3>2, <3>3 DEF AloneInv
  <2>3. CASE Crash
    BY <1>1, <2>1, <2>3 DEF Crash, Down, AloneInv, FreshEpoch, Overtaken
  <2>4. ASSUME NEW sealed \in SUBSET Blobs, Fetch(sealed)
        PROVE  AloneInv'
    <3>1. /\ engine'.epoch = engine.epoch /\ engine'.up = engine.up
          /\ engine'.batch = engine.batch /\ network' = network
          /\ history'.since = history.since /\ history'.sole = history.sole
      BY <1>1, <2>4 DEF Fetch, Engines, Histories
    <3> QED
      BY <1>1, <2>1, <3>1 DEF AloneInv, FreshEpoch, Overtaken
  <2>5. CASE SignBatch
    <3>1. PICK frame \in Frames :
            /\ engine.sealed # {} /\ frame.epoch = engine.epoch + 1
            /\ engine'.epoch = engine.epoch + 1 /\ engine'.up = engine.up
            /\ engine'.batch = {frame} /\ network' = network
            /\ history' = [history EXCEPT !.signed =
                             @ \cup {[life |-> history.life, frame |-> frame]}]
      BY <2>5, Signing
    <3>2. history'.since = history.since /\ history'.sole = history.sole
      BY <1>1, <3>1 DEF Histories
    <3>3. engine.up
      BY <3>1 DEF Placed, InLoop
    <3>4. history.sole => FreshEpoch(frame.epoch)
      BY <1>1, <3>1, <3>3 DEF AloneInv, FreshEpoch
    <3> QED
      BY <1>1, <2>1, <3>1, <3>2, <3>3, <3>4 DEF AloneInv, FreshEpoch, Overtaken
  <2>6. CASE Quiet
    BY <1>1, <2>1, <2>6 DEF Quiet, AloneInv, FreshEpoch, Overtaken
  <2> QED
    BY <1>2, <2>2, <2>3, <2>4, <2>5, <2>6, EngineEffects
<1>3. ASSUME NEW frame \in network, NEW signatures \in SignatureLists,
             SubmitBatch(frame, signatures)
      PROVE  AloneInv'
  <2>1. PICK signers \in SUBSET MemberKeys :
          /\ frame \in Frames /\ FreshEpoch(frame.epoch) /\ Settled(frame, signers)
          /\ UNCHANGED <<engine, network, history>>
    BY <1>3, Settling
  <2>2. \A f \in network \cup engine.batch :
          FreshEpoch(f.epoch) \/ Overtaken(f.epoch) => FreshEpoch(f.epoch)' \/ Overtaken(f.epoch)'
    BY <1>1, <2>1, SettlingOvertakes DEF AloneInv
  <2>3. Len(chain'.settled) = Len(chain.settled) + 1 /\ chain'.last_epoch = frame.epoch
    BY <1>1, <2>1, SettlingAppends
  <2> QED
    BY <1>1, <2>1, <2>2, <2>3 DEF AloneInv
<1>4. ASSUME NEW epoch \in 1 .. MaxEpoch, SubmitBatchTrusted(epoch)
      PROVE  AloneInv'
  <2>1. history'.since = history.since /\ history'.sole = FALSE
    BY <1>1, <1>4, TrustedSettling DEF Histories
  <2>2. Len(chain'.settled) = Len(chain.settled) + 1
    <3> DEFINE frame == [epoch |-> epoch, orders |-> {}]
    <3>1. frame \in Frames /\ FreshEpoch(frame.epoch) /\ Settled(frame, {})
      BY <1>4, TrustedSettling
    <3> HIDE DEF frame
    <3>2. {} \in SUBSET MemberKeys
      OBVIOUS
    <3> QED
      BY <1>1, <3>1, <3>2, SettlingAppends
  <2> QED
    BY <1>1, <2>1, <2>2 DEF AloneInv
<1>5. ASSUME NEW frame \in network, LoseFrame(frame)
      PROVE  AloneInv'
  BY <1>5 DEF LoseFrame, AloneInv, FreshEpoch, Overtaken
<1>6. CASE UNCHANGED vars
  BY <1>6 DEF vars, AloneInv, FreshEpoch, Overtaken
<1> QED
  BY <1>2, <1>3, <1>4, <1>5, <1>6, Steps

(* An engine that started from the exact last epoch, with nothing under way,*)
(* and that is the only one to settle, has no frame refused but for one of  *)
(* its own later frames.                                                    *)
THEOREM AloneIsFreshHolds == Spec => []AloneIsFresh
<1>1. Init => AloneInv
  BY DEF Init, AloneInv, Down
<1>2. AloneInv => AloneIsFresh
  BY DEF AloneInv, AloneIsFresh, Overtaken
<1> QED
  BY <1>1, <1>2, AlwaysPlaced, AloneStep, PTL DEF Spec

-----------------------------------------------------------------------------
(* SettlesOncePerFetch.  What is under way or settled has been signed; and  *)
(* every fetch of an order is in the hands of the tick, was signed, or was  *)
(* given up.                                                                *)

SignedWith(b) == {s \in history.signed : b \in s.frame.orders}

Pending(b) == IF \E sealed \in engine.sealed : b \in sealed THEN 1 ELSE 0

WasSigned(frame) == \E s \in history.signed : s.frame = frame

FetchInv ==
  /\ \A frame \in network \cup engine.batch : WasSigned(frame)
  /\ \A i \in DOMAIN chain.settled :
       chain.settled[i].frame.orders # {} => WasSigned(chain.settled[i].frame)
  /\ IsFiniteSet(history.signed)
  /\ \A b \in Blobs : Cardinality(SignedWith(b)) + Pending(b) <= history.fetches[b]

(* Giving up what a tick has fetched leaves the count. *)
LEMMA PendingBounds ==
  ASSUME NEW b
  PROVE  /\ Pending(b) \in {0, 1} /\ Pending(b)' \in {0, 1}
         /\ engine.sealed = {} => Pending(b) = 0
         /\ engine'.sealed = {} => Pending(b)' = 0
         /\ engine'.sealed = engine.sealed => Pending(b)' = Pending(b)
BY DEF Pending

LEMMA SignedWithIsFinite ==
  ASSUME FetchInv, NEW b
  PROVE  IsFiniteSet(SignedWith(b)) /\ Cardinality(SignedWith(b)) \in Nat
<1>1. IsFiniteSet(SignedWith(b))
  BY FS_Subset DEF FetchInv, SignedWith
<1> QED
  BY <1>1, FS_CardinalityType

LEMMA FetchStep == Typed /\ Placed /\ FetchInv /\ [Next]_vars => FetchInv'
<1> SUFFICES ASSUME Typed, Placed, FetchInv, [Next]_vars
             PROVE  FetchInv'
  OBVIOUS
<1>1. /\ engine \in Engines /\ chain \in Chains /\ history \in Histories
      /\ \A b \in Blobs : /\ history.fetches[b] \in Nat
                          /\ Cardinality(SignedWith(b)) \in Nat
                          /\ Pending(b) \in {0, 1} /\ Pending(b)' \in {0, 1}
                          /\ Cardinality(SignedWith(b)) + Pending(b) <= history.fetches[b]
  BY SignedWithIsFinite, PendingBounds DEF Typed, Histories, FetchInv
<1>2. ASSUME history'.signed = history.signed, history'.fetches = history.fetches,
             \/ engine'.sealed = {}
             \/ engine'.sealed = engine.sealed
      PROVE  /\ IsFiniteSet(history'.signed)
             /\ \A b \in Blobs : Cardinality(SignedWith(b)') + Pending(b)' <= history'.fetches[b]
             /\ \A frame : WasSigned(frame) => WasSigned(frame)'
  <2>1. \A b : SignedWith(b)' = SignedWith(b)
    BY <1>2 DEF SignedWith
  <2>2. \A b : Pending(b)' = 0 \/ Pending(b)' = Pending(b)
    BY <1>2, PendingBounds
  <2>3. \A b \in Blobs : Cardinality(SignedWith(b)') + Pending(b)' <= history'.fetches[b]
    BY <1>1, <1>2, <2>1, <2>2
  <2> QED
    BY <1>2, <2>3 DEF FetchInv, WasSigned
<1>3. CASE EngineStep
  <2>1. chain' = chain
    BY <1>3, EngineKeepsTypes
  <2>2. ASSUME NEW e \in 0 .. chain.last_epoch, Start(e)
        PROVE  FetchInv'
    <3>1. PICK b \in BOOLEAN :
            history' = [history EXCEPT !.life = @ + 1, !.since = Len(chain.settled), !.sole = b]
      BY <2>2 DEF Start
    <3>2. history'.signed = history.signed /\ history'.fetches = history.fetches
      BY <1>1, <3>1 DEF Histories
    <3>3. engine'.sealed = {} /\ engine'.batch = {} /\ network' = network
      BY <2>2 DEF Start, Down
    <3> QED
      BY <1>2, <2>1, <3>2, <3>3 DEF FetchInv
  <2>3. CASE Crash
    <3>1. /\ engine'.sealed = {} /\ engine'.batch = {}
          /\ network' = network /\ history' = history
      BY <2>3 DEF Crash, Down
    <3> QED
      BY <1>2, <2>1, <3>1 DEF FetchInv
  <2>4. ASSUME NEW sealed \in SUBSET Blobs, Fetch(sealed)
        PROVE  FetchInv'
    <3>1. /\ engine.sealed = {} /\ engine'.sealed = {sealed}
          /\ engine'.batch = engine.batch /\ network' = network
          /\ history'.signed = history.signed
          /\ history'.fetches =
               [b \in Blobs |-> IF b \in sealed THEN history.fetches[b] + 1 ELSE history.fetches[b]]
      BY <1>1, <2>4 DEF Fetch, AwaitsFetch, Engines, Histories
    <3>2. \A b : SignedWith(b)' = SignedWith(b)
      BY <3>1 DEF SignedWith
    <3>3. \A b : Pending(b) = 0 /\ Pending(b)' = IF b \in sealed THEN 1 ELSE 0
      BY <3>1 DEF Pending
    <3>4. \A b \in Blobs : Cardinality(SignedWith(b)') + Pending(b)' <= history'.fetches[b]
      BY <1>1, <3>1, <3>2, <3>3
    <3> QED
      BY <2>1, <3>1, <3>4 DEF FetchInv, WasSigned
  <2>5. CASE SignBatch
    <3>1. PICK sealed \in engine.sealed, frame \in Frames :
            /\ frame = [epoch |-> engine.epoch + 1, orders |-> sealed]
            /\ engine'.sealed = {} /\ engine'.batch = {frame} /\ network' = network
            /\ history' = [history EXCEPT !.signed =
                             @ \cup {[life |-> history.life, frame |-> frame]}]
      BY <2>5, Signing
    <3> DEFINE signed == [life |-> history.life, frame |-> frame]
    <3>2. /\ history'.signed = history.signed \cup {signed}
          /\ history'.fetches = history.fetches
          /\ signed.frame = frame /\ frame.orders = sealed
      BY <1>1, <3>1 DEF Histories
    <3> HIDE DEF signed
    <3>3. ASSUME NEW b \in Blobs
          PROVE  Cardinality(SignedWith(b)') + Pending(b)' <= history'.fetches[b]
      <4>1. Pending(b)' = 0
        BY <3>1, PendingBounds
      <4>2. CASE b \in sealed
        <5>1. SignedWith(b)' = SignedWith(b) \cup {signed}
          BY <3>2, <4>2 DEF SignedWith
        <5>2. /\ Cardinality(SignedWith(b) \cup {signed}) \in Nat
              /\ Cardinality(SignedWith(b) \cup {signed}) <= Cardinality(SignedWith(b)) + 1
          <6>1. IsFiniteSet(SignedWith(b)) /\ Cardinality(SignedWith(b)) \in Nat
            BY SignedWithIsFinite
          <6>2. Cardinality(SignedWith(b) \cup {signed}) =
                  IF signed \in SignedWith(b) THEN Cardinality(SignedWith(b))
                                              ELSE Cardinality(SignedWith(b)) + 1
            BY <6>1, FS_AddElement, Zenon
          <6> QED
            BY <6>1, <6>2
        <5>3. Pending(b) = 1
          BY <3>1, <4>2 DEF Pending
        <5> QED
          BY <1>1, <3>2, <4>1, <5>1, <5>2, <5>3
      <4>3. CASE b \notin sealed
        <5>1. SignedWith(b)' = SignedWith(b)
          BY <3>2, <4>3 DEF SignedWith
        <5> QED
          BY <1>1, <3>2, <4>1, <5>1
      <4> QED
        BY <4>2, <4>3
    <3>4. IsFiniteSet(history'.signed)
      BY <3>2, FS_AddElement DEF FetchInv
    <3>5. \A f : WasSigned(f) => WasSigned(f)'
      BY <3>2 DEF WasSigned
    <3>6. WasSigned(frame)'
      BY <3>2 DEF WasSigned
    <3> QED
      BY <2>1, <3>1, <3>3, <3>4, <3>5, <3>6 DEF FetchInv
  <2>6. CASE Quiet
    <3>1. /\ engine'.sealed = {} /\ engine'.batch = {} /\ history' = history
          /\ network' \subseteq network \cup engine.batch
      BY <2>6 DEF Quiet
    <3> QED
      BY <1>2, <2>1, <3>1 DEF FetchInv
  <2> QED
    BY <1>3, <2>2, <2>3, <2>4, <2>5, <2>6, EngineEffects
<1>4. ASSUME NEW frame \in network, NEW signatures \in SignatureLists,
             SubmitBatch(frame, signatures)
      PROVE  FetchInv'
  <2>1. PICK signers \in SUBSET MemberKeys :
          /\ frame \in Frames /\ FreshEpoch(frame.epoch) /\ Settled(frame, signers)
          /\ UNCHANGED <<engine, network, history>>
    BY <1>4, Settling
  <2>2. \A i \in DOMAIN chain'.settled :
          \/ i \in DOMAIN chain.settled /\ chain'.settled[i] = chain.settled[i]
          \/ chain'.settled[i].frame = frame
    BY <1>1, <2>1, SettledThen
  <2> QED
    BY <1>2, <2>1, <2>2 DEF FetchInv
<1>5. ASSUME NEW epoch \in 1 .. MaxEpoch, SubmitBatchTrusted(epoch)
      PROVE  FetchInv'
  <2> DEFINE frame == [epoch |-> epoch, orders |-> {}]
  <2>1. /\ frame \in Frames /\ {} \in SUBSET MemberKeys
        /\ FreshEpoch(frame.epoch) /\ Settled(frame, {})
        /\ history' = [history EXCEPT !.sole = FALSE] /\ UNCHANGED <<engine, network>>
    BY <1>5, TrustedSettling
  <2>2. frame.orders = {}
    OBVIOUS
  <2> HIDE DEF frame
  <2>3. \A i \in DOMAIN chain'.settled :
          \/ i \in DOMAIN chain.settled /\ chain'.settled[i] = chain.settled[i]
          \/ chain'.settled[i].frame = frame
    BY <1>1, <2>1, SettledThen
  <2>4. history'.signed = history.signed /\ history'.fetches = history.fetches
    BY <1>1, <2>1 DEF Histories
  <2> QED
    BY <1>2, <2>1, <2>2, <2>3, <2>4 DEF FetchInv
<1>6. ASSUME NEW frame \in network, LoseFrame(frame)
      PROVE  FetchInv'
  <2>1. network' \subseteq network /\ UNCHANGED <<engine, chain, history>>
    BY <1>6 DEF LoseFrame
  <2> QED
    BY <1>2, <2>1 DEF FetchInv
<1>7. CASE UNCHANGED vars
  <2>1. UNCHANGED <<engine, network, chain, history>>
    BY <1>7 DEF vars
  <2> QED
    BY <1>2, <2>1 DEF FetchInv
<1> QED
  BY <1>3, <1>4, <1>5, <1>6, <1>7, Steps

(* Settled batches have different epochs, and so were signed apart. *)
LEMMA SettledWereSigned ==
  ASSUME Typed, EpochInv, FetchInv, NEW b \in Blobs
  PROVE  Cardinality(SettledWith(b)) <= history.fetches[b]
<1> DEFINE frame(i) == chain.settled[i].frame
           signing == [i \in SettledWith(b) |->
                         CHOOSE s \in history.signed : s.frame = frame(i)]
<1>1. ASSUME NEW i \in SettledWith(b)
      PROVE  signing[i] \in SignedWith(b) /\ signing[i].frame = frame(i)
  <2>1. i \in DOMAIN chain.settled /\ b \in frame(i).orders
    BY DEF SettledWith
  <2>2. \E s \in history.signed : s.frame = frame(i)
    BY <2>1 DEF FetchInv, WasSigned
  <2>3. signing[i] \in history.signed /\ signing[i].frame = frame(i)
    BY <2>2
  <2> HIDE DEF signing
  <2> QED
    BY <2>1, <2>3 DEF SignedWith
<1>2. signing \in [SettledWith(b) -> SignedWith(b)]
  BY <1>1
<1>3. ASSUME NEW i \in SettledWith(b), NEW j \in SettledWith(b), signing[i] = signing[j]
      PROVE  i = j
  <2>1. frame(i) = frame(j)
    BY <1>1, <1>3
  <2> QED
    BY <2>1 DEF EpochInv, SettledOnce, SettledWith
<1> HIDE DEF signing
<1>4. signing \in Injection(SettledWith(b), SignedWith(b))
  BY <1>2, <1>3 DEF Injection, IsInjective
<1>5. /\ IsFiniteSet(SettledWith(b))
      /\ Cardinality(SettledWith(b)) <= Cardinality(SignedWith(b))
  BY <1>4, SignedWithIsFinite, FS_Injection
<1>6. /\ Cardinality(SettledWith(b)) \in Nat /\ Cardinality(SignedWith(b)) \in Nat
      /\ Pending(b) \in {0, 1} /\ history.fetches[b] \in Nat
      /\ Cardinality(SignedWith(b)) + Pending(b) <= history.fetches[b]
  BY <1>5, SignedWithIsFinite, PendingBounds, FS_CardinalityType DEF Typed, Histories, FetchInv
<1> QED
  BY <1>5, <1>6

(* However often the engine is restarted, its run fails or its frames land, *)
(* an order settles in at most as many batches as it was fetched for.       *)
THEOREM SettlesOncePerFetchHolds == Spec => []SettlesOncePerFetch
<1>1. Init => FetchInv
  <2> SUFFICES ASSUME Init
               PROVE  FetchInv
    OBVIOUS
  <2>1. \A b \in Blobs : SignedWith(b) = {} /\ Pending(b) = 0 /\ history.fetches[b] = 0
    BY DEF Init, Down, SignedWith, Pending
  <2>2. IsFiniteSet({}) /\ Cardinality({}) = 0
    BY FS_EmptySet
  <2>3. \A b \in Blobs : Cardinality(SignedWith(b)) + Pending(b) <= history.fetches[b]
    BY <2>1, <2>2
  <2> QED
    BY <2>2, <2>3 DEF Init, Down, FetchInv
<1>2. Typed /\ EpochInv /\ FetchInv => SettlesOncePerFetch
  BY SettledWereSigned DEF SettlesOncePerFetch
<1> QED
  BY <1>1, <1>2, EpochInvHolds, FetchStep, PTL DEF Spec

=============================================================================
