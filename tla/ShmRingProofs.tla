--------------------------- MODULE ShmRingProofs ---------------------------
(***************************************************************************)
(* Safety of the frame ring for every number of slots, consumers, tries,   *)
(* frames and deaths.                                                      *)
(*                                                                         *)
(* The invariants the runs check are not inductive: they say nothing of    *)
(* the producer between its claim and its re-check, nor of a consumer      *)
(* between its load and its verdict.  IInv adds what holds there.          *)
(***************************************************************************)
EXTENDS ShmRing, FiniteSetTheorems, TLAPS

\* The payload of slot s may not change: it is READY, or would be again if
\* the claim the producer is trying out were undone.
Solid(s) == \/ state[s] = READY
            \/ ppc \in {"recheck", "restore"} /\ s = pidx /\ prev = READY

\* WRITING means: handed to the writer, or claimed and not yet re-checked.
WriterInv ==
  /\ \A s \in acquired : state[s] = WRITING
  /\ ppc \in {"scan", "claim", "recheck", "restore"} => published = last_ready
  /\ ppc \in {"claim", "recheck", "restore"} => pidx \notin acquired /\ pidx # last_ready
  /\ ppc = "claim" => state[pidx] = prev
  /\ ppc \in {"recheck", "restore"} => state[pidx] = WRITING
  /\ ppc = "announce" => state[pidx] = READY /\ stamp[pidx] = newest + 1

\* Payloads that may be read are whole.
PayloadInv == \A s \in Slots : Solid(s) => payload[s] = "whole"

\* Frames are numbered in the order they are announced.
StampInv == \A s \in Slots : stamp[s] <= newest \/ (ppc = "announce" /\ s = pidx)

\* The offered slot is READY and carries the newest frame.
OfferedInv == last_ready # LAST_NONE =>
                /\ state[last_ready] = READY
                /\ stamp[last_ready] = newest
                /\ newest > 0

\* What a consumer holds cannot be claimed, let alone written.
HeldInv == \A c \in Consumers : cpc[c] = "held" =>
              /\ Solid(cidx[c])
              /\ stamp[cidx[c]] = got[c]
              /\ got[c] >= since[c]
              /\ got[c] > 0

\* Where a retain call stands against the frames announced since it began.
RetainInv ==
  \A c \in Consumers :
    /\ cpc[c] \in {"stake", "verify", "unstake"} =>
          /\ loaded[c] >= since[c] + tries[c]
          /\ newest >= loaded[c]
          /\ loaded[c] > 0
    /\ cpc[c] \in {"stake", "verify"} =>
          /\ stamp[cidx[c]] >= loaded[c]
          /\ newest = loaded[c] => cidx[c] = last_ready
    /\ cpc[c] = "unstake" => newest > loaded[c]
    /\ cpc[c] = "load" \/ (cpc[c] = "idle" /\ tries[c] > 0) => newest >= since[c] + tries[c]

IInv == /\ TypeOK
        /\ WriterInv
        /\ PayloadInv
        /\ StampInv
        /\ OfferedInv
        /\ HeldInv
        /\ RetainInv
        /\ RefcountExact
-----------------------------------------------------------------------------
(* Facts about the operators                                               *)

\* The scan's next slot is a slot of the ring: acquire_slot never indexes past it.
LEMMA CandidateInSlots ==
  ASSUME TypeOK
  PROVE  Candidate \in Slots
BY RingAssumption DEF TypeOK, Candidate, Slots

\* The stakes on a slot are finitely many, and none means refcount zero.
LEMMA StakesFinite ==
  ASSUME NEW s
  PROVE  /\ IsFiniteSet(Stakes(s))
         /\ Cardinality(Stakes(s)) \in Nat
         /\ Cardinality(Stakes(s)) = 0 <=> Stakes(s) = {}
<1>1. Stakes(s) \in SUBSET Consumers
  BY DEF Stakes
<1>2. IsFiniteSet(Stakes(s))
  BY <1>1, FS_Subset, RingAssumption
<1> QED
  BY <1>2, FS_CardinalityType, FS_EmptySet

\* An action that neither stakes nor gives back leaves the counts exact.
LEMMA StakesKept ==
  ASSUME RefcountExact, refcount' = refcount,
         \A s \in Slots : Stakes(s)' = Stakes(s)
  PROVE  RefcountExact'
BY DEF RefcountExact

\* One consumer stakes, and the refcount of its slot counts it.
LEMMA StakesGained ==
  ASSUME TypeOK, RefcountExact, NEW c \in Consumers,
         cpc[c] \notin {"verify", "unstake", "held"},
         refcount' = [refcount EXCEPT ![cidx[c]] = @ + 1],
         cpc' = [cpc EXCEPT ![c] = "verify"], cidx' = cidx
  PROVE  RefcountExact'
<1> SUFFICES ASSUME NEW s \in Slots PROVE refcount'[s] = Cardinality(Stakes(s)')
  BY DEF RefcountExact
<1>0. refcount[s] = Cardinality(Stakes(s)) /\ refcount[s] \in Nat
  BY DEF RefcountExact, TypeOK
<1>1. CASE s = cidx[c]
  <2>1. Stakes(s)' = Stakes(s) \cup {c} /\ c \notin Stakes(s)
    BY <1>1 DEF Stakes, TypeOK
  <2>2. Cardinality(Stakes(s)') = Cardinality(Stakes(s)) + 1
    BY <2>1, FS_AddElement, StakesFinite
  <2> QED BY <1>0, <1>1, <2>2 DEF TypeOK
<1>2. CASE s # cidx[c]
  <2>1. Stakes(s)' = Stakes(s)
    BY <1>2 DEF Stakes, TypeOK
  <2> QED BY <1>0, <1>2, <2>1 DEF TypeOK
<1> QED BY <1>1, <1>2

\* One consumer gives its stake back, which was counted, so the refcount
\* neither goes below zero nor loses another consumer's stake.
LEMMA StakesLost ==
  ASSUME TypeOK, RefcountExact, NEW c \in Consumers,
         cpc[c] \in {"verify", "unstake", "held"},
         refcount' = [refcount EXCEPT ![cidx[c]] = @ - 1],
         NEW l \in {"load", "idle"},
         cpc' = [cpc EXCEPT ![c] = l], cidx' = cidx
  PROVE  RefcountExact' /\ refcount' \in [Slots -> Nat]
<1>1. ASSUME NEW s \in Slots
      PROVE  refcount'[s] = Cardinality(Stakes(s)') /\ refcount'[s] \in Nat
  <2>0. refcount[s] = Cardinality(Stakes(s)) /\ refcount[s] \in Nat
    BY DEF RefcountExact, TypeOK
  <2>1. CASE s = cidx[c]
    <3>1. Stakes(s)' = Stakes(s) \ {c} /\ c \in Stakes(s)
      BY <2>1 DEF Stakes, TypeOK
    <3>2. Cardinality(Stakes(s)') = Cardinality(Stakes(s)) - 1
      BY <3>1, FS_RemoveElement, StakesFinite
    <3>3. Cardinality(Stakes(s)) # 0
      BY <3>1, StakesFinite
    <3> QED BY <2>0, <2>1, <3>2, <3>3 DEF TypeOK
  <2>2. CASE s # cidx[c]
    <3>1. Stakes(s)' = Stakes(s)
      BY <2>2 DEF Stakes, TypeOK
    <3> QED BY <2>0, <2>2, <3>1 DEF TypeOK
  <2> QED BY <2>1, <2>2
<1>2. refcount' \in [Slots -> Nat]
  BY <1>1 DEF TypeOK
<1> QED BY <1>1, <1>2 DEF RefcountExact

\* A slot whose refcount is zero is held by nobody.
LEMMA ZeroMeansUnheld ==
  ASSUME RefcountExact, NEW s \in Slots, refcount[s] = 0, NEW c \in Consumers, cpc[c] = "held"
  PROVE  cidx[c] # s
BY StakesFinite DEF RefcountExact, Stakes

-----------------------------------------------------------------------------
(* The inductive step, one lemma per action                                *)

\* shm_ring_init leaves the invariant true: all slots FREE, nobody holds any.
LEMMA InitIInv == Init => IInv
<1> SUFFICES ASSUME Init PROVE IInv
  OBVIOUS
<1>1. \A s \in Slots : Stakes(s) = {}
  BY DEF Init, Stakes
<1>2. RefcountExact
  BY <1>1, FS_EmptySet DEF RefcountExact, Init
<1>3. 0 \in Slots
  BY RingAssumption DEF Slots
<1>4. TypeOK
  BY <1>3 DEF Init, TypeOK, FREE, WRITING, READY
<1> QED
  BY <1>2, <1>4 DEF IInv, Init, WriterInv, PayloadInv, StampInv, OfferedInv, HeldInv,
     RetainInv, Solid, FREE, READY

\* Entering acquire_slot reads last_ready into published and keeps the invariant.
LEMMA AcquireBeginStep ==
  ASSUME IInv, AcquireBegin
  PROVE  IInv'
<1> USE DEF IInv, shared, producer, consumer, FREE, WRITING, READY
<1>stakes. \A t \in Slots : Stakes(t)' = Stakes(t)
  BY DEF Stakes, AcquireBegin, TypeOK
<1>refcount. RefcountExact'
  BY <1>stakes, StakesKept DEF AcquireBegin
<1>type. TypeOK'
  BY RingAssumption DEF AcquireBegin, TypeOK
<1>writer. WriterInv'
  BY RingAssumption DEF AcquireBegin, TypeOK, WriterInv, OfferedInv
<1>payload. PayloadInv'
  BY DEF AcquireBegin, TypeOK, WriterInv, PayloadInv, Solid
<1>stamp. StampInv'
  BY DEF AcquireBegin, TypeOK, WriterInv, StampInv
<1>offered. OfferedInv'
  BY RingAssumption DEF AcquireBegin, TypeOK, WriterInv, OfferedInv
<1>held. HeldInv'
  BY DEF AcquireBegin, TypeOK, WriterInv, HeldInv, Solid, StampInv, RetainInv
<1>retain. RetainInv'
  BY RingAssumption DEF AcquireBegin, TypeOK, WriterInv, RetainInv, OfferedInv, StampInv
<1> QED
  BY <1>type, <1>writer, <1>payload, <1>stamp, <1>offered, <1>held, <1>retain, <1>refcount

\* Passing over a slot in acquire_slot's scan keeps the invariant.
LEMMA ScanSkipStep ==
  ASSUME IInv, ScanSkip
  PROVE  IInv'
<1> USE DEF IInv, shared, producer, consumer, FREE, WRITING, READY
<1>stakes. \A t \in Slots : Stakes(t)' = Stakes(t)
  BY DEF Stakes, ScanSkip, TypeOK
<1>refcount. RefcountExact'
  BY <1>stakes, StakesKept DEF ScanSkip
<1>type. TypeOK'
  BY RingAssumption DEF ScanSkip, TypeOK, Skippable
<1>writer. WriterInv'
  BY RingAssumption DEF ScanSkip, TypeOK, WriterInv, OfferedInv, Skippable
<1>payload. PayloadInv'
  BY DEF ScanSkip, TypeOK, WriterInv, PayloadInv, Solid, Skippable
<1>stamp. StampInv'
  BY DEF ScanSkip, TypeOK, WriterInv, StampInv, Skippable
<1>offered. OfferedInv'
  BY RingAssumption DEF ScanSkip, TypeOK, WriterInv, OfferedInv, Skippable
<1>held. HeldInv'
  BY DEF ScanSkip, TypeOK, WriterInv, HeldInv, Solid, StampInv, RetainInv, Skippable
<1>retain. RetainInv'
  BY RingAssumption DEF ScanSkip, TypeOK, WriterInv, RetainInv, OfferedInv, StampInv, Skippable
<1> QED
  BY <1>type, <1>writer, <1>payload, <1>stamp, <1>offered, <1>held, <1>retain, <1>refcount

\* Choosing a slot: it is neither the offered one nor one the writer has.
LEMMA ScanTakeStep ==
  ASSUME IInv, ScanTake
  PROVE  IInv'
<1> USE DEF IInv, shared, producer, consumer, FREE, WRITING, READY
<1>slot. Candidate \in Slots
  BY CandidateInSlots
<1>stakes. \A t \in Slots : Stakes(t)' = Stakes(t)
  BY DEF Stakes, ScanTake, TypeOK
<1>refcount. RefcountExact'
  BY <1>stakes, StakesKept DEF ScanTake
<1>type. TypeOK'
  BY <1>slot, RingAssumption DEF ScanTake, TypeOK, Skippable
<1>writer. WriterInv'
  BY <1>slot, RingAssumption DEF ScanTake, TypeOK, WriterInv, OfferedInv, Skippable
<1>payload. PayloadInv'
  BY <1>slot DEF ScanTake, TypeOK, WriterInv, PayloadInv, Solid, Skippable
<1>stamp. StampInv'
  BY <1>slot DEF ScanTake, TypeOK, WriterInv, StampInv, Skippable
<1>offered. OfferedInv'
  BY <1>slot, RingAssumption DEF ScanTake, TypeOK, WriterInv, OfferedInv, Skippable
<1>held. HeldInv'
  BY <1>slot DEF ScanTake, TypeOK, WriterInv, HeldInv, Solid, StampInv, RetainInv, Skippable
<1>retain. RetainInv'
  BY <1>slot, RingAssumption DEF ScanTake, TypeOK, WriterInv, RetainInv, OfferedInv, StampInv, Skippable
<1> QED
  BY <1>type, <1>writer, <1>payload, <1>stamp, <1>offered, <1>held, <1>retain, <1>refcount

\* acquire_slot returning -1 keeps the invariant.
LEMMA ScanStarvedStep ==
  ASSUME IInv, ScanStarved
  PROVE  IInv'
<1> USE DEF IInv, shared, producer, consumer, FREE, WRITING, READY
<1>stakes. \A t \in Slots : Stakes(t)' = Stakes(t)
  BY DEF Stakes, ScanStarved, TypeOK
<1>refcount. RefcountExact'
  BY <1>stakes, StakesKept DEF ScanStarved
<1>type. TypeOK'
  BY RingAssumption DEF ScanStarved, TypeOK
<1>writer. WriterInv'
  BY RingAssumption DEF ScanStarved, TypeOK, WriterInv, OfferedInv
<1>payload. PayloadInv'
  BY DEF ScanStarved, TypeOK, WriterInv, PayloadInv, Solid
<1>stamp. StampInv'
  BY DEF ScanStarved, TypeOK, WriterInv, StampInv
<1>offered. OfferedInv'
  BY RingAssumption DEF ScanStarved, TypeOK, WriterInv, OfferedInv
<1>held. HeldInv'
  BY DEF ScanStarved, TypeOK, WriterInv, HeldInv, Solid, StampInv, RetainInv
<1>retain. RetainInv'
  BY RingAssumption DEF ScanStarved, TypeOK, WriterInv, RetainInv, OfferedInv, StampInv
<1> QED
  BY <1>type, <1>writer, <1>payload, <1>stamp, <1>offered, <1>held, <1>retain, <1>refcount

\* Storing WRITING: a holder's slot stays Solid through prev until the re-check.
LEMMA ClaimStep ==
  ASSUME IInv, Claim
  PROVE  IInv'
<1> USE DEF IInv, shared, producer, consumer, FREE, WRITING, READY
<1>stakes. \A t \in Slots : Stakes(t)' = Stakes(t)
  BY DEF Stakes, Claim, TypeOK
<1>refcount. RefcountExact'
  BY <1>stakes, StakesKept DEF Claim
<1>type. TypeOK'
  BY RingAssumption DEF Claim, TypeOK
<1>writer. WriterInv'
  BY RingAssumption DEF Claim, TypeOK, WriterInv, OfferedInv
<1>payload. PayloadInv'
  BY DEF Claim, TypeOK, WriterInv, PayloadInv, Solid
<1>stamp. StampInv'
  BY DEF Claim, TypeOK, WriterInv, StampInv
<1>offered. OfferedInv'
  BY RingAssumption DEF Claim, TypeOK, WriterInv, OfferedInv
<1>held. HeldInv'
  BY DEF Claim, TypeOK, WriterInv, HeldInv, Solid, StampInv, RetainInv
<1>retain. RetainInv'
  BY RingAssumption DEF Claim, TypeOK, WriterInv, RetainInv, OfferedInv, StampInv
<1> QED
  BY <1>type, <1>writer, <1>payload, <1>stamp, <1>offered, <1>held, <1>retain, <1>refcount

\* The re-check: a zero refcount means no holder, so the slot may be handed out.
LEMMA RecheckStep ==
  ASSUME IInv, Recheck
  PROVE  IInv'
<1> USE DEF IInv, shared, producer, consumer, FREE, WRITING, READY
<1>stakes. \A t \in Slots : Stakes(t)' = Stakes(t)
  BY DEF Stakes, Recheck, TypeOK
<1>refcount. RefcountExact'
  BY <1>stakes, StakesKept DEF Recheck
<1>type. TypeOK'
  <2>1. 0 \in Slots
    BY RingAssumption DEF Slots
  <2>2. CASE refcount[pidx] # 0
    BY <2>2 DEF Recheck, TypeOK
  <2>3. CASE refcount[pidx] = 0
    BY <2>1, <2>3 DEF Recheck, NoLocals, TypeOK
  <2> QED
    BY <2>2, <2>3
<1>writer. WriterInv'
  BY RingAssumption DEF Recheck, TypeOK, WriterInv, OfferedInv
<1>payload. PayloadInv'
  BY DEF Recheck, TypeOK, WriterInv, PayloadInv, Solid
<1>stamp. StampInv'
  BY DEF Recheck, TypeOK, WriterInv, StampInv
<1>offered. OfferedInv'
  BY RingAssumption DEF Recheck, TypeOK, WriterInv, OfferedInv
<1>held. HeldInv'
  BY ZeroMeansUnheld DEF Recheck, TypeOK, WriterInv, HeldInv, Solid, StampInv, RetainInv
<1>retain. RetainInv'
  BY RingAssumption DEF Recheck, TypeOK, WriterInv, RetainInv, OfferedInv, StampInv
<1> QED
  BY <1>type, <1>writer, <1>payload, <1>stamp, <1>offered, <1>held, <1>retain, <1>refcount

\* Backing off puts prev back, so a slot that was held is READY again.
LEMMA RestoreStep ==
  ASSUME IInv, Restore
  PROVE  IInv'
<1> USE DEF IInv, shared, producer, consumer, FREE, WRITING, READY
<1>stakes. \A t \in Slots : Stakes(t)' = Stakes(t)
  BY DEF Stakes, Restore, TypeOK
<1>refcount. RefcountExact'
  BY <1>stakes, StakesKept DEF Restore
<1>type. TypeOK'
  BY RingAssumption DEF Restore, TypeOK
<1>writer. WriterInv'
  BY RingAssumption DEF Restore, TypeOK, WriterInv, OfferedInv
<1>payload. PayloadInv'
  BY DEF Restore, TypeOK, WriterInv, PayloadInv, Solid
<1>stamp. StampInv'
  BY DEF Restore, TypeOK, WriterInv, StampInv
<1>offered. OfferedInv'
  BY RingAssumption DEF Restore, TypeOK, WriterInv, OfferedInv
<1>held. HeldInv'
  BY DEF Restore, TypeOK, WriterInv, HeldInv, Solid, StampInv, RetainInv
<1>retain. RetainInv'
  BY RingAssumption DEF Restore, TypeOK, WriterInv, RetainInv, OfferedInv, StampInv
<1> QED
  BY <1>type, <1>writer, <1>payload, <1>stamp, <1>offered, <1>held, <1>retain, <1>refcount

\* Moving last_ready to the slot just published makes it the newest frame.
LEMMA PublishLastStep ==
  ASSUME IInv, PublishLast
  PROVE  IInv'
<1> USE DEF IInv, shared, producer, consumer, FREE, WRITING, READY
<1>stakes. \A t \in Slots : Stakes(t)' = Stakes(t)
  BY DEF Stakes, PublishLast, TypeOK
<1>refcount. RefcountExact'
  BY <1>stakes, StakesKept DEF PublishLast
<1>type. TypeOK'
  <2>1. 0 \in Slots
    BY RingAssumption DEF Slots
  <2> QED BY <2>1 DEF PublishLast, NoLocals, TypeOK
<1>writer. WriterInv'
  BY RingAssumption DEF PublishLast, TypeOK, WriterInv, OfferedInv
<1>payload. PayloadInv'
  BY DEF PublishLast, TypeOK, WriterInv, PayloadInv, Solid
<1>stamp. StampInv'
  BY DEF PublishLast, TypeOK, WriterInv, StampInv
<1>offered. OfferedInv'
  BY RingAssumption DEF PublishLast, TypeOK, WriterInv, OfferedInv
<1>held. HeldInv'
  BY DEF PublishLast, TypeOK, WriterInv, HeldInv, Solid, StampInv, RetainInv
<1>retain. RetainInv'
  BY RingAssumption DEF PublishLast, TypeOK, WriterInv, RetainInv, OfferedInv, StampInv
<1> QED
  BY <1>type, <1>writer, <1>payload, <1>stamp, <1>offered, <1>held, <1>retain, <1>refcount

\* The writer tears only payloads of slots that nobody can hold.
LEMMA FillBeginStep ==
  ASSUME IInv, NEW s \in Slots, FillBegin(s)
  PROVE  IInv'
<1> USE DEF IInv, shared, producer, consumer, FREE, WRITING, READY
<1>stakes. \A t \in Slots : Stakes(t)' = Stakes(t)
  BY DEF Stakes, FillBegin, TypeOK
<1>refcount. RefcountExact'
  BY <1>stakes, StakesKept DEF FillBegin
<1>type. TypeOK'
  BY RingAssumption DEF FillBegin, TypeOK
<1>writer. WriterInv'
  BY RingAssumption DEF FillBegin, TypeOK, WriterInv, OfferedInv
<1>payload. PayloadInv'
  BY DEF FillBegin, TypeOK, WriterInv, PayloadInv, Solid
<1>stamp. StampInv'
  BY DEF FillBegin, TypeOK, WriterInv, StampInv
<1>offered. OfferedInv'
  BY RingAssumption DEF FillBegin, TypeOK, WriterInv, OfferedInv
<1>held. HeldInv'
  BY DEF FillBegin, TypeOK, WriterInv, HeldInv, Solid, StampInv, RetainInv
<1>retain. RetainInv'
  BY RingAssumption DEF FillBegin, TypeOK, WriterInv, RetainInv, OfferedInv, StampInv
<1> QED
  BY <1>type, <1>writer, <1>payload, <1>stamp, <1>offered, <1>held, <1>retain, <1>refcount

\* publish_slot's store of READY finds the payload whole.
LEMMA PublishReadyStep ==
  ASSUME IInv, NEW s \in Slots, PublishReady(s)
  PROVE  IInv'
<1> USE DEF IInv, shared, producer, consumer, FREE, WRITING, READY
<1>stakes. \A t \in Slots : Stakes(t)' = Stakes(t)
  BY DEF Stakes, PublishReady, TypeOK
<1>refcount. RefcountExact'
  BY <1>stakes, StakesKept DEF PublishReady
<1>type. TypeOK'
  BY RingAssumption DEF PublishReady, TypeOK
<1>writer. WriterInv'
  BY RingAssumption DEF PublishReady, TypeOK, WriterInv, OfferedInv
<1>payload. PayloadInv'
  BY DEF PublishReady, TypeOK, WriterInv, PayloadInv, Solid
<1>stamp. StampInv'
  BY DEF PublishReady, TypeOK, WriterInv, StampInv
<1>offered. OfferedInv'
  BY RingAssumption DEF PublishReady, TypeOK, WriterInv, OfferedInv
<1>held. HeldInv'
  BY DEF PublishReady, TypeOK, WriterInv, HeldInv, Solid, StampInv, RetainInv
<1>retain. RetainInv'
  BY RingAssumption DEF PublishReady, TypeOK, WriterInv, RetainInv, OfferedInv, StampInv
<1> QED
  BY <1>type, <1>writer, <1>payload, <1>stamp, <1>offered, <1>held, <1>retain, <1>refcount

\* abandon_slot frees a slot that nobody holds and that is not offered.
LEMMA AbandonStep ==
  ASSUME IInv, NEW s \in Slots, Abandon(s)
  PROVE  IInv'
<1> USE DEF IInv, shared, producer, consumer, FREE, WRITING, READY
<1>stakes. \A t \in Slots : Stakes(t)' = Stakes(t)
  BY DEF Stakes, Abandon, TypeOK
<1>refcount. RefcountExact'
  BY <1>stakes, StakesKept DEF Abandon
<1>type. TypeOK'
  BY RingAssumption DEF Abandon, TypeOK
<1>writer. WriterInv'
  BY RingAssumption DEF Abandon, TypeOK, WriterInv, OfferedInv
<1>payload. PayloadInv'
  BY DEF Abandon, TypeOK, WriterInv, PayloadInv, Solid
<1>stamp. StampInv'
  BY DEF Abandon, TypeOK, WriterInv, StampInv
<1>offered. OfferedInv'
  BY RingAssumption DEF Abandon, TypeOK, WriterInv, OfferedInv
<1>held. HeldInv'
  BY DEF Abandon, TypeOK, WriterInv, HeldInv, Solid, StampInv, RetainInv
<1>retain. RetainInv'
  BY RingAssumption DEF Abandon, TypeOK, WriterInv, RetainInv, OfferedInv, StampInv
<1> QED
  BY <1>type, <1>writer, <1>payload, <1>stamp, <1>offered, <1>held, <1>retain, <1>refcount

\* A try's load of last_ready gets the newest frame's slot.
LEMMA RetainLoadStep ==
  ASSUME IInv, NEW c \in Consumers, RetainLoad(c)
  PROVE  IInv'
<1> USE DEF IInv, shared, producer, consumer, FREE, WRITING, READY
<1>stakes. \A t \in Slots : Stakes(t)' = Stakes(t)
  BY DEF Stakes, RetainLoad, TypeOK
<1>refcount. RefcountExact'
  BY <1>stakes, StakesKept DEF RetainLoad
<1>type. TypeOK'
  BY RingAssumption DEF RetainLoad, TypeOK
<1>writer. WriterInv'
  BY RingAssumption DEF RetainLoad, TypeOK, WriterInv, OfferedInv
<1>payload. PayloadInv'
  BY DEF RetainLoad, TypeOK, WriterInv, PayloadInv, Solid
<1>stamp. StampInv'
  BY DEF RetainLoad, TypeOK, WriterInv, StampInv
<1>offered. OfferedInv'
  BY RingAssumption DEF RetainLoad, TypeOK, WriterInv, OfferedInv
<1>held. HeldInv'
  BY DEF RetainLoad, TypeOK, WriterInv, HeldInv, Solid, StampInv, RetainInv
<1>retain. RetainInv'
  BY RingAssumption DEF RetainLoad, TypeOK, WriterInv, RetainInv, OfferedInv, StampInv
<1> QED
  BY <1>type, <1>writer, <1>payload, <1>stamp, <1>offered, <1>held, <1>retain, <1>refcount

\* A try's fetch_add on the refcount is counted exactly.
LEMMA RetainStakeStep ==
  ASSUME IInv, NEW c \in Consumers, RetainStake(c)
  PROVE  IInv'
<1> USE DEF IInv, shared, producer, consumer, FREE, WRITING, READY
<1>refcount. RefcountExact'
  BY StakesGained DEF RetainStake
<1>type. TypeOK'
  BY RingAssumption DEF RetainStake, TypeOK
<1>writer. WriterInv'
  BY RingAssumption DEF RetainStake, TypeOK, WriterInv, OfferedInv
<1>payload. PayloadInv'
  BY DEF RetainStake, TypeOK, WriterInv, PayloadInv, Solid
<1>stamp. StampInv'
  BY DEF RetainStake, TypeOK, WriterInv, StampInv
<1>offered. OfferedInv'
  BY RingAssumption DEF RetainStake, TypeOK, WriterInv, OfferedInv
<1>held. HeldInv'
  BY DEF RetainStake, TypeOK, WriterInv, HeldInv, Solid, StampInv, RetainInv
<1>retain. RetainInv'
  BY RingAssumption DEF RetainStake, TypeOK, WriterInv, RetainInv, OfferedInv, StampInv
<1> QED
  BY <1>type, <1>writer, <1>payload, <1>stamp, <1>offered, <1>held, <1>retain, <1>refcount

\* A try that finds READY holds a whole frame; one that does not was overtaken.
LEMMA RetainVerifyStep ==
  ASSUME IInv, NEW c \in Consumers, RetainVerify(c)
  PROVE  IInv'
<1> USE DEF IInv, shared, producer, consumer, FREE, WRITING, READY
<1>stakes. \A t \in Slots : Stakes(t)' = Stakes(t)
  BY DEF Stakes, RetainVerify, TypeOK
<1>refcount. RefcountExact'
  BY <1>stakes, StakesKept DEF RetainVerify
<1>type. TypeOK'
  BY RingAssumption DEF RetainVerify, TypeOK
<1>writer. WriterInv'
  BY RingAssumption DEF RetainVerify, TypeOK, WriterInv, OfferedInv
<1>payload. PayloadInv'
  BY DEF RetainVerify, TypeOK, WriterInv, PayloadInv, Solid
<1>stamp. StampInv'
  BY DEF RetainVerify, TypeOK, WriterInv, StampInv
<1>offered. OfferedInv'
  BY RingAssumption DEF RetainVerify, TypeOK, WriterInv, OfferedInv
<1>held. HeldInv'
  BY DEF RetainVerify, TypeOK, WriterInv, HeldInv, Solid, StampInv, RetainInv
<1>retain. RetainInv'
  BY RingAssumption DEF RetainVerify, TypeOK, WriterInv, RetainInv, OfferedInv, StampInv
<1> QED
  BY <1>type, <1>writer, <1>payload, <1>stamp, <1>offered, <1>held, <1>retain, <1>refcount

\* A failed try gives back its own stake and no other.
LEMMA RetainUnstakeStep ==
  ASSUME IInv, NEW c \in Consumers, RetainUnstake(c)
  PROVE  IInv'
<1> USE DEF IInv, shared, producer, consumer, FREE, WRITING, READY
<1>refcount. RefcountExact' /\ refcount' \in [Slots -> Nat]
  <2> DEFINE l == IF tries[c] + 1 < RetainTries THEN "load" ELSE "idle"
  <2>1. l \in {"load", "idle"} /\ cpc' = [cpc EXCEPT ![c] = l]
    BY DEF RetainUnstake
  <2> HIDE DEF l
  <2> QED BY <2>1, StakesLost DEF RetainUnstake
<1>type. TypeOK'
  BY <1>refcount, RingAssumption DEF RetainUnstake, TypeOK
<1>writer. WriterInv'
  BY RingAssumption DEF RetainUnstake, TypeOK, WriterInv, OfferedInv
<1>payload. PayloadInv'
  BY DEF RetainUnstake, TypeOK, WriterInv, PayloadInv, Solid
<1>stamp. StampInv'
  BY DEF RetainUnstake, TypeOK, WriterInv, StampInv
<1>offered. OfferedInv'
  BY RingAssumption DEF RetainUnstake, TypeOK, WriterInv, OfferedInv
<1>held. HeldInv'
  BY DEF RetainUnstake, TypeOK, WriterInv, HeldInv, Solid, StampInv, RetainInv
<1>retain. RetainInv'
  BY RingAssumption DEF RetainUnstake, TypeOK, WriterInv, RetainInv, OfferedInv, StampInv
<1> QED
  BY <1>type, <1>writer, <1>payload, <1>stamp, <1>offered, <1>held, <1>retain, <1>refcount

\* release_slot gives back its own stake and no other.
LEMMA ReleaseStep ==
  ASSUME IInv, NEW c \in Consumers, Release(c)
  PROVE  IInv'
<1> USE DEF IInv, shared, producer, consumer, FREE, WRITING, READY
<1>refcount. RefcountExact' /\ refcount' \in [Slots -> Nat]
  BY StakesLost DEF Release
<1>type. TypeOK'
  BY <1>refcount, RingAssumption DEF Release, TypeOK
<1>writer. WriterInv'
  BY RingAssumption DEF Release, TypeOK, WriterInv, OfferedInv
<1>payload. PayloadInv'
  BY DEF Release, TypeOK, WriterInv, PayloadInv, Solid
<1>stamp. StampInv'
  BY DEF Release, TypeOK, WriterInv, StampInv
<1>offered. OfferedInv'
  BY RingAssumption DEF Release, TypeOK, WriterInv, OfferedInv
<1>held. HeldInv'
  BY DEF Release, TypeOK, WriterInv, HeldInv, Solid, StampInv, RetainInv
<1>retain. RetainInv'
  BY RingAssumption DEF Release, TypeOK, WriterInv, RetainInv, OfferedInv, StampInv
<1> QED
  BY <1>type, <1>writer, <1>payload, <1>stamp, <1>offered, <1>held, <1>retain, <1>refcount

\* A consumer's death changes nothing the others see; its stake stays counted.
LEMMA DieStep ==
  ASSUME IInv, NEW c \in Consumers, Die(c)
  PROVE  IInv'
<1> USE DEF IInv, shared, producer, consumer, FREE, WRITING, READY
<1>stakes. \A t \in Slots : Stakes(t)' = Stakes(t)
  BY DEF Stakes, Die, TypeOK
<1>refcount. RefcountExact'
  BY <1>stakes, StakesKept DEF Die
<1>type. TypeOK'
  BY RingAssumption DEF Die, TypeOK
<1>writer. WriterInv'
  BY RingAssumption DEF Die, TypeOK, WriterInv, OfferedInv
<1>payload. PayloadInv'
  BY DEF Die, TypeOK, WriterInv, PayloadInv, Solid
<1>stamp. StampInv'
  BY DEF Die, TypeOK, WriterInv, StampInv
<1>offered. OfferedInv'
  BY RingAssumption DEF Die, TypeOK, WriterInv, OfferedInv
<1>held. HeldInv'
  BY DEF Die, TypeOK, WriterInv, HeldInv, Solid, StampInv, RetainInv
<1>retain. RetainInv'
  BY RingAssumption DEF Die, TypeOK, WriterInv, RetainInv, OfferedInv, StampInv
<1> QED
  BY <1>type, <1>writer, <1>payload, <1>stamp, <1>offered, <1>held, <1>retain, <1>refcount

-----------------------------------------------------------------------------
\* Every step of the ring, or a stutter, keeps the invariant.
LEMMA NextIInv == IInv /\ [Next]_vars => IInv'
<1> SUFFICES ASSUME IInv, [Next]_vars PROVE IInv'
  OBVIOUS
<1>1. CASE AcquireStep
  BY <1>1, AcquireBeginStep, ScanSkipStep, ScanTakeStep, ScanStarvedStep, ClaimStep,
     RecheckStep, RestoreStep DEF AcquireStep
<1>2. CASE PublishLast
  BY <1>2, PublishLastStep
<1>3. ASSUME NEW s \in Slots, WriterStep(s) PROVE IInv'
  BY <1>3, FillBeginStep, PublishReadyStep, AbandonStep DEF WriterStep
<1>4. ASSUME NEW c \in Consumers, RetainStep(c) \/ Release(c) \/ Die(c) PROVE IInv'
  BY <1>4, RetainLoadStep, RetainStakeStep, RetainVerifyStep, RetainUnstakeStep,
     ReleaseStep, DieStep DEF RetainStep
<1>5. CASE UNCHANGED vars
  BY <1>5 DEF vars, shared, producer, consumer, IInv, TypeOK, WriterInv, PayloadInv, StampInv,
     OfferedInv, HeldInv, RetainInv, RefcountExact, Solid, Stakes
<1> QED
  BY <1>1, <1>2, <1>3, <1>4, <1>5 DEF Next

\* Every reachable state of the ring satisfies the inductive invariant.
THEOREM Invariance == Spec => []IInv
BY InitIInv, NextIInv, PTL DEF Spec

\* The shared words, the handles and the locals of both sides keep their
\* types in every reachable state; a refcount never drops below zero.
THEOREM TypeCorrect == Spec => []TypeOK
<1>1. IInv => TypeOK
  BY DEF IInv
<1> QED BY <1>1, Invariance, PTL

\* A frame returned by shm_ring_retain_latest is immutable until released.
THEOREM RetainedFramesStayIntact == Spec => []RetainedFrameIntact
<1>1. IInv => RetainedFrameIntact
  BY DEF IInv, TypeOK, WriterInv, PayloadInv, HeldInv, Solid, RetainedFrameIntact, READY, WRITING
<1> QED BY <1>1, Invariance, PTL

\* Refcounts count the stakes exactly.
THEOREM RefcountsExact == Spec => []RefcountExact
<1>1. IInv => RefcountExact
  BY DEF IInv
<1> QED BY <1>1, Invariance, PTL

\* The offered slot is READY, whole and the newest.
THEOREM OfferedFramesReady == Spec => []OfferedFrameReady
<1>1. IInv => OfferedFrameReady
  BY DEF IInv, TypeOK, PayloadInv, OfferedInv, Solid, OfferedFrameReady
<1> QED BY <1>1, Invariance, PTL

\* A retained frame is no older than the newest at the start of the call.
THEOREM RetainsAreFresh == Spec => []RetainFresh
<1>1. IInv => RetainFresh
  BY DEF IInv, HeldInv, RetainFresh
<1> QED BY <1>1, Invariance, PTL

\* A retain call gives up only after losing to RetainTries newer frames.
THEOREM MissesNeedChurn == Spec => []RetainMissNeedsChurn
<1>1. IInv => RetainMissNeedsChurn
  BY DEF IInv, RetainInv, RetainMissNeedsChurn
<1> QED BY <1>1, Invariance, PTL

-----------------------------------------------------------------------------
(* Refinement: the ring implements LatestFrame                             *)

\* What the register's reader holds, read off the consumer's own record.
Got == [c \in Consumers |-> IF cpc[c] = "held" THEN got[c] ELSE 0]

\* Under the invariant the mapping does not depend on the payloads.
LEMMA HeldMapsToGot == IInv => AbsHeld = Got
BY DEF IInv, TypeOK, PayloadInv, HeldInv, AbsHeld, Got

\* The ring's initial state maps to an initial state of LatestFrame.
LEMMA InitRefines == Init => LF!LFInit
BY DEF Init, LF!LFInit, AbsVisible, AbsReading, AbsSince, AbsHeld, InRetain

\* A step of the producer or of the scheduler that a reader cannot see.
LEMMA QuietStep ==
  ASSUME IInv, IInv', UNCHANGED <<cpc, since, got, newest>>, AbsVisible' = AbsVisible
  PROVE  UNCHANGED LF!lfVars
<1>1. AbsHeld = Got /\ (AbsHeld = Got)'
  BY HeldMapsToGot, PTL
<1>2. AbsReading' = AbsReading /\ AbsSince' = AbsSince /\ Got' = Got
  BY DEF AbsReading, AbsSince, InRetain, Got
<1> QED BY <1>1, <1>2 DEF LF!lfVars

\* A step inside a retain call that does not decide it.
LEMMA UndecidedStep ==
  ASSUME IInv, IInv', NEW c \in Consumers, NEW l \in {"load", "verify", "unstake", "stake"},
         InRetain(c), cpc' = [cpc EXCEPT ![c] = l],
         UNCHANGED <<since, got, newest, ppc>>
  PROVE  UNCHANGED LF!lfVars
<1>1. AbsHeld = Got /\ (AbsHeld = Got)'
  BY HeldMapsToGot, PTL
<1>2. AbsReading' = AbsReading /\ AbsSince' = AbsSince /\ Got' = Got /\ AbsVisible' = AbsVisible
  BY DEF IInv, TypeOK, AbsReading, AbsSince, InRetain, Got, AbsVisible
<1> QED BY <1>1, <1>2 DEF LF!lfVars

\* Every step of the ring maps to a step of LatestFrame or to a stutter.
LEMMA StepRefines == IInv /\ IInv' /\ [Next]_vars => [LF!LFNext]_(LF!lfVars)
<1> SUFFICES ASSUME IInv, IInv', [Next]_vars
             PROVE  LF!LFNext \/ UNCHANGED LF!lfVars
  OBVIOUS
<1>h. AbsHeld = Got /\ (AbsHeld = Got)'
  BY HeldMapsToGot, PTL
<1> USE DEF shared, producer, consumer
<1>1. CASE AcquireStep
  BY <1>1, QuietStep DEF AcquireStep, AcquireBegin, ScanSkip, ScanTake, ScanStarved, Claim,
     Recheck, Restore, AbsVisible
<1>2. CASE PublishLast
  <2>1. AbsReading' = AbsReading /\ AbsSince' = AbsSince /\ Got' = Got
    BY <1>2 DEF PublishLast, AbsReading, AbsSince, InRetain, Got
  <2>2. LF!Announce
    BY <1>2, <1>h, <2>1 DEF PublishLast, LF!Announce, AbsVisible, IInv, TypeOK
  <2> QED BY <2>2 DEF LF!LFNext
<1>3. ASSUME NEW s \in Slots, WriterStep(s) PROVE LF!LFNext \/ UNCHANGED LF!lfVars
  <2>1. CASE FillBegin(s) \/ Abandon(s)
    BY <2>1, QuietStep DEF FillBegin, Abandon, AbsVisible
  <2>2. CASE PublishReady(s)
    <3>1. AbsReading' = AbsReading /\ AbsSince' = AbsSince /\ Got' = Got
      BY <2>2 DEF PublishReady, AbsReading, AbsSince, InRetain, Got
    <3>2. LF!MakeVisible
      BY <2>2, <1>h, <3>1 DEF PublishReady, LF!MakeVisible, AbsVisible
    <3> QED BY <3>2 DEF LF!LFNext
  <2> QED BY <1>3, <2>1, <2>2 DEF WriterStep
<1>4. ASSUME NEW c \in Consumers, RetainStep(c) \/ Release(c) \/ Die(c)
      PROVE  LF!LFNext \/ UNCHANGED LF!lfVars
  <2>1. CASE RetainLoad(c)
    <3>1. CASE cpc[c] = "idle"
      <4>1. c \notin AbsReading /\ AbsReading' = AbsReading \cup {c}
        BY <2>1, <3>1 DEF RetainLoad, IInv, TypeOK, AbsReading, InRetain
      <4>2. AbsSince' = [AbsSince EXCEPT ![c] = newest]
        <5>1. /\ since' = [since EXCEPT ![c] = newest]
              /\ cpc' = [cpc EXCEPT ![c] = "stake"]
          BY <2>1, <3>1 DEF RetainLoad
        <5>2. ASSUME NEW d \in Consumers
              PROVE  AbsSince'[d] = [AbsSince EXCEPT ![c] = newest][d]
          BY <5>1, <5>2 DEF IInv, TypeOK, AbsSince, InRetain
        <5> QED BY <5>2 DEF AbsSince
      <4>3. AbsHeld[c] = 0 /\ AbsHeld' = AbsHeld
        BY <1>h, <2>1, <3>1 DEF RetainLoad, IInv, TypeOK, Got
      <4>4. newest > 0 /\ newest' = newest /\ AbsVisible' = AbsVisible
        BY <2>1 DEF RetainLoad, IInv, OfferedInv, AbsVisible
      <4>5. LF!BeginRead(c)
        BY <4>1, <4>2, <4>3, <4>4 DEF LF!BeginRead
      <4> QED BY <4>5 DEF LF!LFNext
    <3>2. CASE cpc[c] # "idle"
      BY <2>1, <3>2, UndecidedStep DEF RetainLoad, InRetain
    <3> QED BY <3>1, <3>2
  <2>2. CASE RetainStake(c)
    BY <2>2, UndecidedStep DEF RetainStake, InRetain
  <2>3. CASE RetainVerify(c)
    <3>1. CASE state[cidx[c]] = READY
      <4> DEFINE f == stamp[cidx[c]]
      <4>1. f \in AbsSince[c] .. AbsVisible
        BY <2>3, <3>1 DEF RetainVerify, IInv, TypeOK, RetainInv, StampInv, WriterInv,
           AbsSince, AbsVisible, InRetain
      <4>2. AbsHeld' = [AbsHeld EXCEPT ![c] = f]
        BY <1>h, <2>3, <3>1 DEF RetainVerify, IInv, TypeOK, Got
      <4>3. c \in AbsReading /\ AbsReading' = AbsReading \ {c}
        BY <2>3, <3>1 DEF RetainVerify, IInv, TypeOK, AbsReading, InRetain
      <4>4. AbsSince' = [AbsSince EXCEPT ![c] = 0] /\ AbsVisible' = AbsVisible /\ newest' = newest
        BY <2>3, <3>1, ZenonT(60) DEF RetainVerify, IInv, TypeOK, AbsSince, AbsVisible, InRetain
      <4> HIDE DEF f
      <4>5. LF!EndRead(c)
        BY <4>1, <4>2, <4>3, <4>4 DEF LF!EndRead
      <4> QED BY <4>5 DEF LF!LFNext
    <3>2. CASE state[cidx[c]] # READY
      BY <2>3, <3>2, UndecidedStep DEF RetainVerify, InRetain
    <3> QED BY <3>1, <3>2
  <2>4. CASE RetainUnstake(c)
    <3>1. CASE tries[c] + 1 < RetainTries
      BY <2>4, <3>1, UndecidedStep DEF RetainUnstake, InRetain
    <3>2. CASE ~(tries[c] + 1 < RetainTries)
      <4>1. c \in AbsReading /\ AbsReading' = AbsReading \ {c}
        BY <2>4, <3>2 DEF RetainUnstake, IInv, TypeOK, AbsReading, InRetain
      <4>2. AbsSince' = [AbsSince EXCEPT ![c] = 0] /\ AbsVisible' = AbsVisible /\ newest' = newest
        BY <2>4, <3>2 DEF RetainUnstake, IInv, TypeOK, AbsSince, AbsVisible, InRetain
      <4>3. newest >= AbsSince[c] + RetainTries
        BY <2>4, <3>2, RingAssumption DEF RetainUnstake, IInv, TypeOK, RetainInv, AbsSince, InRetain
      <4>4. AbsHeld' = AbsHeld
        BY <1>h, <2>4, <3>2 DEF RetainUnstake, IInv, TypeOK, Got
      <4>5. LF!MissRead(c)
        BY <4>1, <4>2, <4>3, <4>4 DEF LF!MissRead
      <4> QED BY <4>5 DEF LF!LFNext
    <3> QED BY <3>1, <3>2
  <2>5. CASE Release(c)
    <3>1. AbsReading' = AbsReading /\ AbsSince' = AbsSince /\ AbsVisible' = AbsVisible
      BY <2>5 DEF Release, IInv, TypeOK, AbsReading, AbsSince, AbsVisible, InRetain
    <3>2. AbsHeld[c] # 0 /\ AbsHeld' = [AbsHeld EXCEPT ![c] = 0]
      BY <1>h, <2>5 DEF Release, IInv, TypeOK, HeldInv, Got
    <3>3. LF!Unpin(c)
      BY <2>5, <3>1, <3>2 DEF Release, LF!Unpin
    <3> QED BY <3>3 DEF LF!LFNext
  <2>6. CASE Die(c)
    BY <2>6, QuietStep DEF Die, AbsVisible
  <2> QED BY <1>4, <2>1, <2>2, <2>3, <2>4, <2>5, <2>6 DEF RetainStep
<1>5. CASE UNCHANGED vars
  BY <1>5, QuietStep DEF vars, AbsVisible
<1> QED BY <1>1, <1>2, <1>3, <1>4, <1>5 DEF Next

\* Every behaviour of the ring is a behaviour of the latest-frame register:
\* the initial states agree, and every step is a register step or none.
THEOREM RingImplementsLatestFrame == Spec => ImplementsLatestFrame
<1>1. Spec => LF!LFInit /\ [][LF!LFNext]_(LF!lfVars)
  BY InitRefines, StepRefines, Invariance, PTL DEF Spec
<1> QED BY <1>1 DEF ImplementsLatestFrame, LF!LFSpec

-----------------------------------------------------------------------------
(* Starvation: a scan that finds nothing has met a different consumer in   *)
(* every slot it could not have                                            *)

\* The slots acquire_slot's loop has passed over, the one it is backing off
\* from included.
Scanned == {(write_cursor + k) % NumSlots : k \in 1 .. attempt - 1}
Passed == IF ppc = "restore" THEN Scanned \cup {pidx} ELSE Scanned

\* f charges each slot of B to one consumer.  A consumer charged with a slot
\* is still on it, or has moved to the offered slot since, and so cannot be
\* met a second time by the same scan.
ChargesFor(f, B) == \A s \in B :
                      \E c \in Consumers : f[c] = s /\ cidx[c] \in {s, published} \ {LAST_NONE}

\* The slots the scan passed over for a refcount.
Staked == Passed \ (acquired \cup {published})
Charges(f) == ChargesFor(f, Staked)

\* The strengthening of StarvedOnlyWhenFull, beside IInv.
ScanInv ==
  /\ attempt >= 1
  /\ \A s \in Slots : state[s] = WRITING =>
        s \in acquired \/ (ppc \in {"recheck", "restore"} /\ s = pidx)
  /\ ppc \in {"claim", "recheck", "restore"} => pidx = Candidate
  /\ ppc = "starved" => attempt > NumSlots
  /\ ppc \in {"scan", "claim", "recheck", "restore", "starved"} =>
        published = last_ready /\ \E f \in [Consumers -> Slots] : Charges(f)

\* Advancing acquire_slot's loop counter adds the slot it has just looked at.
LEMMA ScannedGrows ==
  ASSUME TypeOK, attempt >= 1, attempt' = attempt + 1, write_cursor' = write_cursor
  PROVE  Scanned' = Scanned \cup {Candidate}
<1>1. 1 .. attempt' - 1 = (1 .. attempt - 1) \cup {attempt}
  BY DEF TypeOK
<1> QED BY <1>1 DEF Scanned, Candidate

\* NumSlots rounds of the loop look at every slot of the ring.
LEMMA ScanCoversRing ==
  ASSUME TypeOK, attempt > NumSlots
  PROVE  Slots \subseteq Scanned
<1> SUFFICES ASSUME NEW t \in Slots
             PROVE  \E k \in 1 .. attempt - 1 : t = (write_cursor + k) % NumSlots
  BY DEF Scanned
<1>0. /\ NumSlots \in Nat /\ NumSlots >= 2 /\ attempt \in Nat
      /\ t \in Nat /\ t < NumSlots
      /\ write_cursor \in Nat /\ write_cursor < NumSlots
  BY RingAssumption DEF TypeOK, Slots
<1>1. CASE t > write_cursor
  <2>1. t - write_cursor \in 1 .. attempt - 1
    BY <1>0, <1>1
  <2>2. t = (write_cursor + (t - write_cursor)) % NumSlots
    BY <1>0, <1>1
  <2> QED BY <2>1, <2>2
<1>2. CASE t <= write_cursor
  <2>1. NumSlots + t - write_cursor \in 1 .. attempt - 1
    BY <1>0, <1>2
  <2>2. t = (write_cursor + (NumSlots + t - write_cursor)) % NumSlots
    BY <1>0, <1>2
  <2> QED BY <2>1, <2>2
<1> QED BY <1>0, <1>1, <1>2

\* A slot passed over for its refcount is charged to a consumer that has none.
LEMMA ChargeOneMore ==
  ASSUME IInv, NEW s \in Slots, refcount[s] # 0, s # published,
         NEW B, NEW f \in [Consumers -> Slots], ChargesFor(f, B)
  PROVE  \E g \in [Consumers -> Slots] : ChargesFor(g, B \cup {s})
<1>1. Stakes(s) # {}
  BY StakesFinite DEF IInv, RefcountExact
<1>2. PICK d \in Consumers : cidx[d] = s
  BY <1>1 DEF Stakes
<1>none. s # LAST_NONE
  BY RingAssumption
<1> DEFINE g == [f EXCEPT ![d] = s]
<1>3. g \in [Consumers -> Slots] /\ g[d] = s
  OBVIOUS
<1>4. ASSUME NEW t \in B \cup {s}
      PROVE  \E c \in Consumers : g[c] = t /\ cidx[c] \in {t, published} \ {LAST_NONE}
  <2>1. CASE t = s
    BY <1>2, <1>3, <1>none, <2>1
  <2>2. CASE t # s
    <3>1. PICK c \in Consumers : f[c] = t /\ cidx[c] \in {t, published} \ {LAST_NONE}
      BY <2>2 DEF ChargesFor
    <3>2. c # d
      BY <1>2, <2>2, <3>1
    <3>3. g[c] = t
      BY <3>1, <3>2
    <3> QED BY <3>1, <3>3
  <2> QED BY <2>1, <2>2
<1> QED BY <1>3, <1>4 DEF ChargesFor

\* shm_ring_create's producer has scanned nothing and written nothing.
LEMMA InitScanInv == Init => ScanInv
BY DEF Init, ScanInv, FREE, WRITING

\* Entering acquire_slot: no slot has been passed over yet.
LEMMA AcquireBeginScan ==
  ASSUME IInv, ScanInv, AcquireBegin
  PROVE  ScanInv'
<1> USE DEF shared, consumer
<1>1. Passed' = {}
  <2>1. 1 .. attempt' - 1 = {} /\ ppc' = "scan"
    BY DEF AcquireBegin
  <2> QED BY <2>1 DEF Passed, Scanned
<1>2. \A f : Charges(f)'
  BY <1>1 DEF Charges, ChargesFor, Staked
<1>3. [c \in Consumers |-> write_cursor] \in [Consumers -> Slots]
  BY DEF IInv, TypeOK
<1>4. \E f \in [Consumers -> Slots] : Charges(f)'
  BY <1>2, <1>3
<1> QED BY <1>4 DEF AcquireBegin, ScanInv

\* Passing over a slot: it is the offered one, one the writer has, or one
\* that a consumer not charged so far has a stake in.
LEMMA ScanSkipScan ==
  ASSUME IInv, ScanInv, ScanSkip
  PROVE  ScanInv'
<1> USE DEF shared, consumer
<1>1. Passed = Scanned /\ Passed' = Scanned \cup {Candidate}
  BY ScannedGrows DEF ScanSkip, Passed, IInv, ScanInv
<1>2. PICK f \in [Consumers -> Slots] : Charges(f)
  BY DEF ScanSkip, ScanInv
<1>3. Candidate \in Slots
  BY CandidateInSlots DEF IInv
<1>4. \E g \in [Consumers -> Slots] : Charges(g)'
  <2>1. CASE Candidate = published \/ state[Candidate] = WRITING
    <3>1. Candidate \in acquired \cup {published}
      BY <1>3, <2>1 DEF ScanSkip, ScanInv
    <3>2. Charges(f)'
      BY <1>1, <1>2, <3>1 DEF ScanSkip, Charges, ChargesFor, Staked
    <3> QED BY <3>2
  <2>2. CASE Candidate # published /\ refcount[Candidate] # 0
    <3>1. PICK g \in [Consumers -> Slots] : ChargesFor(g, Staked \cup {Candidate})
      BY <1>2, <1>3, <2>2, ChargeOneMore DEF Charges
    <3>2. Charges(g)'
      BY <1>1, <3>1 DEF ScanSkip, Charges, ChargesFor, Staked
    <3> QED BY <3>2
  <2> QED BY <2>1, <2>2 DEF ScanSkip, Skippable
<1>5. attempt' >= 1
  BY DEF ScanSkip, ScanInv, IInv, TypeOK
<1> QED BY <1>4, <1>5 DEF ScanSkip, ScanInv

\* The steps between choosing a slot and the re-check pass over none.
LEMMA ScanTakeScan ==
  ASSUME IInv, ScanInv, ScanTake \/ ScanStarved \/ Claim
  PROVE  ScanInv'
<1> USE DEF shared, consumer
<1>1. \A f : Charges(f) <=> Charges(f)'
  BY DEF ScanTake, ScanStarved, Claim, Charges, ChargesFor, Staked, Passed, Scanned
<1>2. CASE ScanTake
  BY <1>1, <1>2 DEF ScanTake, ScanInv, Candidate
<1>3. CASE ScanStarved
  BY <1>1, <1>3 DEF ScanStarved, ScanInv
<1>4. CASE Claim
  BY <1>1, <1>4 DEF Claim, ScanInv, Candidate, IInv, TypeOK
<1> QED BY <1>2, <1>3, <1>4

\* The re-check hands the slot out, or charges it to the consumer that staked
\* it since the scan's cheap test.
LEMMA RecheckScan ==
  ASSUME IInv, ScanInv, Recheck
  PROVE  ScanInv'
<1> USE DEF shared, consumer
<1>1. CASE refcount[pidx] = 0
  BY <1>1 DEF Recheck, NoLocals, ScanInv, IInv, TypeOK
<1>2. CASE refcount[pidx] # 0
  <2>1. PICK f \in [Consumers -> Slots] : Charges(f)
    BY DEF Recheck, ScanInv
  <2>2. pidx \in Slots /\ pidx # published
    BY DEF Recheck, ScanInv, IInv, TypeOK, WriterInv
  <2>3. PICK g \in [Consumers -> Slots] : ChargesFor(g, Staked \cup {pidx})
    BY <1>2, <2>1, <2>2, ChargeOneMore DEF Charges
  <2>4. Passed' = Passed \cup {pidx}
    BY <1>2 DEF Recheck, Passed, Scanned
  <2>5. Charges(g)'
    BY <1>2, <2>3, <2>4 DEF Recheck, Charges, ChargesFor, Staked
  <2> QED BY <1>2, <2>5 DEF Recheck, ScanInv, Candidate
<1> QED BY <1>1, <1>2

\* Backing off takes the loop past the slot it had charged already.
LEMMA RestoreScan ==
  ASSUME IInv, ScanInv, Restore
  PROVE  ScanInv'
<1> USE DEF shared, consumer
<1>1. Passed' = Passed
  BY ScannedGrows DEF Restore, Passed, IInv, ScanInv
<1>2. \A f : Charges(f) => Charges(f)'
  BY <1>1 DEF Restore, Charges, ChargesFor, Staked
<1>3. attempt' >= 1
  BY DEF Restore, ScanInv, IInv, TypeOK
<1>4. \A s \in Slots : state'[s] = WRITING => s \in acquired'
  BY DEF Restore, ScanInv, IInv, TypeOK, FREE, READY, WRITING
<1> QED BY <1>2, <1>3, <1>4 DEF Restore, ScanInv

\* publish_slot and abandon_slot leave no slot WRITING that the writer has
\* given back, and no scan is under way.
LEMMA WriterScan ==
  ASSUME IInv, ScanInv,
         PublishLast \/ \E s \in Slots : PublishReady(s) \/ Abandon(s)
  PROVE  ScanInv'
<1> USE DEF shared, consumer
<1>1. CASE PublishLast
  BY <1>1 DEF PublishLast, NoLocals, ScanInv
<1>2. ASSUME NEW s \in Slots, PublishReady(s) \/ Abandon(s) PROVE ScanInv'
  BY <1>2 DEF PublishReady, Abandon, ScanInv, IInv, TypeOK, FREE, READY, WRITING
<1> QED BY <1>1, <1>2

\* Whatever the consumers do, one of them moves only to the offered slot.
LEMMA ConsumerScan ==
  ASSUME IInv, ScanInv,
         UNCHANGED <<state, last_ready, producer>>,
         \A c \in Consumers : cidx'[c] = cidx[c] \/ cidx'[c] \in {last_ready} \ {LAST_NONE}
  PROVE  ScanInv'
<1> USE DEF producer
<1>1. Passed' = Passed
  BY DEF Passed, Scanned
<1>2. ASSUME published = last_ready, NEW f, Charges(f)
      PROVE  Charges(f)'
  BY <1>1, <1>2 DEF Charges, ChargesFor, Staked
<1> QED BY <1>2 DEF ScanInv, Candidate

\* Every step of the ring, or a stutter, keeps the scan's charges.
LEMMA NextScanInv == IInv /\ ScanInv /\ [Next]_vars => ScanInv'
<1> SUFFICES ASSUME IInv, ScanInv, [Next]_vars PROVE ScanInv'
  OBVIOUS
<1> USE DEF shared, consumer
<1>1. CASE AcquireStep
  BY <1>1, AcquireBeginScan, ScanSkipScan, ScanTakeScan, RecheckScan, RestoreScan DEF AcquireStep
<1>2. CASE PublishLast
  BY <1>2, WriterScan
<1>3. ASSUME NEW s \in Slots, WriterStep(s) PROVE ScanInv'
  <2>1. CASE FillBegin(s)
    BY <2>1, ConsumerScan DEF FillBegin
  <2> QED BY <1>3, <2>1, WriterScan DEF WriterStep
<1>4. ASSUME NEW c \in Consumers, RetainStep(c) \/ Release(c) \/ Die(c) PROVE ScanInv'
  <2>1. UNCHANGED <<state, last_ready, producer>>
    BY <1>4 DEF RetainStep, RetainLoad, RetainStake, RetainVerify, RetainUnstake, Release, Die
  <2>2. \A d \in Consumers : cidx'[d] = cidx[d] \/ cidx'[d] \in {last_ready} \ {LAST_NONE}
    BY <1>4 DEF RetainStep, RetainLoad, RetainStake, RetainVerify, RetainUnstake, Release, Die,
       IInv, TypeOK
  <2> QED BY <2>1, <2>2, ConsumerScan
<1>5. CASE UNCHANGED vars
  BY <1>5, ConsumerScan DEF vars
<1> QED BY <1>1, <1>2, <1>3, <1>4, <1>5 DEF Next

\* A union of two finite sets has at most as many elements as they have.
LEMMA UnionBound ==
  ASSUME NEW S, IsFiniteSet(S), NEW T, IsFiniteSet(T)
  PROVE  /\ IsFiniteSet(S \cup T)
         /\ Cardinality(S \cup T) <= Cardinality(S) + Cardinality(T)
<1>1. /\ IsFiniteSet(S \cup T)
      /\ Cardinality(S \cup T) = Cardinality(S) + Cardinality(T) - Cardinality(S \cap T)
  BY FS_Union
<1>2. IsFiniteSet(S \cap T)
  BY FS_Intersection
<1>3. /\ Cardinality(S) \in Nat /\ Cardinality(T) \in Nat
      /\ Cardinality(S \cap T) \in Nat
  BY <1>2, FS_CardinalityType
<1> QED BY <1>1, <1>3

\* When the loop has run out, the slots are the writer's, the offered one and
\* those charged to consumers, a consumer to each.
LEMMA StarvedCount == IInv /\ ScanInv => StarvedOnlyWhenFull
<1> SUFFICES ASSUME IInv, ScanInv, ppc = "starved"
             PROVE  NumSlots <= Cardinality(Clients) + Cardinality(acquired)
                                  + (IF published = LAST_NONE THEN 0 ELSE 1)
  BY DEF StarvedOnlyWhenFull
<1>1. PICK f \in [Consumers -> Slots] : Charges(f)
  BY DEF ScanInv
<1> DEFINE Charged == {f[c] : c \in Clients}
           Offered == {published} \cap Slots
<1>0. Clients \subseteq Consumers /\ IsFiniteSet(Clients)
  BY FS_Subset, RingAssumption DEF Clients
<1>2. IsFiniteSet(Charged) /\ Cardinality(Charged) <= Cardinality(Clients)
  <2> DEFINE h == [c \in Clients |-> f[c]]
  <2>1. h \in Surjection(Clients, Charged)
    BY DEF Surjection
  <2> HIDE DEF h, Charged
  <2> QED BY <1>0, <2>1, FS_Surjection
<1>3. Slots \subseteq Passed
  BY ScanCoversRing DEF ScanInv, IInv, Passed
<1>4. Slots \subseteq (Charged \cup acquired) \cup Offered
  <2> SUFFICES ASSUME NEW s \in Slots, s \notin acquired, s # published
               PROVE  s \in Charged
    OBVIOUS
  <2>1. PICK c \in Consumers : f[c] = s /\ cidx[c] \in {s, published} \ {LAST_NONE}
    BY <1>1, <1>3 DEF Charges, ChargesFor, Staked
  <2>2. c \in Clients
    BY <2>1 DEF Clients
  <2> QED BY <2>1, <2>2
<1>5. /\ IsFiniteSet(Slots) /\ Cardinality(Slots) = NumSlots
  <2>1. IsFiniteSet(0 .. NumSlots - 1) /\ Cardinality(0 .. NumSlots - 1) = NumSlots
    BY FS_Interval, RingAssumption
  <2> QED BY <2>1 DEF Slots
<1>6. IsFiniteSet(acquired)
  BY <1>5, FS_Subset DEF IInv, TypeOK
<1>7. /\ IsFiniteSet(Offered)
      /\ Cardinality(Offered) = IF published = LAST_NONE THEN 0 ELSE 1
  <2>1. CASE published = LAST_NONE
    <3>1. Offered = {}
      BY <2>1, RingAssumption
    <3> QED BY <2>1, <3>1, FS_EmptySet
  <2>2. CASE published # LAST_NONE
    <3>1. Offered = {published}
      BY <2>2 DEF IInv, TypeOK
    <3> QED BY <2>2, <3>1, FS_Singleton
  <2> QED BY <2>1, <2>2
<1> HIDE DEF Charged, Offered
<1>8. /\ IsFiniteSet(Charged \cup acquired)
      /\ Cardinality(Charged \cup acquired) <= Cardinality(Charged) + Cardinality(acquired)
  BY <1>2, <1>6, UnionBound
<1>9. /\ IsFiniteSet((Charged \cup acquired) \cup Offered)
      /\ Cardinality((Charged \cup acquired) \cup Offered)
           <= Cardinality(Charged \cup acquired) + Cardinality(Offered)
  BY <1>7, <1>8, UnionBound
<1>10. NumSlots <= Cardinality((Charged \cup acquired) \cup Offered)
  BY <1>4, <1>5, <1>9, FS_Subset
<1>11. /\ Cardinality(Charged) \in Nat /\ Cardinality(acquired) \in Nat
       /\ Cardinality(Offered) \in Nat /\ Cardinality(Clients) \in Nat
       /\ Cardinality(Charged \cup acquired) \in Nat
       /\ Cardinality((Charged \cup acquired) \cup Offered) \in Nat
  BY <1>0, <1>2, <1>6, <1>7, <1>8, <1>9, FS_CardinalityType
<1> QED BY <1>2, <1>7, <1>8, <1>9, <1>10, <1>11, RingAssumption

\* shm_ring_acquire_slot starves only when consumers, the writer and the
\* offered frame account for every slot, however the consumers moved between
\* slots while it scanned.
THEOREM StarvesOnlyWhenFull == Spec => []StarvedOnlyWhenFull
<1>1. Spec => []ScanInv
  BY InitScanInv, NextScanInv, Invariance, PTL DEF Spec
<1> QED BY <1>1, StarvedCount, Invariance, PTL
=============================================================================
