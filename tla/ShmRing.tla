------------------------------ MODULE ShmRing ------------------------------
(***************************************************************************)
(* The lock-free single-producer / multi-consumer frame ring of            *)
(* src/src/shm_ring.c, over one initialised segment.  (Creating, attaching *)
(* and destroying the segment is module ShmSegment.)                       *)
(*                                                                         *)
(* Every atomic access of a shared word is a step of its own, so that the  *)
(* producer's "claim, then re-check the refcount" and a consumer's "stake, *)
(* then check the state" interleave in every way.  Two accesses share a    *)
(* step only when the first reads a word nobody but the process itself     *)
(* writes.  The accesses are sequentially consistent, which is what the    *)
(* seq_cst pair in the code buys.                                          *)
(*                                                                         *)
(* A consumer is one thread inside, or between, calls of retain_latest and *)
(* release_slot; a process that keeps several frames is several consumers. *)
(***************************************************************************)
EXTENDS Naturals, FiniteSets

CONSTANTS NumSlots,      \* ring->num_slots
          Consumers,     \* consumer threads
          RetainTries,   \* SHM_RETAIN_TRIES
          MaxLoad,       \* bound: frames published and consumers served, together
          Mortal,        \* bound: the consumers that may die
          LAST_NONE      \* SHM_LAST_NONE

Slots == 0 .. NumSlots - 1

\* shm_ring_create refuses fewer than two slots.
ASSUME RingAssumption == /\ NumSlots \in Nat /\ NumSlots >= 2
                         /\ IsFiniteSet(Consumers)
                         /\ RetainTries \in Nat \ {0}
                         /\ MaxLoad \in Nat
                         /\ Mortal \subseteq Consumers
                         /\ LAST_NONE \notin Slots

FREE    == "FREE"
WRITING == "WRITING"
READY   == "READY"

VARIABLES
  \* shared memory
  state, refcount,     \* the slot headers
  last_ready,          \* the control block's cursor
  payload,             \* slot -> "blank", "torn" (being written) or "whole"
  \* producer-local
  ppc,                 \* where the producer is
  published,           \* acquire_slot's snapshot of last_ready
  attempt,             \* acquire_slot's loop counter
  pidx,                \* the slot the current call works on
  prev,                \* the state acquire_slot would restore
  write_cursor,        \* ring->write_cursor
  acquired,            \* slots handed to the writer and not yet given back
  \* consumer-local
  cpc, cidx, tries,
  alive,               \* consumers that have not died
  \* history: numbers frames in the order they become READY
  stamp,               \* slot -> number of the frame last published there
  newest,              \* number of the frame last_ready names
  loaded,              \* consumer -> newest at its last load of last_ready
  since,               \* consumer -> newest when its retain call began
  got                  \* consumer -> number of the frame it retained

shared   == <<state, refcount, last_ready, payload, stamp, newest>>
producer == <<ppc, published, attempt, pidx, prev, write_cursor, acquired>>
consumer == <<cpc, cidx, tries, alive, loaded, since, got>>
vars     == <<shared, producer, consumer>>

\* Consumers whose increment of slot s's refcount is not undone.
Stakes(s) == {c \in Consumers : cpc[c] \in {"verify", "unstake", "held"} /\ cidx[c] = s}

\* Consumers that have asked for a frame.
Clients == {c \in Consumers : cidx[c] # LAST_NONE}

\* What the bound counts: frames announced or in hand, and their readers.
Load == newest + Cardinality(acquired) + Cardinality(Clients)

\* shm_ring_create's last lines: empty headers, no frame.  calloc zeroes the
\* producer's handle.
Init ==
  /\ state = [s \in Slots |-> FREE]
  /\ refcount = [s \in Slots |-> 0]
  /\ last_ready = LAST_NONE
  /\ payload = [s \in Slots |-> "blank"]
  /\ ppc = "idle" /\ published = LAST_NONE /\ attempt = 1
  /\ pidx = 0 /\ prev = FREE /\ write_cursor = 0 /\ acquired = {}
  /\ cpc = [c \in Consumers |-> "idle"]
  /\ cidx = [c \in Consumers |-> LAST_NONE]
  /\ tries = [c \in Consumers |-> 0]
  /\ alive = Consumers
  /\ stamp = [s \in Slots |-> 0]
  /\ newest = 0
  /\ loaded = [c \in Consumers |-> 0]
  /\ since = [c \in Consumers |-> 0]
  /\ got = [c \in Consumers |-> 0]

-----------------------------------------------------------------------------
(* Producer: shm_ring_acquire_slot                                         *)

\* Entry, with the one load of last_ready that serves the whole scan.  Frames
\* in hand count against the bound, so a publication that began can finish, and
\* so can a starved producer that retries.
AcquireBegin ==
  /\ ppc \in {"idle", "starved"}
  /\ ppc = "idle" => Load < MaxLoad
  /\ published' = last_ready
  /\ attempt' = 1
  /\ ppc' = "scan"
  /\ UNCHANGED <<shared, consumer, pidx, prev, write_cursor, acquired>>

\* The slot this round of the scan looks at.
Candidate == (write_cursor + attempt) % NumSlots

\* Mutant: the scan no longer spares the frame consumers are offered.
SkippableBug(s) == refcount[s] # 0 \/ state[s] = WRITING

\* Mutant: the scan takes a slot back that the writer still has.
SkippableWritingBug(s) == s = published \/ refcount[s] # 0

\* The scan's cheap tests: the published slot, a slot with a refcount, and a
\* slot the producer itself is writing are passed over.
Skippable(s) == \/ s = published
                \/ refcount[s] # 0
                \/ state[s] = WRITING

ScanSkip ==
  /\ ppc = "scan" /\ attempt <= NumSlots
  /\ Skippable(Candidate)
  /\ attempt' = attempt + 1
  /\ UNCHANGED <<shared, consumer, ppc, published, pidx, prev, write_cursor, acquired>>

ScanTake ==
  /\ ppc = "scan" /\ attempt <= NumSlots
  /\ ~Skippable(Candidate)
  /\ pidx' = Candidate
  /\ prev' = state[Candidate]
  /\ ppc' = "claim"
  /\ UNCHANGED <<shared, consumer, published, attempt, write_cursor, acquired>>

\* The loop ran out: -1, the ring is starved.
ScanStarved ==
  /\ ppc = "scan" /\ attempt > NumSlots
  /\ ppc' = "starved"
  /\ UNCHANGED <<shared, consumer, published, attempt, pidx, prev, write_cursor, acquired>>

\* First half of the handshake: store WRITING.
Claim ==
  /\ ppc = "claim"
  /\ state' = [state EXCEPT ![pidx] = WRITING]
  /\ ppc' = "recheck"
  /\ UNCHANGED <<refcount, last_ready, payload, stamp, newest, consumer,
                 published, attempt, pidx, prev, write_cursor, acquired>>

\* The locals of a call end with it.
NoLocals == published' = LAST_NONE /\ attempt' = 1 /\ pidx' = 0 /\ prev' = FREE

\* Mutant: the pre-filter is trusted and the refcount not loaded again.
RecheckBug ==
  /\ ppc = "recheck"
  /\ ppc' = "idle"
  /\ write_cursor' = pidx
  /\ acquired' = acquired \cup {pidx}
  /\ NoLocals
  /\ UNCHANGED <<shared, consumer>>

\* Second half: re-load the refcount, and keep the slot or back off.
Recheck ==
  /\ ppc = "recheck"
  /\ IF refcount[pidx] # 0
     THEN /\ ppc' = "restore"
          /\ UNCHANGED <<published, attempt, pidx, prev, write_cursor, acquired>>
     ELSE /\ ppc' = "idle"
          /\ write_cursor' = pidx
          /\ acquired' = acquired \cup {pidx}
          /\ NoLocals
  /\ UNCHANGED <<shared, consumer>>

\* Mutant: what the code's comment says of a slot with a refcount ("its prior
\* state is READY") taken literally.
RestoreBug ==
  /\ ppc = "restore"
  /\ state' = [state EXCEPT ![pidx] = READY]
  /\ attempt' = attempt + 1
  /\ ppc' = "scan"
  /\ UNCHANGED <<refcount, last_ready, payload, stamp, newest, consumer,
                 published, pidx, prev, write_cursor, acquired>>

\* Backing off: put the old state back and go on scanning.
Restore ==
  /\ ppc = "restore"
  /\ state' = [state EXCEPT ![pidx] = prev]
  /\ attempt' = attempt + 1
  /\ ppc' = "scan"
  /\ UNCHANGED <<refcount, last_ready, payload, stamp, newest, consumer,
                 published, pidx, prev, write_cursor, acquired>>

-----------------------------------------------------------------------------
(* Producer: the writer fills the slot, then publishes or abandons it      *)

FillBegin(s) ==
  /\ ppc \in {"idle", "starved"} /\ s \in acquired
  /\ payload[s] # "torn"
  /\ payload' = [payload EXCEPT ![s] = "torn"]
  /\ UNCHANGED <<state, refcount, last_ready, stamp, newest, producer, consumer>>

\* The writer returns, and publish_slot marks the slot READY ...
PublishReady(s) ==
  /\ ppc \in {"idle", "starved"} /\ s \in acquired
  /\ payload[s] = "torn"
  /\ payload' = [payload EXCEPT ![s] = "whole"]
  /\ state' = [state EXCEPT ![s] = READY]
  /\ stamp' = [stamp EXCEPT ![s] = newest + 1]
  /\ acquired' = acquired \ {s}
  /\ pidx' = s
  /\ ppc' = "announce"
  /\ UNCHANGED <<refcount, last_ready, newest, consumer,
                 published, attempt, prev, write_cursor>>

\* ... and then points last_ready at it.
PublishLast ==
  /\ ppc = "announce"
  /\ last_ready' = pidx
  /\ newest' = newest + 1
  /\ ppc' = "idle" /\ NoLocals
  /\ UNCHANGED <<state, refcount, payload, stamp, consumer, write_cursor, acquired>>

\* Mutant: an abandoned slot stays WRITING.
AbandonBug(s) ==
  /\ ppc \in {"idle", "starved"} /\ s \in acquired
  /\ acquired' = acquired \ {s}
  /\ ppc' = "idle"
  /\ UNCHANGED <<shared, consumer, published, attempt, pidx, prev, write_cursor>>

\* shm_ring_abandon_slot: the writer threw, possibly half-way through.
Abandon(s) ==
  /\ ppc \in {"idle", "starved"} /\ s \in acquired
  /\ state' = [state EXCEPT ![s] = FREE]
  /\ acquired' = acquired \ {s}
  /\ ppc' = "idle"
  /\ UNCHANGED <<refcount, last_ready, payload, stamp, newest, consumer,
                 published, attempt, pidx, prev, write_cursor>>

-----------------------------------------------------------------------------
(* Consumer: shm_ring_retain_latest and shm_ring_release_slot              *)

\* A try begins with a load of last_ready; "idle" enters the call, "load"
\* retries.  With no frame published the call returns -1 at once.
RetainLoad(c) ==
  /\ c \in alive /\ cpc[c] \in {"idle", "load"}
  /\ last_ready # LAST_NONE
  /\ c \in Clients \/ Load < MaxLoad
  /\ cpc' = [cpc EXCEPT ![c] = "stake"]
  /\ cidx' = [cidx EXCEPT ![c] = last_ready]
  /\ loaded' = [loaded EXCEPT ![c] = newest]
  /\ IF cpc[c] = "idle"
     THEN /\ since' = [since EXCEPT ![c] = newest]
          /\ tries' = [tries EXCEPT ![c] = 0]
     ELSE UNCHANGED <<since, tries>>
  /\ UNCHANGED <<shared, producer, alive, got>>

\* fetch_add on the refcount: the stake.
RetainStake(c) ==
  /\ c \in alive /\ cpc[c] = "stake"
  /\ refcount' = [refcount EXCEPT ![cidx[c]] = @ + 1]
  /\ cpc' = [cpc EXCEPT ![c] = "verify"]
  /\ UNCHANGED <<state, last_ready, payload, stamp, newest, producer,
                 cidx, tries, alive, loaded, since, got>>

\* Load the state: READY keeps the slot, anything else gives it back.
RetainVerify(c) ==
  /\ c \in alive /\ cpc[c] = "verify"
  /\ IF state[cidx[c]] = READY
     THEN /\ cpc' = [cpc EXCEPT ![c] = "held"]
          /\ got' = [got EXCEPT ![c] = stamp[cidx[c]]]
     ELSE /\ cpc' = [cpc EXCEPT ![c] = "unstake"]
          /\ UNCHANGED got
  /\ UNCHANGED <<shared, producer, cidx, tries, alive, loaded, since>>

\* Mutant: the failed try keeps its stake.
RetainUnstakeBug(c) ==
  /\ c \in alive /\ cpc[c] = "unstake"
  /\ tries' = [tries EXCEPT ![c] = @ + 1]
  /\ cpc' = [cpc EXCEPT ![c] = IF tries[c] + 1 < RetainTries THEN "load" ELSE "idle"]
  /\ UNCHANGED <<shared, producer, cidx, alive, loaded, since, got>>

\* fetch_sub, then retry or, after SHM_RETAIN_TRIES tries, return -1.
RetainUnstake(c) ==
  /\ c \in alive /\ cpc[c] = "unstake"
  /\ refcount' = [refcount EXCEPT ![cidx[c]] = @ - 1]
  /\ tries' = [tries EXCEPT ![c] = @ + 1]
  /\ cpc' = [cpc EXCEPT ![c] = IF tries[c] + 1 < RetainTries THEN "load" ELSE "idle"]
  /\ UNCHANGED <<state, last_ready, payload, stamp, newest, producer,
                 cidx, alive, loaded, since, got>>

\* shm_ring_release_slot; what was known of the frame goes with it.
Release(c) ==
  /\ c \in alive /\ cpc[c] = "held"
  /\ refcount' = [refcount EXCEPT ![cidx[c]] = @ - 1]
  /\ cpc' = [cpc EXCEPT ![c] = "idle"]
  /\ tries' = [tries EXCEPT ![c] = 0]
  /\ loaded' = [loaded EXCEPT ![c] = 0] /\ since' = [since EXCEPT ![c] = 0]
  /\ got' = [got EXCEPT ![c] = 0]
  /\ UNCHANGED <<state, last_ready, payload, stamp, newest, producer, cidx, alive>>

\* A consumer process dies wherever it is.  Nothing gives its stake back.
Die(c) ==
  /\ c \in alive /\ c \in Mortal
  /\ alive' = alive \ {c}
  /\ UNCHANGED <<shared, producer, cpc, cidx, tries, loaded, since, got>>

-----------------------------------------------------------------------------
AcquireStep == AcquireBegin \/ ScanSkip \/ ScanTake \/ ScanStarved
               \/ Claim \/ Recheck \/ Restore
WriterStep(s) == FillBegin(s) \/ PublishReady(s) \/ Abandon(s)
RetainStep(c) == RetainLoad(c) \/ RetainStake(c) \/ RetainVerify(c) \/ RetainUnstake(c)

Next == \/ AcquireStep
        \/ PublishLast
        \/ \E s \in Slots : WriterStep(s)
        \/ \E c \in Consumers : RetainStep(c) \/ Release(c) \/ Die(c)

Spec == Init /\ [][Next]_vars

\* The producer keeps trying (the spin loop of tests/stress_shm_ring.c), a
\* consumer inside retain_latest keeps running, and one that holds a frame
\* releases it (ShmSlotView's destructor).  Nobody has to call retain_latest,
\* and nothing obliges the writer to publish.
Fairness ==
  /\ WF_vars(AcquireStep)
  /\ WF_vars(PublishLast)
  /\ \A c \in Consumers : /\ WF_vars(cpc[c] # "idle" /\ RetainStep(c))
                          /\ WF_vars(Release(c))

FairSpec == Spec /\ Fairness

-----------------------------------------------------------------------------
(* Properties                                                              *)

TypeOK ==
  /\ state \in [Slots -> {FREE, WRITING, READY}]
  /\ refcount \in [Slots -> Nat]
  /\ last_ready \in Slots \cup {LAST_NONE}
  /\ payload \in [Slots -> {"blank", "torn", "whole"}]
  /\ ppc \in {"idle", "scan", "starved", "claim", "recheck", "restore", "announce"}
  /\ published \in Slots \cup {LAST_NONE}
  /\ attempt \in Nat
  /\ pidx \in Slots
  /\ prev \in {FREE, READY}
  /\ write_cursor \in Slots
  /\ acquired \in SUBSET Slots
  /\ cpc \in [Consumers -> {"idle", "load", "stake", "verify", "unstake", "held"}]
  /\ cidx \in [Consumers -> Slots \cup {LAST_NONE}]
  /\ \A c \in Consumers : cpc[c] # "idle" => cidx[c] \in Slots
  /\ tries \in [Consumers -> Nat]
  /\ alive \in SUBSET Consumers
  /\ stamp \in [Slots -> Nat]
  /\ newest \in Nat
  /\ loaded \in [Consumers -> Nat]
  /\ since \in [Consumers -> Nat]
  /\ got \in [Consumers -> Nat]

\* A retained frame is immutable until released: its slot is not in the
\* writer's hands, its payload is complete, and it is still the frame that
\* was retained (shm_ring_retain_latest against shm_ring_acquire_slot).
RetainedFrameIntact ==
  \A c \in Consumers : cpc[c] = "held" =>
     /\ cidx[c] \notin acquired
     /\ payload[cidx[c]] = "whole"
     /\ stamp[cidx[c]] = got[c]

\* A refcount counts exactly the stakes that are out, so no interleaving of
\* failed tries, releases and deaths leaks one or gives one back twice.
RefcountExact == \A s \in Slots : refcount[s] = Cardinality(Stakes(s))

\* The slot last_ready names carries the newest announced frame, whole, and
\* no claim of the producer ever touches it, not even one it would undo.
OfferedFrameReady ==
  last_ready # LAST_NONE =>
     /\ state[last_ready] = READY
     /\ payload[last_ready] = "whole"
     /\ stamp[last_ready] = newest

\* shm_ring_retain_latest never returns a frame older than the newest one
\* announced when the call began, however the slots were reused meanwhile.
RetainFresh == \A c \in Consumers : cpc[c] = "held" => got[c] >= since[c]

\* Every try of shm_ring_retain_latest that fails lost to a newer frame, so
\* the call gives up with -1 only if RetainTries frames were announced while
\* it ran.
RetainMissNeedsChurn ==
  \A c \in Consumers : cpc[c] \in {"idle", "load"} /\ tries[c] > 0
                          => newest >= since[c] + tries[c]

\* shm_ring_acquire_slot fails only when the ring is too small for its
\* consumers: with a slot for each of them that ever asked for a frame, one for
\* the offered frame, one for each frame in the writer's hands and one to spare,
\* a scan never starves, although the consumers move between slots while it runs.
StarvedOnlyWhenFull ==
  ppc = "starved" =>
     NumSlots <= Cardinality(Clients) + Cardinality(acquired)
                   + (IF published = LAST_NONE THEN 0 ELSE 1)

\* Starvation ends: once the consumers let go, a producer that retries gets a
\* slot, since no consumer can return to a slot that is no longer offered.
\* (Unless the writer itself and consumers that died sit on every slot but the
\* offered one.)
Stuck == acquired \cup {s \in Slots : Stakes(s) \ alive # {}}
StarvedProducerProceeds ==
  ppc = "starved" ~> (ppc = "idle" \/ Slots \ Stuck \subseteq {last_ready})

\* The refinement mapping.  A frame that changed under its reader maps to
\* one the register does not have.
InRetain(c) == cpc[c] \in {"load", "stake", "verify", "unstake"}
AbsVisible == IF ppc = "announce" THEN newest + 1 ELSE newest
AbsReading == {c \in Consumers : InRetain(c)}
AbsSince   == [c \in Consumers |-> IF InRetain(c) THEN since[c] ELSE 0]
AbsHeld    == [c \in Consumers |->
                 IF cpc[c] # "held" THEN 0
                 ELSE IF payload[cidx[c]] = "whole" THEN stamp[cidx[c]] ELSE newest + 2]

LF == INSTANCE LatestFrame WITH
        Tries <- RetainTries, visible <- AbsVisible, reading <- AbsReading,
        since <- AbsSince, held <- AbsHeld

\* The ring implements the latest-frame register: every behaviour of the
\* shm_ring calls is one of LatestFrame's.
ImplementsLatestFrame == LF!LFSpec
=============================================================================
