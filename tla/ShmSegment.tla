---------------------------- MODULE ShmSegment ----------------------------
(***************************************************************************)
(* The life of a frame topic's shared-memory segment: shm_ring_create,     *)
(* shm_ring_attach and shm_ring_destroy (src/src/shm_ring.c) by several    *)
(* producer processes and consumer nodes, with producers that die.         *)
(*                                                                         *)
(* The kernel's part is modelled from how the code uses it: a name in      *)
(* /dev/shm refers to at most one segment (an inode), flock is held by an  *)
(* open description and dropped when it is closed or its process dies, and *)
(* a segment lives on without its name for as long as somebody maps it.    *)
(*                                                                         *)
(* What happens inside an initialised ring is ShmRing's; here a segment    *)
(* has one reusable slot, rewritten only at refcount zero.                 *)
(***************************************************************************)
EXTENDS Naturals, FiniteSets

CONSTANTS Producers, Consumers,
          Inodes,        \* enough for every process to have a segment of its own open
          RefModulus,    \* the refcount's 2^32
          MaxFrames,     \* bound: frames published in a behaviour
          MaxFailures,   \* bound: producers killed, and ftruncate or mmap
                         \* calls failed, in a behaviour
          NONE

ASSUME SegmentAssumption ==
  /\ IsFiniteSet(Producers) /\ IsFiniteSet(Consumers) /\ IsFiniteSet(Inodes)
  /\ Cardinality(Inodes) >= Cardinality(Producers) + Cardinality(Consumers)
  /\ RefModulus \in Nat \ {0} /\ MaxFrames \in Nat
  /\ MaxFailures \in Nat
  /\ NONE \notin Producers \cup Inodes

VARIABLES
  name,              \* the inode the topic's shm name refers to, or NONE
  lock,              \* inode -> the producer whose flock it carries, or NONE
  magic,             \* inode -> the magic word is valid
  num_slots,         \* inode -> the producer that wrote this half of the geometry
  slot_size,         \* inode -> the producer that wrote the other half
  frame,             \* inode -> the frame in its slot, 0 for none
  refcount,          \* inode -> the slot's refcount
  ppc, pino,         \* producer -> where it is, the inode its fd refers to
  cpc, cino,         \* consumer -> where it is, the inode it mapped
  cgeom,             \* consumer -> the producers whose geometry it read
  frames,            \* frames published so far; each has its own number
  failures           \* kills and system failures so far

segment  == <<lock, magic, num_slots, slot_size, frame, refcount>>
consumer == <<cpc, cino, cgeom>>
vars     == <<name, segment, ppc, pino, consumer, frames, failures>>

\* Nobody can reach this inode any more: the kernel has freed it, and hands
\* it out again blank.
Unreachable(i) == /\ name # i
                  /\ \A p \in Producers : pino[p] # i
                  /\ \A c \in Consumers : cino[c] # i
Blank(f, v) == [i \in Inodes |-> IF Unreachable(i) THEN v ELSE f[i]]

Init ==
  /\ name = NONE
  /\ lock = [i \in Inodes |-> NONE]
  /\ magic = [i \in Inodes |-> FALSE]
  /\ num_slots = [i \in Inodes |-> NONE]
  /\ slot_size = [i \in Inodes |-> NONE]
  /\ frame = [i \in Inodes |-> 0]
  /\ refcount = [i \in Inodes |-> 0]
  /\ ppc = [p \in Producers |-> "idle"]
  /\ pino = [p \in Producers |-> NONE]
  /\ cpc = [c \in Consumers |-> "idle"]
  /\ cino = [c \in Consumers |-> NONE]
  /\ cgeom = [c \in Consumers |-> {}]
  /\ frames = 0 /\ failures = 0

-----------------------------------------------------------------------------
(* shm_ring_create                                                         *)

\* shm_open(O_CREAT | O_EXCL): a fresh, empty segment, or EEXIST.
CreateExcl(p) ==
  /\ ppc[p] = "idle"
  /\ \/ /\ name = NONE
        /\ name' = CHOOSE i \in Inodes : Unreachable(i)
        /\ pino' = [pino EXCEPT ![p] = name']
        /\ lock' = Blank(lock, NONE)
        /\ magic' = Blank(magic, FALSE)
        /\ num_slots' = Blank(num_slots, NONE)
        /\ slot_size' = Blank(slot_size, NONE)
        /\ frame' = Blank(frame, 0)
        /\ refcount' = Blank(refcount, 0)
        /\ ppc' = [ppc EXCEPT ![p] = "flock"]
     \/ /\ name # NONE
        /\ ppc' = [ppc EXCEPT ![p] = "reopen"]
        /\ UNCHANGED <<name, segment, pino>>
  /\ UNCHANGED <<consumer, frames, failures>>

\* Mutant: EEXIST is an error like any other.
CreateReopenBug(p) ==
  /\ ppc[p] = "reopen"
  /\ ppc' = [ppc EXCEPT ![p] = "idle"]
  /\ UNCHANGED <<name, segment, pino, consumer, frames, failures>>

\* EEXIST: shm_open without O_CREAT, which fails if the name went meanwhile.
CreateReopen(p) ==
  /\ ppc[p] = "reopen"
  /\ \/ /\ name # NONE
        /\ pino' = [pino EXCEPT ![p] = name]
        /\ ppc' = [ppc EXCEPT ![p] = "flock"]
     \/ /\ name = NONE
        /\ ppc' = [ppc EXCEPT ![p] = "idle"]
        /\ UNCHANGED pino
  /\ UNCHANGED <<name, segment, consumer, frames, failures>>

\* Mutant: the segment is reclaimed blindly.
CreateFlockBug(p) ==
  /\ ppc[p] = "flock"
  /\ lock' = [lock EXCEPT ![pino[p]] = p]
  /\ ppc' = [ppc EXCEPT ![p] = "clear"]
  /\ UNCHANGED <<name, magic, num_slots, slot_size, frame, refcount,
                 pino, consumer, frames, failures>>

\* flock(LOCK_EX | LOCK_NB): taken, or a live producer owns the segment and
\* this one closes its descriptor.
CreateFlock(p) ==
  /\ ppc[p] = "flock"
  /\ \/ /\ lock[pino[p]] = NONE
        /\ lock' = [lock EXCEPT ![pino[p]] = p]
        /\ ppc' = [ppc EXCEPT ![p] = "clear"]
        /\ UNCHANGED pino
     \/ /\ lock[pino[p]] # NONE
        /\ pino' = [pino EXCEPT ![p] = NONE]
        /\ ppc' = [ppc EXCEPT ![p] = "idle"]
        /\ UNCHANGED lock
  /\ UNCHANGED <<name, magic, num_slots, slot_size, frame, refcount,
                 consumer, frames, failures>>

\* ftruncate or mmap fails: close, which drops the lock, then shm_unlink.
CreateFault(p) ==
  /\ ppc[p] = "clear"
  /\ failures < MaxFailures
  /\ failures' = failures + 1
  /\ lock' = [lock EXCEPT ![pino[p]] = NONE]
  /\ pino' = [pino EXCEPT ![p] = NONE]
  /\ ppc' = [ppc EXCEPT ![p] = "unlink"]
  /\ UNCHANGED <<name, magic, num_slots, slot_size, frame, refcount,
                 consumer, frames>>

\* Mutant: a reclaimed segment keeps its old magic while it is rebuilt.
ClearMagicBug(p) ==
  /\ ppc[p] = "clear"
  /\ ppc' = [ppc EXCEPT ![p] = "num"]
  /\ UNCHANGED <<name, segment, pino, consumer, frames, failures>>

\* ftruncate, mmap, and the magic word is cleared.
ClearMagic(p) ==
  /\ ppc[p] = "clear"
  /\ magic' = [magic EXCEPT ![pino[p]] = FALSE]
  /\ ppc' = [ppc EXCEPT ![p] = "num"]
  /\ UNCHANGED <<name, lock, num_slots, slot_size, frame, refcount,
                 pino, consumer, frames, failures>>

WriteNumSlots(p) ==
  /\ ppc[p] = "num"
  /\ num_slots' = [num_slots EXCEPT ![pino[p]] = p]
  /\ ppc' = [ppc EXCEPT ![p] = "size"]
  /\ UNCHANGED <<name, lock, magic, slot_size, frame, refcount,
                 pino, consumer, frames, failures>>

WriteSlotSize(p) ==
  /\ ppc[p] = "size"
  /\ slot_size' = [slot_size EXCEPT ![pino[p]] = p]
  /\ ppc' = [ppc EXCEPT ![p] = "slots"]
  /\ UNCHANGED <<name, lock, magic, num_slots, frame, refcount,
                 pino, consumer, frames, failures>>

\* last_ready and the slot headers, refcounts included, start afresh.
InitSlots(p) ==
  /\ ppc[p] = "slots"
  /\ frame' = [frame EXCEPT ![pino[p]] = 0]
  /\ refcount' = [refcount EXCEPT ![pino[p]] = 0]
  /\ ppc' = [ppc EXCEPT ![p] = "magic"]
  /\ UNCHANGED <<name, lock, magic, num_slots, slot_size,
                 pino, consumer, frames, failures>>

\* The call returns the ring.
PublishMagic(p) ==
  /\ ppc[p] = "magic"
  /\ magic' = [magic EXCEPT ![pino[p]] = TRUE]
  /\ ppc' = [ppc EXCEPT ![p] = "own"]
  /\ UNCHANGED <<name, lock, num_slots, slot_size, frame, refcount,
                 pino, consumer, frames, failures>>

-----------------------------------------------------------------------------
(* An owner's life                                                         *)

\* publish_frame into a slot nobody has retained; its handle goes out.
Publish(p) ==
  /\ ppc[p] = "own"
  /\ frames < MaxFrames
  /\ refcount[pino[p]] = 0
  /\ frames' = frames + 1
  /\ frame' = [frame EXCEPT ![pino[p]] = frames + 1]
  /\ UNCHANGED <<name, lock, magic, num_slots, slot_size, refcount,
                 ppc, pino, consumer, failures>>

\* shm_ring_destroy: munmap and close, which drops the lock ...
DestroyClose(p) ==
  /\ ppc[p] = "own"
  /\ lock' = [lock EXCEPT ![pino[p]] = NONE]
  /\ pino' = [pino EXCEPT ![p] = NONE]
  /\ ppc' = [ppc EXCEPT ![p] = "unlink"]
  /\ UNCHANGED <<name, magic, num_slots, slot_size, frame, refcount,
                 consumer, frames, failures>>

\* ... then shm_unlink, whatever segment the name refers to by now.
DestroyUnlink(p) ==
  /\ ppc[p] = "unlink"
  /\ name' = NONE
  /\ ppc' = [ppc EXCEPT ![p] = "idle"]
  /\ UNCHANGED <<segment, pino, consumer, frames, failures>>

\* A producer is killed.  The kernel drops its lock; the segment stays.
Crash(p) ==
  /\ ppc[p] # "idle"
  /\ failures < MaxFailures
  /\ failures' = failures + 1
  /\ lock' = [i \in Inodes |-> IF lock[i] = p THEN NONE ELSE lock[i]]
  /\ pino' = [pino EXCEPT ![p] = NONE]
  /\ ppc' = [ppc EXCEPT ![p] = "idle"]
  /\ UNCHANGED <<name, magic, num_slots, slot_size, frame, refcount,
                 consumer, frames>>

-----------------------------------------------------------------------------
(* A consumer node: shm_ring_attach through Node::ring_for, and its frames *)

\* attach_frame_ring, or the handler of the first frame's handle: ring_for
\* attaches.  shm_open, fstat and mmap, or no ring yet.
AttachOpen(c) ==
  /\ cpc[c] = "idle" /\ name # NONE
  /\ cino' = [cino EXCEPT ![c] = name]
  /\ cpc' = [cpc EXCEPT ![c] = "check"]
  /\ UNCHANGED <<name, segment, ppc, pino, cgeom, frames, failures>>

\* The magic word gates the attach ...
AttachCheck(c) ==
  /\ cpc[c] = "check"
  /\ IF magic[cino[c]]
     THEN cpc' = [cpc EXCEPT ![c] = "num"] /\ UNCHANGED cino
     ELSE cpc' = [cpc EXCEPT ![c] = "idle"] /\ cino' = [cino EXCEPT ![c] = NONE]
  /\ UNCHANGED <<name, segment, ppc, pino, cgeom, frames, failures>>

\* ... and the geometry is read after it, one plain load at a time.
AttachNumSlots(c) ==
  /\ cpc[c] = "num"
  /\ cgeom' = [cgeom EXCEPT ![c] = {num_slots[cino[c]]}]
  /\ cpc' = [cpc EXCEPT ![c] = "size"]
  /\ UNCHANGED <<name, segment, ppc, pino, cino, frames, failures>>

AttachSlotSize(c) ==
  /\ cpc[c] = "size"
  /\ cgeom' = [cgeom EXCEPT ![c] = @ \cup {slot_size[cino[c]]}]
  /\ cpc' = [cpc EXCEPT ![c] = "attached"]
  /\ UNCHANGED <<name, segment, ppc, pino, cino, frames, failures>>

\* The handler of a handle runs: ring_for returns the mapping it made the
\* first time, and retain_latest pins that ring's newest frame.
Retain(c) ==
  /\ cpc[c] = "attached" /\ frame[cino[c]] # 0
  /\ refcount' = [refcount EXCEPT ![cino[c]] = (@ + 1) % RefModulus]
  /\ cpc' = [cpc EXCEPT ![c] = "holding"]
  /\ UNCHANGED <<name, lock, magic, num_slots, slot_size, frame,
                 ppc, pino, cino, cgeom, frames, failures>>

\* Mutant: a signed counter.
ReleaseBug(c) ==
  /\ cpc[c] = "holding"
  /\ refcount' = [refcount EXCEPT ![cino[c]] = @ - 1]
  /\ cpc' = [cpc EXCEPT ![c] = "attached"]
  /\ UNCHANGED <<name, lock, magic, num_slots, slot_size, frame,
                 ppc, pino, cino, cgeom, frames, failures>>

\* The handler returns and the slot is released: an unsigned fetch_sub.
Release(c) ==
  /\ cpc[c] = "holding"
  /\ refcount' = [refcount EXCEPT ![cino[c]] = (@ + RefModulus - 1) % RefModulus]
  /\ cpc' = [cpc EXCEPT ![c] = "attached"]
  /\ UNCHANGED <<name, lock, magic, num_slots, slot_size, frame,
                 ppc, pino, cino, cgeom, frames, failures>>

\* The node goes away; a consumer does not unlink.
Detach(c) ==
  /\ cpc[c] = "attached"
  /\ cpc' = [cpc EXCEPT ![c] = "idle"]
  /\ cino' = [cino EXCEPT ![c] = NONE]
  /\ cgeom' = [cgeom EXCEPT ![c] = {}]
  /\ UNCHANGED <<name, segment, ppc, pino, frames, failures>>

-----------------------------------------------------------------------------
CreateStep(p) == \/ CreateExcl(p) \/ CreateReopen(p) \/ CreateFlock(p)
                 \/ ClearMagic(p) \/ WriteNumSlots(p) \/ WriteSlotSize(p)
                 \/ InitSlots(p) \/ PublishMagic(p)

Next == \/ \E p \in Producers : \/ CreateStep(p) \/ CreateFault(p)
                                \/ Publish(p) \/ DestroyClose(p) \/ DestroyUnlink(p)
                                \/ Crash(p)
        \/ \E c \in Consumers : \/ AttachOpen(c) \/ AttachCheck(c)
                                \/ AttachNumSlots(c) \/ AttachSlotSize(c)
                                \/ Retain(c) \/ Release(c) \/ Detach(c)

Spec == Init /\ [][Next]_vars

\* Producers are run by a supervisor that starts them again, and one that is
\* exiting gets to the end of shm_ring_destroy unless it is killed.
Fairness == \A p \in Producers : WF_vars(CreateStep(p)) /\ WF_vars(DestroyUnlink(p))

FairSpec == Spec /\ Fairness

\* And the consumers' handlers run: a frame's handle is served and its slot
\* released.
Served(c) == Retain(c) \/ Release(c)

ServedSpec == FairSpec /\ \A c \in Consumers : WF_vars(Served(c))

-----------------------------------------------------------------------------
(* Properties                                                              *)

TypeOK ==
  /\ name \in Inodes \cup {NONE}
  /\ lock \in [Inodes -> Producers \cup {NONE}]
  /\ magic \in [Inodes -> BOOLEAN]
  /\ num_slots \in [Inodes -> Producers \cup {NONE}]
  /\ slot_size \in [Inodes -> Producers \cup {NONE}]
  /\ frame \in [Inodes -> 0 .. MaxFrames]
  /\ refcount \in [Inodes -> 0 .. RefModulus - 1]
  /\ ppc \in [Producers -> {"idle", "reopen", "flock", "clear", "num", "size", "slots",
                            "magic", "own", "unlink"}]
  /\ pino \in [Producers -> Inodes \cup {NONE}]
  /\ cpc \in [Consumers -> {"idle", "check", "num", "size", "attached", "holding"}]
  /\ cino \in [Consumers -> Inodes \cup {NONE}]
  /\ cgeom \in [Consumers -> SUBSET (Producers \cup {NONE})]
  /\ frames \in 0 .. MaxFrames
  /\ failures \in 0 .. MaxFailures

\* Past its flock a producer is alone on its segment: through every reopen,
\* reclaim, crash and exit no two live producers initialise or own one inode.
\* (One inode, not one name: shm_ring_destroy may unlink another owner's.)
Working(p) == ppc[p] \in {"clear", "num", "size", "slots", "magic", "own"}
OneOwnerPerSegment ==
  \A p, q \in Producers : p # q /\ Working(p) /\ Working(q) => pino[p] # pino[q]

\* A segment whose magic is valid has a geometry from one producer, and it is
\* not being rebuilt: what shm_ring_create clears first and writes last, on
\* a segment blank, left by a dead owner or half rebuilt by one.  (A consumer
\* reads the geometry later than the magic: AttachSeesOneRing.)
MagicGatesInit ==
  \A i \in Inodes : magic[i] =>
    /\ num_slots[i] # NONE /\ num_slots[i] = slot_size[i]
    /\ \A p \in Producers : pino[p] = i => ppc[p] \notin {"num", "size", "slots", "magic"}

\* The topic always gets an owner again: no sequence of kills, exits and
\* simultaneous restarts locks it out or has the producers refuse each other
\* for ever.
TopicRecovers == []<>(\E p \in Producers : ppc[p] = "own")

-----------------------------------------------------------------------------
(* What the comments and the changelog promise, and the code does not keep *)

Attached(c) == cpc[c] \in {"attached", "holding"}

\* shm_ring_create: "a consumer that reads MAGIC is guaranteed to see the
\* fully initialized control block and slots", so an attached consumer has
\* the geometry of one ring.  It reads it after the magic, and a producer may
\* reclaim the segment in between.
AttachSeesOneRing == \A c \in Consumers : Attached(c) => Cardinality(cgeom[c]) = 1

\* CHANGELOG: two producers on one topic fail loudly rather than "each taking
\* a segment and splitting the topic in silence".  shm_ring_destroy unlinks
\* by name after it has dropped the lock, so the name may be a new owner's.
OneOwnerPerTopic ==
  \A p, q \in Producers : ppc[p] = "own" /\ ppc[q] = "own" => p = q

\* CHANGELOG: "a producer can restart under a running consumer".  A consumer
\* mapped to another segment than the one its topic's owner publishes into
\* does not stay so while both run: but ring_for keeps the first mapping.
Stale(p, c) == /\ ppc[p] = "own" /\ name = pino[p] /\ frame[pino[p]] # 0
               /\ Attached(c) /\ cino[c] # pino[p]
RestartReaches == \A p \in Producers, c \in Consumers : Stale(p, c) ~> ~Stale(p, c)
=============================================================================
