-------------------------- MODULE ShmSegmentProofs --------------------------
(***************************************************************************)
(* ShmSegment's safety properties, for any number of producers, consumers, *)
(* frames and failures, and for enough inodes.                             *)
(***************************************************************************)
EXTENDS ShmSegment, FiniteSetTheorems, FunctionTheorems, TLAPS

\* A producer has a descriptor exactly between its shm_open and its close, and
\* holds the flock of what it refers to once it has taken it.
FdInv ==
  \A p \in Producers : /\ ppc[p] \in {"idle", "reopen", "unlink"} <=> pino[p] = NONE
                       /\ Working(p) => lock[pino[p]] = p

\* A lock belongs to a live producer that works on that inode.
LockInv ==
  \A i \in Inodes : lock[i] # NONE => Working(lock[i]) /\ pino[lock[i]] = i

\* What shm_ring_create has done to its segment by each of its stages.
StageInv ==
  \A p \in Producers :
    /\ ppc[p] \in {"num", "size", "slots", "magic"} => ~magic[pino[p]]
    /\ ppc[p] \in {"size", "slots", "magic"} => num_slots[pino[p]] = p
    /\ ppc[p] \in {"slots", "magic"} => slot_size[pino[p]] = p

\* A valid magic word stands over one producer's geometry.
GeometryInv ==
  \A i \in Inodes : magic[i] => num_slots[i] # NONE /\ num_slots[i] = slot_size[i]

\* A consumer maps an inode from its shm_open on, and once past the magic word
\* it maps one whose geometry was written, by whomever.
ConsumerInv ==
  \A c \in Consumers :
    /\ cpc[c] = "idle" <=> cino[c] = NONE
    /\ cpc[c] \notin {"idle", "check"} =>
         num_slots[cino[c]] # NONE /\ slot_size[cino[c]] # NONE
    /\ NONE \notin cgeom[c]

IInv == TypeOK /\ FdInv /\ LockInv /\ StageInv /\ GeometryInv /\ ConsumerInv

-----------------------------------------------------------------------------
\* A function has at most as many values on a finite set as the set has members.
LEMMA FewValues ==
  ASSUME NEW S, IsFiniteSet(S), NEW f
  PROVE  /\ IsFiniteSet({f[x] : x \in S})
         /\ Cardinality({f[x] : x \in S}) <= Cardinality(S)
<1> DEFINE T == {f[x] : x \in S}
           g == [x \in S |-> f[x]]
<1>1. g \in Surjection(S, T)
    BY DEF Surjection
<1> HIDE DEF g
<1> QED
    BY <1>1, FS_Surjection

\* A producer that asks for a new segment can be given one: the others, and the
\* consumers, have fewer open than there are inodes.
LEMMA FreshInode ==
  ASSUME NEW p \in Producers, IInv, ppc[p] = "idle", name = NONE
  PROVE  \E i \in Inodes : Unreachable(i)
<1> DEFINE Others == Producers \ {p}
           P == {pino[q] : q \in Others}
           C == {cino[c] : c \in Consumers}
<1>1. IsFiniteSet(Others) /\ Cardinality(Others) = Cardinality(Producers) - 1
    BY SegmentAssumption, FS_RemoveElement
<1>2. IsFiniteSet(P) /\ Cardinality(P) <= Cardinality(Others)
    BY <1>1, FewValues
<1>3. IsFiniteSet(C) /\ Cardinality(C) <= Cardinality(Consumers)
    BY SegmentAssumption, FewValues
<1> HIDE DEF P, C
<1>4. IsFiniteSet(P \cup C)
      /\ Cardinality(P \cup C) = Cardinality(P) + Cardinality(C) - Cardinality(P \cap C)
    BY <1>2, <1>3, FS_Union
<1>5. /\ Cardinality(P) \in Nat /\ Cardinality(C) \in Nat /\ Cardinality(P \cap C) \in Nat
      /\ Cardinality(Producers) \in Nat /\ Cardinality(Consumers) \in Nat
      /\ Cardinality(Inodes) \in Nat
    BY <1>2, <1>3, FS_CardinalityType, FS_Intersection, SegmentAssumption
<1>6. Cardinality(P \cup C) < Cardinality(Inodes)
    BY <1>1, <1>2, <1>3, <1>4, <1>5, SegmentAssumption
<1>7. ~(Inodes \subseteq P \cup C)
  <2> SUFFICES ASSUME Inodes \subseteq P \cup C PROVE FALSE
      OBVIOUS
  <2>1. Cardinality(Inodes) <= Cardinality(P \cup C)
      BY <1>4, FS_Subset
  <2> QED
      BY <2>1, <1>4, <1>5, <1>6, FS_CardinalityType
<1>8. PICK i \in Inodes : i \notin P \cup C
    BY <1>7
<1>9. pino[p] = NONE /\ i # NONE
    BY SegmentAssumption DEF IInv, FdInv
<1> QED
    BY <1>8, <1>9 DEF Unreachable, P, C

\* The segments start in IInv.
LEMMA InitIInv == Init => IInv
<1> SUFFICES ASSUME Init PROVE IInv
    OBVIOUS
<1> USE DEF Init
<1>1. TypeOK
    BY SegmentAssumption DEF TypeOK
<1>2. FdInv /\ LockInv /\ StageInv
    BY DEF FdInv, LockInv, StageInv, Working
<1>3. GeometryInv /\ ConsumerInv
    BY DEF GeometryInv, ConsumerInv
<1> QED
    BY <1>1, <1>2, <1>3 DEF IInv

\* shm_open(O_CREAT | O_EXCL): blanking the freed inodes takes nothing from
\* anybody, and the new one is nobody else's.
LEMMA ExclStep == ASSUME NEW p \in Producers, IInv, CreateExcl(p) PROVE IInv'
<1> USE DEF IInv
<1>1. CASE name # NONE
  <2>1. /\ ppc[p] = "idle" /\ ppc' = [ppc EXCEPT ![p] = "reopen"]
        /\ UNCHANGED <<name, segment, pino, consumer, frames, failures>>
      BY <1>1 DEF CreateExcl
  <2>2. TypeOK'
      BY <2>1 DEF TypeOK, segment, consumer
  <2>3. FdInv' /\ StageInv'
      BY <2>1 DEF TypeOK, FdInv, StageInv, Working, segment
  <2>4. LockInv'
      BY <2>1 DEF TypeOK, LockInv, Working, segment
  <2>5. GeometryInv' /\ ConsumerInv'
      BY <2>1 DEF GeometryInv, ConsumerInv, segment, consumer
  <2> QED
      BY <2>2, <2>3, <2>4, <2>5
<1>2. CASE name = NONE
  <2>1. name' \in Inodes /\ Unreachable(name')
      BY <1>2, FreshInode DEF CreateExcl
  <2>2. name' # NONE
      BY <2>1, SegmentAssumption
  <2>3. /\ lock' = Blank(lock, NONE) /\ magic' = Blank(magic, FALSE)
        /\ num_slots' = Blank(num_slots, NONE) /\ slot_size' = Blank(slot_size, NONE)
        /\ frame' = Blank(frame, 0) /\ refcount' = Blank(refcount, 0)
        /\ pino' = [pino EXCEPT ![p] = name']
        /\ ppc' = [ppc EXCEPT ![p] = "flock"] /\ ppc[p] = "idle"
        /\ UNCHANGED <<consumer, frames, failures>>
      BY <1>2 DEF CreateExcl
  <2>4. TypeOK'
    <3>1. magic' \in [Inodes -> BOOLEAN]
        BY <2>3 DEF TypeOK, Blank
    <3>2. /\ lock' \in [Inodes -> Producers \cup {NONE}]
          /\ num_slots' \in [Inodes -> Producers \cup {NONE}]
          /\ slot_size' \in [Inodes -> Producers \cup {NONE}]
        BY <2>3 DEF TypeOK, Blank
    <3>3. frame' \in [Inodes -> 0 .. MaxFrames] /\ refcount' \in [Inodes -> 0 .. RefModulus - 1]
        BY <2>3, SegmentAssumption DEF TypeOK, Blank
    <3> QED
        BY <2>1, <2>3, <3>1, <3>2, <3>3 DEF TypeOK, consumer
  <2>5. \A i \in Inodes : lock'[i] = lock[i]
    <3>1. \A i \in Inodes : lock[i] # NONE => pino[lock[i]] = i /\ lock[i] \in Producers
        BY DEF LockInv, TypeOK
    <3> QED
        BY <2>3, <3>1 DEF Blank, Unreachable
  <2>6. /\ \A q \in Producers : q # p => pino'[q] = pino[q] /\ ppc'[q] = ppc[q] /\ pino[q] # name'
        /\ pino'[p] = name' /\ ppc'[p] = "flock"
      BY <2>1, <2>3 DEF TypeOK, Unreachable
  <2>7. FdInv'
      BY <2>2, <2>5, <2>6, <2>4 DEF FdInv, Working, TypeOK
  <2>8. LockInv'
    <3> SUFFICES ASSUME NEW i \in Inodes, lock[i] # NONE
                 PROVE  ppc'[lock[i]] = ppc[lock[i]] /\ pino'[lock[i]] = i
        BY <2>5 DEF LockInv, Working
    <3>1. Working(lock[i]) /\ pino[lock[i]] = i /\ lock[i] \in Producers
        BY DEF LockInv, TypeOK
    <3>2. lock[i] # p
        BY <3>1, <2>3 DEF Working
    <3> QED
        BY <3>1, <3>2, <2>6 DEF Working
  <2>9. StageInv'
    <3> SUFFICES ASSUME NEW q \in Producers, q # p, pino[q] \in Inodes
                 PROVE  /\ magic'[pino[q]] = magic[pino[q]]
                        /\ num_slots'[pino[q]] = num_slots[pino[q]]
                        /\ slot_size'[pino[q]] = slot_size[pino[q]]
      <4>1. \A q \in Producers : ppc'[q] \in {"num", "size", "slots", "magic"} =>
               q # p /\ ppc'[q] = ppc[q] /\ pino'[q] = pino[q] /\ pino[q] \in Inodes
          BY <2>6 DEF FdInv, TypeOK
      <4> QED
          BY <4>1 DEF StageInv
    <3> QED
        BY <2>3 DEF Blank, Unreachable
  <2>10. GeometryInv'
      BY <2>3 DEF GeometryInv, Blank
  <2>11. ConsumerInv'
    <3>1. \A c \in Consumers : cino[c] \in Inodes =>
             num_slots'[cino[c]] = num_slots[cino[c]] /\ slot_size'[cino[c]] = slot_size[cino[c]]
        BY <2>3 DEF Blank, Unreachable
    <3> QED
        BY <3>1, <2>3 DEF ConsumerInv, consumer, TypeOK
  <2> QED
      BY <2>4, <2>7, <2>8, <2>9, <2>10, <2>11
<1> QED
    BY <1>1, <1>2

\* The second shm_open: a descriptor without a lock, or none.
LEMMA ReopenStep == ASSUME NEW p \in Producers, IInv, CreateReopen(p) PROVE IInv'
<1> USE DEF IInv, CreateReopen
<1>1. TypeOK'
    BY SegmentAssumption DEF TypeOK, segment, consumer
<1>2. FdInv'
    BY SegmentAssumption DEF TypeOK, FdInv, LockInv, Working, segment
<1>3. LockInv'
    BY SegmentAssumption DEF TypeOK, FdInv, LockInv, Working, segment
<1>4. StageInv'
    BY SegmentAssumption DEF TypeOK, FdInv, StageInv, Working, segment
<1>5. GeometryInv'
    BY SegmentAssumption DEF TypeOK, FdInv, GeometryInv, StageInv, Working, segment
<1>6. ConsumerInv'
    BY SegmentAssumption DEF TypeOK, ConsumerInv, segment, consumer
<1> QED
    BY <1>1, <1>2, <1>3, <1>4, <1>5, <1>6

\* flock: the lock was free, so nobody works on the segment, or it is left alone.
LEMMA FlockStep == ASSUME NEW p \in Producers, IInv, CreateFlock(p) PROVE IInv'
<1> USE DEF IInv, CreateFlock
<1>1. TypeOK'
    BY SegmentAssumption DEF TypeOK, segment, consumer
<1>2. FdInv'
    BY SegmentAssumption DEF TypeOK, FdInv, LockInv, Working, segment
<1>3. LockInv'
    BY SegmentAssumption DEF TypeOK, FdInv, LockInv, Working, segment
<1>4. StageInv'
    BY SegmentAssumption DEF TypeOK, FdInv, StageInv, Working, segment
<1>5. GeometryInv'
    BY SegmentAssumption DEF TypeOK, FdInv, GeometryInv, StageInv, Working, segment
<1>6. ConsumerInv'
    BY SegmentAssumption DEF TypeOK, ConsumerInv, segment, consumer
<1> QED
    BY <1>1, <1>2, <1>3, <1>4, <1>5, <1>6

\* A failed ftruncate or mmap gives back the lock and the descriptor.
LEMMA FaultStep == ASSUME NEW p \in Producers, IInv, CreateFault(p) PROVE IInv'
<1> USE DEF IInv, CreateFault
<1>1. TypeOK'
  <2>1. failures' \in 0 .. MaxFailures
      BY SegmentAssumption DEF TypeOK
  <2> QED
      BY <2>1 DEF TypeOK, consumer
<1>2. FdInv'
    BY SegmentAssumption DEF TypeOK, FdInv, LockInv, Working, segment
<1>3. LockInv'
    BY SegmentAssumption DEF TypeOK, FdInv, LockInv, Working, segment
<1>4. StageInv'
    BY SegmentAssumption DEF TypeOK, FdInv, StageInv, Working, segment
<1>5. GeometryInv'
    BY SegmentAssumption DEF TypeOK, FdInv, GeometryInv, StageInv, Working, segment
<1>6. ConsumerInv'
    BY SegmentAssumption DEF TypeOK, ConsumerInv, segment, consumer
<1> QED
    BY <1>1, <1>2, <1>3, <1>4, <1>5, <1>6

\* The magic word goes before anything else is rebuilt.
LEMMA ClearStep == ASSUME NEW p \in Producers, IInv, ClearMagic(p) PROVE IInv'
<1> USE DEF IInv, ClearMagic
<1>1. TypeOK'
    BY SegmentAssumption DEF TypeOK, segment, consumer
<1>2. FdInv'
    BY SegmentAssumption DEF TypeOK, FdInv, LockInv, Working, segment
<1>3. LockInv'
    BY SegmentAssumption DEF TypeOK, FdInv, LockInv, Working, segment
<1>4. StageInv'
    BY SegmentAssumption DEF TypeOK, FdInv, StageInv, Working, segment
<1>5. GeometryInv'
    BY SegmentAssumption DEF TypeOK, FdInv, GeometryInv, StageInv, Working, segment
<1>6. ConsumerInv'
    BY SegmentAssumption DEF TypeOK, ConsumerInv, segment, consumer
<1> QED
    BY <1>1, <1>2, <1>3, <1>4, <1>5, <1>6

\* Only the lock holder writes the geometry, and under a cleared magic word.
LEMMA NumStep == ASSUME NEW p \in Producers, IInv, WriteNumSlots(p) PROVE IInv'
<1> USE DEF IInv, WriteNumSlots
<1>1. TypeOK'
    BY SegmentAssumption DEF TypeOK, segment, consumer
<1>2. FdInv'
    BY SegmentAssumption DEF TypeOK, FdInv, LockInv, Working, segment
<1>3. LockInv'
    BY SegmentAssumption DEF TypeOK, FdInv, LockInv, Working, segment
<1>4. StageInv'
    BY SegmentAssumption DEF TypeOK, FdInv, StageInv, Working, segment
<1>5. GeometryInv'
    BY SegmentAssumption DEF TypeOK, FdInv, GeometryInv, StageInv, Working, segment
<1>6. ConsumerInv'
    BY SegmentAssumption DEF TypeOK, ConsumerInv, segment, consumer
<1> QED
    BY <1>1, <1>2, <1>3, <1>4, <1>5, <1>6

\* The other half of the geometry.
LEMMA SizeStep == ASSUME NEW p \in Producers, IInv, WriteSlotSize(p) PROVE IInv'
<1> USE DEF IInv, WriteSlotSize
<1>1. TypeOK'
    BY SegmentAssumption DEF TypeOK, segment, consumer
<1>2. FdInv'
    BY SegmentAssumption DEF TypeOK, FdInv, LockInv, Working, segment
<1>3. LockInv'
    BY SegmentAssumption DEF TypeOK, FdInv, LockInv, Working, segment
<1>4. StageInv'
    BY SegmentAssumption DEF TypeOK, FdInv, StageInv, Working, segment
<1>5. GeometryInv'
    BY SegmentAssumption DEF TypeOK, FdInv, GeometryInv, StageInv, Working, segment
<1>6. ConsumerInv'
    BY SegmentAssumption DEF TypeOK, ConsumerInv, segment, consumer
<1> QED
    BY <1>1, <1>2, <1>3, <1>4, <1>5, <1>6

\* The slot headers start afresh.
LEMMA SlotsStep == ASSUME NEW p \in Producers, IInv, InitSlots(p) PROVE IInv'
<1> USE DEF IInv, InitSlots
<1>1. TypeOK'
  <2>1. 0 \in 0 .. MaxFrames /\ 0 \in 0 .. RefModulus - 1
      BY SegmentAssumption
  <2>2. frame' \in [Inodes -> 0 .. MaxFrames]
      BY <2>1 DEF TypeOK
  <2>3. refcount' \in [Inodes -> 0 .. RefModulus - 1]
      BY <2>1 DEF TypeOK
  <2> QED
      BY <2>2, <2>3 DEF TypeOK, consumer
<1>2. FdInv'
    BY SegmentAssumption DEF TypeOK, FdInv, LockInv, Working, segment
<1>3. LockInv'
    BY SegmentAssumption DEF TypeOK, FdInv, LockInv, Working, segment
<1>4. StageInv'
    BY SegmentAssumption DEF TypeOK, FdInv, StageInv, Working, segment
<1>5. GeometryInv'
    BY SegmentAssumption DEF TypeOK, FdInv, GeometryInv, StageInv, Working, segment
<1>6. ConsumerInv'
    BY SegmentAssumption DEF TypeOK, ConsumerInv, segment, consumer
<1> QED
    BY <1>1, <1>2, <1>3, <1>4, <1>5, <1>6

\* The magic word comes back over the geometry its own producer wrote.
LEMMA MagicStep == ASSUME NEW p \in Producers, IInv, PublishMagic(p) PROVE IInv'
<1> USE DEF IInv, PublishMagic
<1>1. TypeOK'
    BY SegmentAssumption DEF TypeOK, segment, consumer
<1>2. FdInv'
    BY SegmentAssumption DEF TypeOK, FdInv, LockInv, Working, segment
<1>3. LockInv'
    BY SegmentAssumption DEF TypeOK, FdInv, LockInv, Working, segment
<1>4. StageInv'
    BY SegmentAssumption DEF TypeOK, FdInv, StageInv, Working, segment
<1>5. GeometryInv'
    BY SegmentAssumption DEF TypeOK, FdInv, GeometryInv, StageInv, Working, segment
<1>6. ConsumerInv'
    BY SegmentAssumption DEF TypeOK, ConsumerInv, segment, consumer
<1> QED
    BY <1>1, <1>2, <1>3, <1>4, <1>5, <1>6

\* A frame changes the slot only.
LEMMA PublishStep == ASSUME NEW p \in Producers, IInv, Publish(p) PROVE IInv'
<1> USE DEF IInv, Publish
<1>1. TypeOK'
  <2>1. frames' \in 0 .. MaxFrames
      BY SegmentAssumption DEF TypeOK
  <2>2. frame' \in [Inodes -> 0 .. MaxFrames]
      BY <2>1 DEF TypeOK
  <2> QED
      BY <2>1, <2>2 DEF TypeOK, consumer
<1>2. FdInv'
    BY SegmentAssumption DEF TypeOK, FdInv, LockInv, Working, segment
<1>3. LockInv'
    BY SegmentAssumption DEF TypeOK, FdInv, LockInv, Working, segment
<1>4. StageInv'
    BY SegmentAssumption DEF TypeOK, FdInv, StageInv, Working, segment
<1>5. GeometryInv'
    BY SegmentAssumption DEF TypeOK, FdInv, GeometryInv, StageInv, Working, segment
<1>6. ConsumerInv'
    BY SegmentAssumption DEF TypeOK, ConsumerInv, segment, consumer
<1> QED
    BY <1>1, <1>2, <1>3, <1>4, <1>5, <1>6

\* close gives back the lock and the descriptor.
LEMMA CloseStep == ASSUME NEW p \in Producers, IInv, DestroyClose(p) PROVE IInv'
<1> USE DEF IInv, DestroyClose
<1>1. TypeOK'
    BY SegmentAssumption DEF TypeOK, segment, consumer
<1>2. FdInv'
    BY SegmentAssumption DEF TypeOK, FdInv, LockInv, Working, segment
<1>3. LockInv'
    BY SegmentAssumption DEF TypeOK, FdInv, LockInv, Working, segment
<1>4. StageInv'
    BY SegmentAssumption DEF TypeOK, FdInv, StageInv, Working, segment
<1>5. GeometryInv'
    BY SegmentAssumption DEF TypeOK, FdInv, GeometryInv, StageInv, Working, segment
<1>6. ConsumerInv'
    BY SegmentAssumption DEF TypeOK, ConsumerInv, segment, consumer
<1> QED
    BY <1>1, <1>2, <1>3, <1>4, <1>5, <1>6

\* shm_unlink takes the name, and no lock and no mapping.
LEMMA UnlinkStep == ASSUME NEW p \in Producers, IInv, DestroyUnlink(p) PROVE IInv'
<1> USE DEF IInv, DestroyUnlink
<1>1. TypeOK'
    BY SegmentAssumption DEF TypeOK, segment, consumer
<1>2. FdInv'
    BY SegmentAssumption DEF TypeOK, FdInv, LockInv, Working, segment
<1>3. LockInv'
    BY SegmentAssumption DEF TypeOK, FdInv, LockInv, Working, segment
<1>4. StageInv'
    BY SegmentAssumption DEF TypeOK, FdInv, StageInv, Working, segment
<1>5. GeometryInv'
    BY SegmentAssumption DEF TypeOK, FdInv, GeometryInv, StageInv, Working, segment
<1>6. ConsumerInv'
    BY SegmentAssumption DEF TypeOK, ConsumerInv, segment, consumer
<1> QED
    BY <1>1, <1>2, <1>3, <1>4, <1>5, <1>6

\* A kill gives back the lock and the descriptor, wherever it strikes.
LEMMA CrashStep == ASSUME NEW p \in Producers, IInv, Crash(p) PROVE IInv'
<1> USE DEF IInv, Crash
<1>1. TypeOK'
    BY SegmentAssumption DEF TypeOK, segment, consumer
<1>2. FdInv'
    BY SegmentAssumption DEF TypeOK, FdInv, LockInv, Working, segment
<1>3. LockInv'
    BY SegmentAssumption DEF TypeOK, FdInv, LockInv, Working, segment
<1>4. StageInv'
    BY SegmentAssumption DEF TypeOK, FdInv, StageInv, Working, segment
<1>5. GeometryInv'
    BY SegmentAssumption DEF TypeOK, FdInv, GeometryInv, StageInv, Working, segment
<1>6. ConsumerInv'
    BY SegmentAssumption DEF TypeOK, ConsumerInv, segment, consumer
<1> QED
    BY <1>1, <1>2, <1>3, <1>4, <1>5, <1>6

\* A consumer maps what the name refers to.
LEMMA OpenStep == ASSUME NEW c \in Consumers, IInv, AttachOpen(c) PROVE IInv'
<1> USE DEF IInv, AttachOpen
<1>1. TypeOK'
    BY SegmentAssumption DEF TypeOK, segment
<1>2. FdInv' /\ LockInv' /\ StageInv' /\ GeometryInv'
    BY DEF FdInv, LockInv, StageInv, GeometryInv, Working, segment
<1>3. ConsumerInv'
    BY SegmentAssumption DEF TypeOK, ConsumerInv, GeometryInv, segment
<1> QED
    BY <1>1, <1>2, <1>3

\* Past the magic word the geometry has been written.
LEMMA CheckStep == ASSUME NEW c \in Consumers, IInv, AttachCheck(c) PROVE IInv'
<1> USE DEF IInv, AttachCheck
<1>1. TypeOK'
    BY SegmentAssumption DEF TypeOK, segment
<1>2. FdInv' /\ LockInv' /\ StageInv' /\ GeometryInv'
    BY DEF FdInv, LockInv, StageInv, GeometryInv, Working, segment
<1>3. ConsumerInv'
    BY SegmentAssumption DEF TypeOK, ConsumerInv, GeometryInv, segment
<1> QED
    BY <1>1, <1>2, <1>3

\* What is read was written by a producer.
LEMMA ReadNumStep == ASSUME NEW c \in Consumers, IInv, AttachNumSlots(c) PROVE IInv'
<1> USE DEF IInv, AttachNumSlots
<1>1. TypeOK'
  <2>1. cino[c] \in Inodes
      BY DEF TypeOK, ConsumerInv
  <2>2. cgeom' \in [Consumers -> SUBSET (Producers \cup {NONE})]
      BY <2>1 DEF TypeOK
  <2> QED
      BY <2>2 DEF TypeOK, segment
<1>2. FdInv' /\ LockInv' /\ StageInv' /\ GeometryInv'
    BY DEF FdInv, LockInv, StageInv, GeometryInv, Working, segment
<1>3. ConsumerInv'
    BY SegmentAssumption DEF TypeOK, ConsumerInv, GeometryInv, segment
<1> QED
    BY <1>1, <1>2, <1>3

\* The other half of the geometry is read.
LEMMA ReadSizeStep == ASSUME NEW c \in Consumers, IInv, AttachSlotSize(c) PROVE IInv'
<1> USE DEF IInv, AttachSlotSize
<1>1. TypeOK'
  <2>1. cino[c] \in Inodes
      BY DEF TypeOK, ConsumerInv
  <2>2. cgeom' \in [Consumers -> SUBSET (Producers \cup {NONE})]
      BY <2>1 DEF TypeOK
  <2> QED
      BY <2>2 DEF TypeOK, segment
<1>2. FdInv' /\ LockInv' /\ StageInv' /\ GeometryInv'
    BY DEF FdInv, LockInv, StageInv, GeometryInv, Working, segment
<1>3. ConsumerInv'
    BY SegmentAssumption DEF TypeOK, ConsumerInv, GeometryInv, segment
<1> QED
    BY <1>1, <1>2, <1>3

\* A refcount wraps at its modulus.
LEMMA RetainStep == ASSUME NEW c \in Consumers, IInv, Retain(c) PROVE IInv'
<1> USE DEF IInv, Retain
<1>1. TypeOK'
  <2>1. cino[c] \in Inodes
      BY DEF TypeOK, ConsumerInv
  <2>2. (refcount[cino[c]] + 1) % RefModulus \in 0 .. RefModulus - 1
      BY <2>1, SegmentAssumption DEF TypeOK
  <2>3. refcount' \in [Inodes -> 0 .. RefModulus - 1]
      BY <2>2 DEF TypeOK
  <2> QED
      BY <2>3 DEF TypeOK
<1>2. FdInv' /\ LockInv' /\ StageInv' /\ GeometryInv'
    BY DEF FdInv, LockInv, StageInv, GeometryInv, Working, segment
<1>3. ConsumerInv'
    BY SegmentAssumption DEF TypeOK, ConsumerInv, GeometryInv, segment
<1> QED
    BY <1>1, <1>2, <1>3

\* An unsigned decrement stays in range.
LEMMA ReleaseStep == ASSUME NEW c \in Consumers, IInv, Release(c) PROVE IInv'
<1> USE DEF IInv, Release
<1>1. TypeOK'
  <2>1. cino[c] \in Inodes
      BY DEF TypeOK, ConsumerInv
  <2>2. (refcount[cino[c]] + RefModulus - 1) % RefModulus \in 0 .. RefModulus - 1
      BY <2>1, SegmentAssumption DEF TypeOK
  <2>3. refcount' \in [Inodes -> 0 .. RefModulus - 1]
      BY <2>2 DEF TypeOK
  <2> QED
      BY <2>3 DEF TypeOK
<1>2. FdInv' /\ LockInv' /\ StageInv' /\ GeometryInv'
    BY DEF FdInv, LockInv, StageInv, GeometryInv, Working, segment
<1>3. ConsumerInv'
    BY SegmentAssumption DEF TypeOK, ConsumerInv, GeometryInv, segment
<1> QED
    BY <1>1, <1>2, <1>3

\* A consumer that leaves drops its mapping.
LEMMA DetachStep == ASSUME NEW c \in Consumers, IInv, Detach(c) PROVE IInv'
<1> USE DEF IInv, Detach
<1>1. TypeOK'
    BY SegmentAssumption DEF TypeOK, segment
<1>2. FdInv' /\ LockInv' /\ StageInv' /\ GeometryInv'
    BY DEF FdInv, LockInv, StageInv, GeometryInv, Working, segment
<1>3. ConsumerInv'
    BY SegmentAssumption DEF TypeOK, ConsumerInv, GeometryInv, segment
<1> QED
    BY <1>1, <1>2, <1>3

-----------------------------------------------------------------------------
\* Any step keeps IInv.
LEMMA NextIInv == IInv /\ [Next]_vars => IInv'
<1> SUFFICES ASSUME IInv, [Next]_vars PROVE IInv'
    OBVIOUS
<1>1. CASE UNCHANGED vars
    BY <1>1 DEF IInv, TypeOK, FdInv, LockInv, StageInv, GeometryInv, ConsumerInv, Working,
                vars, segment, consumer
<1>2. ASSUME NEW p \in Producers,
             CreateStep(p) \/ CreateFault(p) \/ Publish(p) \/ DestroyClose(p)
               \/ DestroyUnlink(p) \/ Crash(p)
      PROVE  IInv'
    BY <1>2, ExclStep, ReopenStep, FlockStep, FaultStep, ClearStep, NumStep, SizeStep, SlotsStep,
       MagicStep, PublishStep, CloseStep, UnlinkStep, CrashStep DEF CreateStep
<1>3. ASSUME NEW c \in Consumers,
             AttachOpen(c) \/ AttachCheck(c) \/ AttachNumSlots(c) \/ AttachSlotSize(c)
               \/ Retain(c) \/ Release(c) \/ Detach(c)
      PROVE  IInv'
    BY <1>3, OpenStep, CheckStep, ReadNumStep, ReadSizeStep, RetainStep, ReleaseStep, DetachStep
<1> QED
    BY <1>1, <1>2, <1>3 DEF Next

\* IInv is an invariant of the segments' specification.
LEMMA SpecIInv == Spec => []IInv
BY InitIInv, NextIInv, PTL DEF Spec

\* Every variable of the segment model keeps its type: no refcount leaves its
\* width, whatever is reclaimed under its holders.
THEOREM SegmentTypeCorrect == Spec => []TypeOK
<1>1. IInv => TypeOK
    BY DEF IInv
<1> QED
    BY <1>1, SpecIInv, PTL

\* However shm_ring_create, shm_ring_destroy and kills interleave, no two live
\* producers initialise or own one segment.
THEOREM SegmentsHaveOneOwner == Spec => []OneOwnerPerSegment
<1>1. IInv => OneOwnerPerSegment
    BY DEF IInv, FdInv, OneOwnerPerSegment
<1> QED
    BY <1>1, SpecIInv, PTL

\* A valid magic word means one producer's finished geometry, on a segment that
\* nobody is rebuilding (shm_ring.c:170, 181).
THEOREM MagicWordGatesInit == Spec => []MagicGatesInit
<1>1. IInv => MagicGatesInit
    BY DEF IInv, StageInv, GeometryInv, MagicGatesInit
<1> QED
    BY <1>1, SpecIInv, PTL
=============================================================================
