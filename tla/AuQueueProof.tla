---------------------------- MODULE AuQueueProof ----------------------------
(***************************************************************************)
(* The safety of the access-unit queue and of the double buffer, proved    *)
(* for every number of slots, AUs, bursts and spurious wakeups.            *)
(*                                                                         *)
(* Neither SlotStable nor ReadyTextureWhole is inductive: that no one      *)
(* overwrites the slot in the decode thread's hands follows from where     *)
(* au_write points (RingCursors), which follows from who may move the      *)
(* cursors (MutexOwner) and from the slot being kept in the count until    *)
(* the decode thread is done with it (SlotHeld).                           *)
(***************************************************************************)
EXTENDS AuQueue, SequenceTheorems, TLAPS

\* au_mutex is owned exactly in the two threads' critical sections.
MutexOwner ==
    /\ mutex = "main" <=> main_pc \in {"locked", "copy"}
    /\ mutex = "decode" <=> dec_pc \in {"check", "release"}

\* au_write is au_count slots after au_read, around the ring.
RingCursors ==
    au_write = IF au_read + au_count < SlotCount
               THEN au_read + au_count
               ELSE au_read + au_count - SlotCount

\* While the decode thread works on a slot the slot is the oldest one, still
\* counted, and holds the AU taken.
SlotHeld ==
    Holding => au_count > 0 /\ idx = au_read /\ au_slots[idx] = dec_au

\* The AUs of the current burst stay within the AUs the phone sends, and a
\* copy is under way only if a slot was free.
FeedBound ==
    /\ cut + burst <= MaxAU
    /\ main_pc \in {"feed", "locked", "copy"} => burst > 0
    /\ main_pc = "copy" => au_count < SlotCount

\* The decoder's target is the texture that is not ready.
TextureTarget ==
    /\ tex[ready_tex] = published
    /\ dec_pc \in {"decoding", "writing", "publish"} => back = 1 - ready_tex

IInv == TypeOK /\ MutexOwner /\ RingCursors /\ SlotHeld /\ FeedBound /\ TextureTarget

-----------------------------------------------------------------------------
\* One step of a cursor around the ring (lines 180 and 209).
LEMMA NextSlotIs ==
    ASSUME NEW i \in Slots
    PROVE  /\ NextSlot(i) = IF i + 1 = SlotCount THEN 0 ELSE i + 1
           /\ NextSlot(i) \in Slots
<1>1. CASE i + 1 = SlotCount
  BY <1>1, SlotCountAssumption DEF NextSlot, Slots
<1>2. CASE i + 1 < SlotCount
  BY <1>2, SlotCountAssumption DEF NextSlot, Slots
<1> QED
  BY <1>1, <1>2, SlotCountAssumption DEF Slots

LEMMA InitIInv == Init => IInv
<1> SUFFICES ASSUME Init PROVE IInv
  OBVIOUS
<1> USE SlotCountAssumption, BoundsAssumption
<1>1. have_picture \in BOOLEAN
  BY DEF Init
<1>2. TypeOK
  BY <1>1 DEF Init, TypeOK, Slots, AUs, NoAU, Textures, MainPCs, DecPCs
<1>3. MutexOwner /\ RingCursors /\ SlotHeld /\ FeedBound /\ TextureTarget
  BY DEF Init, MutexOwner, RingCursors, SlotHeld, FeedBound, TextureTarget,
         Holding, Slots, NoAU, Textures
<1> QED
  BY <1>2, <1>3 DEF IInv

-----------------------------------------------------------------------------
\* The main thread's steps that touch neither the ring nor the decode thread.
LEMMA MainQuiet ==
    ASSUME IInv,
           \/ MainCreateControl \/ MainStart \/ MainPoll
           \/ DrawBegin \/ DrawEnd
           \/ DestroyDecoder \/ FreeTexture0 \/ FreeTexture1 \/ ExitProcess
    PROVE  IInv'
<1> USE SlotCountAssumption, BoundsAssumption
    DEF IInv, TypeOK, ring, decv, Slots, AUs, Textures, MainPCs
<1>1. TypeOK'
  <2>1. CASE MainCreateControl \/ MainStart \/ ExitProcess
    BY <2>1 DEF MainCreateControl, MainStart, ExitProcess
  <2>2. CASE MainPoll
    BY <2>2 DEF MainPoll
  <2>3. CASE DrawBegin \/ DrawEnd
    BY <2>3 DEF DrawBegin, DrawEnd
  <2>4. CASE DestroyDecoder \/ FreeTexture0 \/ FreeTexture1
    BY <2>4 DEF DestroyDecoder, FreeTexture0, FreeTexture1, Release
  <2>5. QED
    BY <2>1, <2>2, <2>3, <2>4
<1>2. MutexOwner'
  BY DEF MainCreateControl, MainStart, MainPoll, DrawBegin, DrawEnd,
         DestroyDecoder, FreeTexture0, FreeTexture1, ExitProcess, Release,
         MutexOwner
<1>3. FeedBound'
  <2>1. CASE MainPoll
    <3>1. PICK n \in 0 .. MaxBurst :
             /\ cut + n <= MaxAU
             /\ burst' = n
             /\ main_pc' = IF n = 0 THEN "draw" ELSE "feed"
      BY <2>1 DEF MainPoll
    <3>2. cut' = cut
      BY <2>1 DEF MainPoll
    <3> QED
      BY <3>1, <3>2 DEF FeedBound
  <2>2. CASE ~MainPoll
    <3>1. /\ main_pc' \notin {"feed", "locked", "copy"}
          /\ UNCHANGED <<cut, burst>>
      BY <2>2 DEF MainCreateControl, MainStart, DrawBegin, DrawEnd,
                  DestroyDecoder, FreeTexture0, FreeTexture1, ExitProcess, Release
    <3> QED
      BY <3>1 DEF FeedBound
  <2> QED
    BY <2>1, <2>2
<1>4. UNCHANGED <<au_slots, au_read, au_write, au_count, tex, ready_tex,
                  published, dec_pc, idx, back, dec_au>>
  BY DEF MainCreateControl, MainStart, MainPoll, DrawBegin, DrawEnd,
         DestroyDecoder, FreeTexture0, FreeTexture1, ExitProcess, Release
<1>5. RingCursors' /\ SlotHeld' /\ TextureTarget'
  BY <1>4 DEF RingCursors, SlotHeld, TextureTarget, Holding
<1> QED
  BY <1>1, <1>2, <1>3, <1>5

-----------------------------------------------------------------------------
\* feed_decoder, up to its copy: an AU is refused or the mutex taken.
LEMMA FeedEntry ==
    ASSUME IInv, FeedOversize \/ FeedLock \/ FeedDrop
    PROVE  IInv'
<1> USE SlotCountAssumption, BoundsAssumption
    DEF IInv, TypeOK, ring, decv, Slots, AUs, Textures, MainPCs
<1>1. TypeOK' /\ FeedBound'
  <2>1. CASE FeedLock
    BY <2>1 DEF FeedLock, FeedBound
  <2>2. CASE FeedOversize \/ FeedDrop
    <3>1. FeedReturn /\ burst > 0 /\ cut + burst <= MaxAU
      BY <2>2 DEF FeedOversize, FeedDrop, FeedBound
    <3>2. /\ cut' \in AUs /\ burst' \in 0 .. MaxBurst
          /\ cut' + burst' <= MaxAU
          /\ main_pc' \in {"draw", "feed"}
          /\ main_pc' = "feed" => burst' > 0
      BY <3>1 DEF FeedReturn
    <3>3. /\ mutex' \in {"free", "main", "decode"}
          /\ UNCHANGED <<ring, ready_tex, tex, live, drawn_tex, decv>>
      BY <2>2 DEF FeedOversize, FeedDrop, DropUnlock
    <3> QED
      BY <3>2, <3>3 DEF FeedBound
  <2> QED
    BY <2>1, <2>2
<1>2. MutexOwner'
  BY DEF FeedOversize, FeedLock, FeedDrop, FeedReturn, DropUnlock, MutexOwner
<1>3. UNCHANGED <<au_slots, au_read, au_write, au_count, tex, ready_tex,
                  published, dec_pc, idx, back, dec_au>>
  BY DEF FeedOversize, FeedLock, FeedDrop
<1>4. RingCursors' /\ SlotHeld' /\ TextureTarget'
  BY <1>3 DEF RingCursors, SlotHeld, TextureTarget, Holding
<1> QED
  BY <1>1, <1>2, <1>4

\* With a slot free, au_write is not the slot the decode thread works on.
LEMMA WriteApart ==
    ASSUME TypeOK, RingCursors, SlotHeld, Holding, au_count < SlotCount
    PROVE  au_write # idx
BY SlotCountAssumption DEF TypeOK, RingCursors, SlotHeld, Slots

\* The copy into the free slot leaves the slot in use alone.
LEMMA FeedCopyStep ==
    ASSUME IInv, FeedCopy
    PROVE  IInv'
<1> USE SlotCountAssumption, BoundsAssumption DEF IInv, FeedCopy, RingFull
<1>1. TypeOK' /\ FeedBound'
  BY DEF TypeOK, decv, Slots, AUs, NoAU, MainPCs, FeedBound
<1>2. MutexOwner' /\ RingCursors' /\ TextureTarget'
  BY DEF decv, MutexOwner, RingCursors, TextureTarget
<1>3. SlotHeld'
  BY WriteApart DEF TypeOK, decv, SlotHeld, Holding, Slots
<1> QED
  BY <1>1, <1>2, <1>3

\* The commit moves au_write one slot on and counts the new AU.
LEMMA FeedCommitStep ==
    ASSUME IInv, FeedCommit
    PROVE  IInv'
<1> USE SlotCountAssumption, BoundsAssumption
    DEF IInv, FeedCommit, FeedReturn, Signalled
<1>1. /\ au_write' = IF au_write + 1 = SlotCount THEN 0 ELSE au_write + 1
      /\ au_write' \in Slots
  BY NextSlotIs DEF TypeOK
<1>2. TypeOK'
  BY <1>1 DEF TypeOK, FeedBound, Slots, AUs, MainPCs, DecPCs
<1>3. FeedBound' /\ MutexOwner'
  BY DEF TypeOK, FeedBound, MutexOwner, Slots, AUs
<1>4. RingCursors'
  BY <1>1 DEF TypeOK, FeedBound, RingCursors, Slots
<1>5. SlotHeld'
  BY WriteApart DEF TypeOK, SlotHeld, Holding, FeedBound, Slots
<1>6. TextureTarget'
  BY DEF TextureTarget
<1> QED
  BY <1>2, <1>3, <1>4, <1>5, <1>6

-----------------------------------------------------------------------------
\* The decode thread's locking and waiting moves neither slots nor textures.
LEMMA DecodeLocks ==
    ASSUME IInv, DecLock \/ DecReacquire \/ DecRelock \/ DecWait \/ DecSpuriousWakeup
    PROVE  IInv'
<1> USE SlotCountAssumption, BoundsAssumption
    DEF IInv, DecLock, DecReacquire, DecRelock, Acquire, DecWait,
        DecSpuriousWakeup, ring, mainv
<1>1. TypeOK'
  BY DEF TypeOK, DecPCs
<1>2. MutexOwner'
  BY DEF MutexOwner
<1>3. RingCursors' /\ FeedBound'
  BY DEF RingCursors, FeedBound
<1>4. SlotHeld' /\ TextureTarget'
  BY DEF SlotHeld, TextureTarget, Holding
<1> QED
  BY <1>1, <1>2, <1>3, <1>4

LEMMA DecTakeStep ==
    ASSUME IInv, DecTake
    PROVE  IInv'
<1> USE SlotCountAssumption, BoundsAssumption
    DEF IInv, DecTake, OldestSlot, ring, mainv
<1>1. TypeOK'
  BY DEF TypeOK, DecPCs
<1>2. MutexOwner' /\ RingCursors' /\ FeedBound' /\ TextureTarget'
  BY DEF MutexOwner, RingCursors, FeedBound, TextureTarget
<1>3. SlotHeld'
  BY DEF TypeOK, SlotHeld, Holding
<1> QED
  BY <1>1, <1>2, <1>3

\* Decoding writes only the texture that is not ready; publishing flips it.
LEMMA DecodePicture ==
    ASSUME IInv,
           \/ DecBegin \/ DecWriting \/ DecOk \/ DecNoPicture \/ DecError
           \/ DecPublish
    PROVE  IInv'
<1> USE SlotCountAssumption, BoundsAssumption
    DEF IInv, DecBegin, DecWriting, DecOk, DecNoPicture, DecError, DecPublish,
        BackTexture, ring, mainv
<1>1. TypeOK'
  <2>1. have_picture' \in BOOLEAN
    <3>1. have_picture \in BOOLEAN
      BY DEF TypeOK
    <3>2. have_picture' = have_picture \/ have_picture' = TRUE \/ have_picture' = FALSE
      OBVIOUS
    <3>3. QED
      BY <3>1, <3>2
  <2>2. CASE DecBegin \/ DecPublish
    BY <2>1, <2>2 DEF TypeOK, DecPCs, Textures, AUs, NoAU
  <2>3. CASE DecWriting
    BY <2>1, <2>3 DEF TypeOK, DecPCs, Textures, AUs, NoAU
  <2>4. CASE DecOk
    BY <2>1, <2>4 DEF TypeOK, DecPCs, Textures, AUs, NoAU
  <2>5. CASE DecNoPicture
    BY <2>1, <2>5 DEF TypeOK, DecPCs, Textures, AUs, NoAU
  <2>6. CASE DecError
    BY <2>1, <2>6 DEF TypeOK, DecPCs, Textures, AUs, NoAU
  <2>7. QED
    BY <2>2, <2>3, <2>4, <2>5, <2>6
<1>2. MutexOwner' /\ RingCursors' /\ FeedBound'
  BY DEF MutexOwner, RingCursors, FeedBound
<1>3. SlotHeld'
  BY DEF SlotHeld, Holding
<1>4. TextureTarget'
  BY DEF TypeOK, Textures, SlotHeld, Holding, TextureTarget
<1> QED
  BY <1>1, <1>2, <1>3, <1>4

LEMMA DecReleaseStep ==
    ASSUME IInv, DecRelease
    PROVE  IInv'
<1> USE SlotCountAssumption, BoundsAssumption
    DEF IInv, DecRelease, mainv
<1>1. /\ au_read' = IF au_read + 1 = SlotCount THEN 0 ELSE au_read + 1
      /\ au_read' \in Slots
  BY NextSlotIs DEF TypeOK
<1>2. au_count > 0
  BY DEF SlotHeld, Holding
<1>3. TypeOK'
  BY <1>1, <1>2 DEF TypeOK, DecPCs
<1>4. MutexOwner' /\ FeedBound'
  BY <1>2 DEF TypeOK, MutexOwner, FeedBound
<1>5. RingCursors'
  BY <1>1, <1>2 DEF TypeOK, RingCursors, Slots
<1>6. SlotHeld' /\ TextureTarget'
  BY DEF SlotHeld, TextureTarget, Holding
<1> QED
  BY <1>3, <1>4, <1>5, <1>6

-----------------------------------------------------------------------------
LEMMA StepIInv == IInv /\ [Next]_vars => IInv'
<1> SUFFICES ASSUME IInv, [Next]_vars PROVE IInv'
  OBVIOUS
<1>1. CASE Main
  BY <1>1, MainQuiet, FeedEntry, FeedCopyStep, FeedCommitStep DEF Main
<1>2. CASE Decode
  BY <1>2, DecodeLocks, DecTakeStep, DecodePicture, DecReleaseStep DEF Decode
<1>3. CASE UNCHANGED vars
  BY <1>3 DEF IInv, TypeOK, MutexOwner, RingCursors, SlotHeld, FeedBound,
              TextureTarget, Holding, vars, ring, mainv, decv
<1> QED
  BY <1>1, <1>2, <1>3 DEF Next, Exited

\* The strengthened invariant holds in every reachable state.
THEOREM IInvAlways == Spec => []IInv
  BY InitIInv, StepIInv, PTL DEF Spec

\* Every variable keeps its type: in particular the cursors stay on the ring
\* and au_count never exceeds AU_SLOT_COUNT.
THEOREM TypeCorrect == Spec => []TypeOK
<1>1. IInv => TypeOK
  BY DEF IInv
<1> QED
  BY <1>1, IInvAlways, PTL

\* The slot the decode thread reads without the mutex keeps the AU it took.
THEOREM SlotStability == Spec => []SlotStable
<1>1. IInv => SlotStable
  BY DEF IInv, SlotHeld, SlotStable
<1> QED
  BY <1>1, IInvAlways, PTL

\* The texture on display keeps the picture it was flipped with.
THEOREM ReadyWhole == Spec => []ReadyTextureWhole
<1>1. IInv => ReadyTextureWhole
  BY DEF IInv, TextureTarget, ReadyTextureWhole
<1> QED
  BY <1>1, IInvAlways, PTL

-----------------------------------------------------------------------------
(* The ring implements the bounded FIFO of module AuFifo, and what is shown*)
(* goes forward in time.  The invariant above says where the cursors are;  *)
(* it is joined by what the slots between them hold: whole AUs, older ones *)
(* first, all of them younger than the unit the decode thread took last,   *)
(* which is younger than any picture.                                      *)

\* The slots in use hold AUs that were offered, in their order; unless the
\* decode thread works on the oldest one, all are younger than its last.
RingOrder ==
    /\ \A i \in 1 .. au_count : Queue[i] \in 1 .. cut
    /\ \A i, j \in 1 .. au_count : i < j => Queue[i] < Queue[j]
    /\ ~Holding => \A i \in 1 .. au_count : Queue[i] > dec_au
    /\ dec_au <= cut

\* No picture is of a younger AU than the one taken last, and until that one
\* is decoded every picture on display is of an older one.
PictureAge ==
    /\ \A t \in Textures : tex[t] <= dec_au
    /\ dec_pc \in {"target", "decoding", "writing", "publish"} => published < dec_au

OrderInv == IInv /\ RingOrder /\ PictureAge

serving == IF Holding THEN au_slots[idx] ELSE NoAU

-----------------------------------------------------------------------------
(* The ring as a sequence.                                                 *)

\* The slot of the i-th oldest AU, once around the ring.
Place(rd, i) == IF rd + i - 1 < SlotCount THEN rd + i - 1 ELSE rd + i - 1 - SlotCount

\* Less than two rounds from slot 0, the modulus takes away at most one.
LEMMA PlaceIs ==
    ASSUME NEW rd \in Slots, NEW i \in 1 .. SlotCount
    PROVE  (rd + i - 1) % SlotCount = Place(rd, i) /\ Place(rd, i) \in Slots
<1>1. CASE rd + i - 1 < SlotCount
    BY <1>1, SlotCountAssumption DEF Place, Slots
<1>2. CASE ~(rd + i - 1 < SlotCount)
  <2>1. rd + i - 1 = 1 * SlotCount + Place(rd, i) /\ Place(rd, i) \in 0 .. SlotCount - 1
    BY <1>2, SlotCountAssumption DEF Place, Slots
  <2>2. QED
    BY <1>2, <2>1, SlotCountAssumption DEF Place, Slots
<1>3. QED
    BY <1>1, <1>2

\* The n oldest AUs of a ring that is read at slot rd.
Reading(slots, rd, n) == [i \in 1 .. n |-> slots[(rd + i - 1) % SlotCount]]

\* Its length and its elements.
LEMMA ReadingIs ==
    ASSUME NEW slots \in [Slots -> AUs], NEW rd \in Slots, NEW n \in 0 .. SlotCount
    PROVE  /\ Reading(slots, rd, n) \in Seq(AUs)
           /\ Len(Reading(slots, rd, n)) = n
           /\ \A i \in 1 .. n : /\ Reading(slots, rd, n)[i] = slots[Place(rd, i)]
                                /\ Place(rd, i) \in Slots
<1>1. \A i \in 1 .. n :
         (rd + i - 1) % SlotCount = Place(rd, i) /\ Place(rd, i) \in Slots
    BY PlaceIs, SlotCountAssumption
<1>2. Reading(slots, rd, n) = [i \in 1 .. n |-> slots[Place(rd, i)]]
    BY <1>1 DEF Reading
<1>3. \A i \in 1 .. n : slots[Place(rd, i)] \in AUs
    BY <1>1
<1>4. n \in Nat
    OBVIOUS
<1>5. QED
    BY <1>1, <1>2, <1>3, <1>4

\* The queue is such a reading, before a step and after it.
LEMMA QueueIs ==
    /\ Queue = Reading(au_slots, au_read, au_count)
    /\ Queue' = Reading(au_slots', au_read', au_count')
    BY DEF Queue, Reading

\* The types of the ring's variables, before a step and after it.
LEMMA RingTyped ==
    ASSUME IInv, IInv'
    PROVE  /\ au_slots \in [Slots -> AUs] /\ au_slots' \in [Slots -> AUs]
           /\ au_read \in Slots /\ au_read' \in Slots
           /\ au_count \in 0 .. SlotCount /\ au_count' \in 0 .. SlotCount
    BY DEF IInv, TypeOK

\* While a slot is free, au_write is none of the queue's slots.
LEMMA WriteOutside ==
    ASSUME TypeOK, RingCursors, au_count < SlotCount, NEW i \in 1 .. au_count
    PROVE  Place(au_read, i) # au_write
    BY SlotCountAssumption DEF TypeOK, RingCursors, Place, Slots

\* The copy of an AU into a free slot is not seen in the queue.
LEMMA CopyKeepsQueue ==
    ASSUME IInv, IInv', FeedCopy
    PROVE  Queue' = Queue
<1> DEFINE q == Reading(au_slots, au_read, au_count)
           r == Reading(au_slots', au_read, au_count)
<1>1. TypeOK /\ RingCursors /\ au_count < SlotCount
    BY SlotCountAssumption DEF IInv, FeedCopy, RingFull, TypeOK
<1>2. au_count' = au_count /\ au_read' = au_read
      /\ au_slots' = [au_slots EXCEPT ![au_write] = NoAU]
    BY DEF FeedCopy
<1>3. /\ q \in Seq(AUs) /\ Len(q) = au_count
      /\ \A i \in 1 .. au_count : /\ Place(au_read, i) \in Slots
                                  /\ q[i] = au_slots[Place(au_read, i)]
    BY RingTyped, ReadingIs
<1>4. /\ r \in Seq(AUs) /\ Len(r) = au_count
      /\ \A i \in 1 .. au_count : r[i] = au_slots'[Place(au_read, i)]
    BY RingTyped, ReadingIs
<1>5. \A i \in 1 .. au_count : r[i] = q[i]
  <2>1. SUFFICES ASSUME NEW i \in 1 .. au_count
                 PROVE  au_slots'[Place(au_read, i)] = au_slots[Place(au_read, i)]
    BY <1>3, <1>4
  <2>2. Place(au_read, i) # au_write /\ Place(au_read, i) \in Slots
    BY <1>1, <1>3, WriteOutside
  <2>3. QED
    BY <1>2, <2>2, RingTyped
<1> HIDE DEF q, r
<1>6. q = r
    BY <1>3, <1>5, <1>4, SeqEqual
<1>7. QED
    BY <1>2, <1>6, QueueIs DEF q, r

\* The commit appends the AU.
LEMMA CommitAppends ==
    ASSUME IInv, IInv', FeedCommit
    PROVE  /\ Len(Queue) = au_count /\ au_count < SlotCount /\ au_count' = au_count + 1
           /\ Queue \in Seq(AUs) /\ cut + 1 \in AUs /\ cut' = cut + 1
           /\ Queue' = Append(Queue, cut + 1)
<1> DEFINE q == Reading(au_slots, au_read, au_count)
           r == Reading(au_slots', au_read, au_count + 1)
<1>1. TypeOK /\ RingCursors /\ au_count < SlotCount /\ cut' \in AUs
    BY DEF IInv, FeedBound, FeedCommit, TypeOK
<1>2. /\ au_count' = au_count + 1 /\ au_read' = au_read /\ cut' = cut + 1
      /\ au_slots' = [au_slots EXCEPT ![au_write] = cut + 1]
    BY DEF FeedCommit, FeedReturn
<1>3. /\ q \in Seq(AUs) /\ Len(q) = au_count
      /\ \A i \in 1 .. au_count : /\ Place(au_read, i) \in Slots
                                  /\ q[i] = au_slots[Place(au_read, i)]
    BY RingTyped, ReadingIs
<1>4. /\ r \in Seq(AUs) /\ Len(r) = au_count + 1
      /\ \A i \in 1 .. au_count + 1 : r[i] = au_slots'[Place(au_read, i)]
  <2>1. au_count + 1 \in 0 .. SlotCount
    BY <1>2, RingTyped
  <2>2. QED
    BY <2>1, RingTyped, ReadingIs
<1>5. \A i \in 1 .. au_count : r[i] = q[i]
  <2>1. SUFFICES ASSUME NEW i \in 1 .. au_count
                 PROVE  au_slots'[Place(au_read, i)] = au_slots[Place(au_read, i)]
    BY <1>3, <1>4, RingTyped
  <2>2. Place(au_read, i) # au_write /\ Place(au_read, i) \in Slots
    BY <1>1, <1>3, WriteOutside
  <2>3. QED
    BY <1>2, <2>2, RingTyped
<1>6. r[au_count + 1] = cut + 1
  <2>1. Place(au_read, au_count + 1) = au_write /\ au_write \in Slots
    BY <1>1, SlotCountAssumption DEF TypeOK, RingCursors, Place, Slots
  <2>2. au_slots'[au_write] = cut + 1
    BY <1>2, <2>1, RingTyped
  <2>3. au_count + 1 \in 1 .. au_count + 1
    BY RingTyped
  <2>4. QED
    BY <1>4, <2>1, <2>2, <2>3
<1> HIDE DEF q, r
<1>7. /\ Append(q, cut + 1) \in Seq(AUs) /\ Len(Append(q, cut + 1)) = au_count + 1
      /\ \A i \in 1 .. au_count : Append(q, cut + 1)[i] = q[i]
      /\ Append(q, cut + 1)[au_count + 1] = cut + 1
    BY <1>1, <1>2, <1>3, AppendProperties
<1>8. \A i \in 1 .. au_count + 1 : r[i] = Append(q, cut + 1)[i]
    BY <1>1, <1>5, <1>6, <1>7 DEF TypeOK
<1>9. r = Append(q, cut + 1)
    BY <1>4, <1>7, <1>8, SeqEqual
<1>10. QED
    BY <1>1, <1>2, <1>3, <1>9, QueueIs DEF q, r

\* Giving the slot back takes the oldest AU off the queue.
LEMMA ReleaseRemoves ==
    ASSUME IInv, IInv', DecRelease
    PROVE  /\ Queue \in Seq(AUs) /\ Queue # <<>> /\ Len(Queue) = au_count
           /\ au_count' = au_count - 1 /\ Head(Queue) = au_slots[idx]
           /\ Queue' = Tail(Queue)
<1> DEFINE q == Reading(au_slots, au_read, au_count)
           r == Reading(au_slots, NextSlot(au_read), au_count - 1)
<1>1. TypeOK /\ SlotHeld /\ Holding /\ au_count > 0 /\ idx = au_read
    BY DEF IInv, SlotHeld, Holding, DecRelease
<1>2. /\ au_count' = au_count - 1 /\ au_read' = NextSlot(au_read)
      /\ au_slots' = au_slots
    BY DEF DecRelease
<1>3. /\ q \in Seq(AUs) /\ Len(q) = au_count
      /\ \A i \in 1 .. au_count : /\ Place(au_read, i) \in Slots
                                  /\ q[i] = au_slots[Place(au_read, i)]
    BY RingTyped, ReadingIs
<1>4. /\ r \in Seq(AUs) /\ Len(r) = au_count - 1
      /\ \A i \in 1 .. au_count - 1 : r[i] = au_slots[Place(NextSlot(au_read), i)]
    BY <1>2, RingTyped, ReadingIs
<1>5. \A i \in 1 .. au_count - 1 : Place(NextSlot(au_read), i) = Place(au_read, i + 1)
  <2>1. NextSlot(au_read) = IF au_read + 1 = SlotCount THEN 0 ELSE au_read + 1
    BY NextSlotIs, RingTyped
  <2>2. au_read \in 0 .. SlotCount - 1 /\ au_count \in 0 .. SlotCount /\ SlotCount \in Nat
    BY RingTyped, SlotCountAssumption DEF Slots
  <2>3. QED
    BY <2>1, <2>2 DEF Place
<1>6. \A i \in 1 .. au_count - 1 : r[i] = q[i + 1]
    BY <1>1, <1>3, <1>4, <1>5 DEF TypeOK
<1>7. q[1] = au_slots[idx]
  <2>1. Place(au_read, 1) = idx /\ 1 \in 1 .. au_count
    BY <1>1, SlotCountAssumption DEF TypeOK, Place, Slots
  <2>2. QED
    BY <1>3, <2>1
<1> HIDE DEF q, r
<1>8. /\ q # <<>> /\ Head(q) = q[1]
      /\ Tail(q) \in Seq(AUs) /\ Len(Tail(q)) = au_count - 1
      /\ \A i \in 1 .. au_count - 1 : Tail(q)[i] = q[i + 1]
    BY <1>1, <1>3, HeadTailProperties DEF TypeOK
<1>9. r = Tail(q)
    BY <1>4, <1>6, <1>8, SeqEqual
<1>10. QED
    BY <1>1, <1>2, <1>3, <1>7, <1>8, <1>9, QueueIs DEF q, r

\* The oldest AU is the one the decode thread takes.
LEMMA TakeIsHead ==
    ASSUME IInv, IInv', DecTake
    PROVE  /\ Queue \in Seq(AUs) /\ Queue # <<>> /\ Len(Queue) = au_count
           /\ 1 \in 1 .. au_count /\ dec_au' = Queue[1]
           /\ Head(Queue) = au_slots'[idx'] /\ Queue' = Queue
<1> DEFINE q == Reading(au_slots, au_read, au_count)
<1>1. /\ au_count > 0 /\ idx' = au_read /\ dec_au' = au_slots[au_read]
      /\ UNCHANGED <<au_slots, au_read, au_count>>
    BY DEF DecTake, OldestSlot, ring
<1>2. /\ q \in Seq(AUs) /\ Len(q) = au_count
      /\ \A i \in 1 .. au_count : q[i] = au_slots[Place(au_read, i)]
    BY RingTyped, ReadingIs
<1>3. Place(au_read, 1) = au_read /\ 1 \in 1 .. au_count
    BY <1>1, RingTyped, SlotCountAssumption DEF Place, Slots
<1>4. q[1] = au_slots[au_read]
    BY <1>2, <1>3
<1> HIDE DEF q
<1>5. q # <<>> /\ Head(q) = q[1]
    BY <1>1, <1>2, RingTyped
<1>6. QED
    BY <1>1, <1>2, <1>3, <1>4, <1>5, QueueIs DEF q

-----------------------------------------------------------------------------
(* The order of the ring and of the pictures.                              *)

\* The steps the FIFO does not see.
RingQuiet ==
    /\ UNCHANGED <<au_slots, au_read, au_count, cut, idx, dec_au>>
    /\ Holding' = Holding

\* The decode thread's steps between taking a slot and giving it back.
Decoding == DecBegin \/ DecWriting \/ DecOk \/ DecNoPicture \/ DecError \/ DecPublish

\* What a step other than those of the ring does.
LEMMA QuietSteps ==
    ASSUME IInv, [Next]_vars
    PROVE  \/ FeedOversize \/ FeedDrop \/ FeedCopy \/ FeedCommit
           \/ DecTake \/ DecRelease
           \/ RingQuiet /\ Decoding
           \/ RingQuiet /\ UNCHANGED <<tex, ready_tex, published, back, have_picture>>
                        /\ (dec_pc' = dec_pc \/ dec_pc' \notin
                                {"target", "decoding", "writing", "publish"})
<1>1. CASE \/ MainCreateControl \/ MainStart \/ MainPoll \/ FeedLock
           \/ DrawBegin \/ DrawEnd
    BY <1>1 DEF MainCreateControl, MainStart, MainPoll, FeedLock, DrawBegin, DrawEnd,
                RingQuiet, Holding, ring, decv
<1>2. CASE DestroyDecoder \/ FreeTexture0 \/ FreeTexture1 \/ ExitProcess
    BY <1>2 DEF DestroyDecoder, FreeTexture0, FreeTexture1, ExitProcess, Release,
                RingQuiet, Holding, ring, decv
<1>3. CASE DecLock \/ DecReacquire \/ DecRelock
    BY <1>3 DEF DecLock, DecReacquire, DecRelock, Acquire, RingQuiet, Holding,
                ring, mainv
<1>4. CASE DecWait \/ DecSpuriousWakeup
    BY <1>4 DEF DecWait, DecSpuriousWakeup, RingQuiet, Holding, ring, mainv
<1>5. CASE Decoding
    BY <1>5 DEF Decoding, DecBegin, DecWriting, DecOk, DecNoPicture, DecError,
                DecPublish, RingQuiet, Holding, ring, mainv
<1>6. CASE UNCHANGED vars
    BY <1>6 DEF vars, ring, mainv, decv, RingQuiet, Holding
<1>7. QED
    BY <1>1, <1>2, <1>3, <1>4, <1>5, <1>6 DEF Next, Main, Decode, Decoding, Exited

\* No steps of the ring: the queue stays.
LEMMA QuietKeepsQueue == RingQuiet => Queue' = Queue /\ serving' = serving
    BY DEF RingQuiet, Queue, serving

\* The ring starts empty, the textures without a picture.
LEMMA InitOrder == Init => OrderInv
<1> SUFFICES ASSUME Init PROVE OrderInv
    OBVIOUS
<1>1. IInv
    BY InitIInv
<1>2. RingOrder /\ PictureAge
    BY DEF Init, RingOrder, PictureAge, Holding, NoAU, Textures
<1>3. QED
    BY <1>1, <1>2 DEF OrderInv

\* Feeding appends the youngest AU, taking moves to an older one than all left,
\* decoding gives a texture the AU taken.
LEMMA StepOrder == OrderInv /\ [Next]_vars => OrderInv'
<1> SUFFICES ASSUME OrderInv, [Next]_vars PROVE OrderInv'
    OBVIOUS
<1>0. IInv /\ IInv'
    BY StepIInv DEF OrderInv
<1>T. /\ cut \in Nat /\ dec_au \in Nat /\ au_count \in Nat /\ published \in Nat
      /\ tex \in [Textures -> AUs] /\ ready_tex \in Textures /\ back \in Textures
      /\ \A i \in 1 .. au_count : Queue[i] \in Nat
    BY <1>0 DEF IInv, TypeOK, AUs, OrderInv, RingOrder
<1>1. CASE FeedOversize \/ FeedDrop
  <2>1. /\ cut' = cut + 1
        /\ UNCHANGED <<au_slots, au_read, au_count, dec_au, dec_pc, tex, published>>
    BY <1>1 DEF FeedOversize, FeedDrop, FeedReturn, ring, decv
  <2>2. Queue' = Queue /\ Holding' = Holding
    BY <2>1 DEF Queue, Holding
  <2>3. QED
    BY <1>0, <1>T, <2>1, <2>2 DEF OrderInv, RingOrder, PictureAge
<1>2. CASE FeedCopy
  <2>1. UNCHANGED <<cut, au_count, dec_au, dec_pc, tex, published>>
    BY <1>2 DEF FeedCopy, decv
  <2>2. Queue' = Queue /\ Holding' = Holding
    BY <1>0, <1>2, <2>1, CopyKeepsQueue DEF Holding
  <2>3. QED
    BY <1>0, <1>T, <2>1, <2>2 DEF OrderInv, RingOrder, PictureAge
<1>3. CASE FeedCommit
  <2>1. UNCHANGED <<dec_au, tex, published>>
    BY <1>3 DEF FeedCommit
  <2>2. Holding' = Holding /\ (dec_pc' = dec_pc \/ dec_pc' = "woken")
    BY <1>3 DEF FeedCommit, Signalled, Holding
  <2>3. /\ cut' = cut + 1 /\ au_count' = au_count + 1
        /\ \A i \in 1 .. au_count : Queue'[i] = Queue[i]
        /\ Queue'[au_count + 1] = cut + 1
    BY <1>0, <1>3, CommitAppends, AppendProperties
  <2>4. RingOrder'
    <3>1. \A i \in 1 .. au_count' : i \in 1 .. au_count \/ i = au_count + 1
      BY <1>T, <2>3
    <3>2. QED
      BY <1>T, <2>1, <2>2, <2>3, <3>1 DEF OrderInv, RingOrder
  <2>5. PictureAge'
    BY <2>1, <2>2 DEF OrderInv, PictureAge
  <2>6. QED
    BY <1>0, <2>4, <2>5 DEF OrderInv
<1>4. CASE DecTake
  <2>1. /\ UNCHANGED <<cut, au_count, tex, published>> /\ dec_pc = "check"
        /\ dec_pc' = "target"
    BY <1>4 DEF DecTake, ring, mainv
  <2>2. 1 \in 1 .. au_count /\ dec_au' = Queue[1] /\ Queue' = Queue
    BY <1>0, <1>4, TakeIsHead
  <2>3. Queue[1] > dec_au /\ Queue[1] <= cut /\ Holding'
    BY <1>T, <2>1, <2>2 DEF OrderInv, RingOrder, Holding
  <2>4. RingOrder'
    BY <1>T, <2>1, <2>2, <2>3 DEF OrderInv, RingOrder
  <2>5. PictureAge'
    <3>1. published <= dec_au
      BY <1>0, <1>T DEF OrderInv, PictureAge, IInv, TextureTarget
    <3>2. \A t \in Textures : tex[t] <= dec_au /\ tex[t] \in Nat
      BY <1>T DEF OrderInv, PictureAge, AUs
    <3>3. QED
      BY <1>T, <2>1, <2>2, <2>3, <3>1, <3>2 DEF PictureAge
  <2>6. QED
    BY <1>0, <2>4, <2>5 DEF OrderInv
<1>5. CASE DecRelease
  <2>1. /\ UNCHANGED <<cut, dec_au, tex, published>> /\ dec_pc = "release"
        /\ dec_pc' = "lock"
    BY <1>5 DEF DecRelease, mainv
  <2>2. /\ Queue \in Seq(AUs) /\ Queue # <<>> /\ Len(Queue) = au_count
        /\ au_count' = au_count - 1 /\ Head(Queue) = au_slots[idx]
        /\ Queue' = Tail(Queue)
    BY <1>0, <1>5, ReleaseRemoves
  <2>3. /\ \A i \in 1 .. au_count - 1 : Queue'[i] = Queue[i + 1]
        /\ au_count > 0 /\ Queue[1] = dec_au
    <3>1. Len(Tail(Queue)) = au_count - 1
          /\ \A i \in 1 .. Len(Tail(Queue)) : Tail(Queue)[i] = Queue[i + 1]
      BY <2>2, HeadTailProperties
    <3>2. Holding /\ au_slots[idx] = dec_au
      BY <1>0, <2>1 DEF Holding, IInv, SlotHeld
    <3>3. QED
      BY <1>T, <2>2, <3>1, <3>2
  <2>4. RingOrder'
    <3>1. \A i \in 1 .. au_count - 1 : i + 1 \in 1 .. au_count /\ 1 < i + 1
      BY <1>T
    <3>2. 1 \in 1 .. au_count
      BY <1>T, <2>3
    <3>3. QED
      BY <1>T, <2>1, <2>2, <2>3, <3>1, <3>2 DEF OrderInv, RingOrder
  <2>5. PictureAge'
    BY <2>1 DEF OrderInv, PictureAge
  <2>6. QED
    BY <1>0, <2>4, <2>5 DEF OrderInv
<1>6. CASE RingQuiet /\ Decoding
  <2>1. RingOrder'
    BY <1>6, QuietKeepsQueue DEF OrderInv, RingOrder, RingQuiet
  <2>2. PictureAge'
    <3>1. au_slots[idx] = dec_au
      BY <1>0, <1>6 DEF IInv, SlotHeld, Holding, Decoding, DecBegin, DecWriting, DecOk,
                        DecNoPicture, DecError, DecPublish
    <3>2. \A t \in Textures : tex[t] <= dec_au /\ tex[t] \in Nat
      BY <1>T DEF OrderInv, PictureAge, AUs
    <3>3. dec_au' = dec_au
      BY <1>6 DEF RingQuiet
    <3>4. CASE DecBegin \/ DecNoPicture \/ DecError
      BY <3>3, <3>4 DEF OrderInv, PictureAge, DecBegin, DecNoPicture, DecError
    <3>5. CASE DecWriting \/ DecOk
      BY <1>T, <3>1, <3>2, <3>3, <3>5
         DEF OrderInv, PictureAge, DecWriting, DecOk, NoAU
    <3>6. CASE DecPublish
      BY <3>2, <3>3, <3>6 DEF OrderInv, PictureAge, DecPublish
    <3>7. QED
      BY <1>6, <3>4, <3>5, <3>6 DEF Decoding
  <2>3. QED
    BY <1>0, <2>1, <2>2 DEF OrderInv
<1>7. CASE /\ RingQuiet /\ UNCHANGED <<tex, ready_tex, published>>
           /\ dec_pc' = dec_pc \/ dec_pc' \notin
                  {"target", "decoding", "writing", "publish"}
  <2>1. RingOrder'
    BY <1>7, QuietKeepsQueue DEF OrderInv, RingOrder, RingQuiet
  <2>2. PictureAge'
    BY <1>7 DEF OrderInv, PictureAge, RingQuiet
  <2>3. QED
    BY <1>0, <2>1, <2>2 DEF OrderInv
<1>8. QED
    BY <1>0, <1>1, <1>2, <1>3, <1>4, <1>5, <1>6, <1>7, QuietSteps

\* What the slots hold, and how old the pictures are, in every reachable state.
THEOREM OrderInvariant == Spec => []OrderInv
    BY InitOrder, StepOrder, PTL DEF Spec

-----------------------------------------------------------------------------
(* The theorems.                                                           *)

\* Before a flip the decoder's target holds the picture of the AU taken last, if
\* the decode yielded one.
PictureGiven == dec_pc = "publish" /\ have_picture => tex[back] = dec_au

LEMMA StepGiven ==
    ASSUME IInv, PictureGiven, [Next]_vars
    PROVE  PictureGiven'
<1>1. CASE FeedOversize \/ FeedDrop \/ FeedCopy \/ FeedCommit
  <2>1. UNCHANGED <<tex, back, have_picture, dec_au>> /\ (dec_pc' = dec_pc \/ dec_pc' = "woken")
    BY <1>1 DEF FeedOversize, FeedDrop, FeedCopy, FeedCommit, Signalled, decv
  <2>2. QED
    BY <2>1 DEF PictureGiven
<1>2. CASE DecTake \/ DecRelease
    BY <1>2 DEF DecTake, DecRelease, PictureGiven
<1>3. CASE DecOk
  <2>1. /\ dec_pc = "writing" /\ UNCHANGED <<back, dec_au>>
        /\ tex' = [tex EXCEPT ![back] = au_slots[idx]]
    BY <1>3 DEF DecOk
  <2>2. au_slots[idx] = dec_au
    BY <2>1 DEF IInv, SlotHeld, Holding
  <2>3. tex \in [Textures -> AUs] /\ back \in Textures
    BY DEF IInv, TypeOK
  <2>4. QED
    BY <2>1, <2>2, <2>3 DEF PictureGiven
<1>4. CASE DecBegin \/ DecWriting \/ DecNoPicture \/ DecError \/ DecPublish
    BY <1>4 DEF DecBegin, DecWriting, DecNoPicture, DecError, DecPublish, PictureGiven
<1>5. CASE /\ RingQuiet /\ UNCHANGED <<tex, ready_tex, published, back, have_picture>>
           /\ dec_pc' = dec_pc \/ dec_pc' \notin
                  {"target", "decoding", "writing", "publish"}
    BY <1>5 DEF RingQuiet, PictureGiven
<1>6. QED
    BY <1>1, <1>2, <1>3, <1>4, <1>5, QuietSteps DEF Decoding

\* Only flips change what is on display, and those after a decode that yielded a
\* picture show a younger unit, whether or not pictures are withheld in between.
THEOREM DisplayForward == Spec => DisplayAdvances
<1>1. Init => PictureGiven
    BY DEF Init, PictureGiven
<1>2. OrderInv /\ PictureGiven /\ [Next]_vars => PictureGiven'
    BY StepGiven DEF OrderInv
<1>3. OrderInv /\ PictureGiven /\ [Next]_vars =>
         [/\ OnDisplay' # OnDisplay => ready_tex' # ready_tex
          /\ ready_tex' # ready_tex /\ have_picture => OnDisplay' > OnDisplay]_vars
  <2> SUFFICES ASSUME OrderInv, PictureGiven, [Next]_vars
               PROVE  /\ OnDisplay' # OnDisplay => ready_tex' # ready_tex
                      /\ ready_tex' # ready_tex /\ have_picture => OnDisplay' > OnDisplay
    OBVIOUS
  <2>1. CASE DecPublish
    <3>1. /\ dec_pc = "publish" /\ ready_tex' = back /\ UNCHANGED <<tex, dec_au>>
      BY <2>1 DEF DecPublish
    <3>2. back = 1 - ready_tex /\ ready_tex \in Textures
      BY <3>1 DEF OrderInv, IInv, TypeOK, TextureTarget
    <3>3. have_picture => OnDisplay' = dec_au
      BY <3>1 DEF OnDisplay, PictureGiven
    <3>4. OnDisplay = published /\ published < dec_au
      BY <3>1 DEF OnDisplay, OrderInv, IInv, TextureTarget, PictureAge
    <3>5. ready_tex' # ready_tex
      BY <3>1, <3>2 DEF Textures
    <3>6. QED
      BY <3>3, <3>4, <3>5
  <2>2. CASE ~DecPublish
    <3>1. UNCHANGED <<ready_tex, published>>
      BY <2>2, QuietSteps DEF OrderInv, FeedOversize, FeedDrop, FeedCopy, FeedCommit,
         DecTake, DecRelease, Decoding, DecBegin, DecWriting, DecOk, DecNoPicture,
         DecError, decv
    <3>2. TextureTarget /\ TextureTarget'
      BY StepIInv DEF OrderInv, IInv
    <3>3. QED
      BY <3>1, <3>2 DEF TextureTarget, OnDisplay
  <2>3. QED
    BY <2>1, <2>2
<1>4. QED
    BY <1>1, <1>2, <1>3, OrderInvariant, PTL DEF Spec, DisplayAdvances

\* Every step of the two threads is a step of the FIFO or leaves it alone.
LEMMA StepFifo == OrderInv /\ [Next]_vars => [Fifo!Next]_(Fifo!vars)
<1> SUFFICES ASSUME OrderInv, [Next]_vars
             PROVE  Fifo!Next \/ UNCHANGED <<cut, Queue, serving>>
    BY DEF Fifo!vars, serving
<1>1. IInv /\ IInv'
    BY StepIInv DEF OrderInv
<1>2. CASE FeedOversize \/ FeedDrop
  <2>1. cut' = cut + 1 /\ UNCHANGED <<au_slots, au_read, au_count, idx, dec_pc>>
    BY <1>2 DEF FeedOversize, FeedDrop, FeedReturn, ring, decv
  <2>2. Queue' = Queue /\ serving' = serving
    BY <2>1 DEF Queue, serving, Holding
  <2>3. Fifo!Drop
    BY <2>1, <2>2 DEF Fifo!Drop, serving
  <2>4. QED
    BY <2>3 DEF Fifo!Next
<1>3. CASE FeedCopy
  <2>1. UNCHANGED <<cut, idx, dec_pc>>
    BY <1>3 DEF FeedCopy, decv
  <2>2. Queue' = Queue
    BY <1>1, <1>3, CopyKeepsQueue
  <2>3. serving' = serving
    <3>1. Holding => au_slots[idx] = dec_au /\ au_slots'[idx] = dec_au
      BY <1>1, <1>3, <2>1 DEF IInv, SlotHeld, Holding, FeedCopy, decv
    <3>2. QED
      BY <2>1, <3>1 DEF serving, Holding
  <2>4. QED
    BY <2>1, <2>2, <2>3
<1>4. CASE FeedCommit
  <2>1. /\ Len(Queue) = au_count /\ au_count < SlotCount /\ cut' = cut + 1
        /\ Queue' = Append(Queue, cut + 1)
    BY <1>1, <1>4, CommitAppends
  <2>2. serving' = serving
    <3>1. Holding' = Holding /\ idx' = idx /\ dec_au' = dec_au
      BY <1>4 DEF FeedCommit, Signalled, Holding
    <3>2. Holding => au_slots[idx] = dec_au /\ au_slots'[idx] = dec_au
      BY <1>1, <3>1 DEF IInv, SlotHeld
    <3>3. QED
      BY <3>1, <3>2 DEF serving
  <2>3. Fifo!Accept
    BY <2>1, <2>2 DEF Fifo!Accept, serving
  <2>4. QED
    BY <2>3 DEF Fifo!Next
<1>5. CASE DecTake
  <2>1. UNCHANGED cut /\ ~Holding /\ Holding'
    BY <1>5 DEF DecTake, mainv, Holding
  <2>2. Queue # <<>> /\ Head(Queue) = au_slots'[idx'] /\ Queue' = Queue
    BY <1>1, <1>5, TakeIsHead
  <2>3. Fifo!Take
    BY <2>1, <2>2 DEF Fifo!Take
  <2>4. QED
    BY <2>3 DEF Fifo!Next
<1>6. CASE DecRelease
  <2>1. UNCHANGED cut /\ Holding /\ ~Holding'
    BY <1>6 DEF DecRelease, mainv, Holding
  <2>2. /\ Queue \in Seq(AUs) /\ Queue # <<>> /\ Len(Queue) = au_count
        /\ Head(Queue) = au_slots[idx] /\ Queue' = Tail(Queue)
    BY <1>1, <1>6, ReleaseRemoves
  <2>3. Head(Queue) # NoAU
    <3>1. 1 \in 1 .. au_count /\ Head(Queue) = Queue[1]
      BY <1>1, <2>2 DEF IInv, TypeOK
    <3>2. QED
      BY <3>1 DEF OrderInv, RingOrder, NoAU
  <2>4. Fifo!Finish
    BY <2>1, <2>2, <2>3 DEF Fifo!Finish
  <2>5. QED
    BY <2>4 DEF Fifo!Next
<1>7. CASE RingQuiet
    BY <1>7, QuietKeepsQueue DEF RingQuiet
<1>8. QED
    BY <1>1, <1>2, <1>3, <1>4, <1>5, <1>6, <1>7, QuietSteps

\* The ring implements the bounded FIFO: units leave in the order they entered,
\* none is duplicated, and one is dropped only when it is offered.
THEOREM RefinesFifo == Spec => ImplementsFifo
<1>1. Init => Fifo!Init
    BY DEF Init, Fifo!Init, Queue, Holding, NoAU
<1>2. QED
    BY <1>1, StepFifo, OrderInvariant, PTL DEF Spec, ImplementsFifo, Fifo!Spec
=============================================================================
