------------------------------ MODULE AuQueue -------------------------------
(***************************************************************************)
(* The video path of the PS Vita application (src/src/vita/vita_video.c):  *)
(* the main thread polls the control channel, feeds the access units (AUs) *)
(* it receives into a ring of slots and draws; the decode thread takes the *)
(* oldest AU, decodes it into the texture that is not on display and flips *)
(* ready_tex; a decode may succeed and yield no picture, as that of a      *)
(* decoder that holds pictures back does (avcdec.c:156).  au_mutex guards  *)
(* the ring's indices, but the decode thread reads a slot's bytes and the  *)
(* main thread draws a texture with no lock held.  AUs are numbered 1, 2,  *)
(* ... in the order the splitter cuts them.                                *)
(***************************************************************************)
EXTENDS Integers, Sequences

CONSTANTS
    SlotCount,    \* AU_SLOT_COUNT
    MaxAU,        \* bound: AUs the phone sends
    MaxBurst,     \* bound: AUs one poll can cut from the video stream
    MaxSpurious,  \* bound: spurious wakeups of the condition variable
    Idr,          \* the AUs that are key frames (decodable on their own)
    Large,        \* the AUs larger than a slot (AU_SLOT_SIZE)
    Withhold      \* whether a successful decode may yield no picture

ASSUME SlotCountAssumption == SlotCount \in Nat \ {0}
ASSUME BoundsAssumption ==
    /\ MaxAU \in Nat
    /\ MaxBurst \in Nat
    /\ MaxSpurious \in Nat
    /\ Idr \subseteq 1 .. MaxAU
    /\ Large \subseteq 1 .. MaxAU
    /\ Withhold \in BOOLEAN

Slots == 0 .. SlotCount - 1
NoAU == 0                    \* no AU, or bytes that are not one whole AU
AUs == 0 .. MaxAU
Textures == {0, 1}

VARIABLES
    \* shared, guarded by au_mutex
    au_slots, au_read, au_write, au_count,
    mutex,        \* the owner of au_mutex
    \* shared, read and written atomically with no lock
    ready_tex,
    \* resources: the AU each texture's pixels show, and what is allocated
    tex, live,
    \* main thread
    main_pc,
    cut,          \* how many AUs the splitter has handed to feed_decoder
    burst,        \* AUs still to feed in this poll
    drawn_tex,    \* the texture being drawn (rt)
    \* decode thread
    dec_pc,
    idx,          \* the slot taken
    back,         \* the texture decoded into
    have_picture, \* whether the last decode yielded a picture
    spurious,     \* spurious wakeups so far
    \* history: the AU taken last, the one before it, and the one whose
    \* picture the last flip put on display
    dec_au, prev_au, published

ring == <<au_slots, au_read, au_write, au_count>>
mainv == <<main_pc, cut, burst, drawn_tex>>
decv == <<dec_pc, idx, back, have_picture, spurious, dec_au, prev_au, published>>
vars == <<ring, mutex, ready_tex, tex, live, mainv, decv>>

FrameTex(t) == IF t = 0 THEN "frame_tex0" ELSE "frame_tex1"
Resources == {"decoder", FrameTex(0), FrameTex(1)}

MainPCs == {"create", "loop", "feed", "locked", "copy", "draw", "drawing",
            "destroy", "free0", "free1", "close", "exited"}
DecPCs == {"lock", "check", "wait", "woken", "target", "decoding", "writing",
           "publish", "advance", "release"}

(* The ring's cursors and its bound.  The definitions marked "fault" are   *)
(* the bugs a slip in the code would make; nothing in Spec uses them.      *)

NextSlotNoWrap(i) == i + 1                         \* fault: no modulus
NextSlotShort(i) == (i + 1) % (SlotCount - 1)      \* fault: wraps too early
NextSlot(i) == (i + 1) % SlotCount

RingFullOffByOne == au_count > SlotCount           \* fault: off by one
RingFull == au_count >= SlotCount

OldestIsNewest == au_write                         \* fault: wrong cursor
OldestSlot == au_read

BackIsFront == ready_tex                           \* fault: the ^ 1 is missing
BackTexture == 1 - ready_tex

-----------------------------------------------------------------------------
(* main starts the decode thread before it creates the control channel.    *)
Init ==
    /\ au_slots = [s \in Slots |-> NoAU]
    /\ au_read = 0 /\ au_write = 0 /\ au_count = 0
    /\ mutex = "free"
    /\ ready_tex = 0
    /\ tex = [t \in Textures |-> NoAU]
    /\ live = Resources
    /\ main_pc = "create" /\ cut = 0 /\ burst = 0 /\ drawn_tex = 0
    /\ dec_pc = "lock" /\ idx = 0 /\ back = 1 /\ have_picture = FALSE /\ spurious = 0
    /\ dec_au = NoAU /\ prev_au = NoAU /\ published = NoAU

-----------------------------------------------------------------------------
(* Main thread.                                                            *)

\* aa_control_create fails or not.
MainCreateControl ==
    /\ main_pc = "create"
    /\ main_pc' \in {"loop", "destroy"}
    /\ UNCHANGED <<ring, mutex, ready_tex, tex, live, cut, burst, drawn_tex, decv>>

\* START is pressed: leave the loop and destroy the control channel.
MainStart ==
    /\ main_pc = "loop"
    /\ main_pc' = "destroy"
    /\ UNCHANGED <<ring, mutex, ready_tex, tex, live, cut, burst, drawn_tex, decv>>

\* aa_control_poll handles at most one message, from which the splitter cuts
\* zero or more AUs.
MainPoll ==
    /\ main_pc = "loop"
    /\ \E n \in 0 .. MaxBurst :
          /\ cut + n <= MaxAU
          /\ burst' = n
          /\ main_pc' = IF n = 0 THEN "draw" ELSE "feed"
    /\ UNCHANGED <<ring, mutex, ready_tex, tex, live, cut, drawn_tex, decv>>

\* The end of feed_decoder: on to the next AU of the burst, or to draw.
FeedReturn ==
    /\ cut' = cut + 1
    /\ burst' = burst - 1
    /\ main_pc' = IF burst' = 0 THEN "draw" ELSE "feed"

\* The AU is larger than a slot: feed_decoder returns at once.
FeedOversize ==
    /\ main_pc = "feed"
    /\ cut + 1 \in Large
    /\ FeedReturn
    /\ UNCHANGED <<ring, mutex, ready_tex, tex, live, drawn_tex, decv>>

FeedLock ==
    /\ main_pc = "feed"
    /\ cut + 1 \notin Large
    /\ mutex = "free"
    /\ mutex' = "main"
    /\ main_pc' = "locked"
    /\ UNCHANGED <<ring, ready_tex, tex, live, cut, burst, drawn_tex, decv>>

DropKeepsLock == UNCHANGED mutex     \* fault: early return with the lock held
DropUnlock == mutex' = "free"

\* Every slot is taken: the AU is dropped.
FeedDrop ==
    /\ main_pc = "locked"
    /\ RingFull
    /\ DropUnlock
    /\ FeedReturn
    /\ UNCHANGED <<ring, ready_tex, tex, live, drawn_tex, decv>>

\* The memcpy into slot au_write has started: its bytes are no whole AU.
FeedCopy ==
    /\ main_pc = "locked"
    /\ ~RingFull
    /\ au_slots' = [au_slots EXCEPT ![au_write] = NoAU]
    /\ main_pc' = "copy"
    /\ UNCHANGED <<au_read, au_write, au_count, mutex, ready_tex, tex, live,
                   cut, burst, drawn_tex, decv>>

NotSignalled == UNCHANGED dec_pc                   \* fault: no signal

\* pthread_cond_signal wakes the decode thread if it waits.
Signalled == dec_pc' = IF dec_pc = "wait" THEN "woken" ELSE dec_pc

\* The memcpy is done: advance, signal and unlock.
FeedCommit ==
    /\ main_pc = "copy"
    /\ au_slots' = [au_slots EXCEPT ![au_write] = cut + 1]
    /\ au_write' = NextSlot(au_write)
    /\ au_count' = au_count + 1
    /\ Signalled
    /\ mutex' = "free"
    /\ FeedReturn
    /\ UNCHANGED <<au_read, ready_tex, tex, live, drawn_tex,
                   idx, back, have_picture, spurious, dec_au, prev_au, published>>

\* handle_input, then start to draw the texture ready_tex names.
DrawBegin ==
    /\ main_pc = "draw"
    /\ drawn_tex' = ready_tex
    /\ main_pc' = "drawing"
    /\ UNCHANGED <<ring, mutex, ready_tex, tex, live, cut, burst, decv>>

DrawEnd ==
    /\ main_pc = "drawing"
    /\ main_pc' = "loop"
    /\ UNCHANGED <<ring, mutex, ready_tex, tex, live, cut, burst, drawn_tex, decv>>

\* The steps after label done: the decoder, the textures, then the process.
Release(pc, resource, next) ==
    /\ main_pc = pc
    /\ main_pc' = next
    /\ live' = live \ {resource}
    /\ UNCHANGED <<ring, mutex, ready_tex, tex, cut, burst, drawn_tex, decv>>

DestroyDecoder == Release("destroy", "decoder", "free0")
FreeTexture0 == Release("free0", FrameTex(0), "free1")
FreeTexture1 == Release("free1", FrameTex(1), "close")

ExitProcess ==
    /\ main_pc = "close"
    /\ main_pc' = "exited"
    /\ UNCHANGED <<ring, mutex, ready_tex, tex, live, cut, burst, drawn_tex, decv>>

Main ==
    \/ MainCreateControl \/ MainStart \/ MainPoll
    \/ FeedOversize \/ FeedLock \/ FeedDrop \/ FeedCopy \/ FeedCommit
    \/ DrawBegin \/ DrawEnd
    \/ DestroyDecoder \/ FreeTexture0 \/ FreeTexture1 \/ ExitProcess

-----------------------------------------------------------------------------
(* Decode thread.  It runs until the process exits.                        *)

Running == main_pc # "exited"

\* pthread_mutex_lock at pc, or the return from pthread_cond_wait.
Acquire(pc, next) ==
    /\ Running
    /\ dec_pc = pc
    /\ mutex = "free"
    /\ mutex' = "decode"
    /\ dec_pc' = next
    /\ UNCHANGED <<ring, ready_tex, tex, live, mainv,
                   idx, back, have_picture, spurious, dec_au, prev_au, published>>

DecLock == Acquire("lock", "check")
DecReacquire == Acquire("woken", "check")
DecRelock == Acquire("advance", "release")

DecWait ==
    /\ Running
    /\ dec_pc = "check"
    /\ au_count = 0
    /\ mutex' = "free"
    /\ dec_pc' = "wait"
    /\ UNCHANGED <<ring, ready_tex, tex, live, mainv,
                   idx, back, have_picture, spurious, dec_au, prev_au, published>>

\* pthread_cond_wait may return with no signal.
DecSpuriousWakeup ==
    /\ Running
    /\ dec_pc = "wait"
    /\ spurious < MaxSpurious
    /\ spurious' = spurious + 1
    /\ dec_pc' = "woken"
    /\ UNCHANGED <<ring, mutex, ready_tex, tex, live, mainv,
                   idx, back, have_picture, dec_au, prev_au, published>>

\* Remember the oldest slot and unlock.
DecTake ==
    /\ Running
    /\ dec_pc = "check"
    /\ au_count > 0
    /\ idx' = OldestSlot
    /\ prev_au' = dec_au
    /\ dec_au' = au_slots[idx']
    /\ mutex' = "free"
    /\ dec_pc' = "target"
    /\ UNCHANGED <<ring, ready_tex, tex, live, mainv,
                   back, have_picture, spurious, published>>

\* Aim the decoder at the texture that is not ready and call avcdec_decode.
DecBegin ==
    /\ Running
    /\ dec_pc = "target"
    /\ back' = BackTexture
    /\ dec_pc' = "decoding"
    /\ UNCHANGED <<ring, mutex, ready_tex, tex, live, mainv,
                   idx, have_picture, spurious, dec_au, prev_au, published>>

\* The decoder starts to write its output, which is no whole picture any more.
DecWriting ==
    /\ Running
    /\ dec_pc = "decoding"
    /\ tex' = [tex EXCEPT ![back] = NoAU]
    /\ dec_pc' = "writing"
    /\ UNCHANGED <<ring, mutex, ready_tex, live, mainv,
                   idx, back, have_picture, spurious, dec_au, prev_au, published>>

\* avcdec_decode returns 0: the picture is the AU whose bytes the slot holds.
DecOk ==
    /\ Running
    /\ dec_pc = "writing"
    /\ tex' = [tex EXCEPT ![back] = au_slots[idx]]
    /\ have_picture' = TRUE
    /\ dec_pc' = "publish"
    /\ UNCHANGED <<ring, mutex, ready_tex, live, mainv,
                   idx, back, spurious, dec_au, prev_au, published>>

\* avcdec_decode returns 0 with numOfOutput = 0.
DecNoPicture ==
    /\ Running
    /\ Withhold
    /\ dec_pc = "decoding"
    /\ have_picture' = FALSE
    /\ dec_pc' = "publish"
    /\ UNCHANGED <<ring, mutex, ready_tex, tex, live, mainv,
                   idx, back, spurious, dec_au, prev_au, published>>

\* avcdec_decode fails, before or while it writes: nothing is published.
DecError ==
    /\ Running
    /\ dec_pc \in {"decoding", "writing"}
    /\ have_picture' = FALSE
    /\ dec_pc' = "advance"
    /\ UNCHANGED <<ring, mutex, ready_tex, tex, live, mainv,
                   idx, back, spurious, dec_au, prev_au, published>>

\* The flip, on any return of 0.
DecPublish ==
    /\ Running
    /\ dec_pc = "publish"
    /\ ready_tex' = back
    /\ published' = tex[back]
    /\ dec_pc' = "advance"
    /\ UNCHANGED <<ring, mutex, tex, live, mainv,
                   idx, back, have_picture, spurious, dec_au, prev_au>>

\* Give the slot back to the ring.
DecRelease ==
    /\ Running
    /\ dec_pc = "release"
    /\ au_read' = NextSlot(au_read)
    /\ au_count' = au_count - 1
    /\ mutex' = "free"
    /\ dec_pc' = "lock"
    /\ UNCHANGED <<au_slots, au_write, ready_tex, tex, live, mainv,
                   idx, back, have_picture, spurious, dec_au, prev_au, published>>

Decode ==
    \/ DecLock \/ DecReacquire \/ DecRelock \/ DecWait \/ DecSpuriousWakeup
    \/ DecTake \/ DecBegin \/ DecWriting \/ DecOk \/ DecNoPicture \/ DecError
    \/ DecPublish \/ DecRelease

-----------------------------------------------------------------------------
\* Nothing runs any more once the process has exited.
Exited ==
    /\ main_pc = "exited"
    /\ UNCHANGED vars

Next == Main \/ Decode \/ Exited

Spec == Init /\ [][Next]_vars

(* Both threads keep running.  The decode thread's lock attempts get strong *)
(* fairness: the main thread holds au_mutex only for a copy and then spends *)
(* a display period in vita2d with the mutex free.  The main thread's own   *)
(* attempt needs only weak fairness.  No wakeup is fair but the signal's.   *)
Fairness ==
    /\ WF_vars(MainPoll) /\ WF_vars(DrawBegin) /\ WF_vars(DrawEnd)
    /\ WF_vars(FeedOversize) /\ WF_vars(FeedLock) /\ WF_vars(FeedDrop \/ FeedCopy)
    /\ WF_vars(FeedCommit)
    /\ SF_vars(DecLock) /\ SF_vars(DecReacquire) /\ SF_vars(DecRelock)
    /\ WF_vars(DecWait) /\ WF_vars(DecTake) /\ WF_vars(DecBegin)
    /\ WF_vars(DecWriting \/ DecOk \/ DecNoPicture \/ DecError)
    /\ WF_vars(DecPublish) /\ WF_vars(DecRelease)

FairSpec == Spec /\ Fairness
-----------------------------------------------------------------------------
(* Properties.                                                             *)

TypeOK ==
    /\ au_slots \in [Slots -> AUs]
    /\ au_read \in Slots /\ au_write \in Slots
    /\ au_count \in 0 .. SlotCount
    /\ mutex \in {"free", "main", "decode"}
    /\ ready_tex \in Textures
    /\ tex \in [Textures -> AUs]
    /\ live \subseteq Resources
    /\ main_pc \in MainPCs
    /\ cut \in AUs /\ burst \in 0 .. MaxBurst
    /\ drawn_tex \in Textures
    /\ dec_pc \in DecPCs
    /\ idx \in Slots /\ back \in Textures /\ have_picture \in BOOLEAN
    /\ spurious \in 0 .. MaxSpurious
    /\ dec_au \in AUs /\ prev_au \in AUs /\ published \in AUs

\* The decode thread works on slot idx, with or without the mutex.
Holding ==
    dec_pc \in {"target", "decoding", "writing", "publish", "advance", "release"}

\* The slot the decode thread works on holds, byte for byte, the AU it took,
\* however many AUs the main thread feeds meanwhile (lines 193-201 use the
\* slot after the unlock of line 196).
SlotStable == Holding => au_slots[idx] = dec_au

\* The texture ready_tex names, which the main thread may be drawing, keeps the
\* picture it had at the flip: the decoder never writes into it.
ReadyTextureWhole == tex[ready_tex] = published

\* The ring is a bounded FIFO: units leave in the order they entered, none
\* is duplicated, and one is dropped only when it is offered.
Queue == [i \in 1 .. au_count |-> au_slots[(au_read + i - 1) % SlotCount]]
Fifo == INSTANCE AuFifo WITH
            Capacity <- SlotCount,
            offered <- cut,
            queue <- Queue,
            serving <- IF Holding THEN au_slots[idx] ELSE NoAU
ImplementsFifo == Fifo!Spec

\* The unit whose picture the texture on display holds.
OnDisplay == tex[ready_tex]

\* Only a flip changes what is on display, and a flip after a decode that
\* yielded a picture (avcdec.c:156) shows a younger unit than the one before
\* it, whatever was dropped, failed or withheld until then.  decode_thread also
\* flips after a decode without a picture (line 202 tests the result only); that
\* flip shows what the other texture holds, an older picture or none.
DisplayAdvances ==
    [][/\ OnDisplay' # OnDisplay => ready_tex' # ready_tex
       /\ ready_tex' # ready_tex /\ have_picture => OnDisplay' > OnDisplay]_vars

\* Every AU in the ring is decoded and leaves it, unless the process exits:
\* no wakeup is lost between the test of au_count and the wait.
InRing(a) == \E i \in DOMAIN Queue : Queue[i] = a
EveryAUServed ==
    \A a \in 1 .. MaxAU : InRing(a) ~> (~InRing(a) \/ main_pc = "exited")

\* feed_decoder never blocks the main loop for good.
FeedReturns == main_pc = "feed" ~> main_pc = "draw"

\* The comment at vita_video.c:173-174: dropping the newest frame "keeps the
\* decode stream uncorrupted".  Every AU handed to the decoder is a key frame
\* or follows the one handed to it before.
DecodeStreamUncorrupted ==
    dec_au = NoAU \/ dec_au \in Idr \/ dec_au = prev_au + 1

\* avcdec.h:18-19: the output passed to avcdec_set_output "must hold
\* out_width*out_height*4 bytes".  While the decoder writes its output, the
\* decoder and the texture behind the output are allocated.
OutputAlive ==
    dec_pc \in {"decoding", "writing"} => {"decoder", FrameTex(back)} \subseteq live
=============================================================================
