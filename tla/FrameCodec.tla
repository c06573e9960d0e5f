----------------------------- MODULE FrameCodec -----------------------------
(***************************************************************************)
(* The bytes of a frame (src/src/core/frame.c): channel, flags, the payload*)
(* size in two digits, in a FIRST frame the message's total size in four,  *)
(* and the payload.  A byte is an integer; the digits of a size count in   *)
(* base Radix, 256 in the code, so that a small one carries like a byte.   *)
(***************************************************************************)
EXTENDS Integers, Sequences

CONSTANT Radix

ASSUME RadixAssumption == Radix \in Nat \ {0, 1}

MIDDLE == 0
FIRST == 1
LAST == 2
BULK == 3

\* Sizes, the high digit first, and as read from a buffer at position i.  Two
\* digits hold less than Half, four less than its square.
Half == Radix * Radix
Digits2(n) == <<(n \div Radix) % Radix, n % Radix>>
Digits4(n) == Digits2(n \div Half) \o Digits2(n % Half)
Number2LittleEndian(buf, i) == buf[i + 1] * Radix + buf[i]    \* fault
Number2(buf, i) == buf[i] * Radix + buf[i + 1]
Number4(buf, i) == Number2(buf, i) * Half + Number2(buf, i + 2)

HeaderLen(ft) == IF ft = FIRST THEN 8 ELSE 4

\* aa_frame_encode into a buffer of cap bytes; it refuses what does not fit.
FitsBuffer(f, cap) == HeaderLen(f.ft) + Len(f.payload) <= cap
Encode(f) ==
    <<f.ch, f.ft + f.mt + f.enc>>
    \o Digits2(Len(f.payload))
    \o (IF f.ft = FIRST THEN Digits4(f.total) ELSE <<>>)
    \o f.payload

\* aa_frame_decode: is there a whole frame at the start of buf, and which.
FrameLen(buf) == HeaderLen(buf[2] % 4) + Number2(buf, 3)
Decodable(buf) ==
    /\ Len(buf) >= 4
    /\ Len(buf) >= HeaderLen(buf[2] % 4)
    /\ Len(buf) >= FrameLen(buf)

Decode(buf) ==
    LET ft == buf[2] % 4
    IN  [ch      |-> buf[1],
         ft      |-> ft,
         mt      |-> (buf[2] % 8) - ft,
         enc     |-> (buf[2] % 16) - (buf[2] % 8),
         total   |-> IF ft = FIRST THEN Number4(buf, 5) ELSE 0,
         payload |-> SubSeq(buf, HeaderLen(ft) + 1, FrameLen(buf))]
=============================================================================
