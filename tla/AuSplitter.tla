----------------------------- MODULE AuSplitter -----------------------------
(***************************************************************************)
(* The Annex-B splitter of the head unit (src/src/vita/vita_video.c,       *)
(* handle_video): video messages of any length are appended to au_buf,     *)
(* au_buf is scanned from its beginning for NAL start codes, the access    *)
(* units found are handed to feed_decoder and what follows the last cut is *)
(* kept for the next message.  The queue that takes the units over is      *)
(* module AuQueue.                                                         *)
(*                                                                         *)
(* Bytes are modelled as bytes; a byte of au_buf carries its position in   *)
(* the phone's H.264 stream, so a byte lost, repeated or moved shows, and  *)
(* position 0 if it is none of the stream's but of a message's timestamp.  *)
(* Indexes into au_buf start at 0, as in the code.                         *)
(***************************************************************************)
EXTENDS Integers, Sequences

CONSTANTS
    Streams,      \* byte strings the phone may send
    ChunkLens,    \* bytes of the stream in one video message
    Stamps,       \* what a message may hold before them
    BufMax,       \* AU_BUF_MAX
    SlotSize      \* AU_SLOT_SIZE

Byte == 0 .. 255

ASSUME BytesAssumption == Streams \subseteq Seq(Byte) /\ Stamps \subseteq Seq(Byte)
ASSUME LengthsAssumption ==
    ChunkLens \subseteq Nat /\ BufMax \in Nat \ {0} /\ SlotSize \in Nat

VARIABLES
    stream,       \* the phone's H.264 stream
    sent,         \* how much of it has arrived
    au_buf,       \* au_buf[0 .. au_len - 1], each <<position, byte>>
    i, au_start, cur_has_vcl,
    pc,           \* "idle" or "scan": where handle_video is
    queued,       \* units feed_decoder took, as positions
    thrown        \* history: positions thrown away

scan == <<i, au_start, cur_has_vcl>>
vars == <<stream, sent, au_buf, scan, pc, queued, thrown>>

au_len == Len(au_buf)
Cells(from, to) == [k \in 1 .. to - from + 1 |-> <<from + k - 1, stream[from + k - 1]>>]
Timestamp(stamp) == [k \in DOMAIN stamp |-> <<0, stamp[k]>>]
Positions(cells) == [k \in DOMAIN cells |-> cells[k][1]]
Held(cells) == {cells[k][1] : k \in DOMAIN cells} \ {0}

Init ==
    /\ stream \in Streams
    /\ sent = 0
    /\ au_buf = <<>>
    /\ i = 0 /\ au_start = 0 /\ cur_has_vcl = FALSE
    /\ pc = "idle"
    /\ queued = <<>>
    /\ thrown = {}

-----------------------------------------------------------------------------
\* The next video message: a timestamp and n bytes of the stream.
Payload(stamp, n) == Timestamp(stamp) \o Cells(sent + 1, sent + n)

OverflowsAlone(payload) == Len(payload) > BufMax     \* fault: au_len left out
Overflows(payload) == au_len + Len(payload) > BufMax

KeepBuffer == UNCHANGED au_buf          \* fault: only the message is dropped
ClearBuffer == au_buf' = <<>>

\* The message does not fit: it is dropped and the buffer emptied with it.
DropAll(stamp, n) ==
    /\ pc = "idle"
    /\ sent + n <= Len(stream)
    /\ Overflows(Payload(stamp, n))
    /\ sent' = sent + n
    /\ thrown' = thrown \cup Held(au_buf) \cup Held(Payload(stamp, n))
    /\ ClearBuffer
    /\ UNCHANGED <<stream, scan, pc, queued>>

\* The message is appended; the scan starts over from the buffer's beginning.
AppendChunk(stamp, n) ==
    /\ pc = "idle"
    /\ sent + n <= Len(stream)
    /\ ~Overflows(Payload(stamp, n))
    /\ sent' = sent + n
    /\ au_buf' = au_buf \o Payload(stamp, n)
    /\ i' = 0 /\ au_start' = 0 /\ cur_has_vcl' = FALSE
    /\ pc' = "scan"
    /\ UNCHANGED <<stream, queued, thrown>>

-----------------------------------------------------------------------------
(* The scan.                                                               *)

BufByte(k) == au_buf[k + 1][2]

ShortCodeOnly(k) ==                     \* fault: the four-byte form is unknown
    k + 3 <= au_len /\ BufByte(k) = 0 /\ BufByte(k + 1) = 0 /\ BufByte(k + 2) = 1
IsStartCode(k) ==
    \E sc \in {3, 4} :
        /\ k + sc <= au_len
        /\ BufByte(k + sc - 1) = 1
        /\ \A z \in k .. k + sc - 2 : BufByte(z) = 0

NalHdr(k) == k + (IF BufByte(k + 2) = 1 THEN 3 ELSE 4)

IsVclByte(b) == b % 32 \in 1 .. 5        \* NAL types 1 to 5 are slices

AnyNal(k) == NalHdr(k) < au_len          \* fault: a parameter set cuts, too
StartsSlice(k) == NalHdr(k) < au_len /\ IsVclByte(BufByte(NalHdr(k)))

\* feed_decoder on au_buf[from .. to - 1]; a unit larger than a slot is dropped.
Unit(from, to) == Positions(SubSeq(au_buf, from + 1, to))
FeedDecoder(unit) ==
    IF Len(unit) \in 1 .. SlotSize
    THEN queued' = Append(queued, unit) /\ UNCHANGED thrown
    ELSE thrown' = thrown \cup ({unit[k] : k \in DOMAIN unit} \ {0}) /\ UNCHANGED queued

\* A start code: a slice that is not the unit's first completes the unit
\* before it.  The scan goes on behind the start code.
ScanStartCode ==
    /\ pc = "scan"
    /\ i < au_len
    /\ IsStartCode(i)
    /\ IF StartsSlice(i) /\ cur_has_vcl
       THEN FeedDecoder(Unit(au_start, i)) /\ au_start' = i
       ELSE UNCHANGED <<queued, thrown, au_start>>
    /\ cur_has_vcl' = (StartsSlice(i) \/ cur_has_vcl)
    /\ i' = NalHdr(i)
    /\ UNCHANGED <<stream, sent, au_buf, pc>>

\* Any other byte.
ScanByte ==
    /\ pc = "scan"
    /\ i < au_len
    /\ ~IsStartCode(i)
    /\ i' = i + 1
    /\ UNCHANGED <<stream, sent, au_buf, au_start, cur_has_vcl, pc, queued, thrown>>

LeaveBuffer == UNCHANGED au_buf          \* fault: what was fed is kept as well
MoveDown == au_buf' = SubSeq(au_buf, au_start + 1, au_len)

\* The scan is over: the trailing, incomplete unit moves to the front.
KeepTail ==
    /\ pc = "scan"
    /\ i >= au_len
    /\ MoveDown
    /\ pc' = "idle"
    /\ UNCHANGED <<stream, sent, scan, queued, thrown>>

Next ==
    \/ \E stamp \in Stamps, n \in ChunkLens : DropAll(stamp, n) \/ AppendChunk(stamp, n)
    \/ ScanStartCode \/ ScanByte \/ KeepTail

Spec == Init /\ [][Next]_vars
-----------------------------------------------------------------------------
(* Properties.                                                             *)

TypeOK ==
    /\ stream \in Streams
    /\ sent \in 0 .. Len(stream)
    /\ au_len <= BufMax
    /\ \A k \in DOMAIN au_buf : au_buf[k] \in (0 .. sent) \X Byte
    /\ i \in 0 .. BufMax /\ au_start \in 0 .. i /\ cur_has_vcl \in BOOLEAN
    /\ pc \in {"idle", "scan"}
    /\ queued \in Seq(Seq(0 .. sent))
    /\ \A u \in DOMAIN queued : Len(queued[u]) \in 1 .. SlotSize
    /\ thrown \subseteq 1 .. sent

\* The positions of the stream in the order the decoder gets them, followed by
\* those still in au_buf.
InBuffer == SubSeq(au_buf, (IF pc = "scan" THEN au_start ELSE 0) + 1, au_len)
Before(p, q) == p > 0 /\ q > 0 => p < q

\* Every byte received is in one place, the units fed, the buffer or the
\* thrown bytes, and the fed ones keep their order: none is repeated by the
\* rescan of au_buf, none skipped by a cut, whatever overflows.
EachByteOnce ==
    LET fed == (UNION {{queued[u][k] : k \in DOMAIN queued[u]} : u \in DOMAIN queued})
               \ {0}
        kept == Held(InBuffer)
    IN  /\ fed \cup kept \cup thrown = 1 .. sent
        /\ fed \cap kept = {} /\ (fed \cup kept) \cap thrown = {}
        /\ \A u \in DOMAIN queued : \A k, l \in DOMAIN queued[u] :
              k < l => Before(queued[u][k], queued[u][l])
        /\ \A u, w \in DOMAIN queued : u < w =>
              \A k \in DOMAIN queued[u] : \A l \in DOMAIN queued[w] :
                  Before(queued[u][k], queued[w][l])
        /\ \A p \in fed : \A q \in kept : p < q

\* Where slices begin, from the stream alone: a start code that no other one
\* overlaps from the left, with the header of a slice behind it.
CodeAt(p) ==
    \E sc \in {3, 4} :
        /\ p + sc - 1 <= Len(stream)
        /\ stream[p + sc - 1] = 1
        /\ \A z \in p .. p + sc - 2 : stream[z] = 0
HeaderOf(p) == p + (IF stream[p + 2] = 1 THEN 3 ELSE 4)
CodeBegins(p) == CodeAt(p) /\ (p > 1 => ~CodeAt(p - 1))
Slices(upto) ==
    {p \in 1 .. Len(stream) :
        CodeBegins(p) /\ HeaderOf(p) <= upto /\ IsVclByte(stream[HeaderOf(p)])}

\* The NAL unit that begins at p, up to the next start code.
NalUnit(p) == {x \in p .. Len(stream) : ~\E q \in p + 1 .. x : CodeBegins(q)}

Fed(u) == {queued[u][k] : k \in DOMAIN queued[u]}

\* However the phone cuts its stream into messages, inside a start code or
\* before a header, no unit holds two slices and each NAL unit, slice or
\* parameter set, is fed in one piece, unless its first byte was thrown away:
\* a slice once a later slice has shown its header, anything else once two have.
\* To which of the units next to it a parameter set between two slices belongs
\* is left open: the code feeds it with the slice before it, the comment at
\* vita_video.c:216-218 says with the one behind it.
NalUnitsWhole ==
    pc = "idle" /\ Stamps \subseteq {<<>>} =>
        /\ \A u \in DOMAIN queued : \A p, q \in Slices(sent) \cap Fed(u) : p = q
        /\ \A p \in 1 .. sent :
              /\ CodeBegins(p) /\ p \notin thrown
              /\ \E q, r \in Slices(sent) : p <= q /\ q < r
              => \E u \in DOMAIN queued : NalUnit(p) \subseteq Fed(u)

\* After an overflow the splitter finds its way back: whatever was thrown
\* away, a unit that begins where the one fed before it ends is a unit of the
\* stream, and every unit ends where a slice begins.
Resynchronises ==
    Stamps \subseteq {<<>>} =>
        \A u \in DOMAIN queued :
            LET unit == queued[u]
                end == unit[Len(unit)] + 1
            IN  /\ end \in Slices(sent)
                /\ u > 1 /\ queued[u - 1][Len(queued[u - 1])] + 1 = unit[1] =>
                       unit[1] \in Slices(sent)
                           /\ ~\E p \in Slices(sent) : unit[1] < p /\ p < end

\* specs/features/aa-media-channels/spec.md:43: a media message with timestamp
\* is "raw [8B ts] + H.264 / PCM".  The decoder is fed the H.264 only.
VideoOnly ==
    \A u \in DOMAIN queued : \A k \in DOMAIN queued[u] : queued[u][k] > 0
=============================================================================
