------------------------------ MODULE Session -------------------------------
(***************************************************************************)
(* One direction of an Android Auto session (src/src/core/session.c): the  *)
(* sender splits a message into frames, encrypts each frame that is marked *)
(* ENCRYPTED and writes it to the TCP connection; the receiver's poll      *)
(* drains the socket and reassembles one message.  Sizes are counted in    *)
(* blocks: a message of n blocks is the sequence <<id, 1>> .. <<id, n>>, a *)
(* frame's payload a run of it, so a lost, repeated or foreign part shows. *)
(*                                                                         *)
(* The receiver has its TLS context attached, as the phone has from the    *)
(* start and the head unit from VERSION_RESPONSE on.  A frame cut short by *)
(* the end of the received bytes is "incomplete" to aa_frame_decode, just  *)
(* like one not received at all; so frames travel whole.                   *)
(***************************************************************************)
EXTENDS Integers, Sequences

CONSTANTS
    Channel,      \* channel ids
    Lens,         \* lengths of messages, message id included
    MaxPayload,   \* AA_MAX_FRAME_PAYLOAD
    HeaderLen,    \* a frame's header; that of a FIRST frame is twice as long
    Slacks,       \* what send buffers hold beyond MaxPayload, by the
                  \* sender's make
    Overhead,     \* what a TLS record adds to its plaintext
    MaxMsgs       \* bound: messages sent

ASSUME PayloadAssumption == MaxPayload \in Nat \ {0}
ASSUME SizesAssumption ==
    /\ HeaderLen \in Nat /\ Overhead \in Nat /\ MaxMsgs \in Nat
    /\ Slacks \subseteq Nat /\ \A n \in Slacks : 2 * HeaderLen <= n
ASSUME LensAssumption == Lens \subseteq Nat \ {0}

VARIABLES
    \* sender
    slack,        \* one of Slacks, for good
    tls,          \* is the TLS context attached (aa_session_set_tls)
    tx_seq,       \* TLS records produced so far
    last_id,      \* messages begun so far
    sending,      \* per channel, the message aa_session_send is working on
    accepted,     \* messages whose send returned 0, in that order
    rejected,     \* ids of the messages whose send returned -1
    \* TCP connection
    conn,
    wire,         \* frames written and not yet read by the receiver
    \* receiver
    in, in_message, msg, rx_seq,
    rpc,          \* where aa_session_poll is
    ret,          \* what the last aa_session_poll returned
    yielded       \* messages next_message yielded

sender == <<slack, tls, tx_seq, last_id, sending, accepted, rejected>>
network == <<conn, wire>>
receiver == <<in, in_message, msg, rx_seq, rpc, ret, yielded>>
vars == <<sender, network, receiver>>

Ids == 1 .. MaxMsgs
Blocks(id, from, to) == [i \in 1 .. to - from + 1 |-> <<id, from + i - 1>>]

Idle == [id |-> 0]
NoMsg == [ch |-> 0, total |-> 0, body |-> <<>>]

-----------------------------------------------------------------------------
Init ==
    /\ slack \in Slacks
    /\ tls \in BOOLEAN
    /\ tx_seq = 0 /\ last_id = 0
    /\ sending = [c \in Channel |-> Idle]
    /\ accepted = <<>> /\ rejected = {}
    /\ conn = "up" /\ wire = <<>>
    /\ in = <<>> /\ in_message = FALSE /\ msg = NoMsg /\ rx_seq = 0
    /\ rpc = "idle" /\ ret = 1
    /\ yielded = <<>>

-----------------------------------------------------------------------------
(* Sender.                                                                 *)

AllIdle == \A c \in Channel : sending[c] = Idle

\* aa_session_set_tls, called by the sending thread between two sends.
AttachTls ==
    /\ ~tls
    /\ AllIdle
    /\ tls' = TRUE
    /\ UNCHANGED <<slack, tx_seq, last_id, sending, accepted, rejected, network, receiver>>

\* aa_session_send is called.  It does not return before the last frame is
\* written, so the frames of two messages never mix.
Begin(c, enc, len) ==
    /\ last_id < MaxMsgs
    /\ AllIdle
    /\ last_id' = last_id + 1
    /\ sending' = [sending EXCEPT ![c] =
                      [id |-> last_id', enc |-> enc, len |-> len, off |-> 0]]
    /\ UNCHANGED <<slack, tls, tx_seq, accepted, rejected, network, receiver>>

\* The payload of the next frame of s, its type and its total size field.
ChunkAll(s) == s.len - s.off             \* fault: the rest in one frame
Chunk(s) ==
    LET remaining == s.len - s.off
    IN  IF remaining > MaxPayload THEN MaxPayload ELSE remaining

FrameType(s) ==
    CASE s.len <= MaxPayload -> "BULK"
      [] s.len > MaxPayload /\ s.off = 0 -> "FIRST"
      [] s.off > 0 /\ s.len - s.off > MaxPayload -> "MIDDLE"
      [] OTHER -> "LAST"

Frame(c, s) ==
    [ch    |-> c,
     ft    |-> FrameType(s),
     enc   |-> s.enc,
     total |-> IF FrameType(s) = "FIRST" THEN s.len ELSE 0,
     body  |-> Blocks(s.id, s.off + 1, s.off + Chunk(s)),
     rec   |-> IF s.enc /\ tls THEN tx_seq + 1 ELSE 0]

\* Header and payload must fit the buffer of AA_MAX_FRAME_PAYLOAD + 8 bytes.  A
\* TLS record that does not has been produced by the time this is found.
Encrypts(s) == s.enc /\ tls
Header(s) == IF FrameType(s) = "FIRST" THEN 2 * HeaderLen ELSE HeaderLen
Fits(s) ==
    Header(s) + Chunk(s) + (IF Encrypts(s) THEN Overhead ELSE 0) <= MaxPayload + slack

CountRecord(s) == tx_seq' = IF Encrypts(s) THEN tx_seq + 1 ELSE tx_seq

\* send_frame succeeds; with the last frame aa_session_send returns 0.  Once
\* the connection is closed the bytes written to it are lost.
SendFrame(c) ==
    LET s == sending[c]
        done == s.off + Chunk(s) = s.len
    IN  /\ s # Idle
        /\ Fits(s)
        /\ wire' = IF conn = "up" THEN Append(wire, Frame(c, s)) ELSE wire
        /\ CountRecord(s)
        /\ sending' = [sending EXCEPT ![c] =
                          IF done THEN Idle ELSE [s EXCEPT !.off = s.off + Chunk(s)]]
        /\ accepted' = IF done
                       THEN Append(accepted, [ch |-> c, body |-> Blocks(s.id, 1, s.len)])
                       ELSE accepted
        /\ UNCHANGED <<slack, tls, last_id, rejected, conn, receiver>>

\* send_frame fails, in aa_tls_encrypt or in aa_transport_send:
\* aa_session_send gives the message up and returns -1.
SendFails(c) ==
    LET s == sending[c]
    IN  /\ s # Idle
        /\ ~Fits(s) \/ conn = "closed"
        /\ CountRecord(s)
        /\ sending' = [sending EXCEPT ![c] = Idle]
        /\ rejected' = rejected \cup {s.id}
        /\ UNCHANGED <<slack, tls, last_id, accepted, network, receiver>>

-----------------------------------------------------------------------------
(* TCP connection.                                                         *)

\* The connection ends, by a close or by a loss that drops what is in flight.
Close ==
    /\ conn = "up"
    /\ conn' = "closed"
    /\ wire' \in {wire, <<>>}
    /\ UNCHANGED <<sender, receiver>>

-----------------------------------------------------------------------------
(* Receiver: aa_session_poll and, after a 0, aa_session_next_message.      *)

EofOnEmpty(n) == n = Len(wire)           \* fault: "no data" taken for the end
EofSeen(n) == conn = "closed" /\ n = Len(wire)

\* Read until the socket is empty: n frames have arrived in full.  At the end
\* of the stream poll returns -1 at once, whatever it has just read.
Drain(n) ==
    /\ rpc = "idle"
    /\ in' = in \o SubSeq(wire, 1, n)
    /\ wire' = SubSeq(wire, n + 1, Len(wire))
    /\ IF EofSeen(n) THEN ret' = -1 /\ UNCHANGED rpc
                     ELSE rpc' = "parse" /\ UNCHANGED ret
    /\ UNCHANGED <<conn, in_message, msg, rx_seq, yielded, sender>>

PollDrain == \E n \in 0 .. Len(wire) : Drain(n)

\* Nothing (or only a part of a frame) is left: more data is needed.
PollIncomplete ==
    /\ rpc = "parse"
    /\ in = <<>>
    /\ ret' = 1
    /\ rpc' = "idle"
    /\ UNCHANGED <<in, in_message, msg, rx_seq, yielded, sender, network>>

\* A TLS record decrypts only as the next one of the sender's records.
Decrypts(f) == f.enc => f.rec = rx_seq + 1

\* The frame at the head does not decrypt: poll returns -1 and keeps it.
PollBadRecord ==
    /\ rpc = "parse"
    /\ in # <<>>
    /\ ~Decrypts(Head(in))
    /\ ret' = -1
    /\ rpc' = "idle"
    /\ UNCHANGED <<in, in_message, msg, rx_seq, yielded, sender, network>>

\* The message under assembly once frame f is added to it.
Assemble(f) ==
    CASE f.ft = "FIRST" ->
            [ch |-> f.ch, total |-> f.total, body |-> f.body]
      [] f.ft # "FIRST" /\ ~in_message ->
            [ch |-> f.ch, total |-> Len(f.body), body |-> f.body]
      [] OTHER ->
            [msg EXCEPT !.body = msg.body \o f.body]

CompleteLate(m) == Len(m.body) > m.total             \* fault: off by one
Complete(m) == Len(m.body) >= m.total

ConsumeAll(frames) == <<>>               \* fault: discards pipelined frames
Consume(frames) == Tail(frames)

\* Take one frame; the message it completes is yielded and poll returns 0.
PollFrame ==
    /\ rpc = "parse"
    /\ in # <<>>
    /\ Decrypts(Head(in))
    /\ LET f == Head(in)
           m == Assemble(f)
       IN  /\ rx_seq' = IF f.enc THEN rx_seq + 1 ELSE rx_seq
           /\ in' = Consume(in)
           /\ IF Complete(m)
              THEN /\ in_message' = FALSE
                   /\ msg' = NoMsg
                   /\ yielded' = Append(yielded, [ch |-> m.ch, body |-> m.body])
                   /\ ret' = 0
                   /\ rpc' = "idle"
              ELSE /\ in_message' = TRUE
                   /\ msg' = m
                   /\ UNCHANGED <<yielded, ret, rpc>>
    /\ UNCHANGED <<sender, network>>

-----------------------------------------------------------------------------
Next ==
    \/ AttachTls
    \/ \E c \in Channel, enc \in BOOLEAN, len \in Lens : Begin(c, enc, len)
    \/ \E c \in Channel : SendFrame(c) \/ SendFails(c)
    \/ Close
    \/ PollDrain \/ PollIncomplete \/ PollBadRecord \/ PollFrame

Spec == Init /\ [][Next]_vars

(* The receiver's owner polls for ever, a send in progress goes on, and     *)
(* what was written to the connection is there to read, some day.           *)
Fairness ==
    /\ WF_vars(\E c \in Channel : SendFrame(c) \/ SendFails(c))
    /\ WF_vars(PollDrain)
    /\ SF_vars(wire # <<>> /\ Drain(Len(wire)))
    /\ WF_vars(PollIncomplete \/ PollBadRecord \/ PollFrame)

FairSpec == Spec /\ Fairness
-----------------------------------------------------------------------------
(* Properties.                                                             *)

Body == Seq(Ids \X Nat)
FrameOK(f) ==
    /\ f.ch \in Channel /\ f.enc \in BOOLEAN
    /\ f.ft \in {"BULK", "FIRST", "MIDDLE", "LAST"}
    /\ f.body \in Body /\ Len(f.body) \in 1 .. MaxPayload
    /\ f.total \in Nat /\ f.rec \in Nat
MessageOK(m) == m.ch \in Channel /\ m.body \in Body

TypeOK ==
    /\ slack \in Slacks /\ tls \in BOOLEAN
    /\ tx_seq \in Nat /\ rx_seq \in Nat /\ last_id \in 0 .. MaxMsgs
    /\ \A c \in Channel : sending[c] # Idle =>
          sending[c] \in [id : Ids, enc : BOOLEAN, len : Lens, off : Nat]
    /\ rejected \subseteq Ids
    /\ conn \in {"up", "closed"}
    /\ \A q \in {wire, in} : \A i \in DOMAIN q : FrameOK(q[i])
    /\ \A q \in {accepted, yielded} : \A i \in DOMAIN q : MessageOK(q[i])
    /\ in_message \in BOOLEAN /\ msg.total \in Nat /\ msg.body \in Body
    /\ rpc \in {"idle", "parse"} /\ ret \in {-1, 0, 1}

\* Messages handed over with success come out whole, once, in order and on
\* their channel, whatever is fragmented, encrypted, refused or lost.
Message == [ch : Channel, body : {Blocks(id, 1, len) : id \in Ids, len \in Lens}]
Contract == INSTANCE MsgChannel WITH
                queue <- SubSeq(accepted, Len(yielded) + 1, Len(accepted))
ImplementsChannel == Contract!Spec

\* poll reports an error only for a cause: the connection ended, a send was
\* refused before, or an ENCRYPTED frame was written with no TLS attached.
FailsOnlyForCause ==
    ret = -1 => \/ conn = "closed"
                \/ rejected # {}
                \/ in # <<>> /\ Head(in).enc /\ Head(in).rec = 0

\* A message handed over with success is yielded, unless the session fails.
EveryMessageArrives ==
    \A n \in 1 .. MaxMsgs :
        Len(accepted) >= n ~> Len(yielded) >= n \/ ret = -1 \/ conn = "closed"

\* specs/features/aa-control-channel/plan.md:12-13: send "fragments into <=0x4000
\* chunks, TLS-encrypts each chunk when ENCRYPTED, and frames it".  While the
\* connection is up, no message is refused for its length.
HealthySendSucceeds == conn = "up" => rejected = {}
=============================================================================
