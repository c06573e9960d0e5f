-------------------------------- MODULE Wire --------------------------------
(***************************************************************************)
(* Messages as the bytes on the TCP connection, which arrive in any        *)
(* portions.  Two writers and two readers: the session's                   *)
(* (src/src/core/session.c), with TLS attached at both ends or at none, and*)
(* the stream's (src/src/core/stream.c), which passes the flags through and*)
(* allows an empty message.  All of them share the framing: only the steps *)
(* of one frame are a byte-level matter, a connection that ends is a       *)
(* behaviour that stops, and Session has what a message loses by it.       *)
(***************************************************************************)
EXTENDS FrameCodec, TlsBio

CONSTANTS
    Shapes,       \* message headers: channel, message type and encryption
    Lens,         \* lengths of messages; a session's are at least 2 long
    MaxPayload,   \* AA_MAX_FRAME_PAYLOAD
    Slacks,       \* what send buffers hold beyond it: 8, or more in a peer
    MaxMsgs       \* bound: messages sent

ASSUME SizesAssumption ==
    /\ MaxPayload \in Nat \ {0} /\ Lens \subseteq Nat /\ MaxMsgs \in Nat
    /\ 8 \in Slacks /\ \A n \in Slacks : n \in Nat /\ n >= 8
    /\ \A n \in Slacks : MaxPayload + n < Half
    /\ \A n \in Lens : n < Half * Half
    /\ \A s \in Shapes : s.ch \in Nat /\ s.mt \in {0, 4} /\ s.enc \in {0, 8}

\* A frame's payload is one TLS record, since none is larger than a record.
ASSUME OneRecordAssumption == MaxPayload <= MaxRecord

VARIABLES
    kind,         \* "stream", "plain" or "sealed" (a session with TLS)
    slack,        \* one of Slacks, for good
    sending,      \* the message being written, or Idle
    tx_seq,       \* TLS records produced
    last_id,
    accepted,     \* messages written with success, in that order
    wire,         \* bytes written and not yet read
    in,           \* bytes read and not yet consumed by the reader
    in_message, msg,
    tls,          \* the reader's TLS session
    rpc,          \* the reader: "idle", "parse" (in its loop), "failed"
    yielded       \* messages the reader returned

writer == <<kind, slack, sending, tx_seq, last_id, accepted>>
reader == <<in_message, msg, tls, rpc, yielded>>
vars == <<writer, wire, in, reader>>

Ids == 1 .. MaxMsgs
Idle == [id |-> 0]
NoMsg == [ch |-> 0, mt |-> 0, total |-> 0, body |-> <<>>]

\* Byte i of message id is none of another message's or of a header's.
Body(id, from, to) == [i \in 1 .. to - from + 1 |-> 1000 * id + from + i - 1]

\* The session's receiver does not report the message type.
Reported(mt) == IF kind = "stream" THEN mt ELSE 0

Init ==
    /\ kind \in {"stream", "plain", "sealed"}
    /\ slack \in IF kind = "sealed" THEN Slacks ELSE {8}
    /\ sending = Idle /\ tx_seq = 0 /\ last_id = 0 /\ accepted = <<>>
    /\ wire = <<>> /\ in = <<>>
    /\ in_message = FALSE /\ msg = NoMsg /\ tls = NewTls
    /\ rpc = "idle" /\ yielded = <<>>

-----------------------------------------------------------------------------
(* aa_stream_write_message and aa_session_send, a frame at a time.         *)

Begin(s, len) ==
    /\ sending = Idle /\ last_id < MaxMsgs
    /\ kind # "stream" => len >= 2
    /\ last_id' = last_id + 1
    /\ sending' = [id |-> last_id', shape |-> s, len |-> len, off |-> 0]
    /\ UNCHANGED <<kind, slack, tx_seq, accepted, wire, in, reader>>

\* The next frame of message s, with seq records written before it.
RestLen(s) == s.len - s.off
Chunk(s) == Min({RestLen(s), MaxPayload})
FrameType(s) ==
    CASE s.len <= MaxPayload -> BULK
      [] s.len > MaxPayload /\ s.off = 0 -> FIRST
      [] s.off > 0 /\ RestLen(s) <= MaxPayload -> LAST
      [] OTHER -> MIDDLE

Plain(s) == Body(s.id, s.off + 1, s.off + Chunk(s))
Encrypts(s) == kind = "sealed" /\ s.shape.enc # 0
Payload(s, seq) == IF Encrypts(s) THEN Encrypt(seq, Plain(s)) ELSE Plain(s)
Frame(s, seq) == [ch |-> s.shape.ch, ft |-> FrameType(s),
                  mt |-> s.shape.mt, enc |-> s.shape.enc,
                  total |-> IF FrameType(s) = FIRST THEN s.len ELSE 0,
                  payload |-> Payload(s, seq)]

\* The record fits its buffer and the frame its own, equally large one.
Fits == FitsBuffer(Frame(sending, tx_seq), MaxPayload + slack)
CountRecords ==
    tx_seq' = IF Encrypts(sending) THEN tx_seq + RecordCount(Chunk(sending)) ELSE tx_seq

WriteFrame ==
    LET done == Chunk(sending) = RestLen(sending)
    IN  /\ sending # Idle
        /\ Fits
        /\ wire' = wire \o Encode(Frame(sending, tx_seq))
        /\ CountRecords
        /\ sending' = IF done THEN Idle ELSE [sending EXCEPT !.off = @ + Chunk(sending)]
        /\ accepted' = IF done
              THEN Append(accepted, [ch |-> sending.shape.ch, mt |-> Reported(sending.shape.mt),
                                     body |-> Body(sending.id, 1, sending.len)])
              ELSE accepted
        /\ UNCHANGED <<kind, slack, last_id, in, reader>>

\* The record exists when its frame is refused; the message is given up.
WriteFails ==
    /\ sending # Idle
    /\ ~Fits
    /\ CountRecords
    /\ sending' = Idle
    /\ UNCHANGED <<kind, slack, last_id, accepted, wire, in, reader>>

-----------------------------------------------------------------------------
(* aa_stream_reader_feed and _next_message; aa_session_poll, then          *)
(* aa_session_next_message.  The reader is given what has arrived and takes*)
(* frames until a message is complete or the bytes are not a frame.        *)

Receive(n) ==
    /\ rpc = "idle"
    /\ in' = in \o SubSeq(wire, 1, n)
    /\ wire' = SubSeq(wire, n + 1, Len(wire))
    /\ rpc' = "parse"
    /\ UNCHANGED <<writer, in_message, msg, tls, yielded>>

ReceiveSome == \E n \in 0 .. Len(wire) : Receive(n)

NeedMore ==
    /\ rpc = "parse"
    /\ ~Decodable(in)
    /\ rpc' = "idle"
    /\ UNCHANGED <<writer, wire, in, in_message, msg, tls, yielded>>

Decrypts(f) == kind = "sealed" /\ f.enc # 0
Opened(f) ==
    IF Decrypts(f) THEN Decrypt(tls, f.payload, Len(f.payload) + 1)
                   ELSE [ok |-> TRUE, plain |-> f.payload, tls |-> tls]

Assemble(f, chunk) ==
    IF f.ft = FIRST \/ ~in_message
    THEN [ch |-> f.ch, mt |-> Reported(f.mt), body |-> chunk,
          total |-> IF f.ft = FIRST THEN f.total ELSE Len(chunk)]
    ELSE [msg EXCEPT !.body = @ \o chunk]

\* memmove: what follows the frame moves to the front.
ConsumeAll(f) == <<>>                        \* fault: discards pipelined frames
Consume(f) == SubSeq(in, HeaderLen(f.ft) + Len(f.payload) + 1, Len(in))

TakeFrame ==
    LET f == Decode(in)
        opened == Opened(f)
        m == Assemble(f, opened.plain)
    IN  /\ rpc = "parse"
        /\ Decodable(in)
        /\ opened.ok
        /\ tls' = opened.tls
        /\ in' = Consume(f)
        /\ IF Len(m.body) >= m.total
           THEN /\ in_message' = FALSE
                /\ msg' = NoMsg
                /\ yielded' = Append(yielded, [ch |-> m.ch, mt |-> m.mt, body |-> m.body])
                /\ rpc' = "idle"
           ELSE in_message' = TRUE /\ msg' = m /\ UNCHANGED <<yielded, rpc>>
        /\ UNCHANGED <<writer, wire>>

\* A frame that does not decrypt stays where it is, its bytes in the BIO as
\* well; poll returns -1 and the owner gives the session up.
BadFrame ==
    /\ rpc = "parse"
    /\ Decodable(in)
    /\ ~Opened(Decode(in)).ok
    /\ tls' = Opened(Decode(in)).tls
    /\ rpc' = "failed"
    /\ UNCHANGED <<writer, wire, in, in_message, msg, yielded>>

-----------------------------------------------------------------------------
Next ==
    \/ \E s \in Shapes, len \in Lens : Begin(s, len)
    \/ WriteFrame \/ WriteFails
    \/ ReceiveSome \/ NeedMore \/ TakeFrame \/ BadFrame

Spec == Init /\ [][Next]_vars

(* A send in progress goes on; the reader's owner polls for ever, and some *)
(* poll finds something of what was written.                               *)
Fairness ==
    /\ WF_vars(WriteFrame \/ WriteFails)
    /\ WF_vars(ReceiveSome)
    /\ SF_vars(\E n \in 1 .. Len(wire) : Receive(n))
    /\ WF_vars(NeedMore \/ TakeFrame \/ BadFrame)

FairSpec == Spec /\ Fairness

-----------------------------------------------------------------------------
(* Properties.                                                             *)

TypeOK ==
    /\ kind \in {"stream", "plain", "sealed"} /\ slack \in Slacks
    /\ sending # Idle =>
          /\ sending \in [id : Ids, shape : Shapes, len : Lens, off : Nat]
          /\ sending.off <= sending.len
    /\ tx_seq \in Nat /\ last_id \in 0 .. MaxMsgs
    /\ \A bytes \in {wire, in, tls.in, tls.got, tls.left} : \A i \in DOMAIN bytes : bytes[i] \in Nat
    /\ tls.off \in 0 .. Len(tls.in) /\ tls.seq \in Nat
    /\ in_message \in BOOLEAN /\ (in_message => msg.total \in Lens)
    /\ rpc \in {"idle", "parse", "failed"}

\* Whatever the portions in which the bytes arrive, messages written with
\* success come out whole, once, in order and under their header.
Message == [ch : {s.ch : s \in Shapes}, mt : {0, 4},
            body : {Body(id, 1, len) : id \in Ids, len \in Lens}]
Contract == INSTANCE MsgChannel WITH
                queue <- SubSeq(accepted, Len(yielded) + 1, Len(accepted))
ImplementsChannel == Contract!Spec

\* The reader fails only after a write was refused for its size, which left
\* a gap in the numbers of the TLS records.
Refused == last_id - Len(accepted) - (IF sending = Idle THEN 0 ELSE 1)
FailsOnlyForGap == rpc = "failed" => kind = "sealed" /\ Refused > 0

\* One read of aa_tls_decrypt empties what one frame has brought: between
\* two frames neither the BIO nor mbedTLS holds a part of a record, so no
\* message is ever made of an earlier frame's plaintext.
RecordPerFrame == rpc # "failed" => Drained(tls)

\* A message written with success is returned, unless the session fails: the
\* reader is never stuck on a whole frame it takes for a part of one.
EveryMessageArrives ==
    \A n \in 1 .. MaxMsgs :
        Len(accepted) >= n ~> Len(yielded) >= n \/ rpc = "failed"
=============================================================================
