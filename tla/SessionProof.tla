---------------------------- MODULE SessionProof ----------------------------
(***************************************************************************)
(* Session's messages survive fragmentation, encryption, refusals and the  *)
(* loss of the connection: proofs for every number of messages, length,    *)
(* frame size and buffer.  What has been written and not yet taken, Flow,  *)
(* is followed frame by frame: before each frame it says which message the *)
(* receiver is in, how much of it it has, and how many it has completed.   *)
(***************************************************************************)
EXTENDS Session, SequenceTheorems, TLAPS

-----------------------------------------------------------------------------
(* The inductive invariant.                                                *)

Msgs == [ch : Channel, id : Ids, len : Lens]
Whole(m) == [ch |-> m.ch, body |-> Blocks(m.id, 1, m.len)]
Sending == [id : Ids, enc : BOOLEAN, len : Lens, off : Nat]
Frames == {f \in [ch : Channel, ft : {"BULK", "FIRST", "MIDDLE", "LAST"},
                  enc : BOOLEAN, total : Nat, body : Body, rec : Nat] :
              Len(f.body) \in 1 .. MaxPayload /\ (f.rec # 0 => f.enc)}
Messages == [ch : Channel, body : Body]
Assembly == [ch : Channel \cup {0}, total : Nat, body : Body]

VarsTyped ==
    /\ slack \in Slacks /\ tls \in BOOLEAN /\ tx_seq \in Nat /\ last_id \in 0 .. MaxMsgs
    /\ sending \in [Channel -> Sending \cup {Idle}]
    /\ accepted \in Seq(Messages) /\ rejected \subseteq Ids
    /\ conn \in {"up", "closed"} /\ wire \in Seq(Frames) /\ in \in Seq(Frames)
    /\ in_message \in BOOLEAN /\ msg \in Assembly /\ rx_seq \in Nat
    /\ rpc \in {"idle", "parse"} /\ ret \in {-1, 0, 1} /\ yielded \in Seq(Messages)

\* One send at a time; one that has begun to write had room for a FIRST
\* frame, the largest there is, and so does not fail for want of room.
OneSend ==
    /\ \A c, d \in Channel : sending[c] # Idle /\ sending[d] # Idle => c = d
    /\ \A c \in Channel : sending[c] # Idle =>
          /\ sending[c].off < sending[c].len
          /\ sending[c].off > 0 =>
                /\ sending[c].len > MaxPayload
                /\ 2 * HeaderLen + (IF Encrypts(sending[c]) THEN Overhead ELSE 0) <= slack

\* A place in the flow: n messages are completed, off blocks of m received.
Places == [n : Nat, off : Nat, m : Msgs \cup {NoMsg}]
Flow == in \o wire
Due(m, off) == [id |-> m.id, len |-> m.len, off |-> off]

FrameOf(f, m, off) ==
    LET s == Due(m, off)
    IN  /\ f.ch = m.ch
        /\ f.ft = FrameType(s)
        /\ f.ft = "FIRST" => f.total = m.len
        /\ f.body = Blocks(m.id, off + 1, off + Chunk(s))

Passes(acc, p, f, q) ==
    LET upto == p.off + Chunk(Due(q.m, p.off))
    IN  /\ q.m \in Msgs
        /\ p.off > 0 => p.m = q.m
        /\ p.off < q.m.len
        /\ FrameOf(f, q.m, p.off)
        /\ upto # q.m.len => q.off = upto /\ q.n = p.n
        /\ upto = q.m.len =>
              /\ q.off = 0 /\ q.n = p.n + 1
              /\ q.n <= Len(acc) /\ acc[q.n] = Whole(q.m)

StartsAt(p) ==
    /\ p.n = Len(yielded)
    /\ ~in_message => p.off = 0
    /\ in_message =>
          /\ p.m \in Msgs /\ p.off \in 1 .. p.m.len - 1 /\ p.m.len > MaxPayload
          /\ msg = [ch |-> p.m.ch, total |-> p.m.len, body |-> Blocks(p.m.id, 1, p.off)]

EndsAt(p) ==
    /\ p.n = Len(accepted)
    /\ \A c \in Channel : sending[c] # Idle /\ sending[c].off > 0 =>
          /\ p.off = sending[c].off
          /\ p.m = [ch |-> c, id |-> sending[c].id, len |-> sending[c].len]
    /\ p.off > 0 => \E c \in Channel : sending[c] # Idle /\ sending[c].off = p.off

Follows(at) ==
    /\ StartsAt(at[0])
    /\ \A i \in 1 .. Len(Flow) : Passes(accepted, at[i - 1], Flow[i], at[i])
    /\ conn = "up" => EndsAt(at[Len(Flow)])

FlowFollows == \E at \in [0 .. Len(Flow) -> Places] : Follows(at)

IInv == VarsTyped /\ OneSend /\ Len(yielded) <= Len(accepted) /\ FlowFollows

\* While no send has been refused, the records in the flow are the next ones.
Numbers(q) ==
    /\ q[0] = rx_seq
    /\ \A i \in 1 .. Len(Flow) :
          /\ Flow[i].rec # 0 => Flow[i].rec = q[i - 1] + 1
          /\ q[i] = IF Flow[i].rec # 0 THEN Flow[i].rec ELSE q[i - 1]
    /\ conn = "up" => q[Len(Flow)] = tx_seq
RecordsInStep == rejected = {} => \E q \in [0 .. Len(Flow) -> Nat] : Numbers(q)

-----------------------------------------------------------------------------
(* Blocks, chunks and frames.                                              *)

\* A run of a message's blocks, block by block.
LEMMA BlocksAre ==
    ASSUME NEW id \in Ids, NEW from \in Nat, NEW n \in Nat
    PROVE  /\ Blocks(id, from + 1, from + n) \in Body
           /\ Len(Blocks(id, from + 1, from + n)) = n
           /\ \A k \in 1 .. n : Blocks(id, from + 1, from + n)[k] = <<id, from + k>>
<1> DEFINE b == Blocks(id, from + 1, from + n)
           e(k) == from + 1 + k - 1
<1>1. from + n - (from + 1) + 1 = n /\ \A k \in 1 .. n : e(k) = from + k
    OBVIOUS
<1>2. b = [k \in 1 .. from + n - (from + 1) + 1 |-> <<id, e(k)>>]
    BY DEF Blocks
<1> HIDE DEF e, b
<1>3. b = [k \in 1 .. n |-> <<id, from + k>>]
    BY <1>1, <1>2
<1>4. \A k \in 1 .. n : <<id, from + k>> \in Ids \X Nat
    OBVIOUS
<1>5. b \in Seq(Ids \X Nat) /\ Len(b) = n /\ \A k \in 1 .. n : b[k] = <<id, from + k>>
    BY <1>3, <1>4
<1>6. QED
    BY <1>5 DEF Body, b

\* Two runs side by side are one.
LEMMA BlocksJoin ==
    ASSUME NEW id \in Ids, NEW a \in Nat, NEW n \in Nat
    PROVE  Blocks(id, 1, a) \o Blocks(id, a + 1, a + n) = Blocks(id, 1, a + n)
<1> DEFINE x == Blocks(id, 1, a)
           y == Blocks(id, a + 1, a + n)
           z == Blocks(id, 1, a + n)
<1>1. /\ x \in Body /\ Len(x) = a /\ \A k \in 1 .. a : x[k] = <<id, k>>
      /\ z \in Body /\ Len(z) = a + n /\ \A k \in 1 .. a + n : z[k] = <<id, k>>
  <2>1. 0 + 1 = 1 /\ 0 + a = a /\ 0 + (a + n) = a + n /\ a + n \in Nat
        /\ \A k \in Nat : 0 + k = k
    OBVIOUS
  <2>2. 0 \in Nat
    OBVIOUS
  <2>3. \A m \in Nat : /\ Blocks(id, 0 + 1, 0 + m) \in Body
                       /\ Len(Blocks(id, 0 + 1, 0 + m)) = m
                       /\ \A k \in 1 .. m : Blocks(id, 0 + 1, 0 + m)[k] = <<id, 0 + k>>
    BY <2>2, BlocksAre
  <2>4. \A m \in Nat : /\ Blocks(id, 1, m) \in Body /\ Len(Blocks(id, 1, m)) = m
                       /\ \A k \in 1 .. m : Blocks(id, 1, m)[k] = <<id, k>>
    BY <2>3
  <2>5. QED
    BY <2>1, <2>4
<1>2. y \in Body /\ Len(y) = n /\ \A k \in 1 .. n : y[k] = <<id, a + k>>
    BY BlocksAre
<1> HIDE DEF x, y, z
<1>3. /\ x \o y \in Seq(Ids \X Nat) /\ Len(x \o y) = a + n
      /\ \A k \in 1 .. a + n : (x \o y)[k] = IF k <= a THEN x[k] ELSE y[k - a]
  <2>1. x \in Seq(Ids \X Nat) /\ y \in Seq(Ids \X Nat)
    BY <1>1, <1>2 DEF Body
  <2>2. /\ x \o y \in Seq(Ids \X Nat) /\ Len(x \o y) = Len(x) + Len(y)
        /\ \A k \in 1 .. Len(x) + Len(y) :
              (x \o y)[k] = IF k <= Len(x) THEN x[k] ELSE y[k - Len(x)]
    BY <2>1, ConcatProperties
  <2>3. QED
    BY <1>1, <1>2, <2>2
<1>4. ASSUME NEW k \in 1 .. a + n PROVE (x \o y)[k] = z[k]
  <2>1. z[k] = <<id, k>> /\ (x \o y)[k] = IF k <= a THEN x[k] ELSE y[k - a]
    BY <1>1, <1>3
  <2>2. k <= a => x[k] = <<id, k>>
    <3>1. k <= a => k \in 1 .. a
      OBVIOUS
    <3>2. QED
      BY <1>1, <3>1
  <2>3. ~(k <= a) => y[k - a] = <<id, k>>
    <3>1. ~(k <= a) => k - a \in 1 .. n /\ a + (k - a) = k
      OBVIOUS
    <3>2. QED
      BY <1>2, <3>1
  <2>4. QED
    BY <2>1, <2>2, <2>3
<1>5. x \o y = z
    BY <1>1, <1>3, <1>4, SeqEqual DEF Body
<1>6. QED
    BY <1>5 DEF x, y, z

\* The next chunk of a message with off of len blocks done: not empty, at most
\* a frame's; the frame's type says whether it is the first and the last.
LEMMA ChunkIs ==
    ASSUME NEW s, s.len \in Nat, s.off \in Nat, s.off < s.len,
           s.off > 0 => s.len > MaxPayload
    PROVE  /\ Chunk(s) \in 1 .. MaxPayload /\ s.off + Chunk(s) \in 1 .. s.len
           /\ FrameType(s) \in {"BULK", "FIRST", "MIDDLE", "LAST"}
           /\ FrameType(s) \in {"BULK", "FIRST"} <=> s.off = 0
           /\ FrameType(s) \in {"BULK", "LAST"} <=> s.off + Chunk(s) = s.len
           /\ s.off + Chunk(s) # s.len => s.len > MaxPayload
           /\ FrameType(s) = "BULK" => s.len <= MaxPayload
           /\ FrameType(s) = "FIRST" => s.len > MaxPayload
<1>1. MaxPayload \in Nat \ {0}
    BY PayloadAssumption
<1>2. /\ Chunk(s) \in 1 .. MaxPayload /\ s.off + Chunk(s) \in 1 .. s.len
      /\ s.off + Chunk(s) = s.len <=> s.len - s.off <= MaxPayload
    BY <1>1 DEF Chunk
<1>3. FrameType(s) = IF s.len <= MaxPayload THEN "BULK"
                     ELSE IF s.off = 0 THEN "FIRST"
                     ELSE IF s.len - s.off > MaxPayload THEN "MIDDLE" ELSE "LAST"
    BY <1>1 DEF FrameType
<1>4. QED
    BY <1>1, <1>2, <1>3

-----------------------------------------------------------------------------
(* The flow of frames.                                                     *)

\* The flow is a sequence of frames, those already read first.
LEMMA FlowIs ==
    ASSUME VarsTyped
    PROVE  /\ Flow \in Seq(Frames) /\ Len(Flow) \in Nat
           /\ Len(Flow) = Len(in) + Len(wire) /\ Len(in) \in Nat /\ Len(wire) \in Nat
           /\ \A i \in 1 .. Len(in) : Flow[i] = in[i]
           /\ \A i \in 1 .. Len(Flow) : Flow[i] \in Frames
<1>1. in \in Seq(Frames) /\ wire \in Seq(Frames)
    BY DEF VarsTyped
<1>2. /\ Flow \in Seq(Frames) /\ Len(Flow) = Len(in) + Len(wire)
      /\ \A i \in 1 .. Len(in) + Len(wire) :
            Flow[i] = IF i <= Len(in) THEN in[i] ELSE wire[i - Len(in)]
    BY <1>1, ConcatProperties DEF Flow
<1>3. Len(Flow) \in Nat /\ Len(in) \in Nat /\ Len(wire) \in Nat
    BY <1>1, <1>2
<1>4. \A i \in 1 .. Len(Flow) : Flow[i] \in Frames
    BY <1>2, ElementOfSeq
<1>5. QED
    BY <1>2, <1>3, <1>4

\* Reading moves frames from the connection to the receiver, in order.
LEMMA DrainedFlow ==
    ASSUME VarsTyped, NEW n \in 0 .. Len(wire)
    PROVE  /\ in \o SubSeq(wire, 1, n) \in Seq(Frames)
           /\ SubSeq(wire, n + 1, Len(wire)) \in Seq(Frames)
           /\ (in \o SubSeq(wire, 1, n)) \o SubSeq(wire, n + 1, Len(wire)) = Flow
           /\ in # <<>> => /\ in \o SubSeq(wire, 1, n) # <<>>
                           /\ Head(in \o SubSeq(wire, 1, n)) = Head(in)
<1> DEFINE a == SubSeq(wire, 1, n)
           b == SubSeq(wire, n + 1, Len(wire))
<1>1. in \in Seq(Frames) /\ wire \in Seq(Frames) /\ Len(wire) \in Nat
    BY DEF VarsTyped
<1>2. a \in Seq(Frames) /\ b \in Seq(Frames)
  <2>1. \A i \in 1 .. Len(wire) : wire[i] \in Frames
    BY <1>1, ElementOfSeq
  <2>2. (\A i \in 1 .. n : wire[i] \in Frames) /\ 1 \in Int /\ n \in Int
    BY <1>1, <2>1
  <2>3. (\A i \in n + 1 .. Len(wire) : wire[i] \in Frames) /\ n + 1 \in Int /\ Len(wire) \in Int
    BY <1>1, <2>1
  <2>4. QED
    BY <2>2, <2>3, SubSeqProperties
<1>3. a \o b = wire
  <2>1. 1 \in 1 .. Len(wire) + 1 /\ n \in 1 - 1 .. Len(wire) /\ Len(wire) \in n .. Len(wire)
    BY <1>1
  <2>2. a \o b = SubSeq(wire, 1, Len(wire))
    BY <1>1, <2>1, ConcatAdjacentSubSeq
  <2>3. QED
    BY <1>1, <2>2, SubSeqFull
<1> HIDE DEF a, b
<1>4. in \o a \in Seq(Frames)
    BY <1>1, <1>2, ConcatProperties
<1>5. (in \o a) \o b = in \o wire
  <2>1. in \in Seq(Frames) /\ a \in Seq(Frames) /\ b \in Seq(Frames)
    BY <1>1, <1>2
  <2>2. (in \o a) \o b = in \o (a \o b)
    BY <2>1, ConcatAssociative
  <2>3. QED
    BY <1>3, <2>2
<1>6. in # <<>> => in \o a # <<>> /\ Head(in \o a) = Head(in)
  <2>1. SUFFICES ASSUME in # <<>> PROVE in \o a # <<>> /\ Head(in \o a) = Head(in)
    OBVIOUS
  <2>2. Len(in) \in Nat \ {0} /\ Len(a) \in Nat
    BY <1>1, <1>2, <2>1, EmptySeq
  <2>3. /\ Len(in \o a) = Len(in) + Len(a)
        /\ \A i \in 1 .. Len(in) + Len(a) : (in \o a)[i] = IF i <= Len(in) THEN in[i] ELSE a[i - Len(in)]
    BY <1>1, <1>2, ConcatProperties
  <2>4. (in \o a)[1] = in[1] /\ Len(in \o a) # 0
    BY <2>2, <2>3
  <2>5. QED
    BY <1>1, <1>4, <2>1, <2>2, <2>4
<1>7. QED
    BY <1>2, <1>4, <1>5, <1>6 DEF a, b, Flow

\* Taking a frame takes the first of the flow.
LEMMA TakenFlow ==
    ASSUME VarsTyped, in # <<>>
    PROVE  /\ Head(in) \in Frames /\ Head(in) = Flow[1] /\ Len(Flow) >= 1
           /\ Tail(in) \in Seq(Frames) /\ Len(Tail(in) \o wire) = Len(Flow) - 1
           /\ \A i \in 1 .. Len(Flow) - 1 : (Tail(in) \o wire)[i] = Flow[i + 1]
<1>1. in \in Seq(Frames) /\ wire \in Seq(Frames) /\ Len(in) \in Nat \ {0} /\ Len(wire) \in Nat
    BY EmptySeq DEF VarsTyped
<1>2. /\ Tail(in) \in Seq(Frames) /\ Len(Tail(in)) = Len(in) - 1 /\ Head(in) = in[1]
      /\ \A i \in 1 .. Len(Tail(in)) : Tail(in)[i] = in[i + 1]
    BY <1>1, HeadTailProperties
<1>3. /\ Len(Flow) = Len(in) + Len(wire)
      /\ \A i \in 1 .. Len(in) + Len(wire) :
            Flow[i] = IF i <= Len(in) THEN in[i] ELSE wire[i - Len(in)]
    BY <1>1, ConcatProperties DEF Flow
<1>4. /\ Len(Tail(in) \o wire) = Len(Tail(in)) + Len(wire)
      /\ \A i \in 1 .. Len(Tail(in)) + Len(wire) :
            (Tail(in) \o wire)[i] = IF i <= Len(Tail(in)) THEN Tail(in)[i]
                                    ELSE wire[i - Len(Tail(in))]
    BY <1>1, <1>2, ConcatProperties
<1>5. ASSUME NEW i \in 1 .. Len(Flow) - 1
      PROVE  (Tail(in) \o wire)[i] = Flow[i + 1]
  <2>1. /\ i \in 1 .. Len(Tail(in)) + Len(wire) /\ i + 1 \in 1 .. Len(in) + Len(wire)
        /\ (i <= Len(Tail(in)) <=> i + 1 <= Len(in)) /\ i - Len(Tail(in)) = (i + 1) - Len(in)
    BY <1>1, <1>2, <1>3
  <2>2. i <= Len(Tail(in)) => Tail(in)[i] = in[i + 1]
    BY <1>1, <1>2
  <2>3. (Tail(in) \o wire)[i] = IF i <= Len(Tail(in)) THEN Tail(in)[i] ELSE wire[i - Len(Tail(in))]
    BY <1>4, <2>1
  <2>4. Flow[i + 1] = IF i + 1 <= Len(in) THEN in[i + 1] ELSE wire[(i + 1) - Len(in)]
    BY <1>3, <2>1
  <2>5. QED
    BY <2>1, <2>2, <2>3, <2>4
<1>6. Head(in) \in Frames /\ Head(in) = Flow[1] /\ Len(Flow) >= 1
    BY <1>1, <1>2, <1>3, HeadTailProperties
<1>7. QED
    BY <1>1, <1>2, <1>3, <1>4, <1>5, <1>6

\* Writing a frame adds it at the end of the flow.
LEMMA WrittenFlow ==
    ASSUME VarsTyped, NEW f \in Frames
    PROVE  /\ Append(wire, f) \in Seq(Frames)
           /\ Len(in \o Append(wire, f)) = Len(Flow) + 1
           /\ \A i \in 1 .. Len(Flow) : (in \o Append(wire, f))[i] = Flow[i]
           /\ (in \o Append(wire, f))[Len(Flow) + 1] = f
<1> DEFINE w == Append(wire, f)
<1>1. in \in Seq(Frames) /\ wire \in Seq(Frames) /\ Len(in) \in Nat /\ Len(wire) \in Nat
    BY DEF VarsTyped
<1>2. /\ w \in Seq(Frames) /\ Len(w) = Len(wire) + 1
      /\ \A i \in 1 .. Len(wire) : w[i] = wire[i]
      /\ w[Len(wire) + 1] = f
    BY <1>1, AppendProperties
<1> HIDE DEF w
<1>3. /\ Len(Flow) = Len(in) + Len(wire)
      /\ \A i \in 1 .. Len(in) + Len(wire) :
            Flow[i] = IF i <= Len(in) THEN in[i] ELSE wire[i - Len(in)]
    BY <1>1, ConcatProperties DEF Flow
<1>4. /\ Len(in \o w) = Len(in) + Len(w)
      /\ \A i \in 1 .. Len(in) + Len(w) :
            (in \o w)[i] = IF i <= Len(in) THEN in[i] ELSE w[i - Len(in)]
    BY <1>1, <1>2, ConcatProperties
<1>5. ASSUME NEW i \in 1 .. Len(Flow) PROVE (in \o w)[i] = Flow[i]
  <2>1. i \in 1 .. Len(in) + Len(w) /\ i \in 1 .. Len(in) + Len(wire)
    BY <1>1, <1>2, <1>3
  <2>2. ~(i <= Len(in)) => i - Len(in) \in 1 .. Len(wire)
    BY <1>1, <1>3
  <2>3. QED
    BY <1>2, <1>3, <1>4, <2>1, <2>2
<1>6. (in \o w)[Len(Flow) + 1] = f
  <2>1. Len(Flow) + 1 \in 1 .. Len(in) + Len(w) /\ ~(Len(Flow) + 1 <= Len(in))
        /\ Len(Flow) + 1 - Len(in) = Len(wire) + 1
    BY <1>1, <1>2, <1>3
  <2>2. QED
    BY <1>2, <1>4, <2>1
<1>7. QED
    BY <1>1, <1>2, <1>3, <1>4, <1>5, <1>6 DEF w

\* The frame a send writes next is one of its message, and typed.
LEMMA FrameIs ==
    ASSUME VarsTyped, OneSend, NEW c \in Channel, sending[c] # Idle
    PROVE  LET s == sending[c]
               m == [ch |-> c, id |-> s.id, len |-> s.len]
           IN  /\ s \in Sending /\ s.len \in Nat /\ m \in Msgs /\ Whole(m) \in Messages
               /\ Frame(c, s) \in Frames /\ FrameOf(Frame(c, s), m, s.off)
               /\ Chunk(s) \in 1 .. MaxPayload /\ s.off + Chunk(s) \in 1 .. s.len
               /\ s.off + Chunk(s) # s.len => s.len > MaxPayload
               /\ s.off = 0 /\ s.off + Chunk(s) # s.len => FrameType(s) = "FIRST"
               /\ Chunk(Due(m, s.off)) = Chunk(s)
<1> DEFINE s == sending[c]
           m == [ch |-> c, id |-> s.id, len |-> s.len]
           t == Due(m, s.off)
<1>1. s \in Sending /\ s.len \in Nat \ {0} /\ s.off \in Nat /\ s.id \in Ids
    BY LensAssumption DEF VarsTyped, Sending
<1>2. s.off < s.len /\ (s.off > 0 => s.len > MaxPayload)
    BY DEF OneSend
<1>3. m \in Msgs /\ t.len = s.len /\ t.off = s.off /\ t.id = s.id
    BY <1>1 DEF Msgs, Due, Sending
<1>4. Chunk(t) = Chunk(s) /\ FrameType(t) = FrameType(s)
    BY <1>3 DEF Chunk, FrameType
<1> HIDE DEF t
<1>5. /\ Chunk(s) \in 1 .. MaxPayload /\ s.off + Chunk(s) \in 1 .. s.len
      /\ FrameType(s) \in {"BULK", "FIRST", "MIDDLE", "LAST"}
      /\ FrameType(s) \in {"BULK", "FIRST"} <=> s.off = 0
      /\ FrameType(s) \in {"BULK", "LAST"} <=> s.off + Chunk(s) = s.len
      /\ s.off + Chunk(s) # s.len => s.len > MaxPayload
  <2>1. s.len \in Nat
    BY <1>1
  <2> HIDE DEF s
  <2>2. QED
    BY <1>1, <1>2, <2>1, ChunkIs
<1>6. /\ Blocks(s.id, s.off + 1, s.off + Chunk(s)) \in Body
      /\ Len(Blocks(s.id, s.off + 1, s.off + Chunk(s))) = Chunk(s)
  <2>1. Chunk(s) \in Nat
    BY <1>5, PayloadAssumption
  <2>2. QED
    BY <1>1, <2>1, BlocksAre
<1>7. Frame(c, s) \in Frames
  <2> DEFINE r == IF s.enc /\ tls THEN tx_seq + 1 ELSE 0
             n == IF FrameType(s) = "FIRST" THEN s.len ELSE 0
  <2>1. r \in Nat /\ (r # 0 => s.enc) /\ n \in Nat /\ s.enc \in BOOLEAN
    BY <1>1 DEF VarsTyped, Sending
  <2>2. Frame(c, s) = [ch |-> c, ft |-> FrameType(s), enc |-> s.enc, total |-> n,
                       body |-> Blocks(s.id, s.off + 1, s.off + Chunk(s)), rec |-> r]
    BY DEF Frame
  <2> HIDE DEF r, n, s
  <2>3. QED
    BY <1>5, <1>6, <2>1, <2>2 DEF Frames
<1>8. FrameOf(Frame(c, s), m, s.off)
    BY <1>3, <1>4 DEF Frame, FrameOf, t
<1>9. Whole(m) \in Messages
  <2>1. 0 \in Nat /\ 0 + 1 = 1 /\ 0 + s.len = s.len /\ s.len \in Nat
    BY <1>1
  <2>2. Blocks(s.id, 0 + 1, 0 + s.len) \in Body
    BY <1>1, <2>1, BlocksAre
  <2>3. Blocks(s.id, 1, s.len) \in Body
    BY <2>1, <2>2
  <2>4. QED
    BY <2>3 DEF Whole, Messages
<1>10. QED
    BY <1>1, <1>3, <1>4, <1>5, <1>7, <1>8, <1>9 DEF t

-----------------------------------------------------------------------------
(* Types and the sender's state.                                           *)

\* The message under assembly, and what the receiver yields, are typed.
LEMMA AssembleIs ==
    ASSUME VarsTyped, in_message => msg.ch \in Channel, NEW f \in Frames
    PROVE  Assemble(f) \in [ch : Channel, total : Nat, body : Body]
<1>1. /\ f.ch \in Channel /\ f.total \in Nat /\ f.body \in Body /\ Len(f.body) \in Nat
      /\ msg \in Assembly
    BY DEF Frames, VarsTyped, Body
<1>2. msg.body \o f.body \in Body /\ msg.total \in Nat /\ msg.ch \in Channel \cup {0}
      /\ msg = [ch |-> msg.ch, total |-> msg.total, body |-> msg.body]
  <2>1. msg.body \in Seq(Ids \X Nat) /\ f.body \in Seq(Ids \X Nat)
    BY <1>1 DEF Body, Assembly
  <2>2. msg.body \o f.body \in Seq(Ids \X Nat)
    BY <2>1, ConcatProperties
  <2>3. QED
    BY <1>1, <2>2 DEF Body, Assembly
<1>3. [msg EXCEPT !.body = msg.body \o f.body]
         = [ch |-> msg.ch, total |-> msg.total, body |-> msg.body \o f.body]
  <2> DEFINE b == msg.body \o f.body
  <2> HIDE DEF b
  <2>1. [msg EXCEPT !.body = b] = [ch |-> msg.ch, total |-> msg.total, body |-> b]
    BY <1>1 DEF Assembly
  <2>2. QED
    BY <2>1 DEF b
<1>4. Assemble(f) = IF f.ft = "FIRST" THEN [ch |-> f.ch, total |-> f.total, body |-> f.body]
                    ELSE IF ~in_message
                    THEN [ch |-> f.ch, total |-> Len(f.body), body |-> f.body]
                    ELSE [ch |-> msg.ch, total |-> msg.total, body |-> msg.body \o f.body]
    BY <1>3 DEF Assemble
<1>5. CASE f.ft = "FIRST" \/ ~in_message
    BY <1>1, <1>4, <1>5
<1>6. CASE f.ft # "FIRST" /\ in_message
    BY <1>1, <1>2, <1>4, <1>6
<1>7. QED
    BY <1>5, <1>6 DEF VarsTyped

\* Every step keeps the variables typed.
LEMMA StepTyped ==
    ASSUME VarsTyped, OneSend, in_message => msg.ch \in Channel, [Next]_vars
    PROVE  VarsTyped'
<1> USE DEF sender, network, receiver
<1>1. CASE AttachTls
    BY <1>1 DEF AttachTls, VarsTyped
<1>2. ASSUME NEW c \in Channel, NEW enc \in BOOLEAN, NEW len \in Lens, Begin(c, enc, len)
      PROVE  VarsTyped'
  <2>1. last_id' \in Ids /\ last_id' \in 0 .. MaxMsgs
    BY <1>2, SizesAssumption DEF Begin, VarsTyped, Ids
  <2>2. [id |-> last_id', enc |-> enc, len |-> len, off |-> 0] \in Sending
    BY <2>1 DEF Sending
  <2>3. sending' \in [Channel -> Sending \cup {Idle}]
    BY <1>2, <2>2 DEF Begin, VarsTyped
  <2>4. QED
    BY <1>2, <2>1, <2>3 DEF Begin, VarsTyped
<1>3. ASSUME NEW c \in Channel, SendFrame(c)
      PROVE  VarsTyped'
  <2> DEFINE s == sending[c]
             done == s.off + Chunk(s) = s.len
             m == [ch |-> c, id |-> s.id, len |-> s.len]
             t == [s EXCEPT !.off = s.off + Chunk(s)]
  <2>1. s # Idle
    BY <1>3 DEF SendFrame
  <2>2. /\ s \in Sending /\ s.len \in Nat /\ m \in Msgs /\ Whole(m) \in Messages
        /\ Frame(c, s) \in Frames /\ Chunk(s) \in 1 .. MaxPayload
        /\ s.off + Chunk(s) \in 1 .. s.len
    BY <2>1, FrameIs
  <2>3. t \in Sending
    BY <2>2 DEF Sending
  <2>4. sending' \in [Channel -> Sending \cup {Idle}]
    <3>1. sending' = [sending EXCEPT ![c] = IF done THEN Idle ELSE t]
      BY <1>3 DEF SendFrame
    <3>2. sending \in [Channel -> Sending \cup {Idle}]
      BY DEF VarsTyped
    <3> HIDE DEF t, done
    <3>3. QED
      BY <2>3, <3>1, <3>2
  <2>5. wire' \in Seq(Frames)
    <3>1. wire' = wire \/ wire' = Append(wire, Frame(c, s))
      BY <1>3 DEF SendFrame
    <3>2. wire \in Seq(Frames)
      BY DEF VarsTyped
    <3>3. QED
      BY <2>2, <3>1, <3>2, AppendProperties
  <2>6. accepted' \in Seq(Messages)
    <3>1. accepted' = accepted \/ accepted' = Append(accepted, Whole(m))
      BY <1>3 DEF SendFrame, Whole
    <3>2. accepted \in Seq(Messages)
      BY DEF VarsTyped
    <3>3. QED
      BY <2>2, <3>1, <3>2, AppendProperties
  <2>7. tx_seq' \in Nat
    BY <1>3 DEF SendFrame, CountRecord, VarsTyped
  <2>8. QED
    BY <1>3, <2>4, <2>5, <2>6, <2>7 DEF SendFrame, VarsTyped
<1>4. ASSUME NEW c \in Channel, SendFails(c)
      PROVE  VarsTyped'
  <2>1. sending[c].id \in Ids
    BY <1>4 DEF SendFails, VarsTyped, Sending
  <2>2. tx_seq' \in Nat
    BY <1>4 DEF SendFails, CountRecord, VarsTyped
  <2>3. sending' \in [Channel -> Sending \cup {Idle}]
    BY <1>4 DEF SendFails, VarsTyped
  <2>4. rejected' \subseteq Ids
    BY <1>4, <2>1 DEF SendFails, VarsTyped
  <2>5. QED
    BY <1>4, <2>2, <2>3, <2>4 DEF SendFails, VarsTyped
<1>5. CASE Close
    BY <1>5, EmptySeq DEF Close, VarsTyped
<1>6. CASE PollDrain
  <2>1. PICK n \in 0 .. Len(wire) : Drain(n)
    BY <1>6 DEF PollDrain
  <2>2. in' \in Seq(Frames) /\ wire' \in Seq(Frames)
    BY <2>1, DrainedFlow DEF Drain
  <2>3. ret' \in {-1, 0, 1} /\ rpc' \in {"idle", "parse"}
    BY <2>1 DEF Drain, VarsTyped
  <2>4. QED
    BY <2>1, <2>2, <2>3 DEF Drain, VarsTyped
<1>7. CASE PollIncomplete
    BY <1>7 DEF PollIncomplete, VarsTyped
<1>8. CASE PollBadRecord
    BY <1>8 DEF PollBadRecord, VarsTyped
<1>9. CASE PollFrame
  <2> DEFINE f == Head(in)
             m == Assemble(f)
  <2>1. f \in Frames /\ Tail(in) \in Seq(Frames)
    BY <1>9, TakenFlow DEF PollFrame
  <2>2. m \in [ch : Channel, total : Nat, body : Body]
    BY <2>1, AssembleIs
  <2>3. /\ in' = Tail(in) /\ UNCHANGED <<sender, network>>
        /\ rx_seq' = IF f.enc THEN rx_seq + 1 ELSE rx_seq
        /\ \/ /\ in_message' = FALSE /\ msg' = NoMsg /\ ret' = 0 /\ rpc' = "idle"
              /\ yielded' = Append(yielded, [ch |-> m.ch, body |-> m.body])
           \/ in_message' = TRUE /\ msg' = m /\ UNCHANGED <<yielded, ret, rpc>>
    BY <1>9 DEF PollFrame, Consume
  <2> HIDE DEF m, f
  <2>4. NoMsg \in Assembly /\ m \in Assembly
    BY <2>2, EmptySeq DEF NoMsg, Assembly, Body
  <2>5. yielded' \in Seq(Messages)
    <3>1. [ch |-> m.ch, body |-> m.body] \in Messages /\ yielded \in Seq(Messages)
      BY <2>2 DEF Messages, VarsTyped
    <3>2. Append(yielded, [ch |-> m.ch, body |-> m.body]) \in Seq(Messages)
      BY <3>1, AppendProperties
    <3>3. QED
      BY <2>3, <3>1, <3>2
  <2>6. rx_seq' \in Nat
    BY <2>3 DEF VarsTyped
  <2>7. QED
    BY <2>1, <2>3, <2>4, <2>5, <2>6 DEF VarsTyped
<1>10. CASE UNCHANGED vars
    BY <1>10 DEF vars, VarsTyped
<1>11. QED
    BY <1>1, <1>2, <1>3, <1>4, <1>5, <1>6, <1>7, <1>8, <1>9, <1>10 DEF Next

\* A send that has written a frame has room for each of the rest.
LEMMA FitsOnceBegun ==
    ASSUME VarsTyped, OneSend, NEW c \in Channel, sending[c] # Idle, sending[c].off > 0
    PROVE  Fits(sending[c])
<1> DEFINE s == sending[c]
           o == IF Encrypts(s) THEN Overhead ELSE 0
<1>1. Chunk(s) \in 1 .. MaxPayload
    BY FrameIs
<1>2. 2 * HeaderLen + o <= slack
    BY DEF OneSend
<1>3. /\ HeaderLen \in Nat /\ Overhead \in Nat /\ slack \in Nat /\ MaxPayload \in Nat
      /\ Header(s) \in {HeaderLen, 2 * HeaderLen}
    BY SizesAssumption, PayloadAssumption DEF VarsTyped, Header
<1>4. o \in Nat
    BY <1>3
<1>5. Fits(s) <=> Header(s) + Chunk(s) + o <= MaxPayload + slack
    BY DEF Fits
<1> HIDE DEF s, o
<1>6. Header(s) + Chunk(s) + o <= MaxPayload + slack
    BY <1>1, <1>2, <1>3, <1>4
<1>7. QED
    BY <1>5, <1>6 DEF s

\* Every step keeps one send at a time, with room for what it has begun.
LEMMA StepOneSend ==
    ASSUME VarsTyped, OneSend, VarsTyped', [Next]_vars
    PROVE  OneSend'
<1> USE DEF sender, network, receiver
<1>0. sending \in [Channel -> Sending \cup {Idle}]
    BY DEF VarsTyped
<1>1. CASE AttachTls
    BY <1>1 DEF AttachTls, AllIdle, OneSend
<1>2. ASSUME NEW c \in Channel, NEW enc \in BOOLEAN, NEW len \in Lens, Begin(c, enc, len)
      PROVE  OneSend'
  <2> DEFINE s == [id |-> last_id', enc |-> enc, len |-> len, off |-> 0]
  <2>1. sending' = [sending EXCEPT ![c] = s] /\ \A d \in Channel : sending[d] = Idle
    BY <1>2 DEF Begin, AllIdle
  <2>2. s.off = 0 /\ s.len = len /\ len \in Nat \ {0}
    BY LensAssumption
  <2> HIDE DEF s
  <2>3. sending'[c] = s /\ \A d \in Channel \ {c} : sending'[d] = Idle
    BY <1>0, <2>1
  <2>4. QED
    BY <2>2, <2>3 DEF OneSend
<1>3. ASSUME NEW c \in Channel, SendFrame(c)
      PROVE  OneSend'
  <2> DEFINE s == sending[c]
             done == s.off + Chunk(s) = s.len
             t == [s EXCEPT !.off = s.off + Chunk(s)]
             o == IF Encrypts(s) THEN Overhead ELSE 0
  <2>1. s # Idle /\ Fits(s) /\ UNCHANGED <<slack, tls>>
        /\ sending' = [sending EXCEPT ![c] = IF done THEN Idle ELSE t]
    BY <1>3 DEF SendFrame
  <2>2. /\ s \in Sending /\ s.len \in Nat /\ Chunk(s) \in 1 .. MaxPayload
        /\ s.off + Chunk(s) \in 1 .. s.len /\ (~done => s.len > MaxPayload)
        /\ s.off = 0 /\ ~done => FrameType(s) = "FIRST"
    BY <2>1, FrameIs
  <2>3. t.off = s.off + Chunk(s) /\ t.len = s.len /\ t.enc = s.enc /\ (t.enc /\ tls' <=> Encrypts(s))
    BY <2>1, <2>2 DEF Sending, Encrypts
  <2>4. ~done => 2 * HeaderLen + o <= slack
    <3>1. CASE s.off > 0
      BY <2>1, <3>1 DEF OneSend
    <3>2. CASE s.off = 0
      <4>1. SUFFICES ASSUME ~done PROVE 2 * HeaderLen + o <= slack
        OBVIOUS
      <4>2. MaxPayload \in Nat /\ HeaderLen \in Nat /\ Overhead \in Nat /\ slack \in Nat
        BY SizesAssumption, PayloadAssumption DEF VarsTyped
      <4>3. Chunk(s) = MaxPayload
        BY <2>2, <4>1, <4>2 DEF Chunk, Sending
      <4>4. Header(s) = 2 * HeaderLen
        BY <2>2, <3>2, <4>1 DEF Header
      <4>5. o \in Nat
        BY <4>2
      <4>6. Header(s) + Chunk(s) + o <= MaxPayload + slack
        BY <2>1 DEF Fits
      <4> HIDE DEF o, s
      <4>7. QED
        BY <4>2, <4>3, <4>4, <4>5, <4>6
    <3>3. QED
      BY <2>2, <3>1, <3>2 DEF Sending
  <2>5. sending'[c] = (IF done THEN Idle ELSE t) /\ \A d \in Channel \ {c} : sending'[d] = sending[d]
    BY <1>0, <2>1
  <2>6. \A d \in Channel \ {c} : sending'[d] = Idle
    BY <2>1, <2>5 DEF OneSend
  <2>7. CASE done
    BY <2>5, <2>6, <2>7 DEF OneSend
  <2>8. CASE ~done
    <3>1. sending'[c] = t
      BY <2>5, <2>8
    <3>2. t.off < t.len /\ t.len > MaxPayload
      BY <2>2, <2>3, <2>8
    <3>3. 2 * HeaderLen + (IF t.enc /\ tls' THEN Overhead ELSE 0) <= slack'
      BY <2>1, <2>3, <2>4, <2>8
    <3> HIDE DEF t, done
    <3>4. /\ sending'[c].off < sending'[c].len /\ sending'[c].len > MaxPayload
          /\ 2 * HeaderLen + (IF Encrypts(sending[c])' THEN Overhead ELSE 0) <= slack'
      BY <3>1, <3>2, <3>3 DEF Encrypts
    <3>5. QED
      BY <2>6, <3>4 DEF OneSend
  <2>9. QED
    BY <2>7, <2>8
<1>4. ASSUME NEW c \in Channel, SendFails(c)
      PROVE  OneSend'
  <2>1. sending[c] # Idle /\ sending' = [sending EXCEPT ![c] = Idle]
    BY <1>4 DEF SendFails
  <2>2. \A d \in Channel : sending'[d] = Idle
    BY <1>0, <2>1 DEF OneSend
  <2>3. QED
    BY <2>2 DEF OneSend
<1>5. CASE UNCHANGED sender
    BY <1>5 DEF OneSend, Encrypts
<1>6. QED
    BY <1>1, <1>2, <1>3, <1>4, <1>5
    DEF Next, vars, Close, PollDrain, Drain, PollIncomplete, PollBadRecord, PollFrame

-----------------------------------------------------------------------------
(* Every step keeps the flow followed.                                     *)

\* A message under assembly has a channel.
LEMMA AssemblyHasChannel ==
    ASSUME FlowFollows, in_message
    PROVE  msg.ch \in Channel
BY DEF FlowFollows, Follows, StartsAt, Msgs

\* What a frame says of the accepted messages stays true when more come.
Keeps == /\ Len(accepted) \in Nat /\ Len(accepted') \in Nat
         /\ Len(accepted) <= Len(accepted')
         /\ \A k \in 1 .. Len(accepted) : accepted'[k] = accepted[k]

\* A frame that passes still does when more messages are accepted.
LEMMA PassesMore ==
    ASSUME Keeps, NEW p \in Places, NEW q \in Places, NEW f, Passes(accepted, p, f, q)
    PROVE  Passes(accepted', p, f, q)
<1> DEFINE upto == p.off + Chunk(Due(q.m, p.off))
<1>1. p.n \in Nat /\ q.n \in Nat
    BY DEF Places
<1>2. upto = q.m.len => q.n <= Len(accepted') /\ accepted'[q.n] = Whole(q.m)
    BY <1>1 DEF Passes, Keeps
<1>3. QED
    BY <1>2 DEF Passes

\* Steps that leave the flow as it is.
LEMMA SameFlow ==
    ASSUME VarsTyped, FlowFollows, Keeps, Flow' = Flow,
           UNCHANGED <<in_message, msg, yielded>>,
           conn' = "up" => conn = "up" /\ \A p \in Places : EndsAt(p) => EndsAt(p)'
    PROVE  FlowFollows'
<1>1. PICK at \in [0 .. Len(Flow) -> Places] : Follows(at)
    BY DEF FlowFollows
<1>2. Len(Flow) \in Nat
    BY FlowIs
<1>3. StartsAt(at[0])'
    BY <1>1 DEF Follows, StartsAt
<1>4. ASSUME NEW i \in 1 .. Len(Flow') PROVE Passes(accepted', at[i - 1], Flow'[i], at[i])
  <2>1. at[i - 1] \in Places /\ at[i] \in Places /\ i \in 1 .. Len(Flow)
    BY <1>2
  <2>2. Passes(accepted, at[i - 1], Flow[i], at[i])
    BY <1>1, <2>1 DEF Follows
  <2>3. QED
    BY <2>1, <2>2, PassesMore
<1>5. conn' = "up" => EndsAt(at[Len(Flow)])'
  <2>1. PICK e \in Places : e = at[Len(Flow)]
    BY <1>2
  <2>2. SUFFICES ASSUME conn' = "up" PROVE EndsAt(at[Len(Flow)])'
    OBVIOUS
  <2>3. EndsAt(e)
    BY <1>1, <2>1, <2>2 DEF Follows
  <2>4. EndsAt(e)' /\ e = at[Len(Flow')]
    BY <2>1, <2>2, <2>3
  <2>5. QED
    BY <2>4 DEF EndsAt
<1>6. Follows(at)'
    BY <1>3, <1>4, <1>5 DEF Follows
<1>7. QED
    BY <1>6 DEF FlowFollows

\* A loss drops what is in flight; the receiver keeps what it has read.
LEMMA LostFlow ==
    ASSUME VarsTyped, FlowFollows, Close, wire' = <<>>
    PROVE  FlowFollows'
<1>1. PICK at \in [0 .. Len(Flow) -> Places] : Follows(at)
    BY DEF FlowFollows
<1>2. UNCHANGED <<in, in_message, msg, yielded, accepted>> /\ conn' = "closed"
    BY DEF Close, sender, receiver
<1>3. /\ Len(Flow) \in Nat /\ Len(in) \in Nat /\ Len(in) <= Len(Flow)
      /\ \A i \in 1 .. Len(in) : Flow[i] = in[i]
    BY FlowIs
<1>4. Flow' = in
    BY <1>2, ConcatEmptySeq DEF Flow, VarsTyped
<1>5. PICK cut \in [0 .. Len(in) -> Places] : \A i \in 0 .. Len(in) : cut[i] = at[i]
  <2> DEFINE c == [i \in 0 .. Len(in) |-> at[i]]
  <2>1. c \in [0 .. Len(in) -> Places] /\ \A i \in 0 .. Len(in) : c[i] = at[i]
    BY <1>3
  <2>2. QED
    BY <2>1
<1>6. Keeps
    BY <1>2 DEF Keeps, VarsTyped
<1>7. StartsAt(cut[0])'
  <2>1. cut[0] = at[0]
    BY <1>3, <1>5
  <2>2. QED
    BY <1>1, <1>2, <2>1 DEF Follows, StartsAt
<1>8. ASSUME NEW i \in 1 .. Len(Flow') PROVE Passes(accepted', cut[i - 1], Flow'[i], cut[i])
  <2>1. /\ i \in 1 .. Len(Flow) /\ Flow'[i] = Flow[i]
        /\ cut[i - 1] = at[i - 1] /\ cut[i] = at[i]
        /\ at[i - 1] \in Places /\ at[i] \in Places
    <3>1. i \in 1 .. Len(in) /\ i - 1 \in 0 .. Len(in) /\ i \in 0 .. Len(in)
      BY <1>3, <1>4
    <3>2. i \in 1 .. Len(Flow) /\ i - 1 \in 0 .. Len(Flow) /\ i \in 0 .. Len(Flow)
      BY <1>3, <3>1
    <3>3. Flow'[i] = Flow[i]
      BY <1>3, <1>4, <3>1
    <3>4. QED
      BY <1>5, <3>1, <3>2, <3>3
  <2>2. Passes(accepted, at[i - 1], Flow[i], at[i])
    BY <1>1, <2>1 DEF Follows
  <2>3. Passes(accepted', at[i - 1], Flow[i], at[i])
    BY <1>6, <2>1, <2>2, PassesMore
  <2>4. QED
    BY <2>1, <2>3
<1>9. Follows(cut)'
    BY <1>2, <1>7, <1>8 DEF Follows
<1>10. QED
    BY <1>4, <1>5, <1>9 DEF FlowFollows

\* A sent frame is the next of its message: the flow ends where the send is.
LEMMA SentFlow ==
    ASSUME VarsTyped, OneSend, FlowFollows, NEW c \in Channel, SendFrame(c), conn = "up"
    PROVE  FlowFollows'
<1> DEFINE s == sending[c]
           done == s.off + Chunk(s) = s.len
           m == [ch |-> c, id |-> s.id, len |-> s.len]
           f == Frame(c, s)
<1>1. PICK at \in [0 .. Len(Flow) -> Places] : Follows(at)
    BY DEF FlowFollows
<1>2. /\ s # Idle /\ UNCHANGED <<in, in_message, msg, yielded, conn>>
      /\ Flow' = in \o Append(wire, f)
      /\ sending' = [sending EXCEPT ![c] = IF done THEN Idle
                                           ELSE [s EXCEPT !.off = s.off + Chunk(s)]]
      /\ accepted' = IF done THEN Append(accepted, Whole(m)) ELSE accepted
    BY DEF SendFrame, receiver, Flow, Whole
<1>3. /\ s \in Sending /\ s.len \in Nat /\ m \in Msgs /\ Whole(m) \in Messages
      /\ f \in Frames /\ FrameOf(f, m, s.off) /\ Chunk(s) \in 1 .. MaxPayload
      /\ s.off + Chunk(s) \in 1 .. s.len /\ Chunk(Due(m, s.off)) = Chunk(s)
    BY <1>2, FrameIs
<1>4. /\ sending \in [Channel -> Sending \cup {Idle}] /\ accepted \in Seq(Messages)
      /\ s.off \in Nat /\ s.off < s.len
    BY <1>2, <1>3 DEF VarsTyped, OneSend, Sending
<1>5. Keeps /\ (done => Len(accepted') = Len(accepted) + 1 /\ accepted'[Len(accepted) + 1] = Whole(m))
  <2>1. CASE done
    <3>1. accepted' = Append(accepted, Whole(m))
      BY <1>2, <2>1
    <3> HIDE DEF done
    <3>2. /\ Len(accepted') = Len(accepted) + 1 /\ accepted'[Len(accepted) + 1] = Whole(m)
          /\ \A k \in 1 .. Len(accepted) : accepted'[k] = accepted[k]
      BY <1>3, <1>4, <3>1, AppendProperties
    <3>3. Len(accepted) \in Nat
      BY <1>4
    <3>4. QED
      BY <3>2, <3>3 DEF Keeps
  <2>2. CASE ~done
    BY <1>2, <1>4, <2>2 DEF Keeps
  <2>3. QED
    BY <2>1, <2>2
<1>6. PICK l \in Nat : l = Len(Flow)
    BY FlowIs
<1>7. /\ Len(Flow') = l + 1 /\ Flow'[l + 1] = f
      /\ \A i \in 1 .. l : Flow'[i] = Flow[i]
    BY <1>2, <1>3, <1>6, WrittenFlow
<1>8. PICK e \in Places : e = at[l]
    BY <1>6
<1>9. e.n = Len(accepted) /\ e.off = s.off /\ (s.off > 0 => e.m = m)
  <2>1. EndsAt(e)
    BY <1>1, <1>6, <1>8 DEF Follows
  <2>2. CASE s.off > 0
    BY <1>2, <2>1, <2>2 DEF EndsAt
  <2>3. CASE s.off = 0
    <3>1. \A d \in Channel : sending[d] # Idle => sending[d].off = 0
      BY <1>2, <2>3 DEF OneSend
    <3>2. ~(e.off > 0) /\ e.off \in Nat
      BY <2>1, <2>3, <3>1 DEF EndsAt, Places
    <3>3. QED
      BY <2>1, <2>3, <3>2 DEF EndsAt
  <2>4. QED
    BY <1>4, <2>2, <2>3
<1>10. PICK q \in Places : /\ q.m = m
                           /\ done => q.n = e.n + 1 /\ q.off = 0
                           /\ ~done => q.n = e.n /\ q.off = s.off + Chunk(s)
  <2> DEFINE r == [n |-> IF done THEN e.n + 1 ELSE e.n,
                   off |-> IF done THEN 0 ELSE s.off + Chunk(s), m |-> m]
  <2>1. e.n \in Nat /\ m \in Msgs /\ s.off + Chunk(s) \in Nat
    BY <1>3 DEF Places
  <2>2. r \in Places
    <3> HIDE DEF m, s, done
    <3>1. QED
      BY <2>1 DEF Places
  <2>3. /\ r.m = m
        /\ done => r.n = e.n + 1 /\ r.off = 0
        /\ ~done => r.n = e.n /\ r.off = s.off + Chunk(s)
    OBVIOUS
  <2>4. QED
    BY <2>2, <2>3
<1>11. Passes(accepted', e, f, q)
  <2>1. q.m \in Msgs /\ q.m.len = s.len /\ e.off = s.off /\ Chunk(Due(q.m, e.off)) = Chunk(s)
    BY <1>3, <1>9, <1>10
  <2>2. (e.off > 0 => e.m = q.m) /\ e.off < q.m.len /\ FrameOf(f, q.m, e.off)
    BY <1>3, <1>4, <1>9, <1>10
  <2>3. ~done => q.off = e.off + Chunk(s) /\ q.n = e.n
    BY <1>9, <1>10
  <2>4. done => /\ q.off = 0 /\ q.n = e.n + 1
                /\ q.n <= Len(accepted') /\ accepted'[q.n] = Whole(q.m)
    BY <1>4, <1>5, <1>9, <1>10
  <2>5. QED
    BY <2>1, <2>2, <2>3, <2>4 DEF Passes
<1>12. PICK to \in [0 .. l + 1 -> Places] : to[l + 1] = q /\ \A i \in 0 .. l : to[i] = at[i]
  <2> DEFINE t == [i \in 0 .. l + 1 |-> IF i = l + 1 THEN q ELSE at[i]]
  <2>1. t \in [0 .. l + 1 -> Places] /\ t[l + 1] = q /\ \A i \in 0 .. l : t[i] = at[i]
    BY <1>6
  <2>2. QED
    BY <2>1
<1>13. StartsAt(to[0])'
  <2>1. to[0] = at[0]
    BY <1>6, <1>12
  <2>2. QED
    BY <1>1, <1>2, <2>1 DEF Follows, StartsAt
<1> HIDE DEF f
<1>14. ASSUME NEW i \in 1 .. Len(Flow') PROVE Passes(accepted', to[i - 1], Flow'[i], to[i])
  <2>1. CASE i = l + 1
    <3>1. to[i] = q /\ to[i - 1] = e /\ Flow'[i] = f
      BY <1>7, <1>8, <1>12, <2>1
    <3>2. QED
      BY <1>11, <3>1
  <2>2. CASE i # l + 1
    <3>1. i \in 1 .. l /\ i - 1 \in 0 .. l /\ i \in 0 .. l
      BY <1>7, <2>2
    <3>2. to[i] = at[i] /\ to[i - 1] = at[i - 1] /\ Flow'[i] = Flow[i]
      BY <1>7, <1>12, <3>1
    <3>3. at[i] \in Places /\ at[i - 1] \in Places /\ Passes(accepted, at[i - 1], Flow[i], at[i])
      BY <1>1, <1>6, <3>1 DEF Follows
    <3>4. QED
      BY <1>5, <3>2, <3>3, PassesMore
  <2>3. QED
    BY <2>1, <2>2
<1>15. EndsAt(q)'
  <2>1. q.n = Len(accepted')
    BY <1>2, <1>5, <1>9, <1>10
  <2>2. \A d \in Channel \ {c} : sending'[d] = Idle
    BY <1>2, <1>4 DEF OneSend
  <2>3. CASE done
    <3>1. sending'[c] = Idle /\ q.off = 0
      BY <1>2, <1>4, <1>10, <2>3
    <3>2. QED
      BY <2>1, <2>2, <3>1 DEF EndsAt
  <2>4. CASE ~done
    <3>1. sending'[c] = [s EXCEPT !.off = s.off + Chunk(s)]
      BY <1>2, <1>4, <2>4
    <3>2. sending'[c].off = q.off /\ sending'[c].id = s.id /\ sending'[c].len = s.len
      BY <1>3, <1>10, <2>4, <3>1 DEF Sending
    <3>3. sending'[c] # Idle
      <4>1. s.id # 0 /\ Idle.id = 0
        BY <1>3 DEF Sending, Ids, Idle
      <4>2. QED
        BY <3>2, <4>1
    <3>4. q.m = [ch |-> c, id |-> sending'[c].id, len |-> sending'[c].len]
      BY <1>10, <3>2
    <3>5. QED
      BY <2>1, <2>2, <3>2, <3>3, <3>4 DEF EndsAt
  <2>5. QED
    BY <2>3, <2>4
<1>16. Follows(to)'
  <2>1. q = to[Len(Flow')]
    BY <1>7, <1>12
  <2>2. EndsAt(to[Len(Flow)])'
    BY <1>15, <2>1 DEF EndsAt
  <2>3. QED
    BY <1>13, <1>14, <2>2 DEF Follows
<1>17. QED
    BY <1>7, <1>12, <1>16 DEF FlowFollows

\* What the receiver has assembled once it has taken the flow's first frame:
\* the first blocks of the message the flow is in, all of them if it ends there.
LEMMA AssembledIs ==
    ASSUME VarsTyped, in # <<>>, NEW p \in Places, NEW q \in Places,
           StartsAt(p), Passes(accepted, p, Flow[1], q)
    PROVE  LET m == Assemble(Head(in))
               upto == p.off + Chunk(Due(q.m, p.off))
           IN  /\ q.m \in Msgs /\ upto \in 1 .. q.m.len
               /\ m = [ch |-> q.m.ch, total |-> q.m.len, body |-> Blocks(q.m.id, 1, upto)]
               /\ Complete(m) <=> upto = q.m.len
               /\ upto # q.m.len => q.m.len > MaxPayload
<1> DEFINE f == Head(in)
           m == Assemble(f)
           s == Due(q.m, p.off)
           k == Chunk(s)
           upto == p.off + k
           b(n) == Blocks(q.m.id, 1, n)
<1>1. f = Flow[1] /\ f \in Frames /\ p.off \in Nat
    BY TakenFlow DEF Places
<1>2. /\ q.m \in Msgs /\ p.off < q.m.len /\ FrameOf(f, q.m, p.off)
      /\ p.off > 0 => p.m = q.m
    BY <1>1 DEF Passes
<1>3. q.m.len \in Nat /\ q.m.id \in Ids /\ q.m.ch \in Channel
    BY <1>2, LensAssumption DEF Msgs
<1>4. s.len = q.m.len /\ s.off = p.off /\ s.id = q.m.id
    BY DEF Due
<1>5. p.off > 0 => q.m.len > MaxPayload /\ in_message
    BY <1>2 DEF StartsAt, VarsTyped
<1> HIDE DEF s
<1>6. /\ k \in 1 .. MaxPayload /\ upto \in 1 .. q.m.len
      /\ FrameType(s) \in {"BULK", "FIRST", "MIDDLE", "LAST"}
      /\ FrameType(s) \in {"BULK", "FIRST"} <=> p.off = 0
      /\ FrameType(s) \in {"BULK", "LAST"} <=> upto = q.m.len
      /\ upto # q.m.len => q.m.len > MaxPayload
      /\ FrameType(s) = "BULK" => q.m.len <= MaxPayload
      /\ FrameType(s) = "FIRST" => q.m.len > MaxPayload
  <2>1. s.len \in Nat /\ s.off \in Nat /\ s.off < s.len /\ (s.off > 0 => s.len > MaxPayload)
    BY <1>1, <1>2, <1>3, <1>4, <1>5
  <2>2. QED
    BY <2>1, <1>4, ChunkIs
<1>7. /\ f.ch = q.m.ch /\ f.ft = FrameType(s) /\ (f.ft = "FIRST" => f.total = q.m.len)
      /\ f.body = Blocks(q.m.id, p.off + 1, p.off + k)
    BY <1>2 DEF FrameOf, s
<1>8. k \in Nat /\ MaxPayload \in Nat
    BY <1>6, PayloadAssumption
<1> HIDE DEF k
<1>9. Len(f.body) = k
    BY <1>1, <1>3, <1>7, <1>8, BlocksAre
<1>10. m = [ch |-> q.m.ch, total |-> q.m.len, body |-> b(upto)]
  <2>1. CASE in_message
    <3>1. /\ p.m \in Msgs /\ p.off > 0
          /\ msg = [ch |-> p.m.ch, total |-> p.m.len, body |-> Blocks(p.m.id, 1, p.off)]
      <4>1. p.m \in Msgs /\ p.off \in 1 .. p.m.len - 1
            /\ msg = [ch |-> p.m.ch, total |-> p.m.len, body |-> Blocks(p.m.id, 1, p.off)]
        BY <2>1 DEF StartsAt
      <4>2. QED
        BY <4>1, <1>1
    <3>2. msg = [ch |-> q.m.ch, total |-> q.m.len, body |-> b(p.off)]
      BY <1>2, <3>1
    <3>3. f.ft # "FIRST"
      BY <1>6, <1>7, <3>1
    <3>4. m = [msg EXCEPT !.body = msg.body \o f.body]
      BY <2>1, <3>3 DEF Assemble
    <3>5. msg.body \o f.body = b(upto)
      BY <1>1, <1>3, <1>7, <1>8, <3>2, BlocksJoin
    <3> HIDE DEF b, upto, m, f
    <3>6. QED
      BY <3>2, <3>4, <3>5
  <2>2. CASE ~in_message
    <3>1. p.off = 0 /\ p.off + 1 = 1 /\ upto = k /\ p.off + k = k
      BY <1>1, <1>8, <2>2 DEF StartsAt
    <3>2. f.body = b(k)
      BY <1>7, <3>1
    <3>3. CASE f.ft = "FIRST"
      BY <1>7, <3>1, <3>2, <3>3 DEF Assemble
    <3>4. CASE f.ft # "FIRST"
      <4>1. upto = q.m.len
        BY <1>6, <1>7, <3>1, <3>4
      <4>2. m = [ch |-> f.ch, total |-> Len(f.body), body |-> f.body]
        BY <2>2, <3>4 DEF Assemble
      <4>3. QED
        BY <1>7, <1>9, <3>1, <3>2, <4>1, <4>2
    <3>5. QED
      BY <3>3, <3>4
  <2>3. QED
    BY <2>1, <2>2 DEF VarsTyped
<1>11. Len(b(upto)) = upto
  <2>1. upto \in Nat /\ 0 \in Nat /\ 0 + 1 = 1 /\ 0 + upto = upto
    BY <1>6
  <2> HIDE DEF upto
  <2>2. Len(Blocks(q.m.id, 0 + 1, 0 + upto)) = upto
    BY <1>3, <2>1, BlocksAre
  <2>3. QED
    BY <2>1, <2>2
<1>12. Complete(m) <=> upto = q.m.len
  <2> HIDE DEF m, upto, b
  <2>1. Complete(m) <=> Len(b(upto)) >= q.m.len
    BY <1>10 DEF Complete
  <2>2. QED
    BY <1>3, <1>6, <1>11, <2>1
<1>13. QED
    BY <1>2, <1>6, <1>10, <1>12 DEF k, s

\* Taking a frame: the flow starts one place later.
LEMMA TakenFollows ==
    ASSUME VarsTyped, FlowFollows, PollFrame
    PROVE  /\ FlowFollows'
           /\ \/ UNCHANGED yielded
              \/ /\ Len(yielded) < Len(accepted)
                 /\ yielded' = Append(yielded, accepted[Len(yielded) + 1])
<1> DEFINE m == Assemble(Head(in))
<1>1. PICK at \in [0 .. Len(Flow) -> Places] : Follows(at)
    BY DEF FlowFollows
<1>2. /\ in # <<>> /\ UNCHANGED <<sender, network>> /\ in' = Tail(in)
      /\ Complete(m) => /\ in_message' = FALSE
                        /\ yielded' = Append(yielded, [ch |-> m.ch, body |-> m.body])
      /\ ~Complete(m) => in_message' = TRUE /\ msg' = m /\ yielded' = yielded
    BY DEF PollFrame, Consume
<1>3. PICK l \in Nat : l = Len(Flow)
    BY FlowIs
<1>4. l >= 1 /\ Len(Flow') = l - 1 /\ \A i \in 1 .. l - 1 : Flow'[i] = Flow[i + 1]
  <2>1. Flow' = Tail(in) \o wire
    BY <1>2 DEF Flow, network
  <2>2. QED
    BY <1>2, <1>3, <2>1, TakenFlow
<1>5. PICK p \in Places : p = at[0]
    BY <1>3
<1>6. PICK q \in Places : q = at[1]
    BY <1>3, <1>4
<1>7. StartsAt(p) /\ Passes(accepted, p, Flow[1], q)
  <2>1. 1 \in 1 .. Len(Flow) /\ 1 - 1 = 0
    BY <1>3, <1>4
  <2>2. Passes(accepted, at[1 - 1], Flow[1], at[1])
    BY <1>1, <2>1 DEF Follows
  <2>3. QED
    BY <1>1, <1>5, <1>6, <2>1, <2>2 DEF Follows
<1> DEFINE upto == p.off + Chunk(Due(q.m, p.off))
<1>8. /\ q.m \in Msgs /\ upto \in 1 .. q.m.len
      /\ m = [ch |-> q.m.ch, total |-> q.m.len, body |-> Blocks(q.m.id, 1, upto)]
      /\ Complete(m) <=> upto = q.m.len
      /\ upto # q.m.len => q.m.len > MaxPayload
    BY <1>2, <1>7, AssembledIs
<1>9. /\ p.n = Len(yielded)
      /\ upto # q.m.len => q.off = upto /\ q.n = p.n
      /\ upto = q.m.len => /\ q.off = 0 /\ q.n = p.n + 1
                           /\ q.n <= Len(accepted) /\ accepted[q.n] = Whole(q.m)
    BY <1>7 DEF StartsAt, Passes
<1>10. yielded \in Seq(Messages) /\ accepted \in Seq(Messages) /\ Len(yielded) \in Nat /\ Len(accepted) \in Nat
    BY DEF VarsTyped
<1> HIDE DEF m, upto
<1>11. Complete(m) => /\ Len(yielded) < Len(accepted)
                      /\ yielded' = Append(yielded, accepted[Len(yielded) + 1])
  <2>1. SUFFICES ASSUME Complete(m) PROVE /\ Len(yielded) < Len(accepted)
                                          /\ yielded' = Append(yielded, accepted[Len(yielded) + 1])
    OBVIOUS
  <2>2. q.n = Len(yielded) + 1 /\ q.n <= Len(accepted) /\ accepted[q.n] = Whole(q.m)
    BY <1>8, <1>9, <2>1
  <2>3. [ch |-> m.ch, body |-> m.body] = Whole(q.m)
    BY <1>8, <2>1 DEF Whole
  <2>4. QED
    BY <1>2, <1>10, <2>1, <2>2, <2>3
<1>12. StartsAt(q)'
  <2>1. CASE Complete(m)
    <3>1. /\ Len(accepted) \in Nat /\ Len(yielded) + 1 \in 1 .. Len(accepted)
      BY <1>10, <1>11, <2>1
    <3>2. accepted[Len(yielded) + 1] \in Messages
      BY <1>10, <3>1, ElementOfSeq
    <3>3. Len(yielded') = Len(yielded) + 1
      BY <1>10, <1>11, <2>1, <3>2, AppendProperties
    <3>4. q.off = 0 /\ q.n = Len(yielded')
      BY <1>8, <1>9, <2>1, <3>3
    <3>5. QED
      BY <1>2, <2>1, <3>4 DEF StartsAt
  <2>2. CASE ~Complete(m)
    <3>1. /\ q.n = Len(yielded') /\ q.off = upto /\ upto # q.m.len
      BY <1>2, <1>8, <1>9, <2>2
    <3>2. q.m.len \in Nat
      BY <1>8, LensAssumption DEF Msgs
    <3>3. q.off \in 1 .. q.m.len - 1
      BY <1>8, <3>1, <3>2
    <3>4. QED
      BY <1>2, <1>8, <2>2, <3>1, <3>3 DEF StartsAt
  <2>3. QED
    BY <2>1, <2>2
<1>13. PICK to \in [0 .. l - 1 -> Places] : \A i \in 0 .. l - 1 : to[i] = at[i + 1]
  <2> DEFINE t == [i \in 0 .. l - 1 |-> at[i + 1]]
  <2>1. t \in [0 .. l - 1 -> Places] /\ \A i \in 0 .. l - 1 : t[i] = at[i + 1]
    BY <1>3, <1>4
  <2>2. QED
    BY <2>1
<1>14. to[0] = q
    BY <1>4, <1>6, <1>13
<1>15. ASSUME NEW i \in 1 .. Len(Flow') PROVE Passes(accepted', to[i - 1], Flow'[i], to[i])
  <2>1. /\ i \in 1 .. l - 1 /\ i - 1 \in 0 .. l - 1 /\ i \in 0 .. l - 1
        /\ i + 1 \in 1 .. l /\ (i + 1) - 1 = i /\ (i - 1) + 1 = i
    BY <1>4
  <2>2. to[i - 1] = at[i] /\ to[i] = at[i + 1] /\ Flow'[i] = Flow[i + 1]
    BY <1>4, <1>13, <2>1
  <2>3. Passes(accepted, at[(i + 1) - 1], Flow[i + 1], at[i + 1])
    BY <1>1, <1>3, <2>1 DEF Follows
  <2>4. accepted' = accepted
    BY <1>2 DEF sender
  <2>5. QED
    BY <2>1, <2>2, <2>3, <2>4
<1>16. conn' = "up" => EndsAt(to[Len(Flow)])'
  <2>1. SUFFICES ASSUME conn' = "up" PROVE EndsAt(to[Len(Flow)])'
    OBVIOUS
  <2>2. conn = "up" /\ UNCHANGED <<accepted, sending>>
    BY <1>2, <2>1 DEF sender, network
  <2>3. l - 1 \in 0 .. l - 1 /\ (l - 1) + 1 = l
    BY <1>4
  <2>4. to[Len(Flow')] = at[l]
    BY <1>4, <1>13, <2>3
  <2>5. EndsAt(at[l])
    BY <1>1, <1>3, <2>2 DEF Follows
  <2>6. QED
    BY <2>2, <2>4, <2>5 DEF EndsAt
<1>17. Follows(to)'
  <2>1. StartsAt(to[0])'
    BY <1>12, <1>14
  <2>2. QED
    BY <1>15, <1>16, <2>1 DEF Follows
<1>18. FlowFollows'
    BY <1>4, <1>13, <1>17 DEF FlowFollows
<1>19. QED
    BY <1>2, <1>11, <1>18

\* The other steps leave the flow as it is, or lose it.
LEMMA StepFollows ==
    ASSUME IInv, [Next]_vars
    PROVE  FlowFollows'
<1> USE DEF sender, network, receiver
<1>1. /\ VarsTyped /\ OneSend /\ FlowFollows
      /\ sending \in [Channel -> Sending \cup {Idle}] /\ accepted \in Seq(Messages)
      /\ Len(accepted) \in Nat
    BY DEF IInv, VarsTyped
<1>2. accepted' = accepted => Keeps
    BY <1>1 DEF Keeps
<1>3. ASSUME UNCHANGED <<Flow, in_message, msg, yielded, accepted, sending>>, conn' = "up" => conn = "up"
      PROVE  FlowFollows'
  <2>1. \A p \in Places : EndsAt(p) => EndsAt(p)'
    BY <1>3 DEF EndsAt
  <2>2. QED
    BY <1>1, <1>2, <1>3, <2>1, SameFlow
<1>4. CASE AttachTls
    BY <1>3, <1>4 DEF AttachTls, Flow
<1>5. ASSUME NEW c \in Channel, NEW enc \in BOOLEAN, NEW len \in Lens, Begin(c, enc, len)
      PROVE  FlowFollows'
  <2>1. /\ \A d \in Channel : sending[d] = Idle
        /\ sending' = [sending EXCEPT ![c] = [id |-> last_id', enc |-> enc, len |-> len, off |-> 0]]
        /\ UNCHANGED <<Flow, in_message, msg, yielded, accepted, conn>>
    BY <1>5 DEF Begin, AllIdle, Flow
  <2>2. sending'[c].off = 0 /\ \A d \in Channel \ {c} : sending'[d] = Idle
    BY <1>1, <2>1
  <2>3. ASSUME NEW p \in Places, EndsAt(p) PROVE EndsAt(p)'
    <3>1. ~(p.off > 0)
      BY <2>1, <2>3 DEF EndsAt
    <3>2. QED
      BY <2>1, <2>2, <2>3, <3>1 DEF EndsAt
  <2>4. QED
    BY <1>1, <1>2, <2>1, <2>3, SameFlow
<1>6. ASSUME NEW c \in Channel, SendFrame(c)
      PROVE  FlowFollows'
  <2>1. CASE conn = "up"
    BY <1>1, <1>6, <2>1, SentFlow
  <2>2. CASE conn # "up"
    <3>1. UNCHANGED <<Flow, in_message, msg, yielded, conn>> /\ sending[c] # Idle
      BY <1>6, <2>2 DEF SendFrame, Flow
    <3>2. Keeps
      <4> DEFINE m == [ch |-> c, id |-> sending[c].id, len |-> sending[c].len]
      <4>1. Whole(m) \in Messages
        BY <1>1, <3>1, FrameIs
      <4>2. accepted' = accepted \/ accepted' = Append(accepted, Whole(m))
        BY <1>6 DEF SendFrame, Whole
      <4> HIDE DEF m
      <4>3. CASE accepted' = Append(accepted, Whole(m))
        <5>1. /\ Len(accepted') = Len(accepted) + 1
              /\ \A k \in 1 .. Len(accepted) : accepted'[k] = accepted[k]
          BY <1>1, <4>1, <4>3, AppendProperties
        <5>2. QED
          BY <1>1, <5>1 DEF Keeps
      <4>4. QED
        BY <1>2, <4>2, <4>3
    <3>3. QED
      BY <1>1, <2>2, <3>1, <3>2, SameFlow
  <2>3. QED
    BY <2>1, <2>2
<1>7. ASSUME NEW c \in Channel, SendFails(c)
      PROVE  FlowFollows'
  <2>1. /\ sending[c] # Idle /\ sending' = [sending EXCEPT ![c] = Idle]
        /\ ~Fits(sending[c]) \/ conn = "closed"
        /\ UNCHANGED <<Flow, in_message, msg, yielded, accepted, conn>>
    BY <1>7 DEF SendFails, Flow
  <2>2. \A d \in Channel : sending'[d] = Idle
    BY <1>1, <2>1 DEF OneSend
  <2>3. ASSUME NEW p \in Places, EndsAt(p), conn = "up" PROVE EndsAt(p)'
    <3>1. ~(sending[c].off > 0)
      BY <1>1, <2>1, <2>3, FitsOnceBegun
    <3>2. \A d \in Channel : sending[d] # Idle => d = c
      BY <1>1, <2>1 DEF OneSend
    <3>3. ~(p.off > 0)
      BY <2>3, <3>1, <3>2 DEF EndsAt
    <3>4. QED
      BY <2>1, <2>2, <2>3, <3>3 DEF EndsAt
  <2>4. QED
    BY <1>1, <1>2, <2>1, <2>3, SameFlow
<1>8. CASE Close
  <2>1. CASE wire' = <<>>
    BY <1>1, <1>8, <2>1, LostFlow
  <2>2. CASE wire' = wire
    BY <1>3, <1>8, <2>2 DEF Close, Flow
  <2>3. QED
    BY <1>8, <2>1, <2>2 DEF Close
<1>9. CASE PollDrain
  <2>1. PICK n \in 0 .. Len(wire) : Drain(n)
    BY <1>9 DEF PollDrain
  <2>2. Flow' = Flow
    BY <1>1, <2>1, DrainedFlow DEF Drain, Flow
  <2>3. QED
    BY <1>3, <2>1, <2>2 DEF Drain
<1>10. CASE PollIncomplete \/ PollBadRecord
    BY <1>3, <1>10 DEF PollIncomplete, PollBadRecord, Flow
<1>11. CASE PollFrame
    BY <1>1, <1>11, TakenFollows
<1>12. CASE UNCHANGED vars
    BY <1>3, <1>12 DEF vars, Flow
<1>13. QED
    BY <1>4, <1>5, <1>6, <1>7, <1>8, <1>9, <1>10, <1>11, <1>12 DEF Next

-----------------------------------------------------------------------------
(* The theorems.                                                           *)

\* What the steps do to the two ends of the channel.
LEMMA StepChannel ==
    ASSUME IInv, [Next]_vars
    PROVE  \/ UNCHANGED <<accepted, yielded>>
           \/ \E m \in Msgs : /\ accepted' = Append(accepted, Whole(m)) /\ Whole(m) \in Messages
                              /\ UNCHANGED yielded
           \/ /\ Len(yielded) < Len(accepted)
              /\ yielded' = Append(yielded, accepted[Len(yielded) + 1])
              /\ UNCHANGED accepted
<1> USE DEF sender, network, receiver
<1>1. VarsTyped /\ OneSend /\ FlowFollows
    BY DEF IInv
<1>2. ASSUME NEW c \in Channel, SendFrame(c)
      PROVE  /\ UNCHANGED yielded
             /\ \/ UNCHANGED accepted
                \/ \E m \in Msgs : accepted' = Append(accepted, Whole(m)) /\ Whole(m) \in Messages
  <2> DEFINE m == [ch |-> c, id |-> sending[c].id, len |-> sending[c].len]
  <2>1. m \in Msgs /\ Whole(m) \in Messages
    BY <1>1, <1>2, FrameIs DEF SendFrame
  <2>2. UNCHANGED yielded /\ (accepted' = accepted \/ accepted' = Append(accepted, Whole(m)))
    BY <1>2 DEF SendFrame, Whole
  <2>3. QED
    BY <2>1, <2>2
<1>3. CASE PollFrame
  <2>1. UNCHANGED accepted
    BY <1>3 DEF PollFrame
  <2>2. QED
    BY <1>1, <1>3, <2>1, TakenFollows
<1>4. QED
    BY <1>2, <1>3
    DEF Next, vars, AttachTls, Begin, SendFails, Close, PollDrain, Drain, PollIncomplete, PollBadRecord

\* The flow is followed for ever: each message whose last frame is in it is one
\* that was accepted, and none is between two frames of another.
THEOREM Invariant == Spec => []IInv
<1>1. Init => IInv
  <2>1. SUFFICES ASSUME Init PROVE IInv
    OBVIOUS
  <2>2. VarsTyped
    <3>1. NoMsg \in Assembly
      BY EmptySeq DEF NoMsg, Assembly, Body
    <3>2. \A S : <<>> \in Seq(S)
      BY EmptySeq
    <3>3. sending \in [Channel -> Sending \cup {Idle}]
      BY <2>1 DEF Init
    <3>4. 0 \in 0 .. MaxMsgs
      BY SizesAssumption
    <3>5. QED
      BY <2>1, <3>1, <3>2, <3>3, <3>4 DEF Init, VarsTyped
  <2>3. OneSend /\ Len(yielded) <= Len(accepted)
    BY <2>1 DEF Init, OneSend
  <2>4. FlowFollows
    <3>1. Flow = <<>> /\ Len(Flow) = 0
      BY <2>1, <2>2, ConcatEmptySeq DEF Init, Flow, VarsTyped
    <3> DEFINE at == [i \in 0 .. 0 |-> [n |-> 0, off |-> 0, m |-> NoMsg]]
    <3>2. at \in [0 .. 0 -> Places] /\ at[0].n = 0 /\ at[0].off = 0
      BY DEF Places
    <3> HIDE DEF at
    <3>3. StartsAt(at[0]) /\ EndsAt(at[0])
      BY <2>1, <3>2 DEF Init, StartsAt, EndsAt
    <3>4. Follows(at)
      BY <3>1, <3>3 DEF Follows
    <3>5. QED
      BY <3>1, <3>2, <3>4 DEF FlowFollows
  <2>5. QED
    BY <2>2, <2>3, <2>4 DEF IInv
<1>2. IInv /\ [Next]_vars => IInv'
  <2>1. SUFFICES ASSUME IInv, [Next]_vars PROVE IInv'
    OBVIOUS
  <2>2. VarsTyped /\ OneSend /\ (in_message => msg.ch \in Channel) /\ Len(yielded) <= Len(accepted)
    BY <2>1, AssemblyHasChannel DEF IInv
  <2>3. VarsTyped'
    BY <2>1, <2>2, StepTyped
  <2>4. OneSend'
    BY <2>1, <2>2, <2>3, StepOneSend
  <2>5. FlowFollows'
    BY <2>1, StepFollows
  <2>6. Len(yielded') <= Len(accepted')
    <3>1. /\ accepted \in Seq(Messages) /\ yielded \in Seq(Messages)
          /\ Len(accepted) \in Nat /\ Len(yielded) \in Nat
      BY <2>2 DEF VarsTyped
    <3>2. CASE UNCHANGED <<accepted, yielded>>
      BY <2>2, <3>2
    <3>3. ASSUME NEW m \in Msgs, accepted' = Append(accepted, Whole(m)), Whole(m) \in Messages,
                 UNCHANGED yielded
          PROVE  Len(yielded') <= Len(accepted')
      <4>1. Len(accepted') = Len(accepted) + 1
        BY <3>1, <3>3, AppendProperties
      <4>2. QED
        BY <2>2, <3>1, <3>3, <4>1
    <3>4. CASE /\ Len(yielded) < Len(accepted)
               /\ yielded' = Append(yielded, accepted[Len(yielded) + 1])
               /\ UNCHANGED accepted
      <4>1. accepted[Len(yielded) + 1] \in Messages
        BY <3>1, <3>4, ElementOfSeq
      <4>2. Len(yielded') = Len(yielded) + 1
        BY <3>1, <3>4, <4>1, AppendProperties
      <4>3. QED
        BY <3>1, <3>4, <4>2
    <3>5. QED
      BY <2>1, <3>2, <3>3, <3>4, StepChannel
  <2>7. QED
    BY <2>3, <2>4, <2>5, <2>6 DEF IInv
<1>3. QED
    BY <1>1, <1>2, PTL DEF Spec

\* Every variable keeps its type.
THEOREM TypeCorrect == Spec => []TypeOK
<1>1. IInv => TypeOK
  <2>1. SUFFICES ASSUME VarsTyped PROVE TypeOK
    BY DEF IInv
  <2>2. \A q \in {wire, in} : \A i \in DOMAIN q : FrameOK(q[i])
    <3>1. ASSUME NEW f \in Frames PROVE FrameOK(f)
      BY DEF Frames, FrameOK
    <3>2. ASSUME NEW q \in Seq(Frames), NEW i \in DOMAIN q PROVE q[i] \in Frames
      BY ElementOfSeq, LenProperties
    <3>3. QED
      BY <2>1, <3>1, <3>2 DEF VarsTyped
  <2>3. \A q \in {accepted, yielded} : \A i \in DOMAIN q : MessageOK(q[i])
    <3>1. ASSUME NEW m \in Messages PROVE MessageOK(m)
      BY DEF Messages, MessageOK
    <3>2. ASSUME NEW q \in Seq(Messages), NEW i \in DOMAIN q PROVE q[i] \in Messages
      BY ElementOfSeq, LenProperties
    <3>3. QED
      BY <2>1, <3>1, <3>2 DEF VarsTyped
  <2>4. \A c \in Channel : sending[c] # Idle => sending[c] \in [id : Ids, enc : BOOLEAN, len : Lens, off : Nat]
    BY <2>1 DEF VarsTyped, Sending
  <2>5. msg.total \in Nat /\ msg.body \in Body
    BY <2>1 DEF VarsTyped, Assembly
  <2>6. QED
    BY <2>1, <2>2, <2>3, <2>4, <2>5 DEF VarsTyped, TypeOK
<1>2. QED
    BY <1>1, Invariant, PTL

\* A sequence without its first k, longer by one at its end, or by one more of
\* its first ones shorter.
LEMMA RestAppended ==
    ASSUME NEW S, NEW a \in Seq(S), NEW x \in S, NEW k \in 0 .. Len(a)
    PROVE  SubSeq(Append(a, x), k + 1, Len(Append(a, x))) = Append(SubSeq(a, k + 1, Len(a)), x)
<1> DEFINE b == Append(a, x)
           r == SubSeq(a, k + 1, Len(a))
<1>1. /\ b \in Seq(S) /\ Len(b) = Len(a) + 1 /\ b[Len(a) + 1] = x /\ Len(a) \in Nat
      /\ \A i \in 1 .. Len(a) : b[i] = a[i]
    BY AppendProperties
<1>2. \A i \in 1 .. Len(a) : a[i] \in S
    BY ElementOfSeq
<1>3. /\ r \in Seq(S) /\ Len(r) = Len(a) - k
      /\ \A i \in 1 .. Len(a) - k : r[i] = a[k + i]
  <2>1. \A i \in k + 1 .. Len(a) : a[i] \in S
    BY <1>1, <1>2
  <2>2. /\ r \in Seq(S) /\ Len(r) = IF k + 1 <= Len(a) THEN Len(a) - (k + 1) + 1 ELSE 0
        /\ \A i \in 1 .. Len(a) - (k + 1) + 1 : r[i] = a[(k + 1) + i - 1]
    <3>1. k + 1 \in Int /\ Len(a) \in Int
      BY <1>1
    <3>2. QED
      BY <2>1, <3>1, SubSeqProperties
  <2> HIDE DEF r
  <2>3. /\ Len(a) - (k + 1) + 1 = Len(a) - k /\ (k + 1 > Len(a) => Len(a) - k = 0)
        /\ \A i \in 1 .. Len(a) - k : (k + 1) + i - 1 = k + i
    BY <1>1
  <2>4. Len(r) = Len(a) - k
    <3>1. k \in Nat /\ k <= Len(a) /\ Len(a) \in Nat
      BY <1>1
    <3>2. Len(r) = IF k + 1 <= Len(a) THEN Len(a) - (k + 1) + 1 ELSE 0
      BY <2>2
    <3>3. QED
      BY <3>1, <3>2
  <2>5. \A i \in 1 .. Len(a) - k : r[i] = a[k + i]
    BY <2>2, <2>3
  <2>6. QED
    BY <2>2, <2>4, <2>5
<1> HIDE DEF b, r
<1>4. /\ SubSeq(b, k + 1, Len(b)) \in Seq(S) /\ Len(SubSeq(b, k + 1, Len(b))) = Len(a) - k + 1
      /\ \A i \in 1 .. Len(a) - k + 1 : SubSeq(b, k + 1, Len(b))[i] = b[k + i]
  <2> DEFINE t == SubSeq(b, k + 1, Len(b))
  <2>1. \A i \in k + 1 .. Len(b) : b[i] \in S
    <3>1. \A i \in 1 .. Len(b) : b[i] \in S
      BY <1>1, ElementOfSeq
    <3>2. QED
      BY <1>1, <3>1
  <2>2. /\ t \in Seq(S) /\ Len(t) = IF k + 1 <= Len(b) THEN Len(b) - (k + 1) + 1 ELSE 0
        /\ \A i \in 1 .. Len(b) - (k + 1) + 1 : t[i] = b[(k + 1) + i - 1]
    <3>1. k + 1 \in Int /\ Len(b) \in Int
      BY <1>1
    <3>2. QED
      BY <2>1, <3>1, SubSeqProperties
  <2> HIDE DEF t
  <2>3. /\ Len(b) - (k + 1) + 1 = Len(a) - k + 1 /\ k + 1 <= Len(b)
        /\ \A i \in 1 .. Len(a) - k + 1 : (k + 1) + i - 1 = k + i
    BY <1>1
  <2>4. t \in Seq(S) /\ Len(t) = Len(a) - k + 1 /\ \A i \in 1 .. Len(a) - k + 1 : t[i] = b[k + i]
    BY <1>1, <2>2, <2>3
  <2>5. QED
    BY <2>4 DEF t
<1>5. /\ Append(r, x) \in Seq(S) /\ Len(Append(r, x)) = Len(a) - k + 1
      /\ \A i \in 1 .. Len(a) - k : Append(r, x)[i] = r[i]
      /\ Append(r, x)[Len(a) - k + 1] = x
    BY <1>3, AppendProperties
<1>6. ASSUME NEW i \in 1 .. Len(a) - k + 1
      PROVE  SubSeq(b, k + 1, Len(b))[i] = Append(r, x)[i]
  <2>1. CASE i = Len(a) - k + 1
    <3>1. k + i = Len(a) + 1
      BY <1>1, <2>1
    <3>2. QED
      BY <1>1, <1>4, <1>5, <2>1, <3>1
  <2>2. CASE i # Len(a) - k + 1
    <3>1. i \in 1 .. Len(a) - k /\ k + i \in 1 .. Len(a)
      BY <1>1, <2>2
    <3>2. QED
      BY <1>1, <1>3, <1>4, <1>5, <3>1
  <2>3. QED
    BY <2>1, <2>2
<1>7. SubSeq(b, k + 1, Len(b)) = Append(r, x)
    BY <1>4, <1>5, <1>6, SeqEqual
<1>8. QED
    BY <1>7 DEF b, r

\* Every step of the session is a step of the channel, or none.
LEMMA StepRefines ==
    ASSUME IInv, [Next]_vars
    PROVE  [Contract!Next]_(Contract!vars)
<1> DEFINE queue == SubSeq(accepted, Len(yielded) + 1, Len(accepted))
<1>1. /\ accepted \in Seq(Messages) /\ yielded \in Seq(Messages) /\ Len(accepted) \in Nat
      /\ Len(yielded) \in 0 .. Len(accepted)
    BY DEF IInv, VarsTyped
<1>2. CASE UNCHANGED <<accepted, yielded>>
    BY <1>2 DEF Contract!vars
<1>3. ASSUME NEW m \in Msgs, accepted' = Append(accepted, Whole(m)), Whole(m) \in Messages,
             UNCHANGED yielded
      PROVE  Contract!Next
  <2>1. queue' = Append(queue, Whole(m))
    BY <1>1, <1>3, RestAppended
  <2>2. Whole(m) \in Message
    BY DEF Msgs, Whole, Message
  <2>3. Contract!Send(Whole(m))
    BY <1>3, <2>1 DEF Contract!Send
  <2>4. QED
    BY <2>2, <2>3 DEF Contract!Next
<1>4. CASE /\ Len(yielded) < Len(accepted)
           /\ yielded' = Append(yielded, accepted[Len(yielded) + 1])
           /\ UNCHANGED accepted
  <2>1. Len(yielded) + 1 \in 1 .. Len(accepted) /\ Len(accepted) \in Len(yielded) + 1 .. Len(accepted)
    BY <1>1, <1>4
  <2>2. Head(queue) = accepted[Len(yielded) + 1]
        /\ Tail(queue) = SubSeq(accepted, Len(yielded) + 1 + 1, Len(accepted))
    BY <1>1, <2>1, HeadTailOfSubSeq
  <2>3. accepted[Len(yielded) + 1] \in Messages
    BY <1>1, <2>1, ElementOfSeq
  <2>4. Len(yielded') = Len(yielded) + 1
    BY <1>1, <1>4, <2>3, AppendProperties
  <2>5. queue' = Tail(queue)
    BY <1>4, <2>2, <2>4
  <2>6. queue # <<>>
    <3>1. \A i \in Len(yielded) + 1 .. Len(accepted) : accepted[i] \in Messages
      <4>1. \A i \in 1 .. Len(accepted) : accepted[i] \in Messages
        BY <1>1, ElementOfSeq
      <4>2. QED
        BY <1>1, <4>1
    <3>2. Len(yielded) + 1 \in Int /\ Len(accepted) \in Int
      BY <1>1
    <3>3. Len(queue) = IF Len(yielded) + 1 <= Len(accepted)
                       THEN Len(accepted) - (Len(yielded) + 1) + 1 ELSE 0
      BY <3>1, <3>2, SubSeqProperties
    <3> HIDE DEF queue
    <3>4. Len(queue) # 0
      BY <1>1, <1>4, <3>3
    <3>5. QED
      BY <3>4
  <2>7. Contract!Yield
    BY <1>4, <2>2, <2>5, <2>6 DEF Contract!Yield
  <2>8. QED
    BY <2>7 DEF Contract!Next
<1>5. QED
    BY <1>2, <1>3, <1>4, StepChannel

\* Messages come out whole, once, in order and on their channel, for every
\* number and length of messages, every frame size, buffer and TLS overhead,
\* with the encryption attached at any moment and the connection lost at any.
THEOREM RefinesChannel == Spec => ImplementsChannel
<1>1. Init => Contract!Init
  <2>1. SUFFICES ASSUME Init PROVE Contract!Init
    OBVIOUS
  <2>2. SubSeq(accepted, Len(yielded) + 1, Len(accepted)) = <<>>
    BY <2>1, SubSeqEmpty, EmptySeq DEF Init
  <2>3. QED
    BY <2>1, <2>2 DEF Init, Contract!Init
<1>2. QED
    BY <1>1, StepRefines, Invariant, PTL DEF Spec, ImplementsChannel, Contract!Spec

-----------------------------------------------------------------------------
(* TLS records: while no send is refused they arrive numbered in a row.     *)

\* Steps that leave the flow and the receiver's counter as they are.
LEMMA SameNumbers ==
    ASSUME VarsTyped, RecordsInStep, Flow' = Flow, rx_seq' = rx_seq,
           rejected' = {} => rejected = {},
           conn' = "up" => conn = "up" /\ tx_seq' = tx_seq
    PROVE  RecordsInStep'
<1>1. SUFFICES ASSUME rejected' = {} PROVE \E q \in [0 .. Len(Flow') -> Nat] : Numbers(q)'
    BY DEF RecordsInStep
<1>2. PICK q \in [0 .. Len(Flow) -> Nat] : Numbers(q)
    BY <1>1 DEF RecordsInStep
<1>3. Numbers(q)'
    BY <1>2 DEF Numbers
<1>4. QED
    BY <1>3

\* A loss drops the last records of the flow.
LEMMA LostNumbers ==
    ASSUME VarsTyped, RecordsInStep, Close, wire' = <<>>
    PROVE  RecordsInStep'
<1>1. UNCHANGED <<in, rx_seq, rejected>> /\ conn' = "closed"
    BY DEF Close, sender, receiver
<1>2. SUFFICES ASSUME rejected' = {} PROVE \E q \in [0 .. Len(Flow') -> Nat] : Numbers(q)'
    BY DEF RecordsInStep
<1>3. PICK q \in [0 .. Len(Flow) -> Nat] : Numbers(q)
    BY <1>1, <1>2 DEF RecordsInStep
<1>4. /\ Len(Flow) \in Nat /\ Len(in) \in Nat /\ Len(in) <= Len(Flow)
      /\ \A i \in 1 .. Len(in) : Flow[i] = in[i]
    BY FlowIs
<1>5. Flow' = in
    BY <1>1, ConcatEmptySeq DEF Flow, VarsTyped
<1>6. PICK cut \in [0 .. Len(in) -> Nat] : \A i \in 0 .. Len(in) : cut[i] = q[i]
  <2> DEFINE c == [i \in 0 .. Len(in) |-> q[i]]
  <2>1. c \in [0 .. Len(in) -> Nat] /\ \A i \in 0 .. Len(in) : c[i] = q[i]
    BY <1>4
  <2>2. QED
    BY <2>1
<1>7. ASSUME NEW i \in 1 .. Len(Flow')
      PROVE  /\ Flow'[i].rec # 0 => Flow'[i].rec = cut[i - 1] + 1
             /\ cut[i] = IF Flow'[i].rec # 0 THEN Flow'[i].rec ELSE cut[i - 1]
  <2>1. i \in 1 .. Len(in) /\ i - 1 \in 0 .. Len(in) /\ i \in 0 .. Len(in) /\ i \in 1 .. Len(Flow)
    BY <1>4, <1>5
  <2>2. Flow'[i] = Flow[i] /\ cut[i] = q[i] /\ cut[i - 1] = q[i - 1]
    BY <1>4, <1>5, <1>6, <2>1
  <2>3. QED
    BY <1>3, <2>1, <2>2 DEF Numbers
<1>8. cut[0] = rx_seq'
    BY <1>1, <1>3, <1>4, <1>6 DEF Numbers
<1>9. Numbers(cut)'
    BY <1>1, <1>7, <1>8 DEF Numbers
<1>10. QED
    BY <1>5, <1>6, <1>9

\* A sent frame's record is the sender's next.
LEMMA SentNumbers ==
    ASSUME VarsTyped, OneSend, RecordsInStep, NEW c \in Channel, SendFrame(c), conn = "up"
    PROVE  RecordsInStep'
<1> DEFINE s == sending[c]
           f == Frame(c, s)
<1>1. /\ s # Idle /\ UNCHANGED <<rx_seq, rejected, conn>>
      /\ Flow' = in \o Append(wire, f)
      /\ tx_seq' = IF f.rec # 0 THEN f.rec ELSE tx_seq
      /\ f.rec # 0 => f.rec = tx_seq + 1
  <2>1. f.rec = IF s.enc /\ tls THEN tx_seq + 1 ELSE 0
    BY DEF Frame
  <2>2. tx_seq \in Nat /\ tx_seq + 1 # 0
    BY DEF VarsTyped
  <2>3. tx_seq' = IF s.enc /\ tls THEN tx_seq + 1 ELSE tx_seq
    BY DEF SendFrame, CountRecord, Encrypts
  <2>4. s # Idle /\ UNCHANGED <<rx_seq, rejected, conn>> /\ Flow' = in \o Append(wire, f)
    BY DEF SendFrame, receiver, Flow
  <2> HIDE DEF f, s
  <2>5. QED
    BY <2>1, <2>2, <2>3, <2>4
<1>2. f \in Frames
    BY <1>1, FrameIs
<1>3. f.rec \in Nat
    BY <1>2 DEF Frames
<1>4. SUFFICES ASSUME rejected' = {} PROVE \E q \in [0 .. Len(Flow') -> Nat] : Numbers(q)'
    BY DEF RecordsInStep
<1>5. PICK q \in [0 .. Len(Flow) -> Nat] : Numbers(q)
    BY <1>1, <1>4 DEF RecordsInStep
<1>6. PICK l \in Nat : l = Len(Flow)
    BY FlowIs
<1>7. /\ Len(Flow') = l + 1 /\ Flow'[l + 1] = f
      /\ \A i \in 1 .. l : Flow'[i] = Flow[i]
    BY <1>1, <1>2, <1>6, WrittenFlow
<1>8. q[l] = tx_seq /\ tx_seq \in Nat
    BY <1>5, <1>6 DEF Numbers, VarsTyped
<1> HIDE DEF f
<1>9. PICK x \in Nat : x = IF f.rec # 0 THEN f.rec ELSE tx_seq
    BY <1>3, <1>8
<1>10. PICK to \in [0 .. l + 1 -> Nat] : to[l + 1] = x /\ \A i \in 0 .. l : to[i] = q[i]
  <2> DEFINE t == [i \in 0 .. l + 1 |-> IF i = l + 1 THEN x ELSE q[i]]
  <2>1. t \in [0 .. l + 1 -> Nat] /\ t[l + 1] = x /\ \A i \in 0 .. l : t[i] = q[i]
    BY <1>6
  <2>2. QED
    BY <2>1
<1>11. ASSUME NEW i \in 1 .. Len(Flow')
       PROVE  /\ Flow'[i].rec # 0 => Flow'[i].rec = to[i - 1] + 1
              /\ to[i] = IF Flow'[i].rec # 0 THEN Flow'[i].rec ELSE to[i - 1]
  <2>1. CASE i = l + 1
    <3>1. to[i] = x /\ to[i - 1] = tx_seq /\ Flow'[i] = f
      BY <1>7, <1>8, <1>10, <2>1
    <3>2. QED
      BY <1>1, <1>9, <3>1
  <2>2. CASE i # l + 1
    <3>1. i \in 1 .. l /\ i - 1 \in 0 .. l /\ i \in 0 .. l
      BY <1>7, <2>2
    <3>2. to[i] = q[i] /\ to[i - 1] = q[i - 1] /\ Flow'[i] = Flow[i]
      BY <1>7, <1>10, <3>1
    <3>3. QED
      BY <1>5, <1>6, <3>1, <3>2 DEF Numbers
  <2>3. QED
    BY <2>1, <2>2
<1>12. to[0] = rx_seq' /\ to[Len(Flow')] = tx_seq'
    BY <1>1, <1>5, <1>6, <1>7, <1>9, <1>10 DEF Numbers
<1>13. Numbers(to)'
    BY <1>11, <1>12 DEF Numbers
<1>14. QED
    BY <1>7, <1>10, <1>13

\* A frame is taken only with the receiver's next record, or with none.
LEMMA TakenNumbers ==
    ASSUME VarsTyped, RecordsInStep, PollFrame
    PROVE  RecordsInStep'
<1> DEFINE f == Head(in)
<1>1. /\ in # <<>> /\ UNCHANGED <<rejected, conn, tx_seq>> /\ Flow' = Tail(in) \o wire
      /\ rx_seq' = IF f.enc THEN rx_seq + 1 ELSE rx_seq
      /\ f.enc => f.rec = rx_seq + 1
    BY DEF PollFrame, Consume, Decrypts, sender, network, Flow
<1>2. SUFFICES ASSUME rejected' = {} PROVE \E q \in [0 .. Len(Flow') -> Nat] : Numbers(q)'
    BY DEF RecordsInStep
<1>3. PICK q \in [0 .. Len(Flow) -> Nat] : Numbers(q)
    BY <1>1, <1>2 DEF RecordsInStep
<1>4. PICK l \in Nat : l = Len(Flow)
    BY FlowIs
<1>5. /\ l >= 1 /\ Len(Flow') = l - 1 /\ f = Flow[1] /\ f \in Frames
      /\ \A i \in 1 .. l - 1 : Flow'[i] = Flow[i + 1]
    BY <1>1, <1>4, TakenFlow
<1>6. q[1] = rx_seq'
  <2>1. 1 \in 1 .. Len(Flow) /\ 1 - 1 = 0
    BY <1>4, <1>5
  <2>2. q[1] = (IF f.rec # 0 THEN f.rec ELSE q[0]) /\ q[0] = rx_seq
    BY <1>3, <1>5, <2>1 DEF Numbers
  <2>3. rx_seq \in Nat /\ (f.rec # 0 => f.enc)
    BY <1>5 DEF VarsTyped, Frames
  <2> HIDE DEF f
  <2>4. f.enc => f.rec = rx_seq + 1 /\ f.rec # 0
    BY <1>1, <2>3
  <2>5. QED
    BY <1>1, <2>2, <2>3, <2>4
<1>7. PICK to \in [0 .. l - 1 -> Nat] : \A i \in 0 .. l - 1 : to[i] = q[i + 1]
  <2> DEFINE t == [i \in 0 .. l - 1 |-> q[i + 1]]
  <2>1. t \in [0 .. l - 1 -> Nat] /\ \A i \in 0 .. l - 1 : t[i] = q[i + 1]
    BY <1>4, <1>5
  <2>2. QED
    BY <2>1
<1>8. ASSUME NEW i \in 1 .. Len(Flow')
      PROVE  /\ Flow'[i].rec # 0 => Flow'[i].rec = to[i - 1] + 1
             /\ to[i] = IF Flow'[i].rec # 0 THEN Flow'[i].rec ELSE to[i - 1]
  <2>1. /\ i \in 1 .. l - 1 /\ i - 1 \in 0 .. l - 1 /\ i \in 0 .. l - 1
        /\ i + 1 \in 1 .. Len(Flow) /\ (i + 1) - 1 = i /\ (i - 1) + 1 = i
    BY <1>4, <1>5
  <2>2. to[i - 1] = q[i] /\ to[i] = q[i + 1] /\ Flow'[i] = Flow[i + 1]
    BY <1>5, <1>7, <2>1
  <2>3. /\ Flow[i + 1].rec # 0 => Flow[i + 1].rec = q[(i + 1) - 1] + 1
        /\ q[i + 1] = IF Flow[i + 1].rec # 0 THEN Flow[i + 1].rec ELSE q[(i + 1) - 1]
    BY <1>3, <2>1 DEF Numbers
  <2>4. QED
    BY <2>1, <2>2, <2>3
<1>9. to[0] = rx_seq' /\ (conn' = "up" => to[Len(Flow')] = tx_seq')
  <2>1. 0 \in 0 .. l - 1 /\ l - 1 \in 0 .. l - 1 /\ (l - 1) + 1 = l /\ 0 + 1 = 1
    BY <1>5
  <2>2. to[0] = q[1] /\ to[l - 1] = q[l]
    BY <1>7, <2>1
  <2>3. QED
    BY <1>1, <1>3, <1>4, <1>5, <1>6, <2>2 DEF Numbers
<1>10. Numbers(to)'
    BY <1>8, <1>9 DEF Numbers
<1>11. QED
    BY <1>5, <1>7, <1>10

\* Every step keeps the records of the flow in step.
LEMMA StepNumbers ==
    ASSUME IInv, RecordsInStep, [Next]_vars
    PROVE  RecordsInStep'
<1> USE DEF sender, network, receiver
<1>1. VarsTyped /\ OneSend
    BY DEF IInv
<1>2. CASE UNCHANGED <<Flow, rx_seq, rejected, tx_seq>> /\ (conn' = "up" => conn = "up")
    BY <1>1, <1>2, SameNumbers
<1>3. ASSUME NEW c \in Channel, SendFrame(c)
      PROVE  RecordsInStep'
  <2>1. CASE conn = "up"
    BY <1>1, <1>3, <2>1, SentNumbers
  <2>2. CASE conn # "up"
    BY <1>1, <1>3, <2>2, SameNumbers DEF SendFrame, Flow
  <2>3. QED
    BY <2>1, <2>2
<1>4. ASSUME NEW c \in Channel, SendFails(c)
      PROVE  RecordsInStep'
    BY <1>4 DEF SendFails, RecordsInStep
<1>5. CASE Close
  <2>1. CASE wire' = <<>>
    BY <1>1, <1>5, <2>1, LostNumbers
  <2>2. CASE wire' = wire
    BY <1>2, <1>5, <2>2 DEF Close, Flow
  <2>3. QED
    BY <1>5, <2>1, <2>2 DEF Close
<1>6. CASE PollDrain
  <2>1. PICK n \in 0 .. Len(wire) : Drain(n)
    BY <1>6 DEF PollDrain
  <2>2. Flow' = Flow
    BY <1>1, <2>1, DrainedFlow DEF Drain, Flow
  <2>3. QED
    BY <1>2, <2>1, <2>2 DEF Drain
<1>7. CASE PollFrame
    BY <1>1, <1>7, TakenNumbers
<1>8. QED
    BY <1>2, <1>3, <1>4, <1>5, <1>6, <1>7
    DEF Next, vars, AttachTls, Begin, PollIncomplete, PollBadRecord, Flow

\* An error is reported only for a record that is not the next: the flow's
\* first, which no refused send accounts for, or one made with no TLS attached.
LEMMA StepCause ==
    ASSUME IInv, RecordsInStep, FailsOnlyForCause, [Next]_vars
    PROVE  FailsOnlyForCause'
<1> USE DEF sender, network, receiver
<1>1. VarsTyped /\ OneSend
    BY DEF IInv
<1>2. CASE UNCHANGED <<ret, in>> /\ (conn = "closed" => conn' = "closed") /\ rejected \subseteq rejected'
    BY <1>2 DEF FailsOnlyForCause
<1>3. CASE PollDrain
  <2>1. PICK n \in 0 .. Len(wire) : Drain(n)
    BY <1>3 DEF PollDrain
  <2>2. in # <<>> => in' # <<>> /\ Head(in') = Head(in)
    BY <1>1, <2>1, DrainedFlow DEF Drain
  <2>3. UNCHANGED <<conn, rejected>> /\ (ret' = ret \/ conn = "closed")
    BY <2>1 DEF Drain, EofSeen
  <2>4. QED
    BY <2>2, <2>3 DEF FailsOnlyForCause
<1>4. CASE PollIncomplete
    BY <1>4 DEF PollIncomplete, FailsOnlyForCause
<1>5. CASE PollBadRecord
  <2>1. in # <<>> /\ ~Decrypts(Head(in)) /\ UNCHANGED <<in, conn, rejected>>
    BY <1>5 DEF PollBadRecord
  <2>2. rejected = {} => Head(in).enc /\ Head(in).rec = 0
    <3>1. SUFFICES ASSUME rejected = {} PROVE Head(in).enc /\ Head(in).rec = 0
      OBVIOUS
    <3>2. PICK q \in [0 .. Len(Flow) -> Nat] : Numbers(q)
      BY <3>1 DEF RecordsInStep
    <3>3. Head(in) = Flow[1] /\ 1 \in 1 .. Len(Flow) /\ 1 - 1 = 0
      BY <1>1, <2>1, FlowIs, TakenFlow
    <3>4. Head(in).rec # 0 => Head(in).rec = rx_seq + 1
      BY <3>2, <3>3 DEF Numbers
    <3>5. Head(in).enc /\ Head(in).rec # rx_seq + 1
      BY <2>1 DEF Decrypts
    <3>6. QED
      BY <3>4, <3>5
  <2>3. QED
    BY <2>1, <2>2 DEF FailsOnlyForCause
<1>6. CASE PollFrame
  <2>1. ret' = ret \/ ret' = 0
    BY <1>6 DEF PollFrame
  <2>2. in # <<>> /\ UNCHANGED <<conn, rejected>> /\ (Head(in).enc => Head(in).rec = rx_seq + 1)
    BY <1>6 DEF PollFrame, Decrypts
  <2>3. rx_seq + 1 # 0
    BY <1>1 DEF VarsTyped
  <2>4. QED
    BY <2>1, <2>2, <2>3 DEF FailsOnlyForCause
<1>7. QED
    BY <1>2, <1>3, <1>4, <1>5, <1>6
    DEF Next, vars, AttachTls, Begin, SendFrame, SendFails, Close

\* poll reports an error only when the connection ended, a send was refused
\* before, or a frame was marked ENCRYPTED with no TLS attached: whatever is
\* fragmented and however the frames arrive, no record is out of turn.
THEOREM FailureHasCause == Spec => []FailsOnlyForCause
<1>1. Init => RecordsInStep /\ FailsOnlyForCause
  <2>1. SUFFICES ASSUME Init PROVE RecordsInStep /\ FailsOnlyForCause
    OBVIOUS
  <2>2. Flow = <<>> /\ Len(Flow) = 0
    <3>1. <<>> \in Seq(Frames)
      BY EmptySeq
    <3>2. QED
      BY <2>1, <3>1, ConcatEmptySeq DEF Init, Flow
  <2> DEFINE q == [i \in 0 .. 0 |-> 0]
  <2>3. q \in [0 .. 0 -> Nat] /\ q[0] = 0
    OBVIOUS
  <2> HIDE DEF q
  <2>4. Numbers(q)
    BY <2>1, <2>2, <2>3 DEF Init, Numbers
  <2>5. QED
    BY <2>1, <2>2, <2>3, <2>4 DEF Init, RecordsInStep, FailsOnlyForCause
<1>2. IInv /\ RecordsInStep /\ FailsOnlyForCause /\ [Next]_vars
         => RecordsInStep' /\ FailsOnlyForCause'
    BY StepNumbers, StepCause
<1>3. QED
    BY <1>1, <1>2, Invariant, PTL DEF Spec
=============================================================================
