-------------------------- MODULE AuSplitterProof ---------------------------
(***************************************************************************)
(* Proofs about AuSplitter: for all streams, message lengths, timestamps   *)
(* and sizes of the buffer and of a slot, every byte received is in one    *)
(* place, what the decoder gets keeps the stream's order, and, if messages *)
(* hold no timestamp, it gets every NAL unit whole, one slice to a unit.   *)
(*                                                                         *)
(* The first property is about sets and orders of positions, the code about*)
(* sequences of cells.  The lemmas on Placed say what the property needs   *)
(* of a message kept, a message dropped, a unit fed and a unit thrown      *)
(* away; the invariant adds what they need of the buffer: the positions in *)
(* it are in order, and the cells before au_start are no longer in it.     *)
(*                                                                         *)
(* The cuts are about what the scan, which sees a piece of the stream,     *)
(* finds of the slices that the whole stream has: all that begin in its    *)
(* piece, and at its first byte perhaps the rest of one.                   *)
(***************************************************************************)
EXTENDS AuSplitter, SequenceTheorems, TLAPS

\* The positions of the units fed.
FedIn(q) == (UNION {{q[u][k] : k \in DOMAIN q[u]} : u \in DOMAIN q}) \ {0}

\* EachByteOnce, of units fed, thrown and kept positions and the number of
\* bytes received.
Placed(q, th, kept, n) ==
    /\ FedIn(q) \cup kept \cup th = 1 .. n
    /\ FedIn(q) \cap kept = {} /\ (FedIn(q) \cup kept) \cap th = {}
    /\ \A u \in DOMAIN q : \A k, l \in DOMAIN q[u] :
          k < l => Before(q[u][k], q[u][l])
    /\ \A u, w \in DOMAIN q : u < w =>
          \A k \in DOMAIN q[u] : \A l \in DOMAIN q[w] : Before(q[u][k], q[w][l])
    /\ \A p \in FedIn(q) : \A r \in kept : p < r

\* The first cell of au_buf that is not fed yet, and the positions from there.
From == (IF pc = "scan" THEN au_start ELSE 0) + 1
KeptFrom(cells, from) == {cells[k][1] : k \in from .. Len(cells)} \ {0}

BufferTyped ==
    /\ stream \in Seq(Byte) /\ stream \in Streams
    /\ sent \in 0 .. Len(stream)
    /\ au_buf \in Seq(Nat \X Byte)
    /\ au_len <= BufMax
    /\ \A k \in DOMAIN au_buf : au_buf[k][1] <= sent

ScanTyped ==
    /\ i \in 0 .. BufMax /\ au_start \in 0 .. i /\ cur_has_vcl \in BOOLEAN
    /\ pc \in {"idle", "scan"}
    /\ pc = "scan" => i <= au_len

OutputTyped ==
    /\ queued \in Seq(Seq(Nat))
    /\ \A u \in DOMAIN queued : Len(queued[u]) \in 1 .. SlotSize

\* The positions in au_buf are in the order of the stream.
BufferOrdered ==
    \A k, l \in DOMAIN au_buf : k < l => Before(au_buf[k][1], au_buf[l][1])

IInv ==
    /\ BufferTyped /\ ScanTyped /\ OutputTyped /\ BufferOrdered
    /\ Placed(queued, thrown, KeptFrom(au_buf, From), sent)
-----------------------------------------------------------------------------
(* Where the bytes are.                                                    *)

\* More bytes received and kept.
LEMMA PlacedMore ==
    ASSUME NEW q, NEW th, NEW kept, NEW n \in Nat, NEW m \in Nat, n <= m,
           Placed(q, th, kept, n)
    PROVE  Placed(q, th, kept \cup (n + 1 .. m), m)
<1>1. FedIn(q) \cup kept \cup th = 1 .. n
    BY DEF Placed
<1>2. (1 .. n) \cap (n + 1 .. m) = {} /\ (1 .. n) \cup (n + 1 .. m) = 1 .. m
    OBVIOUS
<1>3. \A p \in FedIn(q) : \A r \in n + 1 .. m : p < r
    BY <1>1
<1> HIDE DEF FedIn
<1>4. QED
    BY <1>1, <1>2, <1>3 DEF Placed

\* More bytes received, and thrown away together with those kept.
LEMMA PlacedDrop ==
    ASSUME NEW q, NEW th, NEW kept, NEW n \in Nat, NEW m \in Nat, n <= m,
           Placed(q, th, kept, n)
    PROVE  Placed(q, th \cup kept \cup (n + 1 .. m), {}, m)
<1>1. FedIn(q) \cup kept \cup th = 1 .. n
    BY DEF Placed
<1>2. (1 .. n) \cap (n + 1 .. m) = {} /\ (1 .. n) \cup (n + 1 .. m) = 1 .. m
    OBVIOUS
<1>3. QED
    BY <1>1, <1>2 DEF Placed

\* Some of the bytes kept thrown away.
LEMMA PlacedThrow ==
    ASSUME NEW q, NEW th, NEW unit, NEW rest, NEW n, unit \cap rest = {},
           Placed(q, th, unit \cup rest, n)
    PROVE  Placed(q, th \cup unit, rest, n)
    BY DEF Placed

\* A position fed is one of some unit.
LEMMA FedIs ==
    ASSUME NEW q, NEW x
    PROVE  x \in FedIn(q) <=>
              x # 0 /\ (\E u \in DOMAIN q : \E k \in DOMAIN q[u] : x = q[u][k])
<1> DEFINE U == UNION {{q[u][k] : k \in DOMAIN q[u]} : u \in DOMAIN q}
<1>1. x \in U <=> \E s \in {{q[u][k] : k \in DOMAIN q[u]} : u \in DOMAIN q} : x \in s
    BY Zenon
<1>2. x \in U <=> \E u \in DOMAIN q : x \in {q[u][k] : k \in DOMAIN q[u]}
    BY <1>1
<1>3. \A u \in DOMAIN q : x \in {q[u][k] : k \in DOMAIN q[u]}
                            <=> \E k \in DOMAIN q[u] : x = q[u][k]
    OBVIOUS
<1>4. FedIn(q) = U \ {0}
    BY DEF FedIn
<1> HIDE DEF U
<1>5. QED
    BY <1>2, <1>3, <1>4

\* The positions of one more unit.
LEMMA FedMore ==
    ASSUME NEW q \in Seq(Seq(Nat)), NEW unit \in Seq(Nat)
    PROVE  /\ FedIn(Append(q, unit)) = FedIn(q) \cup ({unit[k] : k \in DOMAIN unit} \ {0})
           /\ DOMAIN Append(q, unit) = DOMAIN q \cup {Len(q) + 1}
           /\ \A u \in DOMAIN q : Append(q, unit)[u] = q[u] /\ u < Len(q) + 1
           /\ Append(q, unit)[Len(q) + 1] = unit
<1> DEFINE a == Append(q, unit)
           n == Len(q) + 1
<1>1. /\ DOMAIN a = DOMAIN q \cup {n}
      /\ \A u \in DOMAIN q : a[u] = q[u] /\ u < Len(q) + 1
      /\ a[n] = unit
    OBVIOUS
<1> HIDE DEF a, n
<1>2. ASSUME NEW x \in FedIn(a)
      PROVE  x \in FedIn(q) \/ (x # 0 /\ \E k \in DOMAIN unit : x = unit[k])
  <2>1. x # 0
    BY FedIs
  <2>2. PICK u \in DOMAIN a : \E k \in DOMAIN a[u] : x = a[u][k]
    BY FedIs
  <2>3. CASE u = n
    BY <1>1, <2>1, <2>2, <2>3
  <2>4. CASE u \in DOMAIN q
    BY <1>1, <2>1, <2>2, <2>4, FedIs
  <2>5. QED
    BY <1>1, <2>3, <2>4
<1>3. ASSUME NEW x \in FedIn(q) PROVE x \in FedIn(a)
  <2>1. PICK u \in DOMAIN q : \E k \in DOMAIN q[u] : x = q[u][k]
    BY <1>3, FedIs
  <2>2. x # 0 /\ u \in DOMAIN a /\ a[u] = q[u]
    BY <1>1, <1>3, FedIs
  <2>3. QED
    BY <2>1, <2>2, FedIs
<1>4. ASSUME NEW k \in DOMAIN unit, unit[k] # 0 PROVE unit[k] \in FedIn(a)
    BY <1>1, <1>4, FedIs
<1>5. FedIn(a) = FedIn(q) \cup ({unit[k] : k \in DOMAIN unit} \ {0})
    BY <1>2, <1>3, <1>4
<1>6. QED
    BY <1>1, <1>5 DEF a, n

\* The oldest of the bytes kept fed to the decoder, in their order.
LEMMA PlacedFeed ==
    ASSUME NEW q \in Seq(Seq(Nat)), NEW th, NEW unit \in Seq(Nat), NEW rest, NEW n \in Nat,
           ({unit[k] : k \in DOMAIN unit} \ {0}) \cap rest = {},
           \A k, l \in DOMAIN unit : k < l => Before(unit[k], unit[l]),
           \A k \in DOMAIN unit : \A r \in rest : Before(unit[k], r),
           Placed(q, th, ({unit[k] : k \in DOMAIN unit} \ {0}) \cup rest, n)
    PROVE  Placed(Append(q, unit), th, rest, n)
<1> DEFINE new == {unit[k] : k \in DOMAIN unit} \ {0}
           qq == Append(q, unit)
<1>1. FedIn(qq) = FedIn(q) \cup new
    BY FedMore
<1>2. /\ FedIn(q) \cup new \cup rest \cup th = 1 .. n
      /\ FedIn(q) \cap (new \cup rest) = {} /\ (FedIn(q) \cup new \cup rest) \cap th = {}
      /\ \A p \in FedIn(q) : \A r \in new \cup rest : p < r
    BY DEF Placed
<1>3. \A p \in new : \A r \in rest : p < r
  <2>1. SUFFICES ASSUME NEW k \in DOMAIN unit, unit[k] # 0, NEW r \in rest
                 PROVE  unit[k] < r
    OBVIOUS
  <2>2. unit[k] \in 1 .. n /\ r \in 1 .. n
    BY <1>2, <2>1
  <2>3. Before(unit[k], r)
    OBVIOUS
  <2>4. QED
    BY <2>2, <2>3 DEF Before
<1>4. \A u \in DOMAIN qq : \A k, l \in DOMAIN qq[u] : k < l => Before(qq[u][k], qq[u][l])
    BY FedMore DEF Placed
<1>5. \A u, w \in DOMAIN qq : u < w =>
         \A k \in DOMAIN qq[u] : \A l \in DOMAIN qq[w] : Before(qq[u][k], qq[w][l])
  <2> SUFFICES ASSUME NEW u \in DOMAIN qq, NEW w \in DOMAIN qq, u < w,
                      NEW k \in DOMAIN qq[u], NEW l \in DOMAIN qq[w]
               PROVE  Before(qq[u][k], qq[w][l])
    OBVIOUS
  <2>1. u \in DOMAIN q /\ qq[u] = q[u]
    BY FedMore
  <2>2. CASE w \in DOMAIN q
    BY <2>1, <2>2, FedMore DEF Placed
  <2>3. CASE w = Len(q) + 1
    <3>1. qq[w] = unit
      BY <2>3, FedMore
    <3>2. q[u][k] # 0 => q[u][k] \in FedIn(q)
      BY <2>1, FedIs
    <3>3. unit[l] # 0 => unit[l] \in new
      BY <3>1
    <3>4. q[u][k] # 0 /\ unit[l] # 0 => q[u][k] < unit[l]
      BY <1>2, <3>2, <3>3
    <3>5. Before(q[u][k], unit[l])
      <4>1. q[u][k] > 0 => q[u][k] # 0
        OBVIOUS
      <4>2. unit[l] > 0 => unit[l] # 0
        OBVIOUS
      <4>3. QED
        BY <3>4, <4>1, <4>2 DEF Before
    <3>6. QED
      BY <2>1, <3>1, <3>5
  <2>4. QED
    BY <2>2, <2>3, FedMore
<1>6. FedIn(qq) \cup rest \cup th = 1 .. n /\ FedIn(qq) \cap rest = {}
      /\ (FedIn(qq) \cup rest) \cap th = {}
    BY <1>1, <1>2
<1>7. \A p \in FedIn(qq) : \A r \in rest : p < r
    BY <1>1, <1>2, <1>3
<1> HIDE DEF new, qq
<1>8. Placed(qq, th, rest, n)
    BY <1>4, <1>5, <1>6, <1>7 DEF Placed
<1>9. QED
    BY <1>8 DEF qq

-----------------------------------------------------------------------------
(* The sequences of cells.                                                 *)

\* One sequence after another, element by element.
LEMMA ConcatIs ==
    ASSUME NEW S, NEW s \in Seq(S), NEW t \in Seq(S)
    PROVE  /\ s \o t \in Seq(S) /\ Len(s \o t) = Len(s) + Len(t)
           /\ Len(s) \in Nat /\ Len(t) \in Nat /\ DOMAIN s = 1 .. Len(s)
           /\ DOMAIN t = 1 .. Len(t) /\ DOMAIN (s \o t) = 1 .. Len(s) + Len(t)
           /\ \A k \in 1 .. Len(s) : (s \o t)[k] = s[k]
           /\ \A k \in 1 .. Len(t) : (s \o t)[Len(s) + k] = t[k]
<1>1. /\ s \o t \in Seq(S) /\ Len(s \o t) = Len(s) + Len(t)
      /\ \A k \in 1 .. Len(s) + Len(t) :
            (s \o t)[k] = IF k <= Len(s) THEN s[k] ELSE t[k - Len(s)]
    BY ConcatProperties
<1>2. Len(s) \in Nat /\ Len(t) \in Nat /\ DOMAIN s = 1 .. Len(s) /\ DOMAIN t = 1 .. Len(t)
    OBVIOUS
<1>3. DOMAIN (s \o t) = 1 .. Len(s) + Len(t)
    BY <1>1, LenProperties
<1>4. \A k \in 1 .. Len(s) : (s \o t)[k] = s[k]
    BY <1>1, <1>2
<1>5. ASSUME NEW k \in 1 .. Len(t) PROVE (s \o t)[Len(s) + k] = t[k]
  <2>1. /\ Len(s) + k \in 1 .. Len(s) + Len(t) /\ ~(Len(s) + k <= Len(s))
        /\ Len(s) + k - Len(s) = k
    BY <1>2
  <2>2. QED
    BY <1>1, <2>1
<1>6. QED
    BY <1>1, <1>2, <1>3, <1>4, <1>5

\* A part of a sequence, element by element.
LEMMA SubSeqIs ==
    ASSUME NEW S, NEW s \in Seq(S), NEW to \in 0 .. Len(s), NEW from \in 0 .. to
    PROVE  /\ SubSeq(s, from + 1, to) \in Seq(S) /\ Len(SubSeq(s, from + 1, to)) = to - from
           /\ DOMAIN SubSeq(s, from + 1, to) = 1 .. to - from
           /\ to - from \in Nat /\ Len(s) \in Nat /\ DOMAIN s = 1 .. Len(s)
           /\ \A k \in 1 .. to - from : /\ SubSeq(s, from + 1, to)[k] = s[from + k]
                                        /\ from + k \in from + 1 .. to
                                        /\ from + k \in 1 .. Len(s)
<1> DEFINE b == SubSeq(s, from + 1, to)
<1>1. Len(s) \in Nat /\ DOMAIN s = 1 .. Len(s) /\ to - from \in Nat /\ from \in Nat /\ to \in Nat
    OBVIOUS
<1>2. \A k \in from + 1 .. to : s[k] \in S
    BY <1>1, ElementOfSeq
<1>3. /\ b \in Seq(S)
      /\ Len(b) = IF from + 1 <= to THEN to - (from + 1) + 1 ELSE 0
      /\ \A k \in 1 .. to - (from + 1) + 1 : b[k] = s[from + 1 + k - 1]
  <2>1. from + 1 \in Int /\ to \in Int
    BY <1>1
  <2>2. QED
    BY <1>2, <2>1, SubSeqProperties
<1> HIDE DEF b
<1>4. Len(b) = to - from
    BY <1>1, <1>3
<1>5. ASSUME NEW k \in 1 .. to - from
      PROVE  b[k] = s[from + k] /\ from + k \in from + 1 .. to /\ from + k \in 1 .. Len(s)
  <2>1. k \in 1 .. to - (from + 1) + 1 /\ from + 1 + k - 1 = from + k
    BY <1>1
  <2>2. b[k] = s[from + 1 + k - 1]
    BY <1>3, <2>1
  <2>3. QED
    BY <1>1, <2>1, <2>2
<1>6. DOMAIN b = 1 .. to - from
    BY <1>3, <1>4, LenProperties
<1>7. QED
    BY <1>1, <1>3, <1>4, <1>5, <1>6 DEF b

\* A sequence whose elements are in a smaller set.
LEMMA SeqNarrowed ==
    ASSUME NEW S, NEW T, NEW s \in Seq(S), \A k \in 1 .. Len(s) : s[k] \in T
    PROVE  s \in Seq(T)
    OBVIOUS

\* au_buf as a sequence of cells.
LEMMA BufferIs ==
    ASSUME BufferTyped
    PROVE  /\ au_buf \in Seq(Nat \X Byte) /\ au_len = Len(au_buf) /\ au_len \in Nat
           /\ DOMAIN au_buf = 1 .. au_len /\ sent \in Nat
           /\ \A k \in 1 .. au_len : au_buf[k][1] \in Nat /\ au_buf[k][1] <= sent
                                     /\ au_buf[k] \in Nat \X Byte
<1>1. /\ au_buf \in Seq(Nat \X Byte) /\ au_len = Len(au_buf) /\ au_len \in Nat
      /\ DOMAIN au_buf = 1 .. au_len /\ sent \in Nat
    BY DEF BufferTyped, au_len
<1>2. ASSUME NEW k \in 1 .. au_len
      PROVE  au_buf[k][1] \in Nat /\ au_buf[k][1] <= sent /\ au_buf[k] \in Nat \X Byte
  <2>1. au_buf[k] \in Nat \X Byte
    BY <1>1, ElementOfSeq
  <2>2. QED
    BY <1>1, <2>1 DEF BufferTyped
<1>3. QED
    BY <1>1, <1>2

\* The cells of n bytes of the stream.
LEMMA CellsIs ==
    ASSUME NEW a \in Nat, NEW n \in Nat
    PROVE  Cells(a + 1, a + n) = [k \in 1 .. n |-> <<a + k, stream[a + k]>>]
<1> DEFINE e(k) == a + 1 + k - 1
<1>1. a + n - (a + 1) + 1 = n /\ \A k \in 1 .. n : e(k) = a + k
    OBVIOUS
<1>2. Cells(a + 1, a + n) = [k \in 1 .. a + n - (a + 1) + 1 |-> <<e(k), stream[e(k)]>>]
    BY DEF Cells
<1> HIDE DEF e
<1>3. QED
    BY <1>1, <1>2

\* What a video message brings: cells without a position, then the next n
\* positions of the stream.
LEMMA PayloadIs ==
    ASSUME BufferTyped, NEW stamp \in Stamps, NEW n \in ChunkLens,
           sent + n <= Len(stream)
    PROVE  LET p == Payload(stamp, n)
           IN  /\ p \in Seq(Nat \X Byte) /\ n \in Nat
               /\ \A k \in DOMAIN p : p[k][1] = 0 \/ p[k][1] \in sent + 1 .. sent + n
               /\ Held(p) = sent + 1 .. sent + n
               /\ \A k, l \in DOMAIN p : k < l => Before(p[k][1], p[l][1])
<1> DEFINE t == Timestamp(stamp)
           c == Cells(sent + 1, sent + n)
           p == Payload(stamp, n)
<1>1. stamp \in Seq(Byte) /\ n \in Nat /\ sent \in Nat /\ stream \in Seq(Byte)
    BY BytesAssumption, LengthsAssumption DEF BufferTyped
<1>2. t = [k \in 1 .. Len(stamp) |-> <<0, stamp[k]>>] /\ Len(stamp) \in Nat
    BY <1>1 DEF Timestamp
<1>3. c = [k \in 1 .. n |-> <<sent + k, stream[sent + k]>>]
    BY <1>1, CellsIs
<1>4. t \in Seq(Nat \X Byte) /\ Len(t) = Len(stamp) /\ \A k \in 1 .. Len(stamp) : t[k][1] = 0
    BY <1>1, <1>2
<1>5. /\ c \in Seq(Nat \X Byte) /\ Len(c) = n
      /\ \A k \in 1 .. n : c[k][1] = sent + k
  <2>1. \A k \in 1 .. n : <<sent + k, stream[sent + k]>> \in Nat \X Byte
    <3>1. ASSUME NEW k \in 1 .. n PROVE sent + k \in Nat /\ stream[sent + k] \in Byte
      <4>1. sent + k \in 1 .. Len(stream) /\ sent + k \in Nat
        BY <1>1
      <4>2. QED
        BY <1>1, <4>1, ElementOfSeq
    <3>2. QED
      BY <3>1
  <2> HIDE DEF c
  <2>2. QED
    BY <1>1, <1>3, <2>1
<1> HIDE DEF t, c
<1>6. /\ p \in Seq(Nat \X Byte) /\ DOMAIN p = 1 .. Len(stamp) + n
      /\ \A k \in 1 .. Len(stamp) : p[k][1] = 0
      /\ \A k \in 1 .. n : p[Len(stamp) + k][1] = sent + k
  <2>1. p = t \o c
    BY DEF Payload, t, c
  <2> HIDE DEF p
  <2>2. QED
    <3>1. t \o c \in Seq(Nat \X Byte) /\ DOMAIN (t \o c) = 1 .. Len(stamp) + n
      <4>1. t \o c \in Seq(Nat \X Byte) /\ DOMAIN (t \o c) = 1 .. Len(t) + Len(c)
        <5>1. t \in Seq(Nat \X Byte) /\ c \in Seq(Nat \X Byte)
          BY <1>4, <1>5
        <5>2. QED
          BY <5>1, ConcatIs
      <4>2. QED
        BY <1>4, <1>5, <4>1
    <3>2. \A k \in 1 .. Len(stamp) : (t \o c)[k] = t[k]
      BY <1>4, <1>5, ConcatIs
    <3>3. \A k \in 1 .. n : (t \o c)[Len(stamp) + k] = c[k]
      BY <1>4, <1>5, ConcatIs
    <3>4. QED
      BY <1>4, <1>5, <2>1, <3>1, <3>2, <3>3
<1> HIDE DEF p
<1>7. \A k \in DOMAIN p : \/ k \in 1 .. Len(stamp) /\ p[k][1] = 0
                          \/ \E m \in 1 .. n : k = Len(stamp) + m /\ p[k][1] = sent + m
  <2>1. SUFFICES ASSUME NEW k \in DOMAIN p, k \notin 1 .. Len(stamp)
                 PROVE  \E m \in 1 .. n : k = Len(stamp) + m /\ p[k][1] = sent + m
    BY <1>6
  <2>2. k - Len(stamp) \in 1 .. n /\ k = Len(stamp) + (k - Len(stamp))
    BY <1>1, <1>2, <1>6, <2>1
  <2>3. QED
    BY <1>6, <2>2
<1>8. \A k \in DOMAIN p : p[k][1] = 0 \/ p[k][1] \in sent + 1 .. sent + n
    BY <1>1, <1>7
<1>9. Held(p) = sent + 1 .. sent + n
  <2>1. ASSUME NEW q \in sent + 1 .. sent + n
        PROVE  \E k \in DOMAIN p : p[k][1] = q
    <3>1. q - sent \in 1 .. n /\ sent + (q - sent) = q
      BY <1>1
    <3>2. Len(stamp) + (q - sent) \in DOMAIN p
      <4>1. Len(stamp) \in Nat /\ n \in Nat /\ DOMAIN p = 1 .. Len(stamp) + n
        BY <1>1, <1>2, <1>6
      <4>2. QED
        BY <3>1, <4>1
    <3>3. QED
      BY <1>6, <3>1, <3>2
  <2>2. QED
    BY <1>1, <1>8, <2>1 DEF Held
<1>10. \A k, l \in DOMAIN p : k < l => Before(p[k][1], p[l][1])
  <2> SUFFICES ASSUME NEW k \in DOMAIN p, NEW l \in DOMAIN p, k < l,
                      p[k][1] > 0, p[l][1] > 0
               PROVE  p[k][1] < p[l][1]
    BY DEF Before
  <2>1. PICK m \in 1 .. n : k = Len(stamp) + m /\ p[k][1] = sent + m
    BY <1>7
  <2>2. PICK o \in 1 .. n : l = Len(stamp) + o /\ p[l][1] = sent + o
    BY <1>7
  <2>3. QED
    BY <1>1, <1>2, <2>1, <2>2
<1>11. QED
    BY <1>1, <1>6, <1>8, <1>9, <1>10 DEF p

\* The buffer with a message appended.
LEMMA AppendedIs ==
    ASSUME BufferTyped, BufferOrdered, NEW stamp \in Stamps, NEW n \in ChunkLens,
           sent + n <= Len(stream)
    PROVE  LET p == Payload(stamp, n)
               b == au_buf \o p
           IN  /\ b \in Seq(Nat \X Byte) /\ Len(b) = au_len + Len(p)
               /\ \A k \in DOMAIN b : b[k][1] <= sent + n
               /\ \A k, l \in DOMAIN b : k < l => Before(b[k][1], b[l][1])
               /\ KeptFrom(b, 1) = KeptFrom(au_buf, 1) \cup (sent + 1 .. sent + n)
<1> DEFINE p == Payload(stamp, n)
           b == au_buf \o p
<1>1. /\ p \in Seq(Nat \X Byte) /\ n \in Nat
      /\ \A k \in DOMAIN p : p[k][1] = 0 \/ p[k][1] \in sent + 1 .. sent + n
      /\ Held(p) = sent + 1 .. sent + n
      /\ \A k, l \in DOMAIN p : k < l => Before(p[k][1], p[l][1])
    BY PayloadIs
<1>0. /\ au_buf \in Seq(Nat \X Byte) /\ au_len = Len(au_buf) /\ sent \in Nat
      /\ DOMAIN au_buf = 1 .. au_len
      /\ \A k \in 1 .. au_len : au_buf[k][1] \in Nat /\ au_buf[k][1] <= sent
    BY BufferIs
<1> HIDE DEF p
<1>2. /\ b \in Seq(Nat \X Byte) /\ Len(b) = au_len + Len(p)
      /\ au_len \in Nat /\ Len(p) \in Nat
      /\ DOMAIN p = 1 .. Len(p) /\ DOMAIN b = 1 .. au_len + Len(p)
      /\ \A k \in 1 .. au_len : b[k] = au_buf[k]
      /\ \A k \in 1 .. Len(p) : b[au_len + k] = p[k]
  <2>1. /\ b \in Seq(Nat \X Byte) /\ Len(b) = Len(au_buf) + Len(p)
        /\ Len(au_buf) \in Nat /\ Len(p) \in Nat
        /\ DOMAIN p = 1 .. Len(p) /\ DOMAIN b = 1 .. Len(au_buf) + Len(p)
        /\ \A k \in 1 .. Len(au_buf) : b[k] = au_buf[k]
        /\ \A k \in 1 .. Len(p) : b[Len(au_buf) + k] = p[k]
    BY <1>0, <1>1, ConcatIs
  <2>2. QED
    BY <1>0, <2>1
<1> HIDE DEF b
<1>3. \A k \in DOMAIN b : \/ k \in 1 .. au_len /\ b[k] = au_buf[k]
                          \/ \E m \in 1 .. Len(p) : k = au_len + m /\ b[k] = p[m]
  <2>1. SUFFICES ASSUME NEW k \in DOMAIN b, k \notin 1 .. au_len
                 PROVE  \E m \in 1 .. Len(p) : k = au_len + m /\ b[k] = p[m]
    BY <1>2
  <2>2. k - au_len \in 1 .. Len(p) /\ k = au_len + (k - au_len)
    BY <1>2, <2>1
  <2>3. QED
    BY <1>2, <2>2
<1>4. ASSUME NEW k \in DOMAIN b PROVE b[k][1] <= sent + n
  <2>1. CASE k \in 1 .. au_len /\ b[k] = au_buf[k]
    BY <1>0, <1>1, <2>1
  <2>2. CASE \E m \in 1 .. Len(p) : k = au_len + m /\ b[k] = p[m]
    <3>1. PICK m \in DOMAIN p : b[k] = p[m]
      BY <1>2, <2>2
    <3>2. p[m][1] = 0 \/ p[m][1] \in sent + 1 .. sent + n
      BY <1>1
    <3>3. QED
      BY <1>0, <1>1, <3>1, <3>2
  <2>3. QED
    BY <1>3, <2>1, <2>2
<1>5. ASSUME NEW k \in DOMAIN b, NEW l \in DOMAIN b, k < l
      PROVE  Before(b[k][1], b[l][1])
  <2>1. CASE k \in 1 .. au_len /\ l \in 1 .. au_len
    BY <1>0, <1>2, <1>5, <2>1 DEF BufferOrdered
  <2>2. CASE k \in 1 .. au_len /\ l \notin 1 .. au_len
    <3>1. PICK m \in 1 .. Len(p) : l = au_len + m /\ b[l] = p[m]
      BY <1>3, <2>2
    <3>2. b[k][1] \in Nat /\ b[k][1] <= sent
      BY <1>0, <1>2, <2>2
    <3>3. m \in DOMAIN p
      BY <1>2
    <3>4. p[m][1] = 0 \/ p[m][1] \in sent + 1 .. sent + n
      BY <1>1, <3>3
    <3>5. Before(b[k][1], p[m][1])
      <4>1. sent \in Nat /\ n \in Nat
        BY <1>0, <1>1
      <4>2. QED
        BY <3>2, <3>4, <4>1 DEF Before
    <3>6. QED
      BY <3>1, <3>5
  <2>3. CASE k \notin 1 .. au_len
    <3>1. PICK m \in 1 .. Len(p) : k = au_len + m /\ b[k] = p[m]
      BY <1>3, <2>3
    <3>2. l \notin 1 .. au_len
      BY <1>2, <1>5, <3>1
    <3>3. PICK o \in 1 .. Len(p) : l = au_len + o /\ b[l] = p[o]
      BY <1>3, <3>2
    <3>4. m < o
      BY <1>2, <1>5, <3>1, <3>3
    <3>5. Before(p[m][1], p[o][1])
      <4>1. m \in DOMAIN p /\ o \in DOMAIN p
        BY <1>2
      <4>2. QED
        BY <1>1, <3>4, <4>1
    <3>6. QED
      BY <3>1, <3>3, <3>5
  <2>4. QED
    BY <2>1, <2>2, <2>3
<1>6. KeptFrom(b, 1) = KeptFrom(au_buf, 1) \cup (sent + 1 .. sent + n)
  <2>1. KeptFrom(b, 1) = {b[k][1] : k \in DOMAIN b} \ {0}
    BY <1>2 DEF KeptFrom
  <2>2. KeptFrom(au_buf, 1) = {au_buf[k][1] : k \in 1 .. au_len} \ {0}
    BY <1>0 DEF KeptFrom
  <2>3. \A k \in 1 .. au_len : k \in DOMAIN b /\ b[k] = au_buf[k]
    BY <1>2
  <2>4. \A k \in 1 .. Len(p) : au_len + k \in DOMAIN b /\ b[au_len + k] = p[k]
    BY <1>2
  <2>5. {b[k][1] : k \in DOMAIN b} = {au_buf[k][1] : k \in 1 .. au_len}
                                     \cup {p[k][1] : k \in 1 .. Len(p)}
    BY <1>3, <2>3, <2>4
  <2>6. QED
    BY <1>1, <1>2, <2>1, <2>2, <2>5 DEF Held
<1>7. QED
    BY <1>2, <1>4, <1>5, <1>6 DEF b, p

\* The buffer after its first cells are moved away.
LEMMA TailIs ==
    ASSUME BufferTyped, BufferOrdered, NEW a \in 0 .. au_len
    PROVE  LET b == SubSeq(au_buf, a + 1, au_len)
           IN  /\ b \in Seq(Nat \X Byte) /\ Len(b) <= au_len
               /\ \A k \in DOMAIN b : b[k][1] <= sent
               /\ \A k, l \in DOMAIN b : k < l => Before(b[k][1], b[l][1])
               /\ KeptFrom(b, 1) = KeptFrom(au_buf, a + 1)
<1> DEFINE b == SubSeq(au_buf, a + 1, au_len)
<1>1. au_len \in 0 .. Len(au_buf) /\ au_buf \in Seq(Nat \X Byte) /\ au_len \in Nat
      /\ au_len = Len(au_buf) /\ DOMAIN au_buf = 1 .. au_len
    BY BufferIs
<1>2. /\ b \in Seq(Nat \X Byte) /\ Len(b) = au_len - a /\ DOMAIN b = 1 .. au_len - a
      /\ \A k \in 1 .. au_len - a : /\ b[k] = au_buf[a + k] /\ a + k \in a + 1 .. au_len
                                    /\ a + k \in 1 .. au_len
  <2>1. au_len \in 0 .. Len(au_buf) /\ a \in 0 .. au_len
    BY <1>1
  <2>2. QED
    BY <1>1, <2>1, SubSeqIs
<1> HIDE DEF b
<1>3. \A k \in DOMAIN b : b[k][1] <= sent
    BY <1>2, BufferIs
<1>4. ASSUME NEW k \in DOMAIN b, NEW l \in DOMAIN b, k < l
      PROVE  Before(b[k][1], b[l][1])
  <2>1. a + k < a + l
    BY <1>2, <1>4
  <2>2. QED
    BY <1>1, <1>2, <2>1 DEF BufferOrdered
<1>5. KeptFrom(b, 1) = KeptFrom(au_buf, a + 1)
  <2>1. ASSUME NEW k \in a + 1 .. au_len
        PROVE  \E m \in DOMAIN b : b[m] = au_buf[k]
    <3>1. k - a \in DOMAIN b /\ a + (k - a) = k
      <4>1. a \in Int /\ k \in Int /\ a + 1 <= k /\ k <= au_len
        BY <1>1
      <4>2. QED
        BY <1>1, <1>2, <4>1
    <3>2. QED
      BY <1>2, <3>1
  <2>2. \A m \in DOMAIN b : \E k \in a + 1 .. au_len : b[m] = au_buf[k]
    BY <1>2
  <2>3. {b[m][1] : m \in DOMAIN b} = {au_buf[k][1] : k \in a + 1 .. au_len}
    BY <2>1, <2>2
  <2>4. QED
    BY <1>1, <1>2, <2>3 DEF KeptFrom
<1>6. Len(b) <= au_len
    BY <1>1, <1>2
<1>7. QED
    BY <1>2, <1>3, <1>4, <1>5, <1>6 DEF b

\* A unit and what is left of the buffer behind it.
LEMMA UnitIs ==
    ASSUME BufferTyped, BufferOrdered, NEW to \in 0 .. au_len, NEW from \in 0 .. to
    PROVE  LET unit == Unit(from, to)
               new == {unit[k] : k \in DOMAIN unit} \ {0}
               rest == KeptFrom(au_buf, to + 1)
           IN  /\ unit \in Seq(Nat)
               /\ KeptFrom(au_buf, from + 1) = new \cup rest /\ new \cap rest = {}
               /\ \A k, l \in DOMAIN unit : k < l => Before(unit[k], unit[l])
               /\ \A k \in DOMAIN unit : \A r \in rest : Before(unit[k], r)
<1> DEFINE s == SubSeq(au_buf, from + 1, to)
           unit == Unit(from, to)
           new == {unit[k] : k \in DOMAIN unit} \ {0}
           rest == KeptFrom(au_buf, to + 1)
<1>1. /\ au_buf \in Seq(Nat \X Byte) /\ au_len \in Nat /\ au_len = Len(au_buf)
      /\ to \in 0 .. Len(au_buf) /\ DOMAIN au_buf = 1 .. au_len
    BY BufferIs
<1>2. /\ DOMAIN s = 1 .. to - from /\ to - from \in Nat
      /\ \A k \in 1 .. to - from : /\ s[k] = au_buf[from + k] /\ from + k \in from + 1 .. to
                                   /\ from + k \in 1 .. au_len
  <2>1. /\ DOMAIN s = 1 .. to - from /\ to - from \in Nat
        /\ \A k \in 1 .. to - from : /\ s[k] = au_buf[from + k] /\ from + k \in from + 1 .. to
                                     /\ from + k \in 1 .. Len(au_buf)
    BY <1>1, SubSeqIs
  <2>2. QED
    BY <1>1, <2>1
<1>3. unit = [k \in 1 .. to - from |-> s[k][1]]
    BY <1>2 DEF Unit, Positions
<1> HIDE DEF s, unit
<1>4. /\ DOMAIN unit = 1 .. to - from
      /\ \A k \in 1 .. to - from : unit[k] = au_buf[from + k][1]
    BY <1>2, <1>3
<1>5. unit \in Seq(Nat)
  <2>1. \A k \in 1 .. to - from : s[k][1] \in Nat
    BY <1>2, BufferIs
  <2>2. QED
    BY <1>2, <1>3, <2>1
<1>6. ASSUME NEW k \in DOMAIN unit, NEW l \in DOMAIN unit, k < l
      PROVE  Before(unit[k], unit[l])
  <2>1. from + k < from + l /\ from + k \in DOMAIN au_buf /\ from + l \in DOMAIN au_buf
    <3>1. from \in Int /\ k \in 1 .. to - from /\ l \in 1 .. to - from /\ to \in Int
      BY <1>1, <1>2, <1>4, <1>6
    <3>2. from + k \in 1 .. au_len /\ from + l \in 1 .. au_len
      BY <1>2, <3>1
    <3>3. from + k < from + l
      BY <1>6, <3>1
    <3>4. QED
      BY <1>1, <3>2, <3>3
  <2>2. Before(au_buf[from + k][1], au_buf[from + l][1])
    BY <2>1 DEF BufferOrdered
  <2>3. QED
    BY <1>4, <2>2
<1>7. ASSUME NEW k \in DOMAIN unit, NEW m \in to + 1 .. au_len
      PROVE  Before(unit[k], au_buf[m][1])
  <2>1. from + k \in DOMAIN au_buf /\ m \in DOMAIN au_buf /\ from + k < m
    <3>1. from \in Int /\ k \in 1 .. to - from /\ to \in 0 .. au_len /\ au_len \in Nat
      BY <1>1, <1>4
    <3>2. from + k \in 1 .. au_len /\ from + k <= to
      BY <1>2, <3>1
    <3>3. m \in 1 .. au_len /\ from + k < m
      BY <3>1, <3>2, <1>7
    <3>4. QED
      BY <1>1, <3>2, <3>3
  <2>2. QED
    BY <1>4, <2>1 DEF BufferOrdered
<1>8. rest = {au_buf[m][1] : m \in to + 1 .. au_len} \ {0}
    BY <1>1 DEF KeptFrom
<1>9. KeptFrom(au_buf, from + 1) = new \cup rest
  <2>1. ASSUME NEW m \in from + 1 .. to
        PROVE  \E k \in DOMAIN unit : unit[k] = au_buf[m][1]
    <3>1. m - from \in DOMAIN unit /\ from + (m - from) = m
      BY <1>4
    <3>2. QED
      BY <1>4, <3>1
  <2>2. \A k \in DOMAIN unit : \E m \in from + 1 .. to : unit[k] = au_buf[m][1]
    BY <1>2, <1>4
  <2>3. {au_buf[m][1] : m \in from + 1 .. to} = {unit[k] : k \in DOMAIN unit}
    BY <2>1, <2>2
  <2>4. from + 1 .. au_len = (from + 1 .. to) \cup (to + 1 .. au_len)
    BY <1>1
  <2>5. {au_buf[m][1] : m \in from + 1 .. au_len}
        = {au_buf[m][1] : m \in from + 1 .. to} \cup {au_buf[m][1] : m \in to + 1 .. au_len}
    BY <2>4
  <2>6. KeptFrom(au_buf, from + 1) = {au_buf[m][1] : m \in from + 1 .. au_len} \ {0}
    BY <1>1 DEF KeptFrom
  <2> HIDE DEF rest
  <2>7. QED
    BY <1>8, <2>3, <2>5, <2>6
<1>10. \A k \in DOMAIN unit : \A r \in rest : Before(unit[k], r)
  <2> HIDE DEF rest
  <2>1. QED
    BY <1>7, <1>8
<1>11. new \cap rest = {}
  <2>1. SUFFICES ASSUME NEW k \in DOMAIN unit, unit[k] # 0, unit[k] \in rest
                 PROVE  FALSE
    OBVIOUS
  <2>2. Before(unit[k], unit[k]) /\ unit[k] \in Nat
    BY <1>4, <1>5, <1>10, <2>1
  <2>3. QED
    BY <2>1, <2>2 DEF Before
<1>12. QED
    BY <1>5, <1>6, <1>9, <1>10, <1>11 DEF unit

-----------------------------------------------------------------------------
(* The invariant.                                                          *)

\* Nothing has arrived.
LEMMA InitIInv == Init => IInv
<1> SUFFICES ASSUME Init PROVE IInv
    OBVIOUS
<1>1. BufferTyped /\ BufferOrdered
    BY BytesAssumption, LengthsAssumption
       DEF Init, BufferTyped, BufferOrdered, au_len
<1>2. ScanTyped
  <2>1. 0 \in 0 .. BufMax /\ 0 \in 0 .. 0
    BY LengthsAssumption
  <2>2. QED
    BY <2>1 DEF Init, ScanTyped
<1>3. OutputTyped
    BY DEF Init, OutputTyped
<1>4. FedIn(queued) = {}
    BY FedIs DEF Init
<1>5. KeptFrom(au_buf, From) = {}
    BY DEF Init, KeptFrom, From
<1>6. Placed(queued, thrown, {}, 0)
    BY <1>4 DEF Init, Placed
<1>7. QED
    BY <1>1, <1>2, <1>3, <1>5, <1>6 DEF Init, IInv

\* A message that does not fit.
LEMMA DropAllStep ==
    ASSUME IInv, NEW stamp \in Stamps, NEW n \in ChunkLens, DropAll(stamp, n)
    PROVE  IInv'
<1>1. /\ pc = "idle" /\ sent + n <= Len(stream) /\ sent' = sent + n /\ au_buf' = <<>>
      /\ thrown' = thrown \cup Held(au_buf) \cup Held(Payload(stamp, n))
      /\ UNCHANGED <<stream, i, au_start, cur_has_vcl, pc, queued>>
    BY DEF DropAll, ClearBuffer, scan
<1>2. BufferTyped /\ BufferOrdered /\ Placed(queued, thrown, KeptFrom(au_buf, From), sent)
    BY DEF IInv
<1>3. n \in Nat /\ sent \in Nat /\ Held(Payload(stamp, n)) = sent + 1 .. sent + n
    BY <1>1, <1>2, PayloadIs, BufferIs
<1>4. KeptFrom(au_buf, From) = Held(au_buf)
    BY <1>1, <1>2, BufferIs DEF KeptFrom, From, Held
<1>5. Placed(queued, thrown', {}, sent')
  <2>1. sent + n \in Nat /\ sent <= sent + n
    BY <1>3
  <2>2. Placed(queued, thrown \cup Held(au_buf) \cup (sent + 1 .. sent + n), {}, sent + n)
    BY <1>2, <1>3, <1>4, <2>1, PlacedDrop
  <2>3. QED
    BY <1>1, <1>3, <2>2
<1>6. KeptFrom(au_buf', From') = {}
    BY <1>1 DEF KeptFrom, From
<1>7. BufferTyped' /\ BufferOrdered'
    BY <1>1, <1>2, <1>3, LengthsAssumption DEF BufferTyped, BufferOrdered, au_len
<1>8. ScanTyped' /\ OutputTyped'
    BY <1>1 DEF IInv, ScanTyped, OutputTyped
<1>9. Placed(queued, thrown, KeptFrom(au_buf, From), sent)'
    BY <1>1, <1>5, <1>6
<1>10. QED
    BY <1>7, <1>8, <1>9 DEF IInv

\* A message appended.
LEMMA AppendChunkStep ==
    ASSUME IInv, NEW stamp \in Stamps, NEW n \in ChunkLens, AppendChunk(stamp, n)
    PROVE  IInv'
<1> DEFINE p == Payload(stamp, n)
<1>1. /\ pc = "idle" /\ sent + n <= Len(stream) /\ au_len + Len(p) <= BufMax
      /\ sent' = sent + n /\ au_buf' = au_buf \o p /\ pc' = "scan"
      /\ i' = 0 /\ au_start' = 0 /\ cur_has_vcl' = FALSE
      /\ UNCHANGED <<stream, queued, thrown>>
  <2>1. /\ pc = "idle" /\ sent + n <= Len(stream) /\ ~(au_len + Len(p) > BufMax)
        /\ sent' = sent + n /\ au_buf' = au_buf \o p /\ pc' = "scan"
        /\ i' = 0 /\ au_start' = 0 /\ cur_has_vcl' = FALSE
        /\ UNCHANGED <<stream, queued, thrown>>
    BY DEF AppendChunk, Overflows
  <2>2. p \in Seq(Nat \X Byte) /\ au_len \in Nat
    BY <2>1, PayloadIs, BufferIs DEF IInv
  <2>3. Len(p) \in Nat
    BY <2>2
  <2>4. QED
    BY <2>1, <2>2, <2>3, LengthsAssumption
<1>2. BufferTyped /\ BufferOrdered /\ Placed(queued, thrown, KeptFrom(au_buf, From), sent)
    BY DEF IInv
<1>3. n \in Nat /\ sent \in Nat
    BY <1>2, LengthsAssumption, BufferIs
<1>4. /\ au_buf' \in Seq(Nat \X Byte) /\ Len(au_buf') = au_len + Len(p)
      /\ \A k \in DOMAIN au_buf' : au_buf'[k][1] <= sent + n
      /\ \A k, l \in DOMAIN au_buf' : k < l => Before(au_buf'[k][1], au_buf'[l][1])
      /\ KeptFrom(au_buf', 1) = KeptFrom(au_buf, 1) \cup (sent + 1 .. sent + n)
    BY <1>1, <1>2, AppendedIs
<1> HIDE DEF p
<1>5. From = 1 /\ From' = 1
    BY <1>1 DEF From
<1>6. BufferTyped'
    BY <1>1, <1>2, <1>3, <1>4 DEF BufferTyped, au_len
<1>7. BufferOrdered'
    BY <1>4 DEF BufferOrdered
<1>8. ScanTyped'
  <2>1. Len(au_buf') \in Nat
    BY <1>4
  <2>2. i' \in 0 .. BufMax /\ au_start' \in 0 .. i' /\ i' <= Len(au_buf')
    BY <1>1, <2>1, LengthsAssumption
  <2>3. QED
    BY <1>1, <2>2 DEF ScanTyped, au_len
<1>9. OutputTyped'
    BY <1>1 DEF IInv, OutputTyped
<1>10. Placed(queued, thrown, KeptFrom(au_buf', 1), sent + n)
  <2>1. sent + n \in Nat /\ sent <= sent + n
    BY <1>3
  <2>2. QED
    BY <1>2, <1>3, <1>4, <1>5, <2>1, PlacedMore
<1>11. Placed(queued, thrown, KeptFrom(au_buf, From), sent)'
    BY <1>1, <1>5, <1>10
<1>12. QED
    BY <1>6, <1>7, <1>8, <1>9, <1>11 DEF IInv

\* The header found behind a start code is within the buffer.
LEMMA HeaderInside ==
    ASSUME BufferTyped, i \in Nat, IsStartCode(i)
    PROVE  NalHdr(i) \in i + 3 .. au_len
<1>1. PICK sc \in {3, 4} :
         /\ i + sc <= au_len /\ BufByte(i + sc - 1) = 1
         /\ \A z \in i .. i + sc - 2 : BufByte(z) = 0
    BY DEF IsStartCode
<1>2. au_len \in Nat
    BY BufferIs
<1>3. CASE sc = 3
  <2>1. BufByte(i + 2) = 1
    <3>1. i + 3 - 1 = i + 2
      OBVIOUS
    <3>2. QED
      BY <1>1, <1>3, <3>1
  <2>2. QED
    BY <1>1, <1>2, <1>3, <2>1 DEF NalHdr
<1>4. CASE sc = 4
  <2>1. i + 2 \in i .. i + 4 - 2
    OBVIOUS
  <2>2. BufByte(i + 2) = 0
    BY <1>1, <1>4, <2>1
  <2>3. QED
    BY <1>1, <1>2, <1>4, <2>2 DEF NalHdr
<1>5. QED
    BY <1>3, <1>4

\* A start code, with or without a cut before it.
LEMMA ScanStartCodeStep ==
    ASSUME IInv, ScanStartCode
    PROVE  IInv'
<1>1. /\ BufferTyped /\ BufferOrdered /\ ScanTyped /\ OutputTyped /\ pc = "scan"
      /\ Placed(queued, thrown, KeptFrom(au_buf, au_start + 1), sent)
    BY DEF IInv, ScanStartCode, From
<1>2. /\ UNCHANGED <<stream, sent, au_buf, pc>> /\ i < au_len /\ IsStartCode(i)
      /\ i' = NalHdr(i) /\ cur_has_vcl' = (StartsSlice(i) \/ cur_has_vcl)
    BY DEF ScanStartCode
<1>3. /\ i \in 0 .. au_len /\ au_start \in 0 .. i /\ au_len \in Nat /\ au_len <= BufMax
      /\ i \in Nat
    BY <1>1, BufferIs DEF ScanTyped, BufferTyped
<1>4. i' \in i + 3 .. au_len
    BY <1>1, <1>2, <1>3, HeaderInside
<1>5. BufferTyped' /\ BufferOrdered'
    BY <1>1, <1>2 DEF BufferTyped, BufferOrdered, au_len
<1>6. ASSUME au_start' \in {au_start, i} PROVE ScanTyped'
  <2>1. cur_has_vcl' \in BOOLEAN
    BY <1>1, <1>2 DEF ScanTyped, StartsSlice
  <2>2. au_len' = au_len
    BY <1>2 DEF au_len
  <2>3. i' \in 0 .. BufMax /\ au_start' \in 0 .. i' /\ i' <= au_len
    BY <1>3, <1>4, <1>6, LengthsAssumption
  <2>4. QED
    BY <1>1, <1>2, <2>1, <2>2, <2>3 DEF ScanTyped
<1>7. CASE UNCHANGED <<queued, thrown, au_start>>
  <2>1. ScanTyped'
    BY <1>6, <1>7
  <2>2. OutputTyped'
    BY <1>1, <1>7 DEF OutputTyped
  <2>3. Placed(queued, thrown, KeptFrom(au_buf, From), sent)'
    BY <1>1, <1>2, <1>7 DEF From
  <2>4. QED
    BY <1>5, <2>1, <2>2, <2>3 DEF IInv
<1>8. CASE FeedDecoder(Unit(au_start, i)) /\ au_start' = i
  <2> DEFINE unit == Unit(au_start, i)
             new == {unit[k] : k \in DOMAIN unit} \ {0}
             rest == KeptFrom(au_buf, i + 1)
  <2>1. /\ unit \in Seq(Nat)
        /\ KeptFrom(au_buf, au_start + 1) = new \cup rest /\ new \cap rest = {}
        /\ \A k, l \in DOMAIN unit : k < l => Before(unit[k], unit[l])
        /\ \A k \in DOMAIN unit : \A r \in rest : Before(unit[k], r)
    BY <1>1, <1>3, UnitIs
  <2>2. KeptFrom(au_buf', From') = rest
    BY <1>1, <1>2, <1>8 DEF From
  <2>3. ScanTyped'
    BY <1>6, <1>8
  <2>4. FeedDecoder(unit)
    BY <1>8
  <2>5. sent \in Nat /\ queued \in Seq(Seq(Nat))
    BY <1>1, BufferIs DEF OutputTyped
  <2> HIDE DEF unit, rest
  <2>6. CASE Len(unit) \in 1 .. SlotSize
    <3>1. queued' = Append(queued, unit) /\ thrown' = thrown
      BY <2>4, <2>6 DEF FeedDecoder
    <3>2. Placed(queued', thrown, rest, sent)
      BY <1>1, <2>1, <2>5, <3>1, PlacedFeed
    <3>3. OutputTyped'
      <4>1. queued' \in Seq(Seq(Nat))
        BY <2>1, <2>5, <3>1
      <4>2. \A u \in DOMAIN queued' : Len(queued'[u]) \in 1 .. SlotSize
        BY <1>1, <2>1, <2>5, <2>6, <3>1, FedMore DEF OutputTyped
      <4>3. QED
        BY <4>1, <4>2 DEF OutputTyped
    <3>4. QED
      BY <1>2, <1>5, <2>2, <2>3, <3>1, <3>2, <3>3 DEF IInv
  <2>7. CASE Len(unit) \notin 1 .. SlotSize
    <3>1. queued' = queued /\ thrown' = thrown \cup new
      BY <2>4, <2>7 DEF FeedDecoder
    <3>2. Placed(queued, thrown', rest, sent)
      BY <1>1, <2>1, <3>1, PlacedThrow
    <3>3. OutputTyped'
      BY <1>1, <3>1 DEF OutputTyped
    <3>4. QED
      BY <1>2, <1>5, <2>2, <2>3, <3>1, <3>2, <3>3 DEF IInv
  <2>8. QED
    BY <2>6, <2>7
<1>9. QED
    BY <1>7, <1>8 DEF ScanStartCode

\* Any other byte.
LEMMA ScanByteStep ==
    ASSUME IInv, ScanByte
    PROVE  IInv'
<1>1. /\ UNCHANGED <<stream, sent, au_buf, au_start, cur_has_vcl, pc, queued, thrown>>
      /\ i' = i + 1 /\ i < au_len
    BY DEF ScanByte
<1>2. BufferTyped' /\ BufferOrdered' /\ OutputTyped'
    BY <1>1 DEF IInv, BufferTyped, BufferOrdered, OutputTyped, au_len
<1>3. ScanTyped'
  <2>1. au_len \in Nat /\ au_len <= BufMax
    BY BufferIs DEF IInv, BufferTyped
  <2>2. QED
    BY <1>1, <2>1, LengthsAssumption DEF IInv, ScanTyped, au_len
<1>4. Placed(queued, thrown, KeptFrom(au_buf, From), sent)'
    BY <1>1 DEF IInv, From
<1>5. QED
    BY <1>2, <1>3, <1>4 DEF IInv

\* The end of the scan.
LEMMA KeepTailStep ==
    ASSUME IInv, KeepTail
    PROVE  IInv'
<1>1. /\ pc = "scan" /\ pc' = "idle" /\ au_buf' = SubSeq(au_buf, au_start + 1, au_len)
      /\ UNCHANGED <<stream, sent, i, au_start, cur_has_vcl, queued, thrown>>
    BY DEF KeepTail, MoveDown, scan
<1>2. BufferTyped /\ BufferOrdered /\ au_start \in 0 .. au_len /\ au_len \in Nat
    BY <1>1, BufferIs DEF IInv, ScanTyped
<1>3. /\ au_buf' \in Seq(Nat \X Byte) /\ Len(au_buf') <= au_len
      /\ \A k \in DOMAIN au_buf' : au_buf'[k][1] <= sent
      /\ \A k, l \in DOMAIN au_buf' : k < l => Before(au_buf'[k][1], au_buf'[l][1])
      /\ KeptFrom(au_buf', 1) = KeptFrom(au_buf, au_start + 1)
    BY <1>1, <1>2, TailIs
<1>4. BufferTyped'
  <2>1. Len(au_buf') <= BufMax
    <3>1. Len(au_buf') \in Nat /\ au_len <= BufMax
      BY <1>2, <1>3 DEF BufferTyped
    <3>2. QED
      BY <1>2, <1>3, <3>1, LengthsAssumption
  <2>2. QED
    BY <1>1, <1>2, <1>3, <2>1 DEF BufferTyped, au_len
<1>5. BufferOrdered'
    BY <1>3 DEF BufferOrdered
<1>6. ScanTyped' /\ OutputTyped'
    BY <1>1 DEF IInv, ScanTyped, OutputTyped
<1>7. From = au_start + 1 /\ From' = 1
    BY <1>1 DEF From
<1>8. Placed(queued, thrown, KeptFrom(au_buf, From), sent)'
    BY <1>1, <1>3, <1>7 DEF IInv
<1>9. QED
    BY <1>4, <1>5, <1>6, <1>8 DEF IInv

\* Every step of handle_video keeps the invariant.
LEMMA StepIInv == IInv /\ [Next]_vars => IInv'
<1> SUFFICES ASSUME IInv, [Next]_vars PROVE IInv'
    OBVIOUS
<1>1. CASE UNCHANGED vars
    BY <1>1 DEF vars, scan, IInv, BufferTyped, ScanTyped, OutputTyped, BufferOrdered,
                From, au_len
<1>2. QED
    BY <1>1, DropAllStep, AppendChunkStep, ScanStartCodeStep, ScanByteStep, KeepTailStep
       DEF Next

\* The invariant in every reachable state.
THEOREM Invariant == Spec => []IInv
    BY InitIInv, StepIInv, PTL DEF Spec
-----------------------------------------------------------------------------
(* The properties.                                                         *)

\* The positions InBuffer holds are those kept.
LEMMA InBufferIs == IInv => Held(InBuffer) = KeptFrom(au_buf, From)
<1> SUFFICES ASSUME IInv PROVE Held(InBuffer) = KeptFrom(au_buf, From)
    OBVIOUS
<1> DEFINE a == IF pc = "scan" THEN au_start ELSE 0
           b == SubSeq(au_buf, a + 1, au_len)
<1>1. a \in 0 .. au_len /\ From = a + 1 /\ InBuffer = b
    BY BufferIs DEF IInv, ScanTyped, From, InBuffer
<1> HIDE DEF a
<1>2. b \in Seq(Nat \X Byte) /\ KeptFrom(b, 1) = KeptFrom(au_buf, a + 1)
    BY <1>1, TailIs DEF IInv
<1> HIDE DEF b
<1>3. Held(b) = KeptFrom(b, 1)
    BY <1>2, LenProperties DEF Held, KeptFrom
<1>4. QED
    BY <1>1, <1>2, <1>3

\* Every byte received is fed, kept or thrown away, in one place only, and the
\* bytes fed keep the order of the stream, for all streams, messages and sizes.
THEOREM BytesOnce == Spec => []EachByteOnce
<1>1. IInv => EachByteOnce
    BY InBufferIs DEF IInv, Placed, EachByteOnce, FedIn
<1>2. QED
    BY <1>1, Invariant, PTL

\* au_buf never overflows, the indexes of the scan stay in it and every unit
\* fed fits a slot.
THEOREM TypeCorrect == Spec => []TypeOK
<1>1. IInv => TypeOK
  <2> SUFFICES ASSUME IInv PROVE TypeOK
    OBVIOUS
  <2>1. FedIn(queued) \cup KeptFrom(au_buf, From) \cup thrown = 1 .. sent
    BY DEF IInv, Placed
  <2>2. \A k \in DOMAIN au_buf : au_buf[k] \in (0 .. sent) \X Byte
    <3>1. SUFFICES ASSUME NEW k \in 1 .. au_len PROVE au_buf[k] \in (0 .. sent) \X Byte
      BY BufferIs DEF IInv
    <3>2. /\ au_buf[k][1] \in Nat /\ au_buf[k][1] <= sent /\ sent \in Nat
          /\ au_buf[k] \in Nat \X Byte
      BY BufferIs DEF IInv
    <3>3. QED
      BY <3>2
  <2>3. queued \in Seq(Seq(0 .. sent))
    <3>1. ASSUME NEW u \in DOMAIN queued PROVE queued[u] \in Seq(0 .. sent)
      <4>1. queued[u] \in Seq(Nat)
        BY DEF IInv, OutputTyped
      <4>2. ASSUME NEW k \in DOMAIN queued[u] PROVE queued[u][k] \in 0 .. sent
        <5>1. queued[u][k] # 0 => queued[u][k] \in FedIn(queued)
          BY FedIs
        <5>2. sent \in Nat
          BY BufferIs DEF IInv
        <5>3. QED
          BY <2>1, <5>1, <5>2
      <4>3. \A k \in 1 .. Len(queued[u]) : queued[u][k] \in 0 .. sent
        BY <4>1, <4>2, LenProperties
      <4>4. QED
        BY <4>1, <4>3, SeqNarrowed
    <3>2. queued \in Seq(Seq(Nat))
      BY DEF IInv, OutputTyped
    <3>3. QED
      BY <3>1, <3>2
  <2>4. thrown \subseteq 1 .. sent
    BY <2>1
  <2>5. QED
    BY <2>2, <2>3, <2>4 DEF IInv, BufferTyped, ScanTyped, OutputTyped, TypeOK
<1>2. QED
    BY <1>1, Invariant, PTL
-----------------------------------------------------------------------------
(* The cuts: what the scan of au_buf has to do with the slices of the      *)
(* stream.  From here on messages hold no timestamp, as the two properties *)
(* have it: au_buf is then a piece of the stream, its end being the last   *)
(* byte received.                                                          *)

Off == sent - au_len
BufferOfStream ==
    /\ Off \in Nat
    /\ \A k \in 1 .. au_len : au_buf[k] = <<Off + k, stream[Off + k]>>

\* The start codes that the first n bytes of the stream show, and the slices
\* that can be found among the bytes from off + 1 to n.
Short(p, n) == p + 2 <= n /\ stream[p] = 0 /\ stream[p + 1] = 0 /\ stream[p + 2] = 1
Long(p, n) ==
    /\ p + 3 <= n
    /\ stream[p] = 0 /\ stream[p + 1] = 0 /\ stream[p + 2] = 0 /\ stream[p + 3] = 1
CodeBy(p, n) == Short(p, n) \/ Long(p, n)
SliceIn(p, off, n) ==
    /\ CodeBy(p, n) /\ (p > off + 1 => ~CodeBy(p - 1, n))
    /\ HeaderOf(p) <= n /\ IsVclByte(stream[HeaderOf(p)])

\* No two of them from a to b.
OneSlice(a, b, off, n) ==
    \A p, q \in a .. b : SliceIn(p, off, n) /\ SliceIn(q, off, n) => p = q

\* The positions of au_start and of i.
StartAt == Off + au_start + 1
ScanAt == Off + i + 1

ScanFinds ==
    pc = "scan" =>
        /\ i > 0 => ~CodeBy(ScanAt - 1, sent)
        /\ cur_has_vcl <=> \E p \in StartAt .. ScanAt - 1 : SliceIn(p, Off, sent)
        /\ OneSlice(StartAt, ScanAt - 1, Off, sent)
        /\ au_start > 0 => SliceIn(StartAt, Off, sent)
TailHasOne == pc = "idle" => OneSlice(Off + 1, sent, Off, sent)

\* A unit fed is the stream from a to b - 1: b is a slice, before it there is
\* another, and at most one of those is in the unit.
UnitOf(unit, a, b) ==
    /\ 0 < a /\ a < b
    /\ unit = [k \in 1 .. b - a |-> a + k - 1]
    /\ b \in Slices(sent)
    /\ \E p \in Slices(Len(stream)) : p < b
    /\ \A p, q \in Slices(Len(stream)) : a <= p /\ p < q => b <= q
UnitsCut ==
    \A u \in DOMAIN queued : \E a, b \in 1 .. Len(stream) : UnitOf(queued[u], a, b)

CutInv == BufferOfStream /\ ScanFinds /\ TailHasOne /\ UnitsCut
Cuts == Stamps \subseteq {<<>>} => CutInv
-----------------------------------------------------------------------------
(* Start codes and slices.                                                 *)

\* A start code of the stream is one that all its bytes show.
LEMMA CodeOfStream ==
    ASSUME stream \in Seq(Byte), NEW p \in Nat
    PROVE  CodeAt(p) <=> CodeBy(p, Len(stream))
<1>1. Len(stream) \in Nat
    OBVIOUS
<1>2. p .. p + 3 - 2 = {p, p + 1} /\ p + 3 - 1 = p + 2
    OBVIOUS
<1>3. p .. p + 4 - 2 = {p, p + 1, p + 2} /\ p + 4 - 1 = p + 3
    OBVIOUS
<1>4. Short(p, Len(stream)) <=>
          /\ p + 3 - 1 <= Len(stream)
          /\ stream[p + 3 - 1] = 1
          /\ \A z \in p .. p + 3 - 2 : stream[z] = 0
    BY <1>2 DEF Short
<1>5. Long(p, Len(stream)) <=>
          /\ p + 4 - 1 <= Len(stream)
          /\ stream[p + 4 - 1] = 1
          /\ \A z \in p .. p + 4 - 2 : stream[z] = 0
    BY <1>3 DEF Long
<1>6. QED
    BY <1>4, <1>5 DEF CodeAt, CodeBy

\* The header is behind the one, in the fourth byte or in the fifth.
LEMMA HeaderIs ==
    ASSUME NEW p \in Nat, NEW n \in Nat
    PROVE  /\ Short(p, n) => HeaderOf(p) = p + 3 /\ p + 3 <= n + 1
           /\ Long(p, n) => HeaderOf(p) = p + 4 /\ p + 4 <= n + 1
    BY DEF Short, Long, HeaderOf

\* What more bytes show of a start code whose header is there.
LEMMA CodeShown ==
    ASSUME NEW p \in Nat, NEW n \in Nat, NEW m \in Nat, n <= m
    PROVE  /\ CodeBy(p, n) => CodeBy(p, m)
           /\ CodeBy(p, m) /\ HeaderOf(p) <= n + 1 => CodeBy(p, n)
<1>1. HeaderOf(p) <= n + 1 /\ Short(p, m) => Short(p, n)
    BY HeaderIs DEF Short
<1>2. HeaderOf(p) <= n + 1 /\ Long(p, m) => Long(p, n)
    BY HeaderIs DEF Long
<1>3. (Short(p, n) => Short(p, m)) /\ (Long(p, n) => Long(p, m))
    BY DEF Short, Long
<1>4. QED
    BY <1>1, <1>2, <1>3 DEF CodeBy

\* Two start codes overlap only if the first has a zero more; then they end
\* at the same one.
LEMMA CodesOverlap ==
    ASSUME NEW p \in Nat, NEW q \in Nat, NEW n \in Nat, CodeBy(p, n),
           p < q, q < HeaderOf(p)
    PROVE  /\ CodeBy(q, n) => q = p + 1 /\ Short(q, n) /\ Long(p, n)
           /\ stream[q] = 0 \/ q = HeaderOf(p) - 1
           /\ q = HeaderOf(p) - 1 => stream[q] = 1
<1>1. CASE Short(p, n)
  <2>1. HeaderOf(p) = p + 3 /\ (q = p + 1 \/ q = p + 2)
    BY <1>1, HeaderIs
  <2>2. stream[p + 1] = 0 /\ stream[p + 2] = 1
    BY <1>1 DEF Short
  <2>3. CodeBy(q, n) => stream[q] = 0 /\ stream[q + 1] = 0
    BY DEF CodeBy, Short, Long
  <2>4. p + 1 + 1 = p + 2 /\ p + 3 - 1 = p + 2
    OBVIOUS
  <2>5. QED
    BY <2>1, <2>2, <2>3, <2>4
<1>2. CASE Long(p, n)
  <2>1. HeaderOf(p) = p + 4 /\ (q = p + 1 \/ q = p + 2 \/ q = p + 3)
    BY <1>2, HeaderIs
  <2>2. stream[p + 1] = 0 /\ stream[p + 2] = 0 /\ stream[p + 3] = 1
    BY <1>2 DEF Long
  <2>3. CodeBy(q, n) => stream[q] = 0 /\ stream[q + 1] = 0
    BY DEF CodeBy, Short, Long
  <2>4. p + 2 + 1 = p + 3 /\ p + 4 - 1 = p + 3 /\ p + 1 + 2 = p + 3
    OBVIOUS
  <2>5. CodeBy(q, n) => q = p + 1
    BY <2>1, <2>2, <2>3, <2>4
  <2>6. q = p + 1 => ~Long(q, n)
    BY <2>2, <2>4 DEF Long
  <2>7. QED
    BY <1>2, <2>1, <2>2, <2>4, <2>5, <2>6 DEF CodeBy
<1>3. QED
    BY <1>1, <1>2 DEF CodeBy

\* The slices of the first n bytes.
LEMMA SlicesAre ==
    ASSUME stream \in Seq(Byte), NEW n \in 0 .. Len(stream), NEW p
    PROVE  p \in Slices(n) <=>
               /\ p \in 1 .. Len(stream)
               /\ CodeBy(p, Len(stream)) /\ (p > 1 => ~CodeBy(p - 1, Len(stream)))
               /\ HeaderOf(p) <= n /\ IsVclByte(stream[HeaderOf(p)])
<1>1. ASSUME p \in 1 .. Len(stream)
      PROVE  /\ CodeAt(p) <=> CodeBy(p, Len(stream))
             /\ CodeAt(p - 1) <=> CodeBy(p - 1, Len(stream))
  <2>1. p \in Nat /\ p - 1 \in Nat
    BY <1>1
  <2>2. QED
    BY <2>1, CodeOfStream
<1>2. QED
    BY <1>1 DEF Slices, CodeBegins

\* No more bytes are needed to know a slice whose header is there: the start
\* code that might overlap it from the left ends with it.
LEMMA SliceShown ==
    ASSUME stream \in Seq(Byte), NEW n \in 0 .. Len(stream), NEW p \in 1 .. Len(stream)
    PROVE  p \in Slices(n) <=> SliceIn(p, 0, n)
<1>1. p \in Nat /\ p - 1 \in Nat /\ n \in Nat /\ Len(stream) \in Nat /\ n <= Len(stream)
    OBVIOUS
<1>2. HeaderOf(p) <= n => (CodeBy(p, Len(stream)) <=> CodeBy(p, n))
  <2>1. HeaderOf(p) <= n => HeaderOf(p) <= n + 1
    <3>1. HeaderOf(p) \in Nat
      BY DEF HeaderOf
    <3>2. QED
      BY <1>1, <3>1
  <2>2. QED
    BY <1>1, <2>1, CodeShown
<1>3. ASSUME HeaderOf(p) <= n, CodeBy(p, n)
      PROVE  CodeBy(p - 1, Len(stream)) => CodeBy(p - 1, n)
  <2>1. SUFFICES ASSUME CodeBy(p - 1, Len(stream)) PROVE HeaderOf(p - 1) <= n + 1
    BY <1>1, CodeShown
  <2>2. HeaderOf(p - 1) \in {p + 2, p + 3}
    BY DEF HeaderOf
  <2>3. HeaderOf(p) \in {p + 3, p + 4}
    BY DEF HeaderOf
  <2>4. QED
    BY <1>1, <1>3, <2>2, <2>3
<1>4. CodeBy(p - 1, n) => CodeBy(p - 1, Len(stream))
    BY <1>1, CodeShown
<1>5. QED
    BY <1>2, <1>3, <1>4, SlicesAre DEF SliceIn

\* What the scan takes for a slice among the bytes from off + 1 is one, or the
\* rest of one whose first zero is before them.
LEMMA SliceFound ==
    ASSUME stream \in Seq(Byte), NEW n \in 0 .. Len(stream), NEW off \in Nat,
           NEW p \in 1 .. Len(stream), p > off
    PROVE  /\ p \in Slices(n) => SliceIn(p, off, n)
           /\ SliceIn(p, off, n) /\ (off = 0 \/ p > off + 1) => p \in Slices(n)
           /\ SliceIn(p, off, n) => p \in Slices(n) \/ p - 1 \in Slices(n)
<1>1. p \in Nat /\ p - 1 \in Nat /\ n \in Nat
    OBVIOUS
<1>2. p \in Slices(n) => SliceIn(p, off, n)
    BY SliceShown DEF SliceIn
<1>3. SliceIn(p, off, n) /\ (off = 0 \/ p > off + 1) => p \in Slices(n)
    BY SliceShown DEF SliceIn
<1>4. ASSUME SliceIn(p, off, n), p \notin Slices(n)
      PROVE  p - 1 \in Slices(n)
  <2>1. p > 1 /\ CodeBy(p - 1, n) /\ CodeBy(p, n)
    BY <1>4, SliceShown DEF SliceIn
  <2>2. p < HeaderOf(p - 1)
    BY DEF HeaderOf
  <2>3. Short(p, n) /\ Long(p - 1, n)
    BY <1>1, <2>1, <2>2, CodesOverlap
  <2>4. HeaderOf(p - 1) = HeaderOf(p)
    BY <1>1, <2>3, HeaderIs
  <2>5. p - 1 > 1 => ~CodeBy(p - 2, n)
    <3>1. SUFFICES ASSUME p - 1 > 1, CodeBy(p - 2, n) PROVE FALSE
      OBVIOUS
    <3>2. p - 2 \in Nat
      BY <3>1
    <3>3. stream[p - 1] = 0 /\ stream[p] = 0 /\ stream[p + 1] = 0
      <4>1. p - 1 + 1 = p /\ p - 1 + 2 = p + 1
        OBVIOUS
      <4>2. QED
        BY <2>3, <4>1 DEF Long
    <3>4. p - 2 + 2 = p /\ p - 2 + 3 = p + 1
      OBVIOUS
    <3>5. QED
      BY <3>1, <3>3, <3>4 DEF CodeBy, Short, Long
  <2>6. SliceIn(p - 1, 0, n)
    <3>1. p - 1 - 1 = p - 2
      OBVIOUS
    <3>2. QED
      BY <1>4, <2>1, <2>4, <2>5, <3>1 DEF SliceIn
  <2>7. p - 1 \in 1 .. Len(stream)
    BY <2>1
  <2>8. QED
    BY <2>6, <2>7, SliceShown
<1>5. QED
    BY <1>2, <1>3, <1>4

\* A slice's start code ends before the next slice begins.
LEMMA SlicesApart ==
    ASSUME stream \in Seq(Byte), NEW p \in Slices(Len(stream)),
           NEW q \in Slices(Len(stream)), p < q
    PROVE  HeaderOf(p) <= q
<1>1. /\ p \in 1 .. Len(stream) /\ CodeBy(p, Len(stream))
      /\ q \in 1 .. Len(stream) /\ CodeBy(q, Len(stream))
      /\ q > 1 => ~CodeBy(q - 1, Len(stream))
  <2>1. Len(stream) \in 0 .. Len(stream)
    OBVIOUS
  <2>2. QED
    BY <2>1, SlicesAre
<1>2. SUFFICES ASSUME q < HeaderOf(p) PROVE FALSE
  <2>1. HeaderOf(p) \in Nat
    BY <1>1 DEF HeaderOf
  <2>2. QED
    BY <1>1, <2>1
<1>3. q = p + 1
    BY <1>1, <1>2, CodesOverlap
<1>4. QED
    BY <1>1, <1>3

\* The scan skips no slice when it goes on behind a start code, nor when it
\* goes on from a byte that begins none; and it comes out behind no code.
LEMMA ScanSkips ==
    ASSUME NEW p \in Nat, NEW off \in Nat, off < p, NEW n \in Nat, CodeBy(p, n)
    PROVE  /\ HeaderOf(p) \in {p + 3, p + 4} /\ HeaderOf(p) <= n + 1
           /\ ~CodeBy(HeaderOf(p) - 1, n)
           /\ \A q \in p + 1 .. HeaderOf(p) - 1 : ~SliceIn(q, off, n)
<1>1. HeaderOf(p) \in {p + 3, p + 4} /\ HeaderOf(p) <= n + 1
    BY HeaderIs DEF CodeBy
<1>2. ~CodeBy(HeaderOf(p) - 1, n)
  <2>1. /\ HeaderOf(p) - 1 \in Nat /\ p < HeaderOf(p) - 1 /\ HeaderOf(p) - 1 < HeaderOf(p)
        /\ HeaderOf(p) - 1 # p + 1
    BY <1>1
  <2>2. QED
    BY <2>1, CodesOverlap
<1>3. ASSUME NEW q \in p + 1 .. HeaderOf(p) - 1, SliceIn(q, off, n) PROVE FALSE
  <2>1. q \in Nat /\ p < q /\ q < HeaderOf(p) /\ q > off + 1
    BY <1>1
  <2>2. CodeBy(q, n) /\ ~CodeBy(q - 1, n)
    BY <1>3, <2>1 DEF SliceIn
  <2>3. q = p + 1
    BY <2>1, <2>2, CodesOverlap
  <2>4. QED
    BY <2>2, <2>3
<1>4. QED
    BY <1>1, <1>2, <1>3

\* A slice of the bytes received is one of the stream.
LEMMA SlicesOfMore ==
    ASSUME stream \in Seq(Byte), NEW n \in 0 .. Len(stream), NEW p \in Slices(n)
    PROVE  p \in Slices(Len(stream))
<1>1. p \in 1 .. Len(stream) /\ HeaderOf(p) <= n /\ Len(stream) \in Nat
    BY DEF Slices
<1>2. HeaderOf(p) \in Nat
    BY <1>1 DEF HeaderOf
<1>3. HeaderOf(p) <= Len(stream)
    BY <1>1, <1>2
<1>4. QED
    BY <1>3 DEF Slices
-----------------------------------------------------------------------------
(* What the scan sees of the stream.                                       *)

\* A byte of the buffer is one of the stream.
LEMMA BytesOfStream ==
    ASSUME BufferTyped, BufferOfStream
    PROVE  /\ Off \in Nat /\ sent \in Nat /\ au_len \in Nat /\ sent = Off + au_len
           /\ sent \in 0 .. Len(stream) /\ Len(stream) \in Nat /\ stream \in Seq(Byte)
           /\ \A k \in 0 .. au_len - 1 : BufByte(k) = stream[Off + k + 1]
<1>1. Off \in Nat /\ sent \in Nat /\ au_len \in Nat /\ sent = Off + au_len
    BY BufferIs DEF BufferOfStream, Off
<1>2. sent \in 0 .. Len(stream) /\ Len(stream) \in Nat /\ stream \in Seq(Byte)
    BY DEF BufferTyped
<1>3. ASSUME NEW k \in 0 .. au_len - 1 PROVE BufByte(k) = stream[Off + k + 1]
  <2>1. k + 1 \in 1 .. au_len /\ Off + (k + 1) = Off + k + 1
    BY <1>1
  <2>2. au_buf[k + 1] = <<Off + (k + 1), stream[Off + (k + 1)]>>
    BY <2>1 DEF BufferOfStream
  <2>3. QED
    BY <2>1, <2>2 DEF BufByte
<1>4. QED
    BY <1>1, <1>2, <1>3

\* What the scan finds in the buffer the bytes received show in the stream.
LEMMA CodesOfStream ==
    ASSUME BufferTyped, BufferOfStream, NEW k \in 0 .. au_len - 1
    PROVE  LET p == Off + k + 1
           IN  /\ IsStartCode(k) <=> CodeBy(p, sent)
               /\ IsStartCode(k) => Off + NalHdr(k) + 1 = HeaderOf(p)
               /\ IsStartCode(k) =>
                     (StartsSlice(k) <=> HeaderOf(p) <= sent /\ IsVclByte(stream[HeaderOf(p)]))
<1> DEFINE p == Off + k + 1
<1>1. /\ Off \in Nat /\ au_len \in Nat /\ sent = Off + au_len /\ k \in Nat
      /\ \A l \in 0 .. au_len - 1 : BufByte(l) = stream[Off + l + 1]
    BY BytesOfStream
<1>2. \A l \in 0 .. 3 : k + l < au_len => BufByte(k + l) = stream[p + l]
  <2>1. ASSUME NEW l \in 0 .. 3, k + l < au_len PROVE BufByte(k + l) = stream[p + l]
    <3>1. k + l \in 0 .. au_len - 1 /\ Off + (k + l) + 1 = p + l
      BY <1>1, <2>1
    <3>2. QED
      BY <1>1, <3>1
  <2>2. QED
    BY <2>1
<1>3. /\ k + 0 = k /\ p + 0 = p
      /\ p + 2 <= sent <=> k + 2 < au_len
      /\ p + 3 <= sent <=> k + 3 < au_len
      /\ k + 2 < au_len => k < au_len /\ k + 1 < au_len
      /\ k + 3 < au_len => k + 2 < au_len
    BY <1>1
<1>4. IsStartCode(k) <=>
          \/ k + 3 <= au_len /\ BufByte(k + 2) = 1 /\ BufByte(k) = 0 /\ BufByte(k + 1) = 0
          \/ /\ k + 4 <= au_len /\ BufByte(k + 3) = 1 /\ BufByte(k) = 0
             /\ BufByte(k + 1) = 0 /\ BufByte(k + 2) = 0
  <2>1. k .. k + 3 - 2 = {k, k + 1} /\ k + 3 - 1 = k + 2
    BY <1>1
  <2>2. k .. k + 4 - 2 = {k, k + 1, k + 2} /\ k + 4 - 1 = k + 3
    BY <1>1
  <2>3. (\A z \in k .. k + 3 - 2 : BufByte(z) = 0) <=> BufByte(k) = 0 /\ BufByte(k + 1) = 0
    BY <2>1
  <2>4. (\A z \in k .. k + 4 - 2 : BufByte(z) = 0)
           <=> BufByte(k) = 0 /\ BufByte(k + 1) = 0 /\ BufByte(k + 2) = 0
    BY <2>2
  <2>5. QED
    BY <2>1, <2>2, <2>3, <2>4 DEF IsStartCode
<1>5. k + 3 <= au_len <=> k + 2 < au_len
    BY <1>1
<1>6. k + 4 <= au_len <=> k + 3 < au_len
    BY <1>1
<1>7. k + 2 < au_len => /\ BufByte(k) = stream[p] /\ BufByte(k + 1) = stream[p + 1]
                        /\ BufByte(k + 2) = stream[p + 2]
    BY <1>2, <1>3
<1>8. k + 3 < au_len => BufByte(k + 3) = stream[p + 3]
    BY <1>2
<1> HIDE DEF p
<1>9. IsStartCode(k) <=> CodeBy(p, sent)
    BY <1>3, <1>4, <1>5, <1>6, <1>7, <1>8 DEF CodeBy, Short, Long
<1>10. ASSUME IsStartCode(k) PROVE Off + NalHdr(k) + 1 = HeaderOf(p)
  <2>1. BufByte(k + 2) = stream[p + 2]
    BY <1>3, <1>4, <1>5, <1>6, <1>7, <1>10
  <2>2. Off + (k + 3) + 1 = p + 3 /\ Off + (k + 4) + 1 = p + 4
    BY <1>1 DEF p
  <2>3. QED
    BY <2>1, <2>2 DEF NalHdr, HeaderOf
<1>11. ASSUME IsStartCode(k)
       PROVE  StartsSlice(k) <=> HeaderOf(p) <= sent /\ IsVclByte(stream[HeaderOf(p)])
  <2>1. NalHdr(k) \in Nat
    BY <1>1 DEF NalHdr
  <2>2. NalHdr(k) < au_len <=> HeaderOf(p) <= sent
    BY <1>1, <1>10, <1>11, <2>1
  <2>3. NalHdr(k) < au_len => BufByte(NalHdr(k)) = stream[HeaderOf(p)]
    BY <1>1, <1>10, <1>11, <2>1
  <2>4. QED
    BY <2>2, <2>3 DEF StartsSlice
<1>12. QED
    BY <1>9, <1>10, <1>11 DEF p

\* The unit cut off, as positions of the stream.
LEMMA UnitOfStream ==
    ASSUME BufferTyped, BufferOfStream, NEW to \in 0 .. au_len, NEW from \in 0 .. to
    PROVE  Unit(from, to) = [k \in 1 .. to - from |-> Off + from + k]
<1>1. /\ au_buf \in Seq(Nat \X Byte) /\ au_len = Len(au_buf) /\ au_len \in Nat
      /\ Off \in Nat
    BY BufferIs, BytesOfStream
<1> DEFINE c == SubSeq(au_buf, from + 1, to)
<1>2. /\ DOMAIN c = 1 .. to - from /\ to - from \in Nat
      /\ \A k \in 1 .. to - from : c[k] = au_buf[from + k] /\ from + k \in 1 .. au_len
    BY <1>1, SubSeqIs
<1>3. \A k \in 1 .. to - from : c[k][1] = Off + from + k
  <2>1. ASSUME NEW k \in 1 .. to - from PROVE c[k][1] = Off + from + k
    <3>1. c[k] = <<Off + (from + k), stream[Off + (from + k)]>>
      BY <1>2 DEF BufferOfStream
    <3>2. Off + (from + k) = Off + from + k
      BY <1>1
    <3>3. QED
      BY <3>1, <3>2
  <2>2. QED
    BY <2>1
<1>4. Unit(from, to) = [k \in 1 .. to - from |-> c[k][1]]
    BY <1>2 DEF Unit, Positions
<1> HIDE DEF c
<1>5. QED
    BY <1>3, <1>4

\* A message without timestamp is the next piece of the stream.
LEMMA PlainPayload ==
    ASSUME BufferTyped, Stamps \subseteq {<<>>}, NEW stamp \in Stamps, NEW n \in ChunkLens
    PROVE  /\ Payload(stamp, n) = [k \in 1 .. n |-> <<sent + k, stream[sent + k]>>]
           /\ n \in Nat /\ Len(Payload(stamp, n)) = n
<1>1. n \in Nat /\ sent \in Nat
    BY BufferIs, LengthsAssumption
<1> DEFINE c == [k \in 1 .. n |-> <<sent + k, stream[sent + k]>>]
<1>2. Cells(sent + 1, sent + n) = c
    BY <1>1, CellsIs
<1>3. stamp = <<>> /\ Timestamp(stamp) = <<>>
  <2>1. stamp = <<>>
    OBVIOUS
  <2>2. DOMAIN stamp = {}
    BY <2>1
  <2>3. Timestamp(stamp) = [k \in {} |-> <<0, stamp[k]>>]
    BY <2>2 DEF Timestamp
  <2>4. QED
    BY <2>1, <2>3
<1>4. PICK S : S = {<<sent + k, stream[sent + k]>> : k \in 1 .. n}
    OBVIOUS
<1>5. c \in Seq(S) /\ Len(c) = n
    BY <1>1, <1>4
<1>6. Payload(stamp, n) = <<>> \o c
    BY <1>2, <1>3 DEF Payload
<1> HIDE DEF c
<1>7. <<>> \o c = c
    BY <1>5
<1>8. QED
    BY <1>1, <1>5, <1>6, <1>7 DEF c
-----------------------------------------------------------------------------
(* The steps of handle_video.                                              *)

\* What remains true of the units fed when more of the stream is received.
LEMMA UnitsStay ==
    ASSUME IInv, UnitsCut, sent' \in sent .. Len(stream), UNCHANGED <<stream, queued>>
    PROVE  UnitsCut'
<1>1. ASSUME NEW p \in Slices(sent) PROVE p \in Slices(sent')
  <2>1. sent \in Nat /\ sent' \in Nat /\ sent <= sent' /\ Len(stream) \in Nat
    BY BufferIs DEF IInv, BufferTyped
  <2>2. p \in 1 .. Len(stream) /\ HeaderOf(p) <= sent
    BY DEF Slices
  <2>3. HeaderOf(p) \in Nat
    BY <2>1, <2>2 DEF HeaderOf
  <2>4. HeaderOf(p) <= sent'
    BY <2>1, <2>2, <2>3
  <2>5. QED
    BY <2>2, <2>4 DEF Slices
<1>2. ASSUME NEW u, NEW a, NEW b, UnitOf(u, a, b) PROVE UnitOf(u, a, b)'
  <2>1. Slices(sent)' = Slices(sent') /\ Slices(Len(stream))' = Slices(Len(stream))
    BY DEF Slices, CodeBegins, CodeAt, HeaderOf
  <2>2. QED
    BY <1>1, <1>2, <2>1 DEF UnitOf
<1>3. QED
    BY <1>2 DEF UnitsCut

\* A message thrown away with the buffer.
LEMMA DropAllCuts ==
    ASSUME IInv, CutInv, Stamps \subseteq {<<>>}, NEW stamp \in Stamps, NEW n \in ChunkLens,
           DropAll(stamp, n)
    PROVE  CutInv'
<1>1. /\ pc' = "idle" /\ sent' = sent + n /\ sent + n <= Len(stream) /\ au_buf' = <<>>
      /\ UNCHANGED <<stream, queued>>
    BY DEF DropAll, ClearBuffer, scan
<1>2. n \in Nat /\ sent \in Nat /\ Len(stream) \in Nat
    BY BufferIs, LengthsAssumption DEF IInv, BufferTyped
<1>3. au_len' = 0 /\ Off' = sent + n
    BY <1>1, <1>2 DEF Off, au_len
<1>4. BufferOfStream'
    BY <1>2, <1>3 DEF BufferOfStream
<1>5. ScanFinds'
    BY <1>1 DEF ScanFinds
<1>6. TailHasOne'
  <2>1. Off' + 1 .. sent' = {}
    BY <1>1, <1>2, <1>3
  <2>2. QED
    BY <2>1 DEF TailHasOne, OneSlice
<1>7. UnitsCut'
    BY <1>1, <1>2, UnitsStay DEF CutInv
<1>8. QED
    BY <1>4, <1>5, <1>6, <1>7 DEF CutInv

\* A message appended.
LEMMA AppendChunkCuts ==
    ASSUME IInv, CutInv, Stamps \subseteq {<<>>}, NEW stamp \in Stamps, NEW n \in ChunkLens,
           AppendChunk(stamp, n)
    PROVE  CutInv'
<1>1. /\ pc' = "scan" /\ sent' = sent + n /\ sent + n <= Len(stream)
      /\ au_buf' = au_buf \o Payload(stamp, n)
      /\ i' = 0 /\ au_start' = 0 /\ cur_has_vcl' = FALSE
      /\ UNCHANGED <<stream, queued>>
    BY DEF AppendChunk
<1>2. /\ BufferTyped /\ BufferOfStream /\ au_buf \in Seq(Nat \X Byte) /\ au_len = Len(au_buf)
      /\ au_len \in Nat /\ sent \in Nat /\ Off \in Nat /\ sent = Off + au_len
      /\ Len(stream) \in Nat
    BY BufferIs, BytesOfStream DEF IInv, CutInv
<1> DEFINE p == Payload(stamp, n)
<1>3. p = [k \in 1 .. n |-> <<sent + k, stream[sent + k]>>] /\ n \in Nat /\ Len(p) = n
    BY <1>2, PlainPayload
<1>4. p \in Seq(Nat \X Byte)
    BY <1>1, <1>2, PayloadIs
<1>5. /\ Len(au_buf') = au_len + n
      /\ \A k \in 1 .. au_len : au_buf'[k] = au_buf[k]
      /\ \A k \in 1 .. n : au_buf'[au_len + k] = p[k]
  <2> HIDE DEF p
  <2>1. au_buf' = au_buf \o p
    BY <1>1 DEF p
  <2>2. PICK S : S = Nat \X Byte
    OBVIOUS
  <2>3. au_buf \in Seq(S) /\ p \in Seq(S)
    BY <1>2, <1>4, <2>2
  <2>4. /\ Len(au_buf \o p) = Len(au_buf) + Len(p)
        /\ \A k \in 1 .. Len(au_buf) : (au_buf \o p)[k] = au_buf[k]
        /\ \A k \in 1 .. Len(p) : (au_buf \o p)[Len(au_buf) + k] = p[k]
    BY <2>3, ConcatIs
  <2>5. QED
    BY <1>2, <1>3, <2>1, <2>4
<1>6. au_len' = au_len + n /\ Off' = Off
    BY <1>1, <1>2, <1>3, <1>5 DEF au_len, Off
<1>7. \A k \in 1 .. au_len + n : au_buf'[k] = <<Off + k, stream[Off + k]>>
  <2>1. ASSUME NEW k \in 1 .. au_len + n PROVE au_buf'[k] = <<Off + k, stream[Off + k]>>
    <3>1. CASE k \in 1 .. au_len
      BY <1>2, <1>5, <3>1 DEF BufferOfStream
    <3>2. CASE k \notin 1 .. au_len
      <4>1. k - au_len \in 1 .. n /\ au_len + (k - au_len) = k /\ sent + (k - au_len) = Off + k
        BY <1>2, <1>3, <3>2
      <4>2. au_buf'[k] = p[k - au_len]
        BY <1>5, <4>1
      <4>3. QED
        BY <1>3, <4>1, <4>2
    <3>3. QED
      BY <3>1, <3>2
  <2>2. QED
    BY <2>1
<1>8. BufferOfStream'
    BY <1>1, <1>2, <1>6, <1>7 DEF BufferOfStream
<1>9. ScanFinds'
  <2>1. StartAt' = Off + 1 /\ ScanAt' - 1 = Off
    BY <1>1, <1>2, <1>6 DEF StartAt, ScanAt
  <2>2. StartAt' .. ScanAt' - 1 = {}
    BY <1>2, <2>1
  <2>3. ~(i' > 0) /\ ~(au_start' > 0)
    BY <1>1
  <2>4. QED
    BY <1>1, <2>2, <2>3 DEF ScanFinds, OneSlice
<1>10. TailHasOne'
    BY <1>1 DEF TailHasOne
<1>11. UnitsCut'
  <2>1. sent' \in sent .. Len(stream)
    BY <1>1, <1>2, <1>3
  <2>2. QED
    BY <1>1, <2>1, UnitsStay DEF CutInv
<1>12. QED
    BY <1>8, <1>9, <1>10, <1>11 DEF CutInv

\* The end of the scan: a start code at au_start began a slice before the
\* bytes on its left were moved out.
LEMMA KeepTailCuts ==
    ASSUME IInv, CutInv, KeepTail
    PROVE  CutInv'
<1>1. /\ pc = "scan" /\ pc' = "idle" /\ i >= au_len
      /\ au_buf' = SubSeq(au_buf, au_start + 1, au_len)
      /\ UNCHANGED <<stream, sent, queued>>
    BY DEF KeepTail, MoveDown
<1>2. /\ BufferTyped /\ BufferOfStream /\ au_buf \in Seq(Nat \X Byte) /\ au_len = Len(au_buf)
      /\ au_len \in Nat /\ sent \in Nat /\ Off \in Nat /\ sent = Off + au_len
      /\ Len(stream) \in Nat
    BY BufferIs, BytesOfStream DEF IInv, CutInv
<1>3. au_start \in 0 .. au_len /\ i = au_len
    BY <1>1, <1>2 DEF IInv, ScanTyped
<1>4. /\ Len(au_buf') = au_len - au_start
      /\ \A k \in 1 .. au_len - au_start : /\ au_buf'[k] = au_buf[au_start + k]
                                           /\ au_start + k \in 1 .. au_len
    BY <1>1, <1>2, <1>3, SubSeqIs
<1>5. au_len' = au_len - au_start /\ Off' = Off + au_start
  <2>1. au_len' = au_len - au_start
    BY <1>4 DEF au_len
  <2>2. Off' = sent - (au_len - au_start)
    BY <1>1, <2>1 DEF Off
  <2>3. QED
    BY <1>2, <1>3, <2>1, <2>2
<1>6. BufferOfStream'
  <2>1. ASSUME NEW k \in 1 .. au_len - au_start
        PROVE  au_buf'[k] = <<Off' + k, stream'[Off' + k]>>
    <3>1. au_buf'[k] = <<Off + (au_start + k), stream[Off + (au_start + k)]>>
      BY <1>2, <1>4 DEF BufferOfStream
    <3>2. Off + (au_start + k) = Off' + k
      BY <1>2, <1>3, <1>5
    <3>3. QED
      BY <1>1, <3>1, <3>2
  <2>2. Off' \in Nat
    BY <1>2, <1>3, <1>5
  <2>3. QED
    BY <1>5, <2>1, <2>2 DEF BufferOfStream
<1>7. TailHasOne'
  <2>1. /\ OneSlice(StartAt, ScanAt - 1, Off, sent)
        /\ au_start > 0 => SliceIn(StartAt, Off, sent)
    BY <1>1 DEF CutInv, ScanFinds
  <2>2. StartAt = Off' + 1 /\ ScanAt - 1 = sent
    BY <1>2, <1>3, <1>5 DEF StartAt, ScanAt
  <2>3. ASSUME NEW p \in Off' + 1 .. sent, SliceIn(p, Off', sent)
        PROVE  SliceIn(p, Off, sent)
    <3>1. CASE au_start = 0
      BY <1>2, <1>5, <2>3, <3>1
    <3>2. CASE au_start > 0 /\ p = Off' + 1
      BY <2>1, <2>2, <3>2
    <3>3. CASE p > Off' + 1
      BY <2>3, <3>3 DEF SliceIn
    <3>4. QED
      BY <1>2, <1>3, <1>5, <3>1, <3>2, <3>3
  <2>4. OneSlice(Off' + 1, sent, Off', sent)
    BY <2>1, <2>2, <2>3 DEF OneSlice
  <2>5. QED
    BY <1>1, <2>4 DEF TailHasOne, OneSlice, SliceIn, CodeBy, Short, Long, HeaderOf
<1>8. ScanFinds'
    BY <1>1 DEF ScanFinds
<1>9. UnitsCut'
  <2>1. sent' \in sent .. Len(stream)
    BY <1>1, <1>2 DEF BufferTyped
  <2>2. QED
    BY <1>1, <2>1, UnitsStay DEF CutInv
<1>10. QED
    BY <1>6, <1>7, <1>8, <1>9 DEF CutInv

\* Any other byte.
LEMMA ScanByteCuts ==
    ASSUME IInv, CutInv, ScanByte
    PROVE  CutInv'
<1>1. /\ pc = "scan" /\ i < au_len /\ ~IsStartCode(i) /\ i' = i + 1
      /\ UNCHANGED <<stream, sent, au_buf, au_start, cur_has_vcl, pc, queued>>
    BY DEF ScanByte
<1>2. /\ BufferTyped /\ BufferOfStream /\ au_len \in Nat /\ Off \in Nat /\ i \in Nat
      /\ au_start \in 0 .. i
    BY BytesOfStream DEF IInv, CutInv, ScanTyped
<1>3. ~CodeBy(ScanAt, sent)
  <2>1. i \in 0 .. au_len - 1
    BY <1>1, <1>2
  <2>2. QED
    BY <1>1, <1>2, <2>1, CodesOfStream DEF ScanAt
<1>4. Off' = Off /\ StartAt' = StartAt /\ ScanAt' = ScanAt + 1
    BY <1>1, <1>2 DEF Off, au_len, StartAt, ScanAt
<1>5. ScanAt \in Nat /\ StartAt \in Nat /\ StartAt <= ScanAt
    BY <1>2 DEF ScanAt, StartAt
<1>6. ~SliceIn(ScanAt, Off, sent)
    BY <1>3 DEF SliceIn
<1>7. \A p \in StartAt .. ScanAt' - 1 :
          p \in StartAt .. ScanAt - 1 \/ ~SliceIn(p, Off, sent)
  <2>1. \A p \in StartAt .. ScanAt' - 1 : p \in StartAt .. ScanAt - 1 \/ p = ScanAt
    BY <1>4, <1>5
  <2>2. QED
    BY <1>6, <2>1
<1>8. StartAt .. ScanAt - 1 \subseteq StartAt .. ScanAt' - 1
    BY <1>4, <1>5
<1>9. /\ cur_has_vcl <=> \E p \in StartAt .. ScanAt' - 1 : SliceIn(p, Off, sent)
      /\ OneSlice(StartAt, ScanAt' - 1, Off, sent)
      /\ au_start > 0 => SliceIn(StartAt, Off, sent)
    BY <1>1, <1>7, <1>8 DEF CutInv, ScanFinds, OneSlice
<1>10. ScanAt' - 1 = ScanAt
    BY <1>4, <1>5
<1>11. ScanFinds'
    BY <1>1, <1>3, <1>4, <1>9, <1>10
       DEF ScanFinds, OneSlice, SliceIn, CodeBy, Short, Long, HeaderOf
<1>12. BufferOfStream' /\ TailHasOne'
    BY <1>1, <1>4 DEF CutInv, BufferOfStream, TailHasOne, au_len
<1>13. UnitsCut'
  <2>1. sent' \in sent .. Len(stream)
    BY <1>1 DEF IInv, BufferTyped
  <2>2. QED
    BY <1>1, <2>1, UnitsStay DEF CutInv
<1>14. QED
    BY <1>11, <1>12, <1>13 DEF CutInv
\* The unit that a slice at i completes.
LEMMA CutIsUnit ==
    ASSUME IInv, CutInv, pc = "scan", i < au_len, IsStartCode(i), StartsSlice(i), cur_has_vcl
    PROVE  /\ StartAt \in 1 .. Len(stream) /\ ScanAt \in 1 .. Len(stream)
           /\ UnitOf(Unit(au_start, i), StartAt, ScanAt)
<1>1. /\ BufferTyped /\ BufferOfStream /\ au_len \in Nat /\ Off \in Nat /\ i \in Nat
      /\ au_start \in 0 .. i /\ sent = Off + au_len /\ sent \in 0 .. Len(stream)
      /\ Len(stream) \in Nat /\ stream \in Seq(Byte) /\ sent \in Nat
    BY BytesOfStream DEF IInv, CutInv, ScanTyped
<1>2. /\ i > 0 => ~CodeBy(ScanAt - 1, sent)
      /\ \E p \in StartAt .. ScanAt - 1 : SliceIn(p, Off, sent)
      /\ OneSlice(StartAt, ScanAt - 1, Off, sent)
    BY DEF CutInv, ScanFinds
<1>3. /\ CodeBy(ScanAt, sent) /\ HeaderOf(ScanAt) <= sent
      /\ IsVclByte(stream[HeaderOf(ScanAt)])
  <2>1. i \in 0 .. au_len - 1
    BY <1>1
  <2>2. QED
    BY <1>1, <2>1, CodesOfStream DEF ScanAt
<1>4. /\ ScanAt = Off + i + 1 /\ StartAt = Off + au_start + 1
      /\ ScanAt \in Nat /\ StartAt \in Nat /\ 0 < StartAt /\ Off < StartAt
    BY <1>1 DEF ScanAt, StartAt
<1>5. PICK v \in StartAt .. ScanAt - 1 : SliceIn(v, Off, sent)
    BY <1>2
<1>6. StartAt < ScanAt /\ i > 0 /\ v \in Nat /\ v < ScanAt /\ Off < v
  <2>1. v \in Nat /\ StartAt <= v /\ v <= ScanAt - 1
    BY <1>4
  <2>2. QED
    BY <1>1, <1>4, <2>1
<1>7. ScanAt \in 1 .. Len(stream) /\ StartAt \in 1 .. Len(stream) /\ v \in 1 .. Len(stream)
    BY <1>1, <1>4, <1>6
<1>8. ScanAt \in Slices(sent)
  <2>1. ScanAt > Off + 1
    BY <1>1, <1>4, <1>6
  <2>2. SliceIn(ScanAt, Off, sent)
    BY <1>2, <1>3, <1>6 DEF SliceIn
  <2>3. QED
    BY <1>1, <1>4, <1>7, <2>1, <2>2, SliceFound
<1>9. \E p \in Slices(Len(stream)) : p < ScanAt
  <2>1. v \in Slices(sent) \/ v - 1 \in Slices(sent)
    BY <1>1, <1>5, <1>6, <1>7, SliceFound
  <2>2. v - 1 < ScanAt
    BY <1>4, <1>6
  <2>3. QED
    BY <1>1, <1>6, <2>1, <2>2, SlicesOfMore
<1>10. ASSUME NEW p \in Slices(Len(stream)), NEW q \in Slices(Len(stream)),
              StartAt <= p, p < q
       PROVE  ScanAt <= q
  <2>1. p \in 1 .. Len(stream) /\ q \in 1 .. Len(stream)
    BY DEF Slices
  <2>2. SUFFICES ASSUME q < ScanAt PROVE FALSE
    BY <1>4, <2>1
  <2>3. ScanAt \in Slices(Len(stream))
    BY <1>1, <1>8, SlicesOfMore
  <2>4. HeaderOf(p) <= ScanAt /\ HeaderOf(q) <= ScanAt
    <3>1. p < ScanAt
      BY <1>4, <1>10, <2>1, <2>2
    <3>2. QED
      BY <1>1, <2>2, <2>3, <3>1, SlicesApart
  <2>5. ScanAt <= sent
    BY <1>1, <1>4
  <2>6. p \in Slices(sent) /\ q \in Slices(sent)
    <3>1. HeaderOf(p) \in Nat /\ HeaderOf(q) \in Nat
      BY <2>1 DEF HeaderOf
    <3>2. HeaderOf(p) <= sent /\ HeaderOf(q) <= sent
      BY <1>1, <1>4, <2>4, <2>5, <3>1
    <3>3. QED
      BY <3>2 DEF Slices
  <2>7. p > Off /\ q > Off
    BY <1>1, <1>4, <1>10, <2>1
  <2>8. SliceIn(p, Off, sent) /\ SliceIn(q, Off, sent)
    BY <1>1, <2>1, <2>6, <2>7, SliceFound
  <2>9. p \in StartAt .. ScanAt - 1 /\ q \in StartAt .. ScanAt - 1
    BY <1>4, <1>10, <2>1, <2>2
  <2>10. p = q
    BY <1>2, <2>8, <2>9 DEF OneSlice
  <2>11. QED
    BY <1>10, <2>1, <2>10
<1>11. Unit(au_start, i) = [k \in 1 .. ScanAt - StartAt |-> StartAt + k - 1]
  <2>1. i \in 0 .. au_len
    BY <1>1
  <2>2. Unit(au_start, i) = [k \in 1 .. i - au_start |-> Off + au_start + k]
    BY <1>1, <2>1, UnitOfStream
  <2>3. ScanAt - StartAt = i - au_start
    BY <1>1, <1>4
  <2>4. \A k \in 1 .. i - au_start : StartAt + k - 1 = Off + au_start + k
    BY <1>1, <1>4
  <2>5. QED
    BY <2>2, <2>3, <2>4
<1>12. QED
    BY <1>4, <1>6, <1>7, <1>8, <1>9, <1>10, <1>11 DEF UnitOf

\* A start code, with or without a cut before it.
LEMMA ScanStartCodeCuts ==
    ASSUME IInv, CutInv, ScanStartCode
    PROVE  CutInv'
<1>1. /\ pc = "scan" /\ i < au_len /\ IsStartCode(i) /\ i' = NalHdr(i)
      /\ cur_has_vcl' = (StartsSlice(i) \/ cur_has_vcl)
      /\ UNCHANGED <<stream, sent, au_buf, pc>>
    BY DEF ScanStartCode
<1>2. /\ BufferTyped /\ BufferOfStream /\ au_len \in Nat /\ Off \in Nat /\ i \in Nat
      /\ au_start \in 0 .. i /\ sent = Off + au_len /\ sent \in Nat
    BY BytesOfStream DEF IInv, CutInv, ScanTyped
<1>3. /\ i > 0 => ~CodeBy(ScanAt - 1, sent)
      /\ cur_has_vcl <=> \E p \in StartAt .. ScanAt - 1 : SliceIn(p, Off, sent)
      /\ OneSlice(StartAt, ScanAt - 1, Off, sent)
      /\ au_start > 0 => SliceIn(StartAt, Off, sent)
    BY <1>1 DEF CutInv, ScanFinds
<1>4. /\ CodeBy(ScanAt, sent) /\ Off + NalHdr(i) + 1 = HeaderOf(ScanAt)
      /\ StartsSlice(i)
            <=> HeaderOf(ScanAt) <= sent /\ IsVclByte(stream[HeaderOf(ScanAt)])
  <2>1. i \in 0 .. au_len - 1
    BY <1>1, <1>2
  <2>2. QED
    BY <1>1, <1>2, <2>1, CodesOfStream DEF ScanAt
<1>5. /\ Off' = Off /\ ScanAt' = HeaderOf(ScanAt) /\ ScanAt = Off + i + 1
      /\ ScanAt \in Nat /\ Off < ScanAt /\ StartAt \in Nat /\ StartAt <= ScanAt
    BY <1>1, <1>2, <1>4 DEF Off, au_len, ScanAt, StartAt
<1>6. /\ HeaderOf(ScanAt) \in {ScanAt + 3, ScanAt + 4}
      /\ ~CodeBy(HeaderOf(ScanAt) - 1, sent)
      /\ \A q \in ScanAt + 1 .. HeaderOf(ScanAt) - 1 : ~SliceIn(q, Off, sent)
    BY <1>2, <1>4, <1>5, ScanSkips
<1>7. StartsSlice(i) <=> SliceIn(ScanAt, Off, sent)
  <2>1. ScanAt > Off + 1 => i > 0
    BY <1>2, <1>5
  <2>2. QED
    BY <1>3, <1>4, <2>1 DEF SliceIn
<1>8. \A p \in StartAt .. ScanAt' - 1 :
          p \in StartAt .. ScanAt - 1 \/ p = ScanAt \/ ~SliceIn(p, Off, sent)
  <2>1. \A p \in StartAt .. ScanAt' - 1 :
            \/ p \in StartAt .. ScanAt - 1 \/ p = ScanAt
            \/ p \in ScanAt + 1 .. HeaderOf(ScanAt) - 1
    BY <1>5, <1>6
  <2>2. QED
    BY <1>6, <2>1
<1>9. /\ StartAt .. ScanAt - 1 \subseteq StartAt .. ScanAt' - 1
      /\ ScanAt \in StartAt .. ScanAt' - 1 /\ ScanAt \notin StartAt .. ScanAt - 1
      /\ ScanAt .. ScanAt' - 1 \subseteq StartAt .. ScanAt' - 1
      /\ ScanAt \in ScanAt .. ScanAt' - 1
      /\ (StartAt .. ScanAt - 1) \cap (ScanAt .. ScanAt' - 1) = {}
    BY <1>5, <1>6
<1>10. BufferOfStream' /\ TailHasOne'
    BY <1>1, <1>5 DEF CutInv, BufferOfStream, TailHasOne, au_len
<1>11. ASSUME NEW from, StartAt' = from,
              /\ cur_has_vcl' <=> \E p \in from .. ScanAt' - 1 : SliceIn(p, Off, sent)
              /\ OneSlice(from, ScanAt' - 1, Off, sent)
              /\ au_start' > 0 => SliceIn(from, Off, sent)
       PROVE  ScanFinds'
    BY <1>1, <1>5, <1>6, <1>11
       DEF ScanFinds, OneSlice, SliceIn, CodeBy, Short, Long, HeaderOf
<1>12. CASE StartsSlice(i) /\ cur_has_vcl
  <2>1. au_start' = i /\ FeedDecoder(Unit(au_start, i))
    BY <1>12 DEF ScanStartCode
  <2>2. StartAt' = ScanAt
    BY <1>5, <2>1 DEF StartAt
  <2>3. \A p \in ScanAt .. ScanAt' - 1 : SliceIn(p, Off, sent) => p = ScanAt
    BY <1>8, <1>9
  <2>4. ScanFinds'
    BY <1>1, <1>7, <1>9, <1>11, <1>12, <2>2, <2>3 DEF OneSlice
  <2>5. /\ StartAt \in 1 .. Len(stream) /\ ScanAt \in 1 .. Len(stream)
        /\ UnitOf(Unit(au_start, i), StartAt, ScanAt)
    BY <1>1, <1>12, CutIsUnit
  <2>6. UnitsCut'
    <3> DEFINE unit == Unit(au_start, i)
    <3>1. queued' = queued \/ queued' = Append(queued, unit)
      BY <2>1 DEF FeedDecoder
    <3>2. queued \in Seq(Seq(Nat)) /\ UnitsCut /\ UnitOf(unit, StartAt, ScanAt)
      BY <2>5 DEF IInv, OutputTyped, CutInv
    <3> HIDE DEF unit
    <3>3. \A u \in DOMAIN queued' :
              queued'[u] = unit \/ (u \in DOMAIN queued /\ queued'[u] = queued[u])
      <4>1. PICK S : S = Seq(Nat)
        OBVIOUS
      <4>2. queued \in Seq(S)
        BY <3>2, <4>1
      <4>3. QED
        BY <3>1, <4>2
    <3>4. \A u \in DOMAIN queued' : \E a, b \in 1 .. Len(stream) : UnitOf(queued'[u], a, b)
      BY <2>5, <3>2, <3>3 DEF UnitsCut
    <3>5. Slices(sent)' = Slices(sent) /\ Slices(Len(stream))' = Slices(Len(stream))
      BY <1>1 DEF Slices, CodeBegins, CodeAt, HeaderOf
    <3>6. QED
      BY <1>1, <3>4, <3>5 DEF UnitsCut, UnitOf
  <2>7. QED
    BY <1>10, <2>4, <2>6 DEF CutInv
<1>13. CASE ~(StartsSlice(i) /\ cur_has_vcl)
  <2>1. UNCHANGED <<queued, au_start>>
    BY <1>13 DEF ScanStartCode
  <2>2. StartAt' = StartAt
    BY <1>5, <2>1 DEF StartAt
  <2>3. /\ cur_has_vcl' <=> \E p \in StartAt .. ScanAt' - 1 : SliceIn(p, Off, sent)
        /\ OneSlice(StartAt, ScanAt' - 1, Off, sent)
    <3>1. CASE StartsSlice(i)
      <4>1. \A p \in StartAt .. ScanAt' - 1 : SliceIn(p, Off, sent) => p = ScanAt
        BY <1>3, <1>8, <1>13, <3>1
      <4>2. QED
        BY <1>1, <1>7, <1>9, <3>1, <4>1 DEF OneSlice
    <3>2. CASE ~StartsSlice(i)
      <4>1. \A p \in StartAt .. ScanAt' - 1 :
                SliceIn(p, Off, sent) => p \in StartAt .. ScanAt - 1
        BY <1>7, <1>8, <3>2
      <4>2. QED
        BY <1>1, <1>3, <1>9, <3>2, <4>1 DEF OneSlice
    <3>3. QED
      BY <3>1, <3>2
  <2>4. ScanFinds'
    BY <1>3, <1>11, <2>1, <2>2, <2>3
  <2>5. UnitsCut'
    <3>1. sent' \in sent .. Len(stream)
      BY <1>1 DEF IInv, BufferTyped
    <3>2. QED
      BY <1>1, <2>1, <3>1, UnitsStay DEF CutInv
  <2>6. QED
    BY <1>10, <2>4, <2>5 DEF CutInv
<1>14. QED
    BY <1>12, <1>13
\* At the beginning there is neither a buffer nor a unit.
LEMMA InitCuts == Init => CutInv
<1> SUFFICES ASSUME Init PROVE CutInv
    OBVIOUS
<1>1. au_len = 0 /\ Off = 0 /\ queued = <<>> /\ pc = "idle" /\ sent = 0
  <2>1. au_buf = <<>> /\ queued = <<>> /\ pc = "idle" /\ sent = 0
    BY DEF Init
  <2>2. Len(au_buf) = 0
    BY <2>1
  <2>3. au_len = 0
    BY <2>2 DEF au_len
  <2>4. Off = 0
    BY <2>1, <2>3 DEF Off
  <2>5. QED
    BY <2>1, <2>3, <2>4
<1>2. BufferOfStream /\ ScanFinds /\ UnitsCut
    BY <1>1 DEF BufferOfStream, ScanFinds, UnitsCut
<1>3. TailHasOne
  <2>1. Off + 1 .. sent = {}
    BY <1>1
  <2>2. QED
    BY <2>1 DEF TailHasOne, OneSlice
<1>4. QED
    BY <1>2, <1>3 DEF CutInv

\* Every step of handle_video keeps the invariant of the cuts.
LEMMA StepCuts == IInv /\ Cuts /\ [Next]_vars => Cuts'
<1> SUFFICES ASSUME IInv, CutInv, [Next]_vars, Stamps \subseteq {<<>>} PROVE CutInv'
    BY DEF Cuts
<1>1. CASE UNCHANGED vars
    BY <1>1 DEF vars, scan, CutInv, BufferOfStream, ScanFinds, TailHasOne, UnitsCut, UnitOf,
                OneSlice, SliceIn, CodeBy, Short, Long, Off, StartAt, ScanAt, au_len,
                Slices, CodeBegins, CodeAt, HeaderOf
<1>2. QED
    BY <1>1, DropAllCuts, AppendChunkCuts, ScanStartCodeCuts, ScanByteCuts, KeepTailCuts
       DEF Next

\* Without timestamps the scan knows the slices of what it has scanned, the
\* buffer it leaves holds at most one and each unit fed ends where one begins.
THEOREM CutInvariant == Spec => []Cuts
<1>1. Init => Cuts
    BY InitCuts DEF Cuts
<1>2. QED
    BY <1>1, StepCuts, Invariant, PTL DEF Spec
-----------------------------------------------------------------------------
(* The units.                                                              *)

\* The length of a unit fed and its ends.
LEMMA UnitEnds ==
    ASSUME NEW a \in Nat, NEW b \in Nat, NEW unit, UnitOf(unit, a, b)
    PROVE  /\ Len(unit) = b - a /\ DOMAIN unit = 1 .. b - a
           /\ unit[1] = a /\ unit[Len(unit)] + 1 = b
<1>1. a < b /\ unit = [k \in 1 .. b - a |-> a + k - 1]
    BY DEF UnitOf
<1>2. b - a \in Nat /\ 1 \in 1 .. b - a /\ b - a \in 1 .. b - a
    BY <1>1
<1>3. Len(unit) = b - a /\ DOMAIN unit = 1 .. b - a
    BY <1>1, <1>2
<1>4. unit[1] = a + 1 - 1 /\ unit[b - a] = a + (b - a) - 1
    BY <1>1, <1>2
<1>5. QED
    BY <1>3, <1>4

\* After an overflow a unit that follows the one fed before it is one of the
\* stream, and every unit ends where a slice begins.
THEOREM FindsItsWayBack == Spec => []Resynchronises
<1>1. IInv /\ Cuts => Resynchronises
  <2> SUFFICES ASSUME IInv, CutInv, Stamps \subseteq {<<>>}, NEW u \in DOMAIN queued
               PROVE  LET unit == queued[u]
                          end == unit[Len(unit)] + 1
                      IN  /\ end \in Slices(sent)
                          /\ u > 1 /\ queued[u - 1][Len(queued[u - 1])] + 1 = unit[1] =>
                                unit[1] \in Slices(sent)
                                /\ ~\E p \in Slices(sent) : unit[1] < p /\ p < end
    BY DEF Cuts, Resynchronises
  <2>1. stream \in Seq(Byte) /\ sent \in 0 .. Len(stream)
    BY DEF IInv, BufferTyped
  <2>2. PICK a \in 1 .. Len(stream), b \in 1 .. Len(stream) : UnitOf(queued[u], a, b)
    BY DEF CutInv, UnitsCut
  <2>3. a \in Nat /\ b \in Nat
    OBVIOUS
  <2>4. queued[u][1] = a /\ queued[u][Len(queued[u])] + 1 = b
    BY <2>2, <2>3, UnitEnds
  <2>5. b \in Slices(sent)
    BY <2>2 DEF UnitOf
  <2>6. ASSUME u > 1, queued[u - 1][Len(queued[u - 1])] + 1 = a
        PROVE  a \in Slices(sent) /\ ~\E p \in Slices(sent) : a < p /\ p < b
    <3>1. u - 1 \in DOMAIN queued
      <4>1. queued \in Seq(Seq(Nat))
        BY DEF IInv, OutputTyped
      <4>2. DOMAIN queued = 1 .. Len(queued) /\ Len(queued) \in Nat
        BY <4>1
      <4>3. QED
        BY <2>6, <4>2
    <3>2. PICK c \in 1 .. Len(stream), d \in 1 .. Len(stream) : UnitOf(queued[u - 1], c, d)
      BY <3>1 DEF CutInv, UnitsCut
    <3>3. c \in Nat /\ d \in Nat
      OBVIOUS
    <3>4. d = a
      BY <2>6, <3>2, <3>3, UnitEnds
    <3>5. a \in Slices(sent)
      BY <3>2, <3>4 DEF UnitOf
    <3>6. ASSUME NEW p \in Slices(sent), a < p, p < b PROVE FALSE
      <4>1. p \in Slices(Len(stream)) /\ a \in Slices(Len(stream))
        BY <2>1, <3>5, SlicesOfMore
      <4>2. b <= p
        BY <2>2, <2>3, <3>6, <4>1 DEF UnitOf
      <4>3. p \in Nat
        BY DEF Slices
      <4>4. QED
        BY <2>3, <3>6, <4>2, <4>3
    <3>7. QED
      BY <3>5, <3>6
  <2>7. QED
    BY <2>4, <2>5, <2>6
<1>2. QED
    BY <1>1, Invariant, CutInvariant, PTL

\* A unit holds the positions between its ends.
LEMMA InUnit ==
    ASSUME NEW a \in Nat, NEW b \in Nat, NEW u \in DOMAIN queued, UnitOf(queued[u], a, b)
    PROVE  Fed(u) = a .. b - 1
<1>1. DOMAIN queued[u] = 1 .. b - a /\ \A k \in 1 .. b - a : queued[u][k] = a + k - 1
    BY DEF UnitOf
<1>2. \A k \in 1 .. b - a : a + k - 1 \in a .. b - 1
    OBVIOUS
<1>3. ASSUME NEW x \in a .. b - 1 PROVE \E k \in 1 .. b - a : x = a + k - 1
  <2>1. x - a + 1 \in 1 .. b - a /\ x = a + (x - a + 1) - 1
    OBVIOUS
  <2>2. QED
    BY <2>1
<1>4. Fed(u) = {queued[u][k] : k \in 1 .. b - a}
    BY <1>1 DEF Fed
<1>5. Fed(u) \subseteq a .. b - 1
    BY <1>1, <1>2, <1>4
<1>6. a .. b - 1 \subseteq Fed(u)
    BY <1>1, <1>3, <1>4
<1>7. QED
    BY <1>5, <1>6

\* Where the slices of the bytes received are.
LEMMA SlicesSent ==
    ASSUME IInv, NEW p \in Slices(sent)
    PROVE  p \in 1 .. Len(stream) /\ p \in Slices(Len(stream)) /\ p < sent
<1>1. stream \in Seq(Byte) /\ sent \in 0 .. Len(stream) /\ Len(stream) \in Nat
    BY DEF IInv, BufferTyped
<1>2. p \in 1 .. Len(stream) /\ HeaderOf(p) <= sent
    BY DEF Slices
<1>3. HeaderOf(p) \in Nat /\ p < HeaderOf(p)
    BY <1>2 DEF HeaderOf
<1>4. QED
    BY <1>1, <1>2, <1>3, SlicesOfMore

\* What begins in a unit ends in it: the unit ends where a later slice begins.
LEMMA WholeInUnit ==
    ASSUME IInv, CutInv, NEW p \in FedIn(queued)
    PROVE  \E u \in DOMAIN queued : NalUnit(p) \subseteq Fed(u)
<1>1. PICK u \in DOMAIN queued : \E k \in DOMAIN queued[u] : p = queued[u][k]
    BY FedIs
<1>2. PICK a \in 1 .. Len(stream), b \in 1 .. Len(stream) : UnitOf(queued[u], a, b)
    BY DEF CutInv, UnitsCut
<1>3. Fed(u) = a .. b - 1
    BY <1>2, InUnit
<1>4. p \in a .. b - 1
    BY <1>1, <1>3 DEF Fed
<1>5. CodeBegins(b)
    BY <1>2 DEF UnitOf, Slices
<1>6. ASSUME NEW x \in NalUnit(p) PROVE x \in a .. b - 1
  <2>1. x \in p .. Len(stream) /\ ~\E q \in p + 1 .. x : CodeBegins(q)
    BY DEF NalUnit
  <2>2. b \notin p + 1 .. x
    BY <1>5, <2>1
  <2>3. QED
    BY <1>4, <2>1, <2>2
<1>7. QED
    BY <1>3, <1>6

\* A byte with two slices from it on is not in au_buf: the buffer is the end of
\* what has been received and holds one slice at most.
LEMMA BeforeTwoSlices ==
    ASSUME IInv, CutInv, pc = "idle",
           NEW p \in 1 .. sent, NEW q \in Slices(sent), NEW r \in Slices(sent),
           p <= q, q < r
    PROVE  p \notin KeptFrom(au_buf, From)
<1>1. /\ q \in 1 .. Len(stream) /\ r \in 1 .. Len(stream) /\ q < sent /\ r < sent
      /\ BufferTyped /\ stream \in Seq(Byte) /\ sent \in 0 .. Len(stream) /\ sent \in Nat
    BY SlicesSent, BufferIs DEF IInv, BufferTyped
<1>2. /\ Off \in Nat /\ au_len \in Nat /\ sent = Off + au_len
      /\ OneSlice(Off + 1, sent, Off, sent) /\ BufferOfStream
    BY <1>1, BytesOfStream DEF CutInv, TailHasOne
<1>3. SUFFICES ASSUME p \in KeptFrom(au_buf, From) PROVE FALSE
    OBVIOUS
<1>4. Off < p
  <2>1. PICK k \in From .. Len(au_buf) : p = au_buf[k][1]
    BY <1>3 DEF KeptFrom
  <2>2. From = 1 /\ Len(au_buf) = au_len
    BY DEF From, au_len
  <2>3. k \in 1 .. au_len
    BY <2>1, <2>2
  <2>4. p = Off + k
    BY <1>2, <2>1, <2>3 DEF BufferOfStream
  <2>5. QED
    BY <1>2, <2>3, <2>4
<1>5. q > Off /\ r > Off
    BY <1>1, <1>2, <1>4
<1>6. SliceIn(q, Off, sent) /\ SliceIn(r, Off, sent)
    BY <1>1, <1>2, <1>5, SliceFound
<1>7. q \in Off + 1 .. sent /\ r \in Off + 1 .. sent
    BY <1>1, <1>2, <1>5
<1>8. q = r
    BY <1>2, <1>6, <1>7 DEF OneSlice
<1>9. QED
    BY <1>1, <1>8

\* However the phone cuts its stream into messages, no unit holds two slices, and
\* each NAL unit whose first byte was not thrown away is fed in one piece once two
\* slices from it on, itself included, have shown their headers.
THEOREM NalUnitsAreWhole == Spec => []NalUnitsWhole
<1>1. IInv /\ Cuts => NalUnitsWhole
  <2> SUFFICES ASSUME IInv, CutInv, pc = "idle"
               PROVE  /\ \A u \in DOMAIN queued : \A p, q \in Slices(sent) \cap Fed(u) : p = q
                      /\ \A p \in 1 .. sent :
                            /\ CodeBegins(p) /\ p \notin thrown
                            /\ \E q, r \in Slices(sent) : p <= q /\ q < r
                            => \E u \in DOMAIN queued : NalUnit(p) \subseteq Fed(u)
    BY DEF Cuts, NalUnitsWhole
  <2>1. ASSUME NEW u \in DOMAIN queued,
               NEW p \in Slices(sent) \cap Fed(u), NEW q \in Slices(sent) \cap Fed(u)
        PROVE  ~(p < q)
    <3>1. PICK a \in 1 .. Len(stream), b \in 1 .. Len(stream) : UnitOf(queued[u], a, b)
      BY DEF CutInv, UnitsCut
    <3>2. p \in a .. b - 1 /\ q \in a .. b - 1
      BY <3>1, InUnit
    <3>3. p \in Slices(Len(stream)) /\ q \in Slices(Len(stream))
      BY SlicesSent
    <3>4. p < q => b <= q
      BY <3>1, <3>2, <3>3 DEF UnitOf
    <3>5. QED
      BY <3>2, <3>4
  <2>2. \A u \in DOMAIN queued : \A p, q \in Slices(sent) \cap Fed(u) : p = q
    BY <2>1, SlicesSent
  <2>3. ASSUME NEW p \in 1 .. sent, p \notin thrown,
               NEW q \in Slices(sent), NEW r \in Slices(sent), p <= q, q < r
        PROVE  \E u \in DOMAIN queued : NalUnit(p) \subseteq Fed(u)
    <3>1. p \notin KeptFrom(au_buf, From)
      BY <2>3, BeforeTwoSlices
    <3>2. FedIn(queued) \cup KeptFrom(au_buf, From) \cup thrown = 1 .. sent
      BY DEF IInv, Placed
    <3>3. p \in FedIn(queued)
      BY <2>3, <3>1, <3>2
    <3>4. QED
      BY <3>3, WholeInUnit
  <2>4. QED
    BY <2>2, <2>3
<1>2. QED
    BY <1>1, Invariant, CutInvariant, PTL
=============================================================================
