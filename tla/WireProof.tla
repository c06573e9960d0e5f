----------------------------- MODULE WireProof -----------------------------
(***************************************************************************)
(* Messages survive their way through the bytes of the connection, in any  *)
(* portions: proofs for every number and length of messages, payload size, *)
(* slack, record size and base of the digits.  The bytes written and not   *)
(* consumed, Flow, are followed from place to place: between two places is *)
(* the encoding of one frame, and at each it is known how many messages are*)
(* complete, how much of which one is under way and how many TLS records   *)
(* have been made.  The reader is at the first place, the writer at the    *)
(* last.  A frame is decoded from the bytes as it was encoded, and opens   *)
(* because the TLS session of the reader holds nothing else.               *)
(***************************************************************************)
EXTENDS Wire, SequenceTheorems, TLAPS

-----------------------------------------------------------------------------
(* Numbers and digits.                                                     *)

\* Division, for a divisor that is not a numeral.
LEMMA DivMod ==
    ASSUME NEW d \in Nat \ {0}, NEW n \in Nat
    PROVE  n = (n \div d) * d + (n % d) /\ n % d \in 0 .. d - 1 /\ n \div d \in Nat
<1>1. n \div d \in Nat /\ n % d \in 0 .. d - 1
  <2>1. n \div d \in Nat
    OBVIOUS
  <2>2. n % d \in 0 .. d - 1
    OBVIOUS
  <2>3. QED
    BY <2>1, <2>2
<1>2. n % d = n - d * (n \div d)
    OBVIOUS
<1>3. PICK q \in Nat : q = n \div d
    BY <1>1
<1>4. PICK r \in 0 .. d - 1 : r = n % d
    BY <1>1
<1>5. r = n - d * q
    BY <1>2, <1>3, <1>4
<1>6. n = q * d + r
    BY <1>5
<1>7. n = (n \div d) * d + (n % d)
    BY <1>3, <1>4, <1>6, Zenon
<1>8. QED
    BY <1>1, <1>7

\* A number of two digits and its high digit.
LEMMA Quotient ==
    ASSUME NEW d \in Nat \ {0}, NEW n \in Nat, n < d * d
    PROVE  n \div d \in 0 .. d - 1 /\ (n \div d) % d = n \div d
<1>1. n \div d < d /\ n \div d \in Nat
    BY SMTT(30)
<1>2. PICK q \in Nat : q = n \div d
    BY <1>1
<1>3. q % d = q
    BY <1>1, <1>2
<1>4. QED
    BY <1>1, <1>2, <1>3

\* Two digits hold a number below Half.
LEMMA Digits2Are ==
    ASSUME NEW n \in Nat, n < Half
    PROVE  /\ Digits2(n) \in Seq(Nat) /\ Len(Digits2(n)) = 2
           /\ Digits2(n)[1] * Radix + Digits2(n)[2] = n
<1>1. Radix \in Nat \ {0} /\ n < Radix * Radix
    BY RadixAssumption DEF Half
<1>2. n = (n \div Radix) * Radix + (n % Radix) /\ n % Radix \in 0 .. Radix - 1 /\ n \div Radix \in Nat
    BY <1>1, DivMod
<1>3. (n \div Radix) % Radix = n \div Radix
    BY <1>1, Quotient
<1>4. PICK q \in Nat : q = n \div Radix
    BY <1>2
<1>5. PICK r \in Nat : r = n % Radix
    BY <1>1, <1>2
<1>6. Digits2(n) = <<q, r>>
    BY <1>3, <1>4, <1>5 DEF Digits2
<1>7. q * Radix + r = n
    BY <1>2, <1>4, <1>5, Zenon
<1>8. Digits2(n) \in Seq(Nat) /\ Len(Digits2(n)) = 2 /\ Digits2(n)[1] = q /\ Digits2(n)[2] = r
    BY <1>6
<1>9. QED
    BY <1>7, <1>8

\* Four digits hold a number below the square of Half, and are read back.
LEMMA Digits4Are ==
    ASSUME NEW n \in Nat, n < Half * Half
    PROVE  /\ Digits4(n) \in Seq(Nat) /\ Len(Digits4(n)) = 4
           /\ (Digits4(n)[1] * Radix + Digits4(n)[2]) * Half
                  + (Digits4(n)[3] * Radix + Digits4(n)[4]) = n
<1>1. Radix \in Nat \ {0} /\ Half \in Nat \ {0}
  <2>1. Radix \in Nat /\ Radix >= 2
    BY RadixAssumption
  <2>2. Radix * Radix \in Nat /\ Radix * Radix > 0
    BY <2>1
  <2>3. QED
    BY <2>1, <2>2 DEF Half
<1>2. n = (n \div Half) * Half + (n % Half) /\ n % Half \in 0 .. Half - 1 /\ n \div Half \in Nat
    BY <1>1, DivMod
<1>3. n \div Half \in 0 .. Half - 1
    BY <1>1, Quotient
<1>4. PICK q \in Nat : q = n \div Half
    BY <1>2
<1>5. PICK r \in Nat : r = n % Half
    BY <1>1, <1>2
<1>6. q < Half /\ r < Half
    BY <1>1, <1>2, <1>3, <1>4, <1>5
<1>7. PICK x : x = Digits2(q)
    OBVIOUS
<1>8. PICK y : y = Digits2(r)
    OBVIOUS
<1>9. x \in Seq(Nat) /\ Len(x) = 2 /\ x[1] * Radix + x[2] = q
    BY <1>6, <1>7, Digits2Are
<1>10. y \in Seq(Nat) /\ Len(y) = 2 /\ y[1] * Radix + y[2] = r
    BY <1>6, <1>8, Digits2Are
<1>11. /\ x \o y \in Seq(Nat) /\ Len(x \o y) = Len(x) + Len(y)
       /\ \A k \in 1 .. Len(x) + Len(y) : (x \o y)[k] = IF k <= Len(x) THEN x[k] ELSE y[k - Len(x)]
    BY <1>9, <1>10, ConcatProperties
<1>12. PICK z : z = x \o y
    OBVIOUS
<1>13. z[1] = x[1] /\ z[2] = x[2] /\ z[3] = y[1] /\ z[4] = y[2] /\ Len(z) = 4
    BY <1>9, <1>10, <1>11, <1>12
<1>14. Digits4(n) = z
    BY <1>4, <1>5, <1>7, <1>8, <1>12 DEF Digits4
<1>15. q * Half + r = n
    BY <1>2, <1>4, <1>5, Zenon
<1>16. (z[1] * Radix + z[2]) * Half + (z[3] * Radix + z[4]) = n
  <2>1. z[1] * Radix + z[2] = q
    BY <1>9, <1>13
  <2>2. z[3] * Radix + z[4] = r
    BY <1>10, <1>13
  <2>3. QED
    BY <1>15, <2>1, <2>2
<1>17. QED
    BY <1>11, <1>12, <1>13, <1>14, <1>16

-----------------------------------------------------------------------------
(* A frame's bytes.                                                        *)

WireFrames ==
    {f \in [ch : Nat, ft : 0 .. 3, mt : {0, 4}, enc : {0, 8}, total : Nat, payload : Seq(Nat)] :
        /\ Len(f.payload) < Half /\ f.total < Half * Half
        /\ f.ft # FIRST => f.total = 0}

\* Where each field of a frame is among its bytes.
LEMMA EncodeIs ==
    ASSUME NEW f \in WireFrames
    PROVE  LET e == Encode(f)
               h == HeaderLen(f.ft)
           IN  /\ e \in Seq(Nat) /\ Len(e) = h + Len(f.payload) /\ h \in {4, 8}
               /\ e[1] = f.ch /\ e[2] = f.ft + f.mt + f.enc
               /\ Number2(e, 3) = Len(f.payload)
               /\ f.ft = FIRST => Number4(e, 5) = f.total
               /\ \A k \in 1 .. Len(f.payload) : e[h + k] = f.payload[k]
<1> DEFINE t == IF f.ft = FIRST THEN Digits4(f.total) ELSE <<>>
           h == HeaderLen(f.ft)
<1>1. /\ f.ch \in Nat /\ f.ft \in 0 .. 3 /\ f.mt \in {0, 4} /\ f.enc \in {0, 8}
      /\ f.total \in Nat /\ f.payload \in Seq(Nat) /\ Len(f.payload) \in Nat
      /\ Len(f.payload) < Half /\ f.total < Half * Half
    BY DEF WireFrames
<1>2. PICK a : a = <<f.ch, f.ft + f.mt + f.enc>>
    OBVIOUS
<1>3. a \in Seq(Nat) /\ Len(a) = 2 /\ a[1] = f.ch /\ a[2] = f.ft + f.mt + f.enc
    BY <1>1, <1>2
<1>4. PICK b : b = Digits2(Len(f.payload))
    OBVIOUS
<1>5. b \in Seq(Nat) /\ Len(b) = 2 /\ b[1] * Radix + b[2] = Len(f.payload)
    BY <1>1, <1>4, Digits2Are
<1>6. PICK c : c = t
    OBVIOUS
<1>7. /\ c \in Seq(Nat) /\ Len(c) = h - 4 /\ h \in {4, 8} /\ (f.ft = FIRST <=> h = 8)
      /\ f.ft = FIRST =>
            (c[1] * Radix + c[2]) * Half + (c[3] * Radix + c[4]) = f.total
  <2>1. CASE f.ft = FIRST
    <3>1. c = Digits4(f.total) /\ h = 8
      BY <1>6, <2>1 DEF HeaderLen
    <3>2. /\ Digits4(f.total) \in Seq(Nat) /\ Len(Digits4(f.total)) = 4
          /\ (Digits4(f.total)[1] * Radix + Digits4(f.total)[2]) * Half
                 + (Digits4(f.total)[3] * Radix + Digits4(f.total)[4]) = f.total
      BY <1>1, Digits4Are
    <3>3. c \in Seq(Nat) /\ Len(c) = 4
          /\ (c[1] * Radix + c[2]) * Half + (c[3] * Radix + c[4]) = f.total
      BY <3>1, <3>2, Zenon
    <3>4. Len(c) = h - 4
      BY <3>1, <3>3
    <3>5. QED
      BY <2>1, <3>1, <3>3, <3>4
  <2>2. CASE f.ft # FIRST
    BY <1>6, <2>2 DEF HeaderLen
  <2>3. QED
    BY <2>1, <2>2
<1>8. Encode(f) = ((a \o b) \o c) \o f.payload
    BY <1>2, <1>4, <1>6 DEF Encode
<1>9. PICK S : S = Nat
    OBVIOUS
<1> HIDE DEF t, h
<1>10. PICK ab : ab = a \o b
    OBVIOUS
<1>11. /\ ab \in Seq(Nat) /\ Len(ab) = 4 /\ ab[1] = a[1] /\ ab[2] = a[2]
       /\ ab[3] = b[1] /\ ab[4] = b[2]
  <2>1. /\ a \o b \in Seq(Nat) /\ Len(a \o b) = Len(a) + Len(b)
        /\ \A i \in 1 .. Len(a) + Len(b) : (a \o b)[i] = IF i <= Len(a) THEN a[i] ELSE b[i - Len(a)]
    <3>1. a \in Seq(Nat) /\ b \in Seq(Nat)
      BY <1>3, <1>5
    <3>2. QED
      BY <3>1, ConcatProperties
  <2>2. Len(a) = 2 /\ Len(b) = 2
    BY <1>3, <1>5
  <2>3. QED
    BY <1>10, <2>1, <2>2
<1>12. PICK abc : abc = ab \o c
    OBVIOUS
<1>13. /\ abc \in Seq(Nat) /\ Len(abc) = h /\ \A i \in 1 .. 4 : abc[i] = ab[i]
       /\ \A i \in 1 .. h - 4 : abc[4 + i] = c[i]
  <2>1. /\ ab \o c \in Seq(Nat) /\ Len(ab \o c) = Len(ab) + Len(c)
        /\ \A i \in 1 .. Len(ab) + Len(c) : (ab \o c)[i] = IF i <= Len(ab) THEN ab[i] ELSE c[i - Len(ab)]
    BY <1>7, <1>11, ConcatProperties
  <2>2. abc \in Seq(Nat) /\ Len(abc) = h
    BY <1>7, <1>11, <1>12, <2>1
  <2>3. \A i \in 1 .. 4 : abc[i] = ab[i]
    BY <1>7, <1>11, <1>12, <2>1
  <2>4. ASSUME NEW i \in 1 .. h - 4 PROVE abc[4 + i] = c[i]
    <3>1. 4 + i \in 1 .. Len(ab) + Len(c) /\ ~(4 + i <= Len(ab)) /\ 4 + i - Len(ab) = i
      BY <1>7, <1>11
    <3>2. QED
      BY <1>12, <2>1, <3>1
  <2>5. QED
    BY <2>2, <2>3, <2>4
<1>14. PICK e : e = Encode(f)
    OBVIOUS
<1>15. /\ e \in Seq(Nat) /\ Len(e) = h + Len(f.payload) /\ \A i \in 1 .. h : e[i] = abc[i]
       /\ \A k \in 1 .. Len(f.payload) : e[h + k] = f.payload[k]
  <2>1. /\ abc \o f.payload \in Seq(Nat) /\ Len(abc \o f.payload) = Len(abc) + Len(f.payload)
        /\ \A i \in 1 .. Len(abc) + Len(f.payload) :
              (abc \o f.payload)[i] = IF i <= Len(abc) THEN abc[i] ELSE f.payload[i - Len(abc)]
    BY <1>1, <1>13, ConcatProperties, ZenonT(30)
  <2>2. e = abc \o f.payload
    BY <1>8, <1>10, <1>12, <1>14
  <2>3. e \in Seq(Nat) /\ Len(e) = h + Len(f.payload)
    BY <1>13, <2>1, <2>2
  <2>4. \A i \in 1 .. h : e[i] = abc[i]
    BY <1>1, <1>7, <1>13, <2>1, <2>2
  <2>5. ASSUME NEW k \in 1 .. Len(f.payload) PROVE e[h + k] = f.payload[k]
    <3>1. PICK j : j = h + k
      OBVIOUS
    <3>2. j \in 1 .. Len(abc) + Len(f.payload) /\ ~(j <= Len(abc)) /\ j - Len(abc) = k
      BY <1>1, <1>7, <1>13, <3>1
    <3>3. (abc \o f.payload)[j] = f.payload[j - Len(abc)]
      BY <2>1, <3>2
    <3>4. QED
      BY <2>2, <3>1, <3>2, <3>3
  <2>6. QED
    BY <2>3, <2>4, <2>5
<1>16. e[1] = f.ch /\ e[2] = f.ft + f.mt + f.enc /\ e[3] = b[1] /\ e[4] = b[2]
  <2>1. h >= 4 /\ h \in Nat
    BY <1>7
  <2>2. \A i \in 1 .. 4 : e[i] = ab[i]
    <3>1. \A i \in 1 .. 4 : i \in 1 .. h
      BY <2>1
    <3>2. \A i \in 1 .. 4 : abc[i] = ab[i]
      BY <1>13
    <3>3. \A i \in 1 .. h : e[i] = abc[i]
      BY <1>15
    <3>4. QED
      BY <3>1, <3>2, <3>3
  <2>3. e[1] = ab[1] /\ e[2] = ab[2] /\ e[3] = ab[3] /\ e[4] = ab[4]
    BY <2>2
  <2>4. QED
    BY <1>3, <1>11, <2>3, Zenon
<1>17. Number2(e, 3) = Len(f.payload)
  <2>1. Number2(e, 3) = e[3] * Radix + e[4]
    BY DEF Number2
  <2>2. QED
    BY <1>5, <1>16, <2>1, Zenon
<1>18. f.ft = FIRST => Number4(e, 5) = f.total
  <2>1. SUFFICES ASSUME f.ft = FIRST PROVE Number4(e, 5) = f.total
    OBVIOUS
  <2>2. h = 8
    BY <1>7, <2>1
  <2>3. e[5] = c[1] /\ e[6] = c[2] /\ e[7] = c[3] /\ e[8] = c[4]
    <3>1. \A i \in 1 .. 4 : abc[4 + i] = c[i] /\ e[4 + i] = abc[4 + i]
      <4>1. \A i \in 1 .. 4 : i \in 1 .. h - 4 /\ 4 + i \in 1 .. h
        BY <2>2
      <4>2. QED
        BY <1>13, <1>15, <4>1
    <3>2. QED
      BY <3>1
  <2>4. Number4(e, 5) = (e[5] * Radix + e[6]) * Half + (e[7] * Radix + e[8])
    BY DEF Number4, Number2
  <2>5. QED
    BY <1>7, <2>1, <2>3, <2>4, Zenon
<1>19. QED
    BY <1>7, <1>14, <1>15, <1>16, <1>17, <1>18 DEF h

\* A buffer that begins like a frame holds it whole or is known not to; and
\* the frame is what is decoded.
LEMMA DecodeIs ==
    ASSUME NEW f \in WireFrames, NEW buf \in Seq(Nat),
           \A k \in 1 .. Len(buf) : k <= Len(Encode(f)) => buf[k] = Encode(f)[k]
    PROVE  /\ Decodable(buf) <=> Len(buf) >= Len(Encode(f))
           /\ Decodable(buf) => Decode(buf) = f
<1> DEFINE h == HeaderLen(f.ft)
<1>1. PICK e : e = Encode(f)
    OBVIOUS
<1>2. /\ e \in Seq(Nat) /\ Len(e) = h + Len(f.payload) /\ h \in {4, 8} /\ Len(f.payload) \in Nat
      /\ e[1] = f.ch /\ e[2] = f.ft + f.mt + f.enc
      /\ Number2(e, 3) = Len(f.payload)
      /\ f.ft = FIRST => Number4(e, 5) = f.total
      /\ \A k \in 1 .. Len(f.payload) : e[h + k] = f.payload[k]
  <2>1. Len(f.payload) \in Nat
    BY DEF WireFrames
  <2>2. QED
    BY <1>1, <2>1, EncodeIs
<1>2a. Len(e) = h + Len(f.payload) /\ h \in {4, 8} /\ h \in Nat /\ Len(f.payload) \in Nat
  <2>1. Len(e) = h + Len(f.payload) /\ h \in {4, 8} /\ Len(f.payload) \in Nat
    BY <1>2
  <2>2. QED
    BY <2>1
<1>3. /\ f.ch \in Nat /\ f.ft \in 0 .. 3 /\ f.mt \in {0, 4} /\ f.enc \in {0, 8}
      /\ f.total \in Nat /\ f.payload \in Seq(Nat)
      /\ f.ft # FIRST => f.total = 0
      /\ f = [ch |-> f.ch, ft |-> f.ft, mt |-> f.mt, enc |-> f.enc, total |-> f.total,
              payload |-> f.payload]
    BY DEF WireFrames
<1>4. Len(buf) \in Nat /\ \A k \in 1 .. Len(buf) : k <= Len(e) => buf[k] = e[k]
    BY <1>1
<1>5. ASSUME Len(buf) >= 4
      PROVE  /\ buf[1] = f.ch /\ buf[2] % 4 = f.ft /\ (buf[2] % 8) - f.ft = f.mt
             /\ (buf[2] % 16) - (buf[2] % 8) = f.enc
  <2>1. buf[1] = e[1] /\ buf[2] = e[2]
    <3>1. 1 \in 1 .. Len(buf) /\ 2 \in 1 .. Len(buf) /\ 1 <= Len(e) /\ 2 <= Len(e)
      BY <1>4, <1>5, <1>2a
    <3>2. QED
      BY <1>4, <3>1
  <2>2. buf[2] = f.ft + f.mt + f.enc
    BY <1>2, <2>1
  <2>3. buf[1] = f.ch
    BY <1>2, <2>1
  <2>4. PICK ft \in 0 .. 3 : ft = f.ft
    BY <1>3
  <2>5. PICK mt \in {0, 4} : mt = f.mt
    BY <1>3
  <2>6. PICK enc \in {0, 8} : enc = f.enc
    BY <1>3
  <2>7. /\ (ft + mt + enc) % 4 = ft /\ ((ft + mt + enc) % 8) - ft = mt
        /\ ((ft + mt + enc) % 16) - ((ft + mt + enc) % 8) = enc
    OBVIOUS
  <2>8. QED
    BY <2>2, <2>3, <2>4, <2>5, <2>6, <2>7
<1>6. ASSUME Len(buf) >= h
      PROVE  /\ Number2(buf, 3) = Len(f.payload)
             /\ f.ft = FIRST => Number4(buf, 5) = f.total
  <2>1. \A k \in 1 .. h : buf[k] = e[k]
    <3>1. \A k \in 1 .. h : k \in 1 .. Len(buf) /\ k <= Len(e)
      BY <1>4, <1>6, <1>2a
    <3>2. QED
      BY <1>4, <3>1
  <2>2. Number2(buf, 3) = Number2(e, 3)
    <3>1. buf[3] = e[3] /\ buf[4] = e[4]
      BY <1>2, <2>1
    <3>2. QED
      BY <3>1 DEF Number2
  <2>3. f.ft = FIRST => Number4(buf, 5) = Number4(e, 5)
    <3>1. f.ft = FIRST => h = 8
      BY DEF HeaderLen
    <3>2. f.ft = FIRST => buf[5] = e[5] /\ buf[6] = e[6] /\ buf[7] = e[7] /\ buf[8] = e[8]
      BY <2>1, <3>1
    <3>3. QED
      BY <3>2 DEF Number4, Number2
  <2>4. QED
    BY <1>2, <2>2, <2>3
<1> HIDE DEF h
<1>7. Decodable(buf) <=> Len(buf) >= Len(e)
  <2>1. Decodable(buf) => Len(buf) >= 4
    BY DEF Decodable
  <2>2. Len(buf) >= Len(e) => Len(buf) >= 4
    BY <1>4, <1>2a
  <2>3. ASSUME Len(buf) >= 4
        PROVE  Decodable(buf) <=> Len(buf) >= Len(e)
    <3>1. Decodable(buf) <=> Len(buf) >= h /\ Len(buf) >= h + Number2(buf, 3)
      BY <1>5, <2>3 DEF Decodable, FrameLen, h
    <3>2. Len(buf) >= h => Number2(buf, 3) = Len(f.payload)
      BY <1>6
    <3>3. QED
      BY <1>4, <1>2a, <3>1, <3>2
  <2>4. QED
    BY <2>1, <2>2, <2>3
<1>8. ASSUME Decodable(buf)
      PROVE  Decode(buf) = f
  <2>1. Len(buf) >= h + Len(f.payload) /\ Len(buf) >= 4 /\ Len(buf) >= h
    BY <1>4, <1>7, <1>8, <1>2a
  <2>2. /\ buf[1] = f.ch /\ buf[2] % 4 = f.ft /\ (buf[2] % 8) - f.ft = f.mt
        /\ (buf[2] % 16) - (buf[2] % 8) = f.enc
    BY <1>5, <2>1
  <2>3. Number2(buf, 3) = Len(f.payload) /\ (f.ft = FIRST => Number4(buf, 5) = f.total)
    BY <1>6, <2>1
  <2>4. FrameLen(buf) = h + Len(f.payload) /\ HeaderLen(buf[2] % 4) = h
    BY <2>2, <2>3 DEF FrameLen, h
  <2>5. SubSeq(buf, h + 1, h + Len(f.payload)) = f.payload
    <3>1. PICK p : p = SubSeq(buf, h + 1, h + Len(f.payload))
      OBVIOUS
    <3>2. PICK n \in Nat : n = Len(f.payload)
      BY <1>2a
    <3>3. PICK lo \in Int : lo = h + 1
      BY <1>2a
    <3>4. PICK hi \in Int : hi = h + n
      BY <1>2a
    <3>5. p = SubSeq(buf, lo, hi)
      BY <3>1, <3>2, <3>3, <3>4
    <3>6. /\ \A i \in lo .. hi : i \in 1 .. Len(buf)
          /\ \A i \in 1 .. n : lo + i - 1 = h + i /\ h + i \in 1 .. Len(buf) /\ h + i <= Len(e)
          /\ hi - lo + 1 = n /\ (IF lo <= hi THEN hi - lo + 1 ELSE 0) = n
      <4>1. h \in Nat /\ Len(buf) \in Nat /\ Len(buf) >= h + n /\ Len(e) = h + n
        BY <1>4, <1>2a, <2>1, <3>2
      <4>2. \A i \in lo .. hi : i \in 1 .. Len(buf)
        BY <3>3, <3>4, <4>1
      <4>3. \A i \in 1 .. n : lo + i - 1 = h + i /\ h + i \in 1 .. Len(buf) /\ h + i <= Len(e)
        BY <3>3, <4>1
      <4>4. hi - lo + 1 = n /\ (IF lo <= hi THEN hi - lo + 1 ELSE 0) = n
        BY <3>3, <3>4, <4>1
      <4>5. QED
        BY <4>2, <4>3, <4>4
    <3>7. \A i \in lo .. hi : buf[i] \in Nat
      BY <3>6, ElementOfSeq
    <3>8. /\ p \in Seq(Nat) /\ Len(p) = IF lo <= hi THEN hi - lo + 1 ELSE 0
          /\ \A i \in 1 .. hi - lo + 1 : p[i] = buf[lo + i - 1]
      BY <3>5, <3>7, SubSeqProperties
    <3>9. Len(p) = n /\ \A i \in 1 .. n : p[i] = buf[h + i]
      BY <3>6, <3>8
    <3>10. \A i \in 1 .. n : buf[h + i] = e[h + i]
      BY <1>4, <3>6
    <3>11. \A i \in 1 .. n : e[h + i] = f.payload[i]
      BY <1>2, <3>2
    <3>12. p = f.payload
      <4>1. \A i \in 1 .. Len(p) : p[i] = f.payload[i]
        BY <3>9, <3>10, <3>11
      <4>2. Len(p) = Len(f.payload) /\ p \in Seq(Nat) /\ f.payload \in Seq(Nat)
        BY <1>3, <3>2, <3>8, <3>9
      <4>3. QED
        BY <4>1, <4>2, SeqEqual
    <3>13. QED
      BY <3>1, <3>12
  <2>6. Decode(buf) = [ch |-> buf[1], ft |-> buf[2] % 4, mt |-> (buf[2] % 8) - (buf[2] % 4),
                       enc |-> (buf[2] % 16) - (buf[2] % 8),
                       total |-> IF buf[2] % 4 = FIRST THEN Number4(buf, 5) ELSE 0,
                       payload |-> SubSeq(buf, HeaderLen(buf[2] % 4) + 1, FrameLen(buf))]
    BY DEF Decode
  <2>7. (IF f.ft = FIRST THEN Number4(buf, 5) ELSE 0) = f.total
    BY <1>3, <2>3
  <2>8. Decode(buf) = [ch |-> f.ch, ft |-> f.ft, mt |-> f.mt, enc |-> f.enc, total |-> f.total,
                       payload |-> f.payload]
    BY <2>2, <2>4, <2>5, <2>6, <2>7
  <2>9. QED
    BY <1>3, <2>8
<1>9. QED
    BY <1>1, <1>7, <1>8

-----------------------------------------------------------------------------
(* TLS records.                                                            *)

\* One sequence flattened is that sequence (Encrypt flattens its records).
LEMMA FlattenOne ==
    ASSUME NEW S, NEW q \in Seq(S), Len(q) = 1
    PROVE  FlattenSeq(q) = q[1]
<1> DEFINE Def(flatten, i) == IF i = 1 THEN q[i] ELSE flatten[i - 1] \o q[i]
           Is(flatten) == flatten = [i \in 1 .. Len(q) |-> Def(flatten, i)]
           flat == CHOOSE flatten : Is(flatten)
<1>1. FlattenSeq(q) = flat[Len(q)]
    BY DEF FlattenSeq
<1>2. Is([i \in 1 .. Len(q) |-> q[1]])
    BY SMTT(20)
<1>3. Is(flat)
    BY <1>2, Zenon
<1>4. flat[1] = q[1]
    BY <1>3
<1>5. QED
    BY <1>1, <1>4

\* The smaller of two numbers.
LEMMA MinIs ==
    ASSUME NEW a \in Int, NEW b \in Int
    PROVE  Min({a, b}) = IF a <= b THEN a ELSE b
<1> DEFINE m == IF a <= b THEN a ELSE b
<1>1. m \in {a, b} /\ \A y \in {a, b} : m <= y
    OBVIOUS
<1>2. \A x \in {a, b} : (\A y \in {a, b} : x <= y) => x = m
    OBVIOUS
<1> HIDE DEF m
<1>3. QED
    BY <1>1, <1>2 DEF Min, m

\* A payload that fits a record takes one.
LEMMA OneRecord ==
    ASSUME NEW n \in Nat \ {0}, n <= MaxRecord
    PROVE  RecordCount(n) = 1
<1>1. MaxRecord \in Nat \ {0}
    BY RecordAssumption
<1>2. (n + MaxRecord - 1) \div MaxRecord = 1
    BY <1>1, SMTT(30)
<1>3. QED
    BY <1>2 DEF RecordCount

\* Where the parts of a record are.
LEMMA RecordIs ==
    ASSUME NEW n \in Nat, NEW plain \in Seq(Nat)
    PROVE  /\ Record(n, plain) \in Seq(Nat) /\ Len(Record(n, plain)) = 2 + Len(plain)
           /\ Record(n, plain)[1] = Len(plain) /\ Record(n, plain)[2] = n
           /\ \A k \in 1 .. Len(plain) : Record(n, plain)[2 + k] = plain[k]
<1>1. PICK a : a = <<Len(plain), n>>
    OBVIOUS
<1>2. a \in Seq(Nat) /\ Len(a) = 2 /\ a[1] = Len(plain) /\ a[2] = n /\ Len(plain) \in Nat
    BY <1>1
<1>3. /\ a \o plain \in Seq(Nat) /\ Len(a \o plain) = Len(a) + Len(plain)
      /\ \A i \in 1 .. Len(a) + Len(plain) :
            (a \o plain)[i] = IF i <= Len(a) THEN a[i] ELSE plain[i - Len(a)]
    BY <1>2, ConcatProperties
<1>4. PICK r : r = Record(n, plain)
    OBVIOUS
<1>5. r = a \o plain
    BY <1>1, <1>4 DEF Record
<1>6. r \in Seq(Nat) /\ Len(r) = 2 + Len(plain) /\ r[1] = Len(plain) /\ r[2] = n
    BY <1>2, <1>3, <1>5
<1>7. ASSUME NEW k \in 1 .. Len(plain) PROVE r[2 + k] = plain[k]
  <2>1. PICK j : j = 2 + k
    OBVIOUS
  <2>2. j \in 1 .. Len(a) + Len(plain) /\ ~(j <= Len(a)) /\ j - Len(a) = k
    BY <1>2, <2>1
  <2>3. QED
    BY <1>3, <1>5, <2>1, <2>2
<1>8. QED
    BY <1>4, <1>6, <1>7

\* What fits one record is encrypted into one.
LEMMA EncryptIs ==
    ASSUME NEW seq \in Nat, NEW plain \in Seq(Nat), Len(plain) # 0, Len(plain) <= MaxRecord
    PROVE  Encrypt(seq, plain) = Record(seq + 1, plain)
<1> DEFINE e(i) == Record(seq + i, SubSeq(plain, (i - 1) * MaxRecord + 1,
                                          Min({i * MaxRecord, Len(plain)})))
           q == [i \in 1 .. RecordCount(Len(plain)) |-> e(i)]
<1>1. Len(plain) \in Nat \ {0} /\ MaxRecord \in Nat
    BY RecordAssumption
<1>2. RecordCount(Len(plain)) = 1
    BY <1>1, OneRecord
<1>3. e(1) = Record(seq + 1, plain)
  <2>1. 1 * MaxRecord = MaxRecord /\ (1 - 1) * MaxRecord + 1 = 1
    BY <1>1
  <2>2. Min({MaxRecord, Len(plain)}) = Len(plain)
    <3>1. MaxRecord \in Int /\ Len(plain) \in Int
      BY <1>1
    <3>2. Min({MaxRecord, Len(plain)}) = IF MaxRecord <= Len(plain) THEN MaxRecord ELSE Len(plain)
      BY <3>1, MinIs
    <3>3. QED
      BY <1>1, <3>2
  <2>3. SubSeq(plain, 1, Len(plain)) = plain
    BY SubSeqFull
  <2>4. QED
    BY <2>1, <2>2, <2>3
<1>4. Encrypt(seq, plain) = FlattenSeq(q)
    BY DEF Encrypt
<1> HIDE DEF e
<1>5. q = [i \in 1 .. 1 |-> e(i)]
    BY <1>2
<1> HIDE DEF q
<1>6. q \in Seq({e(1)}) /\ Len(q) = 1 /\ q[1] = e(1)
    BY <1>5
<1>7. FlattenSeq(q) = q[1]
    BY <1>6, FlattenOne
<1>8. QED
    BY <1>3, <1>4, <1>6, <1>7

TlsStates == [in : Seq(Nat), off : Nat, got : Seq(Nat), left : Seq(Nat), seq : Nat]

\* Given one record, a TLS session that holds nothing else reads it whole if it
\* is the next in sequence, and then holds nothing again.
LEMMA DecryptIs ==
    ASSUME NEW t \in TlsStates, Drained(t), NEW n \in Nat, NEW plain \in Seq(Nat), NEW cap \in Nat,
           cap >= Len(plain)
    PROVE  LET d == Decrypt(t, Record(n, plain), cap)
           IN  /\ d.ok \in BOOLEAN /\ d.ok <=> n = t.seq + 1
               /\ d.tls \in TlsStates /\ d.tls.off \in 0 .. Len(d.tls.in)
               /\ d.ok => d.plain = plain /\ Drained(d.tls) /\ d.tls.seq = n
<1>1. /\ t.in \in Seq(Nat) /\ t.off = Len(t.in) /\ t.got = <<>> /\ t.left = <<>>
      /\ t.seq \in Nat /\ Len(t.in) \in Nat
    BY DEF TlsStates, Drained
<1>2. PICK r : r = Record(n, plain)
    OBVIOUS
<1>3. /\ r \in Seq(Nat) /\ Len(r) = 2 + Len(plain) /\ r[1] = Len(plain) /\ r[2] = n
      /\ \A k \in 1 .. Len(plain) : r[2 + k] = plain[k]
      /\ Len(plain) \in Nat
  <2>1. Len(plain) \in Nat
    OBVIOUS
  <2>2. QED
    BY <1>2, <2>1, RecordIs, ZenonT(40)
<1>4. PICK f : f = Fill(t, r)
    OBVIOUS
<1>5. f = [in |-> r, off |-> 0, got |-> <<>>, left |-> <<>>, seq |-> t.seq]
  <2>1. SubSeq(t.in, Len(t.in) + 1, Len(t.in)) = <<>>
    BY <1>1, SubSeqEmpty
  <2>2. Compact(t) = [in |-> <<>>, off |-> 0, got |-> <<>>, left |-> <<>>, seq |-> t.seq]
    <3>1. Compact(t) = [t EXCEPT !.in = SubSeq(t.in, t.off + 1, Len(t.in)), !.off = 0]
      BY DEF Compact
    <3>2. Compact(t) = [t EXCEPT !.in = <<>>, !.off = 0]
      BY <1>1, <2>1, <3>1
    <3>3. PICK u : u = [t EXCEPT !.in = <<>>]
      OBVIOUS
    <3>4. u = [in |-> <<>>, off |-> t.off, got |-> t.got, left |-> t.left, seq |-> t.seq]
      BY <3>3 DEF TlsStates
    <3>5. [u EXCEPT !.off = 0]
            = [in |-> <<>>, off |-> 0, got |-> t.got, left |-> t.left, seq |-> t.seq]
      BY <3>4
    <3>6. Compact(t) = [u EXCEPT !.off = 0]
      BY <3>2, <3>3
    <3>7. QED
      BY <1>1, <3>5, <3>6, Zenon
  <2>3. <<>> \o r = r
    BY <1>3, ConcatEmptySeq
  <2>4. QED
    BY <1>4, <2>2, <2>3 DEF Fill
<1>6. Avail(f) = r
  <2>1. Avail(f) = <<>> \o SubSeq(r, 0 + 1, Len(r))
    BY <1>5 DEF Avail
  <2>2. SubSeq(r, 1, Len(r)) = r /\ <<>> \o r = r
    BY <1>3, SubSeqFull, ConcatEmptySeq
  <2>3. QED
    BY <2>1, <2>2
<1>7. HasRecord(f)
    BY <1>3, <1>6 DEF HasRecord, RecordHeader
<1>8. NextInSequence(f) <=> n = t.seq + 1
    BY <1>3, <1>5, <1>6 DEF NextInSequence
<1>9. PICK g : g = TakeRecord(f)
    OBVIOUS
<1>10. g = [in |-> r, off |-> Len(r), got |-> <<>>, left |-> plain, seq |-> t.seq + 1]
  <2>1. 0 + 2 + Len(plain) - Len(<<>>) = Len(r)
    BY <1>3
  <2>2. SubSeq(r, 2 + 1, 2 + Len(plain)) = plain
    <3>1. PICK hi \in Int : hi = 2 + Len(plain)
      BY <1>3
    <3>2. PICK p : p = SubSeq(r, 3, hi)
      OBVIOUS
    <3>3. /\ \A i \in 3 .. hi : i \in 1 .. Len(r)
          /\ \A i \in 1 .. Len(plain) : 3 + i - 1 = 2 + i
          /\ hi - 3 + 1 = Len(plain) /\ (IF 3 <= hi THEN hi - 3 + 1 ELSE 0) = Len(plain)
      BY <1>3, <3>1
    <3>4. \A i \in 3 .. hi : r[i] \in Nat
      BY <1>3, <3>3, ElementOfSeq
    <3>5. /\ p \in Seq(Nat) /\ Len(p) = IF 3 <= hi THEN hi - 3 + 1 ELSE 0
          /\ \A i \in 1 .. hi - 3 + 1 : p[i] = r[3 + i - 1]
      BY <3>2, <3>4, SubSeqProperties
    <3>6. Len(p) = Len(plain) /\ \A i \in 1 .. Len(plain) : p[i] = r[2 + i]
      BY <3>3, <3>5
    <3>7. \A i \in 1 .. Len(p) : p[i] = plain[i]
      BY <1>3, <3>6
    <3>8. p = plain
      BY <3>5, <3>6, <3>7, SeqEqual
    <3>9. QED
      BY <3>1, <3>2, <3>8
  <2>3. QED
    BY <1>3, <1>5, <1>6, <1>9, <2>1, <2>2 DEF TakeRecord, RecordHeader
<1>11. g \in TlsStates
    BY <1>1, <1>3, <1>10 DEF TlsStates
<1>12. PICK d : d = Decrypt(t, r, cap)
    OBVIOUS
<1>13. CASE n = t.seq + 1
  <2>1. d = Deliver(g, cap)
    <3>1. f.left = <<>> /\ HasRecord(f) /\ NextInSequence(f)
      BY <1>5, <1>7, <1>8, <1>13
    <3>2. d = Deliver(TakeRecord(f), cap)
      BY <1>4, <1>12, <3>1 DEF Decrypt
    <3>3. QED
      BY <1>9, <3>2
  <2>2. Min({cap, Len(plain)}) = Len(plain)
    <3>1. cap \in Int /\ Len(plain) \in Int
      BY <1>3
    <3>2. Min({cap, Len(plain)}) = IF cap <= Len(plain) THEN cap ELSE Len(plain)
      BY <3>1, MinIs
    <3>3. QED
      BY <1>3, <3>2
  <2>3. SubSeq(plain, 1, Len(plain)) = plain /\ SubSeq(plain, Len(plain) + 1, Len(plain)) = <<>>
    BY <1>3, SubSeqFull, SubSeqEmpty
  <2>4. d = [ok |-> TRUE, plain |-> plain,
             tls |-> [in |-> r, off |-> Len(r), got |-> <<>>, left |-> <<>>, seq |-> t.seq + 1]]
    BY <1>10, <2>1, <2>2, <2>3 DEF Deliver
  <2>5. d.ok = TRUE /\ d.plain = plain
        /\ d.tls = [in |-> r, off |-> Len(r), got |-> <<>>, left |-> <<>>, seq |-> t.seq + 1]
    BY <2>4
  <2>6. d.tls \in TlsStates /\ d.tls.off \in 0 .. Len(d.tls.in) /\ Drained(d.tls) /\ d.tls.seq = n
    BY <1>1, <1>3, <1>13, <2>5 DEF TlsStates, Drained
  <2>7. QED
    BY <1>2, <1>12, <1>13, <2>5, <2>6
<1>14. CASE n # t.seq + 1
  <2>1. d = Refuse(g)
    <3>1. f.left = <<>> /\ HasRecord(f) /\ ~NextInSequence(f)
      BY <1>5, <1>7, <1>8, <1>14
    <3>2. d = Refuse(TakeRecord(f))
      BY <1>4, <1>12, <3>1 DEF Decrypt
    <3>3. QED
      BY <1>9, <3>2
  <2>2. d.ok = FALSE /\ d.tls = g
    BY <2>1 DEF Refuse
  <2>3. g.off \in 0 .. Len(g.in)
    BY <1>3, <1>10
  <2>4. QED
    BY <1>2, <1>11, <1>12, <1>14, <2>2, <2>3
<1>15. QED
    BY <1>13, <1>14

-----------------------------------------------------------------------------
(* Messages, chunks and frames.                                            *)

\* A run of a message's bytes, byte by byte.
ByteOf(id, i) == 1000 * id + i

\* A run of a message's bytes has the length and the bytes it should.
LEMMA BodyIs ==
    ASSUME NEW id \in Nat, NEW from \in Nat, NEW n \in Nat
    PROVE  /\ Body(id, from + 1, from + n) \in Seq(Nat)
           /\ Len(Body(id, from + 1, from + n)) = n
           /\ \A k \in 1 .. n : Body(id, from + 1, from + n)[k] = ByteOf(id, from + k)
<1> DEFINE e(k) == 1000 * id + (from + 1) + k - 1
<1>1. from + n - (from + 1) + 1 = n
    OBVIOUS
<1>2. \A k \in 1 .. n : e(k) = ByteOf(id, from + k) /\ e(k) \in Nat
    BY DEF ByteOf
<1>3. Body(id, from + 1, from + n) = [k \in 1 .. n |-> e(k)]
    BY <1>1 DEF Body
<1> HIDE DEF e
<1>4. PICK b : b = [k \in 1 .. n |-> e(k)]
    OBVIOUS
<1>5. b \in Seq(Nat) /\ Len(b) = n /\ \A k \in 1 .. n : b[k] = e(k)
    BY <1>2, <1>4
<1>6. QED
    BY <1>2, <1>3, <1>4, <1>5

\* A message's first n bytes.
LEMMA BeginningIs ==
    ASSUME NEW id \in Nat, NEW n \in Nat
    PROVE  /\ Body(id, 1, n) \in Seq(Nat) /\ Len(Body(id, 1, n)) = n
           /\ \A k \in 1 .. n : Body(id, 1, n)[k] = ByteOf(id, k)
<1>1. 0 \in Nat /\ 0 + 1 = 1 /\ 0 + n = n /\ \A k \in 1 .. n : 0 + k = k
    OBVIOUS
<1>2. /\ Body(id, 0 + 1, 0 + n) \in Seq(Nat) /\ Len(Body(id, 0 + 1, 0 + n)) = n
      /\ \A k \in 1 .. n : Body(id, 0 + 1, 0 + n)[k] = ByteOf(id, 0 + k)
    BY <1>1, BodyIs, ZenonT(30)
<1>3. QED
    BY <1>1, <1>2

\* Two runs side by side are one.
LEMMA BodiesJoin ==
    ASSUME NEW id \in Nat, NEW a \in Nat, NEW n \in Nat
    PROVE  Body(id, 1, a) \o Body(id, a + 1, a + n) = Body(id, 1, a + n)
<1>1. PICK x : x = Body(id, 1, a)
    OBVIOUS
<1>2. PICK y : y = Body(id, a + 1, a + n)
    OBVIOUS
<1>3. PICK z : z = Body(id, 1, a + n)
    OBVIOUS
<1>4. x \in Seq(Nat) /\ Len(x) = a /\ \A k \in 1 .. a : x[k] = ByteOf(id, k)
    BY <1>1, BeginningIs
<1>5. y \in Seq(Nat) /\ Len(y) = n /\ \A k \in 1 .. n : y[k] = ByteOf(id, a + k)
    BY <1>2, BodyIs
<1>6. z \in Seq(Nat) /\ Len(z) = a + n /\ \A k \in 1 .. a + n : z[k] = ByteOf(id, k)
  <2>1. a + n \in Nat
    OBVIOUS
  <2>2. QED
    BY <1>3, <2>1, BeginningIs
<1>7. /\ x \o y \in Seq(Nat) /\ Len(x \o y) = Len(x) + Len(y)
      /\ \A k \in 1 .. Len(x) + Len(y) : (x \o y)[k] = IF k <= Len(x) THEN x[k] ELSE y[k - Len(x)]
  <2>1. x \in Seq(Nat) /\ y \in Seq(Nat)
    BY <1>4, <1>5
  <2>2. QED
    BY <2>1, ConcatProperties
<1>8. ASSUME NEW k \in 1 .. a + n PROVE (x \o y)[k] = z[k]
  <2>1. z[k] = ByteOf(id, k) /\ (x \o y)[k] = IF k <= a THEN x[k] ELSE y[k - a]
    <3>1. Len(x) = a /\ Len(y) = n /\ z[k] = ByteOf(id, k)
      BY <1>4, <1>5, <1>6
    <3>2. QED
      BY <1>7, <3>1
  <2>2. CASE k <= a
    BY <1>4, <2>1, <2>2
  <2>3. CASE ~(k <= a)
    <3>1. PICK j \in 1 .. n : j = k - a
      BY <2>3
    <3>2. y[j] = ByteOf(id, a + j) /\ a + j = k
      BY <1>5, <3>1
    <3>3. QED
      BY <2>1, <2>3, <3>1, <3>2
  <2>4. QED
    BY <2>2, <2>3
<1>9. Len(x \o y) = Len(z)
    BY <1>4, <1>5, <1>6, <1>7
<1>10. x \o y = z
  <2>1. x \o y \in Seq(Nat) /\ z \in Seq(Nat)
    BY <1>6, <1>7
  <2>2. \A k \in 1 .. Len(x \o y) : (x \o y)[k] = z[k]
    <3>1. Len(x \o y) = a + n
      BY <1>6, <1>9
    <3>2. QED
      BY <1>8, <3>1
  <2>3. QED
    BY <1>9, <2>1, <2>2, SeqEqual
<1>11. QED
    BY <1>1, <1>2, <1>3, <1>10

\* A message of which off bytes are sent and the rest is to be.
Valid(s) ==
    /\ s.id \in Ids /\ s.shape \in Shapes /\ s.len \in Lens /\ s.off \in Nat
    /\ s.off < s.len \/ (s.len = 0 /\ s.off = 0)
    /\ s.off > 0 => s.len > MaxPayload
    /\ kind # "stream" => s.len >= 2

\* What the assumptions say of the constants, part by part.
LEMMA Sizes ==
    /\ MaxPayload \in Nat \ {0} /\ MaxPayload <= MaxRecord /\ MaxRecord \in Nat /\ MaxMsgs \in Nat
    /\ Half \in Nat /\ MaxPayload + 8 < Half
    /\ \A n \in Lens : n \in Nat /\ n < Half * Half
    /\ \A s \in Shapes : s.ch \in Nat /\ s.mt \in {0, 4} /\ s.enc \in {0, 8}
<1>1. Half \in Nat
  <2>1. Radix \in Nat
    BY RadixAssumption
  <2>2. QED
    BY <2>1 DEF Half
<1>2. /\ MaxPayload \in Nat \ {0} /\ MaxMsgs \in Nat
      /\ \A n \in Lens : n \in Nat /\ n < Half * Half
      /\ \A s \in Shapes : s.ch \in Nat /\ s.mt \in {0, 4} /\ s.enc \in {0, 8}
    BY SizesAssumption
<1>3. MaxPayload + 8 < Half
    BY SizesAssumption
<1>4. MaxPayload <= MaxRecord /\ MaxRecord \in Nat
    BY OneRecordAssumption, RecordAssumption
<1>5. QED
    BY <1>1, <1>2, <1>3, <1>4

\* The next chunk: at most a payload, empty for an empty message only; the
\* frame's type says whether it is the first and the last.
LEMMA ChunkIs ==
    ASSUME NEW s, Valid(s)
    PROVE  /\ Chunk(s) \in 0 .. MaxPayload /\ s.off + Chunk(s) \in 0 .. s.len
           /\ s.len # 0 => Chunk(s) # 0
           /\ FrameType(s) \in 0 .. 3
           /\ FrameType(s) \in {BULK, FIRST} <=> s.off = 0
           /\ s.off + Chunk(s) = s.len <=> Chunk(s) = RestLen(s)
           /\ s.off + Chunk(s) # s.len => s.len > MaxPayload
           /\ FrameType(s) = FIRST => s.len > MaxPayload /\ s.off = 0 /\ s.off + Chunk(s) # s.len
           /\ s.off = 0 /\ FrameType(s) # FIRST => s.off + Chunk(s) = s.len
<1>1. MaxPayload \in Nat \ {0} /\ s.len \in Nat /\ s.off \in Nat /\ s.off <= s.len
    BY Sizes DEF Valid
<1>2. s.len # 0 => s.off < s.len
    BY <1>1 DEF Valid
<1>3. RestLen(s) = s.len - s.off
    BY DEF RestLen
<1>4. PICK rest \in Nat : rest = RestLen(s)
    BY <1>1, <1>3
<1>5. Chunk(s) = IF rest <= MaxPayload THEN rest ELSE MaxPayload
  <2>1. Min({rest, MaxPayload}) = IF rest <= MaxPayload THEN rest ELSE MaxPayload
    <3>1. rest \in Int /\ MaxPayload \in Int
      BY <1>1, <1>4
    <3>2. QED
      BY <3>1, MinIs
  <2>2. QED
    BY <1>4, <2>1 DEF Chunk
<1>6. PICK c \in Nat : c = Chunk(s)
    BY <1>1, <1>4, <1>5
<1>7. FrameType(s) = IF s.len <= MaxPayload THEN 3
                     ELSE IF s.off = 0 THEN 1
                     ELSE IF rest <= MaxPayload THEN 2 ELSE 0
  <2>1. CASE s.len <= MaxPayload
    <3>1. s.off = 0
      BY <1>1, <2>1 DEF Valid
    <3>2. QED
      BY <1>1, <2>1, <3>1 DEF FrameType, BULK
  <2>2. CASE ~(s.len <= MaxPayload) /\ s.off = 0
    BY <1>1, <2>2 DEF FrameType, FIRST
  <2>3. CASE ~(s.len <= MaxPayload) /\ s.off # 0 /\ rest <= MaxPayload
    <3>1. s.off > 0
      BY <1>1, <2>3
    <3>2. QED
      BY <1>1, <1>4, <2>3, <3>1 DEF FrameType, LAST
  <2>4. CASE ~(s.len <= MaxPayload) /\ s.off # 0 /\ ~(rest <= MaxPayload)
    BY <1>1, <1>4, <2>4 DEF FrameType, MIDDLE
  <2>5. QED
    BY <2>1, <2>2, <2>3, <2>4
<1>8. rest = s.len - s.off /\ c = IF rest <= MaxPayload THEN rest ELSE MaxPayload
    BY <1>3, <1>4, <1>5, <1>6
<1>9. /\ c \in 0 .. MaxPayload /\ s.off + c \in 0 .. s.len /\ (s.len # 0 => c # 0)
      /\ s.off + c = s.len <=> c = rest
      /\ s.off + c # s.len => s.len > MaxPayload
    BY <1>1, <1>2, <1>8
<1>10. s.off > 0 => s.len > MaxPayload
    BY DEF Valid
<1>11. /\ FrameType(s) \in 0 .. 3
       /\ FrameType(s) \in {3, 1} <=> s.off = 0
       /\ FrameType(s) = 1 => s.len > MaxPayload /\ s.off = 0 /\ s.off + c # s.len
       /\ s.off = 0 /\ FrameType(s) # 1 => s.off + c = s.len
  <2>1. PICK ft : ft = FrameType(s)
    OBVIOUS
  <2>2. QED
    BY <1>1, <1>7, <1>8, <1>10, <2>1
<1>12. QED
    BY <1>4, <1>6, <1>9, <1>11 DEF BULK, FIRST

\* The chunk's bytes.
LEMMA PlainIs ==
    ASSUME NEW s, Valid(s)
    PROVE  /\ Plain(s) \in Seq(Nat) /\ Len(Plain(s)) = Chunk(s)
           /\ Body(s.id, 1, s.off) \o Plain(s) = Body(s.id, 1, s.off + Chunk(s))
           /\ s.id \in Nat
<1>1. s.id \in Nat /\ s.off \in Nat /\ Chunk(s) \in Nat
  <2>1. Chunk(s) \in Nat
    BY ChunkIs, Sizes
  <2>2. QED
    BY <2>1, Sizes DEF Valid, Ids
<1>2. Plain(s) = Body(s.id, s.off + 1, s.off + Chunk(s))
    BY DEF Plain
<1>3. /\ Body(s.id, s.off + 1, s.off + Chunk(s)) \in Seq(Nat)
      /\ Len(Body(s.id, s.off + 1, s.off + Chunk(s))) = Chunk(s)
    BY <1>1, BodyIs, ZenonT(40)
<1>4. Body(s.id, 1, s.off) \o Body(s.id, s.off + 1, s.off + Chunk(s))
        = Body(s.id, 1, s.off + Chunk(s))
    BY <1>1, BodiesJoin, Zenon
<1>5. QED
    BY <1>1, <1>2, <1>3, <1>4, Zenon

\* A frame can be encoded, and its payload is the chunk or a record of it.
LEMMA FrameIs ==
    ASSUME NEW s, Valid(s), kind \in {"stream", "plain", "sealed"},
           NEW n \in Int, Encrypts(s) => n \in Nat
    PROVE  /\ Frame(s, n) \in WireFrames
           /\ Frame(s, n).payload = IF Encrypts(s) THEN Record(n + 1, Plain(s)) ELSE Plain(s)
           /\ Len(Frame(s, n).payload) = Chunk(s) + (IF Encrypts(s) THEN 2 ELSE 0)
           /\ Encrypts(s) => RecordCount(Chunk(s)) = 1
<1>1. /\ s.shape.ch \in Nat /\ s.shape.mt \in {0, 4} /\ s.shape.enc \in {0, 8}
      /\ s.len \in Nat /\ s.len < Half * Half
    BY Sizes DEF Valid
<1>2. Plain(s) \in Seq(Nat) /\ Len(Plain(s)) = Chunk(s)
    BY PlainIs
<1>3. Chunk(s) \in 0 .. MaxPayload /\ (s.len # 0 => Chunk(s) # 0) /\ FrameType(s) \in 0 .. 3
    BY ChunkIs
<1>4. PICK c \in Nat : c = Chunk(s)
    BY <1>3, Sizes
<1>5. Encrypts(s) => c # 0 /\ c <= MaxRecord
  <2>1. Encrypts(s) => s.len >= 2
    BY DEF Encrypts, Valid
  <2>2. c <= MaxRecord
    BY <1>3, <1>4, Sizes
  <2>3. QED
    BY <1>1, <1>3, <1>4, <2>1, <2>2
<1>6. Payload(s, n) = IF Encrypts(s) THEN Record(n + 1, Plain(s)) ELSE Plain(s)
  <2>1. CASE Encrypts(s)
    <3>1. Encrypt(n, Plain(s)) = Record(n + 1, Plain(s))
      BY <1>2, <1>4, <1>5, <2>1, EncryptIs
    <3>2. QED
      BY <2>1, <3>1 DEF Payload
  <2>2. CASE ~Encrypts(s)
    BY <2>2 DEF Payload
  <2>3. QED
    BY <2>1, <2>2
<1>7. PICK q : q = Payload(s, n)
    OBVIOUS
<1>8. q \in Seq(Nat) /\ Len(q) = c + (IF Encrypts(s) THEN 2 ELSE 0)
  <2>1. CASE Encrypts(s)
    <3>1. n + 1 \in Nat
      BY <2>1
    <3>2. Record(n + 1, Plain(s)) \in Seq(Nat) /\ Len(Record(n + 1, Plain(s))) = 2 + Len(Plain(s))
      BY <1>2, <3>1, RecordIs
    <3>3. q = Record(n + 1, Plain(s))
      BY <1>6, <1>7, <2>1
    <3>4. QED
      BY <1>2, <1>4, <2>1, <3>2, <3>3
  <2>2. CASE ~Encrypts(s)
    <3>1. q = Plain(s)
      BY <1>6, <1>7, <2>2
    <3>2. QED
      BY <1>2, <1>4, <2>2, <3>1
  <2>3. QED
    BY <2>1, <2>2
<1>9. PICK tot : tot = IF FrameType(s) = FIRST THEN s.len ELSE 0
    OBVIOUS
<1>10. Frame(s, n) = [ch |-> s.shape.ch, ft |-> FrameType(s), mt |-> s.shape.mt,
                      enc |-> s.shape.enc, total |-> tot, payload |-> q]
    BY <1>7, <1>9 DEF Frame
<1>11. Len(q) < Half
  <2>1. Len(q) <= c + 2
    BY <1>8
  <2>2. c + 2 < Half
    BY <1>3, <1>4, Sizes
  <2>3. Len(q) \in Nat /\ Half \in Nat
    BY <1>8, Sizes
  <2>4. QED
    BY <2>1, <2>2, <2>3
<1>12. tot \in Nat /\ tot < Half * Half /\ (FrameType(s) # FIRST => tot = 0)
  <2>1. 0 < Half * Half
    <3>1. PICK w : w = Half * Half
      OBVIOUS
    <3>2. w \in Int
      BY <3>1, Sizes
    <3>3. s.len < w
      BY <1>1, <3>1
    <3>4. QED
      BY <1>1, <3>1, <3>2, <3>3
  <2>2. QED
    BY <1>1, <1>9, <2>1
<1>13. Frame(s, n) \in WireFrames
    BY <1>1, <1>3, <1>8, <1>10, <1>11, <1>12 DEF WireFrames
<1>14. Frame(s, n).payload = q
    BY <1>10
<1>15. Encrypts(s) => RecordCount(Chunk(s)) = 1
    BY <1>4, <1>5, OneRecord
<1>16. QED
    BY <1>4, <1>6, <1>7, <1>8, <1>13, <1>14, <1>15

-----------------------------------------------------------------------------
(* The inductive invariant.                                                *)

Msgs == [id : Ids, shape : Shapes, len : Lens]
Whole(m) == [ch |-> m.shape.ch, mt |-> Reported(m.shape.mt), body |-> Body(m.id, 1, m.len)]
Due(m, off) == [id |-> m.id, shape |-> m.shape, len |-> m.len, off |-> off]
Sending == [id : Ids, shape : Shapes, len : Lens, off : Nat]
Messages == [ch : Nat, mt : {0, 4}, body : Seq(Nat)]
Assembly == [ch : Nat, mt : {0, 4}, total : Nat, body : Seq(Nat)]

VarsTyped ==
    /\ kind \in {"stream", "plain", "sealed"} /\ slack \in Slacks
    /\ sending \in Sending \cup {Idle} /\ tx_seq \in Nat /\ last_id \in 0 .. MaxMsgs
    /\ accepted \in Seq(Messages) /\ wire \in Seq(Nat) /\ in \in Seq(Nat)
    /\ in_message \in BOOLEAN /\ msg \in Assembly
    /\ tls \in TlsStates /\ tls.off \in 0 .. Len(tls.in)
    /\ rpc \in {"idle", "parse", "failed"} /\ yielded \in Seq(Messages)

\* A place in the bytes not consumed yet: pos of them are before it, and with
\* those n messages are completed, off bytes of m received and seq records made.
Places == [n : Nat, off : Nat, m : Msgs \cup {Idle}, pos : Nat, seq : Nat]
Flow == in \o wire

\* From place p to place q there is one frame, the next of message q.m.
Passes(acc, bytes, gap, p, q) ==
    LET s == Due(q.m, p.off)
        e == Encode(Frame(s, q.seq - 1))
        upto == p.off + Chunk(s)
    IN  /\ q.m \in Msgs /\ Valid(s)
        /\ p.off > 0 => p.m = q.m
        /\ Encrypts(s) => q.seq >= 1
        /\ gap \/ q.seq = IF Encrypts(s) THEN p.seq + 1 ELSE p.seq
        /\ q.pos = p.pos + Len(e) /\ q.pos <= Len(bytes)
        /\ \A k \in 1 .. Len(e) : bytes[p.pos + k] = e[k]
        /\ upto # q.m.len => q.off = upto /\ q.n = p.n
        /\ upto = q.m.len =>
              /\ q.off = 0 /\ q.n = p.n + 1
              /\ q.n <= Len(acc) /\ acc[q.n] = Whole(q.m)

\* The reader is at place p: what it has of a message, and, unless it has
\* failed, nothing in its TLS session.
StartsAt(p) ==
    /\ p.n = Len(yielded) /\ p.pos = 0
    /\ ~in_message => p.off = 0
    /\ in_message =>
          /\ p.m \in Msgs /\ p.off \in 1 .. p.m.len - 1 /\ p.m.len > MaxPayload
          /\ msg = [ch |-> p.m.shape.ch, mt |-> Reported(p.m.shape.mt), total |-> p.m.len,
                    body |-> Body(p.m.id, 1, p.off)]
    /\ rpc # "failed" => Drained(tls) /\ (Refused = 0 => p.seq = tls.seq)

\* The writer is at place p.
EndsAt(p) ==
    /\ p.n = Len(accepted) /\ p.pos = Len(Flow)
    /\ sending # Idle /\ sending.off > 0 =>
          /\ p.off = sending.off
          /\ p.m = [id |-> sending.id, shape |-> sending.shape, len |-> sending.len]
    /\ p.off > 0 => sending # Idle /\ sending.off = p.off
    /\ Refused = 0 => p.seq = tx_seq

Follows(n, at) ==
    /\ StartsAt(at[0])
    /\ \A i \in 1 .. n : Passes(accepted, Flow, Refused # 0, at[i - 1], at[i])
    /\ \A i, j \in 0 .. n : i <= j => at[i].pos <= at[j].pos
    /\ EndsAt(at[n])

FlowFollows == \E n \in Nat : \E at \in [0 .. n -> Places] : Follows(n, at)

SendOK == (sending # Idle => Valid(sending)) /\ Refused \in Nat

IInv ==
    /\ VarsTyped /\ SendOK /\ FlowFollows /\ FailsOnlyForGap
    /\ Len(yielded) <= Len(accepted)

-----------------------------------------------------------------------------
(* The frame at the head of the buffer.                                    *)

\* The flow, position by position: first what the reader has, then the wire.
LEMMA FlowIs ==
    ASSUME VarsTyped
    PROVE  /\ Flow \in Seq(Nat) /\ Len(Flow) = Len(in) + Len(wire)
           /\ Len(in) \in Nat /\ Len(wire) \in Nat
           /\ \A k \in 1 .. Len(in) : Flow[k] = in[k]
           /\ \A k \in 1 .. Len(wire) : Flow[Len(in) + k] = wire[k]
<1>1. in \in Seq(Nat) /\ wire \in Seq(Nat) /\ Len(in) \in Nat /\ Len(wire) \in Nat
    BY DEF VarsTyped
<1>2. /\ Flow \in Seq(Nat) /\ Len(Flow) = Len(in) + Len(wire)
      /\ \A k \in 1 .. Len(in) + Len(wire) : Flow[k] = IF k <= Len(in) THEN in[k] ELSE wire[k - Len(in)]
    BY <1>1, ConcatProperties DEF Flow
<1>3. \A k \in 1 .. Len(in) : Flow[k] = in[k]
  <2>1. \A k \in 1 .. Len(in) : k \in 1 .. Len(in) + Len(wire) /\ k <= Len(in)
    BY <1>1
  <2>2. QED
    BY <1>2, <2>1
<1>4. ASSUME NEW k \in 1 .. Len(wire) PROVE Flow[Len(in) + k] = wire[k]
  <2>1. PICK j : j = Len(in) + k
    OBVIOUS
  <2>2. j \in 1 .. Len(in) + Len(wire) /\ ~(j <= Len(in)) /\ j - Len(in) = k
    BY <1>1, <2>1
  <2>3. QED
    BY <1>2, <2>1, <2>2
<1>5. QED
    BY <1>1, <1>2, <1>3, <1>4

\* The length of a frame.
LEMMA EncodedLen ==
    ASSUME NEW q \in Places, NEW off, Valid(Due(q.m, off)),
           Encrypts(Due(q.m, off)) => q.seq >= 1, kind \in {"stream", "plain", "sealed"}
    PROVE  /\ Len(Encode(Frame(Due(q.m, off), q.seq - 1))) \in Nat
           /\ Len(Encode(Frame(Due(q.m, off), q.seq - 1))) >= 4
<1>1. PICK s : s = Due(q.m, off)
    OBVIOUS
<1>2. q.seq \in Nat
    BY DEF Places
<1>3. PICK k \in Int : k = q.seq - 1
    BY <1>2
<1>4. Valid(s) /\ (Encrypts(s) => k \in Nat)
    BY <1>1, <1>2, <1>3
<1>5. PICK f \in WireFrames : f = Frame(s, k)
    BY <1>4, FrameIs
<1>6. Encode(f) \in Seq(Nat) /\ Len(Encode(f)) = HeaderLen(f.ft) + Len(f.payload)
      /\ HeaderLen(f.ft) \in {4, 8}
    BY EncodeIs
<1>7. Len(f.payload) \in Nat
    BY DEF WireFrames
<1>8. Len(Encode(f)) \in Nat /\ Len(Encode(f)) >= 4
    BY <1>6, <1>7
<1>9. QED
    BY <1>1, <1>3, <1>5, <1>8

\* What can be decoded is the frame before the first place but one.
LEMMA HeadIs ==
    ASSUME VarsTyped, NEW n \in Nat, NEW at \in [0 .. n -> Places], Follows(n, at), Decodable(in),
           NEW s, s = Due(at[1].m, at[0].off), NEW f, f = Frame(s, at[1].seq - 1)
    PROVE  /\ n >= 1 /\ f \in WireFrames /\ Decode(in) = f
           /\ at[1].pos = HeaderLen(f.ft) + Len(f.payload) /\ at[1].pos <= Len(in)
<1>1. Len(in) >= 4 /\ Len(in) \in Nat /\ Len(wire) \in Nat /\ Len(Flow) = Len(in) + Len(wire)
    BY FlowIs DEF Decodable
<1>2. n >= 1
  <2>1. at[0].pos = 0 /\ at[n].pos = Len(Flow)
    BY DEF Follows, StartsAt, EndsAt
  <2>2. QED
    BY <1>1, <2>1
<1>3. 0 \in 0 .. n /\ 1 \in 0 .. n /\ 1 \in 1 .. n /\ 1 - 1 = 0
    BY <1>2
<1>4. Passes(accepted, Flow, Refused # 0, at[0], at[1])
  <2>1. \A i \in 1 .. n : Passes(accepted, Flow, Refused # 0, at[i - 1], at[i])
    BY DEF Follows
  <2>2. Passes(accepted, Flow, Refused # 0, at[1 - 1], at[1])
    BY <1>3, <2>1
  <2>3. QED
    BY <1>3, <2>2
<1>5. at[0] \in Places /\ at[1] \in Places /\ at[0].pos = 0
    BY <1>3 DEF Follows, StartsAt
<1>6. PICK e : e = Encode(f)
    OBVIOUS
<1>7. /\ Valid(s) /\ (Encrypts(s) => at[1].seq >= 1)
      /\ at[1].pos = at[0].pos + Len(e)
      /\ \A k \in 1 .. Len(e) : Flow[at[0].pos + k] = e[k]
    BY <1>4, <1>6 DEF Passes
<1>8. f \in WireFrames
  <2>1. at[1].seq \in Nat
    BY <1>5 DEF Places
  <2>2. PICK q \in Int : q = at[1].seq - 1
    BY <2>1
  <2>3. Encrypts(s) => q \in Nat
    BY <1>7, <2>1, <2>2
  <2>4. kind \in {"stream", "plain", "sealed"}
    BY DEF VarsTyped
  <2>5. Frame(s, q) \in WireFrames
    BY <1>7, <2>3, <2>4, FrameIs
  <2>6. QED
    BY <2>2, <2>5
<1>9. e \in Seq(Nat) /\ Len(e) = HeaderLen(f.ft) + Len(f.payload) /\ Len(e) \in Nat
  <2>1. e \in Seq(Nat) /\ Len(e) = HeaderLen(f.ft) + Len(f.payload)
    BY <1>6, <1>8, EncodeIs
  <2>2. QED
    BY <2>1
<1>10. \A k \in 1 .. Len(in) : k <= Len(e) => in[k] = e[k]
  <2>1. TAKE k \in 1 .. Len(in)
  <2>2. HAVE k <= Len(e)
  <2>3. k \in 1 .. Len(e) /\ 0 + k = k
    BY <1>9, <2>2
  <2>4. Flow[0 + k] = e[k]
    BY <1>5, <1>7, <2>3
  <2>5. Flow[k] = in[k]
    BY FlowIs
  <2>6. QED
    BY <2>3, <2>4, <2>5
<1>11. in \in Seq(Nat)
    BY DEF VarsTyped
<1>12. (Decodable(in) <=> Len(in) >= Len(e)) /\ (Decodable(in) => Decode(in) = f)
  <2>1. \A k \in 1 .. Len(in) : k <= Len(Encode(f)) => in[k] = Encode(f)[k]
    BY <1>6, <1>10
  <2>2. QED
    BY <1>6, <1>8, <1>11, <2>1, DecodeIs
<1>13. at[1].pos = Len(e)
    BY <1>5, <1>7, <1>9
<1>14. QED
    BY <1>2, <1>8, <1>9, <1>12, <1>13

\* A frame opens unless it is the record of another number.
LEMMA OpenedIs ==
    ASSUME VarsTyped, Drained(tls), NEW s, Valid(s), NEW n \in Int, Encrypts(s) => n \in Nat,
           NEW f, f = Frame(s, n)
    PROVE  LET o == Opened(f)
           IN  /\ o.ok \in BOOLEAN /\ o.ok <=> (Encrypts(s) => n + 1 = tls.seq + 1)
               /\ o.tls \in TlsStates /\ o.tls.off \in 0 .. Len(o.tls.in)
               /\ o.ok => /\ o.plain = Plain(s) /\ Drained(o.tls)
                          /\ o.tls.seq = IF Encrypts(s) THEN n + 1 ELSE tls.seq
<1>1. kind \in {"stream", "plain", "sealed"} /\ tls \in TlsStates /\ tls.off \in 0 .. Len(tls.in)
    BY DEF VarsTyped
<1>2. f \in WireFrames /\ f.payload = IF Encrypts(s) THEN Record(n + 1, Plain(s)) ELSE Plain(s)
    BY <1>1, FrameIs
<1>3. Decrypts(f) <=> Encrypts(s)
    BY DEF Decrypts, Encrypts, Frame
<1>4. PICK o : o = Opened(f)
    OBVIOUS
<1>5. CASE Encrypts(s)
  <2>1. n + 1 \in Nat
    BY <1>5
  <2>2. Plain(s) \in Seq(Nat)
    BY PlainIs
  <2>3. f.payload = Record(n + 1, Plain(s))
    BY <1>2, <1>5
  <2>4. Len(Record(n + 1, Plain(s))) = 2 + Len(Plain(s))
    BY <2>1, <2>2, RecordIs
  <2>5. PICK cap : cap = Len(f.payload) + 1
    OBVIOUS
  <2>6. cap \in Nat /\ cap >= Len(Plain(s))
    BY <2>2, <2>3, <2>4, <2>5
  <2>7. o = Decrypt(tls, Record(n + 1, Plain(s)), cap)
    BY <1>3, <1>4, <1>5, <2>3, <2>5 DEF Opened
  <2>8. /\ o.ok \in BOOLEAN /\ o.ok <=> n + 1 = tls.seq + 1
        /\ o.tls \in TlsStates /\ o.tls.off \in 0 .. Len(o.tls.in)
        /\ o.ok => o.plain = Plain(s) /\ Drained(o.tls) /\ o.tls.seq = n + 1
    <3>1. PICK t \in TlsStates : t = tls
      BY <1>1
    <3>2. PICK k \in Nat : k = n + 1
      BY <2>1
    <3>3. PICK plain \in Seq(Nat) : plain = Plain(s)
      BY <2>2
    <3>4. Drained(t) /\ cap >= Len(plain) /\ cap \in Nat
      BY <2>6, <3>1, <3>3
    <3>5. o = Decrypt(t, Record(k, plain), cap)
      BY <2>7, <3>1, <3>2, <3>3
    <3>6. /\ o.ok \in BOOLEAN /\ o.ok <=> k = t.seq + 1
          /\ o.tls \in TlsStates /\ o.tls.off \in 0 .. Len(o.tls.in)
          /\ o.ok => o.plain = plain /\ Drained(o.tls) /\ o.tls.seq = k
      BY <3>4, <3>5, DecryptIs
    <3>7. QED
      BY <3>1, <3>2, <3>3, <3>6
  <2>9. QED
    BY <1>4, <1>5, <2>8
<1>6. CASE ~Encrypts(s)
  <2>1. o = [ok |-> TRUE, plain |-> f.payload, tls |-> tls]
    BY <1>3, <1>4, <1>6 DEF Opened
  <2>2. o.ok = TRUE /\ o.plain = Plain(s) /\ o.tls = tls
    BY <1>2, <1>6, <2>1
  <2>3. QED
    BY <1>1, <1>4, <1>6, <2>2
<1>7. QED
    BY <1>5, <1>6

\* The message under assembly with the frame added to it.
LEMMA AssembledIs ==
    ASSUME NEW p \in Places, StartsAt(p), in_message \in BOOLEAN, NEW m \in Msgs,
           p.off > 0 => p.m = m, NEW s, s = Due(m, p.off), Valid(s), NEW n
    PROVE  Assemble(Frame(s, n), Plain(s))
             = [ch |-> m.shape.ch, mt |-> Reported(m.shape.mt), total |-> m.len,
                body |-> Body(m.id, 1, p.off + Chunk(s))]
<1>1. s.id = m.id /\ s.shape = m.shape /\ s.len = m.len /\ s.off = p.off /\ p.off \in Nat
    BY DEF Due, Places
<1>2. PICK f : f = Frame(s, n)
    OBVIOUS
<1>3. /\ f.ch = m.shape.ch /\ f.mt = m.shape.mt /\ f.ft = FrameType(s)
      /\ f.ft = FIRST => f.total = m.len
    BY <1>1, <1>2 DEF Frame
<1>4. /\ FrameType(s) \in {BULK, FIRST} <=> p.off = 0
      /\ p.off = 0 /\ FrameType(s) # FIRST => p.off + Chunk(s) = m.len
      /\ Chunk(s) \in Nat
  <2>1. Chunk(s) \in 0 .. MaxPayload /\ MaxPayload \in Nat
    BY ChunkIs, Sizes
  <2>2. QED
    BY <1>1, <2>1, ChunkIs
<1>5. /\ Plain(s) \in Seq(Nat) /\ Len(Plain(s)) = Chunk(s)
      /\ Body(m.id, 1, p.off) \o Plain(s) = Body(m.id, 1, p.off + Chunk(s))
      /\ m.id \in Nat
    BY <1>1, PlainIs
<1>6. CASE ~in_message
  <2>1. p.off = 0
    BY <1>6 DEF StartsAt
  <2>2. Plain(s) = Body(m.id, 1, p.off + Chunk(s))
    <3>1. Plain(s) = Body(m.id, 0 + 1, 0 + Chunk(s)) /\ 0 + 1 = 1
      BY <1>1, <2>1 DEF Plain
    <3>2. QED
      BY <2>1, <3>1
  <2>3. (IF f.ft = FIRST THEN f.total ELSE Len(Plain(s))) = m.len
    BY <1>3, <1>4, <1>5, <2>1
  <2>4. Assemble(f, Plain(s)) = [ch |-> f.ch, mt |-> Reported(f.mt), body |-> Plain(s),
                                 total |-> IF f.ft = FIRST THEN f.total ELSE Len(Plain(s))]
    BY <1>6 DEF Assemble
  <2>5. QED
    BY <1>2, <1>3, <2>2, <2>3, <2>4
<1>7. CASE in_message
  <2>1. /\ p.m = m /\ p.off # 0
        /\ msg = [ch |-> m.shape.ch, mt |-> Reported(m.shape.mt), total |-> m.len,
                  body |-> Body(m.id, 1, p.off)]
    <3>1. /\ p.off \in 1 .. p.m.len - 1
          /\ msg = [ch |-> p.m.shape.ch, mt |-> Reported(p.m.shape.mt), total |-> p.m.len,
                    body |-> Body(p.m.id, 1, p.off)]
      BY <1>7 DEF StartsAt
    <3>2. p.off > 0
      BY <1>1, <3>1
    <3>3. QED
      BY <3>1, <3>2
  <2>2. f.ft # FIRST
    BY <1>3, <1>4, <2>1
  <2>3. Assemble(f, Plain(s)) = [msg EXCEPT !.body = msg.body \o Plain(s)]
    BY <1>7, <2>2 DEF Assemble
  <2>4. PICK b : b = msg.body \o Plain(s)
    OBVIOUS
  <2>5. b = Body(m.id, 1, p.off + Chunk(s))
    <3>1. msg.body = Body(m.id, 1, p.off)
      BY <2>1
    <3>2. QED
      BY <1>5, <2>4, <3>1
  <2>6. [msg EXCEPT !.body = b] = [ch |-> m.shape.ch, mt |-> Reported(m.shape.mt), total |-> m.len,
                                   body |-> b]
    BY <2>1
  <2>7. QED
    BY <1>2, <2>3, <2>4, <2>5, <2>6
<1>8. QED
    BY <1>6, <1>7

\* What taking a frame does: the reader goes on from place p to place q, and
\* returns the message if the frame was its last.
Takes(p, q) ==
    LET s == Due(q.m, p.off)
    IN  /\ p \in Places /\ q \in Places /\ Passes(accepted, Flow, Refused # 0, p, q)
        /\ in' = SubSeq(in, q.pos + 1, Len(in)) /\ q.pos <= Len(in)
        /\ tls' \in TlsStates /\ tls'.off \in 0 .. Len(tls'.in) /\ Drained(tls')
        /\ tls'.seq = IF Encrypts(s) THEN q.seq ELSE tls.seq
        /\ p.off + Chunk(s) = q.m.len =>
              /\ in_message' = FALSE /\ msg' = NoMsg /\ rpc' = "idle"
              /\ yielded' = Append(yielded, Whole(q.m))
        /\ p.off + Chunk(s) # q.m.len =>
              /\ in_message' = TRUE /\ UNCHANGED <<yielded, rpc>>
              /\ msg' = [ch |-> q.m.shape.ch, mt |-> Reported(q.m.shape.mt), total |-> q.m.len,
                         body |-> Body(q.m.id, 1, p.off + Chunk(s))]

\* The frame taken is the one between the first two places.
LEMMA TakeFrameIs ==
    ASSUME VarsTyped, NEW n \in Nat, NEW at \in [0 .. n -> Places], Follows(n, at), TakeFrame
    PROVE  n >= 1 /\ Takes(at[0], at[1])
<1> DEFINE p == at[0]
           q == at[1]
           s == Due(q.m, p.off)
<1> HIDE DEF p, q, s
<1>0. p = at[0] /\ q = at[1] /\ s = Due(q.m, p.off)
    BY DEF p, q, s
<1>1. Decodable(in) /\ rpc = "parse"
    BY DEF TakeFrame
<1>2. PICK f : f = Frame(s, q.seq - 1)
    OBVIOUS
<1>3. /\ n >= 1 /\ f \in WireFrames /\ Decode(in) = f
      /\ q.pos = HeaderLen(f.ft) + Len(f.payload) /\ q.pos <= Len(in)
    BY <1>0, <1>1, <1>2, HeadIs
<1>4. 0 \in 0 .. n /\ 1 \in 0 .. n /\ 1 \in 1 .. n /\ 1 - 1 = 0
    BY <1>3
<1>5. Passes(accepted, Flow, Refused # 0, p, q) /\ p \in Places /\ q \in Places
  <2>1. \A i \in 1 .. n : Passes(accepted, Flow, Refused # 0, at[i - 1], at[i])
    BY DEF Follows
  <2>2. Passes(accepted, Flow, Refused # 0, at[1 - 1], at[1])
    BY <1>4, <2>1
  <2>3. QED
    BY <1>0, <1>4, <2>2
<1>6. /\ Valid(s) /\ q.m \in Msgs /\ (p.off > 0 => p.m = q.m)
      /\ (Encrypts(s) => q.seq >= 1)
    BY <1>0, <1>5 DEF Passes
<1>7. q.seq \in Nat /\ p.off \in Nat /\ q.m.len \in Nat /\ s.len = q.m.len /\ s.off = p.off
    BY <1>0, <1>5, <1>6, Sizes DEF Places, Msgs, Due
<1>8. Drained(tls) /\ StartsAt(p)
    BY <1>0, <1>1 DEF Follows, StartsAt
<1>9. PICK o : o = Opened(f)
    OBVIOUS
<1>10. /\ o.tls \in TlsStates /\ o.tls.off \in 0 .. Len(o.tls.in)
       /\ o.ok => /\ o.plain = Plain(s) /\ Drained(o.tls)
                  /\ o.tls.seq = IF Encrypts(s) THEN q.seq ELSE tls.seq
  <2>1. PICK k \in Int : k = q.seq - 1
    BY <1>7
  <2>2. (Encrypts(s) => k \in Nat) /\ k + 1 = q.seq /\ f = Frame(s, k)
    BY <1>2, <1>6, <1>7, <2>1
  <2>3. /\ o.tls \in TlsStates /\ o.tls.off \in 0 .. Len(o.tls.in)
        /\ o.ok => /\ o.plain = Plain(s) /\ Drained(o.tls)
                   /\ o.tls.seq = IF Encrypts(s) THEN k + 1 ELSE tls.seq
    BY <1>6, <1>8, <1>9, <2>2, OpenedIs
  <2>4. QED
    BY <2>2, <2>3
<1>11. o.ok /\ tls' = o.tls /\ in' = Consume(f)
    BY <1>3, <1>9 DEF TakeFrame
<1>12. PICK upto : upto = p.off + Chunk(s)
    OBVIOUS
<1>13. PICK a : a = Assemble(f, Plain(s))
    OBVIOUS
<1>14. a = [ch |-> q.m.shape.ch, mt |-> Reported(q.m.shape.mt), total |-> q.m.len,
            body |-> Body(q.m.id, 1, upto)]
  <2>1. in_message \in BOOLEAN
    BY DEF VarsTyped
  <2>2. Assemble(Frame(s, q.seq - 1), Plain(s))
          = [ch |-> q.m.shape.ch, mt |-> Reported(q.m.shape.mt), total |-> q.m.len,
             body |-> Body(q.m.id, 1, p.off + Chunk(s))]
    <3>1. PICK m \in Msgs : m = q.m
      BY <1>6
    <3>2. (p.off > 0 => p.m = m) /\ s = Due(m, p.off)
      BY <1>0, <1>6, <3>1
    <3>3. \A k : Assemble(Frame(s, k), Plain(s))
                   = [ch |-> m.shape.ch, mt |-> Reported(m.shape.mt), total |-> m.len,
                      body |-> Body(m.id, 1, p.off + Chunk(s))]
      BY <1>5, <1>6, <1>8, <2>1, <3>2, AssembledIs
    <3>4. QED
      BY <3>1, <3>3
  <2>3. QED
    BY <1>2, <1>12, <1>13, <2>2, Zenon
<1>15. upto \in 0 .. q.m.len
    BY <1>6, <1>7, <1>12, ChunkIs
<1>16. Len(a.body) = upto /\ a.total = q.m.len
  <2>1. q.m.id \in Nat /\ upto \in Nat
    BY <1>6, <1>7, <1>15, Sizes DEF Msgs, Ids
  <2>2. Len(Body(q.m.id, 1, upto)) = upto
    BY <2>1, BeginningIs
  <2>3. QED
    BY <1>14, <2>2
<1>17. Len(a.body) >= a.total <=> upto = q.m.len
    BY <1>7, <1>15, <1>16
<1>18. IF Len(a.body) >= a.total
       THEN /\ in_message' = FALSE /\ msg' = NoMsg /\ rpc' = "idle"
            /\ yielded' = Append(yielded, [ch |-> a.ch, mt |-> a.mt, body |-> a.body])
       ELSE in_message' = TRUE /\ msg' = a /\ UNCHANGED <<yielded, rpc>>
  <2>1. o.plain = Plain(s)
    BY <1>10, <1>11
  <2>2. QED
    BY <1>3, <1>9, <1>13, <2>1 DEF TakeFrame
<1>19. in' = SubSeq(in, q.pos + 1, Len(in))
    BY <1>3, <1>11 DEF Consume
<1>20. /\ tls' \in TlsStates /\ tls'.off \in 0 .. Len(tls'.in) /\ Drained(tls')
       /\ tls'.seq = IF Encrypts(s) THEN q.seq ELSE tls.seq
    BY <1>10, <1>11
<1>21. upto = q.m.len =>
          /\ in_message' = FALSE /\ msg' = NoMsg /\ rpc' = "idle"
          /\ yielded' = Append(yielded, Whole(q.m))
  <2>1. upto = q.m.len => [ch |-> a.ch, mt |-> a.mt, body |-> a.body] = Whole(q.m)
    BY <1>14 DEF Whole
  <2>2. QED
    BY <1>17, <1>18, <2>1
<1>22. upto # q.m.len =>
          /\ in_message' = TRUE /\ UNCHANGED <<yielded, rpc>>
          /\ msg' = [ch |-> q.m.shape.ch, mt |-> Reported(q.m.shape.mt), total |-> q.m.len,
                     body |-> Body(q.m.id, 1, upto)]
    BY <1>14, <1>17, <1>18
<1>23. Takes(p, q)
    BY <1>0, <1>3, <1>5, <1>12, <1>19, <1>20, <1>21, <1>22 DEF Takes
<1>24. QED
    BY <1>0, <1>3, <1>23

\* A frame that does not open is the record of another number, and leaves a
\* typed TLS session.
LEMMA BadFrameIs ==
    ASSUME VarsTyped, FlowFollows, Decodable(in), rpc = "parse"
    PROVE  /\ Opened(Decode(in)).tls \in TlsStates
           /\ Opened(Decode(in)).tls.off \in 0 .. Len(Opened(Decode(in)).tls.in)
           /\ ~Opened(Decode(in)).ok => kind = "sealed" /\ Refused # 0
<1>1. PICK n \in Nat : \E at \in [0 .. n -> Places] : Follows(n, at)
    BY DEF FlowFollows
<1>2. PICK at \in [0 .. n -> Places] : Follows(n, at)
    BY <1>1
<1>3. PICK s : s = Due(at[1].m, at[0].off)
    OBVIOUS
<1>4. PICK f : f = Frame(s, at[1].seq - 1)
    OBVIOUS
<1>5. n >= 1 /\ Decode(in) = f
    BY <1>2, <1>3, <1>4, HeadIs
<1>6. Passes(accepted, Flow, Refused # 0, at[0], at[1]) /\ at[0] \in Places /\ at[1] \in Places
  <2>1. 0 \in 0 .. n /\ 1 \in 0 .. n /\ 1 \in 1 .. n /\ 1 - 1 = 0
    BY <1>5
  <2>2. \A i \in 1 .. n : Passes(accepted, Flow, Refused # 0, at[i - 1], at[i])
    BY <1>2 DEF Follows
  <2>3. Passes(accepted, Flow, Refused # 0, at[1 - 1], at[1])
    BY <2>1, <2>2
  <2>4. QED
    BY <2>1, <2>3
<1>7. /\ Valid(s) /\ (Encrypts(s) => at[1].seq >= 1)
      /\ Refused # 0 \/ at[1].seq = IF Encrypts(s) THEN at[0].seq + 1 ELSE at[0].seq
    BY <1>3, <1>6 DEF Passes
<1>8. Drained(tls) /\ (Refused = 0 => at[0].seq = tls.seq)
    BY <1>2 DEF Follows, StartsAt
<1>9. PICK k \in Int : k = at[1].seq - 1
    BY <1>6 DEF Places
<1>10. (Encrypts(s) => k \in Nat) /\ f = Frame(s, k) /\ at[1].seq = k + 1
  <2>1. at[1].seq \in Nat
    BY <1>6 DEF Places
  <2>2. (Encrypts(s) => k \in Nat) /\ at[1].seq = k + 1
    BY <1>7, <1>9, <2>1
  <2>3. QED
    BY <1>4, <1>9, <2>2
<1>11. PICK o : o = Opened(f)
    OBVIOUS
<1>12. /\ o.tls \in TlsStates /\ o.tls.off \in 0 .. Len(o.tls.in)
       /\ o.ok <=> (Encrypts(s) => k + 1 = tls.seq + 1)
    BY <1>7, <1>8, <1>10, <1>11, OpenedIs
<1>13. ~o.ok => Encrypts(s) /\ Refused # 0
    BY <1>7, <1>8, <1>10, <1>12
<1>14. QED
    BY <1>5, <1>11, <1>12, <1>13 DEF Encrypts

\* A frame is refused for its size only if it is the first of a message.
LEMMA RefusedAtOnce ==
    ASSUME VarsTyped, Valid(sending), ~Fits
    PROVE  sending.off = 0 /\ kind = "sealed"
<1>1. PICK s : s = sending
    OBVIOUS
<1>2. PICK f : f = Frame(s, tx_seq)
    OBVIOUS
<1>3. Valid(s) /\ kind \in {"stream", "plain", "sealed"} /\ tx_seq \in Nat /\ slack \in Nat /\ slack >= 8
  <2>1. slack \in Slacks
    BY DEF VarsTyped
  <2>2. QED
    BY <1>1, <2>1, SizesAssumption DEF VarsTyped
<1>4. Len(f.payload) = Chunk(s) + (IF Encrypts(s) THEN 2 ELSE 0) /\ f.ft = FrameType(s)
  <2>1. tx_seq \in Int
    BY <1>3
  <2>2. Len(Frame(s, tx_seq).payload) = Chunk(s) + (IF Encrypts(s) THEN 2 ELSE 0)
    BY <1>3, <2>1, FrameIs
  <2>3. QED
    BY <1>2, <2>2 DEF Frame
<1>5. ~(HeaderLen(f.ft) + Len(f.payload) <= MaxPayload + slack)
    BY <1>1, <1>2 DEF Fits, FitsBuffer
<1>6. Chunk(s) \in 0 .. MaxPayload /\ MaxPayload \in Nat
    BY <1>3, ChunkIs, Sizes
<1>7. FrameType(s) = FIRST => s.off = 0
    BY <1>3, ChunkIs
<1>8. HeaderLen(f.ft) = IF FrameType(s) = FIRST THEN 8 ELSE 4
    BY <1>4 DEF HeaderLen
<1>9. FrameType(s) = FIRST /\ Encrypts(s)
    BY <1>3, <1>4, <1>5, <1>6, <1>8
<1>10. QED
    BY <1>1, <1>7, <1>9 DEF Encrypts

-----------------------------------------------------------------------------
(* Types and the writer's state.                                           *)

\* The writer's message as it is followed through the flow.
LEMMA SendingIs ==
    ASSUME VarsTyped, SendOK, sending # Idle
    PROVE  /\ sending \in Sending /\ Valid(sending)
           /\ [id |-> sending.id, shape |-> sending.shape, len |-> sending.len] \in Msgs
           /\ Due([id |-> sending.id, shape |-> sending.shape, len |-> sending.len], sending.off)
                = sending
           /\ [ch |-> sending.shape.ch, mt |-> Reported(sending.shape.mt),
               body |-> Body(sending.id, 1, sending.len)] \in Messages
<1>1. sending \in Sending /\ Valid(sending)
    BY DEF VarsTyped, SendOK
<1>2. PICK s \in Sending : s = sending
    BY <1>1
<1>3. [id |-> s.id, shape |-> s.shape, len |-> s.len] \in Msgs
    BY DEF Sending, Msgs
<1>4. Due([id |-> s.id, shape |-> s.shape, len |-> s.len], s.off) = s
    BY DEF Sending, Due
<1>5. s.shape.ch \in Nat /\ Reported(s.shape.mt) \in {0, 4}
  <2>1. s.shape \in Shapes
    BY DEF Sending
  <2>2. QED
    BY <2>1, Sizes DEF Reported
<1>6. Body(s.id, 1, s.len) \in Seq(Nat)
  <2>1. s.id \in Nat /\ s.len \in Nat
    BY Sizes DEF Sending, Ids
  <2>2. QED
    BY <2>1, BeginningIs
<1>7. [ch |-> s.shape.ch, mt |-> Reported(s.shape.mt), body |-> Body(s.id, 1, s.len)] \in Messages
    BY <1>5, <1>6 DEF Messages
<1>8. QED
    BY <1>1, <1>2, <1>3, <1>4, <1>7

\* The frame written next.
LEMMA WrittenIs ==
    ASSUME VarsTyped, SendOK, sending # Idle, NEW s, s = sending
    PROVE  /\ Encode(Frame(s, tx_seq)) \in Seq(Nat)
           /\ Encrypts(s) => RecordCount(Chunk(s)) = 1
           /\ CountRecords => tx_seq' = IF Encrypts(s) THEN tx_seq + 1 ELSE tx_seq
<1>1. Valid(s) /\ tx_seq \in Nat /\ tx_seq \in Int /\ kind \in {"stream", "plain", "sealed"}
    BY DEF SendOK, VarsTyped
<1>2. Frame(s, tx_seq) \in WireFrames /\ (Encrypts(s) => RecordCount(Chunk(s)) = 1)
    BY <1>1, FrameIs
<1>3. Encode(Frame(s, tx_seq)) \in Seq(Nat)
    BY <1>2, EncodeIs
<1>4. QED
    BY <1>2, <1>3 DEF CountRecords

\* Every step keeps the types.
LEMMA StepTyped ==
    ASSUME VarsTyped, SendOK, FlowFollows, [Next]_vars
    PROVE  VarsTyped'
<1>1. /\ kind \in {"stream", "plain", "sealed"} /\ slack \in Slacks
      /\ sending \in Sending \cup {Idle} /\ tx_seq \in Nat /\ last_id \in 0 .. MaxMsgs
      /\ accepted \in Seq(Messages) /\ wire \in Seq(Nat) /\ in \in Seq(Nat)
      /\ in_message \in BOOLEAN /\ msg \in Assembly
      /\ tls \in TlsStates /\ tls.off \in 0 .. Len(tls.in)
      /\ rpc \in {"idle", "parse", "failed"} /\ yielded \in Seq(Messages)
    BY DEF VarsTyped
<1>2. CASE \E s \in Shapes, len \in Lens : Begin(s, len)
  <2>1. PICK s \in Shapes, len \in Lens : Begin(s, len)
    BY <1>2
  <2>2. last_id' = last_id + 1 /\ last_id < MaxMsgs /\ MaxMsgs \in Nat
        /\ sending' = [id |-> last_id', shape |-> s, len |-> len, off |-> 0]
    BY <2>1, Sizes DEF Begin
  <2>3. last_id' \in Ids /\ last_id' \in 0 .. MaxMsgs
    BY <1>1, <2>2 DEF Ids
  <2>4. sending' \in Sending
    BY <2>2, <2>3 DEF Sending
  <2>5. UNCHANGED <<kind, slack, tx_seq, accepted, wire, in, in_message, msg, tls, rpc, yielded>>
    BY <2>1 DEF Begin, reader
  <2>6. QED
    BY <1>1, <2>3, <2>4, <2>5 DEF VarsTyped
<1>3. CASE WriteFrame
  <2>1. PICK s : s = sending
    OBVIOUS
  <2>2. s # Idle /\ s \in Sending
    BY <1>1, <1>3, <2>1 DEF WriteFrame
  <2>3. PICK e : e = Encode(Frame(s, tx_seq))
    OBVIOUS
  <2>4. e \in Seq(Nat) /\ tx_seq' = IF Encrypts(s) THEN tx_seq + 1 ELSE tx_seq
    BY <1>3, <2>1, <2>2, <2>3, WrittenIs DEF WriteFrame
  <2>5. wire' \in Seq(Nat)
    <3>1. wire' = wire \o e
      BY <1>3, <2>1, <2>3 DEF WriteFrame
    <3>2. QED
      BY <1>1, <2>4, <3>1, ConcatProperties
  <2>6. tx_seq' \in Nat
    BY <1>1, <2>4
  <2>7. sending' \in Sending \cup {Idle}
    <3>1. sending' = IF Chunk(s) = RestLen(s) THEN Idle ELSE [s EXCEPT !.off = s.off + Chunk(s)]
      BY <1>3, <2>1 DEF WriteFrame
    <3>2. PICK c \in Nat : c = Chunk(s)
      <4>1. Valid(s)
        BY <2>1, <2>2 DEF SendOK
      <4>2. QED
        BY <4>1, ChunkIs, Sizes
    <3>3. s.off + c \in Nat
      BY <2>2 DEF Sending
    <3>4. [s EXCEPT !.off = s.off + c] \in Sending
      BY <2>2, <3>3 DEF Sending
    <3>5. QED
      BY <3>1, <3>2, <3>4
  <2>8. accepted' \in Seq(Messages)
    <3>1. PICK w : w = [ch |-> sending.shape.ch, mt |-> Reported(sending.shape.mt),
                        body |-> Body(sending.id, 1, sending.len)]
      OBVIOUS
    <3>2. w \in Messages
      BY <2>1, <2>2, <3>1, SendingIs
    <3>3. accepted' = Append(accepted, w) \/ accepted' = accepted
      BY <1>3, <3>1 DEF WriteFrame
    <3>4. Append(accepted, w) \in Seq(Messages)
      BY <1>1, <3>2, AppendProperties
    <3>5. QED
      BY <1>1, <3>3, <3>4
  <2>9. UNCHANGED <<kind, slack, last_id, in, in_message, msg, tls, rpc, yielded>>
    BY <1>3 DEF WriteFrame, reader
  <2>10. QED
    BY <1>1, <2>5, <2>6, <2>7, <2>8, <2>9 DEF VarsTyped
<1>4. CASE WriteFails
  <2>1. sending # Idle
    BY <1>4 DEF WriteFails
  <2>2. PICK s : s = sending
    OBVIOUS
  <2>3. CountRecords
    BY <1>4 DEF WriteFails
  <2>4. tx_seq' = IF Encrypts(s) THEN tx_seq + 1 ELSE tx_seq
    BY <2>1, <2>2, <2>3, WrittenIs
  <2>5. tx_seq' \in Nat
    BY <1>1, <2>4
  <2>6. sending' = Idle /\ UNCHANGED <<kind, slack, last_id, accepted, wire, in, in_message, msg,
                                       tls, rpc, yielded>>
    BY <1>4 DEF WriteFails, reader
  <2>7. QED
    BY <1>1, <2>5, <2>6 DEF VarsTyped
<1>5. CASE ReceiveSome
  <2>1. PICK n \in 0 .. Len(wire) : Receive(n)
    BY <1>5 DEF ReceiveSome
  <2>2. PICK a : a = SubSeq(wire, 1, n)
    OBVIOUS
  <2>3. PICK b : b = SubSeq(wire, n + 1, Len(wire))
    OBVIOUS
  <2>4. a \in Seq(Nat) /\ b \in Seq(Nat)
    <3>1. \A i \in 1 .. Len(wire) : wire[i] \in Nat
      BY <1>1, ElementOfSeq
    <3>2. Len(wire) \in Nat
      BY <1>1
    <3>3. (\A i \in 1 .. n : wire[i] \in Nat) /\ 1 \in Int /\ n \in Int
      BY <3>1, <3>2
    <3>4. (\A i \in n + 1 .. Len(wire) : wire[i] \in Nat) /\ n + 1 \in Int /\ Len(wire) \in Int
      BY <3>1, <3>2
    <3>5. QED
      BY <2>2, <2>3, <3>3, <3>4, SubSeqProperties
  <2>5. in' = in \o a /\ wire' = b /\ rpc' = "parse"
        /\ UNCHANGED <<kind, slack, sending, tx_seq, last_id, accepted, in_message, msg, tls, yielded>>
    BY <2>1, <2>2, <2>3 DEF Receive, writer
  <2>6. in' \in Seq(Nat) /\ wire' \in Seq(Nat)
    BY <1>1, <2>4, <2>5, ConcatProperties
  <2>7. QED
    BY <1>1, <2>5, <2>6 DEF VarsTyped
<1>6. CASE NeedMore
    BY <1>1, <1>6 DEF NeedMore, writer, VarsTyped
<1>7. CASE TakeFrame
  <2>1. PICK n \in Nat : \E at \in [0 .. n -> Places] : Follows(n, at)
    BY DEF FlowFollows
  <2>2. PICK at \in [0 .. n -> Places] : Follows(n, at)
    BY <2>1
  <2>3. PICK p, q : p = at[0] /\ q = at[1]
    OBVIOUS
  <2>4. PICK s : s = Due(q.m, p.off)
    OBVIOUS
  <2>5. /\ p \in Places /\ Passes(accepted, Flow, Refused # 0, p, q)
        /\ in' = SubSeq(in, q.pos + 1, Len(in)) /\ q.pos <= Len(in) /\ q \in Places
        /\ tls' \in TlsStates /\ tls'.off \in 0 .. Len(tls'.in)
        /\ p.off + Chunk(s) = q.m.len =>
              /\ in_message' = FALSE /\ msg' = NoMsg /\ rpc' = "idle"
              /\ yielded' = Append(yielded, Whole(q.m))
        /\ p.off + Chunk(s) # q.m.len =>
              /\ in_message' = TRUE /\ UNCHANGED <<yielded, rpc>>
              /\ msg' = [ch |-> q.m.shape.ch, mt |-> Reported(q.m.shape.mt), total |-> q.m.len,
                         body |-> Body(q.m.id, 1, p.off + Chunk(s))]
    <3>1. Takes(p, q)
      BY <1>7, <2>2, <2>3, TakeFrameIs
    <3>2. QED
      BY <2>4, <3>1 DEF Takes
  <2>6. q.m \in Msgs /\ Valid(s)
    BY <2>4, <2>5 DEF Passes
  <2>7. /\ q.m.shape.ch \in Nat /\ Reported(q.m.shape.mt) \in {0, 4} /\ q.m.id \in Nat
        /\ q.m.len \in Nat
    <3>1. q.m.shape \in Shapes /\ q.m.id \in Ids /\ q.m.len \in Lens
      BY <2>6 DEF Msgs
    <3>2. QED
      BY <3>1, Sizes DEF Reported, Ids
  <2>8. PICK upto \in Nat : upto = p.off + Chunk(s)
    <3>1. Chunk(s) \in 0 .. MaxPayload /\ MaxPayload \in Nat
      BY <2>6, ChunkIs, Sizes
    <3>2. p.off \in Nat
      BY <2>5 DEF Places
    <3>3. QED
      BY <3>1, <3>2
  <2>9. Body(q.m.id, 1, upto) \in Seq(Nat) /\ Body(q.m.id, 1, q.m.len) \in Seq(Nat)
    BY <2>7, BeginningIs
  <2>10. msg' \in Assembly /\ in_message' \in BOOLEAN /\ rpc' \in {"idle", "parse", "failed"}
         /\ yielded' \in Seq(Messages)
    <3>1. CASE upto = q.m.len
      <4>1. Whole(q.m) \in Messages
        BY <2>7, <2>9 DEF Whole, Messages
      <4>2. NoMsg \in Assembly
        <5>1. <<>> \in Seq(Nat)
          OBVIOUS
        <5>2. QED
          BY <5>1 DEF NoMsg, Assembly
      <4>3. Append(yielded, Whole(q.m)) \in Seq(Messages)
        BY <1>1, <4>1, AppendProperties
      <4>4. QED
        BY <2>5, <2>8, <3>1, <4>2, <4>3
    <3>2. CASE upto # q.m.len
      <4>1. msg' = [ch |-> q.m.shape.ch, mt |-> Reported(q.m.shape.mt), total |-> q.m.len,
                    body |-> Body(q.m.id, 1, upto)]
        BY <2>5, <2>8, <3>2
      <4>2. msg' \in Assembly
        BY <2>7, <2>9, <4>1 DEF Assembly
      <4>3. QED
        BY <1>1, <2>5, <2>8, <3>2, <4>2
    <3>3. QED
      BY <3>1, <3>2
  <2>11. in' \in Seq(Nat)
    <3>1. q.pos \in Nat /\ Len(in) \in Nat
      BY <1>1, <2>5 DEF Places
    <3>2. q.pos + 1 \in Int /\ Len(in) \in Int /\ \A i \in q.pos + 1 .. Len(in) : i \in 1 .. Len(in)
      BY <3>1
    <3>3. \A i \in q.pos + 1 .. Len(in) : in[i] \in Nat
      BY <1>1, <3>2, ElementOfSeq
    <3>4. QED
      BY <2>5, <3>2, <3>3, SubSeqProperties
  <2>12. UNCHANGED <<kind, slack, sending, tx_seq, last_id, accepted, wire>>
    BY <1>7 DEF TakeFrame, writer
  <2>13. QED
    BY <1>1, <2>5, <2>10, <2>11, <2>12 DEF VarsTyped
<1>8. CASE BadFrame
  <2>1. Decodable(in) /\ rpc = "parse" /\ tls' = Opened(Decode(in)).tls /\ rpc' = "failed"
        /\ UNCHANGED <<kind, slack, sending, tx_seq, last_id, accepted, wire, in, in_message, msg,
                       yielded>>
    BY <1>8 DEF BadFrame, writer
  <2>2. tls' \in TlsStates /\ tls'.off \in 0 .. Len(tls'.in)
    BY <2>1, BadFrameIs
  <2>3. QED
    BY <1>1, <2>1, <2>2 DEF VarsTyped
<1>9. CASE UNCHANGED vars
    BY <1>1, <1>9 DEF vars, writer, reader, VarsTyped
<1>10. QED
    BY <1>2, <1>3, <1>4, <1>5, <1>6, <1>7, <1>8, <1>9 DEF Next

\* Every step keeps the message being sent valid, and a gap, once there, stays.
LEMMA StepSendOK ==
    ASSUME VarsTyped, SendOK, [Next]_vars
    PROVE  SendOK' /\ (Refused' = 0 => Refused = 0)
<1>1. last_id \in Nat /\ Len(accepted) \in Nat /\ Refused \in Nat /\ sending \in Sending \cup {Idle}
    BY Sizes DEF VarsTyped, SendOK
<1>2. CASE \E s \in Shapes, len \in Lens : Begin(s, len)
  <2>1. PICK s \in Shapes, len \in Lens : Begin(s, len)
    BY <1>2
  <2>2. /\ sending = Idle /\ last_id' = last_id + 1 /\ UNCHANGED <<accepted, kind>>
        /\ sending' = [id |-> last_id', shape |-> s, len |-> len, off |-> 0]
        /\ kind # "stream" => len >= 2
        /\ last_id < MaxMsgs /\ MaxMsgs \in Nat
    BY <2>1, Sizes DEF Begin
  <2>3. sending' # Idle
    BY <2>2 DEF Idle
  <2>4. Refused' = Refused
    BY <1>1, <2>2, <2>3 DEF Refused
  <2>5. Valid(sending)'
    <3>1. last_id' \in Ids /\ len \in Nat
      BY <1>1, <2>2, Sizes DEF Ids
    <3>2. 0 < len \/ (len = 0 /\ 0 = 0)
      BY <3>1
    <3>3. /\ sending'.id = last_id' /\ sending'.shape = s /\ sending'.len = len /\ sending'.off = 0
      BY <2>2
    <3>4. QED
      BY <2>2, <3>1, <3>2, <3>3 DEF Valid
  <2>6. QED
    BY <1>1, <2>4, <2>5 DEF SendOK
<1>3. CASE WriteFrame
  <2>1. PICK s \in Sending : s = sending /\ s # Idle /\ Valid(s)
    BY <1>1, <1>3 DEF WriteFrame, SendOK
  <2>2. PICK c \in Nat : c = Chunk(s)
    BY <2>1, ChunkIs, Sizes
  <2>3. s.off + c \in 0 .. s.len /\ (s.off + c = s.len <=> c = RestLen(s))
        /\ (s.off + c # s.len => s.len > MaxPayload)
    BY <2>1, <2>2, ChunkIs
  <2>4. /\ sending' = IF c = RestLen(s) THEN Idle ELSE [s EXCEPT !.off = s.off + c]
        /\ UNCHANGED <<kind, last_id>>
    BY <1>3, <2>1, <2>2 DEF WriteFrame
  <2>5. CASE c = RestLen(s)
    <3>1. sending' = Idle
      BY <2>4, <2>5
    <3>2. Len(accepted') = Len(accepted) + 1
      <4>1. PICK w : w = [ch |-> sending.shape.ch, mt |-> Reported(sending.shape.mt),
                          body |-> Body(sending.id, 1, sending.len)]
        OBVIOUS
      <4>2. accepted' = Append(accepted, w)
        BY <1>3, <2>1, <2>2, <2>5, <4>1 DEF WriteFrame
      <4>3. accepted \in Seq(Messages) /\ w \in Messages
        BY <2>1, <4>1, SendingIs DEF VarsTyped
      <4>4. QED
        BY <4>2, <4>3, AppendProperties
    <3>3. Refused' = Refused
      BY <1>1, <2>1, <2>4, <3>1, <3>2 DEF Refused
    <3>4. QED
      BY <1>1, <3>1, <3>3 DEF SendOK
  <2>6. CASE c # RestLen(s)
    <3>1. PICK t : t = [s EXCEPT !.off = s.off + c]
      OBVIOUS
    <3>2. /\ t.id = s.id /\ t.shape = s.shape /\ t.len = s.len /\ t.off = s.off + c
          /\ t \in Sending
      <4>1. s.off + c \in Nat
        BY <2>1 DEF Sending
      <4>2. QED
        BY <2>1, <3>1, <4>1 DEF Sending
    <3>3. sending' = t
      BY <2>4, <2>6, <3>1
    <3>4. t # Idle
      <4>1. s = [id |-> s.id, shape |-> s.shape, len |-> s.len, off |-> s.off]
        BY <2>1 DEF Sending
      <4>2. t = [id |-> s.id, shape |-> s.shape, len |-> s.len, off |-> s.off + c]
        BY <3>1, <4>1
      <4>3. QED
        BY <4>2 DEF Idle
    <3>5. accepted' = accepted
      BY <1>3, <2>1, <2>2, <2>6 DEF WriteFrame
    <3>6. Refused' = Refused
      BY <1>1, <2>1, <2>4, <3>3, <3>4, <3>5 DEF Refused
    <3>7. Valid(t)
      <4>1. s.off + c < s.len /\ s.len > MaxPayload
        <5>1. s.len \in Nat
          BY <2>1, Sizes DEF Valid
        <5>2. QED
          BY <2>3, <2>6, <5>1
      <4>2. QED
        BY <2>1, <2>2, <3>2, <4>1 DEF Valid, Sending
    <3>8. Valid(sending)'
      BY <2>4, <3>3, <3>7 DEF Valid
    <3>9. QED
      BY <1>1, <3>6, <3>8 DEF SendOK
  <2>7. QED
    BY <2>5, <2>6
<1>4. CASE WriteFails
  <2>1. sending # Idle /\ sending' = Idle /\ UNCHANGED <<last_id, accepted>>
    BY <1>4 DEF WriteFails
  <2>2. Refused' = Refused + 1
    BY <1>1, <2>1 DEF Refused
  <2>3. QED
    BY <1>1, <2>1, <2>2 DEF SendOK
<1>5. ASSUME UNCHANGED <<kind, sending, last_id, accepted>>
      PROVE  SendOK' /\ (Refused' = 0 => Refused = 0)
    BY <1>5 DEF SendOK, Refused, Valid
<1>6. CASE ReceiveSome
    BY <1>5, <1>6 DEF ReceiveSome, Receive, writer
<1>7. CASE NeedMore
    BY <1>5, <1>7 DEF NeedMore, writer
<1>8. CASE TakeFrame
    BY <1>5, <1>8 DEF TakeFrame, writer
<1>9. CASE BadFrame
    BY <1>5, <1>9 DEF BadFrame, writer
<1>10. CASE UNCHANGED vars
    BY <1>5, <1>10 DEF vars, writer
<1>11. QED
    BY <1>2, <1>3, <1>4, <1>6, <1>7, <1>8, <1>9, <1>10 DEF Next

-----------------------------------------------------------------------------
(* The flow, step by step.                                                 *)

\* What is written and how depends on the kind of connection, which stays.
LEMMA KindKept ==
    ASSUME kind' = kind, NEW s, NEW n
    PROVE  /\ Frame(s, n)' = Frame(s, n) /\ (Valid(s)' <=> Valid(s))
           /\ (Encrypts(s)' <=> Encrypts(s)) /\ Whole(s)' = Whole(s)
<1>1. Encrypts(s)' <=> Encrypts(s)
    BY DEF Encrypts
<1>2. Payload(s, n)' = Payload(s, n)
    BY <1>1 DEF Payload
<1>3. Frame(s, n)' = Frame(s, n)
    BY <1>2 DEF Frame
<1>4. Valid(s)' <=> Valid(s)
    BY DEF Valid
<1>5. Whole(s)' = Whole(s)
    BY DEF Whole, Reported
<1>6. QED
    BY <1>1, <1>3, <1>4, <1>5

\* The frame between two places does not change its meaning in a step.
LEMMA PassesKept ==
    ASSUME kind' = kind, NEW acc, NEW bytes, NEW gap, NEW p, NEW q,
           Passes(acc, bytes, gap, p, q)
    PROVE  Passes(acc, bytes, gap, p, q)'
<1>1. PICK s : s = Due(q.m, p.off)
    OBVIOUS
<1>2. PICK n : n = q.seq - 1
    OBVIOUS
<1>3. /\ Frame(s, n)' = Frame(s, n) /\ (Valid(s)' <=> Valid(s))
      /\ (Encrypts(s)' <=> Encrypts(s)) /\ Whole(q.m)' = Whole(q.m)
    BY KindKept
<1>4. PICK e : e = Encode(Frame(s, n))
    OBVIOUS
<1>5. e = Encode(Frame(s, n))'
    BY <1>3, <1>4
<1>6. /\ q.m \in Msgs /\ Valid(s)
      /\ p.off > 0 => p.m = q.m
      /\ Encrypts(s) => q.seq >= 1
      /\ gap \/ q.seq = IF Encrypts(s) THEN p.seq + 1 ELSE p.seq
      /\ q.pos = p.pos + Len(e) /\ q.pos <= Len(bytes)
      /\ \A k \in 1 .. Len(e) : bytes[p.pos + k] = e[k]
      /\ p.off + Chunk(s) # q.m.len => q.off = p.off + Chunk(s) /\ q.n = p.n
      /\ p.off + Chunk(s) = q.m.len =>
            /\ q.off = 0 /\ q.n = p.n + 1
            /\ q.n <= Len(acc) /\ acc[q.n] = Whole(q.m)
    BY <1>1, <1>2, <1>4 DEF Passes
<1>7. QED
    BY <1>1, <1>2, <1>3, <1>5, <1>6 DEF Passes

\* More messages accepted, more bytes, or a gap leave a frame where it is.
LEMMA PassesMore ==
    ASSUME NEW acc, NEW acc2, NEW bytes, NEW bytes2, NEW gap \in BOOLEAN, NEW gap2 \in BOOLEAN,
           Len(acc) \in Nat, Len(acc2) \in Nat, Len(acc) <= Len(acc2),
           \A i \in 1 .. Len(acc) : acc2[i] = acc[i],
           Len(bytes) \in Nat, Len(bytes2) \in Nat, Len(bytes) <= Len(bytes2),
           \A i \in 1 .. Len(bytes) : bytes2[i] = bytes[i],
           gap => gap2, kind \in {"stream", "plain", "sealed"},
           NEW p \in Places, NEW q \in Places, Passes(acc, bytes, gap, p, q)
    PROVE  Passes(acc2, bytes2, gap2, p, q)
<1>1. PICK s : s = Due(q.m, p.off)
    OBVIOUS
<1>2. PICK e : e = Encode(Frame(s, q.seq - 1))
    OBVIOUS
<1>3. /\ q.m \in Msgs /\ Valid(s)
      /\ p.off > 0 => p.m = q.m
      /\ Encrypts(s) => q.seq >= 1
      /\ gap \/ q.seq = IF Encrypts(s) THEN p.seq + 1 ELSE p.seq
      /\ q.pos = p.pos + Len(e) /\ q.pos <= Len(bytes)
      /\ \A k \in 1 .. Len(e) : bytes[p.pos + k] = e[k]
      /\ p.off + Chunk(s) # q.m.len => q.off = p.off + Chunk(s) /\ q.n = p.n
      /\ p.off + Chunk(s) = q.m.len =>
            /\ q.off = 0 /\ q.n = p.n + 1
            /\ q.n <= Len(acc) /\ acc[q.n] = Whole(q.m)
    BY <1>1, <1>2 DEF Passes
<1>4. p.pos \in Nat /\ q.pos \in Nat /\ p.n \in Nat /\ q.n \in Nat
    BY DEF Places
<1>5. Len(e) \in Nat
    BY <1>1, <1>2, <1>3, EncodedLen
<1>6. ASSUME NEW k \in 1 .. Len(e) PROVE bytes2[p.pos + k] = e[k]
  <2>1. PICK j : j = p.pos + k
    OBVIOUS
  <2>2. j \in 1 .. Len(bytes)
    BY <1>3, <1>4, <1>5, <2>1, SMTT(30)
  <2>3. bytes2[j] = bytes[j] /\ bytes[j] = e[k]
    BY <1>3, <2>1, <2>2
  <2>4. QED
    BY <2>1, <2>3
<1>7. q.pos <= Len(bytes2)
    BY <1>3, <1>4
<1>8. p.off + Chunk(s) = q.m.len => q.n <= Len(acc2) /\ acc2[q.n] = Whole(q.m)
  <2>1. SUFFICES ASSUME p.off + Chunk(s) = q.m.len
                 PROVE  q.n <= Len(acc2) /\ acc2[q.n] = Whole(q.m)
    OBVIOUS
  <2>2. q.n \in 1 .. Len(acc)
    BY <1>3, <1>4, <2>1
  <2>3. QED
    BY <1>3, <2>1, <2>2
<1>9. QED
    BY <1>1, <1>2, <1>3, <1>6, <1>7, <1>8 DEF Passes

\* A frame of the flow stays where it is when the flow only grows.
LEMMA StillPasses ==
    ASSUME VarsTyped, VarsTyped', kind' = kind,
           Len(accepted) <= Len(accepted'), \A i \in 1 .. Len(accepted) : accepted'[i] = accepted[i],
           Len(Flow) <= Len(Flow'), \A i \in 1 .. Len(Flow) : Flow'[i] = Flow[i],
           Refused' = 0 => Refused = 0,
           NEW p \in Places, NEW q \in Places, Passes(accepted, Flow, Refused # 0, p, q)
    PROVE  Passes(accepted, Flow, Refused # 0, p, q)'
<1>1. PICK acc : acc = accepted
    OBVIOUS
<1>2. PICK acc2 : acc2 = accepted'
    OBVIOUS
<1>3. PICK bytes : bytes = Flow
    OBVIOUS
<1>4. PICK bytes2 : bytes2 = Flow'
    OBVIOUS
<1>5. PICK gap \in BOOLEAN : gap <=> Refused # 0
    OBVIOUS
<1>6. PICK gap2 \in BOOLEAN : gap2 <=> Refused' # 0
    OBVIOUS
<1>7. /\ Len(acc) \in Nat /\ Len(acc2) \in Nat /\ Len(bytes) \in Nat /\ Len(bytes2) \in Nat
      /\ kind \in {"stream", "plain", "sealed"}
  <2>1. Len(acc) \in Nat /\ Len(acc2) \in Nat /\ kind \in {"stream", "plain", "sealed"}
    BY <1>1, <1>2, SMTT(30) DEF VarsTyped
  <2>2. bytes \in Seq(Nat)
    BY <1>3, FlowIs
  <2>3. bytes2 \in Seq(Nat)
    <3>1. in' \in Seq(Nat) /\ wire' \in Seq(Nat)
      BY DEF VarsTyped
    <3>2. in' \o wire' \in Seq(Nat)
      BY <3>1, ConcatProperties
    <3>3. QED
      BY <1>4, <3>2 DEF Flow
  <2>4. QED
    BY <2>1, <2>2, <2>3
<1>8. /\ Len(acc) <= Len(acc2) /\ \A i \in 1 .. Len(acc) : acc2[i] = acc[i]
      /\ Len(bytes) <= Len(bytes2) /\ \A i \in 1 .. Len(bytes) : bytes2[i] = bytes[i]
      /\ gap => gap2
    BY <1>1, <1>2, <1>3, <1>4, <1>5, <1>6
<1>9. Passes(acc, bytes, gap, p, q)
    BY <1>1, <1>3, <1>5 DEF Passes
<1>10. Passes(acc2, bytes2, gap2, p, q)
    BY <1>7, <1>8, <1>9, PassesMore, SMTT(30)
<1>11. Passes(acc2, bytes2, gap2, p, q)'
    BY <1>10, PassesKept
<1>12. QED
    BY <1>2, <1>4, <1>6, <1>11 DEF Passes

\* Steps that neither write nor take a frame.
LEMMA SameFollows ==
    ASSUME VarsTyped, VarsTyped', FlowFollows, kind' = kind, accepted' = accepted, Flow' = Flow,
           Refused' = 0 => Refused = 0,
           \A p \in Places : StartsAt(p) => StartsAt(p)',
           \A p \in Places : EndsAt(p) => EndsAt(p)'
    PROVE  FlowFollows'
<1>1. PICK n \in Nat : \E at \in [0 .. n -> Places] : Follows(n, at)
    BY DEF FlowFollows
<1>2. PICK at \in [0 .. n -> Places] : Follows(n, at)
    BY <1>1
<1>3. ASSUME NEW i \in 1 .. n
      PROVE  Passes(accepted, Flow, Refused # 0, at[i - 1], at[i])'
  <2>1. i - 1 \in 0 .. n /\ i \in 0 .. n
    OBVIOUS
  <2>2. PICK p \in Places : p = at[i - 1]
    BY <2>1
  <2>3. PICK q \in Places : q = at[i]
    BY <2>1
  <2>4. Passes(accepted, Flow, Refused # 0, p, q)
    BY <1>2, <2>2, <2>3 DEF Follows
  <2>5. Len(accepted) \in Nat /\ Len(Flow) \in Nat
    BY FlowIs, SMTT(30) DEF VarsTyped
  <2>6. /\ Len(accepted) <= Len(accepted') /\ \A k \in 1 .. Len(accepted) : accepted'[k] = accepted[k]
        /\ Len(Flow) <= Len(Flow') /\ \A k \in 1 .. Len(Flow) : Flow'[k] = Flow[k]
    BY <2>5
  <2>7. Passes(accepted, Flow, Refused # 0, p, q)'
    BY <2>4, <2>6, StillPasses
  <2>8. QED
    BY <2>2, <2>3, <2>7
<1>4. StartsAt(at[0])' /\ EndsAt(at[n])'
  <2>1. at[0] \in Places /\ at[n] \in Places
    OBVIOUS
  <2>2. PICK p \in Places : p = at[0]
    BY <2>1
  <2>3. PICK q \in Places : q = at[n]
    BY <2>1
  <2>4. StartsAt(p) /\ EndsAt(q)
    BY <1>2, <2>2, <2>3 DEF Follows
  <2>5. StartsAt(p)' /\ EndsAt(q)'
    BY <2>4
  <2>6. QED
    BY <2>2, <2>3, <2>5
<1>5. \A i, j \in 0 .. n : i <= j => at[i].pos <= at[j].pos
    BY <1>2 DEF Follows
<1>6. Follows(n, at)'
    BY <1>3, <1>4, <1>5 DEF Follows
<1>7. QED
    BY <1>6 DEF FlowFollows

\* The steps that neither write nor take a frame leave the flow and its places
\* as they are: a write is refused only before a message's first byte.
LEMMA QuietFollows ==
    ASSUME VarsTyped, VarsTyped', SendOK, FlowFollows, Refused' = 0 => Refused = 0,
           \/ \E s \in Shapes, len \in Lens : Begin(s, len)
           \/ WriteFails \/ ReceiveSome \/ NeedMore \/ BadFrame \/ UNCHANGED vars
    PROVE  FlowFollows'
<1>1. ASSUME kind' = kind, UNCHANGED <<yielded, in_message, msg>>,
             rpc' # "failed" => rpc # "failed" /\ tls' = tls
      PROVE  \A p \in Places : StartsAt(p) => StartsAt(p)'
  <2>1. SUFFICES ASSUME NEW p \in Places, StartsAt(p) PROVE StartsAt(p)'
    OBVIOUS
  <2>2. Reported(p.m.shape.mt)' = Reported(p.m.shape.mt)
    BY <1>1 DEF Reported
  <2>3. rpc' # "failed" => Drained(tls') /\ (Refused' = 0 => p.seq = tls'.seq)
    BY <1>1, <2>1 DEF StartsAt
  <2>4. QED
    BY <1>1, <2>1, <2>2, <2>3 DEF StartsAt
<1>2. ASSUME UNCHANGED <<sending, tx_seq, accepted>>, Flow' = Flow
      PROVE  \A p \in Places : EndsAt(p) => EndsAt(p)'
    BY <1>2 DEF EndsAt
<1>3. CASE \E s \in Shapes, len \in Lens : Begin(s, len)
  <2>1. PICK s \in Shapes, len \in Lens : Begin(s, len)
    BY <1>3
  <2>2. /\ UNCHANGED <<kind, tx_seq, accepted, wire, in, in_message, msg, tls, rpc, yielded>>
        /\ sending = Idle /\ sending' = [id |-> last_id', shape |-> s, len |-> len, off |-> 0]
    BY <2>1 DEF Begin, reader
  <2>3. Flow' = Flow
    BY <2>2 DEF Flow
  <2>4. \A p \in Places : StartsAt(p) => StartsAt(p)'
    BY <1>1, <2>2
  <2>5. ASSUME NEW p \in Places, EndsAt(p) PROVE EndsAt(p)'
    <3>1. ~(p.off > 0)
      BY <2>2, <2>5 DEF EndsAt
    <3>2. ~(sending'.off > 0)
      BY <2>2
    <3>3. QED
      BY <2>2, <2>3, <2>5, <3>1, <3>2 DEF EndsAt
  <2>6. QED
    BY <2>2, <2>3, <2>4, <2>5, SameFollows
<1>4. CASE WriteFails
  <2>1. /\ sending # Idle /\ ~Fits /\ sending' = Idle
        /\ UNCHANGED <<kind, last_id, accepted, wire, in, in_message, msg, tls, rpc, yielded>>
    BY <1>4 DEF WriteFails, reader
  <2>2. sending.off = 0
    BY <2>1, RefusedAtOnce DEF SendOK
  <2>3. Flow' = Flow
    BY <2>1 DEF Flow
  <2>4. Refused' # 0
    <3>1. last_id \in Nat /\ Len(accepted) \in Nat /\ Refused \in Nat
      BY Sizes DEF VarsTyped, SendOK
    <3>2. QED
      BY <2>1, <3>1 DEF Refused
  <2>5. \A p \in Places : StartsAt(p) => StartsAt(p)'
    BY <1>1, <2>1
  <2>6. ASSUME NEW p \in Places, EndsAt(p) PROVE EndsAt(p)'
    <3>1. ~(p.off > 0)
      BY <2>2, <2>6 DEF EndsAt
    <3>2. QED
      BY <2>1, <2>3, <2>4, <2>6, <3>1 DEF EndsAt
  <2>7. QED
    BY <2>1, <2>3, <2>5, <2>6, SameFollows
<1>5. CASE ReceiveSome
  <2>1. PICK n \in 0 .. Len(wire) : Receive(n)
    BY <1>5 DEF ReceiveSome
  <2>2. /\ in' = in \o SubSeq(wire, 1, n) /\ wire' = SubSeq(wire, n + 1, Len(wire))
        /\ UNCHANGED <<kind, sending, tx_seq, accepted, in_message, msg, tls, yielded>>
        /\ rpc = "idle"
    BY <2>1 DEF Receive, writer
  <2>3. Flow' = Flow
    <3>1. in \in Seq(Nat) /\ wire \in Seq(Nat) /\ Len(wire) \in Nat
      BY DEF VarsTyped
    <3>2. PICK a : a = SubSeq(wire, 1, n)
      OBVIOUS
    <3>3. PICK b : b = SubSeq(wire, n + 1, Len(wire))
      OBVIOUS
    <3>4. a \o b = wire
      <4>1. 1 \in 1 .. Len(wire) + 1 /\ n \in 1 - 1 .. Len(wire) /\ Len(wire) \in n .. Len(wire)
        BY <3>1
      <4>2. SubSeq(wire, 1, n) \o SubSeq(wire, n + 1, Len(wire)) = SubSeq(wire, 1, Len(wire))
        BY <3>1, <4>1, ConcatAdjacentSubSeq
      <4>3. SubSeq(wire, 1, Len(wire)) = wire
        BY <3>1, SubSeqFull
      <4>4. QED
        BY <3>2, <3>3, <4>2, <4>3
    <3>5. a \in Seq(Nat) /\ b \in Seq(Nat)
      <4>1. \A i \in 1 .. Len(wire) : wire[i] \in Nat
        BY <3>1, ElementOfSeq
      <4>2. (\A i \in 1 .. n : wire[i] \in Nat) /\ 1 \in Int /\ n \in Int
        BY <3>1, <4>1
      <4>3. (\A i \in n + 1 .. Len(wire) : wire[i] \in Nat) /\ n + 1 \in Int /\ Len(wire) \in Int
        BY <3>1, <4>1
      <4>4. QED
        BY <3>2, <3>3, <4>2, <4>3, SubSeqProperties
    <3>6. (in \o a) \o b = in \o (a \o b)
      <4>1. PICK i \in Seq(Nat) : i = in
        BY <3>1
      <4>2. (i \o a) \o b = i \o (a \o b)
        BY <3>5, ConcatAssociative, SMTT(30)
      <4>3. QED
        BY <4>1, <4>2
    <3>7. QED
      BY <2>2, <3>2, <3>3, <3>4, <3>6 DEF Flow
  <2>4. \A p \in Places : StartsAt(p) => StartsAt(p)'
    BY <1>1, <2>2
  <2>5. \A p \in Places : EndsAt(p) => EndsAt(p)'
    BY <1>2, <2>2, <2>3
  <2>6. QED
    BY <2>2, <2>3, <2>4, <2>5, SameFollows
<1>6. ASSUME UNCHANGED <<kind, sending, tx_seq, accepted, wire, in, in_message, msg, yielded>>,
             rpc' # "failed" => rpc # "failed" /\ tls' = tls
      PROVE  FlowFollows'
  <2>1. Flow' = Flow
    BY <1>6 DEF Flow
  <2>2. \A p \in Places : StartsAt(p) => StartsAt(p)'
    BY <1>1, <1>6
  <2>3. \A p \in Places : EndsAt(p) => EndsAt(p)'
    BY <1>2, <1>6, <2>1
  <2>4. QED
    BY <1>6, <2>1, <2>2, <2>3, SameFollows
<1>7. CASE NeedMore
    BY <1>6, <1>7 DEF NeedMore, writer
<1>8. CASE BadFrame
    BY <1>6, <1>8 DEF BadFrame, writer
<1>9. CASE UNCHANGED vars
    BY <1>6, <1>9 DEF vars, writer, reader
<1>10. QED
    BY <1>3, <1>4, <1>5, <1>7, <1>8, <1>9

\* What is not encrypted does not depend on the records written before it.
LEMMA SameFrame ==
    ASSUME NEW s, NEW a, NEW b, Encrypts(s) => a = b
    PROVE  Frame(s, a) = Frame(s, b)
<1>1. Payload(s, a) = Payload(s, b)
    BY DEF Payload
<1>2. QED
    BY <1>1 DEF Frame

\* What writing a frame does: the writer goes on from place p to place q.
Sends(p, q) ==
    /\ q \in Places /\ kind' = kind /\ UNCHANGED reader
    /\ Len(accepted) <= Len(accepted') /\ \A i \in 1 .. Len(accepted) : accepted'[i] = accepted[i]
    /\ Len(Flow) <= Len(Flow') /\ \A i \in 1 .. Len(Flow) : Flow'[i] = Flow[i]
    /\ p.pos <= q.pos
    /\ Passes(accepted, Flow, Refused # 0, p, q)' /\ EndsAt(q)'

\* The frame written is the next of the message being sent.
LEMMA WriteFrameIs ==
    ASSUME VarsTyped, SendOK, Refused' = 0 => Refused = 0, WriteFrame, NEW p \in Places, EndsAt(p)
    PROVE  \E q \in Places : Sends(p, q)
<1>1. PICK s \in Sending : s = sending /\ s # Idle /\ Valid(s)
    BY DEF WriteFrame, SendOK, VarsTyped
<1>2. PICK m \in Msgs : m = [id |-> s.id, shape |-> s.shape, len |-> s.len]
    BY <1>1, SendingIs
<1>3. m.id = s.id /\ m.shape = s.shape /\ m.len = s.len /\ s.off \in Nat /\ s.len \in Nat
      /\ Due(m, s.off) = s
    BY <1>1, <1>2, Sizes, SendingIs DEF Sending
<1>4. PICK c \in Nat : c = Chunk(s)
    BY <1>1, ChunkIs, Sizes
<1>5. PICK upto \in Nat : upto = s.off + c
    BY <1>3
<1>6. upto \in 0 .. m.len /\ (upto = m.len <=> c = RestLen(s)) /\ (c = 0 => m.len = 0)
      /\ (upto # m.len => c # 0)
  <2>1. /\ Chunk(s) \in 0 .. MaxPayload /\ s.off + Chunk(s) \in 0 .. s.len
        /\ s.len # 0 => Chunk(s) # 0
        /\ s.off + Chunk(s) = s.len <=> Chunk(s) = RestLen(s)
    BY <1>1, ChunkIs
  <2>2. QED
    BY <1>3, <1>4, <1>5, <2>1
<1>7. PICK e : e = Encode(Frame(s, tx_seq))
    OBVIOUS
<1>8. /\ e \in Seq(Nat) /\ Len(e) \in Nat
      /\ tx_seq' = IF Encrypts(s) THEN tx_seq + 1 ELSE tx_seq
      /\ tx_seq \in Nat
    BY <1>1, <1>7, WrittenIs DEF WriteFrame, VarsTyped
<1>9. /\ UNCHANGED <<kind, last_id, in, reader>>
      /\ wire' = wire \o e
      /\ sending' = IF c = RestLen(s) THEN Idle ELSE [s EXCEPT !.off = s.off + c]
    BY <1>1, <1>4, <1>7 DEF WriteFrame
<1>10. accepted' = IF c = RestLen(s) THEN Append(accepted, Whole(m)) ELSE accepted
  <2>1. Whole(m) = [ch |-> s.shape.ch, mt |-> Reported(s.shape.mt), body |-> Body(s.id, 1, s.len)]
    BY <1>3 DEF Whole
  <2>2. accepted' = IF c = RestLen(s)
                    THEN Append(accepted, [ch |-> s.shape.ch, mt |-> Reported(s.shape.mt),
                                           body |-> Body(s.id, 1, s.len)])
                    ELSE accepted
    BY <1>1, <1>4 DEF WriteFrame
  <2>3. QED
    BY <2>1, <2>2
<1>11. Whole(m) \in Messages
    BY <1>1, <1>3, SendingIs DEF Whole
<1>12. /\ accepted \in Seq(Messages) /\ Len(accepted) \in Nat
       /\ \A i \in 1 .. Len(accepted) : accepted'[i] = accepted[i]
       /\ c = RestLen(s) => Len(accepted') = Len(accepted) + 1 /\ accepted'[Len(accepted) + 1] = Whole(m)
       /\ c # RestLen(s) => Len(accepted') = Len(accepted)
  <2>1. accepted \in Seq(Messages)
    BY DEF VarsTyped
  <2>2. /\ Len(Append(accepted, Whole(m))) = Len(accepted) + 1
        /\ \A i \in 1 .. Len(accepted) : Append(accepted, Whole(m))[i] = accepted[i]
        /\ Append(accepted, Whole(m))[Len(accepted) + 1] = Whole(m)
    BY <1>11, <2>1, AppendProperties
  <2>3. QED
    BY <1>10, <2>1, <2>2
<1>13. /\ Flow \in Seq(Nat) /\ Len(Flow) \in Nat /\ Len(Flow') = Len(Flow) + Len(e)
       /\ \A i \in 1 .. Len(Flow) : Flow'[i] = Flow[i]
       /\ \A i \in 1 .. Len(e) : Flow'[Len(Flow) + i] = e[i]
  <2>1. PICK f \in Seq(Nat) : f = Flow
    BY FlowIs
  <2>2. PICK w \in Seq(Nat) : w = wire
    BY DEF VarsTyped
  <2>3. PICK i \in Seq(Nat) : i = in
    BY DEF VarsTyped
  <2>3a. e \in Seq(Nat)
    BY <1>8
  <2>3b. Len(e) \in Nat
    BY <2>3a
  <2>4. Flow' = f \o e
    <3>1. (i \o w) \o e = i \o (w \o e)
      BY <2>3a, ConcatAssociative, SMTT(30)
    <3>2. QED
      BY <1>9, <2>1, <2>2, <2>3, <3>1 DEF Flow
  <2>5. PICK g : g = f \o e
    OBVIOUS
  <2>6. /\ Len(g) = Len(f) + Len(e)
        /\ \A k \in 1 .. Len(f) + Len(e) : g[k] = IF k <= Len(f) THEN f[k] ELSE e[k - Len(f)]
    BY <1>8, <2>5, ConcatProperties
  <2>7. Len(f) \in Nat
    OBVIOUS
  <2>8. \A k \in 1 .. Len(f) : g[k] = f[k]
    <3>1. \A k \in 1 .. Len(f) : k \in 1 .. Len(f) + Len(e) /\ k <= Len(f)
      BY <1>8, <2>7
    <3>2. QED
      BY <2>6, <3>1
  <2>9. ASSUME NEW k \in 1 .. Len(e) PROVE g[Len(f) + k] = e[k]
    <3>1. PICK j : j = Len(f) + k
      OBVIOUS
    <3>2. j \in 1 .. Len(f) + Len(e) /\ ~(j <= Len(f)) /\ j - Len(f) = k
      BY <2>7, <2>3b, <3>1
    <3>3. QED
      BY <2>6, <3>1, <3>2
  <2>10. QED
    BY <2>1, <2>4, <2>5, <2>6, <2>7, <2>8, <2>9
<1>14. /\ p.n = Len(accepted) /\ p.pos = Len(Flow) /\ p.off = s.off /\ (p.off > 0 => p.m = m)
       /\ Refused = 0 => p.seq = tx_seq
       /\ p.n \in Nat /\ p.pos \in Nat
  <2>1. p.off \in Nat /\ p.n \in Nat /\ p.pos \in Nat
    BY DEF Places
  <2>2. /\ p.n = Len(accepted) /\ p.pos = Len(Flow)
        /\ s.off > 0 => p.off = s.off /\ p.m = m
        /\ p.off > 0 => s.off = p.off
        /\ Refused = 0 => p.seq = tx_seq
    BY <1>1, <1>2 DEF EndsAt
  <2>3. QED
    BY <1>3, <2>1, <2>2
<1>15. PICK q : q = [n |-> IF upto = m.len THEN p.n + 1 ELSE p.n,
                     off |-> IF upto = m.len THEN 0 ELSE upto, m |-> m,
                     pos |-> p.pos + Len(e), seq |-> tx_seq']
    OBVIOUS
<1>16. /\ q.n = (IF upto = m.len THEN p.n + 1 ELSE p.n)
       /\ q.off = (IF upto = m.len THEN 0 ELSE upto) /\ q.m = m
       /\ q.pos = p.pos + Len(e) /\ q.seq = tx_seq' /\ tx_seq' \in Nat
       /\ q \in Places
    BY <1>8, <1>14, <1>15 DEF Places
<1>17. Passes(accepted, Flow, Refused # 0, p, q)'
  <2>1. Due(q.m, p.off) = s
    BY <1>3, <1>14, <1>16
  <2>2. Frame(s, q.seq - 1)' = Frame(s, tx_seq)
    <3>1. Encrypts(s) => q.seq - 1 = tx_seq
      BY <1>8, <1>16
    <3>2. PICK k : k = q.seq - 1
      OBVIOUS
    <3>3. PICK t : t = tx_seq
      OBVIOUS
    <3>4. Frame(s, k) = Frame(s, t)
      BY <3>1, <3>2, <3>3, SameFrame
    <3>5. Frame(s, k)' = Frame(s, k)
      BY <1>9, KindKept
    <3>6. QED
      BY <3>2, <3>3, <3>4, <3>5
  <2>3. (Valid(s)' <=> Valid(s)) /\ (Encrypts(s)' <=> Encrypts(s)) /\ Whole(m)' = Whole(m)
    BY <1>9, KindKept
  <2>4. Encode(Frame(s, q.seq - 1))' = e
    BY <1>7, <2>2
  <2>5. Encrypts(s) => q.seq >= 1
    BY <1>8, <1>16
  <2>6. Refused' # 0 \/ q.seq = IF Encrypts(s) THEN p.seq + 1 ELSE p.seq
    BY <1>8, <1>14, <1>16
  <2>7. q.pos <= Len(Flow')
    BY <1>8, <1>13, <1>14, <1>16
  <2>8. \A k \in 1 .. Len(e) : Flow'[p.pos + k] = e[k]
    BY <1>13, <1>14
  <2>9. upto = m.len => q.n <= Len(accepted') /\ accepted'[q.n] = Whole(m)
    BY <1>6, <1>12, <1>14, <1>16
  <2>10. /\ upto # m.len => q.off = upto /\ q.n = p.n
         /\ upto = m.len => q.off = 0 /\ q.n = p.n + 1
    BY <1>16
  <2>11. upto = p.off + Chunk(s)
    BY <1>4, <1>5, <1>14
  <2>12. /\ q.m \in Msgs /\ Valid(s)' /\ (p.off > 0 => p.m = q.m)
         /\ (Encrypts(s)' => q.seq >= 1)
         /\ (Refused' # 0 \/ q.seq = IF Encrypts(s)' THEN p.seq + 1 ELSE p.seq)
    BY <1>1, <1>14, <1>16, <2>3, <2>5, <2>6
  <2>13. upto = m.len => q.n <= Len(accepted') /\ accepted'[q.n] = Whole(m)'
    BY <2>3, <2>9
  <2>14. q.pos = p.pos + Len(e)
    BY <1>16
  <2>15. q.m = m
    BY <1>16
  <2>16. QED
    BY <2>1, <2>4, <2>7, <2>8, <2>10, <2>11, <2>12, <2>13, <2>14, <2>15 DEF Passes
<1>18. EndsAt(q)'
  <2>1. q.n = Len(accepted') /\ q.pos = Len(Flow')
    BY <1>6, <1>12, <1>13, <1>14, <1>16
  <2>2. Refused' = 0 => q.seq = tx_seq'
    BY <1>16
  <2>3. CASE upto = m.len
    <3>1. sending' = Idle /\ q.off = 0
      BY <1>6, <1>9, <1>16, <2>3
    <3>2. QED
      BY <2>1, <2>2, <3>1 DEF EndsAt
  <2>4. CASE upto # m.len
    <3>1. PICK t : t = [s EXCEPT !.off = s.off + c]
      OBVIOUS
    <3>2. /\ t.id = s.id /\ t.shape = s.shape /\ t.len = s.len /\ t.off = upto
      BY <1>1, <1>5, <3>1 DEF Sending
    <3>3. sending' = t
      BY <1>6, <1>9, <2>4, <3>1
    <3>4. t # Idle
      <4>1. s = [id |-> s.id, shape |-> s.shape, len |-> s.len, off |-> s.off]
        BY <1>1 DEF Sending
      <4>2. t = [id |-> s.id, shape |-> s.shape, len |-> s.len, off |-> s.off + c]
        BY <3>1, <4>1
      <4>3. QED
        BY <4>2 DEF Idle
    <3>5. /\ q.off = t.off /\ q.m = [id |-> t.id, shape |-> t.shape, len |-> t.len]
      BY <1>2, <1>16, <2>4, <3>2
    <3>6. QED
      BY <2>1, <2>2, <3>3, <3>4, <3>5 DEF EndsAt
  <2>5. QED
    BY <2>3, <2>4
<1>19. /\ Len(accepted) <= Len(accepted') /\ Len(Flow) <= Len(Flow') /\ p.pos <= q.pos
    BY <1>8, <1>12, <1>13, <1>14, <1>16
<1>20. Sends(p, q)
    BY <1>9, <1>12, <1>13, <1>16, <1>17, <1>18, <1>19 DEF Sends
<1>21. QED
    BY <1>16, <1>20

\* A frame written is the last of the flow.
LEMMA SentFollows ==
    ASSUME VarsTyped, VarsTyped', SendOK, FlowFollows, Refused' = 0 => Refused = 0, WriteFrame
    PROVE  FlowFollows'
<1>1. PICK n \in Nat : \E at \in [0 .. n -> Places] : Follows(n, at)
    BY DEF FlowFollows
<1>2. PICK at \in [0 .. n -> Places] : Follows(n, at)
    BY <1>1
<1>3. /\ StartsAt(at[0]) /\ EndsAt(at[n])
      /\ \A i \in 1 .. n : Passes(accepted, Flow, Refused # 0, at[i - 1], at[i])
      /\ \A i, j \in 0 .. n : i <= j => at[i].pos <= at[j].pos
    BY <1>2 DEF Follows
<1>4. PICK p \in Places : p = at[n]
    OBVIOUS
<1>5. PICK q \in Places : Sends(p, q)
  <2>1. EndsAt(p)
    BY <1>3, <1>4
  <2>2. QED
    BY <2>1, WriteFrameIs
<1>6. /\ kind' = kind /\ UNCHANGED <<in_message, msg, tls, rpc, yielded>>
      /\ Len(accepted) <= Len(accepted') /\ \A i \in 1 .. Len(accepted) : accepted'[i] = accepted[i]
      /\ Len(Flow) <= Len(Flow') /\ \A i \in 1 .. Len(Flow) : Flow'[i] = Flow[i]
      /\ p.pos <= q.pos /\ EndsAt(q)'
    BY <1>5 DEF Sends, reader
<1>7. Passes(accepted, Flow, Refused # 0, p, q)'
    BY <1>5 DEF Sends
<1>8. PICK at2 \in [0 .. n + 1 -> Places] : at2 = [i \in 0 .. n + 1 |-> IF i <= n THEN at[i] ELSE q]
  <2>1. \A i \in 0 .. n + 1 : (IF i <= n THEN at[i] ELSE q) \in Places
    OBVIOUS
  <2>2. [i \in 0 .. n + 1 |-> IF i <= n THEN at[i] ELSE q] \in [0 .. n + 1 -> Places]
    BY <2>1
  <2>3. QED
    BY <2>2
<1>9. (\A i \in 0 .. n : at2[i] = at[i]) /\ at2[n + 1] = q
    BY <1>8
<1>10. StartsAt(at2[0])'
  <2>1. at2[0] = at[0]
    BY <1>9
  <2>2. PICK a : a = at[0]
    OBVIOUS
  <2>3. StartsAt(a)
    BY <1>3, <2>2
  <2>4. Reported(a.m.shape.mt)' = Reported(a.m.shape.mt)
    BY <1>6 DEF Reported
  <2>5. Refused' = 0 => Refused = 0
    OBVIOUS
  <2>6. UNCHANGED <<in_message, msg, tls, rpc, yielded>>
    BY <1>6
  <2>7. StartsAt(a)'
    BY <2>3, <2>4, <2>5, <2>6 DEF StartsAt
  <2>8. QED
    BY <2>1, <2>2, <2>7
<1>11. ASSUME NEW i \in 1 .. n + 1
       PROVE  Passes(accepted, Flow, Refused # 0, at2[i - 1], at2[i])'
  <2>1. CASE i <= n
    <3>1. i \in 1 .. n /\ i - 1 \in 0 .. n /\ i \in 0 .. n
      BY <2>1
    <3>2. PICK a \in Places : a = at[i - 1]
      BY <3>1
    <3>3. PICK b \in Places : b = at[i]
      BY <3>1
    <3>4. Passes(accepted, Flow, Refused # 0, a, b)
      BY <1>3, <3>1, <3>2, <3>3
    <3>5. Passes(accepted, Flow, Refused # 0, a, b)'
      BY <1>6, <3>4, StillPasses
    <3>6. at2[i - 1] = a /\ at2[i] = b
      BY <1>9, <3>1, <3>2, <3>3
    <3>7. QED
      BY <3>5, <3>6
  <2>2. CASE ~(i <= n)
    <3>1. i = n + 1 /\ i - 1 = n /\ n \in 0 .. n
      BY <2>2
    <3>2. at2[i - 1] = p /\ at2[i] = q
      BY <1>4, <1>9, <3>1
    <3>3. QED
      BY <1>7, <3>2
  <2>3. QED
    BY <2>1, <2>2
<1>12. EndsAt(at2[n + 1])'
    BY <1>6, <1>9
<1>13. ASSUME NEW i \in 0 .. n + 1, NEW j \in 0 .. n + 1, i <= j PROVE at2[i].pos <= at2[j].pos
  <2>1. q.pos \in Nat /\ p.pos \in Nat
    BY DEF Places
  <2>2. \A k \in 0 .. n : at[k] \in Places /\ at[k].pos \in Nat /\ at[k].pos <= p.pos
    <3>1. \A k \in 0 .. n : k <= n /\ n \in 0 .. n
      OBVIOUS
    <3>2. QED
      BY <1>3, <1>4, <3>1 DEF Places
  <2>3. CASE j <= n
    <3>1. i \in 0 .. n /\ j \in 0 .. n
      BY <1>13, <2>3
    <3>2. QED
      BY <1>3, <1>9, <1>13, <3>1
  <2>4. CASE ~(j <= n) /\ i <= n
    <3>1. i \in 0 .. n /\ j = n + 1
      BY <2>4
    <3>2. at2[j] = q /\ at2[i] = at[i]
      BY <1>9, <3>1
    <3>3. QED
      BY <1>6, <2>1, <2>2, <3>1, <3>2
  <2>5. CASE ~(i <= n)
    <3>1. i = n + 1 /\ j = n + 1
      BY <1>13, <2>5
    <3>2. QED
      BY <1>9, <2>1, <3>1
  <2>6. QED
    BY <2>3, <2>4, <2>5
<1>14. Follows(n + 1, at2)'
  <2>1. PICK k \in Nat : k = n + 1
    OBVIOUS
  <2>2. StartsAt(at2[0])' /\ EndsAt(at2[k])'
    BY <1>10, <1>12, <2>1
  <2>3. \A i \in 1 .. k : Passes(accepted, Flow, Refused # 0, at2[i - 1], at2[i])'
    BY <1>11, <2>1
  <2>4. \A i, j \in 0 .. k : i <= j => at2[i].pos <= at2[j].pos
    BY <1>13, <2>1
  <2>5. Follows(k, at2)'
    BY <2>2, <2>3, <2>4 DEF Follows
  <2>6. QED
    BY <2>1, <2>5
<1>15. n + 1 \in Nat
    OBVIOUS
<1>16. QED
    BY <1>8, <1>14, <1>15 DEF FlowFollows

\* A place when the first l bytes are gone.
Moved(p, l) == [n |-> p.n, off |-> p.off, m |-> p.m, pos |-> p.pos - l, seq |-> p.seq]

\* A frame moves with the bytes it is in.
LEMMA PassesMoved ==
    ASSUME NEW acc, NEW bytes, NEW bytes2, NEW gap \in BOOLEAN, NEW l \in Nat,
           Len(bytes) \in Nat, Len(bytes2) = Len(bytes) - l,
           \A k \in 1 .. Len(bytes2) : bytes2[k] = bytes[l + k],
           kind \in {"stream", "plain", "sealed"},
           NEW p \in Places, NEW q \in Places, p.pos >= l, Passes(acc, bytes, gap, p, q)
    PROVE  Passes(acc, bytes2, gap, Moved(p, l), Moved(q, l))
<1>1. PICK s : s = Due(q.m, p.off)
    OBVIOUS
<1>2. PICK e : e = Encode(Frame(s, q.seq - 1))
    OBVIOUS
<1>3. /\ q.m \in Msgs /\ Valid(s)
      /\ p.off > 0 => p.m = q.m
      /\ Encrypts(s) => q.seq >= 1
      /\ gap \/ q.seq = IF Encrypts(s) THEN p.seq + 1 ELSE p.seq
      /\ q.pos = p.pos + Len(e) /\ q.pos <= Len(bytes)
      /\ \A k \in 1 .. Len(e) : bytes[p.pos + k] = e[k]
      /\ p.off + Chunk(s) # q.m.len => q.off = p.off + Chunk(s) /\ q.n = p.n
      /\ p.off + Chunk(s) = q.m.len =>
            /\ q.off = 0 /\ q.n = p.n + 1
            /\ q.n <= Len(acc) /\ acc[q.n] = Whole(q.m)
    BY <1>1, <1>2 DEF Passes
<1>4. p.pos \in Nat /\ q.pos \in Nat
    BY DEF Places
<1>5. Len(e) \in Nat
    BY <1>1, <1>2, <1>3, EncodedLen
<1>6. PICK a : a = Moved(p, l)
    OBVIOUS
<1>7. PICK b : b = Moved(q, l)
    OBVIOUS
<1>8. /\ a.n = p.n /\ a.off = p.off /\ a.m = p.m /\ a.pos = p.pos - l /\ a.seq = p.seq
      /\ b.n = q.n /\ b.off = q.off /\ b.m = q.m /\ b.pos = q.pos - l /\ b.seq = q.seq
    BY <1>6, <1>7 DEF Moved
<1>9. b.pos = a.pos + Len(e) /\ b.pos <= Len(bytes2)
    BY <1>3, <1>4, <1>5, <1>8
<1>10. ASSUME NEW k \in 1 .. Len(e) PROVE bytes2[a.pos + k] = e[k]
  <2>1. PICK j : j = a.pos + k
    OBVIOUS
  <2>2. j \in 1 .. Len(bytes2) /\ l + j = p.pos + k
    BY <1>3, <1>4, <1>5, <1>8, <2>1, SMTT(30)
  <2>3. bytes2[j] = bytes[p.pos + k]
    BY <2>2
  <2>4. QED
    BY <1>3, <2>1, <2>3
<1>11. s = Due(b.m, a.off) /\ e = Encode(Frame(s, b.seq - 1))
    BY <1>1, <1>2, <1>8
<1>12. Passes(acc, bytes2, gap, a, b)
    BY <1>3, <1>8, <1>9, <1>10, <1>11 DEF Passes
<1>13. QED
    BY <1>6, <1>7, <1>12

\* What is left when a frame has been taken.
LEMMA RestIs ==
    ASSUME VarsTyped, NEW l \in Nat, l <= Len(in), in' = SubSeq(in, l + 1, Len(in)), wire' = wire
    PROVE  /\ Len(Flow') = Len(Flow) - l
           /\ \A k \in 1 .. Len(Flow') : Flow'[k] = Flow[l + k]
<1>1. PICK b \in Seq(Nat) : b = in
    BY DEF VarsTyped
<1>2. PICK w \in Seq(Nat) : w = wire
    BY DEF VarsTyped
<1>3. PICK r : r = SubSeq(b, l + 1, Len(b))
    OBVIOUS
<1>4. Len(b) \in Nat /\ Len(w) \in Nat /\ l <= Len(b)
    BY <1>1
<1>5. r \in Seq(Nat) /\ Len(r) = Len(b) - l /\ \A k \in 1 .. Len(r) : r[k] = b[l + k]
  <2>1. PICK lo \in Int : lo = l + 1
    OBVIOUS
  <2>2. PICK hi \in Int : hi = Len(b)
    BY <1>4
  <2>3. /\ \A k \in lo .. hi : k \in 1 .. Len(b)
        /\ \A k \in 1 .. Len(b) - l : lo + k - 1 = l + k
        /\ hi - lo + 1 = Len(b) - l /\ (IF lo <= hi THEN hi - lo + 1 ELSE 0) = Len(b) - l
    BY <1>4, <2>1, <2>2
  <2>4. \A k \in lo .. hi : b[k] \in Nat
    BY <2>3, ElementOfSeq
  <2>5. /\ r \in Seq(Nat) /\ Len(r) = IF lo <= hi THEN hi - lo + 1 ELSE 0
        /\ \A k \in 1 .. hi - lo + 1 : r[k] = b[lo + k - 1]
    BY <1>3, <2>1, <2>2, <2>4, SubSeqProperties
  <2>6. QED
    BY <2>3, <2>5
<1>6. PICK f : f = Flow
    OBVIOUS
<1>7. PICK g : g = Flow'
    OBVIOUS
<1>8. f = b \o w /\ g = r \o w
  <2>1. in' = r /\ wire' = w
    BY <1>1, <1>2, <1>3
  <2>2. QED
    BY <1>1, <1>2, <1>6, <1>7, <2>1 DEF Flow
<1>9. /\ Len(f) = Len(b) + Len(w)
      /\ \A k \in 1 .. Len(b) + Len(w) : f[k] = IF k <= Len(b) THEN b[k] ELSE w[k - Len(b)]
    BY <1>8, ConcatProperties
<1>10. r \in Seq(Nat)
    BY <1>5
<1>11. /\ Len(g) = Len(r) + Len(w)
       /\ \A k \in 1 .. Len(r) + Len(w) : g[k] = IF k <= Len(r) THEN r[k] ELSE w[k - Len(r)]
    BY <1>8, <1>10, ConcatProperties
<1>12. Len(g) = Len(f) - l
    BY <1>4, <1>5, <1>9, <1>11
<1>13. ASSUME NEW k \in 1 .. Len(g) PROVE g[k] = f[l + k]
  <2>1. PICK j : j = l + k
    OBVIOUS
  <2>2. j \in 1 .. Len(b) + Len(w) /\ k \in 1 .. Len(r) + Len(w)
    BY <1>4, <1>5, <1>11, <2>1
  <2>3. CASE k <= Len(r)
    <3>1. g[k] = r[k] /\ r[k] = b[l + k]
      <4>1. k \in 1 .. Len(r)
        BY <1>4, <1>5, <2>3
      <4>2. QED
        BY <1>5, <1>11, <2>2, <2>3, <4>1
    <3>2. j <= Len(b)
      BY <1>4, <1>5, <2>1, <2>3
    <3>3. f[j] = b[j]
      BY <1>9, <2>2, <3>2
    <3>4. QED
      BY <2>1, <3>1, <3>3
  <2>4. CASE ~(k <= Len(r))
    <3>1. g[k] = w[k - Len(r)]
      BY <1>11, <2>2, <2>4
    <3>2. ~(j <= Len(b)) /\ j - Len(b) = k - Len(r)
      BY <1>4, <1>5, <2>1, <2>4
    <3>3. f[j] = w[j - Len(b)]
      BY <1>9, <2>2, <3>2
    <3>4. QED
      BY <2>1, <3>1, <3>2, <3>3
  <2>5. QED
    BY <2>3, <2>4
<1>14. QED
    BY <1>6, <1>7, <1>12, <1>13

\* When a frame has been taken the reader is at the place after it.
LEMMA TakenStarts ==
    ASSUME VarsTyped, Refused' = 0 => Refused = 0, kind' = kind, rpc = "parse",
           NEW p \in Places, NEW q \in Places, StartsAt(p), Takes(p, q)
    PROVE  StartsAt(Moved(q, q.pos))'
<1>1. PICK s : s = Due(q.m, p.off)
    OBVIOUS
<1>2. PICK upto : upto = p.off + Chunk(s)
    OBVIOUS
<1>3. PICK a : a = Moved(q, q.pos)
    OBVIOUS
<1>4. a.n = q.n /\ a.off = q.off /\ a.m = q.m /\ a.pos = 0 /\ a.seq = q.seq
  <2>1. q.pos \in Nat
    BY DEF Places
  <2>2. QED
    BY <1>3, <2>1 DEF Moved
<1>5. /\ Drained(tls')
      /\ tls'.seq = IF Encrypts(s) THEN q.seq ELSE tls.seq
      /\ upto = q.m.len => in_message' = FALSE /\ yielded' = Append(yielded, Whole(q.m))
      /\ upto # q.m.len =>
            /\ in_message' = TRUE /\ yielded' = yielded
            /\ msg' = [ch |-> q.m.shape.ch, mt |-> Reported(q.m.shape.mt), total |-> q.m.len,
                       body |-> Body(q.m.id, 1, upto)]
    BY <1>1, <1>2 DEF Takes
<1>6. Passes(accepted, Flow, Refused # 0, p, q)
    BY DEF Takes
<1>7. /\ q.m \in Msgs /\ Valid(s)
      /\ Refused # 0 \/ q.seq = IF Encrypts(s) THEN p.seq + 1 ELSE p.seq
      /\ upto # q.m.len => q.off = upto /\ q.n = p.n
      /\ upto = q.m.len => /\ q.off = 0 /\ q.n = p.n + 1
                           /\ q.n <= Len(accepted) /\ accepted[q.n] = Whole(q.m)
    BY <1>1, <1>2, <1>6 DEF Passes
<1>8. p.n = Len(yielded) /\ (Refused = 0 => p.seq = tls.seq)
    BY DEF StartsAt
<1>9. yielded \in Seq(Messages) /\ accepted \in Seq(Messages) /\ Len(yielded) \in Nat /\ Len(accepted) \in Nat
    BY DEF VarsTyped
<1>10. p.off \in Nat /\ s.len = q.m.len /\ s.off = p.off /\ q.m.len \in Nat
    BY <1>1, <1>7, Sizes DEF Places, Msgs, Due
<1>11. a.n = Len(yielded')
  <2>1. CASE upto = q.m.len
    <3>1. q.n \in 1 .. Len(accepted)
      BY <1>7, <1>8, <1>9, <2>1
    <3>2. Whole(q.m) \in Messages
      BY <1>7, <1>9, <2>1, <3>1, ElementOfSeq
    <3>3. Len(yielded') = Len(yielded) + 1
      BY <1>5, <1>9, <2>1, <3>2, AppendProperties
    <3>4. QED
      BY <1>4, <1>7, <1>8, <2>1, <3>3
  <2>2. CASE upto # q.m.len
    BY <1>4, <1>5, <1>7, <1>8, <2>2
  <2>3. QED
    BY <2>1, <2>2
<1>12. ~in_message' => a.off = 0
    BY <1>4, <1>5, <1>7
<1>13. in_message' =>
          /\ a.m \in Msgs /\ a.off \in 1 .. a.m.len - 1 /\ a.m.len > MaxPayload
          /\ msg' = [ch |-> a.m.shape.ch, mt |-> Reported(a.m.shape.mt)', total |-> a.m.len,
                     body |-> Body(a.m.id, 1, a.off)]
  <2>1. SUFFICES ASSUME in_message'
                 PROVE  /\ a.m \in Msgs /\ a.off \in 1 .. a.m.len - 1 /\ a.m.len > MaxPayload
                        /\ msg' = [ch |-> a.m.shape.ch, mt |-> Reported(a.m.shape.mt)',
                                   total |-> a.m.len, body |-> Body(a.m.id, 1, a.off)]
    OBVIOUS
  <2>2. upto # q.m.len
    BY <1>5, <2>1
  <2>3. Chunk(s) \in 0 .. MaxPayload /\ MaxPayload \in Nat /\ (s.len # 0 => Chunk(s) # 0)
        /\ upto \in 0 .. q.m.len /\ (upto # q.m.len => q.m.len > MaxPayload)
    BY <1>2, <1>7, <1>10, ChunkIs, Sizes
  <2>4. upto \in 1 .. q.m.len - 1 /\ q.m.len > MaxPayload
    BY <1>2, <1>10, <2>2, <2>3
  <2>5. Reported(q.m.shape.mt)' = Reported(q.m.shape.mt)
    BY DEF Reported
  <2>6. /\ msg' = [ch |-> q.m.shape.ch, mt |-> Reported(q.m.shape.mt), total |-> q.m.len,
                   body |-> Body(q.m.id, 1, upto)]
        /\ q.off = upto
    BY <1>5, <1>7, <2>2
  <2>7. QED
    BY <1>4, <1>7, <2>4, <2>5, <2>6
<1>14. Drained(tls') /\ (Refused' = 0 => a.seq = tls'.seq)
  <2>1. SUFFICES ASSUME Refused' = 0 PROVE a.seq = tls'.seq
    BY <1>5
  <2>2. Refused = 0
    BY <2>1
  <2>3. p.seq = tls.seq /\ q.seq = IF Encrypts(s) THEN p.seq + 1 ELSE p.seq
    BY <1>7, <1>8, <2>2
  <2>4. QED
    BY <1>4, <1>5, <2>3
<1>15. StartsAt(a)'
  <2>1. a.n = Len(yielded') /\ a.pos = 0
    BY <1>4, <1>11
  <2>2. QED
    BY <1>12, <1>13, <1>14, <2>1 DEF StartsAt
<1>16. QED
    BY <1>3, <1>15

\* A frame taken is the first of the flow.
LEMMA TakenFollows ==
    ASSUME VarsTyped, VarsTyped', FlowFollows, Refused' = 0 => Refused = 0, TakeFrame
    PROVE  /\ FlowFollows'
           /\ \/ yielded' = yielded
              \/ /\ Len(yielded) < Len(accepted)
                 /\ yielded' = Append(yielded, accepted[Len(yielded) + 1])
<1>1. PICK n \in Nat : \E at \in [0 .. n -> Places] : Follows(n, at)
    BY DEF FlowFollows
<1>2. PICK at \in [0 .. n -> Places] : Follows(n, at)
    BY <1>1
<1>3. /\ StartsAt(at[0]) /\ EndsAt(at[n])
      /\ \A i \in 1 .. n : Passes(accepted, Flow, Refused # 0, at[i - 1], at[i])
      /\ \A i, j \in 0 .. n : i <= j => at[i].pos <= at[j].pos
    BY <1>2 DEF Follows
<1>4. n >= 1 /\ Takes(at[0], at[1])
    BY <1>2, TakeFrameIs
<1>5. 0 \in 0 .. n /\ 1 \in 0 .. n
    BY <1>4
<1>6. PICK p \in Places : p = at[0]
    BY <1>5
<1>7. PICK q \in Places : q = at[1]
    BY <1>5
<1>8. PICK l \in Nat : l = q.pos
    BY DEF Places
<1>9. Takes(p, q) /\ StartsAt(p)
    BY <1>3, <1>4, <1>6, <1>7
<1>10. /\ in' = SubSeq(in, l + 1, Len(in)) /\ l <= Len(in)
    BY <1>8, <1>9 DEF Takes
<1>11. UNCHANGED <<kind, slack, sending, tx_seq, last_id, accepted, wire>> /\ rpc = "parse"
    BY DEF TakeFrame, writer
<1>12. Len(Flow') = Len(Flow) - l /\ \A k \in 1 .. Len(Flow') : Flow'[k] = Flow[l + k]
    BY <1>10, <1>11, RestIs
<1>13. Len(Flow) \in Nat /\ Refused' = Refused /\ kind \in {"stream", "plain", "sealed"}
  <2>1. Flow \in Seq(Nat)
    BY FlowIs
  <2>2. Refused' = Refused
    BY <1>11 DEF Refused
  <2>3. QED
    BY <2>1, <2>2 DEF VarsTyped
<1>14. PICK n2 \in Nat : n2 = n - 1
    BY <1>4
<1>15. \A i \in 0 .. n2 : i + 1 \in 0 .. n /\ at[i + 1] \in Places /\ at[i + 1].pos >= l
                          /\ Moved(at[i + 1], l) \in Places
  <2>1. SUFFICES ASSUME NEW i \in 0 .. n2
                 PROVE  i + 1 \in 0 .. n /\ at[i + 1] \in Places /\ at[i + 1].pos >= l
                        /\ Moved(at[i + 1], l) \in Places
    OBVIOUS
  <2>2. i + 1 \in 0 .. n /\ 1 <= i + 1
    BY <1>14
  <2>3. PICK a \in Places : a = at[i + 1]
    BY <2>2
  <2>4. at[1].pos <= at[i + 1].pos
    BY <1>3, <1>5, <2>2
  <2>5. a.pos \in Nat /\ a.pos >= l
    BY <1>7, <1>8, <2>3, <2>4 DEF Places
  <2>6. a.pos - l \in Nat
    BY <2>5
  <2>7. Moved(a, l) \in Places
    BY <2>6 DEF Moved, Places
  <2>8. QED
    BY <2>2, <2>3, <2>5, <2>7
<1>16. PICK at2 \in [0 .. n2 -> Places] : at2 = [i \in 0 .. n2 |-> Moved(at[i + 1], l)]
  <2>1. [i \in 0 .. n2 |-> Moved(at[i + 1], l)] \in [0 .. n2 -> Places]
    BY <1>15
  <2>2. QED
    BY <2>1
<1>17. \A i \in 0 .. n2 : at2[i] = Moved(at[i + 1], l)
    BY <1>16
<1>18. StartsAt(at2[0])'
  <2>1. at2[0] = Moved(at[0 + 1], l) /\ 0 + 1 = 1
    BY <1>17
  <2>2. at2[0] = Moved(q, q.pos)
    BY <1>7, <1>8, <2>1
  <2>3. StartsAt(Moved(q, q.pos))'
    BY <1>9, <1>11, TakenStarts
  <2>4. PICK a : a = Moved(q, q.pos)
    OBVIOUS
  <2>5. StartsAt(a)'
    BY <2>3, <2>4
  <2>6. QED
    BY <2>2, <2>4, <2>5
<1>19. ASSUME NEW i \in 1 .. n2
       PROVE  Passes(accepted, Flow, Refused # 0, at2[i - 1], at2[i])'
  <2>1. i - 1 \in 0 .. n2 /\ i \in 0 .. n2 /\ (i - 1) + 1 = i /\ i + 1 \in 1 .. n /\ (i + 1) - 1 = i
    BY <1>14
  <2>2. PICK a \in Places : a = at[i]
    BY <1>15, <2>1
  <2>3. PICK b \in Places : b = at[i + 1]
    BY <1>15, <2>1
  <2>4. Passes(accepted, Flow, Refused # 0, a, b)
    BY <1>3, <2>1, <2>2, <2>3
  <2>5. a.pos >= l
    BY <1>15, <2>1, <2>2
  <2>6. PICK acc : acc = accepted
    OBVIOUS
  <2>7. PICK bytes : bytes = Flow
    OBVIOUS
  <2>8. PICK bytes2 : bytes2 = Flow'
    OBVIOUS
  <2>9. PICK gap \in BOOLEAN : gap <=> Refused # 0
    OBVIOUS
  <2>10. Passes(acc, bytes, gap, a, b)
    BY <2>4, <2>6, <2>7, <2>9 DEF Passes
  <2>11. /\ Len(bytes) \in Nat /\ Len(bytes2) = Len(bytes) - l
         /\ \A k \in 1 .. Len(bytes2) : bytes2[k] = bytes[l + k]
    BY <1>12, <1>13, <2>7, <2>8
  <2>12. Passes(acc, bytes2, gap, Moved(a, l), Moved(b, l))
    BY <1>13, <2>5, <2>10, <2>11, PassesMoved
  <2>13. PICK a2 : a2 = Moved(a, l)
    OBVIOUS
  <2>14. PICK b2 : b2 = Moved(b, l)
    OBVIOUS
  <2>15. Passes(acc, bytes2, gap, a2, b2)
    BY <2>12, <2>13, <2>14
  <2>16. Passes(acc, bytes2, gap, a2, b2)'
    BY <1>11, <2>15, PassesKept
  <2>17. accepted' = acc /\ Flow' = bytes2 /\ (gap <=> Refused' # 0)
    BY <1>11, <1>13, <2>6, <2>8, <2>9
  <2>18. Passes(accepted, Flow, Refused # 0, a2, b2)'
    BY <2>16, <2>17 DEF Passes
  <2>19. at2[i - 1] = a2 /\ at2[i] = b2
    BY <1>17, <2>1, <2>2, <2>3, <2>13, <2>14
  <2>20. QED
    BY <2>18, <2>19
<1>20. EndsAt(at2[n2])'
  <2>1. n2 \in 0 .. n2 /\ n2 + 1 = n /\ n \in 0 .. n
    BY <1>14
  <2>2. PICK b \in Places : b = at[n]
    BY <2>1
  <2>3. EndsAt(b)
    BY <1>3, <2>2
  <2>4. PICK b2 : b2 = Moved(b, l)
    OBVIOUS
  <2>5. /\ b2.n = b.n /\ b2.off = b.off /\ b2.m = b.m /\ b2.pos = b.pos - l /\ b2.seq = b.seq
    BY <2>4 DEF Moved
  <2>6. b2.pos = Len(Flow')
    BY <1>12, <2>3, <2>5 DEF EndsAt
  <2>7. EndsAt(b2)'
    BY <1>11, <1>13, <2>3, <2>5, <2>6 DEF EndsAt
  <2>8. at2[n2] = b2
    BY <1>17, <2>1, <2>2, <2>4
  <2>9. QED
    BY <2>7, <2>8
<1>21. ASSUME NEW i \in 0 .. n2, NEW j \in 0 .. n2, i <= j PROVE at2[i].pos <= at2[j].pos
  <2>1. i + 1 \in 0 .. n /\ j + 1 \in 0 .. n /\ i + 1 <= j + 1
    BY <1>14, <1>21
  <2>2. at[i + 1].pos <= at[j + 1].pos
    BY <1>3, <2>1
  <2>3. PICK a \in Places : a = at[i + 1]
    BY <2>1
  <2>4. PICK b \in Places : b = at[j + 1]
    BY <2>1
  <2>5. at2[i].pos = a.pos - l /\ at2[j].pos = b.pos - l
    BY <1>17, <2>3, <2>4 DEF Moved
  <2>6. a.pos \in Nat /\ b.pos \in Nat /\ a.pos <= b.pos
    BY <2>2, <2>3, <2>4 DEF Places
  <2>7. QED
    BY <2>5, <2>6
<1>22. Follows(n2, at2)'
    BY <1>18, <1>19, <1>20, <1>21 DEF Follows
<1>23. FlowFollows'
    BY <1>22 DEF FlowFollows
<1>24. \/ yielded' = yielded
       \/ /\ Len(yielded) < Len(accepted)
          /\ yielded' = Append(yielded, accepted[Len(yielded) + 1])
  <2>1. PICK upto : upto = p.off + Chunk(Due(q.m, p.off))
    OBVIOUS
  <2>2. /\ upto = q.m.len => yielded' = Append(yielded, Whole(q.m))
        /\ upto # q.m.len => yielded' = yielded
        /\ Passes(accepted, Flow, Refused # 0, p, q)
    BY <1>9, <2>1 DEF Takes
  <2>3. upto = q.m.len => q.n = p.n + 1 /\ q.n <= Len(accepted) /\ accepted[q.n] = Whole(q.m)
    BY <2>1, <2>2 DEF Passes
  <2>4. p.n = Len(yielded)
    BY <1>9 DEF StartsAt
  <2>5. Len(yielded) \in Nat /\ Len(accepted) \in Nat
    BY SMTT(30) DEF VarsTyped
  <2>6. QED
    BY <2>2, <2>3, <2>4, <2>5
<1>25. QED
    BY <1>23, <1>24

\* The places are kept by every step.
LEMMA StepFollows ==
    ASSUME VarsTyped, VarsTyped', SendOK, FlowFollows, Refused' = 0 => Refused = 0, [Next]_vars
    PROVE  FlowFollows'
<1>1. CASE WriteFrame
    BY <1>1, SentFollows
<1>2. CASE TakeFrame
    BY <1>2, TakenFollows
<1>3. CASE \/ \E s \in Shapes, len \in Lens : Begin(s, len)
           \/ WriteFails \/ ReceiveSome \/ NeedMore \/ BadFrame \/ UNCHANGED vars
    BY <1>3, QuietFollows
<1>4. QED
    BY <1>1, <1>2, <1>3 DEF Next

\* The reader fails at a record out of sequence, which a gap precedes.
LEMMA StepFails ==
    ASSUME VarsTyped, SendOK, SendOK', FlowFollows, FailsOnlyForGap, Refused' = 0 => Refused = 0,
           [Next]_vars
    PROVE  FailsOnlyForGap'
<1>1. kind' = kind
    BY DEF Next, vars, writer, Begin, WriteFrame, WriteFails, ReceiveSome, Receive, NeedMore,
           TakeFrame, BadFrame
<1>2. Refused \in Nat /\ Refused' \in Nat
    BY DEF SendOK
<1>3. CASE BadFrame
  <2>1. kind = "sealed" /\ Refused # 0
    BY <1>3, BadFrameIs DEF BadFrame
  <2>2. QED
    BY <1>1, <1>2, <2>1 DEF FailsOnlyForGap
<1>4. CASE rpc' = "failed" => rpc = "failed"
    BY <1>1, <1>2, <1>4 DEF FailsOnlyForGap
<1>5. CASE TakeFrame
  <2>1. rpc' # "failed"
    BY <1>5 DEF TakeFrame
  <2>2. QED
    BY <1>4, <2>1
<1>6. QED
    BY <1>3, <1>4, <1>5
    DEF Next, vars, reader, Begin, WriteFrame, WriteFails, ReceiveSome, Receive, NeedMore

\* What the steps do to the two ends of the channel.
LEMMA StepChannel ==
    ASSUME VarsTyped, VarsTyped', SendOK, FlowFollows, Refused' = 0 => Refused = 0, [Next]_vars
    PROVE  \/ UNCHANGED <<accepted, yielded>>
           \/ \E m \in Msgs : /\ accepted' = Append(accepted, Whole(m)) /\ Whole(m) \in Messages
                              /\ UNCHANGED yielded
           \/ /\ Len(yielded) < Len(accepted)
              /\ yielded' = Append(yielded, accepted[Len(yielded) + 1])
              /\ UNCHANGED accepted
<1>1. CASE WriteFrame
  <2>1. sending # Idle /\ UNCHANGED yielded
    BY <1>1 DEF WriteFrame, reader
  <2>2. PICK m \in Msgs : m = [id |-> sending.id, shape |-> sending.shape, len |-> sending.len]
    BY <2>1, SendingIs
  <2>3. Whole(m) = [ch |-> sending.shape.ch, mt |-> Reported(sending.shape.mt),
                    body |-> Body(sending.id, 1, sending.len)]
    BY <2>2 DEF Whole
  <2>4. Whole(m) \in Messages
    BY <2>1, <2>3, SendingIs
  <2>5. accepted' = accepted \/ accepted' = Append(accepted, Whole(m))
    BY <1>1, <2>3 DEF WriteFrame
  <2>6. QED
    BY <2>1, <2>4, <2>5
<1>2. CASE TakeFrame
  <2>1. UNCHANGED accepted
    BY <1>2 DEF TakeFrame, writer
  <2>2. QED
    BY <1>2, <2>1, TakenFollows
<1>3. QED
    BY <1>1, <1>2
    DEF Next, vars, writer, reader, Begin, WriteFails, ReceiveSome, Receive, NeedMore, BadFrame

-----------------------------------------------------------------------------
(* The theorems.                                                           *)

\* The flow is followed for ever: the bytes written and not yet consumed are
\* the frames of messages, one after the other, and from where the reader is.
THEOREM Invariant == Spec => []IInv
<1>1. Init => IInv
  <2>1. SUFFICES ASSUME Init PROVE IInv
    OBVIOUS
  <2>2. \A S : <<>> \in Seq(S)
    BY EmptySeq
  <2>3. /\ NewTls \in TlsStates /\ NewTls.off \in 0 .. Len(NewTls.in) /\ Drained(NewTls)
        /\ NewTls.seq = 0
    BY <2>2, EmptySeq DEF NewTls, TlsStates, Drained
  <2>4. VarsTyped
    <3>1. NoMsg \in Assembly
      BY <2>2 DEF NoMsg, Assembly
    <3>2. slack \in Slacks
      BY <2>1, SizesAssumption DEF Init
    <3>3. 0 \in 0 .. MaxMsgs
      BY Sizes
    <3>4. QED
      BY <2>1, <2>2, <2>3, <3>1, <3>2, <3>3 DEF Init, VarsTyped
  <2>5. SendOK /\ Refused = 0 /\ Len(yielded) <= Len(accepted)
    <3>1. Len(accepted) = 0 /\ Len(yielded) = 0 /\ last_id = 0 /\ sending = Idle
      BY <2>1, EmptySeq DEF Init
    <3>2. QED
      BY <3>1 DEF SendOK, Refused
  <2>6. FlowFollows
    <3>1. Flow = <<>> /\ Len(Flow) = 0
      BY <2>1, <2>2, ConcatEmptySeq DEF Init, Flow
    <3>2. PICK at : at = [i \in 0 .. 0 |-> [n |-> 0, off |-> 0, m |-> Idle, pos |-> 0, seq |-> 0]]
      OBVIOUS
    <3>3. /\ at \in [0 .. 0 -> Places] /\ at[0].n = 0 /\ at[0].off = 0 /\ at[0].pos = 0
          /\ at[0].seq = 0
      BY <3>2 DEF Places
    <3>4. StartsAt(at[0])
      BY <2>1, <2>3, <3>3, EmptySeq DEF Init, StartsAt
    <3>5. EndsAt(at[0])
      BY <2>1, <3>1, <3>3, EmptySeq DEF Init, EndsAt
    <3>6. \A i, j \in 0 .. 0 : i <= j => at[i].pos <= at[j].pos
      BY <3>3
    <3>7. Follows(0, at)
      BY <3>4, <3>5, <3>6 DEF Follows
    <3>8. QED
      BY <3>3, <3>7 DEF FlowFollows
  <2>7. FailsOnlyForGap
    BY <2>1 DEF Init, FailsOnlyForGap
  <2>8. QED
    BY <2>4, <2>5, <2>6, <2>7 DEF IInv
<1>2. IInv /\ [Next]_vars => IInv'
  <2>1. SUFFICES ASSUME IInv, [Next]_vars PROVE IInv'
    OBVIOUS
  <2>2. VarsTyped /\ SendOK /\ FlowFollows /\ FailsOnlyForGap /\ Len(yielded) <= Len(accepted)
    BY <2>1 DEF IInv
  <2>3. VarsTyped'
    BY <2>1, <2>2, StepTyped
  <2>4. SendOK' /\ (Refused' = 0 => Refused = 0)
    BY <2>1, <2>2, StepSendOK
  <2>5. FlowFollows'
    BY <2>1, <2>2, <2>3, <2>4, StepFollows
  <2>6. FailsOnlyForGap'
    BY <2>1, <2>2, <2>4, StepFails
  <2>7. Len(yielded') <= Len(accepted')
    <3>1. /\ accepted \in Seq(Messages) /\ yielded \in Seq(Messages)
          /\ Len(accepted) \in Nat /\ Len(yielded) \in Nat
      BY <2>2 DEF VarsTyped
    <3>2. CASE UNCHANGED <<accepted, yielded>>
      BY <2>2, <3>2
    <3>3. ASSUME NEW m \in Msgs, accepted' = Append(accepted, Whole(m)), Whole(m) \in Messages,
                 UNCHANGED yielded
          PROVE  Len(yielded') <= Len(accepted')
      <4>1. Len(accepted') = Len(accepted) + 1
        BY <3>1, <3>3, AppendProperties
      <4>2. QED
        BY <2>2, <3>1, <3>3, <4>1
    <3>4. CASE /\ Len(yielded) < Len(accepted)
               /\ yielded' = Append(yielded, accepted[Len(yielded) + 1])
               /\ UNCHANGED accepted
      <4>1. Len(yielded) + 1 \in 1 .. Len(accepted)
        BY <3>1, <3>4
      <4>2. accepted[Len(yielded) + 1] \in Messages
        BY <3>1, <4>1, ElementOfSeq
      <4>3. Len(yielded') = Len(yielded) + 1
        BY <3>1, <3>4, <4>2, AppendProperties
      <4>4. QED
        BY <3>1, <3>4, <4>3
    <3>5. QED
      BY <2>1, <2>2, <2>3, <2>4, <3>2, <3>3, <3>4, StepChannel
  <2>8. QED
    BY <2>3, <2>4, <2>5, <2>6, <2>7 DEF IInv
<1>3. QED
    BY <1>1, <1>2, PTL DEF Spec

\* What a place where the reader is says of it.
LEMMA ReaderIs ==
    ASSUME VarsTyped, FlowFollows
    PROVE  /\ rpc # "failed" => Drained(tls)
           /\ in_message => msg.total \in Lens
<1>1. PICK n \in Nat : \E at \in [0 .. n -> Places] : Follows(n, at)
    BY DEF FlowFollows
<1>2. PICK at \in [0 .. n -> Places] : Follows(n, at)
    BY <1>1
<1>3. PICK p : p = at[0]
    OBVIOUS
<1>4. StartsAt(p)
    BY <1>2, <1>3 DEF Follows
<1>5. in_message => p.m \in Msgs /\ msg.total = p.m.len
    BY <1>4 DEF StartsAt
<1>6. QED
    BY <1>4, <1>5 DEF StartsAt, Msgs

\* Every variable keeps its type, the TLS session's bytes included.
THEOREM TypeCorrect == Spec => []TypeOK
<1>1. IInv => TypeOK
  <2>1. SUFFICES ASSUME VarsTyped, SendOK, FlowFollows PROVE TypeOK
    BY DEF IInv
  <2>2. ASSUME sending # Idle
        PROVE  /\ sending \in [id : Ids, shape : Shapes, len : Lens, off : Nat]
               /\ sending.off <= sending.len
    <3>1. sending \in Sending /\ Valid(sending)
      BY <2>1, <2>2 DEF VarsTyped, SendOK
    <3>2. sending.len \in Nat /\ sending.off \in Nat
      BY <3>1, Sizes DEF Sending
    <3>3. sending.off <= sending.len
      BY <3>1, <3>2 DEF Valid
    <3>4. QED
      BY <3>1, <3>3 DEF Sending
  <2>3. \A bytes \in {wire, in, tls.in, tls.got, tls.left} : \A i \in DOMAIN bytes : bytes[i] \in Nat
    <3>1. \A bytes \in Seq(Nat) : \A i \in DOMAIN bytes : bytes[i] \in Nat
      OBVIOUS
    <3>2. /\ wire \in Seq(Nat) /\ in \in Seq(Nat) /\ tls.in \in Seq(Nat) /\ tls.got \in Seq(Nat)
          /\ tls.left \in Seq(Nat)
      BY <2>1 DEF VarsTyped, TlsStates
    <3>3. QED
      BY <3>1, <3>2
  <2>4. in_message => msg.total \in Lens
    BY <2>1, ReaderIs
  <2>5. tls.seq \in Nat /\ tls.off \in 0 .. Len(tls.in)
    BY <2>1 DEF VarsTyped, TlsStates
  <2>6. QED
    BY <2>1, <2>2, <2>3, <2>4, <2>5 DEF VarsTyped, TypeOK
<1>2. QED
    BY <1>1, Invariant, PTL

\* The reader fails only after a frame was refused for its size when its record
\* had been made, whatever the sizes, the portions and the slack of the buffers.
THEOREM FailureHasGap == Spec => []FailsOnlyForGap
<1>1. IInv => FailsOnlyForGap
    BY DEF IInv
<1>2. QED
    BY <1>1, Invariant, PTL

\* One read per frame leaves nothing in the TLS session: a frame is one record,
\* and when the reader is given it, it has consumed all the records before.
THEOREM OneRecordPerFrame == Spec => []RecordPerFrame
<1>1. IInv => RecordPerFrame
    BY ReaderIs DEF IInv, RecordPerFrame
<1>2. QED
    BY <1>1, Invariant, PTL

\* A sequence without its first k, longer by one at its end: what is still to
\* be returned when one more message is accepted.
LEMMA RestAppended ==
    ASSUME NEW S, NEW a \in Seq(S), NEW x \in S, NEW k \in 0 .. Len(a)
    PROVE  SubSeq(Append(a, x), k + 1, Len(Append(a, x))) = Append(SubSeq(a, k + 1, Len(a)), x)
<1> DEFINE b == Append(a, x)
           r == SubSeq(a, k + 1, Len(a))
<1>1. /\ b \in Seq(S) /\ Len(b) = Len(a) + 1 /\ b[Len(a) + 1] = x /\ Len(a) \in Nat
      /\ \A i \in 1 .. Len(a) : b[i] = a[i]
    BY AppendProperties
<1>2. \A i \in 1 .. Len(a) : a[i] \in S
    BY ElementOfSeq
<1>3. /\ r \in Seq(S) /\ Len(r) = Len(a) - k
      /\ \A i \in 1 .. Len(a) - k : r[i] = a[k + i]
  <2>1. \A i \in k + 1 .. Len(a) : a[i] \in S
    BY <1>1, <1>2
  <2>2. /\ r \in Seq(S) /\ Len(r) = IF k + 1 <= Len(a) THEN Len(a) - (k + 1) + 1 ELSE 0
        /\ \A i \in 1 .. Len(a) - (k + 1) + 1 : r[i] = a[(k + 1) + i - 1]
    <3>1. k + 1 \in Int /\ Len(a) \in Int
      BY <1>1
    <3>2. QED
      BY <2>1, <3>1, SubSeqProperties
  <2> HIDE DEF r
  <2>3. /\ Len(a) - (k + 1) + 1 = Len(a) - k /\ (k + 1 > Len(a) => Len(a) - k = 0)
        /\ \A i \in 1 .. Len(a) - k : (k + 1) + i - 1 = k + i
    BY <1>1
  <2>4. Len(r) = Len(a) - k
    <3>1. k \in Nat /\ k <= Len(a) /\ Len(a) \in Nat
      BY <1>1
    <3>2. Len(r) = IF k + 1 <= Len(a) THEN Len(a) - (k + 1) + 1 ELSE 0
      BY <2>2
    <3>3. QED
      BY <3>1, <3>2
  <2>5. \A i \in 1 .. Len(a) - k : r[i] = a[k + i]
    BY <2>2, <2>3
  <2>6. QED
    BY <2>2, <2>4, <2>5
<1> HIDE DEF b, r
<1>4. /\ SubSeq(b, k + 1, Len(b)) \in Seq(S) /\ Len(SubSeq(b, k + 1, Len(b))) = Len(a) - k + 1
      /\ \A i \in 1 .. Len(a) - k + 1 : SubSeq(b, k + 1, Len(b))[i] = b[k + i]
  <2> DEFINE t == SubSeq(b, k + 1, Len(b))
  <2>1. \A i \in k + 1 .. Len(b) : b[i] \in S
    <3>1. \A i \in 1 .. Len(b) : b[i] \in S
      BY <1>1, ElementOfSeq
    <3>2. QED
      BY <1>1, <3>1
  <2>2. /\ t \in Seq(S) /\ Len(t) = IF k + 1 <= Len(b) THEN Len(b) - (k + 1) + 1 ELSE 0
        /\ \A i \in 1 .. Len(b) - (k + 1) + 1 : t[i] = b[(k + 1) + i - 1]
    <3>1. k + 1 \in Int /\ Len(b) \in Int
      BY <1>1
    <3>2. QED
      BY <2>1, <3>1, SubSeqProperties
  <2> HIDE DEF t
  <2>3. /\ Len(b) - (k + 1) + 1 = Len(a) - k + 1 /\ k + 1 <= Len(b)
        /\ \A i \in 1 .. Len(a) - k + 1 : (k + 1) + i - 1 = k + i
    BY <1>1
  <2>4. t \in Seq(S) /\ Len(t) = Len(a) - k + 1 /\ \A i \in 1 .. Len(a) - k + 1 : t[i] = b[k + i]
    BY <1>1, <2>2, <2>3
  <2>5. QED
    BY <2>4 DEF t
<1>5. /\ Append(r, x) \in Seq(S) /\ Len(Append(r, x)) = Len(a) - k + 1
      /\ \A i \in 1 .. Len(a) - k : Append(r, x)[i] = r[i]
      /\ Append(r, x)[Len(a) - k + 1] = x
    BY <1>3, AppendProperties
<1>6. ASSUME NEW i \in 1 .. Len(a) - k + 1
      PROVE  SubSeq(b, k + 1, Len(b))[i] = Append(r, x)[i]
  <2>1. CASE i = Len(a) - k + 1
    <3>1. k + i = Len(a) + 1
      BY <1>1, <2>1
    <3>2. QED
      BY <1>1, <1>4, <1>5, <2>1, <3>1
  <2>2. CASE i # Len(a) - k + 1
    <3>1. i \in 1 .. Len(a) - k /\ k + i \in 1 .. Len(a)
      BY <1>1, <2>2
    <3>2. QED
      BY <1>1, <1>3, <1>4, <1>5, <3>1
  <2>3. QED
    BY <2>1, <2>2
<1>7. SubSeq(b, k + 1, Len(b)) = Append(r, x)
    BY <1>4, <1>5, <1>6, SeqEqual
<1>8. QED
    BY <1>7 DEF b, r

\* Every step of the connection is a step of the channel, or none.
LEMMA StepRefines ==
    ASSUME IInv, IInv', [Next]_vars
    PROVE  [Contract!Next]_(Contract!vars)
<1> DEFINE queue == SubSeq(accepted, Len(yielded) + 1, Len(accepted))
<1>1. /\ accepted \in Seq(Messages) /\ yielded \in Seq(Messages) /\ Len(accepted) \in Nat
      /\ Len(yielded) \in 0 .. Len(accepted)
    BY SMTT(30) DEF IInv, VarsTyped
<1>2. CASE UNCHANGED <<accepted, yielded>>
    BY <1>2 DEF Contract!vars
<1>3. ASSUME NEW m \in Msgs, accepted' = Append(accepted, Whole(m)), Whole(m) \in Messages,
             UNCHANGED yielded
      PROVE  Contract!Next
  <2>1. queue' = Append(queue, Whole(m))
    BY <1>1, <1>3, RestAppended
  <2>2. Whole(m) \in Message
    <3>1. m.shape \in Shapes /\ m.id \in Ids /\ m.len \in Lens
      BY DEF Msgs
    <3>2. Reported(m.shape.mt) \in {0, 4}
      BY <3>1, Sizes DEF Reported
    <3>3. QED
      BY <3>1, <3>2 DEF Whole, Message
  <2>3. Contract!Send(Whole(m))
    BY <1>3, <2>1 DEF Contract!Send
  <2>4. QED
    BY <2>2, <2>3 DEF Contract!Next
<1>4. CASE /\ Len(yielded) < Len(accepted)
           /\ yielded' = Append(yielded, accepted[Len(yielded) + 1])
           /\ UNCHANGED accepted
  <2>1. Len(yielded) + 1 \in 1 .. Len(accepted) /\ Len(accepted) \in Len(yielded) + 1 .. Len(accepted)
    BY <1>1, <1>4
  <2>2. Head(queue) = accepted[Len(yielded) + 1]
        /\ Tail(queue) = SubSeq(accepted, Len(yielded) + 1 + 1, Len(accepted))
    BY <1>1, <2>1, HeadTailOfSubSeq
  <2>3. accepted[Len(yielded) + 1] \in Messages
    BY <1>1, <2>1, ElementOfSeq
  <2>4. Len(yielded') = Len(yielded) + 1
    BY <1>1, <1>4, <2>3, AppendProperties
  <2>5. queue' = Tail(queue)
    BY <1>4, <2>2, <2>4
  <2>6. queue # <<>>
    <3>1. \A i \in Len(yielded) + 1 .. Len(accepted) : accepted[i] \in Messages
      <4>1. \A i \in 1 .. Len(accepted) : accepted[i] \in Messages
        BY <1>1, ElementOfSeq
      <4>2. QED
        BY <1>1, <4>1
    <3>2. Len(yielded) + 1 \in Int /\ Len(accepted) \in Int
      BY <1>1
    <3>3. Len(queue) = IF Len(yielded) + 1 <= Len(accepted)
                       THEN Len(accepted) - (Len(yielded) + 1) + 1 ELSE 0
      BY <3>1, <3>2, SubSeqProperties
    <3> HIDE DEF queue
    <3>4. Len(queue) # 0
      BY <1>1, <1>4, <3>3
    <3>5. QED
      BY <3>4
  <2>7. Contract!Yield
    BY <1>4, <2>2, <2>5, <2>6 DEF Contract!Yield
  <2>8. QED
    BY <2>7 DEF Contract!Next
<1>5. QED
  <2>1. VarsTyped /\ SendOK /\ FlowFollows /\ VarsTyped' /\ (Refused' = 0 => Refused = 0)
    BY StepSendOK DEF IInv
  <2>2. QED
    BY <1>2, <1>3, <1>4, <2>1, StepChannel

\* Messages come out whole, once, in order and under their header, for every
\* number and length of messages, payload size, slack and base of the digits,
\* and whatever the portions in which the bytes arrive.
THEOREM RefinesChannel == Spec => ImplementsChannel
<1>1. Init => Contract!Init
  <2>1. SUFFICES ASSUME Init PROVE Contract!Init
    OBVIOUS
  <2>2. SubSeq(accepted, Len(yielded) + 1, Len(accepted)) = <<>>
    BY <2>1, SubSeqEmpty, EmptySeq DEF Init
  <2>3. QED
    BY <2>1, <2>2 DEF Init, Contract!Init
<1>2. QED
    BY <1>1, StepRefines, Invariant, PTL DEF Spec, ImplementsChannel, Contract!Spec
=============================================================================
