------------------------------- MODULE TlsBio -------------------------------
(***************************************************************************)
(* The TLS session as a pair of memory buffers (src/src/core/tls.c): the   *)
(* caller's ciphertext goes into the BIO, mbedTLS takes from it what it    *)
(* needs of the record it is reading and keeps a part of a record or of a  *)
(* plaintext for the next call.                                            *)
(*                                                                         *)
(* A record is its plaintext's length, its sequence number and the         *)
(* plaintext.  mbedTLS is external: it fetches a record, maybe in parts,   *)
(* accepts none but the next in sequence, and writes at most MaxRecord     *)
(* (MBEDTLS_SSL_OUT_CONTENT_LEN) bytes to a record.                        *)
(***************************************************************************)
EXTENDS Integers, Sequences, SequencesExt, FiniteSetsExt

CONSTANT MaxRecord

ASSUME RecordAssumption == MaxRecord \in Nat \ {0}

RecordHeader == 2

\* aa_tls_encrypt: mbedtls_ssl_write until all of plain is written, seq
\* records having been written before.
RecordCountFull(n) == n \div MaxRecord + 1   \* fault: one empty record more
RecordCount(n) == (n + MaxRecord - 1) \div MaxRecord
Record(seq, plain) == <<Len(plain), seq>> \o plain
Encrypt(seq, plain) ==
    FlattenSeq([i \in 1 .. RecordCount(Len(plain)) |->
        Record(seq + i, SubSeq(plain, (i - 1) * MaxRecord + 1,
                               Min({i * MaxRecord, Len(plain)})))])

\* bio_ctx (the bytes and how many mbedTLS has taken) and mbedTLS's own
\* state: what it has of a record, plaintext not read yet, records read.
NewTls == [in |-> <<>>, off |-> 0, got |-> <<>>, left |-> <<>>, seq |-> 0]

KeepTaken(t) == [t EXCEPT !.off = 0]         \* fault: restarts, moves nothing
Compact(t) == [t EXCEPT !.in = SubSeq(t.in, t.off + 1, Len(t.in)), !.off = 0]
Fill(t, cipher) == [Compact(t) EXCEPT !.in = @ \o cipher]

\* mbedtls_ssl_read wants a whole record, of which the part t.got is there.
Avail(t) == t.got \o SubSeq(t.in, t.off + 1, Len(t.in))
HasRecord(t) ==
    /\ Len(Avail(t)) >= RecordHeader
    /\ Len(Avail(t)) >= RecordHeader + Avail(t)[1]
NextInSequence(t) == Avail(t)[2] = t.seq + 1

\* It takes all there is when that is not enough (WANT_READ).
TakeAll(t) == [t EXCEPT !.got = Avail(t), !.off = Len(t.in)]
TakeRecord(t) ==
    [t EXCEPT !.off = t.off + RecordHeader + Avail(t)[1] - Len(t.got),
              !.got = <<>>,
              !.left = SubSeq(Avail(t), RecordHeader + 1, RecordHeader + Avail(t)[1]),
              !.seq = @ + 1]
Deliver(t, cap) ==
    LET n == Min({cap, Len(t.left)})
    IN  [ok |-> TRUE, plain |-> SubSeq(t.left, 1, n),
         tls |-> [t EXCEPT !.left = SubSeq(t.left, n + 1, Len(t.left))]]
Refuse(t) == [ok |-> FALSE, plain |-> <<>>, tls |-> t]

\* aa_tls_decrypt of cipher into a buffer of cap bytes: one read.
Decrypt(t0, cipher, cap) ==
    LET t == Fill(t0, cipher)
    IN  CASE t.left # <<>> -> Deliver(t, cap)
          [] t.left = <<>> /\ ~HasRecord(t) -> Refuse(TakeAll(t))
          [] t.left = <<>> /\ HasRecord(t) /\ NextInSequence(t) -> Deliver(TakeRecord(t), cap)
          [] OTHER -> Refuse(TakeRecord(t))

\* Nothing of an earlier record is waiting anywhere.
Drained(t) == t.off = Len(t.in) /\ t.got = <<>> /\ t.left = <<>>
=============================================================================
