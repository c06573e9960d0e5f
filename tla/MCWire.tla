------------------------------- MODULE MCWire -------------------------------
(* Instances of Wire for TLC.  A payload of 5 takes two digits in base 5, a *)
(* total of 11 needs FIRST, MIDDLE and LAST; TLS adds 2, so that a FIRST    *)
(* frame's record no longer fits the code's own buffer of 5 + 8.            *)
EXTENDS Wire

MCShapes == {[ch |-> 1, mt |-> 0, enc |-> 8], [ch |-> 3, mt |-> 4, enc |-> 0]}
=============================================================================
