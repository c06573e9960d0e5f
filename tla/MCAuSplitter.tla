---------------------------- MODULE MCAuSplitter ----------------------------
(* Instances of AuSplitter for TLC: streams of a few NAL units, slices and  *)
(* parameter sets, with start codes of three and of four bytes, bodies that *)
(* end in zeros, and one that holds what is almost a start code.            *)
EXTENDS AuSplitter, SequencesExt

Nals == {<<0, 0, 1, 1>>, <<0, 0, 0, 1, 5, 0>>, <<0, 0, 1, 7>>, <<0, 0, 0, 1, 7, 0, 1>>}

MCStreams == {FlattenSeq(ns) : ns \in [1 .. 4 -> Nals]}

FewStreams == {<<0, 0, 1, 1, 9, 0, 0, 1, 1, 9, 0, 0, 1, 1>>}

NoStamp == {<<>>}
MCStamps == {<<0, 0, 1, 1>>}
=============================================================================
