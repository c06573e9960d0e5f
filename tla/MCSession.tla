----------------------------- MODULE MCSession ------------------------------
(* Instances of Session for TLC.  A frame holds two blocks: a message of one*)
(* or two is BULK, of three FIRST and LAST, of five needs a MIDDLE as well. *)
EXTENDS Session

CONSTANTS video, audio

MCChannel == {video, audio}
=============================================================================
