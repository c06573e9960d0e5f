----------------------------- MODULE MsgChannel -----------------------------
(***************************************************************************)
(* What one direction of an aa_session (src/src/core/session.h) promises:  *)
(* messages that the sender handed over with success come out whole, once, *)
(* in order and on their channel, until the connection fails; a failed     *)
(* connection may keep messages back but never alters one.                 *)
(***************************************************************************)
EXTENDS Sequences

CONSTANT Message

VARIABLES
    queue,      \* handed over, not yet yielded to the receiver
    yielded     \* yielded to the receiver

vars == <<queue, yielded>>

Init == queue = <<>> /\ yielded = <<>>

Send(m) ==
    /\ queue' = Append(queue, m)
    /\ UNCHANGED yielded

Yield ==
    /\ queue # <<>>
    /\ yielded' = Append(yielded, Head(queue))
    /\ queue' = Tail(queue)

Next == Yield \/ \E m \in Message : Send(m)

Spec == Init /\ [][Next]_vars
=============================================================================
