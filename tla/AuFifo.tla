------------------------------- MODULE AuFifo -------------------------------
(***************************************************************************)
(* What the access-unit queue of src/src/vita/vita_video.c promises to the *)
(* main thread that offers H.264 access units and to the decode thread     *)
(* that consumes them: a bounded FIFO.  Every unit is offered once, in     *)
(* order; it is either appended or dropped; the consumer works on the      *)
(* oldest unit, which stays in the queue, unchanged, until the consumer    *)
(* has finished with it.  There are no slots, threads or locks here.       *)
(***************************************************************************)
EXTENDS Naturals, Sequences

CONSTANTS
    Capacity,   \* how many units the queue holds
    NoAU        \* "no access unit"

VARIABLES
    offered,    \* how many units have been offered so far
    queue,      \* the units accepted and not yet finished with, oldest first
    serving     \* the unit the consumer is working on, or NoAU

vars == <<offered, queue, serving>>

Init ==
    /\ offered = 0
    /\ queue = <<>>
    /\ serving = NoAU

Accept ==
    /\ Len(queue) < Capacity
    /\ offered' = offered + 1
    /\ queue' = Append(queue, offered')
    /\ UNCHANGED serving

Drop ==
    /\ offered' = offered + 1
    /\ UNCHANGED <<queue, serving>>

Take ==
    /\ serving = NoAU
    /\ queue # <<>>
    /\ serving' = Head(queue)
    /\ UNCHANGED <<offered, queue>>

Finish ==
    /\ serving # NoAU
    /\ serving = Head(queue)
    /\ queue' = Tail(queue)
    /\ serving' = NoAU
    /\ UNCHANGED offered

Next == Accept \/ Drop \/ Take \/ Finish

Spec == Init /\ [][Next]_vars
=============================================================================
