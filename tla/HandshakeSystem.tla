-------------------------- MODULE HandshakeSystem ---------------------------
(***************************************************************************)
(* The head unit (module Control) and the mock phone (module MockPhone)    *)
(* over one connection: a FIFO of messages each way.  Two drivers:         *)
(*   "harness"  the loop of src/src/host/harness.c, run_mock, which calls  *)
(*              the phone and the head unit in turn, in one thread;        *)
(*   "apart"    each at its own pace, as across a network, the head unit   *)
(*              driven by the main loop of vita_video.c: between two polls *)
(*              handle_input (module InputCapture) sends what the user     *)
(*              does, in any of the stages TouchStages.                    *)
(***************************************************************************)
EXTENDS Integers, Sequences, FiniteSets

CONSTANTS
    TouchStages,   \* stages in which the user touches or presses
    Pads,          \* sets of buttons the user may hold
    Touches,       \* samples of the touch panel
    MaxQueue,      \* bound: messages in flight when the user touches
    MaxRounds      \* rounds run_mock makes before it gives up

VARIABLES
    \* module Control
    stage, state, tls, session_by_channel, input_bound, conn, out, frames, hs_sent,
    \* module MockPhone
    ph,
    \* module InputCapture
    cap,
    \* messages in flight
    toHU, toPhone,
    \* the driver, whose turn it is in the harness and the rounds made
    driver, turn, iter,
    \* history: what the phone has been told is pressed, and what is pressed
    \* but went down unsent
    seen, orphan

hu == <<stage, state, tls, session_by_channel, input_bound, conn, out, frames, hs_sent>>
loop == <<driver, turn, iter>>
told == <<seen, orphan>>
vars == <<hu, ph, cap, toHU, toPhone, loop, told>>

HU == INSTANCE Control WITH
          Channels <- {0, 1, 2, 3, 6}, Inbound <- {}, TlsMayFail <- FALSE, MaxFrames <- 1
Phone == INSTANCE MockPhone
Capture == INSTANCE InputCapture

ASSUME TouchAssumption == TouchStages \subseteq HU!Stages \ {"SEND_VERSION"}
ASSUME PadsAssumption == Pads \subseteq SUBSET Capture!Buttons
ASSUME TouchesAssumption ==
    \A p \in Touches \ {Capture!NoTouch} :
        p \in (0 .. Capture!PanelWidth - 1) \X (0 .. Capture!PanelHeight - 1)
ASSUME BoundsAssumption == MaxQueue \in Nat /\ MaxRounds \in Nat \ {0}

Init ==
    /\ HU!Init /\ Phone!PhoneInit /\ Capture!CaptureInit
    /\ toHU = <<>> /\ toPhone = <<>>
    /\ driver \in {"harness", "apart"} /\ turn = "phone" /\ iter = 0
    /\ seen = {} /\ orphan = {}

-----------------------------------------------------------------------------
(* The harness.                                                            *)

\* The loop of run_mock ends after a poll: the phone is done, the session has
\* failed or the rounds are used up.
HarnessOver ==
    /\ driver = "harness"
    /\ turn = "phone"
    /\ ph.done \/ state = "FAILED" \/ iter = MaxRounds

\* It is the turn of one of the two; after the head unit's, the next round.
Turn(who, other) ==
    /\ driver = "harness" => turn = who /\ ~HarnessOver
    /\ IF driver = "harness"
       THEN turn' = other /\ iter' = (IF who = "hu" THEN iter + 1 ELSE iter)
       ELSE UNCHANGED <<turn, iter>>
    /\ UNCHANGED driver

\* run_mock reports the session and ends.
HarnessEnds == HarnessOver /\ UNCHANGED vars

-----------------------------------------------------------------------------
(* The head unit.                                                          *)

\* What the call wrote goes to the phone.
Wrote == toPhone' = toPhone \o out'

HeadUnitStart ==
    /\ Turn("hu", "phone")
    /\ HU!PollStart \/ HU!PollEof
    /\ Wrote
    /\ UNCHANGED <<ph, cap, toHU, told>>

HeadUnitPoll ==
    /\ Turn("hu", "phone")
    /\ stage # "SEND_VERSION"
    /\ toHU # <<>>
    /\ HU!Receive(Head(toHU))
    /\ toHU' = Tail(toHU)
    /\ Wrote
    /\ UNCHANGED <<ph, cap, told>>

\* In the harness a poll may find nothing: one round passes.
HeadUnitIdle ==
    /\ driver = "harness"
    /\ Turn("hu", "phone")
    /\ stage # "SEND_VERSION"
    /\ toHU = <<>>
    /\ UNCHANGED <<hu, ph, cap, toHU, toPhone, told>>

\* Controls are named by their keycode, the touch panel by 0.
ControlOf(e) == IF Capture!IsTouchEvent(e) THEN 0 ELSE e.key
Begins(e) == IF Capture!IsTouchEvent(e) THEN e.action = Capture!ACTION_DOWN ELSE e.down
Ends(e) == IF Capture!IsTouchEvent(e) THEN e.action = Capture!ACTION_UP ELSE ~e.down

\* The controls held down in the sample that handle_input remembers.
HeldIn(c) ==
    {key[2] : key \in {Capture!Keys[k] : k \in {j \in DOMAIN Capture!Keys :
                                                   Capture!Keys[j][1] \in c.buttons}}}
    \cup (IF c.touch THEN {0} ELSE {})

\* handle_input follows the poll in the main loop.
HeadUnitTouch(pad, touch) ==
    LET events == Capture!EventsOf(pad, touch)
        begun == {ControlOf(events[k]) : k \in {j \in DOMAIN events : Begins(events[j])}}
        ended == {ControlOf(events[k]) : k \in {j \in DOMAIN events : Ends(events[j])}}
        lost == out' = <<>>
    IN  /\ driver = "apart"
        /\ stage \in TouchStages
        /\ Len(toPhone) < MaxQueue
        /\ HU!SendInput(events)
        /\ Capture!Remember(pad, touch)
        /\ Wrote
        /\ seen' = IF lost THEN seen ELSE (seen \cup begun) \ ended
        /\ orphan' = (IF lost THEN orphan \cup begun ELSE orphan) \ ended
        /\ UNCHANGED <<ph, toHU, loop>>

-----------------------------------------------------------------------------
(* The phone and the connection.                                           *)

PhoneStep ==
    /\ Turn("phone", "hu")
    /\ conn = "up"
    /\ LET r == Phone!MockStep(toPhone)
       IN  ph' = r.ph /\ toPhone' = r.left /\ toHU' = toHU \o r.send
    /\ UNCHANGED <<hu, cap, told>>

\* The connection ends; what was in flight to the head unit may be lost.
Close ==
    /\ driver = "apart"
    /\ HU!Close
    /\ toHU' \in {toHU, <<>>}
    /\ UNCHANGED <<ph, cap, toPhone, loop, told>>

Next ==
    \/ HarnessEnds
    \/ HeadUnitStart \/ HeadUnitPoll \/ HeadUnitIdle
    \/ \E pad \in Pads, touch \in Touches : HeadUnitTouch(pad, touch)
    \/ PhoneStep
    \/ Close

Spec == Init /\ [][Next]_vars

(* Both loops call their step function for ever; the user does as he likes. *)
Fairness ==
    /\ WF_vars(HeadUnitStart \/ HeadUnitPoll \/ HeadUnitIdle)
    /\ WF_vars(PhoneStep)
FairSpec == Spec /\ Fairness
-----------------------------------------------------------------------------
(* Properties.                                                             *)

TypeOK ==
    /\ HU!TypeOK /\ Phone!PhoneType /\ Capture!CaptureType
    /\ driver \in {"harness", "apart"} /\ turn \in {"phone", "hu"}
    /\ iter \in 0 .. MaxRounds
    /\ seen \cup orphan \subseteq Capture!KeyCodes \cup {0}

\* The two state machines agree on how far the session is, whatever is still
\* in flight: neither end runs ahead of what the other has seen.
StagesAgree ==
    /\ stage \in {"SEND_VERSION", "WAIT_VERSION"} => ph.step \in {0, 1} /\ ph.tls = "start"
    /\ stage = "TLS" => ph.step \in {1, 2}
    /\ stage = "WAIT_SERVICE_DISCOVERY" => ph.step \in {2, 3}
    /\ stage = "ACTIVE" => ph.step >= 3
    /\ ph.step >= 2 => tls \in {"finished", "done"} /\ ph.tls = "done"
    /\ ph.step >= 4 => state \in {"ACTIVE", "FAILED"}

\* Over a healthy connection nothing either end writes can make the other
\* fail: the head unit fails only when the connection is closed, and the phone
\* is never stuck before a message it cannot decrypt.
HealthySessionsWork ==
    /\ state = "FAILED" => conn = "closed"
    /\ conn = "up" /\ toPhone # <<>> => Phone!PhoneReadable(Head(toPhone))

\* Flow control with max_unacked = 1: while the phone waits for an ack exactly
\* one media frame or one ack is in flight, at any other time none.
Count(q, mids) == Cardinality({i \in DOMAIN q : q[i].mid \in mids})
InFlight == Count(toHU, {HU!MEDIA_DATA}) + Count(toPhone, {HU!AV_MEDIA_ACK_INDICATION})
CreditConserved ==
    conn = "up" => InFlight = IF ph.step \in {9, 11} THEN 1 ELSE 0

\* Each ack names the media session of its channel: session 1, which the phone
\* started for video, none for audio, which it never started.
AcksNameSession ==
    \A i \in DOMAIN toPhone :
        toPhone[i].mid = HU!AV_MEDIA_ACK_INDICATION =>
            toPhone[i].val = IF toPhone[i].ch = HU!VIDEO THEN 1 ELSE HU!NoSession

\* When the phone's script is done every answer has been consumed, one video
\* frame was shown and the input channel is bound.
DoneIsComplete ==
    ph.done /\ conn = "up" =>
        /\ toHU = <<>>
        /\ \A i \in DOMAIN toPhone : toPhone[i].mid = HU!INPUT_EVENT_INDICATION
        /\ frames = 1 /\ input_bound /\ state = "ACTIVE"
        /\ Cardinality(ph.results) = 9

\* The session is set up and used to the end of the script, unless the
\* connection is closed.
Completes == <>(ph.done \/ conn = "closed")

\* run_mock succeeds: before its rounds are used up the phone has come to the
\* end of its script, and what run_mock tests then holds.
HarnessSucceeds ==
    HarnessOver => /\ ph.done
                   /\ state = "ACTIVE" /\ "video_open" \in ph.results /\ frames > 0

\* handle_input remembers a sample whose events were lost, as they are during
\* the TLS handshake.  Whatever the user holds through which stages, the phone
\* never believes a control pressed that is not, and what is pressed and
\* unknown to the phone is exactly what went down while nothing could be sent.
HeldIsSeen ==
    conn = "up" => /\ seen \cup orphan = HeldIn(cap)
                   /\ seen \cap orphan = {}

\* Each control's events alternate on the wire, down, moves, up, but for the
\* rest of a gesture whose beginning was lost.
GesturesLegal ==
    [][Len(toPhone') > Len(toPhone) =>
          \A k \in DOMAIN out' :
              out'[k].mid = HU!INPUT_EVENT_INDICATION =>
                  LET e == out'[k].val
                  IN  IF Begins(e) THEN ControlOf(e) \notin seen
                                   ELSE ControlOf(e) \in seen \cup orphan]_vars

\* specs/features/aa-control-channel/spec.md:64: "The client state machine
\* runs the ordered handshake and reaches ACTIVE."
ReachesActive == <>(state = "ACTIVE" \/ conn = "closed")
=============================================================================
