---------------------------- MODULE InputCapture ----------------------------
(***************************************************************************)
(* Input capture of the PS Vita application (src/src/vita/vita_video.c,    *)
(* handle_input): once per turn of the main loop the pad and the front     *)
(* touch panel are sampled, compared with the sample before and turned     *)
(* into key and touch events.  What the sends return is ignored, and the   *)
(* sample is remembered whether or not its events went out.                *)
(***************************************************************************)
EXTENDS Integers, Sequences

VARIABLE cap    \* prev_buttons, prev_touch and the position of that touch

\* Mapped buttons and their keycodes, in the order they are looked at.
Keys == << <<"CROSS", 23>>, <<"CIRCLE", 4>>, <<"TRIANGLE", 3>>,
           <<"UP", 19>>, <<"DOWN", 20>>, <<"LEFT", 21>>, <<"RIGHT", 22>>,
           <<"LTRIGGER", 102>>, <<"RTRIGGER", 103>>, <<"START", 108>> >>
Buttons == {Keys[k][1] : k \in DOMAIN Keys}
KeyCodes == {Keys[k][2] : k \in DOMAIN Keys}

\* Samples of the panel: no report, or the place of the first one.
NoTouch == <<>>
PanelWidth == 1920
PanelHeight == 1088
VideoWidth == 1280
VideoHeight == 720

\* The panel's coordinates in those of the video frame.
Scale(p) == <<(p[1] * 2) \div 3, (p[2] * VideoHeight) \div PanelHeight>>

ACTION_DOWN == 0
ACTION_UP == 1
ACTION_MOVED == 2

CaptureInit == cap = [buttons |-> {}, touch |-> FALSE, at |-> <<0, 0>>]

CaptureType ==
    cap \in [buttons : SUBSET Buttons, touch : BOOLEAN,
             at : (0 .. VideoWidth - 1) \X (0 .. VideoHeight - 1)]

KeyEvent(code, down) == [key |-> code, down |-> down]
TouchEvent(action, at) == [action |-> action, at |-> at]
IsTouchEvent(e) == "action" \in DOMAIN e

\* One event for each mapped button that is not as it was.
Changed(pad, button) == (button \in pad) # (button \in cap.buttons)
KeyChange(pad, k) ==
    IF Changed(pad, Keys[k][1])
    THEN <<KeyEvent(Keys[k][2], Keys[k][1] \in pad)>> ELSE <<>>
KeyEvents(pad) ==
    KeyChange(pad, 1) \o KeyChange(pad, 2) \o KeyChange(pad, 3) \o KeyChange(pad, 4)
    \o KeyChange(pad, 5) \o KeyChange(pad, 6) \o KeyChange(pad, 7) \o KeyChange(pad, 8)
    \o KeyChange(pad, 9) \o KeyChange(pad, 10)

AlwaysDown == ACTION_DOWN                \* fault: a held finger goes down again
TouchAction == IF cap.touch THEN ACTION_MOVED ELSE ACTION_DOWN

\* A finger goes down, then moves with each sample; it goes up where it was.
TouchEvents(touch) ==
    CASE touch # NoTouch -> <<TouchEvent(TouchAction, Scale(touch))>>
      [] touch = NoTouch /\ cap.touch -> <<TouchEvent(ACTION_UP, cap.at)>>
      [] OTHER -> <<>>

\* The events of one call, and what it remembers.
EventsOf(pad, touch) == KeyEvents(pad) \o TouchEvents(touch)

RememberTouchOnly(pad, touch) ==         \* fault: prev_buttons is not updated
    cap' = [cap EXCEPT !.touch = touch # NoTouch,
                       !.at = IF touch # NoTouch THEN Scale(touch) ELSE cap.at]
Remember(pad, touch) ==
    cap' = [buttons |-> pad, touch |-> touch # NoTouch,
            at |-> IF touch # NoTouch THEN Scale(touch) ELSE cap.at]
=============================================================================
