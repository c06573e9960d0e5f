----------------------------- MODULE HeldProof ------------------------------
(***************************************************************************)
(* What the user holds and what the phone has been told: the events of one *)
(* turn of handle_input are exactly the difference between the sample      *)
(* before and this one, so what is pressed is what the phone knows to be   *)
(* pressed and what went down while nothing could be sent.                 *)
(***************************************************************************)
EXTENDS HandshakeProof

\* Until TLS is done the phone has been told nothing.
HeldInv == HeldIsSeen /\ (conn = "up" /\ seen # {} => tls = "done")

\* The rows of handle_input's table: a button and its keycode.
Button(k) == Capture!Keys[k][1]
Code(k) == Capture!Keys[k][2]
Codes(buttons) == {Code(k) : k \in {j \in 1 .. 10 : Button(j) \in buttons}}

\* The controls that a queue of events presses, and those it lets go.
Pressed(s) == {ControlOf(e) : e \in {x \in Range(s) : Begins(x)}}
Released(s) == {ControlOf(e) : e \in {x \in Range(s) : Ends(x)}}
-----------------------------------------------------------------------------
(* The events of one turn.                                                 *)

\* The keycodes are different from each other and from the touch panel's 0.
LEMMA CodesDiffer ==
    /\ \A j, k \in 1 .. 10 : Code(j) = Code(k) => j = k
    /\ \A k \in 1 .. 10 : Code(k) # 0
<1>1. /\ Code(1) = 23 /\ Code(2) = 4 /\ Code(3) = 3 /\ Code(4) = 19 /\ Code(5) = 20
      /\ Code(6) = 21
      /\ Code(7) = 22
      /\ Code(8) = 102
      /\ Code(9) = 103
      /\ Code(10) = 108
    BY DEF Code, Capture!Keys
<1>2. QED
    BY <1>1

\* The controls held in a sample: the codes of its buttons, and the panel's.
LEMMA HeldInIs ==
    ASSUME NEW c
    PROVE  HeldIn(c) = Codes(c.buttons) \cup (IF c.touch THEN {0} ELSE {})
    BY KeysAre DEF HeldIn, Codes, Code, Button

\* One queue of events after another presses what either of them does.
LEMMA PressedConcat ==
    ASSUME NEW s \in Seq(Event), NEW t \in Seq(Event)
    PROVE  /\ Pressed(s \o t) = Pressed(s) \cup Pressed(t)
           /\ Released(s \o t) = Released(s) \cup Released(t)
<1>1. Range(s \o t) = Range(s) \cup Range(t)
    BY RangeConcatenation
<1>2. QED
    BY <1>1 DEF Pressed, Released

\* A queue of one event.
LEMMA PressedOne ==
    ASSUME NEW e
    PROVE  /\ Pressed(<<e>>) = IF Begins(e) THEN {ControlOf(e)} ELSE {}
           /\ Released(<<e>>) = IF Ends(e) THEN {ControlOf(e)} ELSE {}
           /\ Pressed(<<>>) = {} /\ Released(<<>>) = {}
           /\ Range(<<e>>) = {e} /\ Range(<<>>) = {}
<1>1. Range(<<e>>) = {e} /\ Range(<<>>) = {}
    BY DEF Range
<1>2. QED
    BY <1>1 DEF Pressed, Released

\* A button that has changed presses or releases its key.
LEMMA KeyPresses ==
    ASSUME NEW pad, NEW k \in 1 .. 10
    PROVE  /\ Pressed(Capture!KeyChange(pad, k))
              = IF Button(k) \in pad \ cap.buttons THEN {Code(k)} ELSE {}
           /\ Released(Capture!KeyChange(pad, k))
              = IF Button(k) \in cap.buttons \ pad THEN {Code(k)} ELSE {}
           /\ \A x \in Range(Capture!KeyChange(pad, k)) : Begins(x) \/ Ends(x)
<1>1. (Button(k) \in pad) \in BOOLEAN
    OBVIOUS
<1>2. PICK d \in BOOLEAN : d = (Button(k) \in pad)
    BY <1>1
<1>3. PICK e : e = Capture!KeyEvent(Code(k), d)
    OBVIOUS
<1>4. DOMAIN e = {"key", "down"} /\ e.key = Code(k) /\ e.down = d
    BY <1>3 DEF Capture!KeyEvent
<1>5. /\ ControlOf(e) = Code(k)
      /\ Begins(e) <=> d
      /\ Ends(e) <=> ~d
    BY <1>4 DEF ControlOf, Begins, Ends, Capture!IsTouchEvent
<1>6. Capture!KeyChange(pad, k)
      = IF (Button(k) \in pad) # (Button(k) \in cap.buttons) THEN <<e>> ELSE <<>>
    BY <1>2, <1>3 DEF Capture!KeyChange, Capture!Changed, Button, Code
<1>7. CASE Button(k) \in pad \ cap.buttons
  <2>1. Capture!KeyChange(pad, k) = <<e>> /\ Begins(e) /\ ~Ends(e)
      BY <1>2, <1>5, <1>6, <1>7
  <2>2. QED
      BY <1>5, <1>7, <2>1, PressedOne
<1>8. CASE Button(k) \in cap.buttons \ pad
  <2>1. Capture!KeyChange(pad, k) = <<e>> /\ ~Begins(e) /\ Ends(e)
      BY <1>2, <1>5, <1>6, <1>8
  <2>2. /\ Pressed(<<e>>) = {} /\ Released(<<e>>) = {Code(k)}
        /\ Range(<<e>>) = {e}
      BY <1>5, <2>1, PressedOne
  <2>3. QED
      BY <1>8, <2>1, <2>2
<1>9. CASE Button(k) \in pad <=> Button(k) \in cap.buttons
  <2>1. Capture!KeyChange(pad, k) = <<>>
      BY <1>6, <1>9
  <2>2. QED
      BY <1>9, <2>1, PressedOne
<1>10. QED
    BY <1>7, <1>8, <1>9

\* The panel presses control 0 when a finger comes down on it, releases it when
\* it leaves and only moves in between.
LEMMA TouchPresses ==
    ASSUME cap.touch \in BOOLEAN, NEW touch, NEW s, s = Capture!TouchEvents(touch)
    PROVE  /\ Pressed(s)
              = IF touch # Capture!NoTouch /\ ~cap.touch THEN {0} ELSE {}
           /\ Released(s)
              = IF touch = Capture!NoTouch /\ cap.touch THEN {0} ELSE {}
           /\ \A e \in Range(s) : ~Begins(e) => ControlOf(e) = 0 /\ cap.touch
<1>1. ASSUME NEW action \in 0 .. 2, NEW at
      PROVE  LET e == Capture!TouchEvent(action, at)
             IN  /\ ControlOf(e) = 0
                 /\ Begins(e) <=> action = 0
                 /\ Ends(e) <=> action = 1
  <2>1. PICK e : e = Capture!TouchEvent(action, at)
      OBVIOUS
  <2>2. DOMAIN e = {"action", "at"} /\ e.action = action
      BY <2>1 DEF Capture!TouchEvent
  <2>3. QED
      BY <2>1, <2>2
      DEF ControlOf, Begins, Ends, Capture!IsTouchEvent, Capture!ACTION_DOWN,
          Capture!ACTION_UP
<1>2. ASSUME NEW e PROVE Range(<<e>>) = {e} /\ Range(<<>>) = {}
    BY DEF Range
<1>3. CASE touch # Capture!NoTouch
  <2>1. PICK action : action = IF cap.touch THEN 2 ELSE 0
      OBVIOUS
  <2>2. PICK e : e = Capture!TouchEvent(action, Capture!Scale(touch))
      OBVIOUS
  <2>3. Capture!TouchEvents(touch) = <<e>>
      BY <1>3, <2>1, <2>2
      DEF Capture!TouchEvents, Capture!TouchAction, Capture!ACTION_DOWN,
          Capture!ACTION_MOVED
  <2>4. ControlOf(e) = 0 /\ (Begins(e) <=> action = 0) /\ (Ends(e) <=> action = 1)
      BY <1>1, <2>1, <2>2
  <2>5. /\ Pressed(<<e>>) = IF Begins(e) THEN {ControlOf(e)} ELSE {}
        /\ Released(<<e>>) = IF Ends(e) THEN {ControlOf(e)} ELSE {}
        /\ Range(<<e>>) = {e}
      BY PressedOne, Zenon
  <2>6. QED
      BY <1>3, <2>1, <2>3, <2>4, <2>5
<1>4. CASE touch = Capture!NoTouch /\ cap.touch
  <2>1. PICK e : e = Capture!TouchEvent(1, cap.at)
      OBVIOUS
  <2>2. Capture!TouchEvents(touch) = <<e>>
      BY <1>4, <2>1 DEF Capture!TouchEvents, Capture!ACTION_UP
  <2>3. ControlOf(e) = 0 /\ ~Begins(e) /\ Ends(e)
      BY <1>1, <2>1
  <2>4. QED
      BY <1>2, <1>4, <2>2, <2>3, PressedOne
<1>5. CASE touch = Capture!NoTouch /\ ~cap.touch
  <2>1. Capture!TouchEvents(touch) = <<>>
      BY <1>5 DEF Capture!TouchEvents
  <2>2. QED
      BY <1>2, <1>5, <2>1, PressedOne
<1>6. QED
    BY <1>3, <1>4, <1>5

\* The ten rows together press what was not held, and release what no longer is.
LEMMA KeysPress ==
    ASSUME NEW pad
    PROVE  /\ Pressed(Capture!KeyEvents(pad)) = Codes(pad \ cap.buttons)
           /\ Released(Capture!KeyEvents(pad)) = Codes(cap.buttons \ pad)
           /\ Capture!KeyEvents(pad) \in Seq(Event)
           /\ \A x \in Range(Capture!KeyEvents(pad)) : Begins(x) \/ Ends(x)
<1> DEFINE C(k) == Capture!KeyChange(pad, k)
           CodesTo(n, buttons) ==
               {Code(k) : k \in {j \in 1 .. n : Button(j) \in buttons}}
           Does(s, n) == /\ s \in Seq(Event)
                         /\ Pressed(s) = CodesTo(n, pad \ cap.buttons)
                         /\ Released(s) = CodesTo(n, cap.buttons \ pad)
                         /\ \A x \in Range(s) : Begins(x) \/ Ends(x)
<1>1. ASSUME NEW k \in 1 .. 10
      PROVE  /\ C(k) \in Seq(Event)
             /\ Pressed(C(k))
                = IF Button(k) \in pad \ cap.buttons THEN {Code(k)} ELSE {}
             /\ Released(C(k))
                = IF Button(k) \in cap.buttons \ pad THEN {Code(k)} ELSE {}
             /\ \A x \in Range(C(k)) : Begins(x) \/ Ends(x)
    BY <1>1, KeyEventTyped, KeyPresses
<1> HIDE DEF C
<1>2. ASSUME NEW n \in 2 .. 10, NEW buttons
      PROVE  CodesTo(n, buttons)
             = CodesTo(n - 1, buttons)
               \cup (IF Button(n) \in buttons THEN {Code(n)} ELSE {})
    OBVIOUS
<1>3. \A buttons :
          CodesTo(1, buttons) = IF Button(1) \in buttons THEN {Code(1)} ELSE {}
    OBVIOUS
<1> HIDE DEF CodesTo
<1>4. Does(C(1), 1)
  <2>1. 1 \in 1 .. 10
      OBVIOUS
  <2>2. CodesTo(1, pad \ cap.buttons) = Pressed(C(1))
      BY <1>1, <1>3, <2>1, Zenon
  <2>3. CodesTo(1, cap.buttons \ pad) = Released(C(1))
      BY <1>1, <1>3, <2>1, Zenon
  <2>4. C(1) \in Seq(Event)
      BY <1>1
  <2>5. \A x \in Range(C(1)) : Begins(x) \/ Ends(x)
      BY <1>1
  <2>6. QED
      BY <2>2, <2>3, <2>4, <2>5
<1>5. ASSUME NEW n \in 2 .. 10, NEW s, Does(s, n - 1)
      PROVE  Does(s \o C(n), n)
  <2>1. n \in 1 .. 10
      OBVIOUS
  <2>2. C(n) \in Seq(Event)
      BY <1>1
  <2>3. /\ Pressed(s \o C(n)) = Pressed(s) \cup Pressed(C(n))
        /\ Released(s \o C(n)) = Released(s) \cup Released(C(n))
      BY <1>5, <2>2, PressedConcat
  <2>4. s \o C(n) \in Seq(Event)
      BY <1>5, <2>2, ConcatProperties
  <2>5. Pressed(s \o C(n)) = CodesTo(n, pad \ cap.buttons)
    <3>1. PICK b : b = pad \ cap.buttons
        OBVIOUS
    <3>2. Pressed(C(n)) = IF Button(n) \in b THEN {Code(n)} ELSE {}
        BY <1>1, <2>1, <3>1, Zenon
    <3>3. Pressed(s) = CodesTo(n - 1, b)
        BY <1>5, <3>1
    <3>4. CodesTo(n, b)
          = CodesTo(n - 1, b) \cup (IF Button(n) \in b THEN {Code(n)} ELSE {})
        BY <1>2
    <3>5. Pressed(s \o C(n)) = CodesTo(n, b)
        BY <2>3, <3>2, <3>3, <3>4
    <3>6. QED
        BY <3>1, <3>5
  <2>6. Released(s \o C(n)) = CodesTo(n, cap.buttons \ pad)
    <3>1. PICK b : b = cap.buttons \ pad
        OBVIOUS
    <3>2. Released(C(n)) = IF Button(n) \in b THEN {Code(n)} ELSE {}
        BY <1>1, <2>1, <3>1, Zenon
    <3>3. Released(s) = CodesTo(n - 1, b)
        BY <1>5, <3>1
    <3>4. CodesTo(n, b)
          = CodesTo(n - 1, b) \cup (IF Button(n) \in b THEN {Code(n)} ELSE {})
        BY <1>2
    <3>5. Released(s \o C(n)) = CodesTo(n, b)
        BY <2>3, <3>2, <3>3, <3>4
    <3>6. QED
        BY <3>1, <3>5
  <2>7. \A x \in Range(s \o C(n)) : Begins(x) \/ Ends(x)
    <3>1. Range(s \o C(n)) = Range(s) \cup Range(C(n))
        BY <1>5, <2>2, RangeConcatenation
    <3>2. \A x \in Range(C(n)) : Begins(x) \/ Ends(x)
        BY <1>1
    <3>3. QED
        BY <1>5, <3>1, <3>2
  <2>8. QED
      BY <2>4, <2>5, <2>6, <2>7
<1> HIDE DEF Does
<1>6. PICK s2 : s2 = C(1) \o C(2)
    OBVIOUS
<1>7. Does(s2, 2)
    BY <1>4, <1>5, <1>6
<1>8. PICK s3 : s3 = s2 \o C(3)
    OBVIOUS
<1>9. Does(s3, 3)
    BY <1>7, <1>5, <1>8
<1>10. PICK s4 : s4 = s3 \o C(4)
    OBVIOUS
<1>11. Does(s4, 4)
    BY <1>9, <1>5, <1>10
<1>12. PICK s5 : s5 = s4 \o C(5)
    OBVIOUS
<1>13. Does(s5, 5)
    BY <1>11, <1>5, <1>12
<1>14. PICK s6 : s6 = s5 \o C(6)
    OBVIOUS
<1>15. Does(s6, 6)
    BY <1>13, <1>5, <1>14
<1>16. PICK s7 : s7 = s6 \o C(7)
    OBVIOUS
<1>17. Does(s7, 7)
    BY <1>15, <1>5, <1>16
<1>18. PICK s8 : s8 = s7 \o C(8)
    OBVIOUS
<1>19. Does(s8, 8)
    BY <1>17, <1>5, <1>18
<1>20. PICK s9 : s9 = s8 \o C(9)
    OBVIOUS
<1>21. Does(s9, 9)
    BY <1>19, <1>5, <1>20
<1>22. PICK s10 : s10 = s9 \o C(10)
    OBVIOUS
<1>23. Does(s10, 10)
    BY <1>21, <1>5, <1>22
<1>24. Capture!KeyEvents(pad) = s10
    BY <1>6, <1>8, <1>10, <1>12, <1>14, <1>16, <1>18, <1>20, <1>22
    DEF C, Capture!KeyEvents
<1>25. QED
    BY <1>23, <1>24 DEF Does, CodesTo, Codes

\* What one call reports: it presses what has come to be held and releases what
\* no longer is, and whatever does not begin a gesture belongs to one begun.
LEMMA EventsDiffer ==
    ASSUME VarsTyped, NEW pad \in Pads, NEW touch \in Touches,
           Capture!Remember(pad, touch),
           NEW s, s = Capture!EventsOf(pad, touch)
    PROVE  /\ s \in Seq(Event)
           /\ Pressed(s) = HeldIn(cap') \ HeldIn(cap)
           /\ Released(s) = HeldIn(cap) \ HeldIn(cap')
           /\ \A e \in Range(s) : ~Begins(e) => ControlOf(e) \in HeldIn(cap)
<1>1. /\ s \in Seq(Event) /\ Capture!KeyEvents(pad) \in Seq(Event)
      /\ cap.touch \in BOOLEAN
    BY EventsTyped, KeysPress DEF VarsTyped, Capture!CaptureType
<1>2. PICK ks : ks = Capture!KeyEvents(pad)
    OBVIOUS
<1>3. PICK ts : ts = Capture!TouchEvents(touch)
    OBVIOUS
<1>4. s = ks \o ts
    BY <1>2, <1>3 DEF Capture!EventsOf
<1>5. ts \in Seq(Event)
    BY <1>3, TouchEventsTyped DEF VarsTyped
<1>6. /\ Pressed(s) = Pressed(ks) \cup Pressed(ts)
      /\ Released(s) = Released(ks) \cup Released(ts)
      /\ Range(s) = Range(ks) \cup Range(ts)
    BY <1>1, <1>2, <1>4, <1>5, PressedConcat, RangeConcatenation
<1>7. PICK old : old = cap.buttons
    OBVIOUS
<1>8. PICK was \in BOOLEAN : was = cap.touch
    BY <1>1
<1>9. PICK now \in BOOLEAN : now = (touch # Capture!NoTouch)
  <2>1. (touch # Capture!NoTouch) \in BOOLEAN
      OBVIOUS
  <2>2. QED
      BY <2>1
<1>10. /\ Pressed(ks) = Codes(pad \ old) /\ Released(ks) = Codes(old \ pad)
       /\ \A e \in Range(ks) : Begins(e) \/ Ends(e)
    BY <1>2, <1>7, KeysPress
<1>11. /\ Pressed(ts) = IF now /\ ~was THEN {0} ELSE {}
       /\ Released(ts) = IF was /\ ~now THEN {0} ELSE {}
       /\ \A e \in Range(ts) : ~Begins(e) => ControlOf(e) = 0 /\ was
  <2>1. /\ Pressed(ts)
           = IF touch # Capture!NoTouch /\ ~cap.touch THEN {0} ELSE {}
        /\ Released(ts)
           = IF touch = Capture!NoTouch /\ cap.touch THEN {0} ELSE {}
        /\ \A e \in Range(ts) : ~Begins(e) => ControlOf(e) = 0 /\ cap.touch
      BY <1>1, <1>3, TouchPresses, Zenon
  <2>2. QED
      BY <1>8, <1>9, <2>1
<1>12. /\ HeldIn(cap) = Codes(old) \cup (IF was THEN {0} ELSE {})
       /\ HeldIn(cap') = Codes(pad) \cup (IF now THEN {0} ELSE {})
  <2>1. cap'.buttons = pad /\ cap'.touch = now
      BY <1>9 DEF Capture!Remember
  <2>2. QED
      BY <1>7, <1>8, <2>1, HeldInIs
<1>13. /\ Codes(pad \ old) = Codes(pad) \ Codes(old)
       /\ Codes(old \ pad) = Codes(old) \ Codes(pad)
       /\ 0 \notin Codes(pad) /\ 0 \notin Codes(old)
    BY CodesDiffer DEF Codes
<1>14. Pressed(s) = HeldIn(cap') \ HeldIn(cap)
    BY <1>6, <1>10, <1>11, <1>12, <1>13
<1>15. Released(s) = HeldIn(cap) \ HeldIn(cap')
    BY <1>6, <1>10, <1>11, <1>12, <1>13
<1>16. ASSUME NEW e \in Range(s), ~Begins(e) PROVE ControlOf(e) \in HeldIn(cap)
  <2>1. CASE Ends(e)
    <3>1. ControlOf(e) \in Released(s)
        BY <1>16, <2>1 DEF Released
    <3>2. QED
        BY <1>15, <3>1
  <2>2. CASE ~Ends(e)
    <3>1. e \in Range(ts)
        BY <1>6, <1>10, <1>16, <2>2
    <3>2. QED
        BY <1>11, <1>12, <1>16, <3>1
  <2>3. QED
      BY <2>1, <2>2
<1>17. QED
    BY <1>1, <1>14, <1>15, <1>16
-----------------------------------------------------------------------------
(* What the phone has been told.                                           *)

\* What the head unit answers by the script tells the phone of no control.
LEMMA ScriptTellsNothing ==
    ASSUME NEW k \in 0 .. 28, NEW s, s = Answered(k)
    PROVE  \A i \in DOMAIN s : s[i].mid # INPUT_EVENT_INDICATION
<1>1. s \in Seq(Answers)
    BY ScriptTyped DEF AnsweredTyped
<1>2. \A i \in DOMAIN s : s[i] \in Answers
    BY <1>1, ElementOfSeq, LenProperties
<1>3. QED
    BY <1>2 DEF Answers

\* One turn of handle_input over an open connection: while TLS is not done all
\* is lost, and nothing was told before; then all of it is told.
LEMMA TouchTells ==
    ASSUME LateInput, IInv, HeldInv, conn = "up",
           NEW pad \in Pads, NEW touch \in Touches, HeadUnitTouch(pad, touch)
    PROVE  /\ HeldInv'
           /\ \A k \in DOMAIN out' :
                 LET e == out'[k].val
                 IN  IF Begins(e) THEN ControlOf(e) \notin seen
                                  ELSE ControlOf(e) \in seen \cup orphan
<1>1. PICK k \in 0 .. 28 : At(k)
    BY DEF IInv
<1>2. PICK s : s = Capture!EventsOf(pad, touch)
    OBVIOUS
<1>3. PICK old : old = HeldIn(cap)
    OBVIOUS
<1>4. PICK new : new = HeldIn(cap')
    OBVIOUS
<1>5. /\ s \in Seq(Event)
      /\ Pressed(s) = new \ old
      /\ Released(s) = old \ new
      /\ \A e \in Range(s) : ~Begins(e) => ControlOf(e) \in old
    BY <1>2, <1>3, <1>4, EventsDiffer DEF IInv, HeadUnitTouch
<1>6. /\ out' = HU!InputMessages(s)
      /\ tls' = tls /\ conn' = conn /\ stage \in TouchStages
    BY <1>2 DEF HeadUnitTouch, HU!SendInput, HU!Written
<1>7. /\ seen' = IF out' = <<>> THEN seen ELSE (seen \cup Pressed(s)) \ Released(s)
      /\ orphan' = (IF out' = <<>> THEN orphan \cup Pressed(s) ELSE orphan)
                   \ Released(s)
  <2>1. DOMAIN s = 1 .. Len(s) /\ Range(s) = {s[i] : i \in 1 .. Len(s)}
      BY <1>5, LenProperties, RangeEquality
  <2>2. Pressed(s) = {ControlOf(s[i]) : i \in {j \in DOMAIN s : Begins(s[j])}}
      BY <2>1 DEF Pressed
  <2>3. Released(s) = {ControlOf(s[i]) : i \in {j \in DOMAIN s : Ends(s[j])}}
      BY <2>1 DEF Released
  <2>4. QED
      BY <1>2, <2>2, <2>3 DEF HeadUnitTouch
<1>8. seen \cup orphan = old /\ seen \cap orphan = {} /\ (seen # {} => tls = "done")
    BY <1>3 DEF HeldInv, HeldIsSeen
<1>9. ASSUME seen' \cup orphan' = new, seen' \cap orphan' = {},
             seen' # {} => tls' = "done"
      PROVE  HeldInv'
    BY <1>4, <1>9 DEF HeldInv, HeldIsSeen
<1>10. tls \in {"hello", "finished", "done"}
  <2>1. stage \notin {"SEND_VERSION", "WAIT_VERSION"}
      BY <1>6, TouchAssumption DEF LateInput
  <2>2. QED
      BY <1>1, <2>1 DEF At, StageAt, TlsAt
<1>11. CASE tls # "done"
  <2>1. out' = <<>> /\ seen = {}
      BY <1>5, <1>6, <1>8, <1>10, <1>11, InputSealed
  <2>2. DOMAIN out' = {}
      BY <2>1
  <2>3. HeldInv'
      BY <1>5, <1>7, <1>8, <1>9, <2>1
  <2>4. QED
      BY <2>2, <2>3
<1>12. CASE tls = "done"
  <2>1. /\ out' = [i \in DOMAIN s |->
                      Msg(INPUT, INPUT_EVENT_INDICATION, "sealed", s[i])]
        /\ DOMAIN s = 1 .. Len(s)
        /\ Range(s) = {s[i] : i \in 1 .. Len(s)}
      BY <1>5, <1>6, <1>12, InputWritten, LenProperties, RangeEquality
  <2>2. \A i \in DOMAIN out' : out'[i].val \in Range(s)
      BY <2>1 DEF Msg
  <2>3. \A e \in Range(s) : Begins(e) => ControlOf(e) \in Pressed(s)
      BY DEF Pressed
  <2>4. \A e \in Range(s) : IF Begins(e) THEN ControlOf(e) \notin seen
                                         ELSE ControlOf(e) \in seen \cup orphan
      BY <1>5, <1>8, <2>3
  <2>5. out' = <<>> => Pressed(s) = {} /\ Released(s) = {}
    <3>1. out' = <<>> => DOMAIN out' = {}
        OBVIOUS
    <3>2. out' = <<>> => Range(s) = {}
        BY <2>1, <3>1
    <3>3. QED
        BY <3>2 DEF Pressed, Released
  <2>6. HeldInv'
      BY <1>5, <1>6, <1>7, <1>8, <1>9, <1>12, <2>5
  <2>7. QED
      BY <2>2, <2>4, <2>6
<1>13. QED
    BY <1>11, <1>12

\* What the phone is told by one step of the head unit, as GesturesLegal has it.
Legal ==
    Len(toPhone') > Len(toPhone) =>
        \A k \in DOMAIN out' :
            out'[k].mid = HU!INPUT_EVENT_INDICATION =>
                LET e == out'[k].val
                IN  IF Begins(e) THEN ControlOf(e) \notin seen
                                 ELSE ControlOf(e) \in seen \cup orphan

\* A message of the head unit's script tells the phone of no control, and
\* leaves what it was told and what is held as they were.
LEMMA ScriptHolds ==
    ASSUME IInv, HeldInv, conn = "up", HeadUnitStart \/ HeadUnitPoll
    PROVE  HeldInv' /\ Legal
<1>1. PICK k \in 0 .. 28 : At(k)
    BY DEF IInv
<1>2. UNCHANGED <<cap, seen, orphan>>
    BY DEF HeadUnitStart, HeadUnitPoll, told
<1>3. k + 1 \in 0 .. 28 /\ HeadUnitMoves(k)
  <2>1. CASE HeadUnitStart
      BY <1>1, <2>1, StartMoves DEF IInv
  <2>2. CASE HeadUnitPoll
    <3>1. k \in Asks /\ HeadUnitMoves(k)
        BY <1>1, <2>2, PollMoves DEF IInv
    <3>2. QED
        BY <3>1, HeadUnitPlaces
  <2>3. QED
      BY <2>1, <2>2
<1>4. tls = TlsAt(k) /\ tls' = TlsAt(k + 1) /\ out' = Answered(k + 1)
    BY <1>1, <1>3 DEF At, HeadUnitMoves
<1>5. TlsAt(k) = "done" => TlsAt(k + 1) = "done"
  <2>1. TlsAt(k) = "done" => k \notin 0 .. 6
      BY DEF TlsAt
  <2>2. k + 1 \notin 0 .. 6 => TlsAt(k + 1) = "done"
      BY DEF TlsAt
  <2>3. QED
      BY <2>1, <2>2
<1>6. HeldInv'
    BY <1>2, <1>4, <1>5 DEF HeldInv, HeldIsSeen, HeldIn
<1>7. \A i \in DOMAIN out' : out'[i].mid # HU!INPUT_EVENT_INDICATION
    BY <1>3, <1>4, ScriptTellsNothing, LargeIds
<1>8. QED
    BY <1>6, <1>7 DEF Legal

\* What is written on a closed connection is lost.
LEMMA ClosedIsSilent ==
    ASSUME IInv, conn = "closed",
           \/ HeadUnitStart \/ HeadUnitPoll
           \/ \E pad \in Pads, touch \in Touches : HeadUnitTouch(pad, touch)
    PROVE  conn' = "closed" /\ out' = <<>>
<1>1. \A w : HU!Written(w) = <<>>
    BY DEF HU!Written
<1>2. CASE HeadUnitStart
    BY <1>1, <1>2
    DEF HeadUnitStart, HU!PollStart, HU!PollEof, HU!SendError, HU!Handshake,
        HU!Quiet
<1>3. CASE HeadUnitPoll
  <2>1. PICK m : HU!Receive(m)
      BY <1>3 DEF HeadUnitPoll
  <2>2. CASE HU!PollUnreadable(m) \/ HU!PollIgnore(m)
      BY <2>2 DEF HU!PollUnreadable, HU!PollIgnore, HU!Quiet
  <2>3. CASE HU!PollVersion(m)
      BY <1>1, <2>3 DEF HU!PollVersion, HU!SendError, HU!Handshake, HU!Quiet
  <2>4. CASE HU!PollTls(m)
      BY <1>1, <2>4 DEF HU!PollTls, HU!SendError, HU!Handshake, HU!Quiet
  <2>5. CASE HU!PollServiceDiscovery(m)
      BY <1>1, <2>5
      DEF HU!PollServiceDiscovery, HU!SendError, HU!Handshake, HU!Quiet
  <2>6. CASE HU!Dispatch(m)
      BY <1>1, <2>6 DEF HU!Dispatch
  <2>7. QED
      BY <2>1, <2>2, <2>3, <2>4, <2>5, <2>6 DEF HU!Receive
<1>4. CASE \E pad \in Pads, touch \in Touches : HeadUnitTouch(pad, touch)
    BY <1>1, <1>4 DEF HeadUnitTouch, HU!SendInput
<1>5. QED
    BY <1>2, <1>3, <1>4

\* The phone takes from what is in flight to it and adds nothing.
LEMMA PhoneAdds ==
    ASSUME IInv, PhoneStep PROVE Legal
<1>1. toPhone \in Seq(Answers \cup InputEvents)
    BY DEF IInv, VarsTyped
<1>2. toPhone' \in {toPhone, Tail(toPhone)} /\ (toPhone = <<>> => toPhone' = toPhone)
    BY DEF PhoneStep, Phone!MockStep
<1>3. toPhone # <<>> => Len(Tail(toPhone)) = Len(toPhone) - 1
    BY <1>1, HeadTailProperties
<1>4. Len(toPhone) \in Nat
    BY <1>1, LenProperties
<1>5. PICK n \in Nat : n = Len(toPhone)
    BY <1>4
<1>6. Len(toPhone') = n \/ Len(toPhone') = n - 1
    BY <1>2, <1>3, <1>5
<1>7. PICK l : l = Len(toPhone')
    OBVIOUS
<1>8. ~(l > n)
    BY <1>5, <1>6, <1>7
<1>9. QED
    BY <1>5, <1>7, <1>8 DEF Legal

\* Every step keeps what is held accounted for, and tells the phone of
\* gestures as they are.
LEMMA HeldStep ==
    ASSUME LateInput PROVE IInv /\ HeldInv /\ [Next]_vars => HeldInv' /\ [Legal]_vars
<1> SUFFICES ASSUME IInv, HeldInv, [Next]_vars PROVE HeldInv' /\ [Legal]_vars
    OBVIOUS
<1>1. conn \in {"up", "closed"} /\ Len(toPhone) \in Nat
    BY LenProperties DEF IInv, VarsTyped
<1>2. ASSUME UNCHANGED <<tls, conn, cap, seen, orphan>> PROVE HeldInv'
    BY <1>2 DEF HeldInv, HeldIsSeen, HeldIn
<1>3. ASSUME conn' # "up" PROVE HeldInv'
    BY <1>3 DEF HeldInv, HeldIsSeen
<1>4. ASSUME ~(Len(toPhone') > Len(toPhone)) \/ out' = <<>> PROVE Legal
    BY <1>4 DEF Legal
<1>5. CASE UNCHANGED vars
    BY <1>2, <1>5 DEF vars, hu, told
<1>6. CASE HarnessEnds
    BY <1>2, <1>6 DEF HarnessEnds, vars, hu, told
<1>7. CASE HeadUnitIdle
  <2>1. UNCHANGED <<tls, conn, cap, seen, orphan>> /\ toPhone' = toPhone
      BY <1>7 DEF HeadUnitIdle, hu, told
  <2>2. QED
      BY <1>1, <1>2, <1>4, <2>1
<1>8. CASE PhoneStep
  <2>1. UNCHANGED <<tls, conn, cap, seen, orphan>>
      BY <1>8 DEF PhoneStep, hu, told
  <2>2. Legal
      BY <1>8, PhoneAdds
  <2>3. HeldInv'
      BY <1>2, <2>1
  <2>4. QED
      BY <2>2, <2>3
<1>9. CASE Close
  <2>1. conn' # "up" /\ toPhone' = toPhone
      BY <1>9 DEF Close, HU!Close
  <2>2. QED
      BY <1>1, <1>3, <1>4, <2>1
<1>10. CASE HeadUnitStart \/ HeadUnitPoll
  <2>1. CASE conn = "up"
      BY <1>10, <2>1, ScriptHolds
  <2>2. CASE conn = "closed"
      BY <1>3, <1>4, <1>10, <2>2, ClosedIsSilent
  <2>3. QED
      BY <1>1, <2>1, <2>2
<1>11. ASSUME NEW pad \in Pads, NEW touch \in Touches, HeadUnitTouch(pad, touch)
       PROVE  HeldInv' /\ Legal
  <2>1. CASE conn = "up"
      BY <1>11, <2>1, TouchTells DEF Legal
  <2>2. CASE conn = "closed"
      BY <1>3, <1>4, <1>11, <2>2, ClosedIsSilent
  <2>3. QED
      BY <1>1, <2>1, <2>2
<1>12. QED
    BY <1>5, <1>6, <1>7, <1>8, <1>9, <1>10, <1>11 DEF Next

\* At first nothing is held and nothing told.
LEMMA HeldInitially == Init => HeldInv
<1> SUFFICES ASSUME Init PROVE HeldInv
    OBVIOUS
<1>1. seen = {} /\ orphan = {} /\ cap.buttons = {} /\ cap.touch = FALSE
    BY DEF Init, Capture!CaptureInit
<1>2. HeldIn(cap) = {}
    BY <1>1, HeldInIs DEF Codes
<1>3. QED
    BY <1>1, <1>2 DEF HeldInv, HeldIsSeen

\* Whatever the user holds through which stages (but the one that waits for the
\* VERSION_RESPONSE), what is pressed is what the phone knows to be pressed and
\* what went down while nothing could be sent: handle_input remembers samples
\* whose events were lost.
THEOREM HeldIsAlwaysSeen ==
    ASSUME LateInput PROVE Spec => []HeldIsSeen
<1>1. HeldInv => HeldIsSeen
    BY DEF HeldInv
<1>2. IInv /\ HeldInv /\ [Next]_vars => HeldInv'
    BY HeldStep
<1>3. QED
    BY <1>1, <1>2, HeldInitially, Invariant, PTL DEF Spec

\* Each control's events alternate on the wire, down, moves, up, but for the
\* rest of a gesture whose beginning was lost.
THEOREM GesturesAreLegal ==
    ASSUME LateInput PROVE Spec => GesturesLegal
<1>1. IInv /\ HeldInv /\ [Next]_vars => HeldInv' /\ [Legal]_vars
    BY HeldStep
<1>2. Spec => [][Legal]_vars
    BY <1>1, HeldInitially, Invariant, PTL DEF Spec
<1>3. QED
    BY <1>2 DEF GesturesLegal, Legal
=============================================================================
