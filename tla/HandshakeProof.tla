--------------------------- MODULE HandshakeProof ---------------------------
(***************************************************************************)
(* The head unit and the phone together: proofs for every set of buttons   *)
(* and touches, every bound on the messages in flight and every number of  *)
(* rounds in which the harness can come to the end of the script.          *)
(*                                                                         *)
(* Both ends are state machines that wait for each other, so a session     *)
(* over a healthy connection is one path through 29 places: at each of     *)
(* them the stage of either end and what is in flight are known.  Only the *)
(* input events, which the head unit sends when the user likes, mix with   *)
(* it.  When the connection is closed the phone stops where it is and the  *)
(* head unit works off what has reached it.                                *)
(***************************************************************************)
EXTENDS HandshakeSystem, AaMsg, SequenceTheorems, FiniteSetTheorems, TLAPS

\* The user leaves the controls alone while the head unit waits for the
\* VERSION_RESPONSE: what goes out then goes out bare, and the phone's session
\* is stuck for good.
LateInput == "WAIT_VERSION" \notin TouchStages

-----------------------------------------------------------------------------
(* The messages.                                                           *)

Event == [key : Capture!KeyCodes, down : BOOLEAN]
         \cup [action : 0 .. 2,
               at : (0 .. Capture!VideoWidth - 1) \X (0 .. Capture!VideoHeight - 1)]
InputEvents ==
    [ch : {INPUT}, mid : {INPUT_EVENT_INDICATION}, enc : {"sealed"}, val : Event]
ScriptChannels == {CONTROL, VIDEO, INPUT, MEDIA_AUDIO}
ScriptMsgs == [ch : ScriptChannels, mid : Nat, enc : {"plain", "sealed"}, val : Int]
Answers == {m \in ScriptMsgs : m.mid # INPUT_EVENT_INDICATION}

\* q is the script's messages w, one after the other, among messages of S.
Holds(q, w, S) == \E a, b \in Seq(S) : q = a \o w \o b

\* Input events are written once TLS is done, and in no harness.
Among == IF tls = "done" /\ driver = "apart" THEN InputEvents ELSE {}

-----------------------------------------------------------------------------
(* The script, place by place.                                             *)

StageAt(k) ==
    CASE k = 0 -> "SEND_VERSION"
      [] k \in 1 .. 2 -> "WAIT_VERSION"
      [] k \in 3 .. 6 -> "TLS"
      [] k \in 7 .. 8 -> "WAIT_SERVICE_DISCOVERY"
      [] OTHER -> "ACTIVE"
TlsAt(k) ==
    CASE k \in 0 .. 2 -> "none"
      [] k \in 3 .. 4 -> "hello"
      [] k \in 5 .. 6 -> "finished"
      [] OTHER -> "done"
PhoneTlsAt(k) ==
    CASE k \in 0 .. 3 -> "start" [] k \in 4 .. 5 -> "hello" [] OTHER -> "done"
StepAt(k) ==
    CASE k \in 0 .. 1 -> 0
      [] k \in 2 .. 5 -> 1
      [] k \in 6 .. 7 -> 2
      [] k \in 8 .. 9 -> 3
      [] k \in 10 .. 11 -> 4
      [] k \in 12 .. 13 -> 5
      [] k \in 14 .. 15 -> 6
      [] k \in 16 .. 18 -> 7
      [] k \in 19 .. 21 -> 9
      [] k \in 22 .. 23 -> 11
      [] k \in 24 .. 25 -> 13
      [] OTHER -> 15

\* What the phone asks, in flight at place k.
Picture == Msg(VIDEO, MEDIA_DATA, "plain", 0)
Asked(k) ==
    CASE k = 2 -> <<Msg(CONTROL, VERSION_RESPONSE, "plain", MATCH)>>
      [] k = 4 -> <<Msg(CONTROL, SSL_HANDSHAKE, "plain", ServerHello)>>
      [] k = 6 -> <<Msg(CONTROL, SSL_HANDSHAKE, "plain", ServerFinished)>>
      [] k = 8 -> <<Msg(CONTROL, SERVICE_DISCOVERY_REQUEST, "sealed", 0)>>
      [] k = 10 -> <<Msg(VIDEO, CHANNEL_OPEN_REQUEST, "sealed", 0)>>
      [] k = 12 -> <<Msg(INPUT, CHANNEL_OPEN_REQUEST, "sealed", 0)>>
      [] k = 14 -> <<Msg(MEDIA_AUDIO, CHANNEL_OPEN_REQUEST, "sealed", 0)>>
      [] k = 16 -> <<Msg(VIDEO, SETUP_REQUEST, "sealed", 0)>>
      [] k = 19 -> <<Msg(VIDEO, START_INDICATION, "sealed", 1), Picture>>
      [] k = 20 -> <<Picture>>
      [] k = 22 -> <<Msg(MEDIA_AUDIO, MEDIA_DATA, "plain", 0)>>
      [] k = 24 -> <<Msg(INPUT, BINDING_REQUEST, "sealed", 0)>>
      [] k = 26 -> <<Msg(CONTROL, PING_REQUEST, "plain", 42)>>
      [] OTHER -> <<>>

\* What the head unit says, in flight at place k.
Focus == Msg(VIDEO, VIDEO_FOCUS_INDICATION, "sealed", 0)
Answered(k) ==
    CASE k = 1 -> <<Msg(CONTROL, VERSION_REQUEST, "plain", 0)>>
      [] k = 3 -> <<Msg(CONTROL, SSL_HANDSHAKE, "plain", ClientHello)>>
      [] k = 5 -> <<Msg(CONTROL, SSL_HANDSHAKE, "plain", ClientFinished)>>
      [] k = 7 -> <<Msg(CONTROL, AUTH_COMPLETE, "plain", 0)>>
      [] k = 9 -> <<Msg(CONTROL, SERVICE_DISCOVERY_RESPONSE, "sealed", 0)>>
      [] k = 11 -> <<Msg(VIDEO, CHANNEL_OPEN_RESPONSE, "sealed", 0)>>
      [] k = 13 -> <<Msg(INPUT, CHANNEL_OPEN_RESPONSE, "sealed", 0)>>
      [] k = 15 -> <<Msg(MEDIA_AUDIO, CHANNEL_OPEN_RESPONSE, "sealed", 0)>>
      [] k = 17 -> <<Msg(VIDEO, SETUP_RESPONSE, "sealed", 0), Focus>>
      [] k = 18 -> <<Focus>>
      [] k = 21 -> <<Msg(VIDEO, AV_MEDIA_ACK_INDICATION, "sealed", 1)>>
      [] k = 23 -> <<Msg(MEDIA_AUDIO, AV_MEDIA_ACK_INDICATION, "sealed", NoSession)>>
      [] k = 25 -> <<Msg(INPUT, BINDING_RESPONSE, "sealed", 0)>>
      [] k = 27 -> <<Msg(CONTROL, PING_RESPONSE, "plain", 42)>>
      [] OTHER -> <<>>

\* What the phone has seen so far, and what the head unit has.
Known(results, k) ==
    /\ "video_open" \in results <=> k >= 12
    /\ "input_open" \in results <=> k >= 14
    /\ "audio_open" \in results <=> k >= 16
    /\ "setup" \in results <=> k >= 18
    /\ "focus" \in results <=> k >= 19
    /\ "video_ack" \in results <=> k >= 22
    /\ "audio_ack" \in results <=> k >= 24
    /\ "binding" \in results <=> k >= 26
    /\ "ping" \in results <=> k >= 28
Effects(k) ==
    /\ state = IF k >= 9 THEN "ACTIVE" ELSE "IDLE"
    /\ frames = IF k >= 21 THEN 1 ELSE 0
    /\ k >= 20 => session_by_channel[VIDEO] = 1
    /\ session_by_channel[MEDIA_AUDIO] = NoSession
    /\ k >= 25 => input_bound

\* The turns of the harness taken so far.  One of the two has nothing to do
\* before the first message, at place 18 (two answers to one question), at
\* place 20 (two questions, one answer) and after the last message.
Turns == 2 * iter + (IF turn = "hu" THEN 1 ELSE 0)
TurnsAt(k) ==
    CASE k = 0 -> {0, 1}
      [] k \in 1 .. 17 -> {k + 1}
      [] k = 18 -> {19, 20}
      [] k = 19 -> {21}
      [] k = 20 -> {22, 23}
      [] k \in 21 .. 27 -> {k + 3}
      [] OTHER -> {31, 32}

PhoneAt(p, k) ==
    /\ p.step = StepAt(k) /\ p.tls = PhoneTlsAt(k) /\ (p.done <=> k = 28)
    /\ Known(p.results, k)
At(k) ==
    /\ stage = StageAt(k) /\ tls = TlsAt(k) /\ PhoneAt(ph, k) /\ Effects(k)
    /\ toHU = Asked(k) /\ Holds(toPhone, Answered(k), Among)
    /\ driver = "harness" => Turns \in TurnsAt(k)

\* The connection is closed: the head unit goes on with what was in flight to
\* it, and may be ahead of what it could tell the phone by that.
Winding ==
    /\ StagesAgree
    /\ state = "FAILED" <=> stage = "FAILED"
    /\ state = "ACTIVE" <=> stage = "ACTIVE"
    /\ stage = "SEND_VERSION" => tls = "none" /\ toHU = <<>>
    /\ stage = "WAIT_VERSION" => tls = "none" /\ (toHU # <<>> => toHU = Asked(2) /\ ph.step = 1)
    /\ stage = "TLS" =>
          /\ tls \in {"hello", "finished"}
          /\ toHU # <<>> => \/ tls = "hello" /\ toHU = Asked(4)
                            \/ tls = "finished" /\ toHU = Asked(6) /\ ph.step = 2
    /\ stage = "WAIT_SERVICE_DISCOVERY" =>
          tls = "done" /\ (toHU # <<>> => toHU = Asked(8) /\ ph.step = 3)
    /\ stage = "ACTIVE" => tls = "done"

Results == {"video_open", "input_open", "audio_open", "setup",
            "focus", "video_ack", "audio_ack", "binding", "ping"}
PhoneStates == [step : 0 .. 15, tls : {"start", "hello", "done"},
                results : SUBSET Results, done : BOOLEAN]

VarsTyped ==
    /\ stage \in HU!Stages
    /\ state \in {"IDLE", "ACTIVE", "FAILED"}
    /\ tls \in HU!TlsStates
    /\ session_by_channel \in [{0, 1, 2, 3, 6} -> Int]
    /\ input_bound \in BOOLEAN /\ conn \in {"up", "closed"} /\ frames \in 0 .. 1
    /\ out \in Seq(Answers \cup InputEvents)
    /\ ph \in PhoneStates /\ Capture!CaptureType
    /\ toHU \in Seq(ScriptMsgs) /\ toPhone \in Seq(Answers \cup InputEvents)
    /\ seen \cup orphan \subseteq Capture!KeyCodes \cup {0}
LoopTyped ==
    /\ driver \in {"harness", "apart"}
    /\ turn \in {"phone", "hu"}
    /\ iter \in 0 .. MaxRounds
    /\ driver = "harness" => /\ conn = "up"
                             /\ turn = "hu" => iter < MaxRounds

IInv ==
    /\ VarsTyped /\ LoopTyped
    /\ conn = "up" => \E k \in 0 .. 28 : At(k)
    /\ conn = "closed" => Winding /\ AcksNameSession
-----------------------------------------------------------------------------
(* The small numbers of channels, messages and payloads are used as such.  *)

USE DEF CONTROL, SENSOR, VIDEO, INPUT, MEDIA_AUDIO, VERSION_REQUEST,
    VERSION_RESPONSE, SSL_HANDSHAKE, AUTH_COMPLETE, SERVICE_DISCOVERY_REQUEST,
    SERVICE_DISCOVERY_RESPONSE, CHANNEL_OPEN_REQUEST, CHANNEL_OPEN_RESPONSE,
    PING_REQUEST, PING_RESPONSE, MEDIA_DATA, MATCH, ClientHello, ServerHello,
    ClientFinished, ServerFinished, NoSession
USE DEF Phone!CONTROL, Phone!VIDEO, Phone!INPUT, Phone!MEDIA_AUDIO,
    Phone!VERSION_REQUEST, Phone!VERSION_RESPONSE, Phone!SSL_HANDSHAKE,
    Phone!AUTH_COMPLETE, Phone!SERVICE_DISCOVERY_REQUEST,
    Phone!SERVICE_DISCOVERY_RESPONSE, Phone!CHANNEL_OPEN_REQUEST,
    Phone!CHANNEL_OPEN_RESPONSE, Phone!PING_REQUEST, Phone!PING_RESPONSE,
    Phone!MEDIA_DATA, Phone!MATCH, Phone!ClientHello, Phone!ServerHello,
    Phone!ClientFinished, Phone!ServerFinished, Phone!Alert
USE DEF HU!CONTROL, HU!SENSOR, HU!VIDEO, HU!INPUT, HU!VERSION_REQUEST,
    HU!VERSION_RESPONSE, HU!SSL_HANDSHAKE, HU!AUTH_COMPLETE,
    HU!SERVICE_DISCOVERY_REQUEST, HU!SERVICE_DISCOVERY_RESPONSE,
    HU!CHANNEL_OPEN_REQUEST, HU!CHANNEL_OPEN_RESPONSE, HU!PING_REQUEST,
    HU!PING_RESPONSE, HU!MEDIA_DATA, HU!MATCH, HU!ClientHello, HU!ServerHello,
    HU!ClientFinished, HU!ServerFinished, HU!NoSession, HU!AUDIO_FOCUS_REQUEST,
    HU!AUDIO_FOCUS_NOTIFICATION, HU!MEDIA_CODEC_CONFIG, HU!Alert, HU!Fragment,
    HU!Malformed

\* The ids above 0x8000, which only the media, sensor and input channels use.
LEMMA LargeIds ==
    /\ Phone!BINDING_REQUEST = BINDING_REQUEST
    /\ HU!BINDING_REQUEST = BINDING_REQUEST
    /\ Phone!BINDING_RESPONSE = BINDING_RESPONSE
    /\ HU!BINDING_RESPONSE = BINDING_RESPONSE
    /\ Phone!SETUP_REQUEST = SETUP_REQUEST
    /\ HU!SETUP_REQUEST = SETUP_REQUEST
    /\ Phone!START_INDICATION = START_INDICATION
    /\ HU!START_INDICATION = START_INDICATION
    /\ Phone!SETUP_RESPONSE = SETUP_RESPONSE
    /\ HU!SETUP_RESPONSE = SETUP_RESPONSE
    /\ Phone!AV_MEDIA_ACK_INDICATION = AV_MEDIA_ACK_INDICATION
    /\ HU!AV_MEDIA_ACK_INDICATION = AV_MEDIA_ACK_INDICATION
    /\ Phone!VIDEO_FOCUS_INDICATION = VIDEO_FOCUS_INDICATION
    /\ HU!VIDEO_FOCUS_INDICATION = VIDEO_FOCUS_INDICATION
    /\ HU!INPUT_EVENT_INDICATION = INPUT_EVENT_INDICATION
    /\ {BINDING_REQUEST, BINDING_RESPONSE, SETUP_REQUEST, START_INDICATION,
        SETUP_RESPONSE, AV_MEDIA_ACK_INDICATION, VIDEO_FOCUS_INDICATION,
        INPUT_EVENT_INDICATION} \subseteq Nat \ 0 .. 100
    BY DEF BINDING_REQUEST, BINDING_RESPONSE, SETUP_REQUEST, START_INDICATION,
           SETUP_RESPONSE, AV_MEDIA_ACK_INDICATION, VIDEO_FOCUS_INDICATION,
           INPUT_EVENT_INDICATION, Phone!BINDING_REQUEST, Phone!BINDING_RESPONSE,
           Phone!SETUP_REQUEST, Phone!START_INDICATION, Phone!SETUP_RESPONSE,
           Phone!AV_MEDIA_ACK_INDICATION, Phone!VIDEO_FOCUS_INDICATION,
           HU!BINDING_REQUEST, HU!BINDING_RESPONSE, HU!SETUP_REQUEST,
           HU!START_INDICATION, HU!SETUP_RESPONSE, HU!AV_MEDIA_ACK_INDICATION,
           HU!VIDEO_FOCUS_INDICATION, HU!INPUT_EVENT_INDICATION

\* The ids the head unit answers with differ from each other, and INPUT_EVENT is
\* none of them.
LEMMA Differ ==
    /\ SETUP_RESPONSE # VIDEO_FOCUS_INDICATION
    /\ INPUT_EVENT_INDICATION \notin {SETUP_RESPONSE, VIDEO_FOCUS_INDICATION,
                                    AV_MEDIA_ACK_INDICATION, BINDING_RESPONSE}
    BY DEF SETUP_RESPONSE, VIDEO_FOCUS_INDICATION, INPUT_EVENT_INDICATION,
           AV_MEDIA_ACK_INDICATION, BINDING_RESPONSE

\* A message is the same at either end.
LEMMA SameMsg ==
    ASSUME NEW ch, NEW mid, NEW enc, NEW val
    PROVE  /\ Phone!Msg(ch, mid, enc, val) = Msg(ch, mid, enc, val)
           /\ HU!Msg(ch, mid, enc, val) = Msg(ch, mid, enc, val)
           /\ Msg(ch, mid, enc, val).ch = ch /\ Msg(ch, mid, enc, val).mid = mid
           /\ Msg(ch, mid, enc, val).enc = enc /\ Msg(ch, mid, enc, val).val = val
    BY DEF Msg, Phone!Msg, HU!Msg

\* Whether in clear or sealed, one send of the phone writes exactly one message.
LEMMA PhoneSends ==
    ASSUME NEW ch, NEW mid, NEW val
    PROVE  /\ Phone!Clear(ch, mid, val) = <<Msg(ch, mid, "plain", val)>>
           /\ Phone!Seal(ch, mid, val) = <<Msg(ch, mid, "sealed", val)>>
    BY DEF Phone!Clear, Phone!Seal, Phone!Msg, Msg

\* One message, or two.
LEMMA Pair ==
    ASSUME NEW a, NEW b PROVE <<a>> \o <<b>> = <<a, b>>
<1> DEFINE s == <<a>>
           t == <<b>>
           S == {a, b}
<1>1. /\ s \in Seq(S)
      /\ t \in Seq(S)
      /\ Len(s) = 1
      /\ Len(t) = 1
      /\ s[1] = a
      /\ t[1] = b
    OBVIOUS
<1>2. <<a, b>> \in Seq(S) /\ Len(<<a, b>>) = 2 /\ <<a, b>>[1] = a /\ <<a, b>>[2] = b
    OBVIOUS
<1> HIDE DEF s, t, S
<1>3. s \o t \in Seq(S) /\ Len(s \o t) = 2 /\ (s \o t)[1] = a /\ (s \o t)[2] = b
    BY <1>1, ConcatProperties
<1>4. \A i \in 1 .. 2 : (s \o t)[i] = <<a, b>>[i]
    BY <1>2, <1>3
<1>5. s \o t = <<a, b>>
    BY <1>2, <1>3, <1>4, SeqEqual
<1>6. QED
    BY <1>5 DEF s, t

\* Sequences of at most two elements, spelt out.
LEMMA Few ==
    ASSUME NEW a, NEW b
    PROVE  /\ <<>> \o <<>> = <<>> /\ <<>> \o <<a>> = <<a>> /\ <<a>> \o <<>> = <<a>>
           /\ <<a>> \o <<b>> = <<a, b>>
           /\ Head(<<a>>) = a /\ Tail(<<a>>) = <<>>
           /\ Head(<<a, b>>) = a /\ Tail(<<a, b>>) = <<b>>
<1>1. /\ <<>> \o <<>> = <<>> /\ <<>> \o <<a>> = <<a>> /\ <<a>> \o <<>> = <<a>>
      /\ Head(<<a>>) = a /\ Tail(<<a>>) = <<>>
      /\ Head(<<a, b>>) = a /\ Tail(<<a, b>>) = <<b>>
    OBVIOUS
<1>2. QED
    BY <1>1, Pair

-----------------------------------------------------------------------------
(* Messages among others.                                                  *)

\* Nothing of the script is among what is of S only.
LEMMA HoldsNone ==
    ASSUME NEW q, NEW S PROVE Holds(q, <<>>, S) <=> q \in Seq(S)
<1>1. ASSUME NEW a \in Seq(S), NEW b \in Seq(S) PROVE a \o <<>> \o b = a \o b
    BY ConcatEmptySeq
<1>2. ASSUME q \in Seq(S) PROVE q = q \o <<>> \o <<>>
    BY <1>2, ConcatEmptySeq
<1>3. ASSUME NEW a \in Seq(S), NEW b \in Seq(S) PROVE a \o b \in Seq(S)
    BY ConcatProperties
<1>4. <<>> \in Seq(S)
    OBVIOUS
<1>5. Holds(q, <<>>, S) => q \in Seq(S)
    BY <1>1, <1>3 DEF Holds
<1>6. ASSUME q \in Seq(S) PROVE Holds(q, <<>>, S)
  <2>1. \E b \in Seq(S) : q = q \o <<>> \o b
      BY <1>2, <1>4, <1>6
  <2>2. QED
      BY <1>6, <2>1 DEF Holds
<1>7. QED
    BY <1>5, <1>6

\* Written where nothing of the script is, a message is among the rest.
LEMMA HoldsWritten ==
    ASSUME NEW S, NEW T, NEW q \in Seq(S), NEW w \in Seq(T) PROVE Holds(q \o w, w, S)
<1>1. q \in Seq(S \cup T) /\ w \in Seq(S \cup T)
    BY SeqMonotonic
<1>2. q \o w \o <<>> = q \o w
    BY <1>1, ConcatProperties, ConcatEmptySeq
<1>3. <<>> \in Seq(S)
    OBVIOUS
<1>4. \E b \in Seq(S) : q \o w = q \o w \o b
    BY <1>2, <1>3
<1>5. QED
    BY <1>4 DEF Holds

\* What is written after it leaves it there.
LEMMA HoldsMore ==
    ASSUME NEW S, NEW T, NEW q, NEW w \in Seq(T), NEW e \in Seq(S), Holds(q, w, S)
    PROVE  Holds(q \o e, w, S)
<1>1. PICK a \in Seq(S), b \in Seq(S) : q = a \o w \o b
    BY DEF Holds
<1>2. PICK U : U = S \cup T
    OBVIOUS
<1>3. a \in Seq(U) /\ w \in Seq(U) /\ b \in Seq(U) /\ e \in Seq(U)
    BY <1>2, SeqMonotonic
<1>4. PICK aw : aw = a \o w
    OBVIOUS
<1>5. aw \in Seq(U)
    BY <1>3, <1>4, ConcatProperties
<1>6. (aw \o b) \o e = aw \o (b \o e)
    BY <1>3, <1>5, ConcatAssociative
<1>7. b \o e \in Seq(S)
    BY ConcatProperties
<1>8. q \o e = a \o w \o (b \o e)
    BY <1>1, <1>4, <1>6
<1>9. QED
    BY <1>7, <1>8 DEF Holds

\* The first message is one of S, or the first of the script's.
LEMMA HoldsHead ==
    ASSUME NEW S, NEW T, NEW q, NEW w \in Seq(T), Holds(q, w, S), q # <<>>
    PROVE  \/ Head(q) \in S /\ Holds(Tail(q), w, S)
           \/ w # <<>> /\ Head(q) = Head(w) /\ Holds(Tail(q), Tail(w), S)
<1>1. PICK a \in Seq(S), b \in Seq(S) : q = a \o w \o b
    BY DEF Holds
<1>2. a \in Seq(S \cup T) /\ w \in Seq(S \cup T) /\ b \in Seq(S \cup T)
    BY SeqMonotonic
<1>3. CASE a # <<>>
  <2>1. a \o w \in Seq(S \cup T) /\ a \o w # <<>> /\ Head(a \o w) = Head(a)
        /\ Tail(a \o w) = Tail(a) \o w
      BY <1>2, <1>3
  <2>2. Head(q) = Head(a) /\ Tail(q) = Tail(a) \o w \o b
      BY <1>1, <1>2, <2>1
  <2>3. Head(a) \in S /\ Tail(a) \in Seq(S)
      BY <1>3, HeadTailProperties
  <2>4. QED
      BY <2>2, <2>3 DEF Holds
<1>4. CASE a = <<>> /\ w # <<>>
  <2>1. a \o w = w
      BY <1>2, <1>4, ConcatEmptySeq
  <2>2. Head(q) = Head(w) /\ Tail(q) = Tail(w) \o b
      BY <1>1, <1>2, <1>4, <2>1
  <2>3. Tail(w) \in Seq(T)
      BY <1>4, HeadTailProperties
  <2>4. <<>> \o Tail(w) = Tail(w) /\ <<>> \in Seq(S)
      BY <2>3, ConcatEmptySeq
  <2>5. QED
      BY <1>4, <2>2, <2>4 DEF Holds
<1>5. CASE a = <<>> /\ w = <<>>
  <2>1. a \o w \o b = b
      BY <1>2, <1>5, ConcatEmptySeq
  <2>2. Head(q) \in S /\ Tail(q) \in Seq(S)
      BY <1>1, <2>1, HeadTailProperties
  <2>3. QED
      BY <1>5, <2>2, HoldsNone
<1>6. QED
    BY <1>3, <1>4, <1>5
-----------------------------------------------------------------------------
(* The phone.                                                              *)

\* What mock_phone_step does with a message: phone_process, phone_advance.
Taken(p, m) ==
    LET f == Phone!Process(p, m)
        t == Phone!Advance(f.ph)
    IN  [ph |-> t.ph, send |-> f.send \o t.send]

\* A message that can be read is taken.
LEMMA PhoneTakes ==
    ASSUME PhoneStep, toPhone # <<>>, Phone!PhoneReadable(Head(toPhone))
    PROVE  /\ ph' = Taken(ph, Head(toPhone)).ph
           /\ toPhone' = Tail(toPhone)
           /\ toHU' = toHU \o Taken(ph, Head(toPhone)).send
    BY DEF PhoneStep, Phone!MockStep, Taken

\* With nothing to read, a phone in a step that waits does nothing.
LEMMA PhoneWaits ==
    ASSUME PhoneStep, toPhone = <<>>, ph.step \notin {8, 10, 12, 14}, toHU \in Seq(ScriptMsgs)
    PROVE  ph' = ph /\ toPhone' = toPhone /\ toHU' = toHU
<1>1. toHU \o (<<>> \o <<>>) = toHU
    BY ConcatEmptySeq
<1>2. QED
    BY <1>1 DEF PhoneStep, Phone!MockStep, Phone!Stay, Phone!Advance

\* A step taken with a message to send, and a result noted.
LEMMA GoIs ==
    ASSUME NEW p \in PhoneStates, NEW s \in 0 .. 15, NEW x
    PROVE  LET g == Phone!Go(p, s, x)
           IN  /\ g.ph \in PhoneStates /\ g.send = x
               /\ g.ph.step = s /\ g.ph.tls = p.tls
               /\ g.ph.results = p.results /\ g.ph.done = p.done
    BY DEF Phone!Go, PhoneStates
\* To note a result touches the results of the phone and nothing else.
LEMMA GotIs ==
    ASSUME NEW p \in PhoneStates, NEW r \in Results
    PROVE  LET g == Phone!Got(p, r)
           IN  /\ g \in PhoneStates /\ g.results = p.results \cup {r}
               /\ g.step = p.step /\ g.tls = p.tls /\ g.done = p.done
    BY DEF Phone!Got, PhoneStates

\* phone_advance after phone_process: the steps that speak first.
Spoken(s) ==
    CASE s = 8 -> Picture
      [] s = 10 -> Msg(MEDIA_AUDIO, MEDIA_DATA, "plain", 0)
      [] s = 12 -> Msg(INPUT, BINDING_REQUEST, "sealed", 0)
      [] OTHER -> Msg(CONTROL, PING_REQUEST, "plain", 42)
\* Outside the four steps the phone speaks in unasked, phone_advance adds
\* nothing.
LEMMA TakenWaits ==
    ASSUME NEW p, NEW m, NEW f, Phone!Process(p, m) = f, f.ph.step \notin {8, 10, 12, 14}
    PROVE  Taken(p, m).ph = f.ph /\ Taken(p, m).send = f.send \o <<>>
    BY DEF Taken, Phone!Advance, Phone!Stay
\* In those four steps phone_advance sends the scripted message and goes to the
\* next step.
LEMMA TakenSpeaks ==
    ASSUME NEW p, NEW m, NEW s \in {8, 10, 12, 14}, Phone!Process(p, m).ph.step = s
    PROVE  /\ Taken(p, m).ph = Phone!Go(Phone!Process(p, m).ph, s + 1, <<>>).ph
           /\ Taken(p, m).send = Phone!Process(p, m).send \o <<Spoken(s)>>
<1>1. PICK d : d = Phone!Process(p, m).ph
    OBVIOUS
<1>2. /\ Taken(p, m).ph = Phone!Advance(d).ph
      /\ Taken(p, m).send = Phone!Process(p, m).send \o Phone!Advance(d).send
    BY <1>1 DEF Taken
<1>3. Phone!Advance(d) = Phone!Go(d, s + 1, <<Spoken(s)>>)
  <2>1. CASE s = 8
      BY <1>1, <2>1, PhoneSends DEF Phone!Advance, Spoken, Picture
  <2>2. CASE s = 10
      BY <1>1, <2>2, PhoneSends DEF Phone!Advance, Spoken
  <2>3. CASE s = 12
      BY <1>1, <2>3, PhoneSends, LargeIds DEF Phone!Advance, Spoken
  <2>4. CASE s = 14
      BY <1>1, <2>4, PhoneSends DEF Phone!Advance, Spoken
  <2>5. QED
      BY <2>1, <2>2, <2>3, <2>4
<1>4. /\ Phone!Advance(d).ph = Phone!Go(d, s + 1, <<>>).ph
      /\ Phone!Advance(d).send = <<Spoken(s)>>
    BY <1>3 DEF Phone!Go
<1>5. QED
    BY <1>1, <1>2, <1>4

\* No step of the script takes notice of an input event.
LEMMA InputIgnored ==
    ASSUME NEW p \in PhoneStates, NEW k \in 0 .. 28, PhoneAt(p, k), NEW m \in InputEvents
    PROVE  Taken(p, m).ph = p /\ Taken(p, m).send = <<>>
<1>1. /\ m.mid = INPUT_EVENT_INDICATION /\ m.mid > 100 /\ m.ch = 3
      /\ m.mid \notin {SETUP_RESPONSE, VIDEO_FOCUS_INDICATION, AV_MEDIA_ACK_INDICATION,
                    BINDING_RESPONSE}
    BY LargeIds, Differ DEF InputEvents
<1>2. p.step \notin {8, 10, 12, 14}
    BY DEF PhoneAt, StepAt
<1>3. ASSUME p.step = 7 PROVE Phone!Setup(p, m) = [ph |-> p, send |-> <<>>]
  <2>1. k \in 16 .. 18
      BY <1>3 DEF PhoneAt, StepAt
  <2>2. "focus" \notin p.results
      BY <2>1 DEF PhoneAt, Known
  <2>3. p.results \cup {} \cup {} = p.results
      OBVIOUS
  <2>4. [p EXCEPT !.results = p.results] = p
      BY DEF PhoneStates
  <2>5. QED
      BY <1>1, <2>2, <2>3, <2>4, LargeIds DEF Phone!Setup, Phone!Stay
<1>4. Phone!Process(p, m) = [ph |-> p, send |-> <<>>]
    BY <1>1, <1>3, LargeIds DEF Phone!Process, Phone!Is, Phone!Stay
<1>5. <<>> \o <<>> = <<>>
    OBVIOUS
<1>6. PICK f : f = Phone!Process(p, m)
    OBVIOUS
<1>7. f.ph = p /\ f.send = <<>>
    BY <1>4, <1>6
<1>8. QED
    BY <1>2, <1>5, <1>6, <1>7, TakenWaits

\* The message the script waits for takes the phone to the next place.
Moves(p, k) ==
    LET r == Taken(p, Head(Answered(k)))
    IN  /\ r.ph \in PhoneStates /\ PhoneAt(r.ph, k + 1)
        /\ Asked(k) \o r.send = Asked(k + 1)
        /\ Answered(k + 1) = Tail(Answered(k))
\* At each place where the head unit has answered, the phone takes exactly the
\* scripted step.
LEMMA ScriptMoves ==
    ASSUME NEW p \in PhoneStates, NEW k \in 0 .. 28, Answered(k) # <<>>, PhoneAt(p, k)
    PROVE  Moves(p, k)
<1>1. k \in {1, 3, 5, 7, 9, 11, 13, 15, 17, 18, 21, 23, 25, 27}
    BY DEF Answered
<1>2. CASE k = 1
  <2>1. PICK m : m = Msg(CONTROL, VERSION_REQUEST, "plain", 0)
      OBVIOUS
  <2>2. m.ch = CONTROL /\ m.mid = VERSION_REQUEST /\ m.val = 0
      BY <2>1, SameMsg
  <2>3. p.step = 0 /\ p.tls = "start" /\ ~p.done
      BY <1>2 DEF PhoneAt, StepAt, PhoneTlsAt
  <2>4. Head(Answered(1)) = m /\ Tail(Answered(1)) = Answered(2)
      BY <2>1, Few DEF Answered
  <2>5. Known(p.results, 1)
      BY <1>2 DEF PhoneAt
  <2>6. PICK g : g = Phone!Go(p, 1, Phone!Clear(CONTROL, VERSION_RESPONSE, MATCH))
      OBVIOUS
  <2>7. Phone!Process(p, m) = g
      BY <2>2, <2>3, <2>6, LargeIds
      DEF Phone!Process, Phone!Is
  <2>8. /\ g.ph \in PhoneStates /\ g.ph.step = 1 /\ g.ph.tls = "start" /\ ~g.ph.done
        /\ g.ph.results = p.results
        /\ g.send = <<Msg(CONTROL, VERSION_RESPONSE, "plain", MATCH)>>
      BY <2>3, <2>6, PhoneSends, GoIs
  <2>9. PICK r : r = Taken(p, m)
      OBVIOUS
  <2>10. /\ r.ph \in PhoneStates /\ r.ph.step = 1 /\ r.ph.tls = g.ph.tls
        /\ r.ph.done = g.ph.done /\ r.ph.results = g.ph.results
        /\ r.send = <<Msg(CONTROL, VERSION_RESPONSE, "plain", MATCH)>> \o <<>>
    <3>1. g.ph.step = 1
        BY <2>8
    <3>2. r.ph = g.ph /\ r.send = g.send \o <<>>
        BY <2>7, <2>9, <3>1, TakenWaits
    <3>3. QED
        BY <2>8, <3>2
  <2>11. Known(p.results, 2)
      BY <2>5 DEF Known
  <2>12. PhoneAt(r.ph, 2)
      BY <2>8, <2>10, <2>11 DEF PhoneAt, StepAt, PhoneTlsAt
  <2>13. Asked(1) \o (<<Msg(CONTROL, VERSION_RESPONSE, "plain", MATCH)>> \o <<>>)
           = Asked(2)
      BY Few DEF Asked
  <2>14. k + 1 = 2 /\ Asked(1) \o r.send = Asked(2)
      BY <1>2, <2>10, <2>13
  <2>15. QED
      BY <1>2, <2>4, <2>9, <2>10, <2>12, <2>14 DEF Moves
<1>3. CASE k = 3
  <2>1. PICK m : m = Msg(CONTROL, SSL_HANDSHAKE, "plain", ClientHello)
      OBVIOUS
  <2>2. m.ch = CONTROL /\ m.mid = SSL_HANDSHAKE /\ m.val = ClientHello
      BY <2>1, SameMsg
  <2>3. p.step = 1 /\ p.tls = "start" /\ ~p.done
      BY <1>3 DEF PhoneAt, StepAt, PhoneTlsAt
  <2>4. Head(Answered(3)) = m /\ Tail(Answered(3)) = Answered(4)
      BY <2>1, Few DEF Answered
  <2>5. Known(p.results, 3)
      BY <1>3 DEF PhoneAt
  <2>6. PICK g : g =
        [ph |-> [p EXCEPT !.tls = "hello"],
         send |-> Phone!Clear(CONTROL, SSL_HANDSHAKE, ServerHello)]
      OBVIOUS
  <2>7. Phone!Process(p, m) = g
      BY <2>2, <2>3, <2>6, LargeIds
      DEF Phone!Process, Phone!Is, Phone!Server
  <2>8. /\ g.ph \in PhoneStates /\ g.ph.step = 1 /\ g.ph.tls = "hello" /\ ~g.ph.done
        /\ g.ph.results = p.results
        /\ g.send = <<Msg(CONTROL, SSL_HANDSHAKE, "plain", ServerHello)>>
      BY <2>3, <2>6, PhoneSends DEF PhoneStates
  <2>9. PICK r : r = Taken(p, m)
      OBVIOUS
  <2>10. /\ r.ph \in PhoneStates /\ r.ph.step = 1 /\ r.ph.tls = g.ph.tls
        /\ r.ph.done = g.ph.done /\ r.ph.results = g.ph.results
        /\ r.send = <<Msg(CONTROL, SSL_HANDSHAKE, "plain", ServerHello)>> \o <<>>
    <3>1. g.ph.step = 1
        BY <2>8
    <3>2. r.ph = g.ph /\ r.send = g.send \o <<>>
        BY <2>7, <2>9, <3>1, TakenWaits
    <3>3. QED
        BY <2>8, <3>2
  <2>11. Known(p.results, 4)
      BY <2>5 DEF Known
  <2>12. PhoneAt(r.ph, 4)
      BY <2>8, <2>10, <2>11 DEF PhoneAt, StepAt, PhoneTlsAt
  <2>13. Asked(3) \o (<<Msg(CONTROL, SSL_HANDSHAKE, "plain", ServerHello)>> \o <<>>)
           = Asked(4)
      BY Few DEF Asked
  <2>14. k + 1 = 4 /\ Asked(3) \o r.send = Asked(4)
      BY <1>3, <2>10, <2>13
  <2>15. QED
      BY <1>3, <2>4, <2>9, <2>10, <2>12, <2>14 DEF Moves
<1>4. CASE k = 5
  <2>1. PICK m : m = Msg(CONTROL, SSL_HANDSHAKE, "plain", ClientFinished)
      OBVIOUS
  <2>2. m.ch = CONTROL /\ m.mid = SSL_HANDSHAKE /\ m.val = ClientFinished
      BY <2>1, SameMsg
  <2>3. p.step = 1 /\ p.tls = "hello" /\ ~p.done
      BY <1>4 DEF PhoneAt, StepAt, PhoneTlsAt
  <2>4. Head(Answered(5)) = m /\ Tail(Answered(5)) = Answered(6)
      BY <2>1, Few DEF Answered
  <2>5. Known(p.results, 5)
      BY <1>4 DEF PhoneAt
  <2>6. PICK x : x = [p EXCEPT !.tls = "done"]
      OBVIOUS
  <2>7. /\ x \in PhoneStates
        /\ x.tls = "done"
        /\ x.results = p.results
        /\ x.done = p.done
      BY <2>6 DEF PhoneStates
  <2>8. PICK g : g =
        Phone!Go(x, 2, Phone!Clear(CONTROL, SSL_HANDSHAKE, ServerFinished))
      OBVIOUS
  <2>9. Phone!Process(p, m) = g
      BY <2>2, <2>3, <2>6, <2>8, LargeIds
      DEF Phone!Process, Phone!Is, Phone!Server
  <2>10. /\ g.ph \in PhoneStates /\ g.ph.step = 2 /\ g.ph.tls = "done" /\ ~g.ph.done
        /\ g.ph.results = p.results
        /\ g.send = <<Msg(CONTROL, SSL_HANDSHAKE, "plain", ServerFinished)>>
      BY <2>3, <2>8, PhoneSends, <2>7, GoIs
  <2>11. PICK r : r = Taken(p, m)
      OBVIOUS
  <2>12. /\ r.ph \in PhoneStates /\ r.ph.step = 2 /\ r.ph.tls = g.ph.tls
        /\ r.ph.done = g.ph.done /\ r.ph.results = g.ph.results
        /\ r.send = <<Msg(CONTROL, SSL_HANDSHAKE, "plain", ServerFinished)>> \o <<>>
    <3>1. g.ph.step = 2
        BY <2>10
    <3>2. r.ph = g.ph /\ r.send = g.send \o <<>>
        BY <2>9, <2>11, <3>1, TakenWaits
    <3>3. QED
        BY <2>10, <3>2
  <2>13. Known(p.results, 6)
      BY <2>5 DEF Known
  <2>14. PhoneAt(r.ph, 6)
      BY <2>10, <2>12, <2>13 DEF PhoneAt, StepAt, PhoneTlsAt
  <2>15. Asked(5) \o (<<Msg(CONTROL, SSL_HANDSHAKE, "plain", ServerFinished)>> \o <<>>)
           = Asked(6)
      BY Few DEF Asked
  <2>16. k + 1 = 6 /\ Asked(5) \o r.send = Asked(6)
      BY <1>4, <2>12, <2>15
  <2>17. QED
      BY <1>4, <2>4, <2>11, <2>12, <2>14, <2>16 DEF Moves
<1>5. CASE k = 7
  <2>1. PICK m : m = Msg(CONTROL, AUTH_COMPLETE, "plain", 0)
      OBVIOUS
  <2>2. m.ch = CONTROL /\ m.mid = AUTH_COMPLETE /\ m.val = 0
      BY <2>1, SameMsg
  <2>3. p.step = 2 /\ p.tls = "done" /\ ~p.done
      BY <1>5 DEF PhoneAt, StepAt, PhoneTlsAt
  <2>4. Head(Answered(7)) = m /\ Tail(Answered(7)) = Answered(8)
      BY <2>1, Few DEF Answered
  <2>5. Known(p.results, 7)
      BY <1>5 DEF PhoneAt
  <2>6. PICK g : g =
        Phone!Go(p, 3, Phone!Seal(CONTROL, SERVICE_DISCOVERY_REQUEST, 0))
      OBVIOUS
  <2>7. Phone!Process(p, m) = g
      BY <2>2, <2>3, <2>6, LargeIds
      DEF Phone!Process, Phone!Is
  <2>8. /\ g.ph \in PhoneStates /\ g.ph.step = 3 /\ g.ph.tls = "done" /\ ~g.ph.done
        /\ g.ph.results = p.results
        /\ g.send = <<Msg(CONTROL, SERVICE_DISCOVERY_REQUEST, "sealed", 0)>>
      BY <2>3, <2>6, PhoneSends, GoIs
  <2>9. PICK r : r = Taken(p, m)
      OBVIOUS
  <2>10. /\ r.ph \in PhoneStates /\ r.ph.step = 3 /\ r.ph.tls = g.ph.tls
        /\ r.ph.done = g.ph.done /\ r.ph.results = g.ph.results
        /\ r.send = <<Msg(CONTROL, SERVICE_DISCOVERY_REQUEST, "sealed", 0)>> \o <<>>
    <3>1. g.ph.step = 3
        BY <2>8
    <3>2. r.ph = g.ph /\ r.send = g.send \o <<>>
        BY <2>7, <2>9, <3>1, TakenWaits
    <3>3. QED
        BY <2>8, <3>2
  <2>11. Known(p.results, 8)
      BY <2>5 DEF Known
  <2>12. PhoneAt(r.ph, 8)
      BY <2>8, <2>10, <2>11 DEF PhoneAt, StepAt, PhoneTlsAt
  <2>13. Asked(7) \o (<<Msg(CONTROL, SERVICE_DISCOVERY_REQUEST, "sealed", 0)>> \o <<>>)
           = Asked(8)
      BY Few DEF Asked
  <2>14. k + 1 = 8 /\ Asked(7) \o r.send = Asked(8)
      BY <1>5, <2>10, <2>13
  <2>15. QED
      BY <1>5, <2>4, <2>9, <2>10, <2>12, <2>14 DEF Moves
<1>6. CASE k = 9
  <2>1. PICK m : m = Msg(CONTROL, SERVICE_DISCOVERY_RESPONSE, "sealed", 0)
      OBVIOUS
  <2>2. m.ch = CONTROL /\ m.mid = SERVICE_DISCOVERY_RESPONSE /\ m.val = 0
      BY <2>1, SameMsg
  <2>3. p.step = 3 /\ p.tls = "done" /\ ~p.done
      BY <1>6 DEF PhoneAt, StepAt, PhoneTlsAt
  <2>4. Head(Answered(9)) = m /\ Tail(Answered(9)) = Answered(10)
      BY <2>1, Few DEF Answered
  <2>5. Known(p.results, 9)
      BY <1>6 DEF PhoneAt
  <2>6. PICK g : g = Phone!Go(p, 4, Phone!Seal(VIDEO, CHANNEL_OPEN_REQUEST, 0))
      OBVIOUS
  <2>7. Phone!Process(p, m) = g
      BY <2>2, <2>3, <2>6, LargeIds
      DEF Phone!Process, Phone!Is
  <2>8. /\ g.ph \in PhoneStates /\ g.ph.step = 4 /\ g.ph.tls = "done" /\ ~g.ph.done
        /\ g.ph.results = p.results
        /\ g.send = <<Msg(VIDEO, CHANNEL_OPEN_REQUEST, "sealed", 0)>>
      BY <2>3, <2>6, PhoneSends, GoIs
  <2>9. PICK r : r = Taken(p, m)
      OBVIOUS
  <2>10. /\ r.ph \in PhoneStates /\ r.ph.step = 4 /\ r.ph.tls = g.ph.tls
        /\ r.ph.done = g.ph.done /\ r.ph.results = g.ph.results
        /\ r.send = <<Msg(VIDEO, CHANNEL_OPEN_REQUEST, "sealed", 0)>> \o <<>>
    <3>1. g.ph.step = 4
        BY <2>8
    <3>2. r.ph = g.ph /\ r.send = g.send \o <<>>
        BY <2>7, <2>9, <3>1, TakenWaits
    <3>3. QED
        BY <2>8, <3>2
  <2>11. Known(p.results, 10)
      BY <2>5 DEF Known
  <2>12. PhoneAt(r.ph, 10)
      BY <2>8, <2>10, <2>11 DEF PhoneAt, StepAt, PhoneTlsAt
  <2>13. Asked(9) \o (<<Msg(VIDEO, CHANNEL_OPEN_REQUEST, "sealed", 0)>> \o <<>>)
           = Asked(10)
      BY Few DEF Asked
  <2>14. k + 1 = 10 /\ Asked(9) \o r.send = Asked(10)
      BY <1>6, <2>10, <2>13
  <2>15. QED
      BY <1>6, <2>4, <2>9, <2>10, <2>12, <2>14 DEF Moves
<1>7. CASE k = 11
  <2>1. PICK m : m = Msg(VIDEO, CHANNEL_OPEN_RESPONSE, "sealed", 0)
      OBVIOUS
  <2>2. m.ch = VIDEO /\ m.mid = CHANNEL_OPEN_RESPONSE /\ m.val = 0
      BY <2>1, SameMsg
  <2>3. p.step = 4 /\ p.tls = "done" /\ ~p.done
      BY <1>7 DEF PhoneAt, StepAt, PhoneTlsAt
  <2>4. Head(Answered(11)) = m /\ Tail(Answered(11)) = Answered(12)
      BY <2>1, Few DEF Answered
  <2>5. Known(p.results, 11)
      BY <1>7 DEF PhoneAt
  <2>6. PICK g : g =
        Phone!Go(Phone!Got(p, "video_open"), 5, Phone!Seal(INPUT, CHANNEL_OPEN_REQUEST, 0))
      OBVIOUS
  <2>7. Phone!Process(p, m) = g
      BY <2>2, <2>3, <2>6, LargeIds
      DEF Phone!Process, Phone!Is
  <2>8. /\ g.ph \in PhoneStates /\ g.ph.step = 5 /\ g.ph.tls = "done" /\ ~g.ph.done
        /\ g.ph.results = p.results \cup {"video_open"}
        /\ g.send = <<Msg(INPUT, CHANNEL_OPEN_REQUEST, "sealed", 0)>>
      BY <2>3, <2>6, PhoneSends, GoIs, GotIs DEF Results
  <2>9. PICK r : r = Taken(p, m)
      OBVIOUS
  <2>10. /\ r.ph \in PhoneStates /\ r.ph.step = 5 /\ r.ph.tls = g.ph.tls
        /\ r.ph.done = g.ph.done /\ r.ph.results = g.ph.results
        /\ r.send = <<Msg(INPUT, CHANNEL_OPEN_REQUEST, "sealed", 0)>> \o <<>>
    <3>1. g.ph.step = 5
        BY <2>8
    <3>2. r.ph = g.ph /\ r.send = g.send \o <<>>
        BY <2>7, <2>9, <3>1, TakenWaits
    <3>3. QED
        BY <2>8, <3>2
  <2>11. Known(p.results \cup {"video_open"}, 12)
      BY <2>5 DEF Known
  <2>12. PhoneAt(r.ph, 12)
      BY <2>8, <2>10, <2>11 DEF PhoneAt, StepAt, PhoneTlsAt
  <2>13. Asked(11) \o (<<Msg(INPUT, CHANNEL_OPEN_REQUEST, "sealed", 0)>> \o <<>>)
           = Asked(12)
      BY Few DEF Asked
  <2>14. k + 1 = 12 /\ Asked(11) \o r.send = Asked(12)
      BY <1>7, <2>10, <2>13
  <2>15. QED
      BY <1>7, <2>4, <2>9, <2>10, <2>12, <2>14 DEF Moves
<1>8. CASE k = 13
  <2>1. PICK m : m = Msg(INPUT, CHANNEL_OPEN_RESPONSE, "sealed", 0)
      OBVIOUS
  <2>2. m.ch = INPUT /\ m.mid = CHANNEL_OPEN_RESPONSE /\ m.val = 0
      BY <2>1, SameMsg
  <2>3. p.step = 5 /\ p.tls = "done" /\ ~p.done
      BY <1>8 DEF PhoneAt, StepAt, PhoneTlsAt
  <2>4. Head(Answered(13)) = m /\ Tail(Answered(13)) = Answered(14)
      BY <2>1, Few DEF Answered
  <2>5. Known(p.results, 13)
      BY <1>8 DEF PhoneAt
  <2>6. PICK g : g =
        Phone!Go(Phone!Got(p, "input_open"), 6, Phone!Seal(MEDIA_AUDIO, CHANNEL_OPEN_REQUEST, 0))
      OBVIOUS
  <2>7. Phone!Process(p, m) = g
      BY <2>2, <2>3, <2>6, LargeIds
      DEF Phone!Process, Phone!Is
  <2>8. /\ g.ph \in PhoneStates /\ g.ph.step = 6 /\ g.ph.tls = "done" /\ ~g.ph.done
        /\ g.ph.results = p.results \cup {"input_open"}
        /\ g.send = <<Msg(MEDIA_AUDIO, CHANNEL_OPEN_REQUEST, "sealed", 0)>>
      BY <2>3, <2>6, PhoneSends, GoIs, GotIs DEF Results
  <2>9. PICK r : r = Taken(p, m)
      OBVIOUS
  <2>10. /\ r.ph \in PhoneStates /\ r.ph.step = 6 /\ r.ph.tls = g.ph.tls
        /\ r.ph.done = g.ph.done /\ r.ph.results = g.ph.results
        /\ r.send = <<Msg(MEDIA_AUDIO, CHANNEL_OPEN_REQUEST, "sealed", 0)>> \o <<>>
    <3>1. g.ph.step = 6
        BY <2>8
    <3>2. r.ph = g.ph /\ r.send = g.send \o <<>>
        BY <2>7, <2>9, <3>1, TakenWaits
    <3>3. QED
        BY <2>8, <3>2
  <2>11. Known(p.results \cup {"input_open"}, 14)
      BY <2>5 DEF Known
  <2>12. PhoneAt(r.ph, 14)
      BY <2>8, <2>10, <2>11 DEF PhoneAt, StepAt, PhoneTlsAt
  <2>13. Asked(13) \o (<<Msg(MEDIA_AUDIO, CHANNEL_OPEN_REQUEST, "sealed", 0)>> \o <<>>)
           = Asked(14)
      BY Few DEF Asked
  <2>14. k + 1 = 14 /\ Asked(13) \o r.send = Asked(14)
      BY <1>8, <2>10, <2>13
  <2>15. QED
      BY <1>8, <2>4, <2>9, <2>10, <2>12, <2>14 DEF Moves
<1>9. CASE k = 15
  <2>1. PICK m : m = Msg(MEDIA_AUDIO, CHANNEL_OPEN_RESPONSE, "sealed", 0)
      OBVIOUS
  <2>2. m.ch = MEDIA_AUDIO /\ m.mid = CHANNEL_OPEN_RESPONSE /\ m.val = 0
      BY <2>1, SameMsg
  <2>3. p.step = 6 /\ p.tls = "done" /\ ~p.done
      BY <1>9 DEF PhoneAt, StepAt, PhoneTlsAt
  <2>4. Head(Answered(15)) = m /\ Tail(Answered(15)) = Answered(16)
      BY <2>1, Few DEF Answered
  <2>5. Known(p.results, 15)
      BY <1>9 DEF PhoneAt
  <2>6. PICK g : g =
        Phone!Go(Phone!Got(p, "audio_open"), 7, Phone!Seal(VIDEO, SETUP_REQUEST, 0))
      OBVIOUS
  <2>7. Phone!Process(p, m) = g
      BY <2>2, <2>3, <2>6, LargeIds
      DEF Phone!Process, Phone!Is
  <2>8. /\ g.ph \in PhoneStates /\ g.ph.step = 7 /\ g.ph.tls = "done" /\ ~g.ph.done
        /\ g.ph.results = p.results \cup {"audio_open"}
        /\ g.send = <<Msg(VIDEO, SETUP_REQUEST, "sealed", 0)>>
      BY <2>3, <2>6, PhoneSends, GoIs, GotIs DEF Results
  <2>9. PICK r : r = Taken(p, m)
      OBVIOUS
  <2>10. /\ r.ph \in PhoneStates /\ r.ph.step = 7 /\ r.ph.tls = g.ph.tls
        /\ r.ph.done = g.ph.done /\ r.ph.results = g.ph.results
        /\ r.send = <<Msg(VIDEO, SETUP_REQUEST, "sealed", 0)>> \o <<>>
    <3>1. g.ph.step = 7
        BY <2>8
    <3>2. r.ph = g.ph /\ r.send = g.send \o <<>>
        BY <2>7, <2>9, <3>1, TakenWaits
    <3>3. QED
        BY <2>8, <3>2
  <2>11. Known(p.results \cup {"audio_open"}, 16)
      BY <2>5 DEF Known
  <2>12. PhoneAt(r.ph, 16)
      BY <2>8, <2>10, <2>11 DEF PhoneAt, StepAt, PhoneTlsAt
  <2>13. Asked(15) \o (<<Msg(VIDEO, SETUP_REQUEST, "sealed", 0)>> \o <<>>)
           = Asked(16)
      BY Few DEF Asked
  <2>14. k + 1 = 16 /\ Asked(15) \o r.send = Asked(16)
      BY <1>9, <2>10, <2>13
  <2>15. QED
      BY <1>9, <2>4, <2>9, <2>10, <2>12, <2>14 DEF Moves
<1>10. CASE k = 17
  <2>1. PICK m : m = Msg(VIDEO, SETUP_RESPONSE, "sealed", 0)
      OBVIOUS
  <2>2. m.ch = VIDEO /\ m.mid = SETUP_RESPONSE /\ m.val = 0
      BY <2>1, SameMsg
  <2>3. p.step = 7 /\ p.tls = "done" /\ ~p.done
      BY <1>10 DEF PhoneAt, StepAt, PhoneTlsAt
  <2>4. Head(Answered(17)) = m /\ Tail(Answered(17)) = Answered(18)
      BY <2>1, Few DEF Answered
  <2>5. Known(p.results, 17)
      BY <1>10 DEF PhoneAt
  <2>6. Phone!Setup(p, m) = [ph |-> Phone!Got(p, "setup"), send |-> <<>>]
    <3>1. p.results \cup {"setup"} \cup {} = p.results \cup {"setup"}
        OBVIOUS
    <3>2. "focus" \notin p.results \cup {"setup"}
        BY <2>5 DEF Known
    <3>3. Phone!Got(p, "setup") =
              [p EXCEPT !.results = p.results
                  \cup (IF m.mid = Phone!SETUP_RESPONSE THEN {"setup"} ELSE {})
                  \cup (IF m.mid = Phone!VIDEO_FOCUS_INDICATION THEN {"focus"} ELSE {})]
        BY <2>2, <3>1, LargeIds, Differ DEF Phone!Got
    <3>4. Phone!Got(p, "setup").results = p.results \cup {"setup"}
        BY GotIs DEF Results
    <3>5. QED
        BY <3>2, <3>3, <3>4, LargeIds DEF Phone!Setup, Phone!Stay
  <2>7. PICK g : g = [ph |-> Phone!Got(p, "setup"), send |-> <<>>]
      OBVIOUS
  <2>8. Phone!Process(p, m) = g
      BY <2>2, <2>3, <2>6, <2>7, LargeIds
      DEF Phone!Process, Phone!Is
  <2>9. /\ g.ph \in PhoneStates /\ g.ph.step = 7 /\ g.ph.tls = "done" /\ ~g.ph.done
        /\ g.ph.results = p.results \cup {"setup"} /\ g.send = <<>>
      BY <2>3, <2>7, GotIs DEF Results
  <2>10. PICK r : r = Taken(p, m)
      OBVIOUS
  <2>11. /\ r.ph \in PhoneStates /\ r.ph.step = 7 /\ r.ph.tls = g.ph.tls
        /\ r.ph.done = g.ph.done /\ r.ph.results = g.ph.results
        /\ r.send = <<>> \o <<>>
    <3>1. g.ph.step = 7
        BY <2>9
    <3>2. r.ph = g.ph /\ r.send = g.send \o <<>>
        BY <2>8, <2>10, <3>1, TakenWaits
    <3>3. QED
        BY <2>9, <3>2
  <2>12. Known(p.results \cup {"setup"}, 18)
      BY <2>5 DEF Known
  <2>13. PhoneAt(r.ph, 18)
      BY <2>9, <2>11, <2>12 DEF PhoneAt, StepAt, PhoneTlsAt
  <2>14. Asked(17) \o (<<>> \o <<>>) = Asked(18)
      BY Few DEF Asked
  <2>15. k + 1 = 18 /\ Asked(17) \o r.send = Asked(18)
      BY <1>10, <2>11, <2>14
  <2>16. QED
      BY <1>10, <2>4, <2>10, <2>11, <2>13, <2>15 DEF Moves
<1>11. CASE k = 18
  <2>1. PICK m : m = Focus
      OBVIOUS
  <2>2. m.ch = VIDEO /\ m.mid = VIDEO_FOCUS_INDICATION /\ m.val = 0
      BY <2>1, SameMsg DEF Focus
  <2>3. p.step = 7 /\ p.tls = "done" /\ ~p.done
      BY <1>11 DEF PhoneAt, StepAt, PhoneTlsAt
  <2>4. Head(Answered(18)) = m /\ Tail(Answered(18)) = Answered(19)
      BY <2>1, Few DEF Answered
  <2>5. Known(p.results, 18)
      BY <1>11 DEF PhoneAt
  <2>6. Phone!Setup(p, m) =
          Phone!Go(Phone!Got(p, "focus"), 8, Phone!Seal(VIDEO, START_INDICATION, 1))
    <3>1. p.results \cup {} \cup {"focus"} = p.results \cup {"focus"}
        OBVIOUS
    <3>2. {"setup", "focus"} \subseteq p.results \cup {"focus"}
        BY <2>5 DEF Known
    <3>3. Phone!Got(p, "focus") =
              [p EXCEPT !.results = p.results
                  \cup (IF m.mid = Phone!SETUP_RESPONSE THEN {"setup"} ELSE {})
                  \cup (IF m.mid = Phone!VIDEO_FOCUS_INDICATION THEN {"focus"} ELSE {})]
        BY <2>2, <3>1, LargeIds, Differ DEF Phone!Got
    <3>4. Phone!Got(p, "focus").results = p.results \cup {"focus"}
        BY GotIs DEF Results
    <3>5. QED
        BY <3>2, <3>3, <3>4, LargeIds DEF Phone!Setup, Phone!Stay
  <2>7. PICK g : g =
        Phone!Go(Phone!Got(p, "focus"), 8, Phone!Seal(VIDEO, START_INDICATION, 1))
      OBVIOUS
  <2>8. Phone!Process(p, m) = g
      BY <2>2, <2>3, <2>6, <2>7, LargeIds
      DEF Phone!Process, Phone!Is
  <2>9. /\ g.ph \in PhoneStates /\ g.ph.step = 8 /\ g.ph.tls = "done" /\ ~g.ph.done
        /\ g.ph.results = p.results \cup {"focus"}
        /\ g.send = <<Msg(VIDEO, START_INDICATION, "sealed", 1)>>
      BY <2>3, <2>7, PhoneSends, GoIs, GotIs DEF Results
  <2>10. PICK r : r = Taken(p, m)
      OBVIOUS
  <2>11. /\ r.ph \in PhoneStates /\ r.ph.step = 9 /\ r.ph.tls = g.ph.tls
        /\ r.ph.done = g.ph.done /\ r.ph.results = g.ph.results
        /\ r.send = <<Msg(VIDEO, START_INDICATION, "sealed", 1)>> \o <<Picture>>
    <3>1. g.ph.step = 8
        BY <2>9
    <3>2. r.ph = Phone!Go(g.ph, 9, <<>>).ph /\ r.send = g.send \o <<Picture>>
      <4>1. 8 \in {8, 10, 12, 14} /\ 8 + 1 = 9 /\ Spoken(8) = Picture
          BY DEF Spoken
      <4>2. Phone!Process(p, m).ph.step = 8
          BY <2>8, <3>1
      <4>3. /\ Taken(p, m).ph = Phone!Go(Phone!Process(p, m).ph, 8 + 1, <<>>).ph
            /\ Taken(p, m).send = Phone!Process(p, m).send \o <<Spoken(8)>>
          BY <4>1, <4>2, TakenSpeaks
      <4>4. QED
          BY <2>8, <2>10, <4>1, <4>3
    <3>3. QED
        BY <2>9, <3>2, GoIs
  <2>12. Known(p.results \cup {"focus"}, 19)
      BY <2>5 DEF Known
  <2>13. PhoneAt(r.ph, 19)
      BY <2>9, <2>11, <2>12 DEF PhoneAt, StepAt, PhoneTlsAt
  <2>14. Asked(18) \o (<<Msg(VIDEO, START_INDICATION, "sealed", 1)>> \o <<Picture>>)
           = Asked(19)
      BY Few DEF Asked
  <2>15. k + 1 = 19 /\ Asked(18) \o r.send = Asked(19)
      BY <1>11, <2>11, <2>14
  <2>16. QED
      BY <1>11, <2>4, <2>10, <2>11, <2>13, <2>15 DEF Moves
<1>12. CASE k = 21
  <2>1. PICK m : m = Msg(VIDEO, AV_MEDIA_ACK_INDICATION, "sealed", 1)
      OBVIOUS
  <2>2. m.ch = VIDEO /\ m.mid = AV_MEDIA_ACK_INDICATION /\ m.val = 1
      BY <2>1, SameMsg
  <2>3. p.step = 9 /\ p.tls = "done" /\ ~p.done
      BY <1>12 DEF PhoneAt, StepAt, PhoneTlsAt
  <2>4. Head(Answered(21)) = m /\ Tail(Answered(21)) = Answered(22)
      BY <2>1, Few DEF Answered
  <2>5. Known(p.results, 21)
      BY <1>12 DEF PhoneAt
  <2>6. PICK g : g = Phone!Go(Phone!Got(p, "video_ack"), 10, <<>>)
      OBVIOUS
  <2>7. Phone!Process(p, m) = g
      BY <2>2, <2>3, <2>6, LargeIds
      DEF Phone!Process, Phone!Is
  <2>8. /\ g.ph \in PhoneStates /\ g.ph.step = 10 /\ g.ph.tls = "done" /\ ~g.ph.done
        /\ g.ph.results = p.results \cup {"video_ack"} /\ g.send = <<>>
      BY <2>3, <2>6, PhoneSends, GoIs, GotIs DEF Results
  <2>9. PICK r : r = Taken(p, m)
      OBVIOUS
  <2>10. /\ r.ph \in PhoneStates /\ r.ph.step = 11 /\ r.ph.tls = g.ph.tls
        /\ r.ph.done = g.ph.done /\ r.ph.results = g.ph.results
        /\ r.send = <<>> \o <<Msg(MEDIA_AUDIO, MEDIA_DATA, "plain", 0)>>
    <3>1. g.ph.step = 10
        BY <2>8
    <3>2. /\ r.ph = Phone!Go(g.ph, 11, <<>>).ph
          /\ r.send = g.send \o <<Msg(MEDIA_AUDIO, MEDIA_DATA, "plain", 0)>>
      <4>1. /\ 10 \in {8, 10, 12, 14}
            /\ 10 + 1 = 11
            /\ Spoken(10) = Msg(MEDIA_AUDIO, MEDIA_DATA, "plain", 0)
          BY DEF Spoken
      <4>2. Phone!Process(p, m).ph.step = 10
          BY <2>7, <3>1
      <4>3. /\ Taken(p, m).ph = Phone!Go(Phone!Process(p, m).ph, 10 + 1, <<>>).ph
            /\ Taken(p, m).send = Phone!Process(p, m).send \o <<Spoken(10)>>
          BY <4>1, <4>2, TakenSpeaks
      <4>4. QED
          BY <2>7, <2>9, <4>1, <4>3
    <3>3. QED
        BY <2>8, <3>2, GoIs
  <2>11. Known(p.results \cup {"video_ack"}, 22)
      BY <2>5 DEF Known
  <2>12. PhoneAt(r.ph, 22)
      BY <2>8, <2>10, <2>11 DEF PhoneAt, StepAt, PhoneTlsAt
  <2>13. Asked(21) \o (<<>> \o <<Msg(MEDIA_AUDIO, MEDIA_DATA, "plain", 0)>>)
           = Asked(22)
      BY Few DEF Asked
  <2>14. k + 1 = 22 /\ Asked(21) \o r.send = Asked(22)
      BY <1>12, <2>10, <2>13
  <2>15. QED
      BY <1>12, <2>4, <2>9, <2>10, <2>12, <2>14 DEF Moves
<1>13. CASE k = 23
  <2>1. PICK m : m = Msg(MEDIA_AUDIO, AV_MEDIA_ACK_INDICATION, "sealed", NoSession)
      OBVIOUS
  <2>2. m.ch = MEDIA_AUDIO /\ m.mid = AV_MEDIA_ACK_INDICATION /\ m.val = NoSession
      BY <2>1, SameMsg
  <2>3. p.step = 11 /\ p.tls = "done" /\ ~p.done
      BY <1>13 DEF PhoneAt, StepAt, PhoneTlsAt
  <2>4. Head(Answered(23)) = m /\ Tail(Answered(23)) = Answered(24)
      BY <2>1, Few DEF Answered
  <2>5. Known(p.results, 23)
      BY <1>13 DEF PhoneAt
  <2>6. PICK g : g = Phone!Go(Phone!Got(p, "audio_ack"), 12, <<>>)
      OBVIOUS
  <2>7. Phone!Process(p, m) = g
      BY <2>2, <2>3, <2>6, LargeIds
      DEF Phone!Process, Phone!Is
  <2>8. /\ g.ph \in PhoneStates /\ g.ph.step = 12 /\ g.ph.tls = "done" /\ ~g.ph.done
        /\ g.ph.results = p.results \cup {"audio_ack"} /\ g.send = <<>>
      BY <2>3, <2>6, PhoneSends, GoIs, GotIs DEF Results
  <2>9. PICK r : r = Taken(p, m)
      OBVIOUS
  <2>10. /\ r.ph \in PhoneStates /\ r.ph.step = 13 /\ r.ph.tls = g.ph.tls
        /\ r.ph.done = g.ph.done /\ r.ph.results = g.ph.results
        /\ r.send = <<>> \o <<Msg(INPUT, BINDING_REQUEST, "sealed", 0)>>
    <3>1. g.ph.step = 12
        BY <2>8
    <3>2. /\ r.ph = Phone!Go(g.ph, 13, <<>>).ph
          /\ r.send = g.send \o <<Msg(INPUT, BINDING_REQUEST, "sealed", 0)>>
      <4>1. /\ 12 \in {8, 10, 12, 14}
            /\ 12 + 1 = 13
            /\ Spoken(12) = Msg(INPUT, BINDING_REQUEST, "sealed", 0)
          BY DEF Spoken
      <4>2. Phone!Process(p, m).ph.step = 12
          BY <2>7, <3>1
      <4>3. /\ Taken(p, m).ph = Phone!Go(Phone!Process(p, m).ph, 12 + 1, <<>>).ph
            /\ Taken(p, m).send = Phone!Process(p, m).send \o <<Spoken(12)>>
          BY <4>1, <4>2, TakenSpeaks
      <4>4. QED
          BY <2>7, <2>9, <4>1, <4>3
    <3>3. QED
        BY <2>8, <3>2, GoIs
  <2>11. Known(p.results \cup {"audio_ack"}, 24)
      BY <2>5 DEF Known
  <2>12. PhoneAt(r.ph, 24)
      BY <2>8, <2>10, <2>11 DEF PhoneAt, StepAt, PhoneTlsAt
  <2>13. Asked(23) \o (<<>> \o <<Msg(INPUT, BINDING_REQUEST, "sealed", 0)>>)
           = Asked(24)
      BY Few DEF Asked
  <2>14. k + 1 = 24 /\ Asked(23) \o r.send = Asked(24)
      BY <1>13, <2>10, <2>13
  <2>15. QED
      BY <1>13, <2>4, <2>9, <2>10, <2>12, <2>14 DEF Moves
<1>14. CASE k = 25
  <2>1. PICK m : m = Msg(INPUT, BINDING_RESPONSE, "sealed", 0)
      OBVIOUS
  <2>2. m.ch = INPUT /\ m.mid = BINDING_RESPONSE /\ m.val = 0
      BY <2>1, SameMsg
  <2>3. p.step = 13 /\ p.tls = "done" /\ ~p.done
      BY <1>14 DEF PhoneAt, StepAt, PhoneTlsAt
  <2>4. Head(Answered(25)) = m /\ Tail(Answered(25)) = Answered(26)
      BY <2>1, Few DEF Answered
  <2>5. Known(p.results, 25)
      BY <1>14 DEF PhoneAt
  <2>6. PICK g : g = Phone!Go(Phone!Got(p, "binding"), 14, <<>>)
      OBVIOUS
  <2>7. Phone!Process(p, m) = g
      BY <2>2, <2>3, <2>6, LargeIds
      DEF Phone!Process, Phone!Is
  <2>8. /\ g.ph \in PhoneStates /\ g.ph.step = 14 /\ g.ph.tls = "done" /\ ~g.ph.done
        /\ g.ph.results = p.results \cup {"binding"} /\ g.send = <<>>
      BY <2>3, <2>6, PhoneSends, GoIs, GotIs DEF Results
  <2>9. PICK r : r = Taken(p, m)
      OBVIOUS
  <2>10. /\ r.ph \in PhoneStates /\ r.ph.step = 15 /\ r.ph.tls = g.ph.tls
        /\ r.ph.done = g.ph.done /\ r.ph.results = g.ph.results
        /\ r.send = <<>> \o <<Msg(CONTROL, PING_REQUEST, "plain", 42)>>
    <3>1. g.ph.step = 14
        BY <2>8
    <3>2. /\ r.ph = Phone!Go(g.ph, 15, <<>>).ph
          /\ r.send = g.send \o <<Msg(CONTROL, PING_REQUEST, "plain", 42)>>
      <4>1. /\ 14 \in {8, 10, 12, 14}
            /\ 14 + 1 = 15
            /\ Spoken(14) = Msg(CONTROL, PING_REQUEST, "plain", 42)
          BY DEF Spoken
      <4>2. Phone!Process(p, m).ph.step = 14
          BY <2>7, <3>1
      <4>3. /\ Taken(p, m).ph = Phone!Go(Phone!Process(p, m).ph, 14 + 1, <<>>).ph
            /\ Taken(p, m).send = Phone!Process(p, m).send \o <<Spoken(14)>>
          BY <4>1, <4>2, TakenSpeaks
      <4>4. QED
          BY <2>7, <2>9, <4>1, <4>3
    <3>3. QED
        BY <2>8, <3>2, GoIs
  <2>11. Known(p.results \cup {"binding"}, 26)
      BY <2>5 DEF Known
  <2>12. PhoneAt(r.ph, 26)
      BY <2>8, <2>10, <2>11 DEF PhoneAt, StepAt, PhoneTlsAt
  <2>13. Asked(25) \o (<<>> \o <<Msg(CONTROL, PING_REQUEST, "plain", 42)>>)
           = Asked(26)
      BY Few DEF Asked
  <2>14. k + 1 = 26 /\ Asked(25) \o r.send = Asked(26)
      BY <1>14, <2>10, <2>13
  <2>15. QED
      BY <1>14, <2>4, <2>9, <2>10, <2>12, <2>14 DEF Moves
<1>15. CASE k = 27
  <2>1. PICK m : m = Msg(CONTROL, PING_RESPONSE, "plain", 42)
      OBVIOUS
  <2>2. m.ch = CONTROL /\ m.mid = PING_RESPONSE /\ m.val = 42
      BY <2>1, SameMsg
  <2>3. p.step = 15 /\ p.tls = "done" /\ ~p.done
      BY <1>15 DEF PhoneAt, StepAt, PhoneTlsAt
  <2>4. Head(Answered(27)) = m /\ Tail(Answered(27)) = Answered(28)
      BY <2>1, Few DEF Answered
  <2>5. Known(p.results, 27)
      BY <1>15 DEF PhoneAt
  <2>6. PICK x : x = Phone!Got(p, "ping")
      OBVIOUS
  <2>7. PICK y : y = [x EXCEPT !.done = TRUE]
      OBVIOUS
  <2>8. /\ x \in PhoneStates /\ x.results = p.results \cup {"ping"}
         /\ x.step = p.step /\ x.tls = p.tls
      BY <2>6, GotIs DEF Results
  <2>9. /\ y \in PhoneStates /\ y.results = x.results /\ y.done
        /\ y.step = x.step /\ y.tls = x.tls
      BY <2>7, <2>8 DEF PhoneStates
  <2>10. PICK g : g = [ph |-> y, send |-> <<>>]
      OBVIOUS
  <2>11. Phone!Process(p, m) = g
      BY <2>2, <2>3, <2>6, <2>7, <2>10, LargeIds
      DEF Phone!Process, Phone!Is
  <2>12. /\ g.ph \in PhoneStates /\ g.ph.step = 15 /\ g.ph.tls = "done" /\ g.ph.done
        /\ g.ph.results = p.results \cup {"ping"} /\ g.send = <<>>
      BY <2>3, <2>10, <2>8, <2>9
  <2>13. PICK r : r = Taken(p, m)
      OBVIOUS
  <2>14. /\ r.ph \in PhoneStates /\ r.ph.step = 15 /\ r.ph.tls = g.ph.tls
        /\ r.ph.done = g.ph.done /\ r.ph.results = g.ph.results
        /\ r.send = <<>> \o <<>>
    <3>1. g.ph.step = 15
        BY <2>12
    <3>2. r.ph = g.ph /\ r.send = g.send \o <<>>
        BY <2>11, <2>13, <3>1, TakenWaits
    <3>3. QED
        BY <2>12, <3>2
  <2>15. Known(p.results \cup {"ping"}, 28)
      BY <2>5 DEF Known
  <2>16. PhoneAt(r.ph, 28)
      BY <2>12, <2>14, <2>15 DEF PhoneAt, StepAt, PhoneTlsAt
  <2>17. Asked(27) \o (<<>> \o <<>>) = Asked(28)
      BY Few DEF Asked
  <2>18. k + 1 = 28 /\ Asked(27) \o r.send = Asked(28)
      BY <1>15, <2>14, <2>17
  <2>19. QED
      BY <1>15, <2>4, <2>13, <2>14, <2>16, <2>18 DEF Moves
<1>16. QED
    BY <1>1, <1>2, <1>3, <1>4, <1>5, <1>6, <1>7, <1>8, <1>9, <1>10, <1>11, <1>12,
       <1>13, <1>14, <1>15
-----------------------------------------------------------------------------
(* A step of the phone.                                                    *)

\* Nothing but the empty queue is held, in order, by the empty queue.
LEMMA HoldsNothing ==
    ASSUME NEW S, NEW T, NEW w \in Seq(T), Holds(<<>>, w, S) PROVE w = <<>>
<1>1. PICK a \in Seq(S), b \in Seq(S) : <<>> = a \o w \o b
    BY DEF Holds
<1>2. a \in Seq(S \cup T) /\ w \in Seq(S \cup T) /\ b \in Seq(S \cup T)
    BY SeqMonotonic
<1>3. Len(a \o w) = Len(a) + Len(w) /\ a \o w \in Seq(S \cup T)
    BY <1>2, ConcatProperties
<1>4. Len(a \o w \o b) = Len(a \o w) + Len(b)
    BY <1>2, <1>3, ConcatProperties
<1>5. Len(a) \in Nat /\ Len(w) \in Nat /\ Len(b) \in Nat /\ Len(<<>>) = 0
    BY <1>2, LenProperties, EmptySeq
<1>6. Len(w) = 0
    BY <1>1, <1>3, <1>4, <1>5
<1>7. QED
    BY <1>2, <1>6, EmptySeq

\* A message on a channel the script uses is one the script's queues may hold.
LEMMA MsgTyped ==
    ASSUME NEW ch \in {0, 2, 3, 6}, NEW mid \in Nat, NEW e \in {"plain", "sealed"}, NEW v \in Int
    PROVE  /\ Msg(ch, mid, e, v) \in ScriptMsgs
           /\ mid # INPUT_EVENT_INDICATION => Msg(ch, mid, e, v) \in Answers
<1>1. Msg(ch, mid, e, v) \in ScriptMsgs
    BY DEF Msg, ScriptMsgs, ScriptChannels
<1>2. Msg(ch, mid, e, v).mid = mid
    BY SameMsg
<1>3. QED
    BY <1>1, <1>2 DEF Answers

\* What is in flight: the phone's messages, and the head unit's, which can be
\* read where they are.
AskedTyped(k) == Asked(k) \in Seq(ScriptMsgs)
AnsweredTyped(k) ==
    /\ Answered(k) \in Seq(Answers)
    /\ Answered(k) # <<>> =>
          Head(Answered(k)).enc = "plain" \/ (k >= 9 /\ Head(Answered(k)).enc = "sealed")
\* What is asked and what is answered at a place are queues of script messages.
LEMMA ScriptTyped ==
    ASSUME NEW k \in 0 .. 28 PROVE AskedTyped(k) /\ AnsweredTyped(k)
<1>1. ASSUME NEW S, NEW a \in S PROVE <<a>> \in Seq(S)
    OBVIOUS
<1>2. ASSUME NEW S, NEW a \in S, NEW b \in S PROVE <<a, b>> \in Seq(S)
    OBVIOUS
<1>3. /\ SETUP_REQUEST \in Nat
      /\ START_INDICATION \in Nat
      /\ BINDING_REQUEST \in Nat
      /\ SETUP_RESPONSE \in Nat /\ VIDEO_FOCUS_INDICATION \in Nat
      /\ AV_MEDIA_ACK_INDICATION \in Nat /\ BINDING_RESPONSE \in Nat
      /\ INPUT_EVENT_INDICATION > 100 /\ INPUT_EVENT_INDICATION \in Nat
    BY LargeIds
<1>4. \A i \in 1 .. 100 : i # INPUT_EVENT_INDICATION
    BY <1>3
<1>5. AskedTyped(2)
  <2>1. Msg(CONTROL, VERSION_RESPONSE, "plain", MATCH) \in ScriptMsgs
      BY <1>3, MsgTyped
  <2>2. QED
      BY <2>1, <1>1 DEF Asked, AskedTyped
<1>6. AskedTyped(4)
  <2>1. Msg(CONTROL, SSL_HANDSHAKE, "plain", ServerHello) \in ScriptMsgs
      BY <1>3, MsgTyped
  <2>2. QED
      BY <2>1, <1>1 DEF Asked, AskedTyped
<1>7. AskedTyped(6)
  <2>1. Msg(CONTROL, SSL_HANDSHAKE, "plain", ServerFinished) \in ScriptMsgs
      BY <1>3, MsgTyped
  <2>2. QED
      BY <2>1, <1>1 DEF Asked, AskedTyped
<1>8. AskedTyped(8)
  <2>1. Msg(CONTROL, SERVICE_DISCOVERY_REQUEST, "sealed", 0) \in ScriptMsgs
      BY <1>3, MsgTyped
  <2>2. QED
      BY <2>1, <1>1 DEF Asked, AskedTyped
<1>9. AskedTyped(10)
  <2>1. Msg(VIDEO, CHANNEL_OPEN_REQUEST, "sealed", 0) \in ScriptMsgs
      BY <1>3, MsgTyped
  <2>2. QED
      BY <2>1, <1>1 DEF Asked, AskedTyped
<1>10. AskedTyped(12)
  <2>1. Msg(INPUT, CHANNEL_OPEN_REQUEST, "sealed", 0) \in ScriptMsgs
      BY <1>3, MsgTyped
  <2>2. QED
      BY <2>1, <1>1 DEF Asked, AskedTyped
<1>11. AskedTyped(14)
  <2>1. Msg(MEDIA_AUDIO, CHANNEL_OPEN_REQUEST, "sealed", 0) \in ScriptMsgs
      BY <1>3, MsgTyped
  <2>2. QED
      BY <2>1, <1>1 DEF Asked, AskedTyped
<1>12. AskedTyped(16)
  <2>1. Msg(VIDEO, SETUP_REQUEST, "sealed", 0) \in ScriptMsgs
      BY <1>3, MsgTyped
  <2>2. QED
      BY <2>1, <1>1 DEF Asked, AskedTyped
<1>13. AskedTyped(19)
  <2>1. /\ Msg(VIDEO, START_INDICATION, "sealed", 1) \in ScriptMsgs
        /\ Picture \in ScriptMsgs
      BY <1>3, MsgTyped DEF Picture
  <2>2. QED
      BY <2>1, <1>2 DEF Asked, AskedTyped
<1>14. AskedTyped(20)
  <2>1. Picture \in ScriptMsgs
      BY <1>3, MsgTyped DEF Picture
  <2>2. QED
      BY <2>1, <1>1 DEF Asked, AskedTyped
<1>15. AskedTyped(22)
  <2>1. Msg(MEDIA_AUDIO, MEDIA_DATA, "plain", 0) \in ScriptMsgs
      BY <1>3, MsgTyped
  <2>2. QED
      BY <2>1, <1>1 DEF Asked, AskedTyped
<1>16. AskedTyped(24)
  <2>1. Msg(INPUT, BINDING_REQUEST, "sealed", 0) \in ScriptMsgs
      BY <1>3, MsgTyped
  <2>2. QED
      BY <2>1, <1>1 DEF Asked, AskedTyped
<1>17. AskedTyped(26)
  <2>1. Msg(CONTROL, PING_REQUEST, "plain", 42) \in ScriptMsgs
      BY <1>3, MsgTyped
  <2>2. QED
      BY <2>1, <1>1 DEF Asked, AskedTyped
<1>18. AskedTyped(k)
  <2>1. CASE k \in {2, 4, 6, 8, 10, 12, 14, 16, 19, 20, 22, 24, 26}
      BY <2>1, <1>5, <1>6, <1>7, <1>8, <1>9, <1>10, <1>11, <1>12, <1>13, <1>14,
         <1>15, <1>16, <1>17
  <2>2. CASE k \notin {2, 4, 6, 8, 10, 12, 14, 16, 19, 20, 22, 24, 26}
    <3>1. Asked(k) = <<>> /\ <<>> \in Seq(ScriptMsgs)
        BY <2>2 DEF Asked
    <3>2. QED
        BY <3>1 DEF AskedTyped
  <2>3. QED
      BY <2>1, <2>2
<1>19. AnsweredTyped(1)
  <2>1. Msg(CONTROL, VERSION_REQUEST, "plain", 0) \in Answers
      BY <1>3, <1>4, MsgTyped, Differ
  <2>2. Head(<<Msg(CONTROL, VERSION_REQUEST, "plain", 0)>>).enc = "plain"
      BY Few, SameMsg
  <2>3. QED
      BY <2>1, <2>2, <1>1 DEF Answered, AnsweredTyped
<1>20. AnsweredTyped(3)
  <2>1. Msg(CONTROL, SSL_HANDSHAKE, "plain", ClientHello) \in Answers
      BY <1>3, <1>4, MsgTyped, Differ
  <2>2. Head(<<Msg(CONTROL, SSL_HANDSHAKE, "plain", ClientHello)>>).enc = "plain"
      BY Few, SameMsg
  <2>3. QED
      BY <2>1, <2>2, <1>1 DEF Answered, AnsweredTyped
<1>21. AnsweredTyped(5)
  <2>1. Msg(CONTROL, SSL_HANDSHAKE, "plain", ClientFinished) \in Answers
      BY <1>3, <1>4, MsgTyped, Differ
  <2>2. Head(<<Msg(CONTROL, SSL_HANDSHAKE, "plain", ClientFinished)>>).enc = "plain"
      BY Few, SameMsg
  <2>3. QED
      BY <2>1, <2>2, <1>1 DEF Answered, AnsweredTyped
<1>22. AnsweredTyped(7)
  <2>1. Msg(CONTROL, AUTH_COMPLETE, "plain", 0) \in Answers
      BY <1>3, <1>4, MsgTyped, Differ
  <2>2. Head(<<Msg(CONTROL, AUTH_COMPLETE, "plain", 0)>>).enc = "plain"
      BY Few, SameMsg
  <2>3. QED
      BY <2>1, <2>2, <1>1 DEF Answered, AnsweredTyped
<1>23. AnsweredTyped(9)
  <2>1. Msg(CONTROL, SERVICE_DISCOVERY_RESPONSE, "sealed", 0) \in Answers
      BY <1>3, <1>4, MsgTyped, Differ
  <2>2. Head(<<Msg(CONTROL, SERVICE_DISCOVERY_RESPONSE, "sealed", 0)>>).enc = "sealed"
      BY Few, SameMsg
  <2>3. QED
      BY <2>1, <2>2, <1>1 DEF Answered, AnsweredTyped
<1>24. AnsweredTyped(11)
  <2>1. Msg(VIDEO, CHANNEL_OPEN_RESPONSE, "sealed", 0) \in Answers
      BY <1>3, <1>4, MsgTyped, Differ
  <2>2. Head(<<Msg(VIDEO, CHANNEL_OPEN_RESPONSE, "sealed", 0)>>).enc = "sealed"
      BY Few, SameMsg
  <2>3. QED
      BY <2>1, <2>2, <1>1 DEF Answered, AnsweredTyped
<1>25. AnsweredTyped(13)
  <2>1. Msg(INPUT, CHANNEL_OPEN_RESPONSE, "sealed", 0) \in Answers
      BY <1>3, <1>4, MsgTyped, Differ
  <2>2. Head(<<Msg(INPUT, CHANNEL_OPEN_RESPONSE, "sealed", 0)>>).enc = "sealed"
      BY Few, SameMsg
  <2>3. QED
      BY <2>1, <2>2, <1>1 DEF Answered, AnsweredTyped
<1>26. AnsweredTyped(15)
  <2>1. Msg(MEDIA_AUDIO, CHANNEL_OPEN_RESPONSE, "sealed", 0) \in Answers
      BY <1>3, <1>4, MsgTyped, Differ
  <2>2. Head(<<Msg(MEDIA_AUDIO, CHANNEL_OPEN_RESPONSE, "sealed", 0)>>).enc = "sealed"
      BY Few, SameMsg
  <2>3. QED
      BY <2>1, <2>2, <1>1 DEF Answered, AnsweredTyped
<1>27. AnsweredTyped(17)
  <2>1. Msg(VIDEO, SETUP_RESPONSE, "sealed", 0) \in Answers /\ Focus \in Answers
      BY <1>3, MsgTyped, Differ DEF Focus
  <2>2. Head(<<Msg(VIDEO, SETUP_RESPONSE, "sealed", 0), Focus>>).enc = "sealed"
      BY Few, SameMsg
  <2>3. QED
      BY <2>1, <2>2, <1>2 DEF Answered, AnsweredTyped
<1>28. AnsweredTyped(18)
  <2>1. Focus \in Answers
      BY <1>3, <1>4, MsgTyped, Differ DEF Focus
  <2>2. Head(<<Focus>>).enc = "sealed"
      BY Few, SameMsg DEF Focus
  <2>3. QED
      BY <2>1, <2>2, <1>1 DEF Answered, AnsweredTyped
<1>29. AnsweredTyped(21)
  <2>1. Msg(VIDEO, AV_MEDIA_ACK_INDICATION, "sealed", 1) \in Answers
      BY <1>3, <1>4, MsgTyped, Differ
  <2>2. Head(<<Msg(VIDEO, AV_MEDIA_ACK_INDICATION, "sealed", 1)>>).enc = "sealed"
      BY Few, SameMsg
  <2>3. QED
      BY <2>1, <2>2, <1>1 DEF Answered, AnsweredTyped
<1>30. AnsweredTyped(23)
  <2>1. Msg(MEDIA_AUDIO, AV_MEDIA_ACK_INDICATION, "sealed", NoSession) \in Answers
      BY <1>3, <1>4, MsgTyped, Differ
  <2>2. Head(<<Msg(MEDIA_AUDIO, AV_MEDIA_ACK_INDICATION, "sealed", NoSession)>>).enc = "sealed"
      BY Few, SameMsg
  <2>3. QED
      BY <2>1, <2>2, <1>1 DEF Answered, AnsweredTyped
<1>31. AnsweredTyped(25)
  <2>1. Msg(INPUT, BINDING_RESPONSE, "sealed", 0) \in Answers
      BY <1>3, <1>4, MsgTyped, Differ
  <2>2. Head(<<Msg(INPUT, BINDING_RESPONSE, "sealed", 0)>>).enc = "sealed"
      BY Few, SameMsg
  <2>3. QED
      BY <2>1, <2>2, <1>1 DEF Answered, AnsweredTyped
<1>32. AnsweredTyped(27)
  <2>1. Msg(CONTROL, PING_RESPONSE, "plain", 42) \in Answers
      BY <1>3, <1>4, MsgTyped, Differ
  <2>2. Head(<<Msg(CONTROL, PING_RESPONSE, "plain", 42)>>).enc = "plain"
      BY Few, SameMsg
  <2>3. QED
      BY <2>1, <2>2, <1>1 DEF Answered, AnsweredTyped
<1>33. AnsweredTyped(k)
  <2>1. CASE k \in {1, 3, 5, 7, 9, 11, 13, 15, 17, 18, 21, 23, 25, 27}
      BY <2>1, <1>19, <1>20, <1>21, <1>22, <1>23, <1>24, <1>25, <1>26, <1>27,
         <1>28, <1>29, <1>30, <1>31, <1>32
  <2>2. CASE k \notin {1, 3, 5, 7, 9, 11, 13, 15, 17, 18, 21, 23, 25, 27}
    <3>1. Answered(k) = <<>> /\ <<>> \in Seq(Answers)
        BY <2>2 DEF Answered
    <3>2. QED
        BY <3>1 DEF AnsweredTyped
  <2>3. QED
      BY <2>1, <2>2
<1>34. QED
    BY <1>18, <1>33
\* Where a message of the head unit is under way, the phone's next state is
\* the same for the head unit.
Spoke == {1, 3, 5, 7, 9, 11, 13, 15, 17, 18, 21, 23, 25, 27}
\* The head unit has an answer under way exactly at the places the phone is to
\* read one.
LEMMA AnsweredWhere ==
    ASSUME NEW k \in 0 .. 28 PROVE Answered(k) # <<>> <=> k \in Spoke
<1>1. CASE k \in Spoke
    BY <1>1 DEF Answered, Spoke
<1>2. CASE k \notin Spoke
    BY <1>2 DEF Answered, Spoke
<1>3. QED
    BY <1>1, <1>2

\* A step of the phone touches nothing of the head unit and costs it its turn in
\* run_mock.
LEMMA PhoneTurn ==
    ASSUME LoopTyped, PhoneStep
    PROVE  /\ UNCHANGED <<hu, cap, told, driver>> /\ conn = "up"
           /\ LoopTyped'
           /\ driver = "harness" =>
                 /\ turn = "phone" /\ ~ph.done /\ Turns' = Turns + 1
                 /\ Turns = 2 * iter /\ iter \in Nat
<1>1. UNCHANGED <<hu, cap, told>> /\ conn = "up" /\ driver' = driver
    BY DEF PhoneStep, Turn
<1>2. CASE driver = "harness"
  <2>1. /\ turn = "phone" /\ turn' = "hu" /\ iter' = iter /\ ~HarnessOver
      BY <1>2 DEF PhoneStep, Turn
  <2>2. ~ph.done /\ iter # MaxRounds
      BY <1>2, <2>1 DEF HarnessOver
  <2>3. iter \in Nat /\ iter <= MaxRounds /\ MaxRounds \in Nat
      BY <1>2, BoundsAssumption DEF LoopTyped
  <2>4. LoopTyped'
      BY <1>1, <1>2, <2>1, <2>2, <2>3 DEF LoopTyped, hu
  <2>5. Turns = 2 * iter /\ Turns' = 2 * iter + 1
      BY <2>1, <2>3 DEF Turns
  <2>6. QED
      BY <1>1, <2>1, <2>2, <2>3, <2>4, <2>5
<1>3. CASE driver # "harness"
  <2>1. turn' = turn /\ iter' = iter
      BY <1>3 DEF PhoneStep, Turn
  <2>2. LoopTyped'
      BY <1>1, <1>3, <2>1 DEF LoopTyped
  <2>3. QED
      BY <1>1, <1>3, <2>2
<1>4. QED
    BY <1>2, <1>3

\* The script goes on: what the head unit has at k it has at k + 1.
LEMMA PhonePlaces ==
    ASSUME NEW k \in Spoke
    PROVE  /\ k \in 0 .. 28 /\ k + 1 \in 0 .. 28
           /\ StageAt(k + 1) = StageAt(k) /\ TlsAt(k + 1) = TlsAt(k)
           /\ Effects(k) => Effects(k + 1)
           /\ \A n \in Nat : 2 * n \in TurnsAt(k) => 2 * n + 1 \in TurnsAt(k + 1)
<1>1. k \in 0 .. 28 /\ k + 1 \in 0 .. 28
    BY DEF Spoke
<1>2. StageAt(k + 1) = StageAt(k)
    BY DEF Spoke, StageAt
<1>3. TlsAt(k + 1) = TlsAt(k)
    BY DEF Spoke, TlsAt
<1>4. Effects(k) => Effects(k + 1)
  <2>1. /\ k >= 9 <=> k + 1 >= 9 
        /\ k >= 21 <=> k + 1 >= 21
        /\ k >= 20 <=> k + 1 >= 20
        /\ k >= 25 <=> k + 1 >= 25
      BY DEF Spoke
  <2>2. QED
      BY <2>1 DEF Effects
<1>5. ASSUME NEW n \in Nat, 2 * n \in TurnsAt(k) PROVE 2 * n + 1 \in TurnsAt(k + 1)
  <2>1. CASE k \in {1, 3, 5, 7, 9, 11, 13, 15}
      BY <1>5, <2>1 DEF TurnsAt
  <2>2. CASE k \in {17, 18}
      BY <1>5, <2>2 DEF TurnsAt
  <2>3. CASE k \in {21, 23, 25, 27}
      BY <1>5, <2>3 DEF TurnsAt
  <2>4. QED
      BY <2>1, <2>2, <2>3 DEF Spoke
<1>6. QED
    BY <1>1, <1>2, <1>3, <1>4, <1>5

\* A turn with nothing for the phone to read leaves the count of turns right for
\* its place.
LEMMA PhoneNothing ==
    ASSUME NEW k \in 0 .. 28, k \notin Spoke, k # 28, NEW n \in Nat, 2 * n \in TurnsAt(k)
    PROVE  2 * n + 1 \in TurnsAt(k)
<1>1. CASE k \in {0, 2, 4, 6, 8, 10, 12, 14, 16}
    BY <1>1 DEF TurnsAt
<1>2. CASE k \in {19, 20}
    BY <1>2 DEF TurnsAt
<1>3. CASE k \in {22, 24, 26}
    BY <1>3 DEF TurnsAt
<1>4. QED
    BY <1>1, <1>2, <1>3 DEF Spoke

\* At(k) is about these variables.
LEMMA AtSame ==
    ASSUME NEW k \in 0 .. 28, UNCHANGED <<hu, driver>>
    PROVE  /\ stage = StageAt(k) <=> stage' = StageAt(k)
           /\ tls = TlsAt(k) <=> tls' = TlsAt(k)
           /\ Effects(k) <=> Effects(k)' /\ Among = Among'
    BY DEF hu, Effects, Among

\* From every place, a step of the phone leads to one of the 29 places.
LEMMA PhoneKeeps ==
    ASSUME VarsTyped, LoopTyped, NEW k \in 0 .. 28, At(k), PhoneStep
    PROVE  VarsTyped' /\ LoopTyped' /\ \E j \in 0 .. 28 : At(j)'
<1>1. /\ UNCHANGED <<hu, cap, told, driver>> /\ conn = "up" /\ LoopTyped'
      /\ driver = "harness" =>
            /\ turn = "phone" /\ ~ph.done /\ Turns' = Turns + 1
            /\ Turns = 2 * iter /\ iter \in Nat
    BY PhoneTurn
<1>2. /\ stage = StageAt(k) /\ tls = TlsAt(k) /\ PhoneAt(ph, k) /\ Effects(k)
      /\ toHU = Asked(k) /\ Holds(toPhone, Answered(k), Among)
      /\ driver = "harness" => Turns \in TurnsAt(k)
    BY DEF At
<1>3. /\ ph \in PhoneStates
      /\ toPhone \in Seq(Answers \cup InputEvents)
      /\ toHU \in Seq(ScriptMsgs)
    BY DEF VarsTyped
<1>4. ASSUME ph' \in PhoneStates, toPhone' \in Seq(Answers \cup InputEvents),
             toHU' \in Seq(ScriptMsgs)
      PROVE  VarsTyped'
    BY <1>1, <1>4 DEF VarsTyped, hu, told, Capture!CaptureType
<1>5. AskedTyped(k) /\ AnsweredTyped(k)
    BY ScriptTyped
<1>6. ASSUME NEW j \in 0 .. 28, StageAt(j) = StageAt(k), TlsAt(j) = TlsAt(k),
             Effects(k) => Effects(j), PhoneAt(ph', j), toHU' = Asked(j),
             Holds(toPhone', Answered(j), Among), driver = "harness" => Turns' \in TurnsAt(j)
      PROVE  At(j)'
  <2>1. /\ stage' = StageAt(j) /\ tls' = TlsAt(j) /\ Effects(j)' /\ Among' = Among
        /\ driver' = driver
      BY <1>1, <1>2, <1>6, AtSame
  <2>2. QED
      BY <1>6, <2>1 DEF At
<1>7. CASE toPhone = <<>>
  <2>1. Answered(k) = <<>>
      BY <1>2, <1>5, <1>7, HoldsNothing DEF AnsweredTyped
  <2>2. k \notin Spoke
      BY <2>1, AnsweredWhere
  <2>3. ph.step \notin {8, 10, 12, 14}
      BY <1>2 DEF PhoneAt, StepAt
  <2>4. ph' = ph /\ toPhone' = toPhone /\ toHU' = toHU
      BY <1>3, <1>7, <2>3, PhoneWaits
  <2>5. driver = "harness" => Turns' \in TurnsAt(k)
    <3>1. ASSUME driver = "harness" PROVE k # 28 /\ 2 * iter \in TurnsAt(k)
        BY <1>1, <1>2, <3>1 DEF PhoneAt
    <3>2. QED
        BY <1>1, <2>2, <3>1, PhoneNothing
  <2>6. At(k)'
      BY <1>2, <1>6, <2>4, <2>5
  <2>7. QED
      BY <1>1, <1>3, <1>4, <2>4, <2>6
<1>8. CASE toPhone # <<>> /\ Head(toPhone) \in Among /\ Holds(Tail(toPhone), Answered(k), Among)
  <2>1. tls = "done" /\ driver = "apart" /\ Head(toPhone) \in InputEvents
      BY <1>8 DEF Among
  <2>2. ph.tls = "done"
      BY <1>2, <2>1 DEF TlsAt, PhoneAt, PhoneTlsAt
  <2>3. Phone!PhoneReadable(Head(toPhone))
      BY <2>1, <2>2 DEF Phone!PhoneReadable, InputEvents
  <2>4. Taken(ph, Head(toPhone)).ph = ph /\ Taken(ph, Head(toPhone)).send = <<>>
      BY <1>2, <1>3, <2>1, InputIgnored
  <2>5. ph' = ph /\ toPhone' = Tail(toPhone) /\ toHU' = toHU \o <<>>
      BY <1>8, <2>3, <2>4, PhoneTakes
  <2>6. toHU' = toHU /\ toPhone' \in Seq(Answers \cup InputEvents)
      BY <1>3, <1>8, <2>5, ConcatEmptySeq, HeadTailProperties
  <2>7. At(k)'
      BY <1>2, <1>6, <1>8, <2>1, <2>5, <2>6
  <2>8. QED
      BY <1>1, <1>3, <1>4, <2>5, <2>6, <2>7
<1>9. CASE /\ toPhone # <<>> /\ Answered(k) # <<>> /\ Head(toPhone) = Head(Answered(k))
           /\ Holds(Tail(toPhone), Tail(Answered(k)), Among)
  <2>1. PICK m : m = Head(Answered(k))
      OBVIOUS
  <2>2. Phone!PhoneReadable(m)
    <3>1. k >= 9 => ph.tls = "done"
        BY <1>2 DEF PhoneAt, PhoneTlsAt
    <3>2. QED
        BY <1>5, <1>9, <2>1, <3>1 DEF Phone!PhoneReadable, AnsweredTyped
  <2>3. PICK r : r = Taken(ph, m)
      OBVIOUS
  <2>4. ph' = r.ph /\ toPhone' = Tail(toPhone) /\ toHU' = toHU \o r.send
      BY <1>9, <2>1, <2>2, <2>3, PhoneTakes
  <2>5. Moves(ph, k)
      BY <1>2, <1>3, <1>9, ScriptMoves
  <2>6. /\ r.ph \in PhoneStates /\ PhoneAt(r.ph, k + 1)
        /\ Asked(k) \o r.send = Asked(k + 1) /\ Answered(k + 1) = Tail(Answered(k))
      BY <2>1, <2>3, <2>5 DEF Moves
  <2>7. k \in Spoke
      BY <1>9, AnsweredWhere
  <2>8. /\ k + 1 \in 0 .. 28
        /\ StageAt(k + 1) = StageAt(k) /\ TlsAt(k + 1) = TlsAt(k)
        /\ Effects(k) => Effects(k + 1)
      BY <2>7, PhonePlaces
  <2>9. driver = "harness" => Turns' \in TurnsAt(k + 1)
      BY <1>1, <1>2, <2>7, PhonePlaces
  <2>10. At(k + 1)'
      BY <1>2, <1>6, <1>9, <2>4, <2>6, <2>8, <2>9
  <2>11. toPhone' \in Seq(Answers \cup InputEvents)
      BY <1>3, <1>9, <2>4, HeadTailProperties
  <2>12. toHU' \in Seq(ScriptMsgs)
      BY <1>2, <2>4, <2>6, <2>8, ScriptTyped DEF AskedTyped
  <2>13. QED
      BY <1>1, <1>4, <2>4, <2>6, <2>8, <2>10, <2>11, <2>12
<1>10. QED
    BY <1>2, <1>5, <1>7, <1>8, <1>9, HoldsHead DEF AnsweredTyped
-----------------------------------------------------------------------------
(* The head unit.                                                          *)

\* The ids from 0x8000 on that dispatch compares are pairwise different.
LEMMA LargeIdsDiffer ==
    /\ HU!VIDEO_FOCUS_REQUEST \in Nat \ 0 .. 100
    /\ HU!STOP_INDICATION \in Nat \ 0 .. 100
    /\ HU!START_INDICATION \notin {HU!SETUP_REQUEST, HU!VIDEO_FOCUS_REQUEST,
                                  HU!STOP_INDICATION}
    /\ HU!SETUP_REQUEST \notin {HU!START_INDICATION, HU!STOP_INDICATION,
                               HU!VIDEO_FOCUS_REQUEST}
    BY DEF HU!VIDEO_FOCUS_REQUEST, HU!STOP_INDICATION, HU!START_INDICATION,
           HU!SETUP_REQUEST, HU!BINDING_REQUEST

\* The channels the session table of the model is indexed by.
LEMMA Small == HU!SmallChannels = {0, 1, 2, 3, 6}
    BY DEF HU!SmallChannels

\* A message that the stage has a use for is handled in that stage.
LEMMA ReceiveInStage ==
    ASSUME NEW m, HU!Receive(m), HU!Readable(m), ~HU!Ignores(m)
    PROVE  \/ HU!PollVersion(m) \/ HU!PollTls(m) \/ HU!PollServiceDiscovery(m)
           \/ HU!Dispatch(m)
    BY DEF HU!Receive, HU!PollUnreadable, HU!PollIgnore

\* After the TLS handshake every message of the head unit goes out sealed.
LEMMA SealedWhenDone ==
    ASSUME tls = "done", NEW ch, NEW mid, NEW val
    PROVE  HU!SealedNow(ch, mid, val) = <<Msg(ch, mid, "sealed", val)>>
    BY SameMsg DEF HU!SealedNow

\* What dispatch does of a message it can read, once ACTIVE over an established
\* TLS.
LEMMA Dispatched ==
    ASSUME NEW m, HU!Receive(m), stage = "ACTIVE", tls = "done", conn = "up",
           m.enc \in {"plain", "sealed"}
    PROVE  /\ UNCHANGED <<stage, state, tls, conn>>
           /\ out' = HU!Reply(m)
           /\ session_by_channel' = HU!SessionsAfter(m)
           /\ IF HU!IsMedia(m) /\ m.ch = VIDEO THEN frames' = frames + 1
                                               ELSE frames' = frames
           /\ input_bound' = (input_bound \/ (m.ch = INPUT /\ m.mid = BINDING_REQUEST))
<1>1. HU!Readable(m) /\ ~HU!Ignores(m)
    BY DEF HU!Readable, HU!Ignores
<1>2. HU!Dispatch(m)
    BY <1>1, ReceiveInStage DEF HU!PollVersion, HU!PollTls, HU!PollServiceDiscovery
<1>3. QED
    BY <1>2, LargeIds DEF HU!Dispatch, HU!Written

\* The question asked takes the head unit to the next place.
Asks == {2, 4, 6, 8, 10, 12, 14, 16, 19, 20, 22, 24, 26}
Media(k) ==
    /\ state' = IF k >= 9 THEN "ACTIVE" ELSE "IDLE"
    /\ frames' = IF k >= 21 THEN 1 ELSE 0
    /\ session_by_channel' \in [{0, 1, 2, 3, 6} -> Int]
    /\ k >= 20 => session_by_channel'[VIDEO] = 1
    /\ session_by_channel'[MEDIA_AUDIO] = NoSession
    /\ input_bound' \in BOOLEAN /\ (k >= 25 => input_bound')
HeadUnitMoves(k) ==
    /\ stage' = StageAt(k + 1) /\ tls' = TlsAt(k + 1) /\ conn' = "up"
    /\ out' = Answered(k + 1)
    /\ Media(k + 1)
    /\ Asked(k + 1) = Tail(Asked(k))

\* Up to ACTIVE the head unit answers what it is asked as the script says.
LEMMA HandshakeMoves ==
    ASSUME VarsTyped, NEW k \in {2, 4, 6, 8}, stage = StageAt(k), tls = TlsAt(k), Effects(k),
           conn = "up", HU!Receive(Head(Asked(k)))
    PROVE  HeadUnitMoves(k)
<1>1. /\ state = "IDLE" /\ frames = 0 /\ session_by_channel[MEDIA_AUDIO] = NoSession
      /\ session_by_channel \in [{0, 1, 2, 3, 6} -> Int] /\ input_bound \in BOOLEAN
    BY DEF Effects, VarsTyped
<1>2. ASSUME state' = IF k = 8 THEN "ACTIVE" ELSE "IDLE", UNCHANGED HU!media
      PROVE  Media(k + 1)
    BY <1>1, <1>2 DEF Media, HU!media
<1>3. CASE k = 2
  <2>1. PICK m : m = Msg(CONTROL, VERSION_RESPONSE, "plain", MATCH)
      OBVIOUS
  <2>2. /\ m.ch = CONTROL
        /\ m.mid = VERSION_RESPONSE
        /\ m.enc = "plain"
        /\ m.val = MATCH
      BY <2>1, SameMsg
  <2>3. Head(Asked(2)) = m /\ Tail(Asked(2)) = Asked(3)
      BY <2>1, Few DEF Asked
  <2>4. stage = "WAIT_VERSION" /\ tls = "none"
      BY <1>3 DEF StageAt, TlsAt
  <2>5. HU!Readable(m) /\ ~HU!Ignores(m)
      BY <2>2, <2>4 DEF HU!Readable, HU!Ignores
  <2>6. HU!PollVersion(m)
      BY <1>3, <2>3, <2>4, <2>5, ReceiveInStage
      DEF HU!PollVersion, HU!PollTls, HU!PollServiceDiscovery, HU!Dispatch
  <2>7. /\ tls' = "hello" /\ stage' = "TLS" /\ state' = state /\ conn' = conn
        /\ UNCHANGED HU!media
        /\ out' = HU!Plain(CONTROL, SSL_HANDSHAKE, ClientHello)
      BY <2>2, <2>6 DEF HU!PollVersion, HU!SendError, HU!Handshake, HU!Written
  <2>8. out' = <<Msg(CONTROL, SSL_HANDSHAKE, "plain", ClientHello)>>
      BY <2>7, SameMsg DEF HU!Plain
  <2>9. Media(3)
      BY <1>3, <1>1, <1>2, <2>7, <2>8
  <2>10. /\ stage' = StageAt(3)
         /\ tls' = TlsAt(3)
         /\ conn' = "up"
         /\ out' = Answered(3)
      BY <2>7, <2>8 DEF StageAt, TlsAt, Answered
  <2>11. 2 + 1 = 3
      OBVIOUS
  <2>12. QED
      BY <1>3, <2>3, <2>9, <2>10, <2>11 DEF HeadUnitMoves
<1>4. CASE k = 4
  <2>1. PICK m : m = Msg(CONTROL, SSL_HANDSHAKE, "plain", ServerHello)
      OBVIOUS
  <2>2. /\ m.ch = CONTROL
        /\ m.mid = SSL_HANDSHAKE
        /\ m.enc = "plain"
        /\ m.val = ServerHello
      BY <2>1, SameMsg
  <2>3. Head(Asked(4)) = m /\ Tail(Asked(4)) = Asked(5)
      BY <2>1, Few DEF Asked
  <2>4. stage = "TLS" /\ tls = "hello"
      BY <1>4 DEF StageAt, TlsAt
  <2>5. HU!Readable(m) /\ ~HU!Ignores(m)
      BY <2>2, <2>4 DEF HU!Readable, HU!Ignores
  <2>6. HU!PollTls(m)
      BY <1>4, <2>3, <2>4, <2>5, ReceiveInStage
      DEF HU!PollVersion, HU!PollTls, HU!PollServiceDiscovery, HU!Dispatch
  <2>7. PICK r : r = HU!ClientStep(m.val)
      OBVIOUS
  <2>8. /\ r.tls = "finished" /\ r.hr = 1
        /\ r.send = HU!Plain(CONTROL, SSL_HANDSHAKE, ClientFinished)
      BY <2>2, <2>4, <2>7 DEF HU!ClientStep
  <2>9. PICK auth : auth = IF HU!TlsComplete(r.hr) THEN HU!AuthComplete ELSE <<>>
      OBVIOUS
  <2>10. /\ tls' = r.tls /\ state' = state /\ conn' = conn /\ UNCHANGED HU!media
         /\ stage' = IF HU!TlsComplete(r.hr) THEN "WAIT_SERVICE_DISCOVERY" ELSE stage
         /\ out' = r.send \o auth
      BY <2>6, <2>7, <2>8, <2>9
      DEF HU!PollTls, HU!SendError, HU!Handshake, HU!Written
  <2>11. /\ auth = <<>>
         /\ r.send = <<Msg(CONTROL, SSL_HANDSHAKE, "plain", ClientFinished)>>
      BY <2>8, <2>9, SameMsg DEF HU!Plain, HU!TlsComplete, HU!AuthComplete
  <2>12. stage' = "TLS"
      BY <2>4, <2>8, <2>10 DEF HU!TlsComplete
  <2>13. out' = <<Msg(CONTROL, SSL_HANDSHAKE, "plain", ClientFinished)>>
      BY <2>10, <2>11, Few
  <2>14. /\ out' = <<Msg(CONTROL, SSL_HANDSHAKE, "plain", ClientFinished)>>
         /\ stage' = "TLS"
      BY <2>12, <2>13
  <2>15. Media(5)
      BY <1>4, <1>1, <1>2, <2>14, <2>8, <2>10
  <2>16. /\ stage' = StageAt(5)
         /\ tls' = TlsAt(5)
         /\ conn' = "up"
         /\ out' = Answered(5)
      BY <2>14, <2>8, <2>10 DEF StageAt, TlsAt, Answered
  <2>17. 4 + 1 = 5
      OBVIOUS
  <2>18. QED
      BY <1>4, <2>3, <2>15, <2>16, <2>17 DEF HeadUnitMoves
<1>5. CASE k = 6
  <2>1. PICK m : m = Msg(CONTROL, SSL_HANDSHAKE, "plain", ServerFinished)
      OBVIOUS
  <2>2. /\ m.ch = CONTROL
        /\ m.mid = SSL_HANDSHAKE
        /\ m.enc = "plain"
        /\ m.val = ServerFinished
      BY <2>1, SameMsg
  <2>3. Head(Asked(6)) = m /\ Tail(Asked(6)) = Asked(7)
      BY <2>1, Few DEF Asked
  <2>4. stage = "TLS" /\ tls = "finished"
      BY <1>5 DEF StageAt, TlsAt
  <2>5. HU!Readable(m) /\ ~HU!Ignores(m)
      BY <2>2, <2>4 DEF HU!Readable, HU!Ignores
  <2>6. HU!PollTls(m)
      BY <1>5, <2>3, <2>4, <2>5, ReceiveInStage
      DEF HU!PollVersion, HU!PollTls, HU!PollServiceDiscovery, HU!Dispatch
  <2>7. PICK r : r = HU!ClientStep(m.val)
      OBVIOUS
  <2>8. /\ r.tls = "done" /\ r.hr = 0
        /\ r.send = <<>>
      BY <2>2, <2>4, <2>7 DEF HU!ClientStep
  <2>9. PICK auth : auth = IF HU!TlsComplete(r.hr) THEN HU!AuthComplete ELSE <<>>
      OBVIOUS
  <2>10. /\ tls' = r.tls /\ state' = state /\ conn' = conn /\ UNCHANGED HU!media
         /\ stage' = IF HU!TlsComplete(r.hr) THEN "WAIT_SERVICE_DISCOVERY" ELSE stage
         /\ out' = r.send \o auth
      BY <2>6, <2>7, <2>8, <2>9
      DEF HU!PollTls, HU!SendError, HU!Handshake, HU!Written
  <2>11. auth = <<Msg(CONTROL, AUTH_COMPLETE, "plain", 0)>> /\ r.send = <<>>
      BY <2>8, <2>9, SameMsg DEF HU!Plain, HU!TlsComplete, HU!AuthComplete
  <2>12. stage' = "WAIT_SERVICE_DISCOVERY"
      BY <2>4, <2>8, <2>10 DEF HU!TlsComplete
  <2>13. out' = <<Msg(CONTROL, AUTH_COMPLETE, "plain", 0)>>
      BY <2>10, <2>11, Few
  <2>14. /\ out' = <<Msg(CONTROL, AUTH_COMPLETE, "plain", 0)>>
         /\ stage' = "WAIT_SERVICE_DISCOVERY"
      BY <2>12, <2>13
  <2>15. Media(7)
      BY <1>5, <1>1, <1>2, <2>14, <2>8, <2>10
  <2>16. /\ stage' = StageAt(7)
         /\ tls' = TlsAt(7)
         /\ conn' = "up"
         /\ out' = Answered(7)
      BY <2>14, <2>8, <2>10 DEF StageAt, TlsAt, Answered
  <2>17. 6 + 1 = 7
      OBVIOUS
  <2>18. QED
      BY <1>5, <2>3, <2>15, <2>16, <2>17 DEF HeadUnitMoves
<1>6. CASE k = 8
  <2>1. PICK m : m = Msg(CONTROL, SERVICE_DISCOVERY_REQUEST, "sealed", 0)
      OBVIOUS
  <2>2. /\ m.ch = CONTROL
        /\ m.mid = SERVICE_DISCOVERY_REQUEST
        /\ m.enc = "sealed"
        /\ m.val = 0
      BY <2>1, SameMsg
  <2>3. Head(Asked(8)) = m /\ Tail(Asked(8)) = Asked(9)
      BY <2>1, Few DEF Asked
  <2>4. stage = "WAIT_SERVICE_DISCOVERY" /\ tls = "done"
      BY <1>6 DEF StageAt, TlsAt
  <2>5. HU!Readable(m) /\ ~HU!Ignores(m)
      BY <2>2, <2>4 DEF HU!Readable, HU!Ignores
  <2>6. HU!PollServiceDiscovery(m)
      BY <1>6, <2>3, <2>4, <2>5, ReceiveInStage
      DEF HU!PollVersion, HU!PollTls, HU!PollServiceDiscovery, HU!Dispatch
  <2>7. /\ stage' = "ACTIVE" /\ state' = "ACTIVE" /\ conn' = conn /\ tls' = tls
        /\ UNCHANGED HU!media /\ out' = HU!ServiceDiscoveryResponse
      BY <2>6 DEF HU!PollServiceDiscovery, HU!SendError, HU!Handshake, HU!Written
  <2>8. out' = <<Msg(CONTROL, SERVICE_DISCOVERY_RESPONSE, "sealed", 0)>>
      BY <2>4, <2>7, SealedWhenDone DEF HU!ServiceDiscoveryResponse
  <2>9. Media(9)
      BY <1>6, <1>1, <1>2, <2>4, <2>7, <2>8
  <2>10. /\ stage' = StageAt(9)
         /\ tls' = TlsAt(9)
         /\ conn' = "up"
         /\ out' = Answered(9)
      BY <2>4, <2>7, <2>8 DEF StageAt, TlsAt, Answered
  <2>11. 8 + 1 = 9
      OBVIOUS
  <2>12. QED
      BY <1>6, <2>3, <2>9, <2>10, <2>11 DEF HeadUnitMoves
<1>7. QED
    BY <1>3, <1>4, <1>5, <1>6

\* From ACTIVE on the head unit answers what it is asked as the script says.
LEMMA ActiveMoves ==
    ASSUME VarsTyped, NEW k \in {10, 12, 14, 16, 19, 20, 22, 24, 26},
           stage = StageAt(k), tls = TlsAt(k), Effects(k),
           conn = "up", HU!Receive(Head(Asked(k)))
    PROVE  HeadUnitMoves(k)
<1>1. /\ state = "ACTIVE" /\ frames = (IF k >= 21 THEN 1 ELSE 0)
      /\ session_by_channel[MEDIA_AUDIO] = NoSession
      /\ k >= 20 => session_by_channel[VIDEO] = 1
      /\ session_by_channel \in [{0, 1, 2, 3, 6} -> Int] /\ input_bound \in BOOLEAN
      /\ k >= 25 => input_bound
      /\ stage = "ACTIVE" /\ tls = "done"
  <2>1. stage = "ACTIVE" /\ tls = "done"
      BY DEF StageAt, TlsAt
  <2>2. k >= 9
      OBVIOUS
  <2>3. QED
      BY <2>1, <2>2 DEF Effects, VarsTyped
<1>2. ASSUME UNCHANGED <<stage, state, tls, conn>>
      PROVE  stage' = StageAt(k + 1) /\ tls' = TlsAt(k + 1) /\ conn' = "up" /\ state' = "ACTIVE"
    BY <1>1, <1>2 DEF StageAt, TlsAt
<1>3. CASE k = 10
  <2>1. PICK m : m = Msg(VIDEO, CHANNEL_OPEN_REQUEST, "sealed", 0)
      OBVIOUS
  <2>2. /\ m.ch = VIDEO
        /\ m.mid = CHANNEL_OPEN_REQUEST
        /\ m.enc = "sealed"
        /\ m.val = 0
      BY <2>1, SameMsg
  <2>3. Head(Asked(10)) = m /\ Tail(Asked(10)) = Asked(11)
      BY <2>1, Few DEF Asked
  <2>4. /\ UNCHANGED <<stage, state, tls, conn>>
        /\ out' = HU!Reply(m)
        /\ session_by_channel' = HU!SessionsAfter(m)
        /\ IF HU!IsMedia(m) /\ m.ch = VIDEO THEN frames' = frames + 1
                                            ELSE frames' = frames
        /\ input_bound' = (input_bound \/ (m.ch = INPUT /\ m.mid = BINDING_REQUEST))
      BY <1>1, <1>3, <2>2, <2>3, Dispatched
  <2>5. m.mid <= 100
      BY <2>2, LargeIds
  <2>6. HU!Reply(m) = HU!ChannelOpenResponse(m.ch) \o <<>>
      BY <2>2, <2>5, LargeIds, LargeIdsDiffer
      DEF HU!Reply, HU!OnMediaChannel, HU!IsMedia
  <2>7. ~(HU!IsMedia(m) /\ m.ch = VIDEO)
      BY <2>2, LargeIds DEF HU!IsMedia, HU!OnMediaChannel
  <2>8. HU!SessionsAfter(m) = session_by_channel
      BY <2>2, Small, LargeIds, LargeIdsDiffer
      DEF HU!SessionsAfter, HU!OnMediaChannel
  <2>9. out' = Answered(11)
    <3>1. HU!ChannelOpenResponse(m.ch) = <<Msg(VIDEO, CHANNEL_OPEN_RESPONSE, "sealed", 0)>>
        BY <1>1, <2>2, SealedWhenDone, LargeIds DEF HU!ChannelOpenResponse
    <3>2. QED
        BY <2>4, <2>6, <3>1, Few DEF Answered
  <2>10. Media(11)
    <3>1. state' = "ACTIVE" /\ frames' = 0
        BY <1>1, <1>3, <2>4, <2>7
    <3>2. /\ session_by_channel' \in [{0, 1, 2, 3, 6} -> Int]
          /\ session_by_channel'[6] = NoSession
          /\ 11 >= 20 => session_by_channel'[2] = 1
        BY <1>1, <1>3, <2>4, <2>8
    <3>3. input_bound' \in BOOLEAN /\ (input_bound => input_bound')
        BY <1>1, <2>4
    <3>4. input_bound' \in BOOLEAN /\ (11 >= 25 => input_bound')
        BY <1>1, <1>3, <3>3
    <3>5. QED
        BY <3>1, <3>2, <3>4 DEF Media
  <2>11. stage' = StageAt(11) /\ tls' = TlsAt(11) /\ conn' = "up"
      BY <1>2, <1>3, <2>4
  <2>12. 10 + 1 = 11
      OBVIOUS
  <2>13. QED
      BY <1>3, <2>3, <2>9, <2>10, <2>11, <2>12 DEF HeadUnitMoves
<1>4. CASE k = 12
  <2>1. PICK m : m = Msg(INPUT, CHANNEL_OPEN_REQUEST, "sealed", 0)
      OBVIOUS
  <2>2. /\ m.ch = INPUT
        /\ m.mid = CHANNEL_OPEN_REQUEST
        /\ m.enc = "sealed"
        /\ m.val = 0
      BY <2>1, SameMsg
  <2>3. Head(Asked(12)) = m /\ Tail(Asked(12)) = Asked(13)
      BY <2>1, Few DEF Asked
  <2>4. /\ UNCHANGED <<stage, state, tls, conn>>
        /\ out' = HU!Reply(m)
        /\ session_by_channel' = HU!SessionsAfter(m)
        /\ IF HU!IsMedia(m) /\ m.ch = VIDEO THEN frames' = frames + 1
                                            ELSE frames' = frames
        /\ input_bound' = (input_bound \/ (m.ch = INPUT /\ m.mid = BINDING_REQUEST))
      BY <1>1, <1>4, <2>2, <2>3, Dispatched
  <2>5. m.mid <= 100
      BY <2>2, LargeIds
  <2>6. HU!Reply(m) = HU!ChannelOpenResponse(m.ch) \o <<>>
      BY <2>2, <2>5, LargeIds, LargeIdsDiffer
      DEF HU!Reply, HU!OnMediaChannel, HU!IsMedia
  <2>7. ~(HU!IsMedia(m) /\ m.ch = VIDEO)
      BY <2>2, LargeIds DEF HU!IsMedia, HU!OnMediaChannel
  <2>8. HU!SessionsAfter(m) = session_by_channel
      BY <2>2, Small, LargeIds, LargeIdsDiffer
      DEF HU!SessionsAfter, HU!OnMediaChannel
  <2>9. out' = Answered(13)
    <3>1. HU!ChannelOpenResponse(m.ch) = <<Msg(INPUT, CHANNEL_OPEN_RESPONSE, "sealed", 0)>>
        BY <1>1, <2>2, SealedWhenDone, LargeIds DEF HU!ChannelOpenResponse
    <3>2. QED
        BY <2>4, <2>6, <3>1, Few DEF Answered
  <2>10. Media(13)
    <3>1. state' = "ACTIVE" /\ frames' = 0
        BY <1>1, <1>4, <2>4, <2>7
    <3>2. /\ session_by_channel' \in [{0, 1, 2, 3, 6} -> Int]
          /\ session_by_channel'[6] = NoSession
          /\ 13 >= 20 => session_by_channel'[2] = 1
        BY <1>1, <1>4, <2>4, <2>8
    <3>3. input_bound' \in BOOLEAN /\ (input_bound => input_bound')
        BY <1>1, <2>4
    <3>4. input_bound' \in BOOLEAN /\ (13 >= 25 => input_bound')
        BY <1>1, <1>4, <3>3
    <3>5. QED
        BY <3>1, <3>2, <3>4 DEF Media
  <2>11. stage' = StageAt(13) /\ tls' = TlsAt(13) /\ conn' = "up"
      BY <1>2, <1>4, <2>4
  <2>12. 12 + 1 = 13
      OBVIOUS
  <2>13. QED
      BY <1>4, <2>3, <2>9, <2>10, <2>11, <2>12 DEF HeadUnitMoves
<1>5. CASE k = 14
  <2>1. PICK m : m = Msg(MEDIA_AUDIO, CHANNEL_OPEN_REQUEST, "sealed", 0)
      OBVIOUS
  <2>2. /\ m.ch = MEDIA_AUDIO
        /\ m.mid = CHANNEL_OPEN_REQUEST
        /\ m.enc = "sealed"
        /\ m.val = 0
      BY <2>1, SameMsg
  <2>3. Head(Asked(14)) = m /\ Tail(Asked(14)) = Asked(15)
      BY <2>1, Few DEF Asked
  <2>4. /\ UNCHANGED <<stage, state, tls, conn>>
        /\ out' = HU!Reply(m)
        /\ session_by_channel' = HU!SessionsAfter(m)
        /\ IF HU!IsMedia(m) /\ m.ch = VIDEO THEN frames' = frames + 1
                                            ELSE frames' = frames
        /\ input_bound' = (input_bound \/ (m.ch = INPUT /\ m.mid = BINDING_REQUEST))
      BY <1>1, <1>5, <2>2, <2>3, Dispatched
  <2>5. m.mid <= 100
      BY <2>2, LargeIds
  <2>6. HU!Reply(m) = HU!ChannelOpenResponse(m.ch) \o <<>>
      BY <2>2, <2>5, LargeIds, LargeIdsDiffer
      DEF HU!Reply, HU!OnMediaChannel, HU!IsMedia
  <2>7. ~(HU!IsMedia(m) /\ m.ch = VIDEO)
      BY <2>2, LargeIds DEF HU!IsMedia, HU!OnMediaChannel
  <2>8. HU!SessionsAfter(m) = session_by_channel
      BY <2>2, Small, LargeIds, LargeIdsDiffer
      DEF HU!SessionsAfter, HU!OnMediaChannel
  <2>9. out' = Answered(15)
    <3>1. HU!ChannelOpenResponse(m.ch) = <<Msg(MEDIA_AUDIO, CHANNEL_OPEN_RESPONSE, "sealed", 0)>>
        BY <1>1, <2>2, SealedWhenDone, LargeIds DEF HU!ChannelOpenResponse
    <3>2. QED
        BY <2>4, <2>6, <3>1, Few DEF Answered
  <2>10. Media(15)
    <3>1. state' = "ACTIVE" /\ frames' = 0
        BY <1>1, <1>5, <2>4, <2>7
    <3>2. /\ session_by_channel' \in [{0, 1, 2, 3, 6} -> Int]
          /\ session_by_channel'[6] = NoSession
          /\ 15 >= 20 => session_by_channel'[2] = 1
        BY <1>1, <1>5, <2>4, <2>8
    <3>3. input_bound' \in BOOLEAN /\ (input_bound => input_bound')
        BY <1>1, <2>4
    <3>4. input_bound' \in BOOLEAN /\ (15 >= 25 => input_bound')
        BY <1>1, <1>5, <3>3
    <3>5. QED
        BY <3>1, <3>2, <3>4 DEF Media
  <2>11. stage' = StageAt(15) /\ tls' = TlsAt(15) /\ conn' = "up"
      BY <1>2, <1>5, <2>4
  <2>12. 14 + 1 = 15
      OBVIOUS
  <2>13. QED
      BY <1>5, <2>3, <2>9, <2>10, <2>11, <2>12 DEF HeadUnitMoves
<1>6. CASE k = 16
  <2>1. PICK m : m = Msg(VIDEO, SETUP_REQUEST, "sealed", 0)
      OBVIOUS
  <2>2. m.ch = VIDEO /\ m.mid = SETUP_REQUEST /\ m.enc = "sealed" /\ m.val = 0
      BY <2>1, SameMsg
  <2>3. Head(Asked(16)) = m /\ Tail(Asked(16)) = Asked(17)
      BY <2>1, Few DEF Asked
  <2>4. /\ UNCHANGED <<stage, state, tls, conn>>
        /\ out' = HU!Reply(m)
        /\ session_by_channel' = HU!SessionsAfter(m)
        /\ IF HU!IsMedia(m) /\ m.ch = VIDEO THEN frames' = frames + 1
                                            ELSE frames' = frames
        /\ input_bound' = (input_bound \/ (m.ch = INPUT /\ m.mid = BINDING_REQUEST))
      BY <1>1, <1>6, <2>2, <2>3, Dispatched
  <2>5. m.mid = HU!SETUP_REQUEST /\ m.mid > 100
      BY <2>2, LargeIds
  <2>6. HU!Reply(m) = HU!SetupResponse(m.ch) \o HU!VideoFocus
      BY <2>2, <2>5, LargeIds, LargeIdsDiffer
      DEF HU!Reply, HU!OnMediaChannel, HU!IsMedia
  <2>7. ~(HU!IsMedia(m) /\ m.ch = VIDEO)
      BY <2>2, LargeIds DEF HU!IsMedia, HU!OnMediaChannel
  <2>8. HU!SessionsAfter(m) = session_by_channel
      BY <2>2, Small, LargeIds, LargeIdsDiffer
      DEF HU!SessionsAfter, HU!OnMediaChannel
  <2>9. out' = Answered(17)
    <3>1. /\ HU!SetupResponse(m.ch) = <<Msg(VIDEO, SETUP_RESPONSE, "sealed", 0)>>
          /\ HU!VideoFocus = <<Focus>>
        BY <1>1, <2>2, SealedWhenDone, LargeIds
        DEF HU!SetupResponse, HU!VideoFocus, Focus
    <3>2. QED
        BY <2>4, <2>6, <3>1, Few DEF Answered
  <2>10. Media(17)
    <3>1. state' = "ACTIVE" /\ frames' = 0
        BY <1>1, <1>6, <2>4, <2>7
    <3>2. /\ session_by_channel' \in [{0, 1, 2, 3, 6} -> Int]
          /\ session_by_channel'[6] = NoSession
          /\ 17 >= 20 => session_by_channel'[2] = 1
        BY <1>1, <1>6, <2>4, <2>8
    <3>3. input_bound' \in BOOLEAN /\ (input_bound => input_bound')
        BY <1>1, <2>4
    <3>4. input_bound' \in BOOLEAN /\ (17 >= 25 => input_bound')
        BY <1>1, <1>6, <3>3
    <3>5. QED
        BY <3>1, <3>2, <3>4 DEF Media
  <2>11. stage' = StageAt(17) /\ tls' = TlsAt(17) /\ conn' = "up"
      BY <1>2, <1>6, <2>4
  <2>12. 16 + 1 = 17
      OBVIOUS
  <2>13. QED
      BY <1>6, <2>3, <2>9, <2>10, <2>11, <2>12 DEF HeadUnitMoves
<1>7. CASE k = 19
  <2>1. PICK m : m = Msg(VIDEO, START_INDICATION, "sealed", 1)
      OBVIOUS
  <2>2. m.ch = VIDEO /\ m.mid = START_INDICATION /\ m.enc = "sealed" /\ m.val = 1
      BY <2>1, SameMsg
  <2>3. Head(Asked(19)) = m /\ Tail(Asked(19)) = Asked(20)
      BY <2>1, Few DEF Asked
  <2>4. /\ UNCHANGED <<stage, state, tls, conn>>
        /\ out' = HU!Reply(m)
        /\ session_by_channel' = HU!SessionsAfter(m)
        /\ IF HU!IsMedia(m) /\ m.ch = VIDEO THEN frames' = frames + 1
                                            ELSE frames' = frames
        /\ input_bound' = (input_bound \/ (m.ch = INPUT /\ m.mid = BINDING_REQUEST))
      BY <1>1, <1>7, <2>2, <2>3, Dispatched
  <2>5. m.mid = HU!START_INDICATION /\ m.mid > 100
      BY <2>2, LargeIds
  <2>6. HU!Reply(m) = <<>>
      BY <2>2, <2>5, LargeIds, LargeIdsDiffer
      DEF HU!Reply, HU!OnMediaChannel, HU!IsMedia
  <2>7. ~(HU!IsMedia(m) /\ m.ch = VIDEO)
      BY <2>2, LargeIds DEF HU!IsMedia, HU!OnMediaChannel
  <2>8. HU!SessionsAfter(m) = [session_by_channel EXCEPT ![2] = 1]
      BY <2>2, <2>5, Small, LargeIds, LargeIdsDiffer
      DEF HU!SessionsAfter, HU!OnMediaChannel
  <2>9. out' = Answered(20)
      BY <2>4, <2>6 DEF Answered
  <2>10. Media(20)
    <3>1. state' = "ACTIVE" /\ frames' = 0
        BY <1>1, <1>7, <2>4, <2>7
    <3>2. /\ session_by_channel' \in [{0, 1, 2, 3, 6} -> Int]
          /\ session_by_channel'[6] = NoSession
          /\ 20 >= 20 => session_by_channel'[2] = 1
        BY <1>1, <1>7, <2>4, <2>8
    <3>3. input_bound' \in BOOLEAN /\ (input_bound => input_bound')
        BY <1>1, <2>4
    <3>4. input_bound' \in BOOLEAN /\ (20 >= 25 => input_bound')
        BY <1>1, <1>7, <3>3
    <3>5. QED
        BY <3>1, <3>2, <3>4 DEF Media
  <2>11. stage' = StageAt(20) /\ tls' = TlsAt(20) /\ conn' = "up"
      BY <1>2, <1>7, <2>4
  <2>12. 19 + 1 = 20
      OBVIOUS
  <2>13. QED
      BY <1>7, <2>3, <2>9, <2>10, <2>11, <2>12 DEF HeadUnitMoves
<1>8. CASE k = 20
  <2>1. PICK m : m = Msg(VIDEO, MEDIA_DATA, "plain", 0)
      OBVIOUS
  <2>2. m.ch = VIDEO /\ m.mid = MEDIA_DATA /\ m.enc = "plain" /\ m.val = 0
      BY <2>1, SameMsg
  <2>3. Head(Asked(20)) = m /\ Tail(Asked(20)) = Asked(21)
      BY <2>1, Few DEF Asked, Picture
  <2>4. /\ UNCHANGED <<stage, state, tls, conn>>
        /\ out' = HU!Reply(m)
        /\ session_by_channel' = HU!SessionsAfter(m)
        /\ IF HU!IsMedia(m) /\ m.ch = VIDEO THEN frames' = frames + 1
                                            ELSE frames' = frames
        /\ input_bound' = (input_bound \/ (m.ch = INPUT /\ m.mid = BINDING_REQUEST))
      BY <1>1, <1>8, <2>2, <2>3, Dispatched
  <2>5. m.mid <= 100
      BY <2>2, LargeIds
  <2>6. HU!Reply(m) = HU!Ack(m)
      BY <2>2, <2>5, LargeIds, LargeIdsDiffer
      DEF HU!Reply, HU!OnMediaChannel, HU!IsMedia
  <2>7. (HU!IsMedia(m) /\ m.ch = VIDEO)
      BY <2>2, LargeIds DEF HU!IsMedia, HU!OnMediaChannel
  <2>8. HU!SessionsAfter(m) = session_by_channel
      BY <2>2, Small, LargeIds, LargeIdsDiffer
      DEF HU!SessionsAfter, HU!OnMediaChannel
  <2>9. HU!AckSession(m.ch) = 1
      BY <1>1, <1>8, <2>2, Small DEF HU!AckSession
  <2>10. out' = Answered(21)
    <3>1. HU!Ack(m) = <<Msg(VIDEO, AV_MEDIA_ACK_INDICATION, "sealed", 1)>>
        BY <1>1, <2>2, <2>9, SealedWhenDone, LargeIds DEF HU!Ack
    <3>2. QED
        BY <2>4, <2>6, <3>1, Few DEF Answered
  <2>11. Media(21)
    <3>1. state' = "ACTIVE" /\ frames' = 1
        BY <1>1, <1>8, <2>4, <2>7
    <3>2. /\ session_by_channel' \in [{0, 1, 2, 3, 6} -> Int]
          /\ session_by_channel'[6] = NoSession
          /\ 21 >= 20 => session_by_channel'[2] = 1
        BY <1>1, <1>8, <2>4, <2>8
    <3>3. input_bound' \in BOOLEAN /\ (input_bound => input_bound')
        BY <1>1, <2>4
    <3>4. input_bound' \in BOOLEAN /\ (21 >= 25 => input_bound')
        BY <1>1, <1>8, <3>3
    <3>5. QED
        BY <3>1, <3>2, <3>4 DEF Media
  <2>12. stage' = StageAt(21) /\ tls' = TlsAt(21) /\ conn' = "up"
      BY <1>2, <1>8, <2>4
  <2>13. 20 + 1 = 21
      OBVIOUS
  <2>14. QED
      BY <1>8, <2>3, <2>10, <2>11, <2>12, <2>13 DEF HeadUnitMoves
<1>9. CASE k = 22
  <2>1. PICK m : m = Msg(MEDIA_AUDIO, MEDIA_DATA, "plain", 0)
      OBVIOUS
  <2>2. m.ch = MEDIA_AUDIO /\ m.mid = MEDIA_DATA /\ m.enc = "plain" /\ m.val = 0
      BY <2>1, SameMsg
  <2>3. Head(Asked(22)) = m /\ Tail(Asked(22)) = Asked(23)
      BY <2>1, Few DEF Asked
  <2>4. /\ UNCHANGED <<stage, state, tls, conn>>
        /\ out' = HU!Reply(m)
        /\ session_by_channel' = HU!SessionsAfter(m)
        /\ IF HU!IsMedia(m) /\ m.ch = VIDEO THEN frames' = frames + 1
                                            ELSE frames' = frames
        /\ input_bound' = (input_bound \/ (m.ch = INPUT /\ m.mid = BINDING_REQUEST))
      BY <1>1, <1>9, <2>2, <2>3, Dispatched
  <2>5. m.mid <= 100
      BY <2>2, LargeIds
  <2>6. HU!Reply(m) = HU!Ack(m)
      BY <2>2, <2>5, LargeIds, LargeIdsDiffer
      DEF HU!Reply, HU!OnMediaChannel, HU!IsMedia
  <2>7. ~(HU!IsMedia(m) /\ m.ch = VIDEO)
      BY <2>2, LargeIds DEF HU!IsMedia, HU!OnMediaChannel
  <2>8. HU!SessionsAfter(m) = session_by_channel
      BY <2>2, Small, LargeIds, LargeIdsDiffer
      DEF HU!SessionsAfter, HU!OnMediaChannel
  <2>9. HU!AckSession(m.ch) = NoSession
      BY <1>1, <1>9, <2>2, Small DEF HU!AckSession
  <2>10. out' = Answered(23)
    <3>1. HU!Ack(m) = <<Msg(MEDIA_AUDIO, AV_MEDIA_ACK_INDICATION, "sealed", NoSession)>>
        BY <1>1, <2>2, <2>9, SealedWhenDone, LargeIds DEF HU!Ack
    <3>2. QED
        BY <2>4, <2>6, <3>1, Few DEF Answered
  <2>11. Media(23)
    <3>1. state' = "ACTIVE" /\ frames' = 1
        BY <1>1, <1>9, <2>4, <2>7
    <3>2. /\ session_by_channel' \in [{0, 1, 2, 3, 6} -> Int]
          /\ session_by_channel'[6] = NoSession
          /\ 23 >= 20 => session_by_channel'[2] = 1
        BY <1>1, <1>9, <2>4, <2>8
    <3>3. input_bound' \in BOOLEAN /\ (input_bound => input_bound')
        BY <1>1, <2>4
    <3>4. input_bound' \in BOOLEAN /\ (23 >= 25 => input_bound')
        BY <1>1, <1>9, <3>3
    <3>5. QED
        BY <3>1, <3>2, <3>4 DEF Media
  <2>12. stage' = StageAt(23) /\ tls' = TlsAt(23) /\ conn' = "up"
      BY <1>2, <1>9, <2>4
  <2>13. 22 + 1 = 23
      OBVIOUS
  <2>14. QED
      BY <1>9, <2>3, <2>10, <2>11, <2>12, <2>13 DEF HeadUnitMoves
<1>10. CASE k = 24
  <2>1. PICK m : m = Msg(INPUT, BINDING_REQUEST, "sealed", 0)
      OBVIOUS
  <2>2. m.ch = INPUT /\ m.mid = BINDING_REQUEST /\ m.enc = "sealed" /\ m.val = 0
      BY <2>1, SameMsg
  <2>3. Head(Asked(24)) = m /\ Tail(Asked(24)) = Asked(25)
      BY <2>1, Few DEF Asked
  <2>4. /\ UNCHANGED <<stage, state, tls, conn>>
        /\ out' = HU!Reply(m)
        /\ session_by_channel' = HU!SessionsAfter(m)
        /\ IF HU!IsMedia(m) /\ m.ch = VIDEO THEN frames' = frames + 1
                                            ELSE frames' = frames
        /\ input_bound' = (input_bound \/ (m.ch = INPUT /\ m.mid = BINDING_REQUEST))
      BY <1>1, <1>10, <2>2, <2>3, Dispatched
  <2>5. m.mid = HU!BINDING_REQUEST /\ m.mid > 100
      BY <2>2, LargeIds
  <2>6. HU!Reply(m) = HU!BindingResponse
      BY <2>2, <2>5, LargeIds, LargeIdsDiffer
      DEF HU!Reply, HU!OnMediaChannel, HU!IsMedia
  <2>7. ~(HU!IsMedia(m) /\ m.ch = VIDEO)
      BY <2>2, LargeIds DEF HU!IsMedia, HU!OnMediaChannel
  <2>8. HU!SessionsAfter(m) = session_by_channel
      BY <2>2, Small, LargeIds, LargeIdsDiffer
      DEF HU!SessionsAfter, HU!OnMediaChannel
  <2>9. out' = Answered(25)
    <3>1. HU!BindingResponse = <<Msg(INPUT, BINDING_RESPONSE, "sealed", 0)>>
        BY <1>1, <2>2, SealedWhenDone, LargeIds DEF HU!BindingResponse
    <3>2. QED
        BY <2>4, <2>6, <3>1, Few DEF Answered
  <2>10. Media(25)
    <3>1. state' = "ACTIVE" /\ frames' = 1
        BY <1>1, <1>10, <2>4, <2>7
    <3>2. /\ session_by_channel' \in [{0, 1, 2, 3, 6} -> Int]
          /\ session_by_channel'[6] = NoSession
          /\ 25 >= 20 => session_by_channel'[2] = 1
        BY <1>1, <1>10, <2>4, <2>8
    <3>3. input_bound' \in BOOLEAN /\ (input_bound => input_bound')
        BY <1>1, <2>4
    <3>4. input_bound' \in BOOLEAN /\ (25 >= 25 => input_bound')
        BY <1>1, <1>10, <2>2, <2>4, <3>3
    <3>5. QED
        BY <3>1, <3>2, <3>4 DEF Media
  <2>11. stage' = StageAt(25) /\ tls' = TlsAt(25) /\ conn' = "up"
      BY <1>2, <1>10, <2>4
  <2>12. 24 + 1 = 25
      OBVIOUS
  <2>13. QED
      BY <1>10, <2>3, <2>9, <2>10, <2>11, <2>12 DEF HeadUnitMoves
<1>11. CASE k = 26
  <2>1. PICK m : m = Msg(CONTROL, PING_REQUEST, "plain", 42)
      OBVIOUS
  <2>2. m.ch = CONTROL /\ m.mid = PING_REQUEST /\ m.enc = "plain" /\ m.val = 42
      BY <2>1, SameMsg
  <2>3. Head(Asked(26)) = m /\ Tail(Asked(26)) = Asked(27)
      BY <2>1, Few DEF Asked
  <2>4. /\ UNCHANGED <<stage, state, tls, conn>>
        /\ out' = HU!Reply(m)
        /\ session_by_channel' = HU!SessionsAfter(m)
        /\ IF HU!IsMedia(m) /\ m.ch = VIDEO THEN frames' = frames + 1
                                            ELSE frames' = frames
        /\ input_bound' = (input_bound \/ (m.ch = INPUT /\ m.mid = BINDING_REQUEST))
      BY <1>1, <1>11, <2>2, <2>3, Dispatched
  <2>5. m.mid <= 100
      BY <2>2, LargeIds
  <2>6. HU!Reply(m) = HU!Plain(CONTROL, PING_RESPONSE, m.val)
      BY <2>2, <2>5, LargeIds, LargeIdsDiffer
      DEF HU!Reply, HU!OnMediaChannel, HU!IsMedia
  <2>7. ~(HU!IsMedia(m) /\ m.ch = VIDEO)
      BY <2>2, LargeIds DEF HU!IsMedia, HU!OnMediaChannel
  <2>8. HU!SessionsAfter(m) = session_by_channel
      BY <2>2, Small, LargeIds, LargeIdsDiffer
      DEF HU!SessionsAfter, HU!OnMediaChannel
  <2>9. out' = Answered(27)
      BY <2>2, <2>4, <2>6, SameMsg DEF Answered, HU!Plain
  <2>10. Media(27)
    <3>1. state' = "ACTIVE" /\ frames' = 1
        BY <1>1, <1>11, <2>4, <2>7
    <3>2. /\ session_by_channel' \in [{0, 1, 2, 3, 6} -> Int]
          /\ session_by_channel'[6] = NoSession
          /\ 27 >= 20 => session_by_channel'[2] = 1
        BY <1>1, <1>11, <2>4, <2>8
    <3>3. input_bound' \in BOOLEAN /\ (input_bound => input_bound')
        BY <1>1, <2>4
    <3>4. input_bound' \in BOOLEAN /\ (27 >= 25 => input_bound')
        BY <1>1, <1>11, <3>3
    <3>5. QED
        BY <3>1, <3>2, <3>4 DEF Media
  <2>11. stage' = StageAt(27) /\ tls' = TlsAt(27) /\ conn' = "up"
      BY <1>2, <1>11, <2>4
  <2>12. 26 + 1 = 27
      OBVIOUS
  <2>13. QED
      BY <1>11, <2>3, <2>9, <2>10, <2>11, <2>12 DEF HeadUnitMoves
<1>12. QED
    BY <1>3, <1>4, <1>5, <1>6, <1>7, <1>8, <1>9, <1>10, <1>11
-----------------------------------------------------------------------------
(* A step of the head unit while the connection is up.                     *)

\* A step of the head unit costs it its turn in run_mock.
LEMMA HeadUnitTurn ==
    ASSUME LoopTyped, Turn("hu", "phone"), conn' = conn
    PROVE  /\ driver' = driver /\ LoopTyped'
           /\ driver = "harness" =>
                 /\ iter \in Nat
                 /\ Turns = 2 * iter + 1 /\ Turns' = 2 * iter + 2
<1>1. driver' = driver
    BY DEF Turn
<1>2. CASE driver = "harness"
  <2>1. turn = "hu" /\ turn' = "phone" /\ iter' = iter + 1
      BY <1>2 DEF Turn
  <2>2. iter \in Nat /\ iter < MaxRounds /\ MaxRounds \in Nat
      BY <1>2, <2>1, BoundsAssumption DEF LoopTyped
  <2>3. LoopTyped'
      BY <1>1, <1>2, <2>1, <2>2 DEF LoopTyped
  <2>4. Turns = 2 * iter + 1 /\ Turns' = 2 * (iter + 1)
      BY <2>1, <2>2 DEF Turns
  <2>5. QED
      BY <1>1, <2>2, <2>3, <2>4
<1>3. CASE driver # "harness"
  <2>1. turn' = turn /\ iter' = iter
      BY <1>3 DEF Turn
  <2>2. QED
      BY <1>1, <1>3, <2>1 DEF LoopTyped
<1>4. QED
    BY <1>2, <1>3

\* The script goes on: what the phone has at k it has at k + 1.
LEMMA HeadUnitPlaces ==
    ASSUME NEW k \in {0} \cup Asks
    PROVE  /\ k \in 0 .. 28 /\ k + 1 \in 0 .. 28 /\ k \notin Spoke
           /\ TlsAt(k) = "done" => TlsAt(k + 1) = "done"
           /\ \A p : PhoneAt(p, k) => PhoneAt(p, k + 1)
           /\ \A n \in Nat : 2 * n + 1 \in TurnsAt(k) => 2 * n + 2 \in TurnsAt(k + 1)
<1>1. k \in 0 .. 28 /\ k + 1 \in 0 .. 28 /\ k \notin Spoke
    BY DEF Asks, Spoke
<1>2. TlsAt(k) = "done" => TlsAt(k + 1) = "done"
    BY DEF Asks, TlsAt
<1>3. ASSUME NEW p, PhoneAt(p, k) PROVE PhoneAt(p, k + 1)
  <2>1. StepAt(k + 1) = StepAt(k)
      BY DEF Asks, StepAt
  <2>2. PhoneTlsAt(k + 1) = PhoneTlsAt(k)
      BY DEF Asks, PhoneTlsAt
  <2>3. /\ k >= 12 <=> k + 1 >= 12
        /\ k >= 14 <=> k + 1 >= 14
        /\ k >= 16 <=> k + 1 >= 16
        /\ k >= 18 <=> k + 1 >= 18
        /\ k >= 19 <=> k + 1 >= 19
        /\ k >= 22 <=> k + 1 >= 22
        /\ k >= 24 <=> k + 1 >= 24
        /\ k >= 26 <=> k + 1 >= 26
        /\ k >= 28 <=> k + 1 >= 28
        /\ k # 28 /\ k + 1 # 28
      BY DEF Asks
  <2>4. Known(p.results, k + 1)
      BY <1>3, <2>3 DEF PhoneAt, Known
  <2>5. QED
      BY <1>3, <2>1, <2>2, <2>3, <2>4 DEF PhoneAt
<1>4. ASSUME NEW n \in Nat, 2 * n + 1 \in TurnsAt(k) PROVE 2 * n + 2 \in TurnsAt(k + 1)
  <2>1. CASE k \in {0, 2, 4, 6, 8, 10, 12, 14, 16}
      BY <1>4, <2>1 DEF TurnsAt
  <2>2. CASE k \in {19, 20}
      BY <1>4, <2>2 DEF TurnsAt
  <2>3. CASE k \in {22, 24, 26}
      BY <1>4, <2>3 DEF TurnsAt
  <2>4. QED
      BY <2>1, <2>2, <2>3 DEF Asks
<1>5. QED
    BY <1>1, <1>2, <1>3, <1>4

\* A turn with nothing for the head unit to read leaves the count of turns
\* right.
LEMMA HeadUnitNothing ==
    ASSUME NEW k \in 0 .. 28, k \notin {0} \cup Asks, NEW n \in Nat, 2 * n + 1 \in TurnsAt(k)
    PROVE  2 * n + 2 \in TurnsAt(k)
<1>1. CASE k \in {1, 3, 5, 7, 9, 11, 13, 15, 17}
    BY <1>1 DEF TurnsAt
<1>2. CASE k \in {18, 21, 23, 25, 27, 28}
    BY <1>2 DEF TurnsAt
<1>3. QED
    BY <1>1, <1>2 DEF Asks

\* The phone has a question under way exactly at the places the head unit is to
\* read one.
LEMMA AskedWhere ==
    ASSUME NEW k \in 0 .. 28 PROVE Asked(k) # <<>> <=> k \in Asks
<1>1. CASE k \in Asks
    BY <1>1 DEF Asked, Asks
<1>2. CASE k \notin Asks
    BY <1>2 DEF Asked, Asks
<1>3. QED
    BY <1>1, <1>2

\* A move of the head unit, the turn it takes and what it writes.
LEMMA HeadUnitAdvances ==
    ASSUME VarsTyped, LoopTyped, NEW k \in {0} \cup Asks, At(k), HeadUnitMoves(k),
           Turn("hu", "phone"), conn = "up", Wrote, UNCHANGED <<ph, cap, told>>,
           toHU' = Asked(k + 1)
    PROVE  VarsTyped' /\ LoopTyped' /\ At(k + 1)'
<1>1. /\ k \in 0 .. 28 /\ k + 1 \in 0 .. 28 /\ Answered(k) = <<>>
      /\ TlsAt(k) = "done" => TlsAt(k + 1) = "done"
      /\ PhoneAt(ph, k + 1)
    BY HeadUnitPlaces, AnsweredWhere DEF At
<1>2. /\ stage' = StageAt(k + 1) /\ tls' = TlsAt(k + 1) /\ conn' = conn
      /\ out' = Answered(k + 1) /\ Media(k + 1)
    BY DEF HeadUnitMoves
<1>3. /\ driver' = driver /\ LoopTyped'
      /\ driver = "harness" => Turns' \in TurnsAt(k + 1)
    BY <1>2, HeadUnitTurn, HeadUnitPlaces DEF At
<1>4. Among \subseteq Among'
    BY <1>1, <1>2, <1>3 DEF At, Among
<1>5. toPhone \in Seq(Among)
    BY <1>1, HoldsNone DEF At
<1>6. toPhone \in Seq(Among')
    BY <1>4, <1>5, SeqMonotonic
<1>7. Answered(k + 1) \in Seq(Answers)
    BY <1>1, ScriptTyped DEF AnsweredTyped
<1>8. toPhone' = toPhone \o Answered(k + 1)
    BY <1>2 DEF Wrote
<1>9. Holds(toPhone', Answered(k + 1), Among')
    BY <1>6, <1>7, <1>8, HoldsWritten
<1>10. Effects(k + 1)'
    BY <1>2 DEF Media, Effects
<1>11. At(k + 1)'
    BY <1>1, <1>2, <1>3, <1>9, <1>10 DEF At
<1>12. VarsTyped'
  <2>1. /\ Answered(k + 1) \in Seq(Answers \cup InputEvents)
        /\ toHU' \in Seq(ScriptMsgs)
      BY <1>1, <1>7, SeqMonotonic, ScriptTyped DEF AskedTyped
  <2>2. toPhone' \in Seq(Answers \cup InputEvents)
      BY <1>8, <2>1, ConcatProperties DEF VarsTyped
  <2>3. stage' \in HU!Stages /\ tls' \in HU!TlsStates
      BY <1>2 DEF StageAt, TlsAt, HU!Stages, HU!TlsStates
  <2>4. /\ state' \in {"IDLE", "ACTIVE", "FAILED"} /\ frames' \in 0 .. 1
        /\ session_by_channel' \in [{0, 1, 2, 3, 6} -> Int]
        /\ input_bound' \in BOOLEAN
      BY <1>2 DEF Media
  <2>5. QED
      BY <1>2, <2>1, <2>2, <2>3, <2>4 DEF VarsTyped, told, Capture!CaptureType
<1>13. QED
    BY <1>3, <1>11, <1>12

\* The first poll of the head unit is its version request.
LEMMA StartMoves ==
    ASSUME VarsTyped, NEW k \in 0 .. 28, At(k), conn = "up", HeadUnitStart
    PROVE  k = 0 /\ HeadUnitMoves(0)
<1>1. HU!PollStart
    BY DEF HeadUnitStart, HU!PollEof
<1>2. /\ stage' = "WAIT_VERSION" /\ state' = state /\ tls' = tls /\ conn' = conn
      /\ UNCHANGED HU!media /\ out' = HU!Plain(CONTROL, VERSION_REQUEST, 0)
      /\ stage = "SEND_VERSION"
    BY <1>1
    DEF HU!PollStart, HU!SendError, HU!Handshake, HU!Written, HU!VersionRequest
<1>3. out' = <<Msg(CONTROL, VERSION_REQUEST, "plain", 0)>>
    BY <1>2, SameMsg DEF HU!Plain
<1>4. k = 0
    BY <1>2 DEF At, StageAt
<1>5. Media(1)
    BY <1>2, <1>4 DEF At, Effects, VarsTyped, Media, HU!media
<1>6. /\ stage' = StageAt(1) /\ tls' = TlsAt(1) /\ out' = Answered(1)
      /\ Asked(1) = <<>> /\ Asked(0) = <<>>
    BY <1>2, <1>3, <1>4 DEF At, StageAt, TlsAt, Answered, Asked
<1>7. 0 + 1 = 1 /\ Tail(<<>>) = <<>>
    OBVIOUS
<1>8. QED
    BY <1>2, <1>4, <1>5, <1>6, <1>7 DEF HeadUnitMoves

\* The version request leads from the first place to the second.
LEMMA StartKeeps ==
    ASSUME VarsTyped, LoopTyped, NEW k \in 0 .. 28, At(k), conn = "up", HeadUnitStart
    PROVE  VarsTyped' /\ LoopTyped' /\ \E j \in 0 .. 28 : At(j)'
<1>1. Turn("hu", "phone") /\ Wrote /\ UNCHANGED <<ph, cap, toHU, told>>
    BY DEF HeadUnitStart
<1>2. k = 0 /\ HeadUnitMoves(0)
    BY StartMoves
<1>3. 0 + 1 = 1 /\ Asked(1) = <<>> /\ Asked(0) = <<>>
    BY DEF Asked
<1>4. toHU' = Asked(0 + 1)
    BY <1>1, <1>2, <1>3 DEF At
<1>5. VarsTyped' /\ LoopTyped' /\ At(0 + 1)'
    BY <1>1, <1>2, <1>4, HeadUnitAdvances
<1>6. QED
    BY <1>3, <1>5

\* When the head unit takes a message, it is at a place where it is asked, and
\* moves by the script.
LEMMA PollMoves ==
    ASSUME VarsTyped, NEW k \in 0 .. 28, At(k), conn = "up", HeadUnitPoll
    PROVE  k \in Asks /\ HeadUnitMoves(k)
<1>1. /\ toHU = Asked(k) /\ stage = StageAt(k) /\ tls = TlsAt(k) /\ Effects(k)
    BY DEF At
<1>2. toHU # <<>> /\ HU!Receive(Head(Asked(k)))
    BY <1>1 DEF HeadUnitPoll
<1>3. k \in Asks
    BY <1>1, <1>2, AskedWhere
<1>4. k \in {2, 4, 6, 8} \/ k \in {10, 12, 14, 16, 19, 20, 22, 24, 26}
    BY <1>3 DEF Asks
<1>5. QED
    BY <1>1, <1>2, <1>3, <1>4, HandshakeMoves, ActiveMoves

\* From every place, a poll that takes a message leads to one of the 29 places.
LEMMA PollKeeps ==
    ASSUME VarsTyped, LoopTyped, NEW k \in 0 .. 28, At(k), conn = "up", HeadUnitPoll
    PROVE  VarsTyped' /\ LoopTyped' /\ \E j \in 0 .. 28 : At(j)'
<1>1. /\ Turn("hu", "phone") /\ toHU' = Tail(Asked(k))
      /\ Wrote /\ UNCHANGED <<ph, cap, told>>
    BY DEF HeadUnitPoll, At
<1>2. k \in Asks /\ HeadUnitMoves(k)
    BY PollMoves
<1>3. toHU' = Asked(k + 1)
    BY <1>1, <1>2 DEF HeadUnitMoves
<1>4. VarsTyped' /\ LoopTyped' /\ At(k + 1)'
    BY <1>1, <1>2, <1>3, HeadUnitAdvances
<1>5. k + 1 \in 0 .. 28
    BY <1>2, HeadUnitPlaces
<1>6. QED
    BY <1>4, <1>5

\* A poll that finds nothing leaves the system at its place.
LEMMA IdleKeeps ==
    ASSUME VarsTyped, LoopTyped, NEW k \in 0 .. 28, At(k), conn = "up", HeadUnitIdle
    PROVE  VarsTyped' /\ LoopTyped' /\ At(k)'
<1>1. /\ driver = "harness"
      /\ Turn("hu", "phone")
      /\ stage # "SEND_VERSION"
      /\ toHU = <<>>
      /\ UNCHANGED <<hu, ph, cap, toHU, toPhone, told>>
    BY DEF HeadUnitIdle
<1>2. k \notin {0} \cup Asks
  <2>1. stage = StageAt(k) /\ Asked(k) = <<>> /\ StageAt(0) = "SEND_VERSION"
      BY <1>1 DEF At, StageAt
  <2>2. QED
      BY <1>1, <2>1, AskedWhere
<1>3. /\ driver' = driver /\ LoopTyped' /\ iter \in Nat
      /\ Turns = 2 * iter + 1 /\ Turns' = 2 * iter + 2
    BY <1>1, HeadUnitTurn DEF hu
<1>4. Turns' \in TurnsAt(k)
    BY <1>1, <1>2, <1>3, HeadUnitNothing DEF At
<1>5. VarsTyped'
    BY <1>1 DEF VarsTyped, hu, told, Capture!CaptureType
<1>6. /\ stage' = StageAt(k) /\ tls' = TlsAt(k) /\ Effects(k)' /\ Among' = Among
    BY <1>1, <1>3, AtSame DEF At
<1>7. At(k)'
    BY <1>1, <1>4, <1>6 DEF At
<1>8. QED
    BY <1>3, <1>5, <1>7
-----------------------------------------------------------------------------
(* What the user does.                                                     *)

\* The key table of handle_input has ten rows.
LEMMA KeysAre == DOMAIN Capture!Keys = 1 .. 10
    BY DEF Capture!Keys

\* The difference of one button is a queue of at most one key event.
LEMMA KeyEventTyped ==
    ASSUME NEW pad, NEW k \in 1 .. 10
    PROVE  Capture!KeyChange(pad, k) \in Seq(Event)
<1>1. Capture!Keys[k][2] \in Capture!KeyCodes
    BY KeysAre DEF Capture!KeyCodes
<1>2. \A d \in BOOLEAN : Capture!KeyEvent(Capture!Keys[k][2], d) \in Event
    BY <1>1 DEF Capture!KeyEvent, Event
<1>3. PICK e : e = Capture!KeyEvent(Capture!Keys[k][2], Capture!Keys[k][1] \in pad)
    OBVIOUS
<1>4. (Capture!Keys[k][1] \in pad) \in BOOLEAN
    OBVIOUS
<1>5. e \in Event
    BY <1>2, <1>3, <1>4
<1>6. <<e>> \in Seq(Event) /\ <<>> \in Seq(Event)
    BY <1>5
<1>7. QED
    BY <1>3, <1>6 DEF Capture!KeyChange

\* The panel is larger than the video frame, and comes down to it.
LEMMA ScaleTyped ==
    ASSUME NEW touch \in Touches, touch # Capture!NoTouch
    PROVE  Capture!Scale(touch) \in (0 .. Capture!VideoWidth - 1) \X (0 .. Capture!VideoHeight - 1)
<1>1. touch \in (0 .. 1919) \X (0 .. 1087)
    BY TouchesAssumption DEF Capture!PanelWidth, Capture!PanelHeight
<1>2. touch[1] \in 0 .. 1919 /\ touch[2] \in 0 .. 1087
    BY <1>1
<1>3. PICK x : x = touch[1]
    OBVIOUS
<1>4. PICK y : y = touch[2]
    OBVIOUS
<1>5. x \in 0 .. 1919 /\ y \in 0 .. 1087
    BY <1>2, <1>3, <1>4
<1>6. PICK a : a = (x * 2) \div 3
    OBVIOUS
<1>7. PICK b : b = (y * 720) \div 1088
    OBVIOUS
<1>8. a \in 0 .. 1279
    BY <1>5, <1>6
<1>9. b \in 0 .. 719
    BY <1>5, <1>7
<1>10. Capture!Scale(touch) = <<a, b>>
    BY <1>3, <1>4, <1>6, <1>7
    DEF Capture!Scale, Capture!VideoHeight, Capture!PanelHeight
<1>11. Capture!VideoWidth - 1 = 1279 /\ Capture!VideoHeight - 1 = 719
    BY DEF Capture!VideoWidth, Capture!VideoHeight
<1>12. ASSUME NEW A, NEW B, a \in A, b \in B PROVE <<a, b>> \in A \X B
    BY <1>12
<1>13. PICK A : A = 0 .. 1279
    OBVIOUS
<1>14. PICK B : B = 0 .. 719
    OBVIOUS
<1>15. <<a, b>> \in A \X B
    BY <1>8, <1>9, <1>12, <1>13, <1>14
<1>16. 0 .. Capture!VideoWidth - 1 = A /\ 0 .. Capture!VideoHeight - 1 = B
  <2>1. PICK v : v = Capture!VideoWidth - 1
      OBVIOUS
  <2>2. PICK h : h = Capture!VideoHeight - 1
      OBVIOUS
  <2>3. v = 1279 /\ h = 719
      BY <1>11, <2>1, <2>2
  <2>4. 0 .. v = A
      BY <1>13, <2>3, Zenon
  <2>5. 0 .. h = B
      BY <1>14, <2>3, Zenon
  <2>6. QED
      BY <2>1, <2>2, <2>4, <2>5
<1>17. QED
    BY <1>10, <1>15, <1>16

\* The touch panel reports at most one event.
LEMMA TouchEventsTyped ==
    ASSUME Capture!CaptureType, NEW touch \in Touches
    PROVE  Capture!TouchEvents(touch) \in Seq(Event)
<1>1. ASSUME NEW action \in 0 .. 2,
             NEW at \in (0 .. Capture!VideoWidth - 1) \X (0 .. Capture!VideoHeight - 1)
      PROVE  <<Capture!TouchEvent(action, at)>> \in Seq(Event)
  <2>1. Capture!TouchEvent(action, at) \in Event
      BY DEF Capture!TouchEvent, Event
  <2>2. QED
      BY <2>1
<1>2. CASE touch # Capture!NoTouch
  <2>1. Capture!TouchAction \in 0 .. 2
      BY DEF Capture!TouchAction, Capture!ACTION_DOWN, Capture!ACTION_MOVED
  <2>2. <<Capture!TouchEvent(Capture!TouchAction, Capture!Scale(touch))>> \in Seq(Event)
      BY <1>1, <1>2, <2>1, ScaleTyped
  <2>3. QED
      BY <1>2, <2>2 DEF Capture!TouchEvents
<1>3. CASE touch = Capture!NoTouch
  <2>1. cap.at \in (0 .. Capture!VideoWidth - 1) \X (0 .. Capture!VideoHeight - 1)
      BY DEF Capture!CaptureType
  <2>2. <<Capture!TouchEvent(Capture!ACTION_UP, cap.at)>> \in Seq(Event)
      BY <1>1, <2>1 DEF Capture!ACTION_UP
  <2>3. <<>> \in Seq(Event)
      OBVIOUS
  <2>4. QED
      BY <1>3, <2>2, <2>3 DEF Capture!TouchEvents
<1>4. QED
    BY <1>2, <1>3

\* All that handle_input reports is a queue of events.
LEMMA EventsTyped ==
    ASSUME Capture!CaptureType, NEW pad \in Pads, NEW touch \in Touches
    PROVE  Capture!EventsOf(pad, touch) \in Seq(Event)
<1>1. \A k \in 1 .. 10 : Capture!KeyChange(pad, k) \in Seq(Event)
    BY KeyEventTyped
<1>2. ASSUME NEW s \in Seq(Event), NEW t \in Seq(Event) PROVE s \o t \in Seq(Event)
    BY ConcatProperties
<1>3. Capture!KeyEvents(pad) \in Seq(Event)
    BY <1>1, <1>2 DEF Capture!KeyEvents
<1>4. Capture!TouchEvents(touch) \in Seq(Event)
    BY TouchEventsTyped
<1>5. QED
    BY <1>2, <1>3, <1>4 DEF Capture!EventsOf

\* What handle_input remembers of a sample keeps the type of its state.
LEMMA RememberTyped ==
    ASSUME Capture!CaptureType, NEW pad \in Pads, NEW touch \in Touches,
           Capture!Remember(pad, touch)
    PROVE  Capture!CaptureType'
<1>1. pad \in SUBSET Capture!Buttons /\ (touch # Capture!NoTouch) \in BOOLEAN
    BY PadsAssumption
<1>2. (IF touch # Capture!NoTouch THEN Capture!Scale(touch) ELSE cap.at)
      \in (0 .. Capture!VideoWidth - 1) \X (0 .. Capture!VideoHeight - 1)
    BY ScaleTyped DEF Capture!CaptureType
<1>3. PICK b \in BOOLEAN : b = (touch # Capture!NoTouch)
    OBVIOUS
<1>4. PICK at : at =
      IF touch # Capture!NoTouch THEN Capture!Scale(touch) ELSE cap.at
    OBVIOUS
<1>5. cap' = [buttons |-> pad, touch |-> b, at |-> at]
    BY <1>3, <1>4 DEF Capture!Remember
<1>6. QED
    BY <1>1, <1>2, <1>3, <1>4, <1>5 DEF Capture!CaptureType

\* Every event is about a key of the table or about the touch pad, control 0.
LEMMA ControlTyped ==
    ASSUME NEW e \in Event PROVE ControlOf(e) \in Capture!KeyCodes \cup {0}
<1>1. CASE e \in [key : Capture!KeyCodes, down : BOOLEAN]
  <2>1. DOMAIN e = {"key", "down"} /\ e.key \in Capture!KeyCodes
      BY <1>1
  <2>2. ~Capture!IsTouchEvent(e)
      BY <2>1 DEF Capture!IsTouchEvent
  <2>3. QED
      BY <2>1, <2>2 DEF ControlOf
<1>2. CASE e \notin [key : Capture!KeyCodes, down : BOOLEAN]
  <2>1. DOMAIN e = {"action", "at"}
      BY <1>2 DEF Event
  <2>2. QED
      BY <2>1 DEF ControlOf, Capture!IsTouchEvent
<1>3. QED
    BY <1>1, <1>2

\* What the events go out as once TLS is done.
LEMMA InputWritten ==
    ASSUME NEW events, tls = "done"
    PROVE  HU!InputMessages(events)
           = [k \in DOMAIN events |->
                 Msg(INPUT, INPUT_EVENT_INDICATION, "sealed", events[k])]
<1>1. \A v : HU!SealedNow(INPUT, INPUT_EVENT_INDICATION, v)
             = <<Msg(INPUT, INPUT_EVENT_INDICATION, "sealed", v)>>
    BY SealedWhenDone
<1>2. PICK id : id = INPUT_EVENT_INDICATION
    OBVIOUS
<1>3. HU!SealedNow(INPUT, id, 0) # <<>>
  <2>1. PICK m : m = Msg(INPUT, id, "sealed", 0)
      OBVIOUS
  <2>2. <<m>> # <<>>
      OBVIOUS
  <2>3. QED
      BY <1>1, <1>2, <2>1, <2>2
<1>4. \A v : HU!SealedNow(INPUT, id, v)[1] = Msg(INPUT, id, "sealed", v)
    BY <1>1, <1>2
<1>5. HU!INPUT_EVENT_INDICATION = id
    BY <1>2, LargeIds
<1>6. HU!InputMessages(events)
      = [k \in DOMAIN events |-> Msg(INPUT, id, "sealed", events[k])]
    BY <1>3, <1>4, <1>5 DEF HU!InputMessages
<1>7. QED
    BY <1>2, <1>6

\* Only sealed: nothing goes out before that.
LEMMA InputSealed ==
    ASSUME NEW events \in Seq(Event)
    PROVE  /\ tls = "done" => HU!InputMessages(events) \in Seq(InputEvents)
           /\ tls \in {"hello", "finished"} => HU!InputMessages(events) = <<>>
<1>1. CASE tls = "done"
  <2>1. PICK id : id = INPUT_EVENT_INDICATION
      OBVIOUS
  <2>2. HU!InputMessages(events)
        = [k \in DOMAIN events |-> Msg(INPUT, id, "sealed", events[k])]
      BY <1>1, <2>1, InputWritten
  <2>3. DOMAIN events = 1 .. Len(events) /\ Len(events) \in Nat
      BY LenProperties
  <2>4. \A k \in 1 .. Len(events) : Msg(INPUT, id, "sealed", events[k]) \in InputEvents
    <3>1. \A v \in Event : Msg(INPUT, id, "sealed", v) \in InputEvents
        BY <2>1 DEF Msg, InputEvents
    <3>2. QED
        BY <3>1, ElementOfSeq
  <2>5. [k \in 1 .. Len(events) |-> Msg(INPUT, id, "sealed", events[k])]
        \in [1 .. Len(events) -> InputEvents]
      BY <2>4
  <2>6. QED
      BY <1>1, <2>2, <2>3, <2>5, SeqDef
<1>2. CASE tls \in {"hello", "finished"}
    BY <1>2 DEF HU!InputMessages, HU!SealedNow
<1>3. QED
    BY <1>1, <1>2
-----------------------------------------------------------------------------
(* The user and the connection, while it is up and when it is closed.      *)

\* What a turn of handle_input leaves typed, whatever it wrote.
LEMMA TouchTyped ==
    ASSUME VarsTyped, NEW pad \in Pads, NEW touch \in Touches, HeadUnitTouch(pad, touch),
           out' \in Seq(InputEvents)
    PROVE  VarsTyped'
<1>1. PICK events : events = Capture!EventsOf(pad, touch)
    OBVIOUS
<1>2. events \in Seq(Event) /\ DOMAIN events = 1 .. Len(events)
    BY <1>1, EventsTyped, LenProperties DEF VarsTyped
<1>3. PICK begun : begun =
      {ControlOf(events[k]) : k \in {j \in DOMAIN events : Begins(events[j])}}
    OBVIOUS
<1>4. PICK ended : ended =
      {ControlOf(events[k]) : k \in {j \in DOMAIN events : Ends(events[j])}}
    OBVIOUS
<1>5. begun \subseteq Capture!KeyCodes \cup {0}
  <2>1. \A k \in DOMAIN events : events[k] \in Event
      BY <1>2, ElementOfSeq
  <2>2. \A k \in DOMAIN events : ControlOf(events[k]) \in Capture!KeyCodes \cup {0}
      BY <2>1, ControlTyped
  <2>3. QED
      BY <1>3, <2>2
<1>6. /\ seen' = IF out' = <<>> THEN seen ELSE (seen \cup begun) \ ended
      /\ orphan' = (IF out' = <<>> THEN orphan \cup begun ELSE orphan) \ ended
    BY <1>1, <1>3, <1>4 DEF HeadUnitTouch
<1>7. seen' \cup orphan' \subseteq Capture!KeyCodes \cup {0}
  <2>1. seen \cup orphan \subseteq Capture!KeyCodes \cup {0}
      BY DEF VarsTyped
  <2>2. PICK Codes : Codes = Capture!KeyCodes \cup {0}
      OBVIOUS
  <2>3. QED
      BY <1>5, <1>6, <2>1, <2>2
<1>8. /\ UNCHANGED <<stage, state, tls, session_by_channel, input_bound, conn, frames, ph, toHU>>
      /\ toPhone' = toPhone \o out'
    BY DEF HeadUnitTouch, HU!SendInput, Wrote, HU!media
<1>9. out' \in Seq(Answers \cup InputEvents)
    BY SeqMonotonic
<1>10. toPhone' \in Seq(Answers \cup InputEvents)
    BY <1>8, <1>9, ConcatProperties DEF VarsTyped
<1>11. Capture!CaptureType'
    BY RememberTyped DEF HeadUnitTouch, VarsTyped
<1>12. QED
    BY <1>7, <1>8, <1>9, <1>10, <1>11 DEF VarsTyped

\* Input events go to the phone beside the script: the system stays at its
\* place.
LEMMA TouchKeeps ==
    ASSUME LateInput, VarsTyped, LoopTyped, NEW k \in 0 .. 28, At(k), conn = "up",
           NEW pad \in Pads, NEW touch \in Touches, HeadUnitTouch(pad, touch)
    PROVE  VarsTyped' /\ LoopTyped' /\ At(k)'
<1>1. PICK events : events = Capture!EventsOf(pad, touch)
    OBVIOUS
<1>2. events \in Seq(Event)
    BY <1>1, EventsTyped DEF VarsTyped
<1>3. /\ driver = "apart" /\ stage \in TouchStages /\ Wrote
      /\ out' = HU!InputMessages(events)
      /\ UNCHANGED <<stage, state, tls, session_by_channel, input_bound, conn, frames,
                     ph, toHU, driver, turn, iter>>
    BY <1>1 DEF HeadUnitTouch, HU!SendInput, HU!Written, HU!media, loop
<1>4. tls \in {"hello", "finished", "done"}
  <2>1. stage \notin {"SEND_VERSION", "WAIT_VERSION"}
      BY <1>3, TouchAssumption DEF LateInput
  <2>2. QED
      BY <2>1 DEF At, StageAt, TlsAt
<1>5. out' \in Seq(Among)
  <2>1. CASE tls = "done"
      BY <1>2, <1>3, <2>1, InputSealed DEF Among
  <2>2. CASE tls \in {"hello", "finished"}
    <3>1. out' = <<>>
        BY <1>2, <1>3, <2>2, InputSealed
    <3>2. QED
        BY <3>1
  <2>3. QED
      BY <1>4, <2>1, <2>2
<1>6. out' \in Seq(InputEvents)
  <2>1. Among \subseteq InputEvents
      BY DEF Among
  <2>2. QED
      BY <1>5, <2>1, SeqMonotonic
<1>7. Holds(toPhone', Answered(k), Among)
    BY <1>3, <1>5, HoldsMore, ScriptTyped DEF AnsweredTyped, At, Wrote
<1>8. VarsTyped' /\ LoopTyped'
    BY <1>3, <1>6, TouchTyped DEF LoopTyped
<1>9. Effects(k)' /\ Among' = Among
    BY <1>3 DEF At, Effects, Among
<1>10. At(k)'
    BY <1>3, <1>7, <1>9 DEF At
<1>11. QED
    BY <1>8, <1>10

\* What is in flight to the phone: of the script only what is answered.
LEMMA HoldsOnly ==
    ASSUME NEW S, NEW T, NEW q, NEW w \in Seq(T), Holds(q, w, S),
           NEW i \in DOMAIN q, q[i] \notin S
    PROVE  \E j \in DOMAIN w : q[i] = w[j]
<1>1. PICK a \in Seq(S), b \in Seq(S) : q = a \o w \o b
    BY DEF Holds
<1>2. a \in Seq(S \cup T) /\ w \in Seq(S \cup T) /\ b \in Seq(S \cup T)
    BY SeqMonotonic
<1>3. /\ a \o w \in Seq(S \cup T) /\ Len(a \o w) = Len(a) + Len(w)
      /\ \A l \in 1 .. Len(a) + Len(w) :
            (a \o w)[l] = IF l <= Len(a) THEN a[l] ELSE w[l - Len(a)]
    BY <1>2, ConcatProperties
<1>4. /\ q \in Seq(S \cup T) /\ Len(q) = Len(a) + Len(w) + Len(b)
      /\ \A l \in 1 .. Len(a) + Len(w) + Len(b) :
            q[l] = IF l <= Len(a) + Len(w) THEN (a \o w)[l] ELSE b[l - (Len(a) + Len(w))]
    BY <1>1, <1>2, <1>3, ConcatProperties
<1>5. /\ Len(a) \in Nat /\ Len(w) \in Nat /\ Len(b) \in Nat
      /\ DOMAIN q = 1 .. Len(q) /\ DOMAIN w = 1 .. Len(w)
    BY <1>2, <1>4, LenProperties
<1>6. q[i] \in S \/ \E j \in DOMAIN w : q[i] = w[j]
  <2>1. CASE i <= Len(a)
    <3>1. i \in 1 .. Len(a) /\ q[i] = a[i]
        BY <1>3, <1>4, <1>5, <2>1
    <3>2. QED
        BY <3>1, ElementOfSeq
  <2>2. CASE i > Len(a) /\ i <= Len(a) + Len(w)
    <3>1. i - Len(a) \in DOMAIN w /\ q[i] = w[i - Len(a)]
        BY <1>3, <1>4, <1>5, <2>2
    <3>2. QED
        BY <3>1
  <2>3. CASE i > Len(a) + Len(w)
    <3>1. i - (Len(a) + Len(w)) \in 1 .. Len(b) /\ q[i] = b[i - (Len(a) + Len(w))]
        BY <1>3, <1>4, <1>5, <2>3
    <3>2. QED
        BY <3>1, ElementOfSeq
  <2>4. QED
      BY <1>4, <1>5, <2>1, <2>2, <2>3
<1>7. QED
    BY <1>6

\* The acks and the media frames of the script.
AcksRight(k) ==
    \A j \in DOMAIN Answered(k) :
        Answered(k)[j].mid = AV_MEDIA_ACK_INDICATION =>
            /\ Answered(k)[j].val = IF Answered(k)[j].ch = VIDEO THEN 1 ELSE NoSession
            /\ k \in {21, 23}
\* Each media acknowledgement of the script names the session and the credit the
\* phone opened.
LEMMA AnsweredAcks ==
    ASSUME NEW k \in 0 .. 28
    PROVE  /\ AcksRight(k)
           /\ k \in {21, 23} => \E x : /\ Answered(k) = <<x>>
                                       /\ x.mid = AV_MEDIA_ACK_INDICATION
<1>1. /\ \A i \in 0 .. 100 : i # AV_MEDIA_ACK_INDICATION
      /\ SETUP_RESPONSE # AV_MEDIA_ACK_INDICATION
      /\ VIDEO_FOCUS_INDICATION # AV_MEDIA_ACK_INDICATION
      /\ BINDING_RESPONSE # AV_MEDIA_ACK_INDICATION
  <2>1. \A i \in 0 .. 100 : i # AV_MEDIA_ACK_INDICATION
      BY LargeIds
  <2>2. /\ SETUP_RESPONSE # AV_MEDIA_ACK_INDICATION
        /\ VIDEO_FOCUS_INDICATION # AV_MEDIA_ACK_INDICATION
        /\ BINDING_RESPONSE # AV_MEDIA_ACK_INDICATION
      BY DEF SETUP_RESPONSE, VIDEO_FOCUS_INDICATION, BINDING_RESPONSE,
         AV_MEDIA_ACK_INDICATION
  <2>3. QED
      BY <2>1, <2>2
<1>2. AcksRight(1)
  <2>1. PICK x : x = Msg(CONTROL, VERSION_REQUEST, "plain", 0)
      OBVIOUS
  <2>2. Answered(1) = <<x>>
      BY <2>1 DEF Answered
  <2>3. x.mid # AV_MEDIA_ACK_INDICATION
      BY <1>1, <2>1, SameMsg
  <2>4. QED
      BY <2>2, <2>3 DEF AcksRight
<1>3. AcksRight(3)
  <2>1. PICK x : x = Msg(CONTROL, SSL_HANDSHAKE, "plain", ClientHello)
      OBVIOUS
  <2>2. Answered(3) = <<x>>
      BY <2>1 DEF Answered
  <2>3. x.mid # AV_MEDIA_ACK_INDICATION
      BY <1>1, <2>1, SameMsg
  <2>4. QED
      BY <2>2, <2>3 DEF AcksRight
<1>4. AcksRight(5)
  <2>1. PICK x : x = Msg(CONTROL, SSL_HANDSHAKE, "plain", ClientFinished)
      OBVIOUS
  <2>2. Answered(5) = <<x>>
      BY <2>1 DEF Answered
  <2>3. x.mid # AV_MEDIA_ACK_INDICATION
      BY <1>1, <2>1, SameMsg
  <2>4. QED
      BY <2>2, <2>3 DEF AcksRight
<1>5. AcksRight(7)
  <2>1. PICK x : x = Msg(CONTROL, AUTH_COMPLETE, "plain", 0)
      OBVIOUS
  <2>2. Answered(7) = <<x>>
      BY <2>1 DEF Answered
  <2>3. x.mid # AV_MEDIA_ACK_INDICATION
      BY <1>1, <2>1, SameMsg
  <2>4. QED
      BY <2>2, <2>3 DEF AcksRight
<1>6. AcksRight(9)
  <2>1. PICK x : x = Msg(CONTROL, SERVICE_DISCOVERY_RESPONSE, "sealed", 0)
      OBVIOUS
  <2>2. Answered(9) = <<x>>
      BY <2>1 DEF Answered
  <2>3. x.mid # AV_MEDIA_ACK_INDICATION
      BY <1>1, <2>1, SameMsg
  <2>4. QED
      BY <2>2, <2>3 DEF AcksRight
<1>7. AcksRight(11)
  <2>1. PICK x : x = Msg(VIDEO, CHANNEL_OPEN_RESPONSE, "sealed", 0)
      OBVIOUS
  <2>2. Answered(11) = <<x>>
      BY <2>1 DEF Answered
  <2>3. x.mid # AV_MEDIA_ACK_INDICATION
      BY <1>1, <2>1, SameMsg
  <2>4. QED
      BY <2>2, <2>3 DEF AcksRight
<1>8. AcksRight(13)
  <2>1. PICK x : x = Msg(INPUT, CHANNEL_OPEN_RESPONSE, "sealed", 0)
      OBVIOUS
  <2>2. Answered(13) = <<x>>
      BY <2>1 DEF Answered
  <2>3. x.mid # AV_MEDIA_ACK_INDICATION
      BY <1>1, <2>1, SameMsg
  <2>4. QED
      BY <2>2, <2>3 DEF AcksRight
<1>9. AcksRight(15)
  <2>1. PICK x : x = Msg(MEDIA_AUDIO, CHANNEL_OPEN_RESPONSE, "sealed", 0)
      OBVIOUS
  <2>2. Answered(15) = <<x>>
      BY <2>1 DEF Answered
  <2>3. x.mid # AV_MEDIA_ACK_INDICATION
      BY <1>1, <2>1, SameMsg
  <2>4. QED
      BY <2>2, <2>3 DEF AcksRight
<1>10. AcksRight(17)
  <2>1. PICK x : x = Msg(VIDEO, SETUP_RESPONSE, "sealed", 0)
      OBVIOUS
  <2>2. PICK y : y = Focus
      OBVIOUS
  <2>3. Answered(17) = <<x, y>>
      BY <2>1, <2>2 DEF Answered
  <2>4. x.mid # AV_MEDIA_ACK_INDICATION /\ y.mid # AV_MEDIA_ACK_INDICATION
      BY <1>1, <2>1, <2>2, SameMsg DEF Focus
  <2>5. QED
      BY <2>3, <2>4 DEF AcksRight
<1>11. AcksRight(18)
  <2>1. PICK x : x = Msg(VIDEO, VIDEO_FOCUS_INDICATION, "sealed", 0)
      OBVIOUS
  <2>2. Answered(18) = <<x>>
      BY <2>1 DEF Answered, Focus
  <2>3. x.mid # AV_MEDIA_ACK_INDICATION
      BY <1>1, <2>1, SameMsg
  <2>4. QED
      BY <2>2, <2>3 DEF AcksRight
<1>12. AcksRight(21) /\ \E x : Answered(21) = <<x>> /\ x.mid = AV_MEDIA_ACK_INDICATION
  <2>1. PICK x : x = Msg(VIDEO, AV_MEDIA_ACK_INDICATION, "sealed", 1)
      OBVIOUS
  <2>2. Answered(21) = <<x>>
      BY <2>1 DEF Answered
  <2>3. x.mid = AV_MEDIA_ACK_INDICATION /\ x.ch = VIDEO /\ x.val = 1
      BY <1>1, <2>1, SameMsg
  <2>4. QED
      BY <2>2, <2>3 DEF AcksRight
<1>13. AcksRight(23) /\ \E x : Answered(23) = <<x>> /\ x.mid = AV_MEDIA_ACK_INDICATION
  <2>1. PICK x : x = Msg(MEDIA_AUDIO, AV_MEDIA_ACK_INDICATION, "sealed", NoSession)
      OBVIOUS
  <2>2. Answered(23) = <<x>>
      BY <2>1 DEF Answered
  <2>3. x.mid = AV_MEDIA_ACK_INDICATION /\ x.ch = MEDIA_AUDIO /\ x.val = NoSession
      BY <1>1, <2>1, SameMsg
  <2>4. QED
      BY <2>2, <2>3 DEF AcksRight
<1>14. AcksRight(25)
  <2>1. PICK x : x = Msg(INPUT, BINDING_RESPONSE, "sealed", 0)
      OBVIOUS
  <2>2. Answered(25) = <<x>>
      BY <2>1 DEF Answered
  <2>3. x.mid # AV_MEDIA_ACK_INDICATION
      BY <1>1, <2>1, SameMsg
  <2>4. QED
      BY <2>2, <2>3 DEF AcksRight
<1>15. AcksRight(27)
  <2>1. PICK x : x = Msg(CONTROL, PING_RESPONSE, "plain", 42)
      OBVIOUS
  <2>2. Answered(27) = <<x>>
      BY <2>1 DEF Answered
  <2>3. x.mid # AV_MEDIA_ACK_INDICATION
      BY <1>1, <2>1, SameMsg
  <2>4. QED
      BY <2>2, <2>3 DEF AcksRight
<1>16. CASE k \notin Spoke
  <2>1. Answered(k) = <<>> /\ k \notin {21, 23}
      BY <1>16, AnsweredWhere DEF Spoke
  <2>2. QED
      BY <2>1 DEF AcksRight
<1>17. CASE k \in Spoke
    BY <1>17, <1>2, <1>3, <1>4, <1>5, <1>6, <1>7, <1>8, <1>9, <1>10, <1>11, <1>12,
       <1>13, <1>14, <1>15 DEF Spoke
<1>18. QED
    BY <1>16, <1>17

\* The acks in flight to the phone, among the input events.
LEMMA AcksAt ==
    ASSUME NEW k \in 0 .. 28, At(k)
    PROVE  AcksNameSession
<1>1. Answered(k) \in Seq(Answers) /\ Holds(toPhone, Answered(k), Among)
    BY ScriptTyped DEF AnsweredTyped, At
<1>2. ASSUME NEW i \in DOMAIN toPhone, toPhone[i].mid = AV_MEDIA_ACK_INDICATION
      PROVE  toPhone[i].val = IF toPhone[i].ch = VIDEO THEN 1 ELSE NoSession
  <2>1. toPhone[i] \notin Among
      BY <1>2, Differ DEF Among, InputEvents
  <2>2. PICK j \in DOMAIN Answered(k) : toPhone[i] = Answered(k)[j]
      BY <1>1, <2>1, HoldsOnly
  <2>3. QED
      BY <1>2, <2>2, AnsweredAcks DEF AcksRight
<1>3. QED
    BY <1>2, LargeIds DEF AcksNameSession

\* How the two ends stand when the connection is closed, and before.
LEMMA WindingAt ==
    ASSUME NEW k \in 0 .. 28, At(k) PROVE Winding
<1>1. /\ stage = StageAt(k)
      /\ tls = TlsAt(k)
      /\ ph.step = StepAt(k)
      /\ ph.tls = PhoneTlsAt(k)
      /\ state = (IF k >= 9 THEN "ACTIVE" ELSE "IDLE")
      /\ toHU # <<>> => toHU = Asked(k)
    BY DEF At, PhoneAt, Effects
<1>2. Winding
  <2>1. CASE k = 0
      BY <1>1, <2>1
      DEF Winding, StagesAgree, StageAt, TlsAt, StepAt, PhoneTlsAt, Asked
  <2>2. CASE k \in 1 .. 2
    <3>1. toHU # <<>> => toHU = Asked(2) /\ ph.step = 1
      <4>1. Asked(1) = <<>>
          BY DEF Asked
      <4>2. StepAt(2) = 1
          BY DEF StepAt
      <4>3. QED
          BY <1>1, <2>2, <4>1, <4>2
    <3>2. /\ stage = "WAIT_VERSION" /\ tls = "none" /\ state = "IDLE"
          /\ ph.step \in {0, 1} /\ ph.tls = "start"
      <4>1. StageAt(k) = "WAIT_VERSION"
          BY <2>2 DEF StageAt
      <4>2. TlsAt(k) = "none"
          BY <2>2 DEF TlsAt
      <4>3. StepAt(k) \in {0, 1}
          BY <2>2 DEF StepAt
      <4>4. PhoneTlsAt(k) = "start"
          BY <2>2 DEF PhoneTlsAt
      <4>5. QED
          BY <1>1, <2>2, <4>1, <4>2, <4>3, <4>4
    <3>3. QED
        BY <3>1, <3>2 DEF Winding, StagesAgree
  <2>3. CASE k \in 3 .. 4
    <3>1. toHU # <<>> => toHU = Asked(4)
      <4>1. Asked(3) = <<>>
          BY DEF Asked
      <4>2. QED
          BY <1>1, <2>3, <4>1
    <3>2. stage = "TLS" /\ tls = "hello" /\ state = "IDLE" /\ ph.step = 1
      <4>1. StageAt(k) = "TLS"
          BY <2>3 DEF StageAt
      <4>2. TlsAt(k) = "hello"
          BY <2>3 DEF TlsAt
      <4>3. StepAt(k) = 1
          BY <2>3 DEF StepAt
      <4>4. PhoneTlsAt(k) \in {"start", "hello"}
          BY <2>3 DEF PhoneTlsAt
      <4>5. QED
          BY <1>1, <2>3, <4>1, <4>2, <4>3, <4>4
    <3>3. QED
        BY <3>1, <3>2 DEF Winding, StagesAgree
  <2>4. CASE k \in 5 .. 6
    <3>1. toHU # <<>> => toHU = Asked(6) /\ ph.step = 2
      <4>1. Asked(5) = <<>>
          BY DEF Asked
      <4>2. StepAt(6) = 2
          BY DEF StepAt
      <4>3. QED
          BY <1>1, <2>4, <4>1, <4>2
    <3>2. /\ stage = "TLS"
          /\ tls = "finished"
          /\ state = "IDLE"
          /\ ph.step \in {1, 2}
          /\ ph.step >= 2 => ph.tls = "done"
      <4>1. StageAt(k) = "TLS"
          BY <2>4 DEF StageAt
      <4>2. TlsAt(k) = "finished"
          BY <2>4 DEF TlsAt
      <4>3. StepAt(k) \in {1, 2} /\ (StepAt(k) >= 2 => k = 6)
          BY <2>4 DEF StepAt
      <4>4. k = 6 => PhoneTlsAt(k) = "done"
          BY <2>4 DEF PhoneTlsAt
      <4>5. QED
          BY <1>1, <2>4, <4>1, <4>2, <4>3, <4>4
    <3>3. QED
        BY <3>1, <3>2 DEF Winding, StagesAgree
  <2>5. CASE k \in 7 .. 8
    <3>1. toHU # <<>> => toHU = Asked(8) /\ ph.step = 3
      <4>1. Asked(7) = <<>>
          BY DEF Asked
      <4>2. StepAt(8) = 3
          BY DEF StepAt
      <4>3. QED
          BY <1>1, <2>5, <4>1, <4>2
    <3>2. /\ stage = "WAIT_SERVICE_DISCOVERY" /\ tls = "done" /\ state = "IDLE"
          /\ ph.step \in {2, 3} /\ ph.tls = "done"
      <4>1. StageAt(k) = "WAIT_SERVICE_DISCOVERY"
          BY <2>5 DEF StageAt
      <4>2. TlsAt(k) = "done"
          BY <2>5 DEF TlsAt
      <4>3. StepAt(k) \in {2, 3}
          BY <2>5 DEF StepAt
      <4>4. PhoneTlsAt(k) = "done"
          BY <2>5 DEF PhoneTlsAt
      <4>5. QED
          BY <1>1, <2>5, <4>1, <4>2, <4>3, <4>4
    <3>3. QED
        BY <3>1, <3>2 DEF Winding, StagesAgree
  <2>6. CASE k \in 9 .. 28
    <3>1. stage = "ACTIVE" /\ tls = "done" /\ state = "ACTIVE" /\ ph.step >= 3
          /\ ph.tls = "done"
      <4>1. StageAt(k) = "ACTIVE"
          BY <2>6 DEF StageAt
      <4>2. TlsAt(k) = "done"
          BY <2>6 DEF TlsAt
      <4>3. StepAt(k) >= 3
          BY <2>6 DEF StepAt
      <4>4. PhoneTlsAt(k) = "done"
          BY <2>6 DEF PhoneTlsAt
      <4>5. QED
          BY <1>1, <2>6, <4>1, <4>2, <4>3, <4>4
    <3>2. QED
        BY <3>1 DEF Winding, StagesAgree
  <2>7. QED
      BY <2>1, <2>2, <2>3, <2>4, <2>5, <2>6
<1>3. QED
    BY <1>2

\* A closed head unit that neither moves nor learns anything stays in its
\* winding down.
LEMMA WindingStays ==
    ASSUME Winding, UNCHANGED <<stage, state, tls, ph>>,
           toHU' \in {toHU, <<>>} \/ stage \in {"ACTIVE", "FAILED"}
    PROVE  Winding'
    BY DEF Winding, StagesAgree

\* From every place, the loss of the connection leads to the winding down.
LEMMA CloseKeeps ==
    ASSUME VarsTyped, LoopTyped, NEW k \in 0 .. 28, At(k), conn = "up", Close
    PROVE  VarsTyped' /\ LoopTyped' /\ conn' = "closed" /\ Winding' /\ AcksNameSession'
<1>1. /\ driver = "apart"
      /\ conn' = "closed"
      /\ out' = <<>>
      /\ toHU' \in {toHU, <<>>}
      /\ UNCHANGED <<stage, state, tls, session_by_channel, input_bound, frames,
                     ph, cap, toPhone, driver, turn, iter, seen, orphan>>
    BY DEF Close, HU!Close, HU!media, loop, told
<1>2. VarsTyped' /\ LoopTyped'
  <2>1. <<>> \in Seq(ScriptMsgs) /\ <<>> \in Seq(Answers \cup InputEvents)
      OBVIOUS
  <2>2. QED
      BY <1>1, <2>1 DEF VarsTyped, LoopTyped, Capture!CaptureType
<1>3. AcksNameSession'
    BY <1>1, AcksAt DEF AcksNameSession
<1>4. Winding'
    BY <1>1, WindingAt, WindingStays
<1>5. QED
    BY <1>1, <1>2, <1>3, <1>4

-----------------------------------------------------------------------------
(* The head unit on a closed connection.                                   *)

\* A closed head unit that fails on a message that was still on its way stays
\* winding down.
LEMMA WindingFails ==
    ASSUME Winding, stage' = "FAILED", state' = "FAILED", ph' = ph,
           tls' = tls \/ tls' \in {"finished", "done"} \/ ph.step = 1, ph \in PhoneStates
    PROVE  Winding'
    BY DEF Winding, StagesAgree, PhoneStates

\* The questions of the handshake, one message at a time.
LEMMA AskedOnce ==
    /\ Head(Asked(2)) = Msg(CONTROL, VERSION_RESPONSE, "plain", MATCH)
    /\ Tail(Asked(2)) = <<>>
    /\ Head(Asked(4)) = Msg(CONTROL, SSL_HANDSHAKE, "plain", ServerHello)
    /\ Tail(Asked(4)) = <<>>
    /\ Head(Asked(6)) = Msg(CONTROL, SSL_HANDSHAKE, "plain", ServerFinished)
    /\ Tail(Asked(6)) = <<>> /\ Tail(Asked(8)) = <<>>
    BY Few DEF Asked

\* Nothing is written any more, and the connection stays closed.
Lost ==
    /\ conn' = "closed" /\ out' = <<>> /\ ph' = ph /\ cap' = cap
    /\ UNCHANGED <<driver, told>>
    /\ toPhone' = toPhone \o <<>>
\* With the connection lost nothing new reaches the phone, so its
\* acknowledgements stay right.
LEMMA LostKeeps ==
    ASSUME VarsTyped, AcksNameSession, Lost, driver = "apart",
           turn' = turn, iter' = iter, LoopTyped,
           stage' \in HU!Stages, state' \in {"IDLE", "ACTIVE", "FAILED"}, tls' \in HU!TlsStates,
           session_by_channel' \in [{0, 1, 2, 3, 6} -> Int],
           input_bound' \in BOOLEAN, frames' \in 0 .. 1, toHU' \in Seq(ScriptMsgs)
    PROVE  VarsTyped' /\ LoopTyped' /\ AcksNameSession'
<1>1. toPhone' = toPhone
    BY ConcatEmptySeq DEF Lost, VarsTyped
<1>2. <<>> \in Seq(Answers \cup InputEvents)
    OBVIOUS
<1>3. VarsTyped'
    BY <1>1, <1>2 DEF VarsTyped, Lost, told, Capture!CaptureType
<1>4. LoopTyped'
    BY DEF LoopTyped, Lost
<1>5. AcksNameSession'
    BY <1>1 DEF AcksNameSession
<1>6. QED
    BY <1>3, <1>4, <1>5

\* Only the two separate programs lose their connection: run_mock has no close.
LEMMA ClosedApart ==
    ASSUME LoopTyped, conn = "closed", Turn("hu", "phone")
    PROVE  driver = "apart" /\ UNCHANGED <<driver, turn, iter>>
    BY DEF LoopTyped, Turn

\* The version request of a closed head unit is lost.
LEMMA ClosedStart ==
    ASSUME VarsTyped, LoopTyped, conn = "closed", Winding, AcksNameSession, HeadUnitStart
    PROVE  /\ VarsTyped' /\ LoopTyped' /\ AcksNameSession'
           /\ conn' = "closed" /\ Winding'
<1>1. /\ driver = "apart" /\ UNCHANGED <<driver, turn, iter>>
      /\ UNCHANGED <<ph, cap, toHU, told>> /\ toPhone' = toPhone \o out'
      /\ HU!PollStart \/ HU!PollEof
    BY ClosedApart DEF HeadUnitStart, Wrote
<1>2. /\ out' = <<>> /\ conn' = conn /\ tls' = tls /\ UNCHANGED HU!media
      /\ \/ stage' = "FAILED" /\ state' = "FAILED"
         \/ stage = "SEND_VERSION" /\ stage' = "WAIT_VERSION" /\ state' = state
  <2>1. CASE HU!PollStart
      BY <2>1 DEF HU!PollStart, HU!Handshake, HU!Written, HU!SendError, HU!SetFailed
  <2>2. CASE HU!PollEof
      BY <2>2 DEF HU!PollEof, HU!SetFailed, HU!Quiet
  <2>3. QED
      BY <1>1, <2>1, <2>2
<1>3. Lost
    BY <1>1, <1>2 DEF Lost
<1>4. /\ stage' \in HU!Stages
      /\ state' \in {"IDLE", "ACTIVE", "FAILED"}
      /\ tls' \in HU!TlsStates
    BY <1>2 DEF VarsTyped, HU!Stages
<1>5. /\ session_by_channel' \in [{0, 1, 2, 3, 6} -> Int]
      /\ input_bound' \in BOOLEAN /\ frames' \in 0 .. 1 /\ toHU' \in Seq(ScriptMsgs)
    BY <1>1, <1>2 DEF VarsTyped, HU!media
<1>6. VarsTyped' /\ LoopTyped' /\ AcksNameSession'
    BY <1>1, <1>3, <1>4, <1>5, LostKeeps
<1>7. Winding'
  <2>1. CASE stage' = "FAILED" /\ state' = "FAILED"
      BY <1>1, <1>2, <2>1, WindingFails DEF VarsTyped
  <2>2. CASE stage = "SEND_VERSION" /\ stage' = "WAIT_VERSION" /\ state' = state
      BY <1>1, <1>2, <2>2 DEF Winding, StagesAgree
  <2>3. QED
      BY <1>2, <2>1, <2>2
<1>8. QED
    BY <1>2, <1>6, <1>7

\* A closed head unit still reads what had arrived; its answers are lost.
LEMMA ClosedPoll ==
    ASSUME VarsTyped, LoopTyped, conn = "closed", Winding, AcksNameSession, HeadUnitPoll
    PROVE  /\ VarsTyped' /\ LoopTyped' /\ AcksNameSession'
           /\ conn' = "closed" /\ Winding'
<1>1. /\ driver = "apart"
      /\ UNCHANGED <<driver, turn, iter>>
      /\ UNCHANGED <<ph, cap, told>>
      /\ toHU # <<>> /\ toHU' = Tail(toHU) /\ stage # "SEND_VERSION"
      /\ toPhone' = toPhone \o out' /\ HU!Receive(Head(toHU))
    BY ClosedApart DEF HeadUnitPoll, Wrote
<1>2. PICK m : m = Head(toHU)
    OBVIOUS
<1>3. m \in ScriptMsgs /\ toHU' \in Seq(ScriptMsgs)
    BY <1>1, <1>2, HeadTailProperties DEF VarsTyped
<1>4. /\ session_by_channel \in [{0, 1, 2, 3, 6} -> Int] /\ input_bound \in BOOLEAN
      /\ frames \in 0 .. 1
      /\ stage \in HU!Stages
      /\ state \in {"IDLE", "ACTIVE", "FAILED"}
      /\ tls \in HU!TlsStates /\ ph \in PhoneStates
    BY DEF VarsTyped
<1>5. ASSUME out' = <<>>, conn' = conn, UNCHANGED HU!media, tls' \in HU!TlsStates,
             stage' \in HU!Stages, state' \in {"IDLE", "ACTIVE", "FAILED"}, Winding'
      PROVE  VarsTyped' /\ LoopTyped' /\ AcksNameSession' /\ conn' = "closed" /\ Winding'
  <2>1. Lost
      BY <1>1, <1>5 DEF Lost
  <2>2. /\ session_by_channel' \in [{0, 1, 2, 3, 6} -> Int]
        /\ input_bound' \in BOOLEAN /\ frames' \in 0 .. 1
      BY <1>4, <1>5 DEF HU!media
  <2>3. VarsTyped' /\ LoopTyped' /\ AcksNameSession'
      BY <1>1, <1>3, <1>5, <2>1, <2>2, LostKeeps
  <2>4. QED
      BY <1>5, <2>3
<1>6. stage \in {"WAIT_VERSION", "TLS", "WAIT_SERVICE_DISCOVERY"} => toHU' = <<>>
    BY <1>1, AskedOnce DEF Winding
<1>7. CASE HU!PollUnreadable(m)
  <2>1. /\ out' = <<>> /\ conn' = conn /\ UNCHANGED HU!media /\ tls' = tls
        /\ stage' = "FAILED" /\ state' = "FAILED"
      BY <1>7 DEF HU!PollUnreadable, HU!SetFailed, HU!Quiet
  <2>2. Winding' /\ stage' \in HU!Stages
      BY <1>1, <1>4, <2>1, WindingFails DEF HU!Stages
  <2>3. QED
      BY <1>4, <1>5, <2>1, <2>2
<1>8. CASE HU!PollIgnore(m)
  <2>1. /\ out' = <<>> /\ conn' = conn /\ UNCHANGED HU!media
        /\ UNCHANGED <<stage, state, tls>>
      BY <1>8 DEF HU!PollIgnore, HU!Quiet
  <2>2. Winding'
      BY <1>1, <1>4, <1>6, <2>1, WindingStays DEF HU!Stages
  <2>3. QED
      BY <1>4, <1>5, <2>1, <2>2
<1>9. CASE HU!PollVersion(m)
  <2>1. stage = "WAIT_VERSION" /\ toHU = Asked(2) /\ ph.step = 1 /\ tls = "none"
      BY <1>1, <1>9 DEF HU!PollVersion, Winding
  <2>2. m.val = MATCH
      BY <1>2, <2>1, AskedOnce, SameMsg
  <2>3. /\ out' = <<>> /\ conn' = conn /\ UNCHANGED HU!media /\ tls' = "hello"
        /\ \/ stage' = "TLS" /\ state' = state
           \/ stage' = "FAILED" /\ state' = "FAILED"
      BY <1>9, <2>2
      DEF HU!PollVersion, HU!SetFailed, HU!Quiet, HU!Handshake, HU!Written,
          HU!SendError
  <2>4. CASE stage' = "TLS" /\ state' = state
    <3>1. Winding'
        BY <1>1, <1>6, <2>1, <2>3, <2>4 DEF Winding, StagesAgree
    <3>2. QED
        BY <1>4, <1>5, <2>3, <2>4, <3>1 DEF HU!Stages, HU!TlsStates
  <2>5. CASE stage' = "FAILED" /\ state' = "FAILED"
    <3>1. Winding'
        BY <1>1, <1>4, <2>1, <2>5, WindingFails
    <3>2. QED
        BY <1>4, <1>5, <2>3, <2>5, <3>1 DEF HU!Stages, HU!TlsStates
  <2>6. QED
      BY <2>3, <2>4, <2>5
<1>10. CASE HU!PollTls(m)
  <2>1. /\ stage = "TLS"
        /\ \/ tls = "hello" /\ toHU = Asked(4)
           \/ tls = "finished" /\ toHU = Asked(6) /\ ph.step = 2
      BY <1>1, <1>10 DEF HU!PollTls, Winding
  <2>2. PICK r : r = HU!ClientStep(m.val)
      OBVIOUS
  <2>3. \/ tls = "hello" /\ r.tls = "finished" /\ r.hr = 1
        \/ tls = "finished" /\ r.tls = "done" /\ r.hr = 0 /\ ph.step = 2
    <3>1. CASE tls = "hello" /\ toHU = Asked(4)
      <4>1. m.val = ServerHello
          BY <1>2, <3>1, AskedOnce, SameMsg
      <4>2. QED
          BY <2>2, <3>1, <4>1 DEF HU!ClientStep
    <3>2. CASE tls = "finished" /\ toHU = Asked(6) /\ ph.step = 2
      <4>1. m.val = ServerFinished
          BY <1>2, <3>2, AskedOnce, SameMsg
      <4>2. QED
          BY <2>2, <3>2, <4>1 DEF HU!ClientStep
    <3>3. QED
        BY <2>1, <3>1, <3>2
  <2>4. /\ out' = <<>> /\ conn' = conn /\ UNCHANGED HU!media /\ tls' = r.tls
        /\ \/ /\ stage' = IF r.hr = 0 THEN "WAIT_SERVICE_DISCOVERY" ELSE stage
              /\ state' = state
           \/ stage' = "FAILED" /\ state' = "FAILED"
      BY <1>10, <2>2, <2>3
      DEF HU!PollTls, HU!SetFailed, HU!Handshake, HU!Written, HU!SendError,
          HU!TlsComplete
  <2>5. tls' \in {"finished", "done"} /\ tls' \in HU!TlsStates
      BY <2>3, <2>4 DEF HU!TlsStates
  <2>6. CASE stage' = "FAILED" /\ state' = "FAILED"
    <3>1. Winding'
        BY <1>1, <1>4, <2>5, <2>6, WindingFails
    <3>2. QED
        BY <1>4, <1>5, <2>4, <2>5, <2>6, <3>1 DEF HU!Stages
  <2>7. CASE tls = "hello" /\ r.hr = 1 /\ stage' = stage /\ state' = state
    <3>1. tls' = "finished"
        BY <2>3, <2>4, <2>7
    <3>2. Winding'
        BY <1>1, <1>6, <2>1, <2>7, <3>1 DEF Winding, StagesAgree
    <3>3. QED
        BY <1>4, <1>5, <2>4, <2>5, <2>7, <3>2
  <2>8. CASE tls = "finished" /\ r.hr = 0 /\ stage' = "WAIT_SERVICE_DISCOVERY" /\ state' = state
    <3>1. tls' = "done" /\ ph.step = 2
        BY <2>3, <2>4, <2>8
    <3>2. Winding'
        BY <1>1, <1>6, <2>1, <2>8, <3>1 DEF Winding, StagesAgree
    <3>3. QED
        BY <1>4, <1>5, <2>4, <2>5, <2>8, <3>2 DEF HU!Stages
  <2>9. QED
      BY <2>3, <2>4, <2>6, <2>7, <2>8
<1>11. CASE HU!PollServiceDiscovery(m)
  <2>1. stage = "WAIT_SERVICE_DISCOVERY" /\ tls = "done" /\ ph.step = 3
      BY <1>1, <1>11 DEF HU!PollServiceDiscovery, Winding
  <2>2. /\ out' = <<>> /\ conn' = conn /\ UNCHANGED HU!media /\ tls' = tls
        /\ \/ stage' = "ACTIVE" /\ state' = "ACTIVE"
           \/ stage' = "FAILED" /\ state' = "FAILED"
      BY <1>11
      DEF HU!PollServiceDiscovery, HU!SetFailed, HU!Handshake, HU!Written,
          HU!SendError
  <2>3. CASE stage' = "ACTIVE" /\ state' = "ACTIVE"
    <3>1. Winding'
        BY <1>1, <2>1, <2>2, <2>3 DEF Winding, StagesAgree
    <3>2. QED
        BY <1>4, <1>5, <2>2, <2>3, <3>1 DEF HU!Stages
  <2>4. CASE stage' = "FAILED" /\ state' = "FAILED"
    <3>1. Winding'
        BY <1>1, <1>4, <2>2, <2>4, WindingFails
    <3>2. QED
        BY <1>4, <1>5, <2>2, <2>4, <3>1 DEF HU!Stages
  <2>5. QED
      BY <2>2, <2>3, <2>4
<1>12. CASE HU!Dispatch(m)
  <2>1. /\ out' = <<>>
        /\ conn' = conn
        /\ UNCHANGED <<stage, state, tls>>
        /\ stage = "ACTIVE"
        /\ session_by_channel' = HU!SessionsAfter(m)
        /\ input_bound' = (input_bound \/ (m.ch = INPUT /\ m.mid = HU!BINDING_REQUEST))
        /\ frames' = frames \/ (frames < 1 /\ frames' = frames + 1)
      BY <1>12 DEF HU!Dispatch, HU!Written
  <2>2. HU!SessionsAfter(m) \in [{0, 1, 2, 3, 6} -> Int]
    <3>1. m.val \in Int /\ NoSession \in Int /\ HU!NoSession = NoSession
        BY <1>3 DEF ScriptMsgs
    <3>2. \A v \in Int : [session_by_channel EXCEPT ![m.ch] = v] \in [{0, 1, 2, 3, 6} -> Int]
        BY <1>4
    <3>3. QED
        BY <1>4, <3>1, <3>2 DEF HU!SessionsAfter
  <2>3. input_bound' \in BOOLEAN /\ frames' \in 0 .. 1
      BY <1>4, <2>1
  <2>4. Lost
      BY <1>1, <2>1 DEF Lost
  <2>5. VarsTyped' /\ LoopTyped' /\ AcksNameSession'
      BY <1>1, <1>3, <1>4, <2>1, <2>2, <2>3, <2>4, LostKeeps
  <2>6. Winding'
      BY <1>1, <2>1, WindingStays
  <2>7. QED
      BY <2>1, <2>5, <2>6
<1>13. QED
    BY <1>1, <1>2, <1>7, <1>8, <1>9, <1>10, <1>11, <1>12 DEF HU!Receive

\* The input events of a closed head unit are lost.
LEMMA ClosedTouch ==
    ASSUME VarsTyped, LoopTyped, conn = "closed", Winding, AcksNameSession,
           NEW pad \in Pads, NEW touch \in Touches, HeadUnitTouch(pad, touch)
    PROVE  /\ VarsTyped' /\ LoopTyped' /\ AcksNameSession'
           /\ conn' = "closed" /\ Winding'
<1>1. /\ out' = <<>> /\ toPhone' = toPhone \o <<>>
      /\ UNCHANGED <<stage, state, tls, conn, ph, toHU, driver, turn, iter>>
    BY DEF HeadUnitTouch, HU!SendInput, HU!Written, Wrote, loop
<1>2. toPhone' = toPhone
    BY <1>1, ConcatEmptySeq DEF VarsTyped
<1>3. out' \in Seq(InputEvents)
    BY <1>1
<1>4. VarsTyped' /\ LoopTyped'
    BY <1>1, <1>3, TouchTyped DEF LoopTyped
<1>5. Winding'
    BY <1>1, WindingStays
<1>6. AcksNameSession'
    BY <1>2 DEF AcksNameSession
<1>7. QED
    BY <1>1, <1>4, <1>5, <1>6

-----------------------------------------------------------------------------
(* The invariant.                                                          *)

\* The initial states are at the first place.
LEMMA Initially == Init => IInv
<1> SUFFICES ASSUME Init PROVE IInv
    OBVIOUS
<1>1. /\ stage = "SEND_VERSION" /\ state = "IDLE" /\ tls = "none"
      /\ session_by_channel = [ch \in {0, 1, 2, 3, 6} |-> NoSession]
      /\ input_bound = FALSE /\ conn = "up" /\ out = <<>> /\ frames = 0
      /\ toHU = <<>> /\ toPhone = <<>> /\ seen = {} /\ orphan = {}
      /\ driver \in {"harness", "apart"} /\ turn = "phone" /\ iter = 0
    BY Small DEF Init, HU!Init
<1>2. ph \in PhoneStates /\ PhoneAt(ph, 0)
  <2>1. /\ ph = [step |-> 0, tls |-> "start", results |-> {}, done |-> FALSE]
      BY DEF Init, Phone!PhoneInit
  <2>2. StepAt(0) = 0 /\ PhoneTlsAt(0) = "start" /\ Known({}, 0)
      BY DEF StepAt, PhoneTlsAt, Known
  <2>3. QED
      BY <2>1, <2>2 DEF PhoneStates, PhoneAt
<1>3. Capture!CaptureType
  <2>1. 0 \in 0 .. Capture!VideoWidth - 1 /\ 0 \in 0 .. Capture!VideoHeight - 1
      BY DEF Capture!VideoWidth, Capture!VideoHeight
  <2>2. cap = [buttons |-> {}, touch |-> FALSE, at |-> <<0, 0>>]
      BY DEF Init, Capture!CaptureInit
  <2>3. QED
      BY <2>1, <2>2 DEF Capture!CaptureType
<1>4. /\ <<>> \in Seq(Answers \cup InputEvents)
      /\ <<>> \in Seq(ScriptMsgs)
      /\ <<>> \in Seq(Among)
    OBVIOUS
<1>5. VarsTyped
    BY <1>1, <1>2, <1>3, <1>4 DEF VarsTyped, HU!Stages, HU!TlsStates
<1>6. LoopTyped
    BY <1>1, BoundsAssumption DEF LoopTyped
<1>7. Answered(0) = <<>> /\ Asked(0) = <<>> /\ TurnsAt(0) = {0, 1}
      /\ StageAt(0) = "SEND_VERSION" /\ TlsAt(0) = "none"
    BY DEF Answered, Asked, TurnsAt, StageAt, TlsAt
<1>8. Effects(0) /\ Turns = 0
    BY <1>1 DEF Effects, Turns
<1>9. Holds(toPhone, Answered(0), Among)
    BY <1>1, <1>4, <1>7, HoldsNone
<1>10. At(0) /\ 0 \in 0 .. 28
    BY <1>1, <1>2, <1>7, <1>8, <1>9 DEF At
<1>11. QED
    BY <1>1, <1>5, <1>6, <1>10 DEF IInv

\* A stuttering step changes nothing.
LEMMA Unmoved ==
    ASSUME IInv, UNCHANGED vars PROVE IInv'
<1>1. UNCHANGED <<stage, state, tls, session_by_channel, input_bound, conn, out, frames,
                  ph, cap, toHU, toPhone, driver, turn, iter, seen, orphan>>
    BY DEF vars, hu, loop, told
<1>2. VarsTyped' /\ LoopTyped'
    BY <1>1 DEF IInv, VarsTyped, LoopTyped, Capture!CaptureType
<1>3. ASSUME NEW k \in 0 .. 28, At(k) PROVE At(k)'
  <2>1. UNCHANGED <<hu, driver>>
      BY DEF vars, loop
  <2>2. /\ stage' = StageAt(k)
        /\ tls' = TlsAt(k)
        /\ Effects(k)'
        /\ Among' = Among
        /\ Turns' = Turns
      BY <1>1, <1>3, <2>1, AtSame DEF At, Turns
  <2>3. QED
      BY <1>1, <1>3, <2>2 DEF At
<1>4. Winding => Winding'
    BY <1>1, WindingStays
<1>5. AcksNameSession => AcksNameSession'
    BY <1>1 DEF AcksNameSession
<1>6. QED
    BY <1>1, <1>2, <1>3, <1>4, <1>5 DEF IInv

\* Every step keeps the invariant.
LEMMA Step ==
    ASSUME LateInput PROVE IInv /\ [Next]_vars => IInv'
<1> SUFFICES ASSUME IInv, [Next]_vars PROVE IInv'
    OBVIOUS
<1>1. VarsTyped /\ LoopTyped /\ conn \in {"up", "closed"}
    BY DEF IInv, VarsTyped
<1>2. CASE UNCHANGED vars
    BY <1>2, Unmoved
<1>3. CASE HarnessEnds
    BY <1>3, Unmoved DEF HarnessEnds
<1>4. ASSUME VarsTyped', LoopTyped', conn' = "up", \E j \in 0 .. 28 : At(j)'
      PROVE  IInv'
    BY <1>4 DEF IInv
<1>5. ASSUME VarsTyped', LoopTyped', conn' = "closed", Winding', AcksNameSession'
      PROVE  IInv'
    BY <1>5 DEF IInv
<1>6. CASE conn = "up"
  <2>1. PICK k \in 0 .. 28 : At(k)
      BY <1>6 DEF IInv
  <2>2. CASE HeadUnitStart
    <3>1. conn' = conn
        BY <2>2 DEF HeadUnitStart, HU!PollStart, HU!PollEof
    <3>2. QED
        BY <1>1, <1>4, <1>6, <2>1, <2>2, <3>1, StartKeeps
  <2>3. CASE HeadUnitPoll
    <3>1. conn' = conn
        BY <2>3
        DEF HeadUnitPoll, HU!Receive, HU!PollUnreadable, HU!PollIgnore,
            HU!PollVersion,
            HU!PollTls, HU!PollServiceDiscovery, HU!Dispatch
    <3>2. QED
        BY <1>1, <1>4, <1>6, <2>1, <2>3, <3>1, PollKeeps
  <2>4. CASE HeadUnitIdle
    <3>1. conn' = conn
        BY <2>4 DEF HeadUnitIdle, hu
    <3>2. QED
        BY <1>1, <1>4, <1>6, <2>1, <2>4, <3>1, IdleKeeps
  <2>5. ASSUME NEW pad \in Pads, NEW touch \in Touches, HeadUnitTouch(pad, touch)
        PROVE  IInv'
    <3>1. conn' = conn
        BY <2>5 DEF HeadUnitTouch, HU!SendInput
    <3>2. QED
        BY <1>1, <1>4, <1>6, <2>1, <2>5, <3>1, TouchKeeps
  <2>6. CASE PhoneStep
    <3>1. conn' = conn
        BY <2>6 DEF PhoneStep, hu
    <3>2. QED
        BY <1>1, <1>4, <1>6, <2>1, <2>6, <3>1, PhoneKeeps
  <2>7. CASE Close
      BY <1>1, <1>5, <1>6, <2>1, <2>7, CloseKeeps
  <2>8. QED
      BY <1>2, <1>3, <2>2, <2>3, <2>4, <2>5, <2>6, <2>7 DEF Next
<1>7. CASE conn = "closed"
  <2>1. Winding /\ AcksNameSession
      BY <1>7 DEF IInv
  <2>2. CASE HeadUnitStart
      BY <1>1, <1>5, <1>7, <2>1, <2>2, ClosedStart
  <2>3. CASE HeadUnitPoll
      BY <1>1, <1>5, <1>7, <2>1, <2>3, ClosedPoll
  <2>4. ~HeadUnitIdle /\ ~PhoneStep /\ ~Close
      BY <1>1, <1>7 DEF HeadUnitIdle, PhoneStep, Close, HU!Close, LoopTyped
  <2>5. ASSUME NEW pad \in Pads, NEW touch \in Touches, HeadUnitTouch(pad, touch)
        PROVE  IInv'
      BY <1>1, <1>5, <1>7, <2>1, <2>5, ClosedTouch
  <2>6. QED
      BY <1>2, <1>3, <2>2, <2>3, <2>4, <2>5 DEF Next
<1>8. QED
    BY <1>1, <1>6, <1>7

\* Over a healthy connection every session is at one of the 29 places of the
\* script, with what is in flight there, whatever the user does meanwhile.
THEOREM Invariant ==
    ASSUME LateInput PROVE Spec => []IInv
<1>1. IInv /\ [Next]_vars => IInv'
    BY Step
<1>2. QED
    BY <1>1, Initially, PTL DEF Spec

\* Type correctness: no state of either end, no message in flight and no round
\* of the harness leaves its domain.
THEOREM TypeCorrect ==
    ASSUME LateInput PROVE Spec => []TypeOK
<1>1. IInv => TypeOK
  <2> SUFFICES ASSUME IInv PROVE TypeOK
      OBVIOUS
  <2>1. VarsTyped /\ LoopTyped
      BY DEF IInv
  <2>2. Phone!PhoneType
      BY <2>1 DEF VarsTyped, PhoneStates, Results, Phone!PhoneType
  <2>3. ASSUME NEW i \in DOMAIN out
        PROVE  /\ out[i].ch \in {0, 1, 2, 3, 6} /\ out[i].mid \in Nat
               /\ out[i].enc \in {"plain", "sealed", "bare"}
               /\ out[i].mid # HU!INPUT_EVENT_INDICATION => out[i].val \in Int
    <3>1. out[i] \in Answers \cup InputEvents
        BY <2>1, <2>3, ElementOfSeq, LenProperties DEF VarsTyped
    <3>2. CASE out[i] \in Answers
        BY <3>2 DEF Answers, ScriptMsgs, ScriptChannels
    <3>3. CASE out[i] \in InputEvents
        BY <3>3, LargeIds DEF InputEvents
    <3>4. QED
        BY <3>1, <3>2, <3>3
  <2>4. HU!TypeOK
      BY <2>1, <2>3, Small DEF HU!TypeOK, VarsTyped
  <2>5. QED
      BY <2>1, <2>2, <2>4 DEF TypeOK, VarsTyped, LoopTyped
<1>2. QED
    BY <1>1, Invariant, PTL

\* Neither end runs ahead of what the other has seen, up to and after the end
\* of the connection.
THEOREM StagesAlwaysAgree ==
    ASSUME LateInput PROVE Spec => []StagesAgree
<1>1. IInv => StagesAgree
  <2>1. CASE conn = "up"
      BY <2>1, WindingAt DEF IInv, Winding
  <2>2. CASE conn = "closed"
      BY <2>2 DEF IInv, Winding
  <2>3. QED
      BY <2>1, <2>2 DEF IInv, VarsTyped
<1>2. QED
    BY <1>1, Invariant, PTL

\* Over a healthy connection the head unit never fails and the phone is never
\* stuck before a message it cannot decrypt.
THEOREM HealthySessions ==
    ASSUME LateInput PROVE Spec => []HealthySessionsWork
<1>1. IInv => HealthySessionsWork
  <2> SUFFICES ASSUME IInv, conn = "up"
               PROVE  /\ state # "FAILED"
                      /\ toPhone # <<>> => Phone!PhoneReadable(Head(toPhone))
      BY DEF IInv, VarsTyped, HealthySessionsWork
  <2>1. PICK k \in 0 .. 28 : At(k)
      BY DEF IInv
  <2>2. state # "FAILED"
      BY <2>1 DEF At, Effects
  <2>3. Answered(k) \in Seq(Answers)
      BY ScriptTyped DEF AnsweredTyped
  <2>4. CASE toPhone # <<>> /\ Head(toPhone) \in Among
    <3>1. ph.tls = "done"
        BY <2>1, <2>4 DEF Among, At, TlsAt, PhoneAt, PhoneTlsAt
    <3>2. QED
        BY <2>2, <2>4, <3>1 DEF Among, InputEvents, Phone!PhoneReadable
  <2>5. CASE toPhone # <<>> /\ Answered(k) # <<>> /\ Head(toPhone) = Head(Answered(k))
    <3>1. k >= 9 => ph.tls = "done"
        BY <2>1 DEF At, PhoneAt, PhoneTlsAt
    <3>2. Head(toPhone).enc = "plain" \/ (k >= 9 /\ Head(toPhone).enc = "sealed")
        BY <2>5, ScriptTyped DEF AnsweredTyped
    <3>3. QED
        BY <2>2, <3>1, <3>2 DEF Phone!PhoneReadable
  <2>6. QED
      BY <2>1, <2>2, <2>3, <2>4, <2>5, HoldsHead DEF At
<1>2. QED
    BY <1>1, Invariant, PTL

\* Each ack names the session the phone started for its channel, or none.
THEOREM AcksRightly ==
    ASSUME LateInput PROVE Spec => []AcksNameSession
<1>1. IInv => AcksNameSession
    BY AcksAt DEF IInv, VarsTyped
<1>2. QED
    BY <1>1, Invariant, PTL

\* Where the phone is done.
LEMMA AtTheEnd ==
    ASSUME VarsTyped, At(28)
    PROVE  /\ toHU = <<>> /\ frames = 1 /\ input_bound /\ state = "ACTIVE"
           /\ \A i \in DOMAIN toPhone : toPhone[i].mid = INPUT_EVENT_INDICATION
           /\ ph.results = Results /\ ph.done
<1>1. toHU = <<>> /\ frames = 1 /\ input_bound /\ state = "ACTIVE" /\ ph.done
    BY DEF At, Asked, Effects, PhoneAt
<1>2. Answered(28) = <<>>
    BY DEF Answered
<1>3. toPhone \in Seq(Among)
    BY <1>2, HoldsNone DEF At
<1>4. \A i \in DOMAIN toPhone : toPhone[i] \in Among
    BY <1>3, ElementOfSeq, LenProperties
<1>5. \A i \in DOMAIN toPhone : toPhone[i].mid = INPUT_EVENT_INDICATION
    BY <1>4 DEF Among, InputEvents
<1>6. ph.results \subseteq Results
    BY DEF VarsTyped, PhoneStates
<1>7. Known(ph.results, 28)
    BY DEF At, PhoneAt
<1>8. ph.results = Results
    BY <1>6, <1>7 DEF Known, Results
<1>9. QED
    BY <1>1, <1>5, <1>8

\* mock_phone_result has nine flags for the steps of the script.
LEMMA NineResults == Cardinality(Results) = 9
<1>1. PICK S1 : S1 = {"video_open"}
    OBVIOUS
<1>2. IsFiniteSet(S1) /\ Cardinality(S1) = 1
    BY <1>1, FS_Singleton
<1>3. PICK S2 : S2 = S1 \cup {"input_open"}
    OBVIOUS
<1>4. IsFiniteSet(S2) /\ Cardinality(S2) = 2
  <2>1. "input_open" \notin S1
      BY <1>1
  <2>2. IsFiniteSet(S2) /\ Cardinality(S2) = Cardinality(S1) + 1
      BY <1>2, <1>3, <2>1, FS_AddElement
  <2>3. QED
      BY <1>2, <2>2
<1>5. PICK S3 : S3 = S2 \cup {"audio_open"}
    OBVIOUS
<1>6. IsFiniteSet(S3) /\ Cardinality(S3) = 3
  <2>1. "audio_open" \notin S2
      BY <1>1, <1>3
  <2>2. IsFiniteSet(S3) /\ Cardinality(S3) = Cardinality(S2) + 1
      BY <1>4, <1>5, <2>1, FS_AddElement
  <2>3. QED
      BY <1>4, <2>2
<1>7. PICK S4 : S4 = S3 \cup {"setup"}
    OBVIOUS
<1>8. IsFiniteSet(S4) /\ Cardinality(S4) = 4
  <2>1. "setup" \notin S3
      BY <1>1, <1>3, <1>5
  <2>2. IsFiniteSet(S4) /\ Cardinality(S4) = Cardinality(S3) + 1
      BY <1>6, <1>7, <2>1, FS_AddElement
  <2>3. QED
      BY <1>6, <2>2
<1>9. PICK S5 : S5 = S4 \cup {"focus"}
    OBVIOUS
<1>10. IsFiniteSet(S5) /\ Cardinality(S5) = 5
  <2>1. "focus" \notin S4
      BY <1>1, <1>3, <1>5, <1>7
  <2>2. IsFiniteSet(S5) /\ Cardinality(S5) = Cardinality(S4) + 1
      BY <1>8, <1>9, <2>1, FS_AddElement
  <2>3. QED
      BY <1>8, <2>2
<1>11. PICK S6 : S6 = S5 \cup {"video_ack"}
    OBVIOUS
<1>12. IsFiniteSet(S6) /\ Cardinality(S6) = 6
  <2>1. "video_ack" \notin S5
      BY <1>1, <1>3, <1>5, <1>7, <1>9
  <2>2. IsFiniteSet(S6) /\ Cardinality(S6) = Cardinality(S5) + 1
      BY <1>10, <1>11, <2>1, FS_AddElement
  <2>3. QED
      BY <1>10, <2>2
<1>13. PICK S7 : S7 = S6 \cup {"audio_ack"}
    OBVIOUS
<1>14. IsFiniteSet(S7) /\ Cardinality(S7) = 7
  <2>1. "audio_ack" \notin S6
      BY <1>1, <1>3, <1>5, <1>7, <1>9, <1>11
  <2>2. IsFiniteSet(S7) /\ Cardinality(S7) = Cardinality(S6) + 1
      BY <1>12, <1>13, <2>1, FS_AddElement
  <2>3. QED
      BY <1>12, <2>2
<1>15. PICK S8 : S8 = S7 \cup {"binding"}
    OBVIOUS
<1>16. IsFiniteSet(S8) /\ Cardinality(S8) = 8
  <2>1. "binding" \notin S7
      BY <1>1, <1>3, <1>5, <1>7, <1>9, <1>11, <1>13
  <2>2. IsFiniteSet(S8) /\ Cardinality(S8) = Cardinality(S7) + 1
      BY <1>14, <1>15, <2>1, FS_AddElement
  <2>3. QED
      BY <1>14, <2>2
<1>17. Results = S8 \cup {"ping"} /\ "ping" \notin S8
    BY <1>1, <1>3, <1>5, <1>7, <1>9, <1>11, <1>13, <1>15 DEF Results
<1>18. Cardinality(Results) = Cardinality(S8) + 1
    BY <1>16, <1>17, FS_AddElement
<1>19. QED
    BY <1>16, <1>18

\* When the phone's script is done every answer has been consumed, one video
\* frame was shown and the input channel is bound.
THEOREM DoneMeansComplete ==
    ASSUME LateInput PROVE Spec => []DoneIsComplete
<1>1. IInv => DoneIsComplete
  <2> SUFFICES ASSUME IInv, ph.done, conn = "up"
               PROVE  /\ toHU = <<>>
                      /\ \A i \in DOMAIN toPhone : toPhone[i].mid = HU!INPUT_EVENT_INDICATION
                      /\ frames = 1 /\ input_bound /\ state = "ACTIVE"
                      /\ Cardinality(ph.results) = 9
      BY DEF DoneIsComplete
  <2>1. PICK k \in 0 .. 28 : At(k)
      BY DEF IInv
  <2>2. k = 28
      BY <2>1 DEF At, PhoneAt
  <2>3. QED
      BY <2>1, <2>2, AtTheEnd, NineResults, LargeIds DEF IInv
<1>2. QED
    BY <1>1, Invariant, PTL

\* The harness has rounds enough from 16 on (run_mock makes 2000): when it ends
\* the phone is done, the session active, video open and a frame shown.
THEOREM HarnessAlwaysSucceeds ==
    ASSUME LateInput, MaxRounds >= 16 PROVE Spec => []HarnessSucceeds
<1>1. IInv => HarnessSucceeds
  <2> SUFFICES ASSUME IInv, HarnessOver
               PROVE  ph.done /\ state = "ACTIVE" /\ "video_open" \in ph.results /\ frames > 0
      BY DEF HarnessSucceeds
  <2>1. /\ driver = "harness"
        /\ turn = "phone"
        /\ conn = "up"
        /\ iter \in 0 .. MaxRounds
        /\ ph.done \/ state = "FAILED" \/ iter = MaxRounds
      BY DEF HarnessOver, IInv, LoopTyped
  <2>2. PICK k \in 0 .. 28 : At(k)
      BY <2>1 DEF IInv
  <2>3. state # "FAILED" /\ (ph.done <=> k = 28)
      BY <2>2 DEF At, Effects, PhoneAt
  <2>4. ASSUME iter = MaxRounds PROVE k = 28
    <3>1. Turns \in TurnsAt(k) /\ Turns = 2 * iter /\ iter \in Nat
        BY <2>1, <2>2, BoundsAssumption DEF At, Turns
    <3>2. Turns >= 32
        BY <2>4, <3>1
    <3>3. \A n \in TurnsAt(k) : n <= 30 \/ k = 28
        BY DEF TurnsAt
    <3>4. QED
        BY <3>1, <3>2, <3>3
  <2>5. k = 28
      BY <2>1, <2>3, <2>4
  <2>6. QED
      BY <2>2, <2>5, AtTheEnd DEF IInv, Results
<1>2. QED
    BY <1>1, Invariant, PTL

-----------------------------------------------------------------------------
(* Flow control.                                                           *)

\* A queue without a message of these ids counts none.
LEMMA CountNone ==
    ASSUME NEW q, NEW mids, \A i \in DOMAIN q : q[i].mid \notin mids
    PROVE  Count(q, mids) = 0
<1>1. {i \in DOMAIN q : q[i].mid \in mids} = {}
    OBVIOUS
<1>2. QED
    BY <1>1, FS_EmptySet DEF Count

\* A queue with one such message counts one.
LEMMA CountOne ==
    ASSUME NEW q, NEW mids, NEW n \in DOMAIN q,
           \A i \in DOMAIN q : q[i].mid \in mids <=> i = n
    PROVE  Count(q, mids) = 1
<1>1. {i \in DOMAIN q : q[i].mid \in mids} = {n}
    OBVIOUS
<1>2. QED
    BY <1>1, FS_Singleton DEF Count

\* The media frames the phone has in flight.
FramesAt(k) == Count(Asked(k), {MEDIA_DATA}) = IF k \in {19, 20, 22} THEN 1 ELSE 0
\* At each place the media frames asked, acknowledged and counted add up.
LEMMA FramesAsked ==
    ASSUME NEW k \in 0 .. 28 PROVE FramesAt(k)
<1>1. \A i \in {SETUP_REQUEST, START_INDICATION, BINDING_REQUEST} : i # 0
    BY LargeIds
<1>2. FramesAt(2)
  <2>1. PICK x : x = Msg(CONTROL, VERSION_RESPONSE, "plain", MATCH)
      OBVIOUS
  <2>2. PICK q : q = <<x>>
      OBVIOUS
  <2>3. x.mid # 0
      BY <1>1, <2>1, SameMsg
  <2>4. DOMAIN q = {1} /\ q[1] = x
      BY <2>2
  <2>5. \A i \in DOMAIN q : q[i].mid \notin {0}
      BY <2>3, <2>4
  <2>6. Count(q, {0}) = 0
      BY <2>5, CountNone
  <2>7. QED
      BY <2>1, <2>2, <2>6 DEF FramesAt, Asked
<1>3. FramesAt(4)
  <2>1. PICK x : x = Msg(CONTROL, SSL_HANDSHAKE, "plain", ServerHello)
      OBVIOUS
  <2>2. PICK q : q = <<x>>
      OBVIOUS
  <2>3. x.mid # 0
      BY <1>1, <2>1, SameMsg
  <2>4. DOMAIN q = {1} /\ q[1] = x
      BY <2>2
  <2>5. \A i \in DOMAIN q : q[i].mid \notin {0}
      BY <2>3, <2>4
  <2>6. Count(q, {0}) = 0
      BY <2>5, CountNone
  <2>7. QED
      BY <2>1, <2>2, <2>6 DEF FramesAt, Asked
<1>4. FramesAt(6)
  <2>1. PICK x : x = Msg(CONTROL, SSL_HANDSHAKE, "plain", ServerFinished)
      OBVIOUS
  <2>2. PICK q : q = <<x>>
      OBVIOUS
  <2>3. x.mid # 0
      BY <1>1, <2>1, SameMsg
  <2>4. DOMAIN q = {1} /\ q[1] = x
      BY <2>2
  <2>5. \A i \in DOMAIN q : q[i].mid \notin {0}
      BY <2>3, <2>4
  <2>6. Count(q, {0}) = 0
      BY <2>5, CountNone
  <2>7. QED
      BY <2>1, <2>2, <2>6 DEF FramesAt, Asked
<1>5. FramesAt(8)
  <2>1. PICK x : x = Msg(CONTROL, SERVICE_DISCOVERY_REQUEST, "sealed", 0)
      OBVIOUS
  <2>2. PICK q : q = <<x>>
      OBVIOUS
  <2>3. x.mid # 0
      BY <1>1, <2>1, SameMsg
  <2>4. DOMAIN q = {1} /\ q[1] = x
      BY <2>2
  <2>5. \A i \in DOMAIN q : q[i].mid \notin {0}
      BY <2>3, <2>4
  <2>6. Count(q, {0}) = 0
      BY <2>5, CountNone
  <2>7. QED
      BY <2>1, <2>2, <2>6 DEF FramesAt, Asked
<1>6. FramesAt(10)
  <2>1. PICK x : x = Msg(VIDEO, CHANNEL_OPEN_REQUEST, "sealed", 0)
      OBVIOUS
  <2>2. PICK q : q = <<x>>
      OBVIOUS
  <2>3. x.mid # 0
      BY <1>1, <2>1, SameMsg
  <2>4. DOMAIN q = {1} /\ q[1] = x
      BY <2>2
  <2>5. \A i \in DOMAIN q : q[i].mid \notin {0}
      BY <2>3, <2>4
  <2>6. Count(q, {0}) = 0
      BY <2>5, CountNone
  <2>7. QED
      BY <2>1, <2>2, <2>6 DEF FramesAt, Asked
<1>7. FramesAt(12)
  <2>1. PICK x : x = Msg(INPUT, CHANNEL_OPEN_REQUEST, "sealed", 0)
      OBVIOUS
  <2>2. PICK q : q = <<x>>
      OBVIOUS
  <2>3. x.mid # 0
      BY <1>1, <2>1, SameMsg
  <2>4. DOMAIN q = {1} /\ q[1] = x
      BY <2>2
  <2>5. \A i \in DOMAIN q : q[i].mid \notin {0}
      BY <2>3, <2>4
  <2>6. Count(q, {0}) = 0
      BY <2>5, CountNone
  <2>7. QED
      BY <2>1, <2>2, <2>6 DEF FramesAt, Asked
<1>8. FramesAt(14)
  <2>1. PICK x : x = Msg(MEDIA_AUDIO, CHANNEL_OPEN_REQUEST, "sealed", 0)
      OBVIOUS
  <2>2. PICK q : q = <<x>>
      OBVIOUS
  <2>3. x.mid # 0
      BY <1>1, <2>1, SameMsg
  <2>4. DOMAIN q = {1} /\ q[1] = x
      BY <2>2
  <2>5. \A i \in DOMAIN q : q[i].mid \notin {0}
      BY <2>3, <2>4
  <2>6. Count(q, {0}) = 0
      BY <2>5, CountNone
  <2>7. QED
      BY <2>1, <2>2, <2>6 DEF FramesAt, Asked
<1>9. FramesAt(16)
  <2>1. PICK x : x = Msg(VIDEO, SETUP_REQUEST, "sealed", 0)
      OBVIOUS
  <2>2. PICK q : q = <<x>>
      OBVIOUS
  <2>3. x.mid # 0
      BY <1>1, <2>1, SameMsg
  <2>4. DOMAIN q = {1} /\ q[1] = x
      BY <2>2
  <2>5. \A i \in DOMAIN q : q[i].mid \notin {0}
      BY <2>3, <2>4
  <2>6. Count(q, {0}) = 0
      BY <2>5, CountNone
  <2>7. QED
      BY <2>1, <2>2, <2>6 DEF FramesAt, Asked
<1>10. FramesAt(19)
  <2>1. PICK x : x = Msg(VIDEO, START_INDICATION, "sealed", 1)
      OBVIOUS
  <2>2. PICK y : y = Picture
      OBVIOUS
  <2>3. PICK q : q = <<x, y>>
      OBVIOUS
  <2>4. x.mid # 0 /\ y.mid = 0
      BY <1>1, <2>1, <2>2, SameMsg DEF Picture
  <2>5. DOMAIN q = {1, 2} /\ q[1] = x /\ q[2] = y
      BY <2>3
  <2>6. 2 \in DOMAIN q /\ \A i \in DOMAIN q : q[i].mid \in {0} <=> i = 2
      BY <2>4, <2>5
  <2>7. Count(q, {0}) = 1
      BY <2>6, CountOne
  <2>8. QED
      BY <2>1, <2>2, <2>3, <2>7 DEF FramesAt, Asked
<1>11. FramesAt(20)
  <2>1. PICK x : x = Msg(VIDEO, MEDIA_DATA, "plain", 0)
      OBVIOUS
  <2>2. PICK q : q = <<x>>
      OBVIOUS
  <2>3. x.mid = 0
      BY <1>1, <2>1, SameMsg
  <2>4. DOMAIN q = {1} /\ q[1] = x
      BY <2>2
  <2>5. 1 \in DOMAIN q /\ \A i \in DOMAIN q : q[i].mid \in {0} <=> i = 1
      BY <2>3, <2>4
  <2>6. Count(q, {0}) = 1
      BY <2>5, CountOne
  <2>7. QED
      BY <2>1, <2>2, <2>6 DEF FramesAt, Asked, Picture
<1>12. FramesAt(22)
  <2>1. PICK x : x = Msg(MEDIA_AUDIO, MEDIA_DATA, "plain", 0)
      OBVIOUS
  <2>2. PICK q : q = <<x>>
      OBVIOUS
  <2>3. x.mid = 0
      BY <1>1, <2>1, SameMsg
  <2>4. DOMAIN q = {1} /\ q[1] = x
      BY <2>2
  <2>5. 1 \in DOMAIN q /\ \A i \in DOMAIN q : q[i].mid \in {0} <=> i = 1
      BY <2>3, <2>4
  <2>6. Count(q, {0}) = 1
      BY <2>5, CountOne
  <2>7. QED
      BY <2>1, <2>2, <2>6 DEF FramesAt, Asked
<1>13. FramesAt(24)
  <2>1. PICK x : x = Msg(INPUT, BINDING_REQUEST, "sealed", 0)
      OBVIOUS
  <2>2. PICK q : q = <<x>>
      OBVIOUS
  <2>3. x.mid # 0
      BY <1>1, <2>1, SameMsg
  <2>4. DOMAIN q = {1} /\ q[1] = x
      BY <2>2
  <2>5. \A i \in DOMAIN q : q[i].mid \notin {0}
      BY <2>3, <2>4
  <2>6. Count(q, {0}) = 0
      BY <2>5, CountNone
  <2>7. QED
      BY <2>1, <2>2, <2>6 DEF FramesAt, Asked
<1>14. FramesAt(26)
  <2>1. PICK x : x = Msg(CONTROL, PING_REQUEST, "plain", 42)
      OBVIOUS
  <2>2. PICK q : q = <<x>>
      OBVIOUS
  <2>3. x.mid # 0
      BY <1>1, <2>1, SameMsg
  <2>4. DOMAIN q = {1} /\ q[1] = x
      BY <2>2
  <2>5. \A i \in DOMAIN q : q[i].mid \notin {0}
      BY <2>3, <2>4
  <2>6. Count(q, {0}) = 0
      BY <2>5, CountNone
  <2>7. QED
      BY <2>1, <2>2, <2>6 DEF FramesAt, Asked
<1>15. CASE k \notin Asks
  <2>1. Asked(k) = <<>> /\ k \notin {19, 20, 22}
      BY <1>15, AskedWhere DEF Asks
  <2>2. DOMAIN <<>> = {}
      OBVIOUS
  <2>3. Count(<<>>, {0}) = 0
      BY <2>2, CountNone
  <2>4. QED
      BY <2>1, <2>3 DEF FramesAt
<1>16. CASE k \in Asks
    BY <1>16, <1>2, <1>3, <1>4, <1>5, <1>6, <1>7, <1>8, <1>9, <1>10, <1>11, <1>12,
       <1>13, <1>14 DEF Asks
<1>17. QED
    BY <1>15, <1>16

\* The acks the head unit has in flight, among the input events.
LEMMA AcksInFlight ==
    ASSUME NEW k \in 0 .. 28, At(k)
    PROVE  Count(toPhone, {AV_MEDIA_ACK_INDICATION}) = IF k \in {21, 23} THEN 1 ELSE 0
<1>1. Answered(k) \in Seq(Answers) /\ Holds(toPhone, Answered(k), Among)
    BY ScriptTyped DEF AnsweredTyped, At
<1>2. \A m \in Among : m.mid # AV_MEDIA_ACK_INDICATION
    BY Differ DEF Among, InputEvents
<1>3. CASE k \notin {21, 23}
  <2>1. ASSUME NEW i \in DOMAIN toPhone, toPhone[i].mid = AV_MEDIA_ACK_INDICATION PROVE FALSE
    <3>1. toPhone[i] \notin Among
        BY <1>2, <2>1
    <3>2. PICK j \in DOMAIN Answered(k) : toPhone[i] = Answered(k)[j]
        BY <1>1, <3>1, HoldsOnly
    <3>3. QED
        BY <1>3, <2>1, <3>2, AnsweredAcks DEF AcksRight
  <2>2. QED
      BY <1>3, <2>1, CountNone
<1>4. CASE k \in {21, 23}
  <2>1. PICK x : Answered(k) = <<x>> /\ x.mid = AV_MEDIA_ACK_INDICATION
      BY <1>4, AnsweredAcks
  <2>2. PICK S : S = Among
      OBVIOUS
  <2>3. PICK a \in Seq(S), b \in Seq(S) : toPhone = a \o <<x>> \o b
      BY <1>1, <2>1, <2>2 DEF Holds
  <2>4. PICK w : w = <<x>>
      OBVIOUS
  <2>5. w \in Seq({x}) /\ Len(w) = 1 /\ w[1] = x
      BY <2>4
  <2>6. PICK T : T = S \cup {x}
      OBVIOUS
  <2>7. a \in Seq(T) /\ w \in Seq(T) /\ b \in Seq(T)
      BY <2>5, <2>6, SeqMonotonic
  <2>8. /\ a \o w \in Seq(T) /\ Len(a \o w) = Len(a) + Len(w)
         /\ \A i \in 1 .. Len(a) + Len(w) :
               (a \o w)[i] = IF i <= Len(a) THEN a[i] ELSE w[i - Len(a)]
      BY <2>7, ConcatProperties
  <2>9. /\ a \o w \in Seq(T) /\ Len(a \o w) = Len(a) + 1
        /\ \A i \in 1 .. Len(a) + 1 : (a \o w)[i] = IF i <= Len(a) THEN a[i] ELSE w[i - Len(a)]
      BY <2>5, <2>8
  <2>10. /\ toPhone \in Seq(T) /\ Len(toPhone) = Len(a) + 1 + Len(b)
        /\ \A i \in 1 .. Len(a) + 1 + Len(b) :
              toPhone[i] = IF i <= Len(a) + 1 THEN (a \o w)[i] ELSE b[i - (Len(a) + 1)]
      BY <2>3, <2>4, <2>7, <2>9, ConcatProperties
  <2>11. /\ Len(a) \in Nat
         /\ Len(b) \in Nat
         /\ DOMAIN toPhone = 1 .. Len(a) + 1 + Len(b)
      BY <2>10, LenProperties
  <2>12. PICK n : n = Len(a) + 1
      OBVIOUS
  <2>13. n \in DOMAIN toPhone /\ toPhone[n] = x
      BY <2>5, <2>9, <2>10, <2>11, <2>12
  <2>14. ASSUME NEW i \in DOMAIN toPhone, i # n PROVE toPhone[i] \in S
    <3>1. CASE i < n
      <4>1. i \in 1 .. Len(a) /\ toPhone[i] = a[i]
          BY <2>9, <2>10, <2>11, <2>12, <2>14, <3>1
      <4>2. QED
          BY <4>1, ElementOfSeq
    <3>2. CASE i > n
      <4>1. i - n \in 1 .. Len(b) /\ toPhone[i] = b[i - n]
          BY <2>10, <2>11, <2>12, <2>14, <3>2
      <4>2. QED
          BY <4>1, ElementOfSeq
    <3>3. QED
        BY <2>11, <2>12, <2>14, <3>1, <3>2
  <2>15. \A i \in DOMAIN toPhone : toPhone[i].mid \in {AV_MEDIA_ACK_INDICATION} <=> i = n
      BY <1>2, <2>1, <2>2, <2>13, <2>14
  <2>16. QED
      BY <1>4, <2>13, <2>15, CountOne
<1>5. QED
    BY <1>3, <1>4

\* While the phone waits for an ack exactly one media frame or one ack is in
\* flight, at any other time none.
THEOREM CreditIsConserved ==
    ASSUME LateInput PROVE Spec => []CreditConserved
<1>1. IInv => CreditConserved
  <2> SUFFICES ASSUME IInv, conn = "up"
               PROVE  InFlight = IF ph.step \in {9, 11} THEN 1 ELSE 0
      BY DEF CreditConserved
  <2>1. PICK k \in 0 .. 28 : At(k)
      BY DEF IInv
  <2>2. Count(toHU, {HU!MEDIA_DATA}) = IF k \in {19, 20, 22} THEN 1 ELSE 0
      BY <2>1, FramesAsked DEF At, FramesAt
  <2>3. Count(toPhone, {HU!AV_MEDIA_ACK_INDICATION}) = IF k \in {21, 23} THEN 1 ELSE 0
      BY <2>1, AcksInFlight, LargeIds
  <2>4. ph.step = StepAt(k)
      BY <2>1 DEF At, PhoneAt
  <2>5. StepAt(k) \in {9, 11} <=> k \in {19, 20, 21, 22, 23}
      BY DEF StepAt
  <2>6. QED
      BY <2>2, <2>3, <2>4, <2>5 DEF InFlight
<1>2. QED
    BY <1>1, Invariant, PTL
=============================================================================
