---------------------------- MODULE ControlProof -----------------------------
(***************************************************************************)
(* Proofs about Control: for every set of channels and every set of        *)
(* messages a phone may send on them, the handshake is sent in its order,  *)
(* a failed session stays failed, media sessions belong to media channels  *)
(* and an active session speaks under TLS.                                 *)
(*                                                                         *)
(* The code keeps no record of what it has sent: the stage and the state   *)
(* of TLS stand for it.  The invariant says what has been sent for each of *)
(* their values, which is why the next message of the script is always the *)
(* one the stage's handler sends.                                          *)
(***************************************************************************)
EXTENDS Control, SequenceTheorems, TLAPS

Message == [ch : Channels, mid : Nat, enc : {"plain", "sealed", "bare"}, val : Int]

\* What may be said in the active stage.
Answers == {m \in Message : m.enc = "sealed" \/ m.mid = PING_RESPONSE}

\* The script's messages, and how much of it is out at each stage.
M1 == Msg(CONTROL, VERSION_REQUEST, "plain", 0)
M2 == Msg(CONTROL, SSL_HANDSHAKE, "plain", ClientHello)
M3 == Msg(CONTROL, SSL_HANDSHAKE, "plain", ClientFinished)
M4 == Msg(CONTROL, AUTH_COMPLETE, "plain", 0)
M5 == Msg(CONTROL, SERVICE_DISCOVERY_RESPONSE, "sealed", 0)

Steps == <<M1, M2, M3, M4, M5>>
Sent(n) == SubSeq(Steps, 1, n)

SentByStage ==
    /\ \E n \in 0 .. 5 : hs_sent = Sent(n)
    /\ stage = "SEND_VERSION" => tls = "none" /\ hs_sent = Sent(0)
    /\ stage = "WAIT_VERSION" => tls = "none" /\ hs_sent = Sent(1)
    /\ stage = "TLS" => \/ tls = "hello" /\ hs_sent = Sent(2)
                        \/ tls = "finished" /\ hs_sent = Sent(3)
    /\ stage = "WAIT_SERVICE_DISCOVERY" =>
          tls = "done" /\ hs_sent = Sent(4)
    /\ stage = "ACTIVE" => tls = "done" /\ hs_sent = Sent(5)

StateByStage ==
    state = CASE stage = "ACTIVE" -> "ACTIVE"
              [] stage = "FAILED" -> "FAILED"
              [] OTHER -> "IDLE"

OutTyped ==
    /\ out \in Seq(Message)
    /\ stage = "ACTIVE" => out \in Seq(Answers)

VarsTyped ==
    /\ stage \in Stages
    /\ tls \in TlsStates
    /\ session_by_channel \in [SmallChannels -> Int]
    /\ input_bound \in BOOLEAN
    /\ conn \in {"up", "closed"}
    /\ frames \in 0 .. MaxFrames

IInv == VarsTyped /\ StateByStage /\ SentByStage /\ OutTyped /\ SessionsOnlyForMedia

-----------------------------------------------------------------------------
(* Sequences of messages.                                                  *)

\* One message of a set is a sequence over it.
LEMMA OneMessage ==
    ASSUME NEW S, NEW a \in S PROVE <<a>> \in Seq(S)
    OBVIOUS

\* So are two sequences, one after the other.
LEMMA TwoParts ==
    ASSUME NEW S, NEW s \in Seq(S), NEW t \in Seq(S)
    PROVE  s \o t \in Seq(S)
    OBVIOUS

\* What is said in the active stage is made of messages.
LEMMA AnswersAreMessages == Seq(Answers) \subseteq Seq(Message)
    BY SeqMonotonic DEF Answers

\* Nothing said is a sequence over any set.
LEMMA Silence ==
    ASSUME NEW S PROVE <<>> \in Seq(S)
    OBVIOUS

\* What reaches the connection is what was written, or nothing.
LEMMA WrittenTyped ==
    ASSUME NEW S, NEW ms \in Seq(S) PROVE Written(ms) \in Seq(S)
    BY Silence DEF Written

\* A message on a channel of ours, with a number for its id and its payload.
LEMMA MsgTyped ==
    ASSUME NEW ch \in Channels, NEW mid \in Nat, NEW val \in Int,
           NEW enc \in {"plain", "sealed", "bare"}
    PROVE  /\ Msg(ch, mid, enc, val) \in Message
           /\ enc = "sealed" \/ mid = PING_RESPONSE =>
                 Msg(ch, mid, enc, val) \in Answers
    BY DEF Msg, Message, Answers

\* aa_session_send of a message: typed in every state, sealed once TLS is done.
LEMMA SealedTyped ==
    ASSUME NEW ch \in Channels, NEW mid \in Nat, NEW val \in Int
    PROVE  /\ SealedNow(ch, mid, val) \in Seq(Message)
           /\ tls = "done" => SealedNow(ch, mid, val) \in Seq(Answers)
<1>1. Msg(ch, mid, "bare", val) \in Message /\ Msg(ch, mid, "sealed", val) \in Answers
      /\ Msg(ch, mid, "sealed", val) \in Message
    BY MsgTyped
<1>2. /\ <<Msg(ch, mid, "bare", val)>> \in Seq(Message)
      /\ <<Msg(ch, mid, "sealed", val)>> \in Seq(Message)
      /\ <<Msg(ch, mid, "sealed", val)>> \in Seq(Answers)
    BY <1>1, OneMessage
<1>3. QED
    BY <1>2, Silence DEF SealedNow

\* The numbers the messages are made of.
LEMMA Numbers ==
    /\ CONTROL \in Channels /\ SENSOR \in Channels
    /\ VIDEO \in Channels /\ INPUT \in Channels
    /\ {VERSION_REQUEST, SSL_HANDSHAKE, AUTH_COMPLETE, SERVICE_DISCOVERY_RESPONSE,
        CHANNEL_OPEN_RESPONSE, PING_RESPONSE, AUDIO_FOCUS_NOTIFICATION,
        INPUT_EVENT_INDICATION, BINDING_RESPONSE, SENSOR_RESPONSE, SENSOR_BATCH,
        SETUP_RESPONSE, AV_MEDIA_ACK_INDICATION, VIDEO_FOCUS_INDICATION} \subseteq Nat
    /\ {ClientHello, ClientFinished, Alert, NoSession} \subseteq Int
    BY ChannelsAssumption
       DEF CONTROL, SENSOR, VIDEO, INPUT, VERSION_REQUEST, SSL_HANDSHAKE,
           AUTH_COMPLETE, SERVICE_DISCOVERY_RESPONSE, CHANNEL_OPEN_RESPONSE,
           PING_RESPONSE, AUDIO_FOCUS_NOTIFICATION, INPUT_EVENT_INDICATION,
           BINDING_RESPONSE, SENSOR_RESPONSE, SENSOR_BATCH, SETUP_RESPONSE,
           AV_MEDIA_ACK_INDICATION, VIDEO_FOCUS_INDICATION, ClientHello,
           ClientFinished, Alert, NoSession

\* The handshake's senders write typed messages.
LEMMA HandshakeTyped ==
    /\ VersionRequest = <<M1>> /\ AuthComplete = <<M4>>
    /\ tls = "done" => ServiceDiscoveryResponse = <<M5>>
    /\ {M1, M2, M3, M4, M5} \subseteq Message /\ M5 \in Answers
<1>1. VersionRequest = <<M1>> /\ AuthComplete = <<M4>>
    BY DEF VersionRequest, AuthComplete, Plain, M1, M4
<1>2. tls = "done" => ServiceDiscoveryResponse = <<M5>>
    BY DEF ServiceDiscoveryResponse, SealedNow, M5
<1>3. M1 \in Message /\ M2 \in Message
    BY Numbers, MsgTyped DEF M1, M2
<1>4. M3 \in Message /\ M4 \in Message
    BY Numbers, MsgTyped DEF M3, M4
<1>5. M5 \in Message /\ M5 \in Answers
    BY Numbers, MsgTyped DEF M5
<1>6. QED
    BY <1>1, <1>2, <1>3, <1>4, <1>5

\* What was sent is a prefix of the script; the next message of the script
\* takes it one step on, and nothing leaves it as it was.
LEMMA OneMore ==
    /\ Steps \in Seq(Message) /\ Sent(0) = <<>> /\ Sent(5) = Steps
    /\ \A n \in 0 .. 5 : Len(Sent(n)) = n
    /\ Sent(0) \o <<M1>> = Sent(1)
    /\ Sent(1) \o <<M2>> = Sent(2)
    /\ Sent(2) \o (<<M3>> \o <<>>) = Sent(3)
    /\ Sent(3) \o (<<>> \o <<M4>>) = Sent(4)
    /\ Sent(4) \o <<M5>> = Sent(5)
    /\ \A n \in 0 .. 5 : Sent(n) \o (<<>> \o <<>>) = Sent(n)
<1>1. Steps \in Seq(Message) /\ Len(Steps) = 5
    BY HandshakeTyped DEF Steps
<1>2. Steps[1] = M1 /\ Steps[2] = M2 /\ Steps[3] = M3 /\ Steps[4] = M4 /\ Steps[5] = M5
    BY DEF Steps
<1>3. \A n \in 1 .. 5 : Sent(n) = Sent(n - 1) \o <<Steps[n]>>
    BY <1>1, SubSeqRecursiveSecond DEF Sent
<1>4. Sent(0) = <<>>
    BY SubSeqEmpty DEF Sent
<1>5. \A n \in 0 .. 5 : Sent(n) \in Seq(Message) /\ Len(Sent(n)) = n
  <2>1. \A i \in 1 .. 5 : Steps[i] \in Message
    BY <1>1, ElementOfSeq
  <2>2. QED
    BY <2>1, SubSeqProperties DEF Sent
<1>6. \A n \in 0 .. 5 : Sent(n) \o <<>> = Sent(n)
    BY <1>5, ConcatEmptySeq
<1>7. /\ <<>> \o <<>> = <<>> /\ <<>> \o <<M4>> = <<M4>>
      /\ <<M3>> \o <<>> = <<M3>>
    OBVIOUS
<1>8. Sent(5) = Steps
    BY <1>1, SubSeqFull DEF Sent
<1>9. /\ Sent(1) = Sent(0) \o <<M1>> /\ Sent(2) = Sent(1) \o <<M2>>
      /\ Sent(3) = Sent(2) \o <<M3>> /\ Sent(4) = Sent(3) \o <<M4>>
      /\ Sent(5) = Sent(4) \o <<M5>>
  <2>1. 1 - 1 = 0 /\ 2 - 1 = 1 /\ 3 - 1 = 2 /\ 4 - 1 = 3 /\ 5 - 1 = 4
        /\ {1, 2, 3, 4, 5} \subseteq 1 .. 5
    OBVIOUS
  <2>2. \A n \in {1, 2, 3, 4, 5} : Sent(n) = Sent(n - 1) \o <<Steps[n]>>
    BY <1>3, <2>1
  <2>3. /\ Sent(1) = Sent(1 - 1) \o <<Steps[1]>> /\ Sent(2) = Sent(2 - 1) \o <<Steps[2]>>
        /\ Sent(3) = Sent(3 - 1) \o <<Steps[3]>> /\ Sent(4) = Sent(4 - 1) \o <<Steps[4]>>
        /\ Sent(5) = Sent(5 - 1) \o <<Steps[5]>>
    BY <2>2, Zenon
  <2>4. QED
    BY <1>2, <2>1, <2>3, Zenon
<1>10. QED
    BY <1>1, <1>4, <1>5, <1>6, <1>7, <1>8, <1>9

\* What dispatch answers is typed, and sealed or the answer to a ping.
LEMMA ReplyTyped ==
    ASSUME VarsTyped, tls = "done", NEW m \in Inbound
    PROVE  Reply(m) \in Seq(Answers)
<1>1. m.ch \in Channels /\ m.val \in Int
    BY InboundAssumption
<1> DEFINE S == Seq(Answers)
<1>2. /\ ChannelOpenResponse(m.ch) \in S /\ DrivingStatus \in S
      /\ AudioFocus(m.val) \in S /\ BindingResponse \in S /\ SensorResponse \in S
      /\ SetupResponse(m.ch) \in S /\ VideoFocus \in S
  <2>1. ASSUME NEW ch \in Channels, NEW mid \in Nat, NEW val \in Int
        PROVE  SealedNow(ch, mid, val) \in S
    BY SealedTyped
  <2>2. 0 \in Int
    OBVIOUS
  <2>3. ChannelOpenResponse(m.ch) \in S
    BY <1>1, <2>1, <2>2, Numbers DEF ChannelOpenResponse
  <2>4. DrivingStatus \in S
    BY <2>1, <2>2, Numbers DEF DrivingStatus
  <2>5. AudioFocus(m.val) \in S
    BY <1>1, <2>1, Numbers DEF AudioFocus
  <2>6. BindingResponse \in S /\ SensorResponse \in S
    BY <2>1, <2>2, Numbers DEF BindingResponse, SensorResponse
  <2>7. SetupResponse(m.ch) \in S /\ VideoFocus \in S
    BY <1>1, <2>1, <2>2, Numbers DEF SetupResponse, VideoFocus
  <2>8. QED
    BY <2>3, <2>4, <2>5, <2>6, <2>7
<1>3. Plain(CONTROL, PING_RESPONSE, m.val) \in S
  <2>1. Msg(CONTROL, PING_RESPONSE, "plain", m.val) \in Answers
    BY <1>1, MsgTyped, Numbers
  <2>2. QED
    BY <2>1, OneMessage DEF Plain
<1>4. Ack(m) \in S
  <2>1. AckSession(m.ch) \in Int
    BY <1>1, Numbers DEF AckSession, VarsTyped
  <2>2. QED
    BY <1>1, <2>1, SealedTyped, Numbers DEF Ack
<1>5. <<>> \in S
    BY Silence
<1>6. ChannelOpenResponse(m.ch) \o (IF m.ch = SENSOR THEN DrivingStatus ELSE <<>>) \in S
    BY <1>2, <1>5, TwoParts
<1>7. SetupResponse(m.ch) \o (IF m.ch = VIDEO THEN VideoFocus ELSE <<>>) \in S
    BY <1>2, <1>5, TwoParts
<1> HIDE DEF S
<1>8. QED
    BY <1>2, <1>3, <1>4, <1>5, <1>6, <1>7 DEF Reply, S

\* So are the input events, whatever the stage.
LEMMA InputTyped ==
    /\ InputMessages(<<0>>) \in Seq(Message)
    /\ tls = "done" => InputMessages(<<0>>) \in Seq(Answers)
<1> DEFINE s == SealedNow(INPUT, INPUT_EVENT_INDICATION, 0)
<1>1. s \in Seq(Message) /\ (tls = "done" => s \in Seq(Answers))
  <2>1. INPUT \in Channels /\ INPUT_EVENT_INDICATION \in Nat /\ 0 \in Int
    BY Numbers
  <2>2. QED
    BY <2>1, SealedTyped
<1>2. s = <<>> \/ Len(s) = 1
    BY DEF SealedNow
<1>3. InputMessages(<<0>>) = IF s = <<>> THEN <<>> ELSE [k \in 1 .. 1 |-> s[1]]
    BY DEF InputMessages, SealedNow
<1> HIDE DEF s
<1>4. ASSUME NEW S, s \in Seq(S), Len(s) = 1 PROVE [k \in 1 .. 1 |-> s[1]] \in Seq(S)
    BY <1>4
<1>5. QED
    BY <1>1, <1>2, <1>3, <1>4, Silence
-----------------------------------------------------------------------------
(* The invariant.                                                          *)

\* aa_control_create: nothing is sent, TLS is not there.
LEMMA InitIInv == Init => IInv
<1> SUFFICES ASSUME Init PROVE IInv
    OBVIOUS
<1>1. VarsTyped
  <2>1. frames \in 0 .. MaxFrames /\ NoSession \in Int
    BY Numbers, MaxFramesAssumption DEF Init
  <2>2. QED
    BY <2>1 DEF Init, VarsTyped, Stages, TlsStates
<1>2. StateByStage /\ SentByStage
    BY OneMore DEF Init, StateByStage, SentByStage
<1>3. OutTyped /\ SessionsOnlyForMedia
    BY Silence DEF Init, OutTyped, SessionsOnlyForMedia
<1>4. QED
    BY <1>1, <1>2, <1>3 DEF IInv

\* A call that only fails the session, or finds it failed.
LEMMA FailedKeepsIInv ==
    ASSUME IInv, SetFailed, out' \in Seq(Message), hs_sent' = hs_sent,
           tls' \in TlsStates, UNCHANGED <<media, conn>>
    PROVE  IInv'
<1>1. VarsTyped'
    BY DEF IInv, VarsTyped, SetFailed, Stages, media
<1>2. StateByStage' /\ SentByStage'
    BY DEF IInv, SetFailed, StateByStage, SentByStage
<1>3. OutTyped' /\ SessionsOnlyForMedia'
    BY DEF IInv, SetFailed, OutTyped, SessionsOnlyForMedia, media
<1>4. QED
    BY <1>1, <1>2, <1>3 DEF IInv

\* A call whose send fails fails the session.
LEMMA SendErrorKeepsIInv ==
    ASSUME IInv, SendError, tls' \in TlsStates, UNCHANGED <<media, conn>>
    PROVE  IInv'
    BY FailedKeepsIInv, Silence DEF SendError

\* One step per case of aa_control_poll, the input events and the closing.
LEMMA StepIInv == IInv /\ [Next]_vars => IInv'
<1> SUFFICES ASSUME IInv, [Next]_vars PROVE IInv'
    OBVIOUS
<1>0. tls \in TlsStates
    BY DEF IInv, VarsTyped
<1>1. ASSUME PollStart PROVE IInv'
  <2>1. CASE SendError
    BY <1>0, <1>1, <2>1, SendErrorKeepsIInv DEF PollStart
  <2>2. CASE ~SendError
    <3>1. /\ stage' = "WAIT_VERSION" /\ Handshake(<<M1>>) /\ hs_sent = Sent(0)
          /\ stage = "SEND_VERSION" /\ tls = "none" /\ UNCHANGED <<state, tls, media, conn>>
      BY <1>1, <2>2, HandshakeTyped DEF PollStart, IInv, SentByStage
    <3>2. hs_sent' = Sent(1)
      BY <3>1, OneMore DEF Handshake
    <3>3. out' \in Seq(Message)
      BY <3>1, HandshakeTyped, OneMessage, WrittenTyped DEF Handshake
    <3>4. VarsTyped'
      BY <3>1 DEF IInv, VarsTyped, Stages, media
    <3>5. StateByStage' /\ SentByStage'
      BY <3>1, <3>2 DEF IInv, StateByStage, SentByStage
    <3>6. OutTyped' /\ SessionsOnlyForMedia'
      BY <3>1, <3>3 DEF IInv, OutTyped, SessionsOnlyForMedia, media
    <3>7. QED
      BY <3>4, <3>5, <3>6 DEF IInv
  <2>3. QED
    BY <2>1, <2>2
<1>2. ASSUME PollEof PROVE IInv'
    BY <1>0, <1>2, FailedKeepsIInv, Silence DEF PollEof, Quiet
<1>3. ASSUME NEW m \in Inbound, PollUnreadable(m) PROVE IInv'
    BY <1>0, <1>3, FailedKeepsIInv, Silence DEF PollUnreadable, Quiet
<1>4. ASSUME NEW m \in Inbound, PollIgnore(m) PROVE IInv'
  <2>1. UNCHANGED <<stage, state, tls, session_by_channel, input_bound, frames, conn,
                    hs_sent>> /\ out' = <<>>
    BY <1>4 DEF PollIgnore, Quiet, media
  <2>2. QED
    BY <2>1, Silence DEF IInv, VarsTyped, StateByStage, SentByStage, OutTyped,
                         SessionsOnlyForMedia
<1>5. ASSUME NEW m \in Inbound, PollVersion(m) PROVE IInv'
  <2>1. CASE SetFailed /\ Quiet /\ UNCHANGED tls
    BY <1>0, <1>5, <2>1, FailedKeepsIInv, Silence DEF PollVersion, Quiet
  <2>2. CASE tls' = "hello" /\ SendError
    BY <1>5, <2>2, SendErrorKeepsIInv DEF PollVersion, TlsStates
  <2>3. CASE /\ tls' = "hello" /\ stage' = "TLS" /\ UNCHANGED state
             /\ Handshake(Plain(CONTROL, SSL_HANDSHAKE, ClientHello))
    <3>1. hs_sent = Sent(1) /\ Handshake(<<M2>>) /\ UNCHANGED <<media, conn>>
          /\ stage = "WAIT_VERSION"
      BY <1>5, <2>3 DEF PollVersion, IInv, SentByStage, Plain, M2
    <3>2. hs_sent' = Sent(2)
      BY <3>1, OneMore DEF Handshake
    <3>3. out' \in Seq(Message)
      BY <3>1, HandshakeTyped, OneMessage, WrittenTyped DEF Handshake
    <3>4. VarsTyped'
      BY <2>3, <3>1 DEF IInv, VarsTyped, Stages, TlsStates, media
    <3>5. StateByStage' /\ SentByStage'
      BY <2>3, <3>1, <3>2 DEF IInv, StateByStage, SentByStage
    <3>6. OutTyped' /\ SessionsOnlyForMedia'
      BY <2>3, <3>1, <3>3 DEF IInv, OutTyped, SessionsOnlyForMedia, media
    <3>7. QED
      BY <3>4, <3>5, <3>6 DEF IInv
  <2>4. QED
    BY <1>5, <2>1, <2>2, <2>3 DEF PollVersion
<1>6. ASSUME NEW m \in Inbound, PollTls(m) PROVE IInv'
  <2> DEFINE r == ClientStep(m.val)
             auth == IF TlsComplete(r.hr) THEN AuthComplete ELSE <<>>
  <2>1. /\ stage = "TLS" /\ UNCHANGED <<media, conn>> /\ tls' = r.tls
        /\ \/ tls = "hello" /\ hs_sent = Sent(2)
           \/ tls = "finished" /\ hs_sent = Sent(3)
    BY <1>6 DEF PollTls, IInv, SentByStage
  <2>2. CASE tls = "hello" /\ m.val = ServerHello
    <3>1. r.send = <<M3>> /\ r.tls = "finished" /\ r.hr = 1 /\ auth = <<>>
      <4>1. r = [send |-> <<M3>>, tls |-> "finished", hr |-> 1]
        BY <2>2 DEF ClientStep, Plain, M3, ServerHello, ServerFinished, Fragment
      <4>2. QED
        BY <4>1 DEF TlsComplete
    <3>2. CASE SendError
      BY <2>1, <3>1, <3>2, SendErrorKeepsIInv DEF TlsStates
    <3>3. CASE ~SendError
      <4>1. Handshake(<<M3>> \o <<>>) /\ stage' = stage /\ UNCHANGED state
        BY <1>6, <3>1, <3>3 DEF PollTls, TlsComplete
      <4>2. hs_sent' = Sent(3)
        BY <2>1, <2>2, <4>1, OneMore DEF Handshake
      <4>3. out' \in Seq(Message)
        BY <4>1, OneMore, HandshakeTyped, OneMessage, WrittenTyped DEF Handshake
      <4>4. VarsTyped'
        BY <2>1, <3>1, <4>1 DEF IInv, VarsTyped, TlsStates, media
      <4>5. StateByStage' /\ SentByStage'
        BY <2>1, <3>1, <4>1, <4>2 DEF IInv, StateByStage, SentByStage
      <4>6. OutTyped' /\ SessionsOnlyForMedia'
        BY <2>1, <4>1, <4>3 DEF IInv, OutTyped, SessionsOnlyForMedia, media
      <4>7. QED
        BY <4>4, <4>5, <4>6 DEF IInv
    <3>4. QED
      BY <3>2, <3>3
  <2>3. CASE tls = "finished" /\ m.val = ServerFinished
    <3>1. r.send = <<>> /\ r.tls = "done" /\ r.hr = 0 /\ auth = <<M4>>
      <4>1. r = [send |-> <<>>, tls |-> "done", hr |-> 0]
        BY <2>3 DEF ClientStep, ServerHello, ServerFinished, Fragment
      <4>2. QED
        BY <4>1, HandshakeTyped DEF TlsComplete
    <3>2. CASE SendError
      BY <2>1, <3>1, <3>2, SendErrorKeepsIInv DEF TlsStates
    <3>3. CASE ~SendError
      <4>1. /\ Handshake(<<>> \o <<M4>>) /\ stage' = "WAIT_SERVICE_DISCOVERY"
            /\ UNCHANGED state
        BY <1>6, <3>1, <3>3 DEF PollTls, TlsComplete
      <4>2. hs_sent' = Sent(4)
        BY <2>1, <2>3, <4>1, OneMore DEF Handshake
      <4>3. out' \in Seq(Message)
        BY <4>1, OneMore, HandshakeTyped, OneMessage, WrittenTyped DEF Handshake
      <4>4. VarsTyped'
        BY <2>1, <3>1, <4>1 DEF IInv, VarsTyped, TlsStates, Stages, media
      <4>5. StateByStage' /\ SentByStage'
        BY <2>1, <3>1, <4>1, <4>2 DEF IInv, StateByStage, SentByStage
      <4>6. OutTyped' /\ SessionsOnlyForMedia'
        BY <2>1, <4>1, <4>3 DEF IInv, OutTyped, SessionsOnlyForMedia, media
      <4>7. QED
        BY <4>4, <4>5, <4>6 DEF IInv
    <3>4. QED
      BY <3>2, <3>3
  <2>4. CASE m.val = Fragment
    <3>1. r.send = <<>> /\ r.tls = tls /\ r.hr = 1 /\ auth = <<>>
      BY <2>1, <2>4 DEF ClientStep, TlsComplete, Fragment, ServerHello, ServerFinished
    <3>2. /\ Handshake(<<>> \o <<>>) /\ UNCHANGED <<stage, state>>
      BY <1>6, <3>1 DEF PollTls, TlsComplete
    <3>3. hs_sent' = hs_sent
      BY <2>1, <3>2, OneMore DEF Handshake
    <3>4. out' \in Seq(Message)
      BY <3>2, TwoParts, Silence, WrittenTyped DEF Handshake
    <3>5. QED
      BY <2>1, <3>1, <3>2, <3>3, <3>4 DEF IInv, VarsTyped, StateByStage, SentByStage, OutTyped,
                                    SessionsOnlyForMedia, media
  <2>5. CASE /\ ~(tls = "hello" /\ m.val = ServerHello)
             /\ ~(tls = "finished" /\ m.val = ServerFinished) /\ m.val # Fragment
    <3>1. r = [send |-> Plain(CONTROL, SSL_HANDSHAKE, Alert), tls |-> tls, hr |-> -1]
      BY <2>5 DEF ClientStep
    <3>2. r.send \in Seq(Message)
      <4>1. Msg(CONTROL, SSL_HANDSHAKE, "plain", Alert) \in Message
        BY Numbers, MsgTyped
      <4>2. QED
        BY <3>1, <4>1, OneMessage DEF Plain
    <3>3. SetFailed /\ out' = Written(r.send) /\ hs_sent' = hs_sent
      BY <1>6, <3>1 DEF PollTls
    <3>4. QED
      BY <1>0, <2>1, <3>1, <3>2, <3>3, FailedKeepsIInv, WrittenTyped
  <2>6. QED
    BY <2>2, <2>3, <2>4, <2>5
<1>7. ASSUME NEW m \in Inbound, PollServiceDiscovery(m) PROVE IInv'
  <2>1. CASE SendError
    BY <1>0, <1>7, <2>1, SendErrorKeepsIInv DEF PollServiceDiscovery
  <2>2. CASE ~SendError
    <3>1. /\ stage' = "ACTIVE" /\ state' = "ACTIVE" /\ tls = "done"
          /\ Handshake(<<M5>>) /\ hs_sent = Sent(4)
          /\ UNCHANGED <<tls, media, conn>>
      BY <1>7, <2>2, HandshakeTyped DEF PollServiceDiscovery, IInv, SentByStage
    <3>2. hs_sent' = Sent(5)
      BY <3>1, OneMore DEF Handshake
    <3>3. out' \in Seq(Message) /\ out' \in Seq(Answers)
      BY <3>1, HandshakeTyped, OneMessage, WrittenTyped DEF Handshake
    <3>4. VarsTyped'
      BY <3>1 DEF IInv, VarsTyped, Stages, media
    <3>5. StateByStage' /\ SentByStage'
      BY <3>1, <3>2 DEF IInv, StateByStage, SentByStage
    <3>6. OutTyped' /\ SessionsOnlyForMedia'
      BY <3>1, <3>3 DEF IInv, OutTyped, SessionsOnlyForMedia, media
    <3>7. QED
      BY <3>4, <3>5, <3>6 DEF IInv
  <2>3. QED
    BY <2>1, <2>2
<1>8. ASSUME NEW m \in Inbound, Dispatch(m) PROVE IInv'
  <2>1. /\ stage = "ACTIVE" /\ tls = "done" /\ VarsTyped
        /\ UNCHANGED <<stage, state, tls, conn, hs_sent>>
    BY <1>8 DEF Dispatch, IInv, SentByStage
  <2>2. out' \in Seq(Answers) /\ out' \in Seq(Message)
    BY <1>8, <2>1, ReplyTyped, WrittenTyped, AnswersAreMessages DEF Dispatch
  <2>3. m.ch \in Channels /\ m.val \in Int /\ NoSession \in Int
    BY InboundAssumption, Numbers
  <2>4. /\ SessionsAfter(m) \in [SmallChannels -> Int]
        /\ \A ch \in SmallChannels \cap {CONTROL, SENSOR, INPUT} :
              SessionsAfter(m)[ch] = session_by_channel[ch]
    BY <2>1, <2>3 DEF SessionsAfter, VarsTyped, OnMediaChannel
  <2>5. VarsTyped'
    <3>1. frames' \in 0 .. MaxFrames
      BY <1>8, MaxFramesAssumption DEF Dispatch, IInv, VarsTyped
    <3>2. input_bound' \in BOOLEAN
      BY <1>8 DEF Dispatch
    <3>3. QED
      BY <1>8, <2>1, <2>4, <3>1, <3>2 DEF Dispatch, VarsTyped
  <2>6. StateByStage' /\ SentByStage'
    BY <2>1 DEF IInv, StateByStage, SentByStage
  <2>7. OutTyped' /\ SessionsOnlyForMedia'
    BY <1>8, <2>1, <2>2, <2>4 DEF Dispatch, IInv, OutTyped, SessionsOnlyForMedia
  <2>8. QED
    BY <2>5, <2>6, <2>7 DEF IInv
<1>9. CASE SendInput(<<0>>)
  <2>1. /\ UNCHANGED <<stage, state, tls, session_by_channel, input_bound, frames,
                       conn, hs_sent>>
        /\ out' = Written(InputMessages(<<0>>))
    BY <1>9 DEF SendInput, media
  <2>2. out' \in Seq(Message) /\ (tls = "done" => out' \in Seq(Answers))
    BY <2>1, InputTyped, WrittenTyped
  <2>3. QED
    BY <2>1, <2>2 DEF IInv, VarsTyped, StateByStage, SentByStage, OutTyped,
                      SessionsOnlyForMedia
<1>10. ASSUME Close PROVE IInv'
  <2>1. UNCHANGED <<stage, state, tls, session_by_channel, input_bound, frames,
                    hs_sent>> /\ out' = <<>> /\ conn' = "closed"
    BY <1>10 DEF Close, media
  <2>2. QED
    BY <2>1, Silence DEF IInv, VarsTyped, StateByStage, SentByStage, OutTyped,
                         SessionsOnlyForMedia
<1>11. ASSUME UNCHANGED vars PROVE IInv'
    BY <1>11 DEF vars, IInv, VarsTyped, StateByStage, SentByStage, OutTyped,
                 SessionsOnlyForMedia
<1>12. QED
    BY <1>1, <1>2, <1>3, <1>4, <1>5, <1>6, <1>7, <1>8, <1>9, <1>10, <1>11
       DEF Next, Receive

\* Everything the head unit does keeps the invariant.
THEOREM Invariant == Spec => []IInv
    BY InitIInv, StepIInv, PTL DEF Spec

-----------------------------------------------------------------------------
(* The properties.                                                         *)

\* The variables of aa_control hold what the code puts there: a stage and a
\* state of their enumerations, a session id per small channel.
THEOREM TypeCorrect == Spec => []TypeOK
<1>1. IInv => TypeOK
  <2> SUFFICES ASSUME IInv PROVE TypeOK
    OBVIOUS
  <2>1. ASSUME NEW k \in DOMAIN out PROVE out[k] \in Message
    BY <2>1 DEF IInv, OutTyped
  <2>2. state \in {"IDLE", "ACTIVE", "FAILED"}
    BY DEF IInv, StateByStage
  <2>3. QED
    BY <2>1, <2>2 DEF IInv, VarsTyped, TypeOK, Message
<1>2. QED
    BY <1>1, Invariant, PTL

\* The messages of the script, one by one.
LEMMA ScriptIsSteps == Script = Steps
<1>1. Script = (((<<M1>> \o <<M2>>) \o <<M3>>) \o <<M4>>) \o <<M5>>
    BY DEF Script, Plain, M1, M2, M3, M4, M5
<1>2. <<M1>> = Sent(0) \o <<M1>>
    BY OneMore
<1>3. <<M3>> = <<M3>> \o <<>> /\ <<M4>> = <<>> \o <<M4>>
    OBVIOUS
<1>4. QED
    BY <1>1, <1>2, <1>3, OneMore

\* The handshake messages go out in the order of the script, each at most once,
\* and the session is active only when all of them went out.
THEOREM HandshakeOrdered == Spec => []HandshakeInOrder
<1>1. IInv => HandshakeInOrder
  <2> SUFFICES ASSUME IInv PROVE HandshakeInOrder
    OBVIOUS
  <2>1. hs_sent = SubSeq(Script, 1, Len(hs_sent))
    BY ScriptIsSteps, OneMore DEF IInv, SentByStage, Sent
  <2>2. state = "ACTIVE" => hs_sent = Script
    BY ScriptIsSteps, OneMore DEF IInv, StateByStage, SentByStage
  <2>3. QED
    BY <2>1, <2>2 DEF HandshakeInOrder
<1>2. QED
    BY <1>1, Invariant, PTL

\* Only a media channel ever gets a media session, whatever ids are shared.
THEOREM SessionsOfMedia == Spec => []SessionsOnlyForMedia
    BY Invariant, PTL DEF IInv

\* An active session has TLS and says nothing outside it but answers to pings.
THEOREM ActiveSealed == Spec => []ActiveIsSealed
<1>1. IInv => ActiveIsSealed
  <2> SUFFICES ASSUME IInv, state = "ACTIVE"
               PROVE  tls = "done" /\ \A i \in DOMAIN out : out[i] \in Answers
    BY DEF ActiveIsSealed, Answers
  <2>1. stage = "ACTIVE"
    BY DEF IInv, StateByStage
  <2>2. QED
    BY <2>1 DEF IInv, SentByStage, OutTyped
<1>2. QED
    BY <1>1, Invariant, PTL

\* No poll, message or input event brings a failed session back.
THEOREM FailedForGood == Spec => FailedIsFinal
<1>1. IInv /\ [Next]_vars => [state = "FAILED" => state' = "FAILED"]_vars
  <2> SUFFICES ASSUME IInv, Next, state = "FAILED" PROVE state' = "FAILED"
    BY DEF vars
  <2>1. stage = "FAILED"
    BY DEF IInv, StateByStage
  <2>2. QED
    BY <2>1 DEF Next, Receive, PollStart, PollEof, PollUnreadable, PollIgnore,
                PollVersion, PollTls, PollServiceDiscovery, Dispatch, SendInput,
                Close, SetFailed
<1>2. QED
    BY <1>1, Invariant, PTL DEF Spec, FailedIsFinal
=============================================================================
