------------------------------ MODULE Control -------------------------------
(***************************************************************************)
(* The head unit's control channel (src/src/core/control.c): the staged    *)
(* handshake with the phone, the dispatch of messages once the session is  *)
(* active, and the input events the application sends from the same        *)
(* thread.  Each step is one call of aa_control_poll, aa_control_send_touch*)
(* or aa_control_send_key; out holds the messages the call wrote.  The     *)
(* session below is the reliable message channel of module MsgChannel; an  *)
(* mbedTLS client (external) answers one flight of the phone at a time.    *)
(***************************************************************************)
EXTENDS AaMsg, Sequences

CONSTANTS
    Channels,     \* channel ids the phone uses
    Inbound,      \* messages the phone may send
    TlsMayFail,   \* whether aa_tls_create may fail (memory, entropy, key)
    MaxFrames     \* bound: video frames handed to the callback

ASSUME ChannelsAssumption ==
    Channels \subseteq 0 .. 255 /\ {CONTROL, SENSOR, VIDEO, INPUT} \subseteq Channels
ASSUME InboundAssumption ==
    \A m \in Inbound :
        m.ch \in Channels /\ m.val \in Int /\ m.enc \in {"plain", "sealed", "bare"}
ASSUME TlsMayFailAssumption == TlsMayFail \in BOOLEAN
ASSUME MaxFramesAssumption == MaxFrames \in Nat

VARIABLES
    stage, state,
    tls,                  \* how far c->tls and its handshake are
    session_by_channel,
    input_bound,
    conn,                 \* the transport's connection
    out,                  \* messages written by the last call
    frames,               \* video frames handed to video_cb
    hs_sent               \* history: handshake messages sent so far

vars == <<stage, state, tls, session_by_channel, input_bound, conn, out,
          frames, hs_sent>>

Stages == {"SEND_VERSION", "WAIT_VERSION", "TLS", "WAIT_SERVICE_DISCOVERY",
           "ACTIVE", "FAILED"}
TlsStates == {"none", "hello", "finished", "done"}

SmallChannels == {ch \in Channels : ch < 16}

Init ==
    /\ stage = "SEND_VERSION"
    /\ state = "IDLE"
    /\ tls = "none"
    /\ session_by_channel = [ch \in SmallChannels |-> NoSession]
    /\ input_bound = FALSE
    /\ conn = "up"
    /\ out = <<>>
    /\ frames = 0
    /\ hs_sent = <<>>

-----------------------------------------------------------------------------
(* Sending.                                                                *)

Plain(ch, mid, val) == <<Msg(ch, mid, "plain", val)>>

\* fault: what aa_tls_encrypt returns is ignored, so plaintext goes out
SealedOrBare(ch, mid, val) ==
    <<Msg(ch, mid, IF tls = "done" THEN "sealed" ELSE "bare", val)>>

\* Without a TLS context the session writes the plaintext under the ENCRYPTED
\* mark; during the handshake aa_tls_encrypt fails and nothing is written.
SealedNow(ch, mid, val) ==
    CASE tls = "none" -> <<Msg(ch, mid, "bare", val)>>
      [] tls = "done" -> <<Msg(ch, mid, "sealed", val)>>
      [] OTHER -> <<>>

\* The senders of the handshake.
VersionRequest == Plain(CONTROL, VERSION_REQUEST, 0)
AuthComplete == Plain(CONTROL, AUTH_COMPLETE, 0)
ServiceDiscoveryResponse == SealedNow(CONTROL, SERVICE_DISCOVERY_RESPONSE, 0)

\* What is written once the connection is closed is lost.
Written(ms) == IF conn = "up" THEN ms ELSE <<>>

SetFailedStateOnly == state' = "FAILED" /\ UNCHANGED stage   \* fault
SetFailed == stage' = "FAILED" /\ state' = "FAILED"

\* A send of the handshake returns 0, or -1 for a closed connection.
Handshake(ms) ==
    /\ out' = Written(ms)
    /\ hs_sent' = hs_sent \o ms
SendError ==
    /\ conn = "closed"
    /\ SetFailed
    /\ out' = <<>>
    /\ UNCHANGED hs_sent

Quiet == out' = <<>> /\ UNCHANGED hs_sent

media == <<session_by_channel, input_bound, frames>>

-----------------------------------------------------------------------------
(* aa_control_poll: the part before the message.                           *)

\* The first poll sends VERSION_REQUEST.
PollStart ==
    /\ stage = "SEND_VERSION"
    /\ \/ /\ Handshake(VersionRequest)
          /\ stage' = "WAIT_VERSION"
          /\ UNCHANGED state
       \/ SendError
    /\ UNCHANGED <<tls, media, conn>>

\* aa_session_poll returns -1 at the end of the stream.
PollEof ==
    /\ stage # "SEND_VERSION"
    /\ conn = "closed"
    /\ SetFailed
    /\ Quiet
    /\ UNCHANGED <<tls, media, conn>>

\* aa_session_poll decrypts what is marked ENCRYPTED once c->tls is there.
Readable(m) ==
    m.enc = "plain" \/ tls = "none" \/ (m.enc = "sealed" /\ tls = "done")

PollUnreadable(m) ==
    /\ stage # "SEND_VERSION"
    /\ ~Readable(m)
    /\ SetFailed
    /\ Quiet
    /\ UNCHANGED <<tls, media, conn>>

-----------------------------------------------------------------------------
(* aa_control_poll: the message, by stage.                                 *)

\* A message the stage has no use for is dropped.
Ignores(m) ==
    \/ stage = "WAIT_VERSION" /\ m.mid # VERSION_RESPONSE
    \/ stage = "TLS" /\ m.mid # SSL_HANDSHAKE
    \/ stage = "WAIT_SERVICE_DISCOVERY" /\ m.mid # SERVICE_DISCOVERY_REQUEST
    \/ stage = "FAILED"

PollIgnore(m) ==
    /\ Readable(m)
    /\ Ignores(m)
    /\ Quiet
    /\ UNCHANGED <<stage, state, tls, media, conn>>

\* VERSION_RESPONSE: a mismatch fails; else the TLS context is created and
\* attached and the client's first flight sent.
PollVersion(m) ==
    /\ stage = "WAIT_VERSION"
    /\ Readable(m)
    /\ m.mid = VERSION_RESPONSE
    /\ \/ /\ m.val # MATCH
          /\ SetFailed /\ Quiet /\ UNCHANGED tls
       \/ /\ m.val = MATCH /\ TlsMayFail    \* aa_tls_create fails
          /\ SetFailed /\ Quiet /\ UNCHANGED tls
       \/ /\ m.val = MATCH
          /\ tls' = "hello"
          /\ \/ /\ Handshake(Plain(CONTROL, SSL_HANDSHAKE, ClientHello))
                /\ stage' = "TLS"
                /\ UNCHANGED state
             \/ SendError
    /\ UNCHANGED <<media, conn>>

\* aa_tls_handshake on the phone's flight: the client's answer, the state it
\* leaves and the result, 1 for "more", 0 for "done", -1 for an error.
ClientStep(flight) ==
    CASE tls = "hello" /\ flight = ServerHello ->
            [send |-> Plain(CONTROL, SSL_HANDSHAKE, ClientFinished),
             tls |-> "finished", hr |-> 1]
      [] tls = "finished" /\ flight = ServerFinished ->
            [send |-> <<>>, tls |-> "done", hr |-> 0]
      [] tls # "none" /\ flight = Fragment ->
            [send |-> <<>>, tls |-> tls, hr |-> 1]
      [] OTHER ->
            [send |-> Plain(CONTROL, SSL_HANDSHAKE, Alert), tls |-> tls, hr |-> -1]

CompleteAnyResult(hr) == hr >= 0         \* fault: "more" taken for "done"
TlsComplete(hr) == hr = 0

\* SSL_HANDSHAKE: drive TLS; when it is complete, send AUTH_COMPLETE.
PollTls(m) ==
    /\ stage = "TLS"
    /\ Readable(m)
    /\ m.mid = SSL_HANDSHAKE
    /\ LET r == ClientStep(m.val)
           auth == IF TlsComplete(r.hr) THEN AuthComplete ELSE <<>>
       IN  /\ tls' = r.tls
           /\ \/ /\ r.hr < 0
                 /\ SetFailed
                 /\ out' = Written(r.send)
                 /\ UNCHANGED hs_sent
              \/ /\ r.hr >= 0
                 /\ Handshake(r.send \o auth)
                 /\ stage' = IF TlsComplete(r.hr) THEN "WAIT_SERVICE_DISCOVERY" ELSE stage
                 /\ UNCHANGED state
              \/ /\ r.hr >= 0 /\ r.send \o auth # <<>>
                 /\ SendError
    /\ UNCHANGED <<media, conn>>

\* SERVICE_DISCOVERY_REQUEST: answer and become active.
PollServiceDiscovery(m) ==
    /\ stage = "WAIT_SERVICE_DISCOVERY"
    /\ Readable(m)
    /\ m.mid = SERVICE_DISCOVERY_REQUEST
    /\ \/ /\ Handshake(ServiceDiscoveryResponse)
          /\ stage' = "ACTIVE"
          /\ state' = "ACTIVE"
       \/ SendError
    /\ UNCHANGED <<tls, media, conn>>

-----------------------------------------------------------------------------
(* dispatch, in the active stage.  It ignores what its sends return.       *)

AckVideoSession(ch) == session_by_channel[VIDEO]    \* fault: one session for all
AckSession(ch) == IF ch \in SmallChannels THEN session_by_channel[ch] ELSE NoSession

\* The channels whose messages reach the switch at the end of dispatch.
\* fault: no early return for the sensor and input channels
SwitchOnAnyChannel(ch) == ch # CONTROL
OnMediaChannel(ch) == ch \notin {CONTROL, INPUT, SENSOR}

IsMedia(m) == OnMediaChannel(m.ch) /\ m.mid \in {MEDIA_DATA, MEDIA_CODEC_CONFIG}

AckTwice(m) ==                           \* fault: one ack for each of two ids
    SealedNow(m.ch, AV_MEDIA_ACK_INDICATION, AckSession(m.ch)) \o
    SealedNow(m.ch, AV_MEDIA_ACK_INDICATION, AckSession(m.ch))
AckStarted(m) ==                         \* fault: no ack without a session
    IF AckSession(m.ch) = NoSession
    THEN <<>> ELSE SealedNow(m.ch, AV_MEDIA_ACK_INDICATION, AckSession(m.ch))
Ack(m) == SealedNow(m.ch, AV_MEDIA_ACK_INDICATION, AckSession(m.ch))

\* The senders.
ChannelOpenResponse(ch) == SealedNow(ch, CHANNEL_OPEN_RESPONSE, 0)
DrivingStatus == SealedNow(SENSOR, SENSOR_BATCH, 0)
SensorResponse == SealedNow(SENSOR, SENSOR_RESPONSE, 0)
BindingResponse == SealedNow(INPUT, BINDING_RESPONSE, 0)
SetupResponse(ch) == SealedNow(ch, SETUP_RESPONSE, 0)
VideoFocus == SealedNow(VIDEO, VIDEO_FOCUS_INDICATION, 0)
AudioFocus(type) == SealedNow(CONTROL, AUDIO_FOCUS_NOTIFICATION, type)

\* What dispatch sends, by channel and message id.
Reply(m) ==
    CASE m.mid = CHANNEL_OPEN_REQUEST ->
            ChannelOpenResponse(m.ch) \o (IF m.ch = SENSOR THEN DrivingStatus ELSE <<>>)
      [] m.ch = CONTROL /\ m.mid = PING_REQUEST /\ m.val # Malformed ->
            Plain(CONTROL, PING_RESPONSE, m.val)
      [] m.ch = CONTROL /\ m.mid = AUDIO_FOCUS_REQUEST /\ m.val # Malformed ->
            AudioFocus(m.val)
      [] m.ch = INPUT /\ m.mid = BINDING_REQUEST ->
            BindingResponse
      [] m.ch = SENSOR /\ m.mid = SENSOR_REQUEST ->
            SensorResponse
      [] OnMediaChannel(m.ch) /\ m.mid = SETUP_REQUEST ->
            SetupResponse(m.ch) \o (IF m.ch = VIDEO THEN VideoFocus ELSE <<>>)
      [] OnMediaChannel(m.ch) /\ m.mid = VIDEO_FOCUS_REQUEST ->
            VideoFocus
      [] IsMedia(m) ->
            Ack(m)
      [] OTHER -> <<>>

SessionsUnguarded(m) ==                  \* fault: no test of ch < 16
    IF m.mid = START_INDICATION /\ OnMediaChannel(m.ch)
    THEN [ch \in SmallChannels \cup {m.ch} |->
             IF ch = m.ch THEN m.val ELSE session_by_channel[ch]]
    ELSE session_by_channel

\* START_INDICATION records the media session, STOP_INDICATION forgets it.
SessionsAfter(m) ==
    IF m.ch \notin SmallChannels \/ ~OnMediaChannel(m.ch)
    THEN session_by_channel
    ELSE CASE m.mid = START_INDICATION /\ m.val # Malformed ->
                 [session_by_channel EXCEPT ![m.ch] = m.val]
           [] m.mid = STOP_INDICATION ->
                 [session_by_channel EXCEPT ![m.ch] = NoSession]
           [] OTHER -> session_by_channel

Dispatch(m) ==
    /\ stage = "ACTIVE"
    /\ Readable(m)
    /\ IF IsMedia(m) /\ m.ch = VIDEO
       THEN frames < MaxFrames /\ frames' = frames + 1
       ELSE UNCHANGED frames
    /\ out' = Written(Reply(m))
    /\ session_by_channel' = SessionsAfter(m)
    /\ input_bound' = (input_bound \/ (m.ch = INPUT /\ m.mid = BINDING_REQUEST))
    /\ UNCHANGED <<stage, state, tls, conn, hs_sent>>

-----------------------------------------------------------------------------
\* One message taken by aa_control_poll.
Receive(m) ==
    \/ PollUnreadable(m) \/ PollIgnore(m)
    \/ PollVersion(m) \/ PollTls(m) \/ PollServiceDiscovery(m)
    \/ Dispatch(m)

\* The input events of one turn of the main loop: aa_control_send_touch and
\* aa_control_send_key test neither the stage nor input_bound.
InputMessages(events) ==
    IF SealedNow(INPUT, INPUT_EVENT_INDICATION, 0) = <<>>
    THEN <<>>
    ELSE [k \in DOMAIN events |->
             SealedNow(INPUT, INPUT_EVENT_INDICATION, events[k])[1]]

SendInput(events) ==
    /\ out' = Written(InputMessages(events))
    /\ UNCHANGED <<stage, state, tls, media, conn, hs_sent>>

\* The connection is closed by the phone or lost.
Close ==
    /\ conn = "up"
    /\ conn' = "closed"
    /\ out' = <<>>
    /\ UNCHANGED <<stage, state, tls, media, hs_sent>>

\* The head unit with a phone that may send anything of Inbound at any time.
Next ==
    \/ PollStart \/ PollEof
    \/ stage # "SEND_VERSION" /\ \E m \in Inbound : Receive(m)
    \/ SendInput(<<0>>)
    \/ Close

Spec == Init /\ [][Next]_vars
-----------------------------------------------------------------------------
(* Properties.                                                             *)

TypeOK ==
    /\ stage \in Stages
    /\ state \in {"IDLE", "ACTIVE", "FAILED"}
    /\ tls \in TlsStates
    /\ session_by_channel \in [SmallChannels -> Int]
    /\ input_bound \in BOOLEAN
    /\ conn \in {"up", "closed"}
    /\ \A k \in DOMAIN out :
          /\ out[k].ch \in Channels /\ out[k].mid \in Nat
          /\ out[k].enc \in {"plain", "sealed", "bare"}
          /\ out[k].mid # INPUT_EVENT_INDICATION => out[k].val \in Int
    /\ frames \in 0 .. MaxFrames

\* Whatever the phone sends, on whatever channel, the head unit's handshake
\* messages go out in the one order the protocol knows, each at most once,
\* and the session is active exactly when all of them went out.
Script == Plain(CONTROL, VERSION_REQUEST, 0)
          \o Plain(CONTROL, SSL_HANDSHAKE, ClientHello)
          \o Plain(CONTROL, SSL_HANDSHAKE, ClientFinished)
          \o Plain(CONTROL, AUTH_COMPLETE, 0)
          \o <<Msg(CONTROL, SERVICE_DISCOVERY_RESPONSE, "sealed", 0)>>
HandshakeInOrder ==
    /\ hs_sent = SubSeq(Script, 1, Len(hs_sent))
    /\ state = "ACTIVE" => hs_sent = Script

\* A failed session never comes back, however often the main loop polls it
\* (vita_video.c:378 ignores what aa_control_poll returns).
FailedIsFinal == [][state = "FAILED" => state' = "FAILED"]_vars

\* START_INDICATION, SENSOR_REQUEST and INPUT_EVENT_INDICATION share the id
\* 0x8001, STOP_INDICATION and BINDING_REQUEST 0x8002: only a media channel
\* ever gets a media session.
SessionsOnlyForMedia ==
    \A ch \in SmallChannels \cap {CONTROL, SENSOR, INPUT} :
        session_by_channel[ch] = NoSession

\* Whatever the head unit says in the active stage is sealed, the answer to a
\* ping excepted: TLS is complete before anything is dispatched.
ActiveIsSealed ==
    state = "ACTIVE" =>
        /\ tls = "done"
        /\ \A i \in DOMAIN out : out[i].enc = "sealed" \/ out[i].mid = PING_RESPONSE
=============================================================================
