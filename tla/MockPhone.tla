----------------------------- MODULE MockPhone ------------------------------
(***************************************************************************)
(* The mock phone of the host harness and of the tests                     *)
(* (src/src/host/mock_phone.c): a script of sixteen steps.  One call of    *)
(* mock_phone_step takes at most one message and then, if the script has   *)
(* come to a step that speaks first, sends that step's message.            *)
(***************************************************************************)
EXTENDS AaMsg, Sequences

VARIABLE ph     \* step, TLS state, results seen so far and done

PhoneInit == ph = [step |-> 0, tls |-> "start", results |-> {}, done |-> FALSE]

PhoneType ==
    ph \in [step : 0 .. 15, tls : {"start", "hello", "done"},
            results : SUBSET {"video_open", "input_open", "audio_open", "setup",
                              "focus", "video_ack", "audio_ack", "binding", "ping"},
            done : BOOLEAN]

\* aa_session_poll decrypts what is marked ENCRYPTED: the TLS context is there
\* from the start, its keys once the handshake is complete.
PhoneReadable(m) == m.enc = "plain" \/ (m.enc = "sealed" /\ ph.tls = "done")

Clear(ch, mid, val) == <<Msg(ch, mid, "plain", val)>>
Seal(ch, mid, val) == <<Msg(ch, mid, "sealed", val)>>

Stay(p) == [ph |-> p, send |-> <<>>]
Go(p, step, send) == [ph |-> [p EXCEPT !.step = step], send |-> send]
Got(p, result) == [p EXCEPT !.results = p.results \cup {result}]

Is(m, ch, mid) == m.ch = ch /\ m.mid = mid

\* Step 1: aa_tls_handshake on the client's flight; an error leaves the step.
Server(p, flight) ==
    CASE p.tls = "start" /\ flight = ClientHello ->
            [ph |-> [p EXCEPT !.tls = "hello"],
             send |-> Clear(CONTROL, SSL_HANDSHAKE, ServerHello)]
      [] p.tls = "hello" /\ flight = ClientFinished ->
            Go([p EXCEPT !.tls = "done"], 2, Clear(CONTROL, SSL_HANDSHAKE, ServerFinished))
      [] OTHER ->
            [ph |-> p, send |-> Clear(CONTROL, SSL_HANDSHAKE, Alert)]

\* fault: one of the two answers is enough
SetupEither(p, m) ==
    CASE m.mid = SETUP_RESPONSE ->
            Go(Got(p, "setup"), 8, Seal(VIDEO, START_INDICATION, 1))
      [] m.mid = VIDEO_FOCUS_INDICATION ->
            Go(Got(p, "focus"), 8, Seal(VIDEO, START_INDICATION, 1))
      [] OTHER -> Stay(p)

\* Step 7: the setup response and the video focus, in either order.
Setup(p, m) ==
    LET q == [p EXCEPT !.results = p.results
                  \cup (IF m.mid = SETUP_RESPONSE THEN {"setup"} ELSE {})
                  \cup (IF m.mid = VIDEO_FOCUS_INDICATION THEN {"focus"} ELSE {})]
    IN  IF {"setup", "focus"} \subseteq q.results
        THEN Go(q, 8, Seal(VIDEO, START_INDICATION, 1))
        ELSE Stay(q)

\* phone_process on the message taken.
Process(p, m) ==
    CASE p.step = 0 /\ m.mid = VERSION_REQUEST ->
            Go(p, 1, Clear(CONTROL, VERSION_RESPONSE, MATCH))
      [] p.step = 1 /\ m.mid = SSL_HANDSHAKE ->
            Server(p, m.val)
      [] p.step = 2 /\ m.mid = AUTH_COMPLETE ->
            Go(p, 3, Seal(CONTROL, SERVICE_DISCOVERY_REQUEST, 0))
      [] p.step = 3 /\ m.mid = SERVICE_DISCOVERY_RESPONSE ->
            Go(p, 4, Seal(VIDEO, CHANNEL_OPEN_REQUEST, 0))
      [] p.step = 4 /\ Is(m, VIDEO, CHANNEL_OPEN_RESPONSE) ->
            Go(Got(p, "video_open"), 5, Seal(INPUT, CHANNEL_OPEN_REQUEST, 0))
      [] p.step = 5 /\ Is(m, INPUT, CHANNEL_OPEN_RESPONSE) ->
            Go(Got(p, "input_open"), 6, Seal(MEDIA_AUDIO, CHANNEL_OPEN_REQUEST, 0))
      [] p.step = 6 /\ Is(m, MEDIA_AUDIO, CHANNEL_OPEN_RESPONSE) ->
            Go(Got(p, "audio_open"), 7, Seal(VIDEO, SETUP_REQUEST, 0))
      [] p.step = 7 ->
            Setup(p, m)
      [] p.step = 9 /\ Is(m, VIDEO, AV_MEDIA_ACK_INDICATION) ->
            Go(Got(p, "video_ack"), 10, <<>>)
      [] p.step = 11 /\ Is(m, MEDIA_AUDIO, AV_MEDIA_ACK_INDICATION) ->
            Go(Got(p, "audio_ack"), 12, <<>>)
      [] p.step = 13 /\ Is(m, INPUT, BINDING_RESPONSE) ->
            Go(Got(p, "binding"), 14, <<>>)
      [] p.step = 15 /\ m.mid = PING_RESPONSE ->
            [ph |-> [Got(p, "ping") EXCEPT !.done = TRUE], send |-> <<>>]
      [] OTHER -> Stay(p)

AdvanceAlways(p) == Go(p, p.step + 1, <<>>)  \* fault: the step always moves on

\* phone_advance: the steps that speak first.
Advance(p) ==
    CASE p.step = 8 -> Go(p, 9, Clear(VIDEO, MEDIA_DATA, 0))
      [] p.step = 10 -> Go(p, 11, Clear(MEDIA_AUDIO, MEDIA_DATA, 0))
      [] p.step = 12 -> Go(p, 13, Seal(INPUT, BINDING_REQUEST, 0))
      [] p.step = 14 -> Go(p, 15, Clear(CONTROL, PING_REQUEST, 42))
      [] OTHER -> Stay(p)

\* mock_phone_step with the messages that have arrived: the first one is
\* taken if it can be read; one that cannot blocks the phone's session.
MockStep(arrived) ==
    LET takes == arrived # <<>> /\ PhoneReadable(Head(arrived))
        first == IF takes THEN Process(ph, Head(arrived)) ELSE Stay(ph)
        then == Advance(first.ph)
    IN  [ph |-> then.ph,
         send |-> first.send \o then.send,
         left |-> IF takes THEN Tail(arrived) ELSE arrived]
=============================================================================
