----------------------------- MODULE MCControl ------------------------------
(* The head unit alone for TLC, against a phone that sends any of these     *)
(* messages in any order: the handshake's, good and bad, on the right       *)
(* channel and on others, and the messages whose ids several channels share.*)
EXTENDS Control

MCChannels == {CONTROL, SENSOR, VIDEO, INPUT, MEDIA_AUDIO, 16}

MCInbound ==
    {Msg(CONTROL, VERSION_RESPONSE, "plain", v) : v \in {MATCH, MISMATCH}}
    \cup {Msg(ch, SSL_HANDSHAKE, "plain", v) :
             ch \in {CONTROL, VIDEO}, v \in {ServerHello, ServerFinished, Fragment, Alert}}
    \cup {Msg(CONTROL, SERVICE_DISCOVERY_REQUEST, enc, 0) : enc \in {"plain", "sealed", "bare"}}
    \cup {Msg(ch, mid, "sealed", v) :
             ch \in MCChannels,
             mid \in {CHANNEL_OPEN_REQUEST, SETUP_REQUEST, START_INDICATION,
                      STOP_INDICATION, SETUP_RESPONSE, VIDEO_FOCUS_REQUEST},
             v \in {1, 2, Malformed}}
    \cup {Msg(ch, mid, "plain", 0) :
             ch \in MCChannels, mid \in {MEDIA_DATA, MEDIA_CODEC_CONFIG}}
    \cup {Msg(CONTROL, mid, "plain", v) :
             mid \in {PING_REQUEST, AUDIO_FOCUS_REQUEST}, v \in {1, Malformed}}
=============================================================================
