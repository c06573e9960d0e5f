------------------------------- MODULE AaMsg --------------------------------
(***************************************************************************)
(* Channel ids (src/src/core/aa_constants.h) and message ids               *)
(* (src/src/core/aa_msg.h), with their values: one id means different      *)
(* things on different channels, and the code tells them apart by the      *)
(* order of its tests.  A message is a record                              *)
(*   ch   its channel, mid its id,                                         *)
(*   enc  "plain", "sealed" (marked ENCRYPTED, a TLS record) or "bare"     *)
(*        (marked ENCRYPTED, but not encrypted),                           *)
(*   val  what the model keeps of its payload.                             *)
(***************************************************************************)
EXTENDS Integers

CONTROL == 0
SENSOR == 1
VIDEO == 2
INPUT == 3
MEDIA_AUDIO == 6

VERSION_REQUEST == 1
VERSION_RESPONSE == 2
SSL_HANDSHAKE == 3
AUTH_COMPLETE == 4
SERVICE_DISCOVERY_REQUEST == 5
SERVICE_DISCOVERY_RESPONSE == 6
CHANNEL_OPEN_REQUEST == 7
CHANNEL_OPEN_RESPONSE == 8
PING_REQUEST == 11
PING_RESPONSE == 12
AUDIO_FOCUS_REQUEST == 18
AUDIO_FOCUS_NOTIFICATION == 19

INPUT_EVENT_INDICATION == 32769
BINDING_REQUEST == 32770
BINDING_RESPONSE == 32771

SENSOR_REQUEST == 32769
SENSOR_RESPONSE == 32770
SENSOR_BATCH == 32771

MEDIA_DATA == 0
MEDIA_CODEC_CONFIG == 1
SETUP_REQUEST == 32768
START_INDICATION == 32769
STOP_INDICATION == 32770
SETUP_RESPONSE == 32771
AV_MEDIA_ACK_INDICATION == 32772
VIDEO_FOCUS_REQUEST == 32775
VIDEO_FOCUS_INDICATION == 32776

\* Payloads: the status of a VERSION_RESPONSE, the flight of an SSL_HANDSHAKE
\* (two from the client, two from the server), a media session id; and a
\* payload that does not decode.
MATCH == 0
MISMATCH == 65535
ClientHello == 1
ServerHello == 2
ClientFinished == 3
ServerFinished == 4
Alert == 5
Fragment == 6              \* a part of a flight
NoSession == -1
Malformed == -2

Msg(ch, mid, enc, val) == [ch |-> ch, mid |-> mid, enc |-> enc, val |-> val]
=============================================================================
