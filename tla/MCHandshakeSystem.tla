------------------------- MODULE MCHandshakeSystem --------------------------
(* Instances of HandshakeSystem for TLC: the user holds a button and drags  *)
(* a finger across the panel, in every stage but the one that waits for the *)
(* VERSION_RESPONSE, or in that one too.                                    *)
EXTENDS HandshakeSystem

LateTouches == {"TLS", "WAIT_SERVICE_DISCOVERY", "ACTIVE", "FAILED"}
AllTouches == LateTouches \cup {"WAIT_VERSION"}

MCPads == {{}, {"CROSS"}}
MCTouches == {<<>>, <<0, 0>>, <<1919, 1087>>}
=============================================================================
