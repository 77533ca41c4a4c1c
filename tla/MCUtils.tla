------------------------------ MODULE MCUtils -------------------------------
(***************************************************************************)
(* The parts under utils/ and the MQTT 5 properties, which share no state. *)
(* A behaviour exercises one of them, named by subject, and the others     *)
(* stay as they are at the start.                                          *)
(***************************************************************************)
EXTENDS LinkedList, Log

CONSTANTS c1, c2, c3, c4

\* LinkedList: two of the items have one key.
MCContents == {c1, c2, c3, c4}
MCKey == (c1 :> 1) @@ (c2 :> 1) @@ (c3 :> 2) @@ (c4 :> 3)

VARIABLES
    subject,
    framed, midMessage, pings, wire, ended, received, frame_buffer, frame_buffer_index,
    in_frames, factory, frame, packets, failed, pongs, disturbed, out,
    props, added, memory,
    text,
    data

wsVars == <<framed, midMessage, pings, wire, ended, received, frame_buffer,
            frame_buffer_index, in_frames, factory, frame, packets, failed, pongs,
            disturbed, out>>
propVars == <<props, added, memory>>
utilsVars == <<subject, vars, wsVars, logVars, propVars, text, data>>

\* WebSocket: three outgoing packets, one of them without a body; the limits of
\* the frame lengths are low so that each form of the header occurs.
WS == INSTANCE WebSocket WITH
    MqttPackets <- <<[header |-> 48, body |-> <<7>>], [header |-> 208, body |-> <<>>]>>,
    Pings <- <<<<9>>, <<>>>>,
    Outgoing <- {[buf0 |-> <<50, 4>>, bufs |-> <<<<0, 1>>, <<97>>, <<7>>>>],
                 [buf0 |-> <<64, 2>>, bufs |-> <<<<0, 1>>>>],
                 [buf0 |-> <<192, 0>>, bufs |-> <<<<>>>>]},
    Uninitialized <- {0, 1},
    MaskBytes <- {0, 254},
    Len16 <- 4, Limit16 <- 5

\* MQTTProperties: a value of each type, the borders of the variable byte
\* integer, and strings that take the length of the list over 127.
letters(n) == [i \in 1..n |-> 65]
property(id, int, d, v) ==
    [identifier |-> id, int |-> int, data |-> letters(d), value |-> letters(v)]
MCSamples ==
    {property(1, 1, 0, 0), property(33, 65535, 0, 0), property(2, 70000, 0, 0),
     property(17, 0 - 1, 0, 0), property(3, 0, 0, 0), property(9, 0, 3, 0),
     property(38, 0, 60, 60), property(4, 0, 0, 0)}
    \cup {property(11, n, 0, 0) :
            n \in {127, 128, 16383, 16384, 2097151, 2097152, 268435455}}

Properties5 == INSTANCE MQTTProperties WITH
    Samples <- MCSamples, MaxProps <- 3, Chunk <- 2

\* Utf8: the bytes on both sides of each border of valid_ranges.
Unicode == INSTANCE Utf8 WITH
    Bytes <- {0, 127, 128, 143, 144, 159, 160, 191, 193, 194, 223, 224, 237, 239, 240,
              244, 245},
    MaxText <- 4

Radix64 == INSTANCE Base64 WITH Octets <- {0, 1, 127, 255}, MaxData <- 7

UtilsInit ==
    /\ subject \in {"list", "websocket", "log", "properties", "utf8", "base64"}
    /\ Init /\ WS!Init /\ LogInit /\ Properties5!Init /\ Unicode!Init /\ Radix64!Init

ListStep == /\ subject = "list" /\ Next
            /\ UNCHANGED <<subject, wsVars, logVars, propVars, text, data>>

WebSocketStep == /\ subject = "websocket" /\ WS!Next
                 /\ UNCHANGED <<subject, vars, logVars, propVars, text, data>>

LogStep == /\ subject = "log" /\ LogNext
           /\ UNCHANGED <<subject, vars, wsVars, propVars, text, data>>

PropertiesStep == /\ subject = "properties" /\ Properties5!Next
                  /\ UNCHANGED <<subject, vars, wsVars, logVars, text, data>>

Utf8Step == /\ subject = "utf8" /\ Unicode!Next
            /\ UNCHANGED <<subject, vars, wsVars, logVars, propVars, data>>

Base64Step == /\ subject = "base64" /\ Radix64!Next
              /\ UNCHANGED <<subject, vars, wsVars, logVars, propVars, text>>

UtilsNext == \/ ListStep \/ WebSocketStep \/ LogStep
             \/ PropertiesStep \/ Utf8Step \/ Base64Step

UtilsSpec == UtilsInit /\ [][UtilsNext]_utilsVars

-----------------------------------------------------------------------------
(* The properties of the parts; each is explained in its module.  Those of  *)
(* the list, WellLinked and ImplementsADT, and of the log, LogHoldsLast,   *)
(* are checked as they are.                                                *)

\* The WebSocket buffers and the list hold the values the C structures can hold.
UtilsTypeOK == /\ subject = "list" => TypeOK
               /\ subject = "websocket" => WS!TypeOK

\* Packets that come in WebSocket frames come out whole and in order, and an
\* interrupted read of a frame starts again where it must (WebSocket.c:383-456,
\* 590-784).
DataIntact == subject = "websocket" => WS!DataIntact

\* For every WebSocket PING there is one PONG with its payload, in order
\* (WebSocket.c:546-564, 755-764).
PongsEcho == subject = "websocket" => WS!PongsEcho

\* A frame unmasks to the packet, and the caller gets its buffers back
\* (WebSocket.c:81-189, 566-588).
OutgoingUnmasks == subject = "websocket" => WS!OutgoingUnmasks

\* Properties are written in exactly the bytes counted for them, fit their array
\* and are copied unchanged (MQTTProperties.c:71-224).
PropertiesExact == subject = "properties" => Properties5!PropertiesExact

\* Exactly the texts that are UTF-8 are accepted (utf-8.c:33-150).
ValidatesUtf8 == subject = "utf8" => Unicode!ValidatesUtf8

\* Decoding undoes encoding, with the buffers the lengths ask for, and encoding
\* stays within any buffer (Base64.c:19-171).
Base64RoundTrip == subject = "base64" => Radix64!Base64RoundTrip
=============================================================================
