------------------------------ MODULE WebSocket ------------------------------
(***************************************************************************)
(* WebSocket.c for a connection whose net->websocket is set: frames are    *)
(* read through frame_buffer and put on in_frames, and MQTTPacket_Factory  *)
(* takes its bytes from there; what is written is framed and masked.       *)
(*                                                                         *)
(* A byte is a number.  Nothing is read ahead of the frame being read, so  *)
(* the peer decides on a frame when the one before it has been received,   *)
(* and recv returns any number of its bytes.  The remaining length of a    *)
(* packet is one byte (SocketRead has the others).  The model ends where a *)
(* call meets a frame that was freed, or a position behind its data.       *)
(***************************************************************************)
EXTENDS Naturals, Sequences, SequencesExt, FiniteSets, Bitwise

CONSTANTS
    MqttPackets,  \* the packets [header, body] the peer sends in data frames
    Pings,        \* bound: the payloads of the PING frames, in this order
    Outgoing,     \* the packets [buf0, bufs] WebSocket_putdatas is given
    Uninitialized,  \* values a byte that was never written may have
    MaskBytes,    \* the values rand() gives for a byte of a mask
    Len16,        \* 126 in the protocol: two more bytes of length follow
    Limit16       \* 65536 in the protocol: the first length that needs eight

Len64 == Len16 + 1

\* TypeDefine.h
OP_CONTINUE == 0
OP_BINARY   == 2
OP_CLOSE    == 8
OP_PING     == 9
OP_PONG     == 10

VARIABLES
    framed,       \* how many bytes of the MQTT stream are in frames
    midMessage,   \* the last data frame was not final
    pings,        \* payloads of the PING frames sent
    wire,         \* the bytes of the frame the peer sends
    ended,        \* it is the last one, and the peer closes
    received,     \* how many of its bytes recv has returned
    frame_buffer, frame_buffer_index,
    in_frames,    \* the queue of frames: [data, pos, freed], at most one
    factory,      \* the call of the Factory: [pc, header, value, headerWsFramePos]
    frame,        \* the call of WebSocket_receiveFrame: [pc, final, opcode, masked, len, res]
    packets,      \* history: what the Factory returned
    failed,       \* history: the Factory reported an error
    pongs,        \* history: [payload, written] of the PONG frames made
    disturbed,    \* history: what happened that costs data, see DataIntact
    out           \* the last call of WebSocket_putdatas

peerVars   == <<framed, midMessage, pings, wire, ended>>
bufferVars == <<received, frame_buffer, frame_buffer_index>>
historyVars == <<packets, failed, pongs, disturbed>>
wsVars == <<peerVars, bufferVars, in_frames, factory, frame, historyVars, out>>

Mqtt == FlattenSeq([i \in DOMAIN MqttPackets |->
            <<MqttPackets[i].header, Len(MqttPackets[i].body)>> \o MqttPackets[i].body])

NotReading == [pc |-> "idle", header |-> 0, value |-> 0, headerWsFramePos |-> 0]
NoFrame == [pc |-> "off", final |-> FALSE, opcode |-> OP_BINARY, masked |-> FALSE,
            len |-> 0, res |-> <<>>]
NoMask == <<0, 0, 0, 0>>
NothingPut == [packet |-> [buf0 |-> <<>>, bufs |-> <<>>], frame |-> <<>>,
               bufs |-> <<>>, mask |-> NoMask, rc |-> "none"]

Init ==
    /\ framed = 0 /\ midMessage = FALSE /\ pings = <<>> /\ wire = <<>>
    /\ ended = FALSE /\ received = 0
    /\ frame_buffer = <<>> /\ frame_buffer_index = 0
    /\ in_frames = <<>>
    /\ factory = NotReading /\ frame = NoFrame
    /\ packets = <<>> /\ failed = FALSE /\ pongs = <<>> /\ disturbed = {}
    /\ out = NothingPut

-----------------------------------------------------------------------------
(* Frames                                                                  *)

\* WebSocket_calculateFrameHeaderSize
calculateFrameHeaderSize(mask_data, data_len) ==
    (CASE data_len < Len16 -> 2
       [] data_len >= Len16 /\ data_len < Limit16 -> 4
       [] OTHER -> 10)
    + (IF mask_data THEN 4 ELSE 0)

bigEndian(bytes) == FoldLeft(LAMBDA n, b : n * 256 + b, 0, bytes)
zeros(n) == [i \in 1..n |-> 0]

\* The header of a frame, up to the mask.
frameHeader(final, opcode, mask_data, data_len) ==
    LET bit(flag) == IF flag THEN 128 ELSE 0
        second(n) == bit(mask_data) + n
    IN  <<bit(final) + opcode>> \o
        (CASE data_len < Len16 -> <<second(data_len)>>
           [] data_len >= Len16 /\ data_len < Limit16 ->
                <<second(Len16)>> \o zeros(1) \o <<data_len>>
           [] OTHER -> <<second(Len64)>> \o zeros(7) \o <<data_len>>)

\* The bytes of data, of which the first has index idx in the payload, with
\* the mask put on or taken off.
xorMask(data, mask, idx) ==
    [i \in DOMAIN data |-> data[i] ^^ mask[((idx + i - 1) % 4) + 1]]

\* The index in the payload of the first byte of buffer i.
bufferIndex(buf0len, bufs, i) ==
    buf0len + Len(FlattenSeq(SubSeq(bufs, 1, i - 1)))

\* WebSocket_buildFrame for a packet that is not masked yet: the buffers are
\* masked where they are, the first one in a copy behind the header.
buildFrame(opcode, buf0, bufs, mask) ==
    LET data_len == Len(buf0) + Len(FlattenSeq(bufs))
    IN  [wsbuf0 |-> frameHeader(TRUE, opcode, TRUE, data_len) \o mask
                        \o xorMask(buf0, mask, 0),
         bufs |-> [i \in DOMAIN bufs |->
                    xorMask(bufs[i], mask, bufferIndex(Len(buf0), bufs, i))]]

\* Mutant: the index starts at the first buffer, not behind the fixed header.
unmaskData_FromZero(buf0len, bufs, mask) ==
    [i \in DOMAIN bufs |-> xorMask(bufs[i], mask, bufferIndex(0, bufs, i))]

\* WebSocket_unmaskData
unmaskData(buf0len, bufs, mask) ==
    [i \in DOMAIN bufs |-> xorMask(bufs[i], mask, bufferIndex(buf0len, bufs, i))]

\* WebSocket_putdatas, with each outcome of the write.  The mask and the
\* masking stay if the write is interrupted, which still points to the
\* buffers.  Reading shares nothing with it, so a behaviour that writes does
\* not go on to read.
putdatas ==
    /\ out = NothingPut /\ wire = <<>> /\ ~ended
    /\ \E p \in Outgoing, mask \in [1..4 -> MaskBytes],
          rc \in {"COMPLETE", "INTERRUPTED", "SOCKET_ERROR"} :
        LET f == buildFrame(OP_BINARY, p.buf0, p.bufs, mask)
        IN  out' = [packet |-> p,
                    frame |-> f.wsbuf0 \o FlattenSeq(f.bufs),
                    rc |-> rc,
                    bufs |-> IF rc = "INTERRUPTED" THEN f.bufs
                             ELSE unmaskData(Len(p.buf0), f.bufs, mask),
                    mask |-> IF rc = "INTERRUPTED" THEN mask ELSE NoMask]
    /\ UNCHANGED <<peerVars, bufferVars, in_frames, factory, frame, historyVars>>

-----------------------------------------------------------------------------
(* The peer                                                                *)

peerMask == <<1, 1, 1, 1>>

peerFrame(masked, final, opcode, payload) ==
    frameHeader(final, opcode, masked, Len(payload)) \o
        (IF masked THEN peerMask \o xorMask(payload, peerMask, 0) ELSE payload)

\* Bound: the peer sends nothing more once data has been lost.
peerSends(bytes) ==
    /\ disturbed = {}
    /\ ~ended /\ received = Len(wire) /\ frame.pc # "payload" /\ out = NothingPut
    /\ wire' = bytes /\ received' = 0
    /\ UNCHANGED <<frame_buffer, frame_buffer_index, in_frames, factory, frame,
                   historyVars, out>>

\* The next k bytes of the MQTT stream, in a frame of their own, or an empty
\* frame.
PeerSendsData(k, final, masked) ==
    /\ framed + k <= Len(Mqtt)
    /\ final \/ framed + k < Len(Mqtt)
    /\ peerSends(peerFrame(masked, final, IF midMessage THEN OP_CONTINUE ELSE OP_BINARY,
                           SubSeq(Mqtt, framed + 1, framed + k)))
    /\ framed' = framed + k /\ midMessage' = ~final
    /\ UNCHANGED <<pings, ended>>

PeerSendsPing ==
    /\ Len(pings) < Len(Pings)
    /\ LET payload == Pings[Len(pings) + 1]
       IN  /\ peerSends(peerFrame(FALSE, TRUE, OP_PING, payload))
           /\ pings' = Append(pings, payload)
    /\ UNCHANGED <<framed, midMessage, ended>>

\* The peer ends its stream: with a CLOSE frame, an unsolicited PONG, a frame
\* with an opcode there is not, or nothing.
PeerEnds ==
    /\ \E opcode \in {OP_CLOSE, OP_PONG, 3} :
        \E last \in {peerFrame(FALSE, TRUE, opcode, <<>>), <<>>} : peerSends(last)
    /\ ended' = TRUE
    /\ UNCHANGED <<framed, midMessage, pings>>

-----------------------------------------------------------------------------
(* Reading a frame                                                         *)

\* WebSocket_getRawSocketData for n bytes: those that are left in frame_buffer
\* and the rest from the socket, of which recv returns at most available; they
\* are kept in frame_buffer in any case.
getRawSocketData(n, available) ==
    LET missing == n - (Len(frame_buffer) - frame_buffer_index)
        got == IF missing <= 0 THEN 0
               ELSE IF missing <= available THEN missing ELSE available
        buffer == frame_buffer \o SubSeq(wire, received + 1, received + got)
    IN  [status |-> CASE got >= missing -> "COMPLETE"
                      [] got < missing /\ ended /\ received = Len(wire) -> "SOCKET_ERROR"
                      [] OTHER -> "INTERRUPTED",
         buffer |-> buffer,
         received |-> received + got,
         bytes |-> IF got < missing THEN <<>>
                   ELSE SubSeq(buffer, frame_buffer_index + 1, frame_buffer_index + n)]

\* What recv may return.
toCome == Len(wire) - received

\* The bytes receiveFrame asks for next.
wanted == CASE frame.pc = "header" -> 2
            [] frame.pc = "len16" -> 2
            [] frame.pc = "len64" -> 8
            [] frame.pc = "mask" -> 4
            [] OTHER -> frame.len

\* The Factory's call is over; its header is a static variable.
returned == [NotReading EXCEPT !.header = factory.header]

\* The data of the frame being put together: in the queue if there is a frame,
\* otherwise in memory only receiveFrame knows.
gathered == IF in_frames # <<>> THEN in_frames[1].data
            ELSE IF frame.res # <<>> THEN frame.res[1] ELSE <<>>

\* WebSocket_framePos
framePos == IF in_frames = <<>> THEN 0 ELSE in_frames[1].pos

FreedFrame == [data |-> <<>>, pos |-> 0, freed |-> TRUE]

\* The next field of the frame has been read and there are more.
getField(r, next) ==
    /\ r.status = "COMPLETE"
    /\ frame_buffer' = r.buffer /\ received' = r.received
    /\ frame_buffer_index' = frame_buffer_index + wanted
    /\ frame' = next
    /\ UNCHANGED <<peerVars, in_frames, factory, historyVars, out>>

opcodeOf(b) == IF b % 16 # 0 THEN b % 16 ELSE frame.opcode
validOpcode(opcode) == opcode \in {0, 1, OP_BINARY, OP_CLOSE, OP_PING, OP_PONG}

afterLength(masked) == IF masked THEN "mask" ELSE "payload"

ReadHeader ==
    /\ frame.pc = "header"
    /\ LET r == getRawSocketData(2, toCome)
           len == r.bytes[2] % 128
           masked == r.bytes[2] >= 128
       IN  /\ r.status = "COMPLETE" /\ validOpcode(opcodeOf(r.bytes[1]))
           /\ getField(r, [frame EXCEPT
                !.final = r.bytes[1] >= 128, !.opcode = opcodeOf(r.bytes[1]),
                !.masked = masked, !.len = len,
                !.pc = CASE len = Len16 -> "len16" [] len = Len64 -> "len64"
                         [] OTHER -> afterLength(masked)])

ReadLength ==
    /\ frame.pc \in {"len16", "len64"}
    /\ LET r == getRawSocketData(wanted, toCome)
       IN  getField(r, [frame EXCEPT !.len = bigEndian(r.bytes),
                                     !.pc = afterLength(frame.masked)])

\* The mask goes into a variable of its own; the one the data is unmasked with
\* stays 0.
ReadMask ==
    /\ frame.pc = "mask"
    /\ getField(getRawSocketData(4, toCome), [frame EXCEPT !.pc = "payload"])

\* getch has asked for a frame, and the message that came is empty.
nothingToGet(data) ==
    /\ frame.final /\ frame.opcode \notin {OP_CLOSE, OP_PING, OP_PONG}
    /\ factory.pc \in {"header", "length"}
    /\ Len(data) = framePos

\* The payload is appended, frame_buffer is emptied.
takePayload(r) ==
    /\ r.status = "COMPLETE"
    /\ received' = r.received
    /\ frame_buffer' = <<>> /\ frame_buffer_index' = 0
    /\ disturbed' = disturbed
        \cup (IF nothingToGet(gathered \o r.bytes) THEN {"empty"} ELSE {})
        \cup (IF frame.masked /\ frame.len > 0 THEN {"mask"} ELSE {})
        \cup (IF frame.final /\ frame.opcode \in {OP_CLOSE, OP_PING, OP_PONG}
                 /\ (in_frames # <<>> \/ frame.res # <<>> \/ midMessage)
              THEN {"control"} ELSE {})

\* The frame holds data now, in the queue or not yet.
keep(data) ==
    IF in_frames # <<>>
    THEN /\ in_frames' = <<[data |-> data, pos |-> in_frames[1].pos, freed |-> FALSE]>>
         /\ frame' = [frame EXCEPT !.pc = "header"]
    ELSE /\ frame' = [frame EXCEPT !.pc = "header", !.res = <<data>>]
         /\ UNCHANGED in_frames

ReadFragment ==
    /\ frame.pc = "payload" /\ ~frame.final
    /\ LET r == getRawSocketData(frame.len, toCome)
       IN  takePayload(r) /\ keep(gathered \o r.bytes)
    /\ UNCHANGED <<peerVars, factory, packets, failed, pongs, out>>

\* getch has put c where the Factory wants it.
gotChar(c) ==
    factory' = IF factory.pc = "header"
               THEN [factory EXCEPT !.pc = "length", !.header = c]
               ELSE [factory EXCEPT !.pc = "data", !.value = c]

\* The last frame of a message: it is on the queue, and the caller goes on.  If
\* getch finds nothing in it, it reports success without a character: the
\* header is static and stays, the length byte was never initialized.
ReadMessage ==
    /\ frame.pc = "payload" /\ frame.final
    /\ frame.opcode \notin {OP_CLOSE, OP_PING, OP_PONG}
    /\ LET r == getRawSocketData(frame.len, toCome)
           data == gathered \o r.bytes
       IN  /\ takePayload(r)
           /\ in_frames' = <<[data |-> data, pos |-> framePos, freed |-> FALSE]>>
           /\ IF nothingToGet(data)
              THEN \E c \in IF factory.pc = "header" THEN {factory.header}
                            ELSE Uninitialized : gotChar(c)
              ELSE UNCHANGED factory
    /\ frame' = NoFrame
    /\ UNCHANGED <<peerVars, packets, failed, pongs, out>>

\* What free(res) leaves of the queue.
afterFree == IF in_frames # <<>> THEN <<FreedFrame>> ELSE <<>>

\* WebSocket_pong: Socket_putdatas writes the frame, or refuses it because a write
\* is pending on the socket, which nobody is told.
WebSocket_pong(payload, written) ==
    IF frame.opcode = OP_PING
    THEN pongs' = Append(pongs, [payload |-> payload, written |-> written])
    ELSE written /\ UNCHANGED pongs

\* Mutant: frame_buffer is not emptied, and its bytes are read again.
ReadPing_Reread ==
    /\ frame.pc = "payload" /\ frame.final
    /\ frame.opcode \in {OP_PING, OP_PONG}
    /\ LET r == getRawSocketData(frame.len, toCome)
       IN  /\ r.status = "COMPLETE"
           /\ received' = r.received
           /\ frame_buffer' = r.buffer /\ frame_buffer_index' = 0
           /\ \E written \in BOOLEAN : WebSocket_pong(gathered \o r.bytes, written)
    /\ in_frames' = afterFree
    /\ frame' = [NoFrame EXCEPT !.pc = "header", !.opcode = frame.opcode]
    /\ UNCHANGED <<peerVars, factory, packets, failed, disturbed, out>>

\* PING is answered with what has been gathered, PING and PONG are thrown away,
\* and the next frame is read.
ReadPing ==
    /\ frame.pc = "payload" /\ frame.final
    /\ frame.opcode \in {OP_PING, OP_PONG}
    /\ LET r == getRawSocketData(frame.len, toCome)
       IN  /\ takePayload(r)
           /\ \E written \in BOOLEAN : WebSocket_pong(gathered \o r.bytes, written)
    /\ in_frames' = afterFree
    /\ frame' = [NoFrame EXCEPT !.pc = "header", !.opcode = frame.opcode]
    /\ UNCHANGED <<peerVars, factory, packets, failed, out>>

-----------------------------------------------------------------------------
(* MQTTPacket_Factory with WebSocket_getch and WebSocket_getdata           *)

unread == IF in_frames = <<>> THEN <<>>
          ELSE SubSeq(in_frames[1].data, in_frames[1].pos + 1, Len(in_frames[1].data))

\* Nothing that is read was freed, or is behind the data.
readable == \A i \in DOMAIN in_frames :
                ~in_frames[i].freed /\ in_frames[i].pos <= Len(in_frames[i].data)

\* WebSocket_framePosSeekTo
framePosSeekTo(queue, p) ==
    IF queue = <<>> \/ queue[1].freed THEN queue ELSE <<[queue[1] EXCEPT !.pos = p]>>

MQTTPacket_Factory ==
    /\ factory.pc = "idle" /\ ~failed /\ readable
    /\ received < Len(wire) \/ ended
    /\ factory' = [returned EXCEPT !.pc = "header", !.headerWsFramePos = framePos]
    /\ UNCHANGED <<peerVars, bufferVars, in_frames, frame, historyVars, out>>

\* The caller needs a frame it has not got.
receiveFrame ==
    /\ frame.pc = "off" /\ readable
    /\ \/ factory.pc \in {"header", "length"} /\ unread = <<>>
       \/ factory.pc = "data" /\ Len(unread) < factory.value
    /\ frame' = [NoFrame EXCEPT !.pc = "header"]
    /\ UNCHANGED <<peerVars, bufferVars, in_frames, factory, historyVars, out>>

\* WebSocket_getch
getch ==
    /\ frame.pc = "off" /\ readable
    /\ factory.pc \in {"header", "length"} /\ unread # <<>>
    /\ in_frames' = <<[in_frames[1] EXCEPT !.pos = @ + 1]>>
    /\ gotChar(unread[1])
    /\ UNCHANGED <<peerVars, bufferVars, frame, historyVars, out>>

returnPacket(body) ==
    /\ packets' = Append(packets, [header |-> factory.header, body |-> body])
    /\ factory' = returned
    /\ UNCHANGED <<peerVars, bufferVars, frame, failed, pongs, disturbed, out>>

\* Mutant: a frame that was used up stays on the queue.
getdata_NoDetach ==
    /\ frame.pc = "off" /\ readable
    /\ factory.pc = "data" /\ Len(unread) >= factory.value
    /\ in_frames' = <<[in_frames[1] EXCEPT !.pos = @ + factory.value]>>
    /\ returnPacket(SubSeq(unread, 1, factory.value))

\* WebSocket_getdata: the body is there; a frame that was used up is detached.
getdata ==
    /\ frame.pc = "off" /\ readable
    /\ factory.pc = "data" /\ Len(unread) >= factory.value
    /\ in_frames' = IF Len(unread) = factory.value THEN <<>>
                    ELSE <<[in_frames[1] EXCEPT !.pos = @ + factory.value]>>
    /\ returnPacket(SubSeq(unread, 1, factory.value))

\* WebSocket_rewindData
rewindData == 0

\* The Factory gives up for now and will start again where it began.
tryAgain ==
    /\ factory' = returned /\ frame' = NoFrame
    /\ in_frames' = framePosSeekTo(in_frames, factory.headerWsFramePos)

\* receiveFrame was interrupted: it starts again at the first byte of the frame
\* it is in, and fragments that are not on the queue are gone.
ReadInterrupted ==
    /\ frame.pc # "off"
    /\ \E available \in 0..toCome :
        LET r == getRawSocketData(wanted, available)
        IN /\ r.status = "INTERRUPTED"
           /\ frame_buffer' = r.buffer /\ received' = r.received
    /\ frame_buffer_index' = rewindData
    /\ tryAgain
    /\ disturbed' = disturbed \cup (IF frame.res # <<>> /\ gathered # <<>>
                                      THEN {"fragment"} ELSE {})
    /\ UNCHANGED <<peerVars, packets, failed, pongs, out>>

\* receiveFrame fails.  An error met for a header ends the call; one met for a
\* body looks like an interruption, as there is a frame to return.
socketError(queue) ==
    IF factory.pc = "data"
    THEN /\ factory' = returned /\ frame' = NoFrame
         /\ in_frames' = framePosSeekTo(queue, factory.headerWsFramePos)
         /\ UNCHANGED failed
    ELSE /\ factory' = returned /\ frame' = NoFrame
         /\ in_frames' = queue
         /\ failed' = TRUE

ReadError ==
    /\ frame.pc # "off"
    /\ getRawSocketData(wanted, toCome).status = "SOCKET_ERROR"
    /\ socketError(in_frames)
    /\ UNCHANGED <<peerVars, bufferVars, packets, pongs, disturbed, out>>

BadOpcode ==
    /\ frame.pc = "header"
    /\ LET r == getRawSocketData(2, toCome)
       IN  /\ r.status = "COMPLETE" /\ ~validOpcode(opcodeOf(r.bytes[1]))
           /\ frame_buffer' = r.buffer /\ received' = r.received
    /\ frame_buffer_index' = frame_buffer_index + 2
    /\ socketError(in_frames)
    /\ UNCHANGED <<peerVars, packets, pongs, disturbed, out>>

\* The peer has closed: WebSocket_close answers, and the read fails.
ReadClose ==
    /\ frame.pc = "payload" /\ frame.final /\ frame.opcode = OP_CLOSE
    /\ takePayload(getRawSocketData(frame.len, toCome))
    /\ socketError(afterFree)
    /\ UNCHANGED <<peerVars, packets, pongs, out>>

-----------------------------------------------------------------------------

Peer == \/ \E k \in 0..Len(Mqtt), final, masked \in BOOLEAN : PeerSendsData(k, final, masked)
        \/ PeerSendsPing
        \/ PeerEnds

Reading == \/ MQTTPacket_Factory \/ receiveFrame \/ getch \/ getdata
           \/ ReadHeader \/ ReadLength \/ ReadMask
           \/ ReadFragment \/ ReadMessage \/ ReadPing \/ ReadClose
           \/ ReadInterrupted \/ ReadError \/ BadOpcode

Next == Peer \/ Reading \/ putdatas

Spec == Init /\ [][Next]_wsVars

-----------------------------------------------------------------------------
(* Properties                                                              *)

Byte == 0..255

\* The variables hold the values the C structures can hold; there is never more
\* than one frame on the queue, and positions stay inside the data unless a
\* control frame has freed it.
TypeOK ==
    /\ framed \in 0..Len(Mqtt) /\ midMessage \in BOOLEAN
    /\ wire \in Seq(Byte) /\ ended \in BOOLEAN
    /\ received \in 0..Len(wire)
    /\ frame_buffer \in Seq(Byte) /\ frame_buffer_index \in 0..Len(frame_buffer)
    /\ Len(in_frames) <= 1
    /\ \A i \in DOMAIN in_frames :
        /\ in_frames[i].data \in Seq(Byte) /\ in_frames[i].freed \in BOOLEAN
        /\ in_frames[i].pos \in 0..Len(in_frames[i].data) \/ "control" \in disturbed
    /\ factory \in [pc : {"idle", "header", "length", "data"}, header : Byte,
                    value : Byte, headerWsFramePos : 0..Len(Mqtt)]
    /\ frame.pc \in {"off", "header", "len16", "len64", "mask", "payload"}
    /\ failed \in BOOLEAN /\ disturbed \subseteq {"fragment", "control", "mask", "empty"}

\* For every PING there is one PONG with its own payload, in order, made before
\* the next frame is read, however the frames arrive: one that never goes out was
\* refused by Socket_putdatas (WebSocket.c:546-564, 755-764).
PongsEcho ==
    disturbed = {} =>
        /\ IsPrefix([i \in DOMAIN pongs |-> pongs[i].payload], pings)
        /\ toCome = 0 /\ frame.pc # "payload" => Len(pongs) = Len(pings)

sentBytes(ps) == FlattenSeq([i \in DOMAIN ps |->
                    <<ps[i].header, Len(ps[i].body)>> \o ps[i].body])

\* The Factory returns the packets the peer put in its frames, however they are
\* cut into frames and wherever the stream is interrupted, until one of four
\* things happens: a control frame comes when a packet is half read, the stream
\* is interrupted between the fragments of a message, the peer masks, or an
\* empty message comes where the first bytes of a packet are expected.  Between two calls the
\* queue holds exactly what was received of the MQTT stream and not returned, from
\* the first byte of a packet on, and frame_buffer the bytes received of a frame
\* that is not complete, to be read again from its first byte
\* (WebSocket.c:383-456, 590-784, MQTTPacket.c:51-66).
DataIntact ==
    disturbed = {} =>
        /\ IsPrefix(packets, MqttPackets)
        /\ factory.pc = "idle" /\ ~failed /\ ~ended =>
            /\ frame_buffer_index = 0
            /\ frame_buffer = IF toCome = 0 THEN <<>> ELSE SubSeq(wire, 1, received)
            /\ IsPrefix(sentBytes(packets) \o unread, Mqtt)
            /\ in_frames # <<>> => unread # <<>>

\* What goes out unmasks to the packet with the mask in its header, and the
\* caller gets its buffers back as they were unless the rest of the write still
\* needs them (WebSocket.c:81-189, 566-588).
OutgoingUnmasks ==
    out.rc # "none" =>
        LET p == out.packet
            payload == p.buf0 \o FlattenSeq(p.bufs)
            size == calculateFrameHeaderSize(TRUE, Len(payload))
        IN  /\ Len(out.frame) = size + Len(payload)
            /\ xorMask(SubSeq(out.frame, size + 1, Len(out.frame)),
                       SubSeq(out.frame, size - 3, size), 0) = payload
            /\ out.rc # "INTERRUPTED" => out.bufs = p.bufs /\ out.mask = NoMask
=============================================================================
