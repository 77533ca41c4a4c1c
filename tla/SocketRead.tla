----------------------------- MODULE SocketRead -----------------------------
(***************************************************************************)
(* Reading packets from non-blocking sockets: MQTTPacket_Factory, the      *)
(* remaining length, Socket_getch and Socket_getdata, and the queues of    *)
(* SocketBuffer.c that keep what was read of a packet until the rest       *)
(* arrives.  A call of the Factory starts again at the first byte of the   *)
(* packet and takes what was read before from the socket's queue.          *)
(*                                                                         *)
(* mqttclient_mutex is held during a call, so one call is active at a      *)
(* time; bytes arrive at any moment.  A byte is a number.  A packet is a   *)
(* header byte, its remaining length in digits of base Base (128 in the    *)
(* protocol), and the bytes of its body.                                   *)
(***************************************************************************)
EXTENDS Naturals, Sequences, SequencesExt

CONSTANTS
    Sockets,    \* connected sockets
    Sent,       \* Sent[s]: the packets [header, body] the peer of s sends
    Trailing,   \* Trailing[s]: bytes after them that are not a packet
    Base,       \* base of the remaining length
    NULL,       \* no socket, no byte
    MayClose    \* the peers that may close their connection at any byte

ASSUME BaseAssumption == Base \in Nat /\ Base >= 2
ASSUME SocketsAssumption == NULL \notin Sockets /\ MayClose \subseteq Sockets

\* A byte has a digit and the mark that another one follows (MQTTPacket.c).
Byte == 0..(2 * Base - 1)

ASSUME SentAssumption ==
    /\ Sent \in [Sockets -> Seq([header : Byte, body : Seq(Byte)])]
    /\ Trailing \in [Sockets -> Seq(Byte)]

\* What follows the packets is no packet: its length does not end within the
\* bytes a length may have.
TrailingIsNoPacket ==
    \A s \in Sockets : \A i \in 2..5 : i <= Len(Trailing[s]) => Trailing[s][i] >= Base

MAX_NO_OF_REMAINING_LENGTH_BYTES == 4
FixedHeaderSize == 5      \* sizeof(socket_queue.fixed_header)

VARIABLES
    arrived,    \* arrived[s]: how many bytes of the stream are there
    eof,        \* eof[s]: the peer has closed, no more bytes arrive
    received,   \* received[s]: how many bytes recv has returned
    queues,     \* SocketBuffer.c: queues[s], or Fresh if s is not on the list
    def_queue,  \* SocketBuffer.c: the default queue
    call,       \* the active call: [pc, socket, header, len, value, mult]
    packets,    \* packets[s]: what the Factory returned
    failed      \* history: sockets on which the Factory reported an error

vars == <<arrived, eof, received, queues, def_queue, call, packets, failed>>

\* MQTTPacket_encode: the lowest digit first, all but the last one marked.
encode(length) ==
    LET digits[n \in 0..length] ==
            IF n < Base THEN <<n>> ELSE <<(n % Base) + Base>> \o digits[n \div Base]
    IN  digits[length]

Frame(p) == <<p.header>> \o encode(Len(p.body)) \o p.body
SentBytes(s) == FlattenSeq([i \in DOMAIN Sent[s] |-> Frame(Sent[s][i])])
Stream(s) == SentBytes(s) \o Trailing[s]

\* A socket_queue.  header is fixed_header[0..headerlen-1], data is
\* buf[0..datalen-1].
Fresh == [socket |-> NULL, index |-> 0, header |-> <<>>, data |-> <<>>,
          buflen |-> 0]

NoCall == [pc |-> "idle", socket |-> NULL, header |-> 0, len |-> 0, value |-> 0,
           mult |-> 1]

Init ==
    /\ arrived = [s \in Sockets |-> 0] /\ eof = [s \in Sockets |-> FALSE]
    /\ received = [s \in Sockets |-> 0]
    /\ queues = [s \in Sockets |-> Fresh] /\ def_queue = Fresh
    /\ call = NoCall
    /\ packets = [s \in Sockets |-> <<>>] /\ failed = {}

-----------------------------------------------------------------------------
(* SocketBuffer.c                                                          *)

\* ListFindItem(queues, &socket, socketcompare)
queued(s) == queues[s].socket = s

\* The queue's buffer has room for n bytes from now on.
roomFor(q, n) == IF n > q.buflen THEN [q EXCEPT !.buflen = n] ELSE q

\* Mutant: the header is not read again from its first byte.
SocketBuffer_interrupted_KeepIndex(s, data, n) ==
    IF queued(s)
    THEN /\ queues' = [queues EXCEPT ![s] = [roomFor(@, n) EXCEPT !.data = data]]
         /\ UNCHANGED def_queue
    ELSE /\ queues' = [queues EXCEPT ![s] =
                        [roomFor(def_queue, n) EXCEPT !.socket = s, !.data = data]]
         /\ def_queue' = Fresh

\* SocketBuffer_interrupted, after n bytes of a body were asked for (0 in
\* getch): the socket keeps its queue, or takes the default queue over,
\* whatever that holds; the next call starts again at index 0.
SocketBuffer_interrupted(s, data, n) ==
    IF queued(s)
    THEN /\ queues' = [queues EXCEPT ![s] =
                        [roomFor(@, n) EXCEPT !.index = 0, !.data = data]]
         /\ UNCHANGED def_queue
    ELSE /\ queues' = [queues EXCEPT ![s] =
                        [roomFor(def_queue, n) EXCEPT !.socket = s, !.index = 0,
                                                      !.data = data]]
         /\ def_queue' = Fresh

\* Mutant: the fields of the queue are not reset.
SocketBuffer_complete_NoReset(s, n) ==
    /\ def_queue' = roomFor(IF queued(s) THEN queues[s] ELSE def_queue, n)
    /\ queues' = [queues EXCEPT ![s] = Fresh]

\* SocketBuffer_complete: the socket's queue becomes the default queue again.
SocketBuffer_complete(s, n) ==
    LET q == IF queued(s) THEN queues[s] ELSE def_queue
    IN  /\ def_queue' = [Fresh EXCEPT !.buflen = roomFor(q, n).buflen]
        /\ queues' = [queues EXCEPT ![s] = Fresh]

\* Mutant: the bytes of the header are not kept.
SocketBuffer_queueChar_Forget(s, c) == UNCHANGED <<queues, def_queue>>

\* Mutant: the end of fixed_header is not checked for.
appendChar_Unbounded(q, c) ==
    [q EXCEPT !.header = Append(SubSeq(@, 1, q.index), c), !.index = @ + 1]

appendChar(q, c) ==
    IF q.index >= FixedHeaderSize THEN q
    ELSE [q EXCEPT !.header = Append(SubSeq(@, 1, q.index), c),
                   !.index = @ + 1]

\* SocketBuffer_queueChar: nothing is kept if the default queue is in use for
\* another socket.
SocketBuffer_queueChar(s, c) ==
    CASE queued(s) ->
            /\ queues' = [queues EXCEPT ![s] = appendChar(@, c)]
            /\ UNCHANGED def_queue
      [] ~queued(s) /\ def_queue.socket = NULL ->
            /\ def_queue' = appendChar([def_queue EXCEPT !.socket = s, !.index = 0,
                                                         !.data = <<>>], c)
            /\ UNCHANGED queues
      [] ~queued(s) /\ def_queue.socket = s ->
            /\ def_queue' = appendChar(def_queue, c)
            /\ UNCHANGED queues
      [] OTHER -> UNCHANGED <<queues, def_queue>>

-----------------------------------------------------------------------------
(* Socket_getch: the next byte of the header or of the remaining length    *)

\* The queue still has a byte that was read in an earlier call.
replaying(s) == queued(s) /\ queues[s].index < Len(queues[s].header)

available(s) == arrived[s] > received[s]

\* What MQTTPacket_Factory and MQTTPacket_decode do with byte c.
useChar(c) ==
    call' = IF call.pc = "header"
            THEN [call EXCEPT !.pc = "length", !.header = c]
            ELSE [call EXCEPT !.pc = IF c >= Base THEN "length" ELSE "data",
                              !.len = @ + 1,
                              !.value = @ + (c % Base) * call.mult,
                              !.mult = @ * Base]

Reading == call.pc = "header"
           \/ (call.pc = "length" /\ call.len < MAX_NO_OF_REMAINING_LENGTH_BYTES)

\* recv is called: there is nothing to replay and room for a byte to keep.
Receiving == /\ Reading /\ ~replaying(call.socket)
             /\ queued(call.socket) => queues[call.socket].index < FixedHeaderSize

\* The Factory returns an error; no queue is touched.
returnError ==
    /\ failed' = failed \cup {call.socket}
    /\ call' = NoCall
    /\ UNCHANGED <<arrived, eof, received, queues, def_queue, packets>>

GetQueuedChar ==
    /\ Reading /\ replaying(call.socket)
    /\ LET q == queues[call.socket]
       IN  /\ useChar(q.header[q.index + 1])
           /\ queues' = [queues EXCEPT ![call.socket].index = @ + 1]
    /\ UNCHANGED <<arrived, eof, received, def_queue, packets, failed>>

GetChar ==
    /\ Receiving
    /\ LET s == call.socket
           c == Stream(s)[received[s] + 1]
       IN  /\ available(s)
           /\ received' = [received EXCEPT ![s] = @ + 1]
           /\ SocketBuffer_queueChar(s, c)
           /\ useChar(c)
    /\ UNCHANGED <<arrived, eof, packets, failed>>

GetCharInterrupted ==
    /\ Receiving
    /\ ~available(call.socket) /\ ~eof[call.socket]
    /\ SocketBuffer_interrupted(call.socket, <<>>, 0)
    /\ call' = NoCall
    /\ UNCHANGED <<arrived, eof, received, packets, failed>>

GetCharEof ==
    /\ Receiving
    /\ ~available(call.socket) /\ eof[call.socket]
    /\ returnError

\* "header is already at full length"
HeaderFull ==
    /\ Reading /\ ~replaying(call.socket) /\ ~Receiving
    /\ returnError

\* More length bytes than the protocol allows.
BadLength ==
    /\ call.pc = "length" /\ ~Reading
    /\ returnError

-----------------------------------------------------------------------------
(* Socket_getdata: the body, and the packet the Factory returns            *)

\* Mutant: a body that was read in part is read again from its start.
queuedData_None(s) == <<>>

\* SocketBuffer_getQueuedData: what earlier calls read of the body.  A buffer
\* that has to grow loses its contents.
queuedData(s) ==
    IF ~queued(s) THEN <<>>
    ELSE IF call.value > queues[s].buflen
         THEN [i \in DOMAIN queues[s].data |-> NULL]
         ELSE queues[s].data

\* The bytes of the body after recv has returned n more.
bytesGot(s, n) ==
    queuedData(s) \o SubSeq(Stream(s), received[s] + 1, received[s] + n)

returnPacket(s, body) ==
    /\ packets' = [packets EXCEPT ![s] =
                    Append(@, [header |-> call.header, body |-> body])]
    /\ SocketBuffer_complete(s, call.value)
    /\ call' = NoCall
    /\ UNCHANGED <<arrived, eof, failed>>

GetNoData ==
    /\ call.pc = "data" /\ call.value = 0
    /\ returnPacket(call.socket, <<>>)
    /\ UNCHANGED received

\* The whole rest of the body is there.
GetData ==
    /\ call.pc = "data" /\ call.value > 0
    /\ LET s == call.socket
           n == call.value - Len(queuedData(s))
       IN  /\ n > 0 /\ arrived[s] - received[s] >= n
           /\ received' = [received EXCEPT ![s] = @ + n]
           /\ returnPacket(s, bytesGot(s, n))

\* Part of it is there, or nothing yet: it is kept for the next call.
GetDataInterrupted ==
    /\ call.pc = "data" /\ call.value > 0
    /\ LET s == call.socket
           n == arrived[s] - received[s]
       IN  /\ n < call.value - Len(queuedData(s))
           /\ n > 0 \/ ~eof[s]
           /\ received' = [received EXCEPT ![s] = @ + n]
           /\ SocketBuffer_interrupted(s, bytesGot(s, n), call.value)
    /\ call' = NoCall
    /\ UNCHANGED <<arrived, eof, packets, failed>>

GetDataEof ==
    /\ call.pc = "data" /\ call.value > 0
    /\ ~available(call.socket) /\ eof[call.socket]
    /\ returnError

-----------------------------------------------------------------------------
(* Calls and arrivals                                                      *)

\* MQTTClient_cycle calls the Factory for a socket select reported.
Factory(s) ==
    /\ call.pc = "idle"
    /\ available(s) \/ eof[s]
    /\ call' = [NoCall EXCEPT !.pc = "header", !.socket = s]
    /\ UNCHANGED <<arrived, eof, received, queues, def_queue, packets, failed>>

Arrive(s) ==
    /\ ~eof[s]
    /\ \E n \in (arrived[s] + 1)..Len(Stream(s)) :
        arrived' = [arrived EXCEPT ![s] = n]
    /\ UNCHANGED <<eof, received, queues, def_queue, call, packets, failed>>

Close(s) ==
    /\ s \in MayClose /\ ~eof[s]
    /\ eof' = [eof EXCEPT ![s] = TRUE]
    /\ UNCHANGED <<arrived, received, queues, def_queue, call, packets, failed>>

InFactory ==
    \/ GetQueuedChar \/ GetChar \/ GetCharInterrupted \/ GetCharEof
    \/ HeaderFull \/ BadLength
    \/ GetNoData \/ GetData \/ GetDataInterrupted \/ GetDataEof

Next == InFactory \/ \E s \in Sockets : Factory(s) \/ Arrive(s) \/ Close(s)

Spec == Init /\ [][Next]_vars

\* A call runs to its end, a ready socket is served in its turn, and the bytes
\* of the packets arrive unless the connection is closed.
FairSpec ==
    /\ Spec /\ WF_vars(InFactory)
    /\ \A s \in Sockets :
        /\ SF_vars(Factory(s))
        /\ WF_vars(arrived[s] < Len(SentBytes(s)) /\ Arrive(s))

-----------------------------------------------------------------------------
(* Properties                                                              *)

Body == Seq(Byte \cup {NULL})      \* NULL: memory that was never written
Queue == [socket : Sockets \cup {NULL}, index : 0..FixedHeaderSize,
          header : Seq(Byte), data : Body, buflen : Nat]

\* The variables hold the values the C structures can hold; index stays within
\* fixed_header whatever bytes arrive.
TypeOK ==
    /\ arrived \in [Sockets -> Nat] /\ received \in [Sockets -> Nat]
    /\ eof \in [Sockets -> BOOLEAN]
    /\ queues \in [Sockets -> Queue] /\ def_queue \in Queue
    /\ call \in [pc : {"idle", "header", "length", "data"},
                 socket : Sockets \cup {NULL}, header : Byte,
                 len : 0..MAX_NO_OF_REMAINING_LENGTH_BYTES, value : Nat,
                 mult : Nat]
    /\ packets \in [Sockets -> Seq([header : Byte, body : Body])]
    /\ failed \subseteq Sockets

\* The Factory returns on each socket the packets its peer sent, in order and
\* byte for byte, wherever the streams are cut and however the reads of the
\* sockets take turns (Socket.c:498-561, SocketBuffer.c:160-310), up to the
\* first read that fails.
PacketsIntact == failed = {} => \A s \in Sockets : IsPrefix(packets[s], Sent[s])

\* What a socket has been read of an unfinished packet is on its queue: the
\* bytes received are those of the finished packets and of the queue, so that
\* an interrupted read loses nothing.
NothingLost ==
    call.pc = "idle" /\ failed = {} =>
        \A s \in Sockets :
            SubSeq(Stream(s), 1, received[s]) =
                FlattenSeq([i \in DOMAIN packets[s] |-> Frame(packets[s][i])])
                    \o queues[s].header \o queues[s].data

\* The default queue is nobody's between calls, so the next socket may use it
\* (SocketBuffer.c:296).
DefaultQueueFree ==
    call.pc = "idle" /\ failed = {} =>
        def_queue.socket = NULL /\ def_queue.header = <<>>

\* Every packet sent is returned, unless some read fails: no byte is waited for
\* that has already been read, and no socket is forgotten with a queue.
EveryPacketReturned ==
    \A s \in Sockets : <>(failed # {} \/ packets[s] = Sent[s])

-----------------------------------------------------------------------------
(* What a comment of the repository says and the code does not do          *)

\* Socket.c:522: "If a previous read did not finish, then retrieve that data":
\* a socket whose connection is fine gets its own packets, also after another
\* connection was closed in the middle of a packet.
OwnDataRetrieved ==
    \A s \in Sockets : ~eof[s] => IsPrefix(packets[s], Sent[s])
=============================================================================
