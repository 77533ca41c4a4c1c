---------------------------- MODULE MQTTSession ----------------------------
(***************************************************************************)
(* One connected client of the library: the message state kept in a        *)
(* Clients structure (MQTTProtocol.c), the application threads that call   *)
(* MQTTClient_publish5, and the background thread MQTTClient_run with its  *)
(* calls of MQTTClient_cycle (MQTTClient.c).                               *)
(*                                                                         *)
(* Granularity.  Everything that runs while mqttclient_mutex is held is    *)
(* one action.  The run thread gives the mutex up (or does not hold it)    *)
(* in four places, and each of them is a separate value of run.pc:         *)
(*   "select"    inside Socket_getReadySocket (socket_mutex only)          *)
(*   "read"      a ready socket was returned, cycle has not locked yet     *)
(*   "dispatch"  cycle has unlocked, MQTTClient_run has not locked yet     *)
(*   "callback"  inside the application's messageArrived                   *)
(*                                                                         *)
(* Data.  A publication is a heap cell, a packet a small record, an        *)
(* inbound payload the number under which the broker sent it.  Memory      *)
(* allocation succeeds and the protocol level is 3.1.1, so                 *)
(* MQTTPacket_send_publish writes nothing at QoS 0.                        *)
(***************************************************************************)
EXTENDS Naturals, Sequences, FiniteSets, FiniteSetsExt, SequencesExt

CONSTANTS
    MAX_MSG_ID,      \* largest message identifier (65535 in the code)
    Pubs,            \* heap cells for Publications structures
    OutQoS,          \* QoS values the application publishes with
    InQoS,           \* QoS values the broker publishes with
    InIds,           \* message identifiers the broker uses
    MaxIn,           \* bound: PUBLISH packets the broker sends
    CallbackResults, \* what messageArrived may return, a subset of {0, 1}
    MaySubscribe,    \* whether the application subscribes
    MayLoseConnection \* whether the peer may close the connection

ASSUME MaxMsgIdAssumption == MAX_MSG_ID \in Nat /\ MAX_MSG_ID >= 2
ASSUME QoSAssumption      == OutQoS \subseteq 0..2 /\ InQoS \subseteq 0..2
ASSUME InIdsAssumption    == InIds \subseteq 1..MAX_MSG_ID
ASSUME MaxInAssumption    == MaxIn \in Nat
ASSUME CallbackAssumption == CallbackResults \subseteq {0, 1}
ASSUME LossAssumption     == MayLoseConnection \in BOOLEAN
ASSUME SubscribeAssumption == MaySubscribe \in BOOLEAN

VARIABLES
    msgID,          \* Clients.msgID: the last identifier assigned
    outboundMsgs,   \* Clients.outboundMsgs: records [msgid, qos, publish]
    inboundMsgs,    \* Clients.inboundMsgs: QoS 2 records [msgid, publish]
    refcount,       \* state.publications: the refcount of each cell, 0 = free
    messageQueue,   \* Clients.messageQueue: payloads for messageArrived
    outboundQueue,  \* Clients.outboundQueue: acknowledgements put aside
    pendingWrite,   \* the packets of this socket in write_pending
    run,            \* the run thread: [pc, qe]
    rc,             \* what the last MQTTClient_publish5 returned
    up,             \* the TCP connection is up
    toBroker,       \* packets completely written, not yet seen by the broker
    fromBroker,     \* packets sent by the broker, not yet read
    partial,        \* a first part of Head(fromBroker) was already read
    broker,         \* the broker: [sent, low, awaiting]
    delivered,      \* history: payloads messageArrived accepted, in order
    unsent          \* history: cells of messages whose publish5 failed

clientVars == <<msgID, outboundMsgs, inboundMsgs, refcount, messageQueue,
                outboundQueue>>
netVars    == <<up, toBroker, fromBroker, partial, pendingWrite>>
vars       == <<clientVars, netVars, run, rc, broker, delivered, unsent>>

MsgIds  == 1..MAX_MSG_ID
OutMsg  == [msgid : MsgIds, qos : {1, 2}, publish : Pubs]
InMsg   == [msgid : InIds, publish : Pubs]
\* MQTTClient_subscribeMany5 sends every SUBSCRIBE with identifier 0.
SubscribePacket == [type |-> "SUBSCRIBE", msgid |-> 0, qos |-> 1]
Packet  == [type : {"PUBLISH"}, msgid : MsgIds, qos : {1, 2}]
            \cup [type : {"PUBACK"}, msgid : MsgIds, qos : {0}]
            \cup {SubscribePacket}
\* A packet being written, with the cells its iovecs point into.
Write   == [pkt : Packet, refs : SUBSET Pubs]
\* What the broker sends.
InPublish0 == [type : {"PUBLISH"}, msgid : {0}, qos : {0}, payload : 1..MaxIn]
InPublish  == [type : {"PUBLISH"}, msgid : InIds, qos : {1, 2},
               payload : 1..MaxIn]
InAck      == [type : {"PUBACK", "PUBREC"}, msgid : MsgIds, qos : {0},
               payload : {0}]
Suback     == [type |-> "SUBACK", msgid |-> 0, qos |-> 0, payload |-> 0]
InPacket   == InPublish0 \cup InPublish \cup InAck \cup {Suback}
AckRequest == [ackType : {"PUBACK", "PUBREC"}, msgid : InIds]
RcValues == {"none", "COMPLETE", "INTERRUPTED", "SOCKET_ERROR",
             "MAX_MESSAGES_INFLIGHT"}

InFlight == {m.msgid : m \in outboundMsgs}

Init ==
    /\ msgID = 0
    /\ outboundMsgs = {} /\ inboundMsgs = {}
    /\ refcount = [p \in Pubs |-> 0]
    /\ messageQueue = <<>> /\ outboundQueue = <<>>
    /\ pendingWrite = {}
    /\ run = [pc |-> "select", qe |-> 0]
    /\ rc = "none"
    /\ up = TRUE
    /\ toBroker = <<>> /\ fromBroker = <<>> /\ partial = FALSE
    /\ broker = [sent |-> 0, low |-> <<>>, awaiting |-> {}]
    /\ delivered = <<>> /\ unsent = {}

-----------------------------------------------------------------------------
(* Message identifiers                                                     *)

\* Mutant: no wrap from MAX_MSG_ID to 1.
Candidate_NoWrap(start, k) == start + k

\* The k-th identifier the search looks at, for a start in 0..MAX_MSG_ID.
Candidate(start, k) ==
    IF start + k <= MAX_MSG_ID THEN start + k ELSE start + k - MAX_MSG_ID

\* The search goes once round and gives up when it is back at start, without
\* looking at start itself.  (With start = 0 it would never get back there:
\* see SearchTerminates.)
FreeSteps(start, used) ==
    {k \in 1..(MAX_MSG_ID - 1) : Candidate(start, k) \notin used}

\* Mutant: the next identifier is taken without looking for it.
assignMsgId_NoSearch(start, used) == Candidate(start, 1)

assignMsgId(start, used) ==
    IF FreeSteps(start, used) = {}
    THEN 0
    ELSE Candidate(start, Min(FreeSteps(start, used)))

\* Mutant: the identifier is not remembered.
saveMsgId_Forgotten(id) == UNCHANGED msgID

saveMsgId(id) == msgID' = IF id # 0 THEN id ELSE msgID

\* Mutant: the list's current element is used without a search.
findMessage_Current(id) == outboundMsgs

\* ListFindItem(client->outboundMsgs, &id, messageIDCompare)
findMessage(id) == {m \in outboundMsgs : m.msgid = id}

-----------------------------------------------------------------------------
(* Writing to the socket and the list of publications                      *)

\* A packet completely handed to the kernel reaches the broker unless the
\* connection is gone by then.
sendPacket(pkt) == toBroker' = IF up THEN Append(toBroker, pkt) ELSE toBroker

\* Mutant: a pending write is not checked for, and is overwritten.
putdatas_NoPendingCheck(w, result) ==
    \/ /\ result = "SOCKET_ERROR" /\ ~up
       /\ UNCHANGED <<pendingWrite, toBroker>>
    \/ /\ result = "COMPLETE"
       /\ sendPacket(w.pkt)
       /\ UNCHANGED pendingWrite
    \/ /\ result = "INTERRUPTED"
       /\ pendingWrite' = {w}
       /\ UNCHANGED toBroker

\* Socket_putdatas: refused while a write is pending; otherwise the packet is
\* written completely or in part, or fails if the connection is broken (which
\* the kernel may not know yet).
putdatas(w, result) ==
    \/ /\ result = "SOCKET_ERROR"
       /\ pendingWrite # {} \/ ~up
       /\ UNCHANGED <<pendingWrite, toBroker>>
    \/ /\ result = "COMPLETE"
       /\ pendingWrite = {}
       /\ sendPacket(w.pkt)
       /\ UNCHANGED pendingWrite
    \/ /\ result = "INTERRUPTED"
       /\ pendingWrite = {}
       /\ pendingWrite' = {w}
       /\ UNCHANGED toBroker

FreeCells == {p \in Pubs : refcount[p] = 0}

storePublication(p) == refcount' = [refcount EXCEPT ![p] = 1]

removePublication(p) == refcount' = [refcount EXCEPT ![p] = @ - 1]

\* Mutant: the replaced publication is not released.
replacePublication_Leak(p, old) == storePublication(p)

\* handlePublishes: store p, then release the publication of every message
\* that p replaces.
replacePublication(p, old) ==
    refcount' = [q \in Pubs |->
                    IF q = p THEN 1
                    ELSE IF \E m \in old : m.publish = q THEN refcount[q] - 1
                         ELSE refcount[q]]

-----------------------------------------------------------------------------
(* Application threads: MQTTClient_publish5                                *)

\* QoS 0 at protocol level 3.1.1: send_publish builds no packet.
PublishQoS0 ==
    /\ 0 \in OutQoS
    /\ rc' = "SOCKET_ERROR"
    /\ UNCHANGED <<clientVars, netVars, run, broker, delivered, unsent>>

\* No identifier: the call fails and changes nothing.
PublishNoId ==
    /\ OutQoS \ {0} # {}
    /\ assignMsgId(msgID, InFlight) = 0
    /\ saveMsgId(0)
    /\ rc' = "MAX_MESSAGES_INFLIGHT"
    /\ UNCHANGED <<outboundMsgs, inboundMsgs, refcount, messageQueue,
                   outboundQueue, netVars, run, broker, delivered, unsent>>

\* The message is stored before the write is tried and stays stored
\* whatever the write returns.
startPublish(qos, p, result) ==
    LET id == assignMsgId(msgID, InFlight)
        m  == [msgid |-> id, qos |-> qos, publish |-> p]
        w  == [pkt  |-> [type |-> "PUBLISH", msgid |-> id, qos |-> qos],
               refs |-> {p}]
    IN  /\ id # 0
        /\ saveMsgId(id)
        /\ storePublication(p)
        /\ outboundMsgs' = outboundMsgs \cup {m}
        /\ putdatas(w, result)
        /\ rc' = result
        /\ unsent' = IF result = "SOCKET_ERROR" THEN unsent \cup {p} ELSE unsent
        /\ UNCHANGED <<inboundMsgs, messageQueue, outboundQueue, run, up,
                       fromBroker, partial, broker, delivered>>

Publish ==
    \E qos \in OutQoS \ {0}, p \in FreeCells,
       result \in {"COMPLETE", "INTERRUPTED", "SOCKET_ERROR"} :
        startPublish(qos, p, result)

-----------------------------------------------------------------------------
(* Application threads: MQTTClient_subscribe                               *)

send_subscribe(result) == putdatas([pkt |-> SubscribePacket, refs |-> {}], result)

\* Bound: one SUBSCRIBE or its SUBACK is under way at a time.
SubscribeUnderWay ==
    \/ \E w \in pendingWrite : w.pkt = SubscribePacket
    \/ \E i \in DOMAIN toBroker : toBroker[i] = SubscribePacket
    \/ \E i \in DOMAIN fromBroker : fromBroker[i] = Suback

\* The result of the write is dropped: the call returns success.
Subscribe ==
    /\ MaySubscribe /\ ~SubscribeUnderWay
    /\ \E result \in {"COMPLETE", "INTERRUPTED", "SOCKET_ERROR"} :
        send_subscribe(result)
    /\ UNCHANGED <<clientVars, run, rc, up, fromBroker, partial, broker,
                   delivered, unsent>>

-----------------------------------------------------------------------------
(* The run thread, inside Socket_getReadySocket                            *)

\* Mutant: the pending write is forgotten, its packet never completed.
ContinueWriteDone_Lost ==
    /\ run.pc = "select" /\ pendingWrite # {}
    /\ pendingWrite' = {}
    /\ UNCHANGED <<clientVars, run, rc, up, toBroker, fromBroker, partial,
                   broker, delivered, unsent>>

\* Socket_continueWrites: the rest of the packet is written.
ContinueWriteDone ==
    /\ run.pc = "select"
    /\ \E w \in pendingWrite :
        /\ sendPacket(w.pkt)
        /\ pendingWrite' = pendingWrite \ {w}
    /\ UNCHANGED <<clientVars, run, rc, up, fromBroker, partial, broker,
                   delivered, unsent>>

\* Socket_continueWrites fails: the partial write is dropped and the socket
\* is returned at once.
ContinueWriteError ==
    /\ run.pc = "select" /\ ~up
    /\ pendingWrite # {}
    /\ pendingWrite' = {}
    /\ run' = [run EXCEPT !.pc = "read"]
    /\ UNCHANGED <<clientVars, rc, up, toBroker, fromBroker, partial, broker,
                   delivered, unsent>>

\* isReady: readable (data or end of file) and no pending write.
ReadySocket ==
    /\ run.pc = "select"
    /\ pendingWrite = {}
    /\ fromBroker # <<>> \/ ~up
    /\ run' = [run EXCEPT !.pc = "read"]
    /\ UNCHANGED <<clientVars, netVars, rc, broker, delivered, unsent>>

-----------------------------------------------------------------------------
(* The run thread, inside MQTTClient_cycle with the mutex held             *)

\* A whole packet has been read: it leaves the socket.
Received(type) ==
    /\ run.pc = "read"
    /\ fromBroker # <<>>
    /\ Head(fromBroker).type = type
    /\ fromBroker' = Tail(fromBroker)
    /\ partial' = FALSE
    /\ run' = [run EXCEPT !.pc = "dispatch"]

\* Only the first part of the packet is there (bound: at most once a packet).
CycleInterrupted ==
    /\ run.pc = "read"
    /\ fromBroker # <<>> /\ ~partial
    /\ partial' = TRUE
    /\ run' = [run EXCEPT !.pc = "dispatch"]
    /\ UNCHANGED <<clientVars, rc, up, toBroker, fromBroker, pendingWrite,
                   broker, delivered, unsent>>

\* End of file: MQTTPacket_Factory returns SOCKET_ERROR and no packet.
CycleError ==
    /\ run.pc = "read"
    /\ fromBroker = <<>>
    /\ run' = [run EXCEPT !.pc = "dispatch"]
    /\ UNCHANGED <<clientVars, netVars, rc, broker, delivered, unsent>>

\* Mutant: the acknowledgement is not put aside.
queueAck_Dropped(ackType, id) == UNCHANGED outboundQueue

queueAck(ackType, id) ==
    outboundQueue' = Append(outboundQueue, [ackType |-> ackType, msgid |-> id])

\* Protocol_processPublication: a copy of the message for messageArrived.
processPublication(publish) ==
    messageQueue' = Append(messageQueue, publish.payload)

send_puback(id, result) ==
    putdatas([pkt  |-> [type |-> "PUBACK", msgid |-> id, qos |-> 0],
              refs |-> {}], result)

\* MQTTProtocol_handlePublishes, QoS 0.
HandlePublish0 ==
    /\ Received("PUBLISH")
    /\ LET publish == Head(fromBroker)
       IN  /\ publish.qos = 0
           /\ processPublication(publish)
    /\ UNCHANGED <<msgID, outboundMsgs, inboundMsgs, refcount, outboundQueue,
                   pendingWrite, rc, up, toBroker, broker, delivered, unsent>>

\* MQTTProtocol_handlePublishes, QoS 1: queue the message, then acknowledge
\* it, or put the acknowledgement aside when a write is pending.
HandlePublish1 ==
    /\ Received("PUBLISH")
    /\ LET publish == Head(fromBroker)
       IN  /\ publish.qos = 1
           /\ processPublication(publish)
           /\ IF pendingWrite # {}
              THEN /\ queueAck("PUBACK", publish.msgid)
                   /\ UNCHANGED <<pendingWrite, toBroker>>
              ELSE /\ \E result \in {"COMPLETE", "INTERRUPTED", "SOCKET_ERROR"} :
                          send_puback(publish.msgid, result)
                   /\ UNCHANGED outboundQueue
    /\ UNCHANGED <<msgID, outboundMsgs, inboundMsgs, refcount, rc, up, broker,
                   delivered, unsent>>

\* MQTTProtocol_handlePublishes, QoS 2: the message is stored, replacing one
\* with the same identifier; PUBREC is only ever put aside.
HandlePublish2 ==
    /\ Received("PUBLISH")
    /\ LET publish == Head(fromBroker)
           old == {m \in inboundMsgs : m.msgid = publish.msgid}
       IN  /\ publish.qos = 2
           /\ \E p \in FreeCells :
                /\ inboundMsgs' = (inboundMsgs \ old)
                                    \cup {[msgid |-> publish.msgid, publish |-> p]}
                /\ replacePublication(p, old)
           /\ IF pendingWrite # {}
              THEN queueAck("PUBREC", publish.msgid)
              ELSE UNCHANGED outboundQueue
    /\ UNCHANGED <<msgID, outboundMsgs, messageQueue, pendingWrite, rc, up,
                   toBroker, broker, delivered, unsent>>

\* MQTTProtocol_handlePubacks: an unknown identifier or a message that is not
\* QoS 1 is only logged.
HandlePuback ==
    /\ Received("PUBACK")
    /\ LET found == findMessage(Head(fromBroker).msgid)
       IN  \/ /\ \A m \in found : m.qos # 1
              /\ UNCHANGED <<outboundMsgs, refcount>>
           \/ \E m \in found :
              /\ m.qos = 1
              /\ removePublication(m.publish)
              /\ outboundMsgs' = outboundMsgs \ {m}
    /\ UNCHANGED <<msgID, inboundMsgs, messageQueue, outboundQueue,
                   pendingWrite, rc, up, toBroker, broker, delivered, unsent>>

\* PUBREC: cycle has no handler and MQTTClient_run ignores it.
IgnorePubrec ==
    /\ Received("PUBREC")
    /\ UNCHANGED <<clientVars, pendingWrite, rc, up, toBroker, broker,
                   delivered, unsent>>

\* SUBACK: MQTTClient_run posts a semaphore nobody waits for.
IgnoreSuback ==
    /\ Received("SUBACK")
    /\ UNCHANGED <<clientVars, pendingWrite, rc, up, toBroker, broker,
                   delivered, unsent>>

-----------------------------------------------------------------------------
(* The run thread, delivering one message                                  *)

\* Mutant: a message on the queue is passed over.
DispatchNothing_Always ==
    /\ run.pc = "dispatch"
    /\ run' = [run EXCEPT !.pc = "select"]
    /\ UNCHANGED <<clientVars, netVars, rc, broker, delivered, unsent>>

DispatchNothing ==
    /\ run.pc = "dispatch"
    /\ messageQueue = <<>>
    /\ run' = [run EXCEPT !.pc = "select"]
    /\ UNCHANGED <<clientVars, netVars, rc, broker, delivered, unsent>>

CallMessageArrived ==
    /\ run.pc = "dispatch"
    /\ messageQueue # <<>>
    /\ run' = [pc |-> "callback", qe |-> Head(messageQueue)]
    /\ UNCHANGED <<clientVars, netVars, rc, broker, delivered, unsent>>

\* Mutant: the newest entry is removed instead of the delivered one.
dequeue_Newest(qe) == messageQueue' = Front(messageQueue)

\* ListRemove(m->c->messageQueue, qe)
dequeue(qe) ==
    \E i \in DOMAIN messageQueue :
        messageQueue[i] = qe /\ messageQueue' = RemoveAt(messageQueue, i)

\* messageArrived returned: on 1 the entry that was delivered is removed.
MessageArrivedReturns ==
    /\ run.pc = "callback"
    /\ run' = [pc |-> "select", qe |-> 0]
    /\ \/ /\ 1 \in CallbackResults
          /\ dequeue(run.qe)
          /\ delivered' = Append(delivered, run.qe)
       \/ /\ 0 \in CallbackResults
          /\ UNCHANGED <<messageQueue, delivered>>
    /\ UNCHANGED <<msgID, outboundMsgs, inboundMsgs, refcount, outboundQueue,
                   netVars, rc, broker, unsent>>

-----------------------------------------------------------------------------
(* Environment: the broker and the connection                              *)

\* The broker reads a packet: it answers PUBLISH and SUBSCRIBE and forgets
\* what is acknowledged.
BrokerReceive ==
    /\ up /\ toBroker # <<>>
    /\ LET pkt == Head(toBroker)
           answer == [type |-> IF pkt.qos = 1 THEN "PUBACK" ELSE "PUBREC",
                      msgid |-> pkt.msgid, qos |-> 0, payload |-> 0]
       IN  \/ /\ pkt.type = "PUBLISH"
              /\ fromBroker' = Append(fromBroker, answer)
              /\ UNCHANGED broker
           \/ /\ pkt.type = "SUBSCRIBE"
              /\ fromBroker' = Append(fromBroker, Suback)
              /\ UNCHANGED broker
           \/ /\ pkt.type = "PUBACK"
              /\ broker' = [broker EXCEPT !.awaiting = @ \ {pkt.msgid}]
              /\ UNCHANGED fromBroker
    /\ toBroker' = Tail(toBroker)
    /\ UNCHANGED <<clientVars, run, rc, up, partial, pendingWrite, delivered,
                   unsent>>

\* The broker publishes.  An identifier is in use until it is acknowledged,
\* but a QoS 2 message that got no PUBREC may be sent again.
BrokerPublish ==
    /\ up /\ broker.sent < MaxIn
    /\ \E qos \in InQoS, id \in InIds :
        LET n == broker.sent + 1
        IN  /\ qos = 1 => id \notin broker.awaiting
            /\ fromBroker' = Append(fromBroker,
                    [type |-> "PUBLISH", msgid |-> IF qos = 0 THEN 0 ELSE id,
                     qos |-> qos, payload |-> n])
            /\ broker' = [sent |-> n,
                          low |-> IF qos < 2 THEN Append(broker.low, n)
                                  ELSE broker.low,
                          awaiting |-> IF qos = 1
                                       THEN broker.awaiting \cup {id}
                                       ELSE broker.awaiting]
    /\ UNCHANGED <<clientVars, run, rc, up, toBroker, partial, pendingWrite,
                   delivered, unsent>>

\* The peer closes: what it had sent stays readable, or is discarded by a
\* reset; what it had not read is lost.
LoseConnection ==
    /\ MayLoseConnection /\ up
    /\ up' = FALSE
    /\ toBroker' = <<>>
    /\ fromBroker' \in {fromBroker, <<>>}
    /\ UNCHANGED <<clientVars, run, rc, partial, pendingWrite, broker,
                   delivered, unsent>>

-----------------------------------------------------------------------------

App == PublishQoS0 \/ PublishNoId \/ Publish \/ Subscribe

Cycle == \/ CycleInterrupted \/ CycleError
         \/ HandlePublish0 \/ HandlePublish1 \/ HandlePublish2
         \/ HandlePuback \/ IgnorePubrec \/ IgnoreSuback

Dispatch == DispatchNothing \/ CallMessageArrived

RunThread == \/ ContinueWriteDone \/ ContinueWriteError \/ ReadySocket
             \/ Cycle \/ Dispatch \/ MessageArrivedReturns

Next == App \/ RunThread \/ BrokerReceive \/ BrokerPublish \/ LoseConnection

Spec == Init /\ [][Next]_vars

\* The run thread is never stopped and its waits are bounded (select has a
\* timeout, messageArrived returns); the broker answers what it reads.
Fairness == WF_vars(RunThread) /\ WF_vars(BrokerReceive)

FairSpec == Spec /\ Fairness

-----------------------------------------------------------------------------
(* Properties                                                              *)

\* The variables hold the values the C structures can hold.
TypeOK ==
    /\ msgID \in 0..MAX_MSG_ID
    /\ outboundMsgs \in SUBSET OutMsg
    /\ inboundMsgs \in SUBSET InMsg
    /\ refcount \in [Pubs -> {0, 1}]
    /\ messageQueue \in Seq(1..MaxIn)
    /\ outboundQueue \in Seq(AckRequest)
    /\ pendingWrite \in SUBSET Write
    /\ run \in [pc : {"select", "read", "dispatch", "callback"}, qe : 0..MaxIn]
    /\ rc \in RcValues
    /\ up \in BOOLEAN /\ partial \in BOOLEAN
    /\ toBroker \in Seq(Packet)
    /\ fromBroker \in Seq(InPacket)
    /\ broker \in [sent : 0..MaxIn, low : Seq(1..MaxIn), awaiting : SUBSET InIds]
    /\ delivered \in Seq(1..MaxIn)
    /\ unsent \in SUBSET Pubs

\* No two messages in flight have the same identifier, so the lookup by
\* identifier in handlePubacks (MQTTProtocol.c:263) cannot pick the wrong one,
\* however publishes of several threads and acknowledgements interleave.
InFlightIdsUnique ==
    \A m1, m2 \in outboundMsgs : m1.msgid = m2.msgid => m1 = m2

\* assignMsgId starts from 0 only while nothing is in flight.  Its loop ends
\* when the search is back at the start, and it is never back at 0: with
\* start 0 and no free identifier it would spin holding mqttclient_mutex.
SearchTerminates == msgID = 0 => outboundMsgs = {}

\* state.publications holds exactly the publications the message lists refer
\* to, each referred to once: removePublication frees every one of them, and
\* none twice (MQTTProtocol.c:172-180), over any history of publishes,
\* acknowledgements and replaced QoS 2 messages.
PublicationsExact ==
    /\ \A p \in Pubs :
        refcount[p] = 1 <=> \E m \in outboundMsgs \cup inboundMsgs : m.publish = p
    /\ \A m1 \in outboundMsgs, m2 \in inboundMsgs : m1.publish # m2.publish
    /\ \A m1, m2 \in outboundMsgs : m1.publish = m2.publish => m1 = m2
    /\ \A m1, m2 \in inboundMsgs : m1.publish = m2.publish => m1 = m2

\* The topic and payload a partial write still has to send are not freed:
\* its iovecs point into a publication (MQTTProtocol.c:93-95), which only an
\* acknowledgement frees, and the broker has not seen the packet yet.
PendingWriteBuffersLive ==
    \A w \in pendingWrite : \A p \in w.refs : refcount[p] = 1

\* How often the acknowledgement of identifier id is still to come: the packet
\* is being written, on its way, or its PUBACK is on its way back.
AcksToCome(id) ==
    Cardinality({w \in pendingWrite :
                    w.pkt.type = "PUBLISH" /\ w.pkt.qos = 1 /\ w.pkt.msgid = id})
  + Cardinality({i \in DOMAIN toBroker :
                    /\ toBroker[i].type = "PUBLISH" /\ toBroker[i].qos = 1
                    /\ toBroker[i].msgid = id})
  + Cardinality({i \in DOMAIN fromBroker :
                    fromBroker[i].type = "PUBACK" /\ fromBroker[i].msgid = id})

\* Exactly one acknowledgement is to come for each QoS 1 message in flight
\* whose publish5 did not fail, and none for any other identifier: while the
\* connection is up, deliveryComplete is called once for each message.
AckAccounting ==
    up => \A id \in MsgIds :
        AcksToCome(id) =
            Cardinality({m \in outboundMsgs :
                            m.msgid = id /\ m.qos = 1 /\ m.publish \notin unsent})

\* How often the broker's QoS 1 message id is still to be acknowledged: not
\* read yet, or its PUBACK put aside, being written, or on its way.
PubacksOwed(id) ==
    Cardinality({i \in DOMAIN fromBroker :
                    /\ fromBroker[i].type = "PUBLISH" /\ fromBroker[i].qos = 1
                    /\ fromBroker[i].msgid = id})
  + Cardinality({i \in DOMAIN outboundQueue :
                    /\ outboundQueue[i].ackType = "PUBACK"
                    /\ outboundQueue[i].msgid = id})
  + Cardinality({w \in pendingWrite :
                    w.pkt.type = "PUBACK" /\ w.pkt.msgid = id})
  + Cardinality({i \in DOMAIN toBroker :
                    toBroker[i].type = "PUBACK" /\ toBroker[i].msgid = id})

\* Every QoS 1 message the broker waits for is acknowledged at most once and
\* its acknowledgement is never dropped: it is in exactly one place
\* (MQTTProtocol.c:203-206), whatever write was pending when it arrived.
InboundAckAccounting ==
    up => \A id \in InIds :
        PubacksOwed(id) = IF id \in broker.awaiting THEN 1 ELSE 0

\* messageArrived gets the QoS 0 and 1 messages in the order the broker sent
\* them, none skipped and none twice, although the entry being delivered stays
\* on the queue while the mutex is released (MQTTClient.c:209-217).
DeliveredInOrder == IsPrefix(delivered \o messageQueue, broker.low)

\* A message leaves outboundMsgs only in the step that reads its PUBACK, and
\* no other message changes in that step (MQTTProtocol.c:262-274).
OnlyItsPubackRemoves ==
    [][\A m \in outboundMsgs \ outboundMsgs' :
          /\ m.qos = 1 /\ fromBroker # <<>>
          /\ Head(fromBroker).type = "PUBACK" /\ Head(fromBroker).msgid = m.msgid
          /\ outboundMsgs' = outboundMsgs \ {m}]_vars

\* Under fairness every queued message reaches messageArrived when the
\* callback accepts messages: one delivery per cycle is enough.
EveryQueuedMessageDelivered ==
    \A n \in 1..MaxIn :
        (\E i \in DOMAIN messageQueue : messageQueue[i] = n)
            ~> (\E i \in DOMAIN delivered : delivered[i] = n)

\* Under fairness every QoS 1 message whose publish5 did not fail is
\* acknowledged and freed, or the connection is lost.
EveryPublishAcknowledged ==
    \A p \in Pubs :
        (\E m \in outboundMsgs : m.publish = p /\ m.qos = 1 /\ p \notin unsent)
            ~> (~up \/ ~\E m \in outboundMsgs : m.publish = p)

-----------------------------------------------------------------------------
(* What a comment of the repository says and the code does not do          *)

\* MQTTProtocol.c:42: assignMsgId gives up only when no identifier is free.
NoneFreeWhenRefused ==
    [][rc' = "MAX_MESSAGES_INFLIGHT" => InFlight = MsgIds]_rc
=============================================================================
