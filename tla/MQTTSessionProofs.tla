------------------------- MODULE MQTTSessionProofs -------------------------
(***************************************************************************)
(* Machine-checked proofs about MQTTSession, for every value of its        *)
(* constants: identifiers and publications, the order of delivery, what    *)
(* takes a message out of flight, and the acknowledgements in both         *)
(* directions and the buffers of a pending write.                          *)
(***************************************************************************)
EXTENDS MQTTSession, SequenceLemmas, FiniteSetTheorems

(* Removing an element from a sequence leaves a sequence.                  *)
LEMMA RemoveAtType ==
    ASSUME NEW S, NEW s \in Seq(S), NEW i \in DOMAIN s
    PROVE  s[i] \in S /\ RemoveAt(s, i) \in Seq(S)
<1>1. i \in 1..Len(s) /\ Len(s) \in Nat
  BY LenProperties
<1>2. \A j \in 1..Len(s) : s[j] \in S
  BY ElementOfSeq
<1>3. SubSeq(s, 1, i - 1) \in Seq(S)
  BY <1>1, <1>2, SubSeqProperties
<1>4. SubSeq(s, i + 1, Len(s)) \in Seq(S)
  BY <1>1, <1>2, SubSeqProperties
<1> QED
  BY <1>1, <1>2, <1>3, <1>4, ConcatProperties DEF RemoveAt

(* assignMsgId (MQTTProtocol.c:36-50) returns 0 or an identifier in range  *)
(* that no message in flight has.                                          *)
LEMMA AssignMsgIdFresh ==
    ASSUME NEW start \in 0..MAX_MSG_ID, NEW used,
           assignMsgId(start, used) # 0
    PROVE  /\ assignMsgId(start, used) \in MsgIds
           /\ assignMsgId(start, used) \notin used
<1> DEFINE F == FreeSteps(start, used)
<1>1. F # {}
  BY DEF assignMsgId
<1>2. F \in SUBSET Nat
  BY MaxMsgIdAssumption DEF FreeSteps
<1>3. Min(F) \in F
  BY <1>1, <1>2, MinOfNats
<1>4. /\ Min(F) \in 1..(MAX_MSG_ID - 1)
      /\ Candidate(start, Min(F)) \notin used
  BY <1>3 DEF FreeSteps
<1>5. Candidate(start, Min(F)) \in MsgIds
  BY <1>4, MaxMsgIdAssumption DEF Candidate, MsgIds
<1> QED
  BY <1>1, <1>4, <1>5 DEF assignMsgId

-----------------------------------------------------------------------------
(* The inductive invariant.  TypeOK is not inductive alone: that a count   *)
(* never goes below 0 needs PublicationsExact, and that an identifier is   *)
(* fresh when it is stored is InFlightIdsUnique's own induction step.      *)
IInv == /\ TypeOK
        /\ InFlightIdsUnique
        /\ SearchTerminates
        /\ PublicationsExact

(* A client that was just created (createWithOptions) satisfies IInv.      *)
LEMMA InitIInv == Init => IInv
<1> SUFFICES ASSUME Init PROVE IInv
  OBVIOUS
<1>1. TypeOK
  <2>1. /\ msgID \in 0..MAX_MSG_ID
        /\ outboundMsgs \in SUBSET OutMsg /\ inboundMsgs \in SUBSET InMsg
        /\ refcount \in [Pubs -> {0, 1}]
        /\ pendingWrite \in SUBSET Write
        /\ unsent \in SUBSET Pubs /\ rc \in RcValues
    BY MaxMsgIdAssumption DEF Init, RcValues
  <2>2. /\ messageQueue \in Seq(1..MaxIn) /\ delivered \in Seq(1..MaxIn)
        /\ outboundQueue \in Seq(AckRequest)
        /\ toBroker \in Seq(Packet) /\ fromBroker \in Seq(InPacket)
    BY DEF Init
  <2>3. /\ run \in [pc : {"select", "read", "dispatch", "callback"}, qe : 0..MaxIn]
        /\ broker \in [sent : 0..MaxIn, low : Seq(1..MaxIn), awaiting : SUBSET InIds]
    BY MaxInAssumption DEF Init
  <2>4. up \in BOOLEAN /\ partial \in BOOLEAN
    BY DEF Init
  <2> QED
    BY <2>1, <2>2, <2>3, <2>4 DEF TypeOK
<1>2. InFlightIdsUnique /\ SearchTerminates
  BY DEF Init, InFlightIdsUnique, SearchTerminates
<1>3. PublicationsExact
  BY DEF Init, PublicationsExact
<1> QED
  BY <1>1, <1>2, <1>3 DEF IInv

(* What a write to the socket does to the types of the socket's state.     *)
LEMMA PutdatasType ==
    ASSUME TypeOK, NEW w \in Write, NEW result, putdatas(w, result)
    PROVE  pendingWrite' \in SUBSET Write /\ toBroker' \in Seq(Packet)
<1>1. w.pkt \in Packet
  BY DEF Write
<1>2. toBroker \in Seq(Packet) /\ pendingWrite \in SUBSET Write
  BY DEF TypeOK
<1> QED
  BY <1>1, <1>2 DEF putdatas, sendPacket

(* MQTTClient_publish5 with QoS above 0 keeps IInv: the identifier is fresh *)
(* and the publication is a new heap cell.                                 *)
LEMMA PublishType ==
    ASSUME IInv, NEW qos \in OutQoS \ {0}, NEW p \in FreeCells,
           NEW result \in {"COMPLETE", "INTERRUPTED", "SOCKET_ERROR"},
           startPublish(qos, p, result)
    PROVE  IInv'
<1> DEFINE id == assignMsgId(msgID, InFlight)
           m  == [msgid |-> id, qos |-> qos, publish |-> p]
           w  == [pkt  |-> [type |-> "PUBLISH", msgid |-> id, qos |-> qos],
                  refs |-> {p}]
<1>1. /\ id \in MsgIds /\ id \notin InFlight /\ id # 0
  BY AssignMsgIdFresh DEF startPublish, IInv, TypeOK
<1>2. p \in Pubs /\ refcount[p] = 0 /\ qos \in {1, 2}
  BY QoSAssumption DEF FreeCells
<1>3. m \in OutMsg /\ w \in Write
  BY <1>1, <1>2 DEF OutMsg, Write, Packet
<1>4. /\ msgID' = id
      /\ refcount' = [refcount EXCEPT ![p] = 1]
      /\ outboundMsgs' = outboundMsgs \cup {m}
      /\ putdatas(w, result)
      /\ rc' = result
      /\ unsent' = IF result = "SOCKET_ERROR" THEN unsent \cup {p} ELSE unsent
      /\ UNCHANGED <<inboundMsgs, messageQueue, outboundQueue, run, up,
                     fromBroker, partial, broker, delivered>>
  BY <1>1 DEF startPublish, saveMsgId, storePublication
<1> HIDE DEF id, m, w
<1>5. TypeOK'
  <2>1. pendingWrite' \in SUBSET Write /\ toBroker' \in Seq(Packet)
    BY <1>3, <1>4, PutdatasType DEF IInv
  <2> QED
    BY <1>1, <1>2, <1>3, <1>4, <2>1 DEF IInv, TypeOK, MsgIds, RcValues
<1>6. InFlightIdsUnique'
  BY <1>1, <1>4 DEF IInv, InFlightIdsUnique, InFlight, m
<1>7. SearchTerminates'
  BY <1>1, <1>4 DEF SearchTerminates
<1>8. PublicationsExact'
  <2>1. \A x \in outboundMsgs \cup inboundMsgs : x.publish # p
    BY <1>2 DEF IInv, PublicationsExact
  <2>2. m.publish = p
    BY DEF m
  <2>3. refcount \in [Pubs -> {0, 1}]
    BY DEF IInv, TypeOK
  <2> QED
    BY <1>2, <1>4, <2>1, <2>2, <2>3 DEF IInv, PublicationsExact
<1> QED
  BY <1>5, <1>6, <1>7, <1>8 DEF IInv

(* A step that leaves the message lists alone keeps everything but TypeOK. *)
LEMMA ListsUnchanged ==
    ASSUME IInv, TypeOK',
           UNCHANGED <<msgID, outboundMsgs, inboundMsgs, refcount>>
    PROVE  IInv'
BY DEF IInv, InFlightIdsUnique, SearchTerminates, PublicationsExact

(* Every outcome of MQTTClient_publish5 and of subscribing keeps IInv.     *)
LEMMA AppStep == ASSUME IInv, App PROVE IInv'
<1>1. CASE PublishQoS0
  <2>1. TypeOK'
    BY <1>1 DEF PublishQoS0, IInv, TypeOK, clientVars, netVars, RcValues
  <2> QED
    BY <1>1, <2>1, ListsUnchanged DEF PublishQoS0, clientVars
<1>2. CASE PublishNoId
  <2>1. msgID' = msgID
    BY <1>2 DEF PublishNoId, saveMsgId
  <2>2. TypeOK'
    BY <1>2, <2>1 DEF PublishNoId, IInv, TypeOK, netVars, RcValues
  <2> QED
    BY <1>2, <2>1, <2>2, ListsUnchanged DEF PublishNoId
<1>3. CASE Publish
  BY <1>3, PublishType DEF Publish
<1>4. CASE Subscribe
  <2> DEFINE w == [pkt |-> SubscribePacket, refs |-> {}]
  <2>1. w \in Write
    BY DEF Write, Packet
  <2>2. \E result : putdatas(w, result)
    BY <1>4 DEF Subscribe, send_subscribe
  <2> HIDE DEF w
  <2>3. pendingWrite' \in SUBSET Write /\ toBroker' \in Seq(Packet)
    BY <2>1, <2>2, PutdatasType DEF IInv
  <2>4. TypeOK'
    BY <1>4, <2>3 DEF Subscribe, IInv, TypeOK, clientVars
  <2> QED
    BY <1>4, <2>4, ListsUnchanged DEF Subscribe, clientVars
<1> QED
  BY <1>1, <1>2, <1>3, <1>4 DEF App

(* Socket_getReadySocket, continued writes included, keeps IInv.           *)
LEMMA SelectStep ==
    ASSUME IInv, ContinueWriteDone \/ ContinueWriteError \/ ReadySocket
    PROVE  IInv'
<1>1. CASE ContinueWriteDone
  <2>1. PICK w \in pendingWrite : /\ sendPacket(w.pkt)
                                  /\ pendingWrite' = pendingWrite \ {w}
    BY <1>1 DEF ContinueWriteDone
  <2>2. w.pkt \in Packet
    BY DEF IInv, TypeOK, Write
  <2>3. TypeOK'
    BY <1>1, <2>1, <2>2 DEF ContinueWriteDone, sendPacket, IInv, TypeOK, clientVars
  <2> QED
    BY <1>1, <2>3, ListsUnchanged DEF ContinueWriteDone, clientVars
<1>2. CASE ContinueWriteError
  <2>1. TypeOK'
    BY <1>2 DEF ContinueWriteError, IInv, TypeOK, clientVars
  <2> QED
    BY <1>2, <2>1, ListsUnchanged DEF ContinueWriteError, clientVars
<1>3. CASE ReadySocket
  <2>1. TypeOK'
    BY <1>3 DEF ReadySocket, IInv, TypeOK, clientVars, netVars
  <2> QED
    BY <1>3, <2>1, ListsUnchanged DEF ReadySocket, clientVars
<1> QED
  BY <1>1, <1>2, <1>3

(* What every handler of a received packet does to the socket.             *)
LEMMA ReceivedType ==
    ASSUME TypeOK, NEW type, Received(type)
    PROVE  /\ fromBroker # <<>> /\ Head(fromBroker) \in InPacket
           /\ Head(fromBroker).type = type
           /\ fromBroker' \in Seq(InPacket)
           /\ partial' \in BOOLEAN
           /\ run' \in [pc : {"select", "read", "dispatch", "callback"},
                        qe : 0..MaxIn]
<1>1. /\ fromBroker \in Seq(InPacket) /\ fromBroker # <<>>
      /\ Head(fromBroker).type = type /\ fromBroker' = Tail(fromBroker)
  BY DEF TypeOK, Received
<1>2. Head(fromBroker) \in InPacket /\ Tail(fromBroker) \in Seq(InPacket)
  BY <1>1
<1>3. partial' \in BOOLEAN
  BY DEF Received
<1>4. run' \in [pc : {"select", "read", "dispatch", "callback"}, qe : 0..MaxIn]
  BY DEF TypeOK, Received
<1> QED
  BY <1>1, <1>2, <1>3, <1>4

(* What a PUBLISH that was read looks like.                                *)
LEMMA PublishFields ==
    ASSUME NEW q \in InPacket, q.type = "PUBLISH"
    PROVE  /\ q.payload \in 1..MaxIn
           /\ q.qos \in {1, 2} => q.msgid \in InIds
BY DEF InPacket, InPublish0, InPublish, InAck, Suback

(* Reading a QoS 0 PUBLISH keeps IInv: it only touches the message queue.  *)
LEMMA HandlePublish0Step == ASSUME IInv, HandlePublish0 PROVE IInv'
<1>1. Received("PUBLISH") /\ TypeOK
  BY DEF HandlePublish0, IInv
<1>2. Head(fromBroker).payload \in 1..MaxIn
  BY <1>1, ReceivedType, PublishFields
<1>3. messageQueue' \in Seq(1..MaxIn)
  BY <1>1, <1>2 DEF HandlePublish0, processPublication, TypeOK
<1>4. TypeOK'
  BY <1>1, <1>3, ReceivedType DEF HandlePublish0, TypeOK
<1> QED
  BY <1>4, ListsUnchanged DEF HandlePublish0

(* Reading a QoS 1 PUBLISH and acknowledging it keeps IInv.                *)
LEMMA HandlePublish1Step == ASSUME IInv, HandlePublish1 PROVE IInv'
<1> DEFINE publish == Head(fromBroker)
           ack == [pkt  |-> [type |-> "PUBACK", msgid |-> publish.msgid,
                             qos |-> 0],
                   refs |-> {}]
<1>1. Received("PUBLISH") /\ TypeOK
  BY DEF HandlePublish1, IInv
<1>2. publish.payload \in 1..MaxIn /\ publish.msgid \in InIds
  BY <1>1, ReceivedType, PublishFields DEF HandlePublish1
<1>3. ack \in Write
  <2>1. publish.msgid \in MsgIds
    BY <1>2, InIdsAssumption DEF MsgIds
  <2>2. [type |-> "PUBACK", msgid |-> publish.msgid, qos |-> 0] \in Packet
    BY <2>1 DEF Packet
  <2> QED
    BY <2>2 DEF Write
<1>4. messageQueue' \in Seq(1..MaxIn)
  BY <1>1, <1>2 DEF HandlePublish1, processPublication, TypeOK
<1>5. /\ outboundQueue' \in Seq(AckRequest)
      /\ pendingWrite' \in SUBSET Write /\ toBroker' \in Seq(Packet)
  <2>1. CASE pendingWrite # {}
    <3>1. /\ outboundQueue' = Append(outboundQueue,
                            [ackType |-> "PUBACK", msgid |-> publish.msgid])
          /\ UNCHANGED <<pendingWrite, toBroker>>
      BY <2>1 DEF HandlePublish1, queueAck
    <3>2. [ackType |-> "PUBACK", msgid |-> publish.msgid] \in AckRequest
      BY <1>2 DEF AckRequest
    <3> QED
      BY <1>1, <3>1, <3>2 DEF TypeOK
  <2>2. CASE pendingWrite = {}
    <3>1. /\ UNCHANGED outboundQueue
          /\ \E result : putdatas(ack, result)
      BY <2>2 DEF HandlePublish1, send_puback
    <3>2. PICK result : putdatas(ack, result)
      BY <3>1
    <3> HIDE DEF ack
    <3> QED
      BY <1>1, <1>3, <3>1, <3>2, PutdatasType DEF TypeOK
  <2> QED
    BY <2>1, <2>2
<1>6. TypeOK'
  BY <1>1, <1>4, <1>5, ReceivedType DEF HandlePublish1, TypeOK
<1> QED
  BY <1>6, ListsUnchanged DEF HandlePublish1

(* Reading a QoS 2 PUBLISH keeps IInv: the replaced message's publication  *)
(* is released in the same step (MQTTProtocol.c:226-234).                  *)
LEMMA HandlePublish2Step == ASSUME IInv, HandlePublish2 PROVE IInv'
<1> DEFINE publish == Head(fromBroker)
           old == {m \in inboundMsgs : m.msgid = publish.msgid}
<1>1. Received("PUBLISH") /\ TypeOK
  BY DEF HandlePublish2, IInv
<1>2. publish.msgid \in InIds
  BY <1>1, ReceivedType, PublishFields DEF HandlePublish2
<1>3. PICK p \in FreeCells :
        /\ inboundMsgs' = (inboundMsgs \ old)
                            \cup {[msgid |-> publish.msgid, publish |-> p]}
        /\ replacePublication(p, old)
  BY DEF HandlePublish2
<1> DEFINE new == [msgid |-> publish.msgid, publish |-> p]
<1>4. /\ p \in Pubs /\ refcount[p] = 0
      /\ new \in InMsg /\ new.publish = p /\ new.msgid = publish.msgid
  BY <1>2, <1>3 DEF FreeCells, InMsg
<1>5. /\ refcount \in [Pubs -> {0, 1}]
      /\ outboundMsgs \in SUBSET OutMsg /\ inboundMsgs \in SUBSET InMsg
      /\ PublicationsExact
  BY DEF IInv, TypeOK
<1>6. \A m \in old : refcount[m.publish] = 1 /\ m.publish \in Pubs
  BY <1>5 DEF PublicationsExact, InMsg
<1>7. \A q \in Pubs :
        refcount'[q] = IF q = p THEN 1
                       ELSE IF \E m \in old : m.publish = q THEN 0
                            ELSE refcount[q]
  BY <1>3, <1>6 DEF replacePublication
<1>8. refcount' \in [Pubs -> {0, 1}]
  <2>1. refcount' = [q \in Pubs |-> refcount'[q]]
    BY <1>3 DEF replacePublication
  <2>2. \A q \in Pubs : refcount'[q] \in {0, 1}
    BY <1>5, <1>7
  <2> QED
    BY <2>1, <2>2
<1>9. outboundQueue' \in Seq(AckRequest)
  <2>1. [ackType |-> "PUBREC", msgid |-> publish.msgid] \in AckRequest
    BY <1>2 DEF AckRequest
  <2>2. outboundQueue \in Seq(AckRequest)
    BY <1>1 DEF TypeOK
  <2>3. \/ outboundQueue' = Append(outboundQueue,
                        [ackType |-> "PUBREC", msgid |-> publish.msgid])
        \/ outboundQueue' = outboundQueue
    BY DEF HandlePublish2, queueAck
  <2> QED
    BY <2>1, <2>2, <2>3
<1>10. inboundMsgs' \in SUBSET InMsg
  BY <1>3, <1>4, <1>5
<1>11. UNCHANGED <<msgID, outboundMsgs, messageQueue, pendingWrite, rc, up,
                   toBroker, broker, delivered, unsent>>
  BY DEF HandlePublish2
<1>12. TypeOK'
  BY <1>1, <1>8, <1>9, <1>10, <1>11, ReceivedType DEF TypeOK
<1>13. InFlightIdsUnique' /\ SearchTerminates'
  BY <1>11 DEF IInv, InFlightIdsUnique, SearchTerminates
<1>14. PublicationsExact'
  <2>0. \A m \in outboundMsgs \cup inboundMsgs : m.publish # p
    BY <1>4, <1>5 DEF PublicationsExact
  <2> HIDE DEF old, new
  <2>1. inboundMsgs' = (inboundMsgs \ old) \cup {new} /\ old \subseteq inboundMsgs
    BY <1>3 DEF old, new
  <2>2. \A q \in Pubs :
          refcount'[q] = 1 <=>
            \E m \in outboundMsgs \cup inboundMsgs' : m.publish = q
    <3> SUFFICES ASSUME NEW q \in Pubs
                 PROVE  refcount'[q] = 1 <=>
                          \E m \in outboundMsgs \cup inboundMsgs' : m.publish = q
      OBVIOUS
    <3>1. CASE q = p
      BY <1>4, <1>7, <2>1, <3>1
    <3>2. CASE q # p /\ \E m \in old : m.publish = q
      <4>1. refcount'[q] = 0
        BY <1>7, <3>2
      <4>2. \A m \in outboundMsgs \cup inboundMsgs' : m.publish # q
        BY <1>4, <1>5, <2>1, <3>2 DEF PublicationsExact
      <4> QED
        BY <4>1, <4>2
    <3>3. CASE q # p /\ ~\E m \in old : m.publish = q
      <4>1. refcount'[q] = refcount[q]
        BY <1>7, <3>3
      <4> QED
        BY <1>4, <1>5, <2>1, <3>3, <4>1 DEF PublicationsExact
    <3> QED
      BY <3>1, <3>2, <3>3
  <2>3. \A m1 \in outboundMsgs, m2 \in inboundMsgs' : m1.publish # m2.publish
    BY <1>4, <1>5, <2>0, <2>1 DEF PublicationsExact
  <2>4. \A m1, m2 \in inboundMsgs' : m1.publish = m2.publish => m1 = m2
    BY <1>4, <1>5, <2>0, <2>1 DEF PublicationsExact
  <2> QED
    BY <1>5, <1>11, <2>2, <2>3, <2>4 DEF PublicationsExact
<1> QED
  BY <1>12, <1>13, <1>14 DEF IInv

(* Reading a PUBACK keeps IInv: the message and its publication go together *)
(* (MQTTProtocol.c:262-274).                                               *)
LEMMA HandlePubackStep == ASSUME IInv, HandlePuback PROVE IInv'
<1>1. Received("PUBACK") /\ TypeOK
  BY DEF HandlePuback, IInv
<1>2. UNCHANGED <<msgID, inboundMsgs, messageQueue, outboundQueue,
                  pendingWrite, rc, up, toBroker, broker, delivered, unsent>>
  BY DEF HandlePuback
<1>3. CASE UNCHANGED <<outboundMsgs, refcount>>
  <2>1. TypeOK'
    BY <1>1, <1>2, <1>3, ReceivedType DEF TypeOK
  <2> QED
    BY <1>2, <1>3, <2>1, ListsUnchanged
<1>4. CASE \E m \in outboundMsgs : /\ removePublication(m.publish)
                                  /\ outboundMsgs' = outboundMsgs \ {m}
  <2>1. PICK m \in outboundMsgs : /\ removePublication(m.publish)
                                  /\ outboundMsgs' = outboundMsgs \ {m}
    BY <1>4
  <2>2. /\ refcount \in [Pubs -> {0, 1}]
        /\ outboundMsgs \in SUBSET OutMsg
        /\ PublicationsExact
    BY DEF IInv, TypeOK
  <2>3. m.publish \in Pubs /\ refcount[m.publish] = 1
    BY <2>2 DEF PublicationsExact, OutMsg
  <2>4. refcount' = [refcount EXCEPT ![m.publish] = 0]
    BY <2>1, <2>2, <2>3 DEF removePublication
  <2>5. TypeOK'
    BY <1>1, <1>2, <2>1, <2>2, <2>3, <2>4, ReceivedType DEF TypeOK
  <2>6. InFlightIdsUnique' /\ SearchTerminates'
    BY <1>2, <2>1 DEF IInv, InFlightIdsUnique, SearchTerminates
  <2>7. PublicationsExact'
    BY <1>2, <2>1, <2>2, <2>3, <2>4 DEF PublicationsExact
  <2> QED
    BY <2>5, <2>6, <2>7 DEF IInv
<1> QED
  BY <1>3, <1>4 DEF HandlePuback, findMessage

(* Every step of MQTTClient_cycle keeps IInv.                              *)
LEMMA CycleStep == ASSUME IInv, Cycle PROVE IInv'
<1>1. CASE CycleInterrupted
  <2>1. TypeOK'
    BY <1>1 DEF CycleInterrupted, IInv, TypeOK, clientVars
  <2> QED
    BY <1>1, <2>1, ListsUnchanged DEF CycleInterrupted, clientVars
<1>2. CASE CycleError
  <2>1. TypeOK'
    BY <1>2 DEF CycleError, IInv, TypeOK, clientVars, netVars
  <2> QED
    BY <1>2, <2>1, ListsUnchanged DEF CycleError, clientVars
<1>3. CASE IgnorePubrec
  <2>1. Received("PUBREC") /\ TypeOK
    BY <1>3 DEF IgnorePubrec, IInv
  <2>2. TypeOK'
    BY <1>3, <2>1, ReceivedType DEF IgnorePubrec, TypeOK, clientVars
  <2> QED
    BY <1>3, <2>2, ListsUnchanged DEF IgnorePubrec, clientVars
<1>4. CASE IgnoreSuback
  <2>1. Received("SUBACK") /\ TypeOK
    BY <1>4 DEF IgnoreSuback, IInv
  <2>2. TypeOK'
    BY <1>4, <2>1, ReceivedType DEF IgnoreSuback, TypeOK, clientVars
  <2> QED
    BY <1>4, <2>2, ListsUnchanged DEF IgnoreSuback, clientVars
<1> QED
  BY <1>1, <1>2, <1>3, <1>4, HandlePublish0Step, HandlePublish1Step,
     HandlePublish2Step, HandlePubackStep DEF Cycle

(* Delivering a message, and messageArrived's return, keep IInv.           *)
LEMMA DispatchStep ==
    ASSUME IInv, Dispatch \/ MessageArrivedReturns PROVE IInv'
<1>1. CASE DispatchNothing
  <2>1. TypeOK'
    BY <1>1 DEF DispatchNothing, IInv, TypeOK, clientVars, netVars
  <2> QED
    BY <1>1, <2>1, ListsUnchanged DEF DispatchNothing, clientVars
<1>2. CASE CallMessageArrived
  <2>1. messageQueue \in Seq(1..MaxIn) /\ messageQueue # <<>>
    BY <1>2 DEF CallMessageArrived, IInv, TypeOK
  <2>2. Head(messageQueue) \in 0..MaxIn
    BY <2>1, MaxInAssumption
  <2>3. TypeOK'
    BY <1>2, <2>2 DEF CallMessageArrived, IInv, TypeOK, clientVars, netVars
  <2> QED
    BY <1>2, <2>3, ListsUnchanged DEF CallMessageArrived, clientVars
<1>3. CASE MessageArrivedReturns
  <2>1. /\ messageQueue \in Seq(1..MaxIn) /\ delivered \in Seq(1..MaxIn)
    BY DEF IInv, TypeOK
  <2>2. messageQueue' \in Seq(1..MaxIn) /\ delivered' \in Seq(1..MaxIn)
    <3>1. CASE dequeue(run.qe) /\ delivered' = Append(delivered, run.qe)
      <4>1. PICK i \in DOMAIN messageQueue :
                /\ messageQueue[i] = run.qe
                /\ messageQueue' = RemoveAt(messageQueue, i)
        BY <3>1 DEF dequeue
      <4>2. /\ run.qe \in 1..MaxIn
            /\ RemoveAt(messageQueue, i) \in Seq(1..MaxIn)
        BY <2>1, <4>1, RemoveAtType
      <4> QED
        BY <2>1, <3>1, <4>1, <4>2
    <3>2. CASE UNCHANGED <<messageQueue, delivered>>
      BY <2>1, <3>2
    <3> QED
      BY <1>3, <3>1, <3>2 DEF MessageArrivedReturns
  <2>3. run' \in [pc : {"select", "read", "dispatch", "callback"}, qe : 0..MaxIn]
    BY <1>3, MaxInAssumption DEF MessageArrivedReturns
  <2>4. TypeOK'
    BY <1>3, <2>2, <2>3 DEF MessageArrivedReturns, IInv, TypeOK, netVars
  <2> QED
    BY <1>3, <2>4, ListsUnchanged DEF MessageArrivedReturns
<1> QED
  BY <1>1, <1>2, <1>3 DEF Dispatch

(* The broker and the loss of the connection keep IInv.                    *)
LEMMA EnvironmentStep ==
    ASSUME IInv, BrokerReceive \/ BrokerPublish \/ LoseConnection
    PROVE  IInv'
<1>0. /\ toBroker \in Seq(Packet) /\ fromBroker \in Seq(InPacket)
      /\ broker \in [sent : 0..MaxIn, low : Seq(1..MaxIn),
                      awaiting : SUBSET InIds]
  BY DEF IInv, TypeOK
<1>1. CASE BrokerReceive
  <2> DEFINE pkt == Head(toBroker)
             answer == [type |-> IF pkt.qos = 1 THEN "PUBACK" ELSE "PUBREC",
                        msgid |-> pkt.msgid, qos |-> 0, payload |-> 0]
  <2>1. toBroker # <<>> /\ toBroker' = Tail(toBroker)
    BY <1>1 DEF BrokerReceive
  <2>2. pkt \in Packet /\ toBroker' \in Seq(Packet)
    BY <1>0, <2>1
  <2>3. Suback \in InPacket /\ (pkt.type = "PUBLISH" => answer \in InPacket)
    BY <2>2 DEF Packet, SubscribePacket, InPacket, InAck
  <2>4. \/ /\ pkt.type = "PUBLISH"
           /\ fromBroker' = Append(fromBroker, answer) /\ UNCHANGED broker
        \/ fromBroker' = Append(fromBroker, Suback) /\ UNCHANGED broker
        \/ /\ broker' = [broker EXCEPT !.awaiting = @ \ {pkt.msgid}]
           /\ UNCHANGED fromBroker
    BY <1>1 DEF BrokerReceive
  <2> HIDE DEF answer, pkt
  <2>5. /\ fromBroker' \in Seq(InPacket)
        /\ broker' \in [sent : 0..MaxIn, low : Seq(1..MaxIn),
                         awaiting : SUBSET InIds]
    <3>1. CASE /\ pkt.type = "PUBLISH"
               /\ fromBroker' = Append(fromBroker, answer) /\ UNCHANGED broker
      BY <1>0, <2>3, <3>1
    <3>3. CASE fromBroker' = Append(fromBroker, Suback) /\ UNCHANGED broker
      BY <1>0, <2>3, <3>3
    <3>2. CASE /\ broker' = [broker EXCEPT !.awaiting = @ \ {pkt.msgid}]
               /\ UNCHANGED fromBroker
      BY <1>0, <3>2
    <3> QED
      BY <2>4, <3>1, <3>2, <3>3
  <2>6. TypeOK'
    BY <1>1, <2>2, <2>5 DEF BrokerReceive, IInv, TypeOK, clientVars
  <2> QED
    BY <1>1, <2>6, ListsUnchanged DEF BrokerReceive, clientVars
<1>2. CASE BrokerPublish
  <2> DEFINE n == broker.sent + 1
  <2>1. n \in 1..MaxIn
    BY <1>0, <1>2, MaxInAssumption DEF BrokerPublish
  <2>2. PICK qos \in InQoS, id \in InIds :
          /\ fromBroker' = Append(fromBroker,
                    [type |-> "PUBLISH", msgid |-> IF qos = 0 THEN 0 ELSE id,
                     qos |-> qos, payload |-> n])
          /\ broker' = [sent |-> n,
                        low |-> IF qos < 2 THEN Append(broker.low, n)
                                ELSE broker.low,
                        awaiting |-> IF qos = 1
                                     THEN broker.awaiting \cup {id}
                                     ELSE broker.awaiting]
    BY <1>2 DEF BrokerPublish
  <2> DEFINE q == [type |-> "PUBLISH", msgid |-> IF qos = 0 THEN 0 ELSE id,
                   qos |-> qos, payload |-> n]
  <2>3. q \in InPacket
    <3> HIDE DEF n
    <3>1. qos \in 0..2
      BY QoSAssumption
    <3>2. CASE qos = 0
      BY <2>1, <3>2 DEF InPacket, InPublish0
    <3>3. CASE qos \in {1, 2}
      BY <2>1, <3>3 DEF InPacket, InPublish
    <3> QED
      BY <3>1, <3>2, <3>3
  <2>4. fromBroker' \in Seq(InPacket)
    <3> HIDE DEF q
    <3>1. fromBroker' = Append(fromBroker, q)
      BY <2>2 DEF q
    <3> QED
      BY <1>0, <2>3, <3>1
  <2>5. broker' \in [sent : 0..MaxIn, low : Seq(1..MaxIn),
                     awaiting : SUBSET InIds]
    <3> HIDE DEF n
    <3>1. broker.low \in Seq(1..MaxIn) /\ broker.awaiting \in SUBSET InIds
      BY <1>0
    <3>2. Append(broker.low, n) \in Seq(1..MaxIn)
      BY <2>1, <3>1
    <3>3. n \in 0..MaxIn
      BY <2>1
    <3> QED
      BY <2>2, <3>1, <3>2, <3>3
  <2>6. TypeOK'
    BY <1>2, <2>4, <2>5 DEF BrokerPublish, IInv, TypeOK, clientVars
  <2> QED
    BY <1>2, <2>6, ListsUnchanged DEF BrokerPublish, clientVars
<1>3. CASE LoseConnection
  <2>0. /\ toBroker' \in Seq(Packet) /\ fromBroker' \in Seq(InPacket)
        /\ up' \in BOOLEAN
    <3>1. toBroker' = <<>> /\ up' = FALSE
      BY <1>3 DEF LoseConnection
    <3>2. fromBroker' = fromBroker \/ fromBroker' = <<>>
      BY <1>3 DEF LoseConnection
    <3> QED
      BY <1>0, <3>1, <3>2, EmptySeq
  <2>1. TypeOK'
    BY <1>3, <2>0 DEF LoseConnection, IInv, TypeOK, clientVars
  <2> QED
    BY <1>3, <2>1, ListsUnchanged DEF LoseConnection, clientVars
<1> QED
  BY <1>1, <1>2, <1>3

(* IInv is inductive: one case per group of actions.                       *)
LEMMA NextIInv == IInv /\ [Next]_vars => IInv'
<1> SUFFICES ASSUME IInv, [Next]_vars PROVE IInv'
  OBVIOUS
<1>1. CASE UNCHANGED vars
  <2>1. TypeOK'
    BY <1>1 DEF IInv, TypeOK, vars, clientVars, netVars
  <2> QED
    BY <1>1, <2>1, ListsUnchanged DEF vars, clientVars
<1> QED
  BY <1>1, AppStep, SelectStep, CycleStep, DispatchStep, EnvironmentStep
  DEF Next, RunThread

(* Every reachable state satisfies the inductive invariant.                *)
THEOREM InductiveInvariant == Spec => []IInv
BY InitIInv, NextIInv, PTL DEF Spec

(* The variables keep their types, whatever publishes, packets, deliveries *)
(* and connection losses interleave.                                       *)
THEOREM TypeCorrect == Spec => []TypeOK
BY InductiveInvariant, PTL DEF IInv

(* Identifiers in flight are unique for every MAX_MSG_ID >= 2, 65535       *)
(* included, and for any number of publishing threads.                     *)
THEOREM UniqueIds == Spec => []InFlightIdsUnique
BY InductiveInvariant, PTL DEF IInv

(* The identifier search never starts from 0 with messages in flight, so   *)
(* the loop of assignMsgId ends.                                           *)
THEOREM SearchEnds == Spec => []SearchTerminates
BY InductiveInvariant, PTL DEF IInv

(* No publication is leaked or freed twice.                                *)
THEOREM NoLeakNoDoubleFree == Spec => []PublicationsExact
BY InductiveInvariant, PTL DEF IInv

-----------------------------------------------------------------------------
(* Order and removal                                                       *)
(*                                                                         *)
(* messageArrived gets the messages in the order in which the broker sent  *)
(* them, and only a PUBACK takes a message out of flight.                  *)

(* The inductive invariant that the order needs, next to IInv.             *)

(* A message of QoS 0 or 1: the ones that are delivered.                   *)
Low(q) == q.type = "PUBLISH" /\ q.qos \in {0, 1}

(* What messageArrived has accepted or is to get from the queue.           *)
Got == delivered \o messageQueue

Increasing(s) == \A i, j \in 1..Len(s) : i < j => s[i] < s[j]

StartsWith(s, g) == Len(g) <= Len(s) /\ \A i \in 1..Len(g) : g[i] = s[i]

(* The unread packets f hold messages of s after the first n only, all of  *)
(* those, and in their order.                                              *)
OnlyAfter(f, n, s) ==
    \A i \in 1..Len(f) :
        Low(f[i]) => \E k \in (n + 1)..Len(s) : f[i].payload = s[k]

AllAfter(f, n, s) ==
    \A k \in (n + 1)..Len(s) :
        \E i \in 1..Len(f) : Low(f[i]) /\ f[i].payload = s[k]

InOrder(f) ==
    \A i, j \in 1..Len(f) :
        i < j /\ Low(f[i]) /\ Low(f[j]) => f[i].payload < f[j].payload

(* The messages sent are numbered upwards, what the client got is a prefix *)
(* of them, and the rest is unread, in order; a reset of the connection    *)
(* takes all of the rest away, never a part.  The entry that is being      *)
(* delivered is still the first of the queue.                              *)
OrderInv ==
    /\ Increasing(broker.low)
    /\ \A i \in 1..Len(broker.low) : broker.low[i] <= broker.sent
    /\ StartsWith(broker.low, Got)
    /\ OnlyAfter(fromBroker, Len(Got), broker.low)
    /\ up \/ fromBroker # <<>> => AllAfter(fromBroker, Len(Got), broker.low)
    /\ InOrder(fromBroker)
    /\ run.pc = "callback" => messageQueue # <<>> /\ run.qe = Head(messageQueue)

-----------------------------------------------------------------------------
(* Sequences                                                               *)

(* Reading a packet that is not delivered changes nothing for the others.  *)
LEMMA TailOther ==
    ASSUME NEW S, NEW f \in Seq(S), f # <<>>, ~Low(Head(f)),
           NEW s \in Seq(Nat), NEW n \in Nat,
           OnlyAfter(f, n, s), InOrder(f)
    PROVE  /\ OnlyAfter(Tail(f), n, s) /\ InOrder(Tail(f))
           /\ AllAfter(f, n, s) => AllAfter(Tail(f), n, s)
<1>1. /\ Len(Tail(f)) = Len(f) - 1 /\ Len(f) \in Nat /\ Len(s) \in Nat
      /\ \A i \in 1..Len(Tail(f)) : Tail(f)[i] = f[i + 1] /\ i + 1 \in 1..Len(f)
      /\ f[1] = Head(f)
  OBVIOUS
<1>2. OnlyAfter(Tail(f), n, s)
  BY <1>1 DEF OnlyAfter
<1>3. InOrder(Tail(f))
  BY <1>1 DEF InOrder
<1>4. ASSUME AllAfter(f, n, s), NEW k \in (n + 1)..Len(s)
      PROVE  \E i \in 1..Len(Tail(f)) : Low(Tail(f)[i]) /\ Tail(f)[i].payload = s[k]
  <2>1. PICK i \in 1..Len(f) : Low(f[i]) /\ f[i].payload = s[k]
    BY <1>4 DEF AllAfter
  <2>2. i - 1 \in 1..Len(Tail(f)) /\ Tail(f)[i - 1] = f[i]
    BY <1>1, <2>1
  <2> QED
    BY <2>1, <2>2
<1> QED
  BY <1>2, <1>3, <1>4 DEF AllAfter

(* The first unread message is the next one of s: nothing is skipped, and  *)
(* the rest follows it.                                                    *)
LEMMA TailLow ==
    ASSUME NEW S, NEW f \in Seq(S), f # <<>>, Low(Head(f)),
           NEW s \in Seq(Nat), NEW n \in Nat, Increasing(s),
           OnlyAfter(f, n, s), AllAfter(f, n, s), InOrder(f)
    PROVE  /\ n + 1 \in 1..Len(s) /\ Head(f).payload = s[n + 1]
           /\ OnlyAfter(Tail(f), n + 1, s) /\ InOrder(Tail(f))
           /\ AllAfter(Tail(f), n + 1, s)
<1>1. /\ Len(Tail(f)) = Len(f) - 1 /\ Len(f) \in Nat /\ Len(s) \in Nat
      /\ \A i \in 1..Len(Tail(f)) : Tail(f)[i] = f[i + 1] /\ i + 1 \in 1..Len(f)
      /\ f[1] = Head(f) /\ 1 \in 1..Len(f)
      /\ \A k \in 1..Len(s) : s[k] \in Nat
  OBVIOUS
<1>2. PICK k \in (n + 1)..Len(s) : Head(f).payload = s[k]
  BY <1>1 DEF OnlyAfter
<1>3. n + 1 \in 1..Len(s) /\ k \in 1..Len(s)
  BY <1>1, <1>2
<1>4. PICK i \in 1..Len(f) : Low(f[i]) /\ f[i].payload = s[n + 1]
  BY <1>1, <1>3 DEF AllAfter
<1>5. Head(f).payload = s[n + 1]
  <2>1. SUFFICES ASSUME i # 1 PROVE FALSE
    BY <1>1, <1>4
  <2>2. f[1].payload < f[i].payload
    BY <1>1, <1>4, <2>1 DEF InOrder
  <2>3. s[k] < s[n + 1]
    BY <1>1, <1>2, <1>4, <2>2
  <2>4. k = n + 1 \/ s[n + 1] < s[k]
    BY <1>1, <1>2, <1>3 DEF Increasing
  <2> QED
    BY <1>1, <1>3, <2>3, <2>4
<1>6. InOrder(Tail(f))
  BY <1>1 DEF InOrder
<1>7. ASSUME NEW j \in 1..Len(Tail(f)), Low(Tail(f)[j])
      PROVE  \E l \in (n + 2)..Len(s) : Tail(f)[j].payload = s[l]
  <2>1. PICK l \in (n + 1)..Len(s) : f[j + 1].payload = s[l]
    BY <1>1, <1>7 DEF OnlyAfter
  <2>2. f[1].payload < f[j + 1].payload
    BY <1>1, <1>7 DEF InOrder
  <2>3. l # n + 1
    BY <1>1, <1>3, <1>5, <2>1, <2>2
  <2>4. l \in (n + 2)..Len(s)
    BY <1>1, <2>1, <2>3
  <2> QED
    BY <1>1, <2>1, <2>4
<1>8. ASSUME NEW l \in (n + 2)..Len(s)
      PROVE  \E j \in 1..Len(Tail(f)) : Low(Tail(f)[j]) /\ Tail(f)[j].payload = s[l]
  <2>1. l \in (n + 1)..Len(s) /\ l \in 1..Len(s) /\ n + 1 < l
    BY <1>1, <1>8
  <2>2. PICK j \in 1..Len(f) : Low(f[j]) /\ f[j].payload = s[l]
    BY <2>1 DEF AllAfter
  <2>3. s[n + 1] < s[l]
    BY <1>1, <1>3, <2>1 DEF Increasing
  <2>4. j # 1
    BY <1>1, <1>3, <1>5, <2>1, <2>2, <2>3
  <2>5. j - 1 \in 1..Len(Tail(f)) /\ Tail(f)[j - 1] = f[j]
    BY <1>1, <2>2, <2>4
  <2> QED
    BY <2>2, <2>5
<1>9. (n + 1) + 1 = n + 2
  OBVIOUS
<1> QED
  BY <1>3, <1>5, <1>6, <1>7, <1>8, <1>9 DEF OnlyAfter, AllAfter

(* A packet that is not delivered comes after the others.                  *)
LEMMA AppendOther ==
    ASSUME NEW S, NEW f \in Seq(S), NEW q \in S, ~Low(q),
           NEW s \in Seq(Nat), NEW n \in Nat,
           OnlyAfter(f, n, s), AllAfter(f, n, s), InOrder(f)
    PROVE  LET g == Append(f, q)
           IN  OnlyAfter(g, n, s) /\ AllAfter(g, n, s) /\ InOrder(g)
<1> DEFINE g == Append(f, q)
<1>1. /\ Len(g) = Len(f) + 1 /\ Len(f) \in Nat
      /\ \A i \in 1..Len(f) : g[i] = f[i] /\ i \in 1..Len(g)
      /\ g[Len(g)] = q
      /\ \A i \in 1..Len(g) : i = Len(g) \/ i \in 1..Len(f)
  OBVIOUS
<1> HIDE DEF g
<1>2. \A i \in 1..Len(g) : Low(g[i]) => i \in 1..Len(f) /\ g[i] = f[i]
  BY <1>1
<1>3. OnlyAfter(g, n, s)
  BY <1>2 DEF OnlyAfter
<1>4. AllAfter(g, n, s)
  BY <1>1 DEF AllAfter
<1>5. InOrder(g)
  BY <1>2 DEF InOrder
<1> QED
  BY <1>3, <1>4, <1>5 DEF g

(* The broker sends one more message, with a larger number.                *)
LEMMA AppendLow ==
    ASSUME NEW S, NEW f \in Seq(S), NEW q \in S, Low(q),
           NEW s \in Seq(Nat), NEW n \in Nat, n <= Len(s), q.payload \in Nat,
           \A i \in 1..Len(s) : s[i] < q.payload,
           OnlyAfter(f, n, s), AllAfter(f, n, s), InOrder(f)
    PROVE  LET g == Append(f, q)
               t == Append(s, q.payload)
           IN  OnlyAfter(g, n, t) /\ AllAfter(g, n, t) /\ InOrder(g)
<1> DEFINE g == Append(f, q)
           t == Append(s, q.payload)
<1>1. /\ Len(g) = Len(f) + 1 /\ Len(f) \in Nat
      /\ \A i \in 1..Len(f) : g[i] = f[i] /\ i \in 1..Len(g)
      /\ g[Len(g)] = q /\ Len(g) \in 1..Len(g)
      /\ \A i \in 1..Len(g) : i = Len(g) \/ i \in 1..Len(f)
  OBVIOUS
<1>2. /\ Len(t) = Len(s) + 1 /\ Len(s) \in Nat
      /\ \A k \in 1..Len(s) : t[k] = s[k] /\ s[k] \in Nat
      /\ t[Len(t)] = q.payload
  OBVIOUS
<1> HIDE DEF g, t
<1>3. /\ \A k \in (n + 1)..Len(s) : k \in (n + 1)..Len(t) /\ k \in 1..Len(s)
      /\ Len(t) \in (n + 1)..Len(t)
      /\ \A k \in (n + 1)..Len(t) : k = Len(t) \/ k \in (n + 1)..Len(s)
  BY <1>2
<1>4. ASSUME NEW i \in 1..Len(g), Low(g[i])
      PROVE  \E k \in (n + 1)..Len(t) : g[i].payload = t[k]
  <2>1. CASE i = Len(g)
    BY <1>1, <1>2, <1>3, <2>1
  <2>2. CASE i \in 1..Len(f)
    <3>1. PICK k \in (n + 1)..Len(s) : f[i].payload = s[k]
      BY <1>1, <1>4, <2>2 DEF OnlyAfter
    <3> QED
      BY <1>1, <1>2, <1>3, <2>2, <3>1
  <2> QED
    BY <1>1, <2>1, <2>2
<1>5. ASSUME NEW k \in (n + 1)..Len(t)
      PROVE  \E i \in 1..Len(g) : Low(g[i]) /\ g[i].payload = t[k]
  <2>1. CASE k = Len(t)
    BY <1>1, <1>2, <2>1
  <2>2. CASE k \in (n + 1)..Len(s)
    <3>1. PICK i \in 1..Len(f) : Low(f[i]) /\ f[i].payload = s[k]
      BY <2>2 DEF AllAfter
    <3> QED
      BY <1>1, <1>2, <1>3, <2>2, <3>1
  <2> QED
    BY <1>3, <2>1, <2>2
<1>6. ASSUME NEW i \in 1..Len(g), NEW j \in 1..Len(g), i < j, Low(g[i]), Low(g[j])
      PROVE  g[i].payload < g[j].payload
  <2>1. i \in 1..Len(f) /\ g[i] = f[i]
    BY <1>1, <1>6
  <2>2. CASE j = Len(g)
    <3>1. PICK k \in (n + 1)..Len(s) : f[i].payload = s[k]
      BY <1>6, <2>1 DEF OnlyAfter
    <3>2. k \in 1..Len(s)
      BY <1>3, <3>1
    <3> QED
      BY <1>1, <2>1, <2>2, <3>1, <3>2
  <2>3. CASE j \in 1..Len(f)
    BY <1>1, <1>6, <2>1, <2>3 DEF InOrder
  <2> QED
    BY <1>1, <2>2, <2>3
<1>7. OnlyAfter(g, n, t) /\ AllAfter(g, n, t) /\ InOrder(g)
  BY <1>4, <1>5, <1>6 DEF OnlyAfter, AllAfter, InOrder
<1> QED
  BY <1>7 DEF g, t

(* Two numbers of an increasing sequence are equal at one place only.      *)
LEMMA IncreasingOnce ==
    ASSUME NEW s \in Seq(Nat), Increasing(s), NEW i \in 1..Len(s),
           NEW j \in 1..Len(s), s[i] = s[j]
    PROVE  i = j
BY DEF Increasing

(* A larger number at the end.                                             *)
LEMMA IncreasingAppend ==
    ASSUME NEW s \in Seq(Nat), Increasing(s), NEW x \in Nat,
           \A i \in 1..Len(s) : s[i] < x
    PROVE  Increasing(Append(s, x)) /\ \A i \in 1..Len(Append(s, x)) : Append(s, x)[i] <= x
BY DEF Increasing

(* Removing the first entry of a queue that is the end of an increasing    *)
(* sequence: the only entry with that number is the first.                 *)
LEMMA RemoveFirstEntry ==
    ASSUME NEW d \in Seq(Nat), NEW q \in Seq(Nat), q # <<>>,
           NEW s \in Seq(Nat), Increasing(s), StartsWith(s, d \o q),
           NEW i \in DOMAIN q, q[i] = Head(q)
    PROVE  Append(d, Head(q)) \o RemoveAt(q, i) = d \o q
<1>1. /\ Len(d \o q) = Len(d) + Len(q) /\ Len(d) \in Nat /\ Len(q) \in Nat
      /\ \A k \in 1..Len(q) : (d \o q)[Len(d) + k] = q[k]
      /\ i \in 1..Len(q) /\ 1 \in 1..Len(q) /\ Head(q) = q[1]
  OBVIOUS
<1> DEFINE g == d \o q
<1>2. /\ Len(d) + i \in 1..Len(s) /\ Len(d) + 1 \in 1..Len(s)
      /\ s[Len(d) + i] = q[i] /\ s[Len(d) + 1] = q[1]
  <2>1. Len(g) <= Len(s) /\ \A k \in 1..Len(g) : g[k] = s[k]
    BY DEF StartsWith
  <2> DEFINE a == Len(d) + i
             b == Len(d) + 1
  <2>2. a \in 1..Len(g) /\ b \in 1..Len(g) /\ Len(s) \in Nat /\ Len(g) \in Nat
    BY <1>1
  <2>3. g[a] = q[i] /\ g[b] = q[1]
    BY <1>1
  <2> HIDE DEF g, a, b
  <2>4. a \in 1..Len(s) /\ b \in 1..Len(s) /\ s[a] = q[i] /\ s[b] = q[1]
    BY <2>1, <2>2, <2>3, SMTT(30)
  <2> QED
    BY <2>4 DEF a, b
<1>3. Len(d) + i = Len(d) + 1
  BY <1>1, <1>2, IncreasingOnce, SMTT(30)
<1>4. i = 1
  BY <1>1, <1>3
<1>5. RemoveAt(q, 1) = SubSeq(q, 1, 0) \o SubSeq(q, 2, Len(q))
  BY DEF RemoveAt
<1>6. /\ SubSeq(q, 1, 0) = <<>> /\ SubSeq(q, 2, Len(q)) = Tail(q)
      /\ Tail(q) \in Seq(Nat)
  BY TailIsSubSeq, SMTT(30)
<1>7. RemoveAt(q, 1) = Tail(q)
  BY <1>5, <1>6, ConcatEmptySeq
<1>8. Append(d, Head(q)) \o Tail(q) = d \o q
  <2>1. /\ Len(Append(d, Head(q)) \o Tail(q)) = Len(d \o q)
        /\ Append(d, Head(q)) \o Tail(q) \in Seq(Nat) /\ d \o q \in Seq(Nat)
    BY <1>1
  <2>2. \A k \in 1..Len(d \o q) :
            (Append(d, Head(q)) \o Tail(q))[k] = (d \o q)[k]
    BY <1>1
  <2> QED
    BY <2>1, <2>2, SeqEqual
<1> QED
  BY <1>4, <1>7, <1>8

(* One more entry on the queue.                                            *)
LEMMA GotAppend ==
    ASSUME NEW d \in Seq(Nat), NEW q \in Seq(Nat), NEW x \in Nat
    PROVE  /\ d \o Append(q, x) = Append(d \o q, x)
           /\ d \o q \in Seq(Nat)
<1>1. d \o q \in Seq(Nat) /\ Len(d \o Append(q, x)) = Len(Append(d \o q, x))
  OBVIOUS
<1>2. \A k \in 1..Len(d \o Append(q, x)) :
        (d \o Append(q, x))[k] = Append(d \o q, x)[k]
  OBVIOUS
<1> QED
  BY <1>1, <1>2, SeqEqual

(* The next message of s after those in g.                                *)
LEMMA StartsWithNext ==
    ASSUME NEW s \in Seq(Nat), NEW g \in Seq(Nat), StartsWith(s, g),
           Len(g) + 1 \in 1..Len(s)
    PROVE  /\ StartsWith(s, Append(g, s[Len(g) + 1]))
           /\ Len(Append(g, s[Len(g) + 1])) = Len(g) + 1
BY DEF StartsWith

(* A longer s still starts with g.                                         *)
LEMMA StartsWithAppend ==
    ASSUME NEW s \in Seq(Nat), NEW g \in Seq(Nat), StartsWith(s, g), NEW x \in Nat
    PROVE  StartsWith(Append(s, x), g)
BY DEF StartsWith

-----------------------------------------------------------------------------
(* The invariant is inductive                                              *)

(* The types used below.                                                   *)
LEMMA OrderTypes ==
    ASSUME TypeOK
    PROVE  /\ delivered \in Seq(Nat) /\ messageQueue \in Seq(Nat)
           /\ Got \in Seq(Nat) /\ Len(Got) \in Nat
           /\ broker.low \in Seq(Nat) /\ broker.sent \in Nat
           /\ fromBroker \in Seq(InPacket)
<1>1. 1..MaxIn \subseteq Nat
  BY MaxInAssumption
<1>2. delivered \in Seq(Nat) /\ messageQueue \in Seq(Nat) /\ broker.low \in Seq(Nat)
  BY <1>1, SeqMonotonic DEF TypeOK
<1>3. broker.sent \in Nat /\ fromBroker \in Seq(InPacket)
  BY DEF TypeOK
<1> QED
  BY <1>2, <1>3 DEF Got

(* OrderInv holds initially.                                               *)
LEMMA InitOrderInv == Init => OrderInv
<1> SUFFICES ASSUME Init PROVE OrderInv
  OBVIOUS
<1>1. broker.low = <<>> /\ fromBroker = <<>> /\ delivered = <<>> /\ messageQueue = <<>>
      /\ run.pc = "select"
  BY DEF Init
<1>2. Got = <<>> /\ Len(<<>>) = 0
  BY <1>1 DEF Got
<1> QED
  BY <1>1, <1>2 DEF OrderInv, Increasing, StartsWith, OnlyAfter, AllAfter, InOrder

(* Steps that touch neither the messages nor the delivery under way.       *)
LEMMA OrderUnchanged ==
    ASSUME OrderInv, UNCHANGED <<delivered, messageQueue, fromBroker, broker, up>>,
           run'.pc = "callback" =>
                \/ UNCHANGED run
                \/ (messageQueue # <<>> /\ run'.qe = Head(messageQueue))
    PROVE  OrderInv'
<1>1. Got' = Got
  BY DEF Got
<1> QED
  BY <1>1 DEF OrderInv

(* A packet that is read and not delivered.                                *)
LEMMA ReceivedOtherOrder ==
    ASSUME TypeOK, OrderInv, NEW type, Received(type), ~Low(Head(fromBroker)),
           UNCHANGED <<delivered, messageQueue, broker, up>>
    PROVE  OrderInv'
<1>1. /\ fromBroker # <<>> /\ fromBroker' = Tail(fromBroker) /\ run'.pc = "dispatch"
  BY DEF Received, TypeOK
<1>2. Got' = Got
  BY DEF Got
<1>3. /\ OnlyAfter(Tail(fromBroker), Len(Got), broker.low)
      /\ InOrder(Tail(fromBroker))
      /\ AllAfter(Tail(fromBroker), Len(Got), broker.low)
  BY <1>1, OrderTypes, TailOther DEF OrderInv
<1> QED
  BY <1>1, <1>2, <1>3 DEF OrderInv

(* A message that is read and put on the queue is the next one in order.   *)
LEMMA ReceivedLowOrder ==
    ASSUME TypeOK, OrderInv, NEW type, Received(type), Low(Head(fromBroker)),
           processPublication(Head(fromBroker)), UNCHANGED <<delivered, broker, up>>
    PROVE  OrderInv'
<1>1. /\ fromBroker # <<>> /\ fromBroker' = Tail(fromBroker) /\ run'.pc = "dispatch"
      /\ messageQueue' = Append(messageQueue, Head(fromBroker).payload)
  BY DEF Received, TypeOK, processPublication
<1> DEFINE n == Len(Got)
<1>2. /\ n + 1 \in 1..Len(broker.low) /\ Head(fromBroker).payload = broker.low[n + 1]
      /\ OnlyAfter(Tail(fromBroker), n + 1, broker.low) /\ InOrder(Tail(fromBroker))
      /\ AllAfter(Tail(fromBroker), n + 1, broker.low)
  BY <1>1, OrderTypes, TailLow DEF OrderInv
<1>3. broker.low[n + 1] \in Nat
  BY <1>2, OrderTypes
<1>4. Got' = Append(Got, broker.low[n + 1])
  <2> DEFINE x == broker.low[n + 1]
  <2>1. Got' = delivered \o Append(messageQueue, x)
    BY <1>1, <1>2 DEF Got
  <2> HIDE DEF x
  <2>2. delivered \o Append(messageQueue, x) = Append(delivered \o messageQueue, x)
    BY <1>3, OrderTypes, GotAppend DEF x
  <2>3. Got' = Append(Got, x)
    BY <2>1, <2>2 DEF Got
  <2> QED
    BY <2>3 DEF x
<1>5. StartsWith(broker.low, Got') /\ Len(Got') = n + 1
  BY <1>2, <1>4, OrderTypes, StartsWithNext DEF OrderInv
<1> QED
  BY <1>1, <1>2, <1>5 DEF OrderInv

(* The entry that messageArrived accepted moves from the queue to the      *)
(* delivered ones.                                                         *)
LEMMA ReturnOrder ==
    ASSUME TypeOK, OrderInv, MessageArrivedReturns PROVE OrderInv'
<1>1. /\ run.pc = "callback" /\ run'.pc = "select"
      /\ UNCHANGED <<fromBroker, broker, up>>
  BY DEF MessageArrivedReturns, netVars
<1>2. messageQueue # <<>> /\ run.qe = Head(messageQueue)
  BY <1>1 DEF OrderInv
<1>3. Got' = Got
  <2>1. CASE dequeue(run.qe) /\ delivered' = Append(delivered, run.qe)
    <3>1. PICK i \in DOMAIN messageQueue :
            messageQueue[i] = run.qe /\ messageQueue' = RemoveAt(messageQueue, i)
      BY <2>1 DEF dequeue
    <3>2. Append(delivered, Head(messageQueue)) \o RemoveAt(messageQueue, i)
            = delivered \o messageQueue
      BY <1>2, <3>1, OrderTypes, RemoveFirstEntry, ZenonT(40) DEF OrderInv, Got
    <3> QED
      BY <1>2, <2>1, <3>1, <3>2 DEF Got
  <2>2. CASE UNCHANGED <<messageQueue, delivered>>
    BY <2>2 DEF Got
  <2> QED
    BY <2>1, <2>2 DEF MessageArrivedReturns
<1> QED
  BY <1>1, <1>3 DEF OrderInv

(* The broker reads a packet.                                              *)
LEMMA BrokerReceiveOrder == ASSUME TypeOK, OrderInv, BrokerReceive PROVE OrderInv'
<1> DEFINE pkt == Head(toBroker)
           answer == [type |-> IF pkt.qos = 1 THEN "PUBACK" ELSE "PUBREC",
                      msgid |-> pkt.msgid, qos |-> 0, payload |-> 0]
<1>1. up /\ UNCHANGED <<delivered, messageQueue, up, run>>
  BY DEF BrokerReceive, clientVars
<1>2. \/ UNCHANGED broker /\ fromBroker' = Append(fromBroker, answer)
      \/ UNCHANGED broker /\ fromBroker' = Append(fromBroker, Suback)
      \/ /\ broker' = [broker EXCEPT !.awaiting = @ \ {pkt.msgid}]
         /\ UNCHANGED fromBroker
  BY DEF BrokerReceive
<1>3. ~Low(answer) /\ ~Low(Suback)
  BY DEF Low, Suback
<1> HIDE DEF pkt, answer
<1>4. Got' = Got
  BY <1>1 DEF Got
<1>5. CASE UNCHANGED broker /\ fromBroker' \in {Append(fromBroker, answer),
                                                Append(fromBroker, Suback)}
  <2>1. PICK q \in {answer, Suback} : fromBroker' = Append(fromBroker, q)
    BY <1>5
  <2>2. fromBroker \in Seq(InPacket \cup {q})
    BY OrderTypes, SeqMonotonic
  <2>3. LET g == Append(fromBroker, q)
        IN  /\ OnlyAfter(g, Len(Got), broker.low)
            /\ AllAfter(g, Len(Got), broker.low) /\ InOrder(g)
    BY <1>1, <1>3, <2>2, OrderTypes, AppendOther DEF OrderInv
  <2> QED
    BY <1>1, <1>4, <1>5, <2>1, <2>3 DEF OrderInv
<1>6. CASE UNCHANGED fromBroker /\ broker' = [broker EXCEPT !.awaiting = @ \ {pkt.msgid}]
  <2>1. broker'.low = broker.low /\ broker'.sent = broker.sent
    BY <1>6 DEF TypeOK
  <2> QED
    BY <1>1, <1>4, <1>6, <2>1 DEF OrderInv
<1> QED
  BY <1>2, <1>5, <1>6

(* The broker sends a message.                                             *)
LEMMA BrokerPublishOrder == ASSUME TypeOK, OrderInv, BrokerPublish PROVE OrderInv'
<1> DEFINE n == broker.sent + 1
<1>1. up /\ UNCHANGED <<delivered, messageQueue, up, run>>
  BY DEF BrokerPublish, clientVars
<1>2. PICK qos \in InQoS, id \in InIds :
        /\ fromBroker' = Append(fromBroker,
                [type |-> "PUBLISH", msgid |-> IF qos = 0 THEN 0 ELSE id,
                 qos |-> qos, payload |-> n])
        /\ broker' = [sent |-> n,
                      low |-> IF qos < 2 THEN Append(broker.low, n)
                              ELSE broker.low,
                      awaiting |-> IF qos = 1
                                   THEN broker.awaiting \cup {id}
                                   ELSE broker.awaiting]
  BY DEF BrokerPublish
<1> DEFINE q == [type |-> "PUBLISH", msgid |-> IF qos = 0 THEN 0 ELSE id,
                 qos |-> qos, payload |-> n]
<1>3. /\ fromBroker' = Append(fromBroker, q) /\ q.payload = n
      /\ broker'.low = IF qos < 2 THEN Append(broker.low, n) ELSE broker.low
      /\ broker'.sent = n
  BY <1>2
<1>4. qos \in 0..2 /\ (Low(q) <=> qos < 2)
  <2>1. qos \in 0..2 /\ (qos < 2 <=> qos \in {0, 1})
    BY QoSAssumption
  <2> QED
    BY <2>1 DEF Low
<1>5. Got' = Got
  BY <1>1 DEF Got
<1>6. n \in Nat /\ n > broker.sent
  BY OrderTypes
<1>7. fromBroker \in Seq(InPacket \cup {q}) /\ q \in InPacket \cup {q}
  BY OrderTypes, SeqMonotonic
<1>10. \A i \in 1..Len(broker.low) : broker.low[i] < n /\ broker.low[i] <= n
  <2> DEFINE s == broker.low
             b == broker.sent
  <2>1. s \in Seq(Nat) /\ b \in Nat /\ \A i \in 1..Len(s) : s[i] <= b
    BY OrderTypes DEF OrderInv
  <2>2. n = b + 1
    OBVIOUS
  <2> HIDE DEF s, b, n
  <2>3. \A i \in 1..Len(s) : s[i] < n /\ s[i] <= n
    BY <2>1, <2>2
  <2> QED
    BY <2>3 DEF s
<1> HIDE DEF q, n
<1>8. CASE qos < 2
  <2> DEFINE t == Append(broker.low, n)
  <2>1. \A i \in 1..Len(broker.low) : broker.low[i] < n
    BY <1>10
  <2>2. Increasing(t) /\ \A i \in 1..Len(t) : t[i] <= n
    BY <1>6, <2>1, OrderTypes, IncreasingAppend DEF OrderInv
  <2>3. StartsWith(t, Got)
    BY <1>6, OrderTypes, StartsWithAppend DEF OrderInv
  <2>4. Len(Got) <= Len(broker.low)
    BY DEF OrderInv, StartsWith
  <2>5. LET g == Append(fromBroker, q)
        IN  OnlyAfter(g, Len(Got), t) /\ AllAfter(g, Len(Got), t) /\ InOrder(g)
    BY <1>1, <1>3, <1>4, <1>6, <1>7, <1>8, <2>1, <2>4, OrderTypes, AppendLow
    DEF OrderInv
  <2>6. broker'.low = t
    BY <1>3, <1>8
  <2> HIDE DEF t
  <2> QED
    BY <1>1, <1>3, <1>5, <2>2, <2>3, <2>5, <2>6 DEF OrderInv
<1>9. CASE ~(qos < 2)
  <2>1. LET g == Append(fromBroker, q)
        IN  /\ OnlyAfter(g, Len(Got), broker.low)
            /\ AllAfter(g, Len(Got), broker.low) /\ InOrder(g)
    BY <1>1, <1>4, <1>7, <1>9, OrderTypes, AppendOther DEF OrderInv
  <2>2. \A i \in 1..Len(broker.low) : broker.low[i] <= n
    BY <1>10
  <2>3. broker'.low = broker.low
    BY <1>3, <1>9
  <2> QED
    BY <1>1, <1>3, <1>5, <2>1, <2>2, <2>3 DEF OrderInv
<1> QED
  BY <1>8, <1>9

(* Losing the connection.                                                  *)
LEMMA LoseConnectionOrder == ASSUME TypeOK, OrderInv, LoseConnection PROVE OrderInv'
<1>1. /\ up /\ ~up' /\ fromBroker' \in {fromBroker, <<>>}
      /\ UNCHANGED <<delivered, messageQueue, broker, run>>
  BY DEF LoseConnection, clientVars
<1>2. Got' = Got
  BY <1>1 DEF Got
<1>3. /\ OnlyAfter(<<>>, Len(Got), broker.low) /\ InOrder(<<>>)
  BY DEF OnlyAfter, InOrder
<1> QED
  BY <1>1, <1>2, <1>3 DEF OrderInv

(* OrderInv is inductive.                                                  *)
LEMMA NextOrderInv == IInv /\ OrderInv /\ [Next]_vars => OrderInv'
<1> SUFFICES ASSUME TypeOK, OrderInv, [Next]_vars PROVE OrderInv'
  BY DEF IInv
<1>0. run \in [pc : {"select", "read", "dispatch", "callback"}, qe : 0..MaxIn]
  BY DEF TypeOK
<1>1. CASE UNCHANGED vars
  BY <1>1, OrderUnchanged DEF vars, clientVars, netVars
<1>2. CASE App
  <2>1. UNCHANGED <<delivered, messageQueue, fromBroker, broker, up, run>>
    BY <1>2 DEF App, PublishQoS0, PublishNoId, Publish, startPublish, Subscribe,
       clientVars, netVars
  <2> QED
    BY <2>1, OrderUnchanged
<1>3. CASE ContinueWriteDone \/ ContinueWriteError \/ ReadySocket \/ CycleInterrupted
           \/ CycleError \/ Dispatch
  <2>1. UNCHANGED <<delivered, messageQueue, fromBroker, broker, up>>
    BY <1>3 DEF ContinueWriteDone, ContinueWriteError, ReadySocket,
       CycleInterrupted, CycleError, Dispatch, DispatchNothing,
       CallMessageArrived, clientVars, netVars
  <2>2. run'.pc = "callback" => UNCHANGED run
                \/ (messageQueue # <<>> /\ run'.qe = Head(messageQueue))
    BY <1>0, <1>3 DEF ContinueWriteDone, ContinueWriteError, ReadySocket,
       CycleInterrupted, CycleError, Dispatch, DispatchNothing,
       CallMessageArrived
  <2> QED
    BY <2>1, <2>2, OrderUnchanged
<1>4. CASE HandlePublish0 \/ HandlePublish1
  <2>1. /\ Received("PUBLISH") /\ Head(fromBroker).type = "PUBLISH"
        /\ Head(fromBroker).qos \in {0, 1}
        /\ processPublication(Head(fromBroker)) /\ UNCHANGED <<delivered, broker, up>>
    BY <1>4 DEF HandlePublish0, HandlePublish1, Received
  <2> QED
    BY <2>1, ReceivedLowOrder DEF Low
<1>5. CASE HandlePublish2
  <2>1. /\ Received("PUBLISH") /\ Head(fromBroker).qos = 2
        /\ UNCHANGED <<delivered, messageQueue, broker, up>>
    BY <1>5 DEF HandlePublish2
  <2>2. ~Low(Head(fromBroker))
    BY <2>1 DEF Low
  <2> QED
    BY <2>1, <2>2, ReceivedOtherOrder
<1>6. CASE HandlePuback \/ IgnorePubrec \/ IgnoreSuback
  <2>1. /\ \E type \in {"PUBACK", "PUBREC", "SUBACK"} :
                Received(type) /\ Head(fromBroker).type = type
        /\ UNCHANGED <<delivered, messageQueue, broker, up>>
    BY <1>6 DEF HandlePuback, IgnorePubrec, IgnoreSuback, Received, clientVars
  <2>2. ~Low(Head(fromBroker))
    BY <2>1 DEF Low
  <2> QED
    BY <2>1, <2>2, ReceivedOtherOrder
<1> QED
  BY <1>1, <1>2, <1>3, <1>4, <1>5, <1>6, ReturnOrder, BrokerReceiveOrder,
     BrokerPublishOrder, LoseConnectionOrder
  DEF Next, RunThread, Cycle

(* The invariant says what DeliveredInOrder says.                          *)
LEMMA OrderPrefix == TypeOK /\ OrderInv => DeliveredInOrder
<1> SUFFICES ASSUME TypeOK, OrderInv PROVE IsPrefix(Got, broker.low)
  BY DEF DeliveredInOrder, Got
<1>1. Got \in Seq(Nat) /\ broker.low \in Seq(Nat) /\ StartsWith(broker.low, Got)
  BY OrderTypes DEF OrderInv
<1>2. SubSeq(Got, 1, Len(Got)) = SubSeq(broker.low, 1, Len(Got))
  BY <1>1 DEF StartsWith
<1> QED
  BY <1>1, <1>2 DEF IsPrefix, StartsWith

(* messageArrived gets the QoS 0 and 1 messages in the order in which the  *)
(* broker sent them, none skipped and none twice, for any number of        *)
(* messages and although the entry being delivered stays on the queue      *)
(* while the mutex is released (MQTTClient.c:209-217).                     *)
THEOREM InOrderDelivery == Spec => []DeliveredInOrder
<1>1. IInv => TypeOK
  BY DEF IInv
<1> QED
  BY <1>1, InductiveInvariant, InitOrderInv, NextOrderInv, OrderPrefix, PTL DEF Spec

-----------------------------------------------------------------------------
(* What takes a message out of flight                                      *)

(* Only HandlePuback removes a message: the one whose PUBACK it read.      *)
LEMMA StepRemoves ==
    [Next]_vars =>
        [\A m \in outboundMsgs \ outboundMsgs' :
          /\ m.qos = 1 /\ fromBroker # <<>>
          /\ Head(fromBroker).type = "PUBACK" /\ Head(fromBroker).msgid = m.msgid
          /\ outboundMsgs' = outboundMsgs \ {m}]_vars
<1> SUFFICES ASSUME Next
             PROVE  \A m \in outboundMsgs \ outboundMsgs' :
                      /\ m.qos = 1 /\ fromBroker # <<>>
                      /\ Head(fromBroker).type = "PUBACK"
                      /\ Head(fromBroker).msgid = m.msgid
                      /\ outboundMsgs' = outboundMsgs \ {m}
  OBVIOUS
<1>1. CASE HandlePuback
  <2>1. fromBroker # <<>> /\ Head(fromBroker).type = "PUBACK"
    BY <1>1 DEF HandlePuback, Received
  <2>2. \/ outboundMsgs' = outboundMsgs
        \/ \E m \in findMessage(Head(fromBroker).msgid) :
            m.qos = 1 /\ outboundMsgs' = outboundMsgs \ {m}
    BY <1>1 DEF HandlePuback
  <2> QED
    BY <2>1, <2>2 DEF findMessage
<1>2. CASE Next /\ ~HandlePuback
  <2>1. outboundMsgs \subseteq outboundMsgs'
    BY <1>2 DEF Next, App, PublishQoS0, PublishNoId, Publish, startPublish,
       Subscribe, RunThread, ContinueWriteDone, ContinueWriteError, ReadySocket,
       Cycle, CycleInterrupted, CycleError, HandlePublish0, HandlePublish1,
       HandlePublish2, IgnorePubrec, IgnoreSuback, Dispatch, DispatchNothing,
       CallMessageArrived, MessageArrivedReturns, BrokerReceive, BrokerPublish,
       LoseConnection, clientVars
  <2> QED
    BY <2>1
<1> QED
  BY <1>1, <1>2

(* A message leaves outboundMsgs only in the step that reads its PUBACK,   *)
(* and that step removes no other (MQTTProtocol.c:262-274).                *)
THEOREM OnlyPubackRemoves == Spec => OnlyItsPubackRemoves
BY StepRemoves, PTL DEF Spec, OnlyItsPubackRemoves

-----------------------------------------------------------------------------
(* Packets in sequences and being written                                  *)

(* The identifiers of the packets of a type and QoS in a sequence, and     *)
(* that no two of them have the same one.                                  *)
Ids(s, type, qos) ==
    {s[i].msgid : i \in {j \in 1..Len(s) : s[j].type = type /\ s[j].qos = qos}}

Single(s, type, qos) ==
    \A i, j \in 1..Len(s) :
        /\ s[i].type = type /\ s[i].qos = qos
        /\ s[j].type = type /\ s[j].qos = qos
        /\ s[i].msgid = s[j].msgid
        => i = j

(* The same for the packets being written and the acknowledgements put     *)
(* aside.                                                                  *)
WriteIds(W, type, qos) ==
    {w.pkt.msgid : w \in {v \in W : v.pkt.type = type /\ v.pkt.qos = qos}}

AsideIds(s) ==
    {s[i].msgid : i \in {j \in 1..Len(s) : s[j].ackType = "PUBACK"}}

AsideSingle(s) ==
    \A i, j \in 1..Len(s) :
        /\ s[i].ackType = "PUBACK" /\ s[j].ackType = "PUBACK"
        /\ s[i].msgid = s[j].msgid
        => i = j

(* One write is pending at most, and its buffers are those of a message in *)
(* flight, or of no publication.                                           *)
WriteInv ==
    /\ \A w1, w2 \in pendingWrite : w1 = w2
    /\ \A w \in pendingWrite :
        \/ w.pkt.type # "PUBLISH" /\ w.refs = {}
        \/ w.pkt.type = "PUBLISH"
           /\ \E m \in outboundMsgs :
                /\ m.msgid = w.pkt.msgid /\ m.qos = w.pkt.qos
                /\ w.refs = {m.publish} /\ m.publish \notin unsent

(* The messages that a PUBACK will come for, and where that has got to: the *)
(* PUBLISH is being written or on its way, or the PUBACK is on its way back. *)
Waiting  == {m \in outboundMsgs : m.qos = 1 /\ m.publish \notin unsent}
Writing  == WriteIds(pendingWrite, "PUBLISH", 1)
Sent     == Ids(toBroker, "PUBLISH", 1)
Answered == Ids(fromBroker, "PUBACK", 0)

AckInv ==
    /\ WriteInv
    /\ Single(toBroker, "PUBLISH", 1) /\ Single(fromBroker, "PUBACK", 0)
    /\ Writing \cap Sent = {} /\ Writing \cap Answered = {} /\ Sent \cap Answered = {}
    /\ Writing \cup Sent \cup Answered \subseteq {m.msgid : m \in Waiting}
    /\ up => \A m \in Waiting : m.msgid \in Writing \cup Sent \cup Answered
    /\ \A p \in unsent : \E m \in outboundMsgs : m.publish = p

-----------------------------------------------------------------------------
(* Where the acknowledgement of the broker's QoS 1 message can be.         *)
Unread   == Ids(fromBroker, "PUBLISH", 1)
Aside    == AsideIds(outboundQueue)
AckWrite == WriteIds(pendingWrite, "PUBACK", 0)
Acked    == Ids(toBroker, "PUBACK", 0)

InboundAckInv ==
    up =>
    /\ Single(fromBroker, "PUBLISH", 1) /\ Single(toBroker, "PUBACK", 0)
    /\ AsideSingle(outboundQueue)
    /\ Unread \cap Aside = {} /\ Unread \cap AckWrite = {} /\ Unread \cap Acked = {}
    /\ Aside \cap AckWrite = {} /\ Aside \cap Acked = {} /\ AckWrite \cap Acked = {}
    /\ Unread \cup Aside \cup AckWrite \cup Acked = broker.awaiting


(* What a packet added at the end does to Ids and Single.                  *)
LEMMA AppendIds ==
    ASSUME NEW S, NEW s \in Seq(S), NEW e \in S, NEW type, NEW qos
    PROVE  /\ Ids(Append(s, e), type, qos) =
                IF e.type = type /\ e.qos = qos
                THEN Ids(s, type, qos) \cup {e.msgid} ELSE Ids(s, type, qos)
           /\ Single(s, type, qos)
              /\ (e.type = type /\ e.qos = qos => e.msgid \notin Ids(s, type, qos))
              => Single(Append(s, e), type, qos)
<1> DEFINE t == Append(s, e)
           n == Len(s)
<1>1. /\ n \in Nat /\ Len(t) = n + 1 /\ t[n + 1] = e
      /\ \A i \in 1..n : t[i] = s[i]
  BY AppendProperties, LenProperties
<1>2. \A i \in 1..(n + 1) : i \in 1..n \/ i = n + 1
  BY <1>1
<1>3. 1..n \subseteq 1..(n + 1) /\ n + 1 \in 1..(n + 1)
  BY <1>1
<1> HIDE DEF t, n
<1>4. Ids(t, type, qos) = IF e.type = type /\ e.qos = qos
                          THEN Ids(s, type, qos) \cup {e.msgid} ELSE Ids(s, type, qos)
  BY <1>1, <1>2, <1>3, Zenon DEF Ids, n
<1>5. ASSUME Single(s, type, qos),
             e.type = type /\ e.qos = qos => e.msgid \notin Ids(s, type, qos)
      PROVE  Single(t, type, qos)
  BY <1>1, <1>2, <1>3, <1>5 DEF Ids, Single, n
<1> QED
  BY <1>4, <1>5 DEF t

(* What taking the first packet does to them.                              *)
LEMMA TailIds ==
    ASSUME NEW S, NEW s \in Seq(S), s # <<>>, NEW type, NEW qos,
           Single(s, type, qos)
    PROVE  /\ Ids(Tail(s), type, qos) =
                IF Head(s).type = type /\ Head(s).qos = qos
                THEN Ids(s, type, qos) \ {Head(s).msgid} ELSE Ids(s, type, qos)
           /\ Head(s).type = type /\ Head(s).qos = qos
                => Head(s).msgid \in Ids(s, type, qos)
           /\ Single(Tail(s), type, qos)
<1> DEFINE t == Tail(s)
           n == Len(s)
<1>1. /\ n \in Nat /\ n >= 1 /\ Len(t) = n - 1 /\ Head(s) = s[1]
      /\ \A i \in 1..(n - 1) : t[i] = s[i + 1]
  BY HeadTailProperties, LenProperties, EmptySeq
<1>2. /\ \A i \in 1..(n - 1) : i + 1 \in 1..n /\ i + 1 # 1
      /\ \A i \in 1..n : i = 1 \/ (i - 1 \in 1..(n - 1) /\ (i - 1) + 1 = i)
      /\ 1 \in 1..n
      /\ \A i, j \in 1..(n - 1) : i + 1 = j + 1 => i = j
  BY <1>1
<1> HIDE DEF t, n
<1>3. Single(t, type, qos)
  BY <1>1, <1>2 DEF Single, n
<1>4. ASSUME NEW i \in 1..(n - 1), t[i].type = type, t[i].qos = qos
      PROVE  t[i].msgid \in Ids(s, type, qos)
             /\ ~(Head(s).type = type /\ Head(s).qos = qos
                  /\ Head(s).msgid = t[i].msgid)
  BY <1>1, <1>2, <1>4 DEF Ids, Single, n
<1>5. ASSUME NEW i \in 1..n, s[i].type = type, s[i].qos = qos
      PROVE  i = 1 \/ s[i].msgid \in Ids(t, type, qos)
  <2>1. CASE i # 1
    <3>1. i - 1 \in 1..(n - 1) /\ t[i - 1] = s[i]
      BY <1>1, <1>2, <2>1
    <3> QED
      BY <1>1, <1>5, <3>1 DEF Ids
  <2> QED
    BY <2>1
<1>6. Ids(t, type, qos) = IF Head(s).type = type /\ Head(s).qos = qos
                          THEN Ids(s, type, qos) \ {Head(s).msgid}
                          ELSE Ids(s, type, qos)
  <2>1. \A x : x \in Ids(t, type, qos) <=>
            \E i \in 1..(n - 1) : t[i].type = type /\ t[i].qos = qos /\ x = t[i].msgid
    BY <1>1 DEF Ids
  <2>2. \A x : x \in Ids(s, type, qos) <=>
            \E i \in 1..n : s[i].type = type /\ s[i].qos = qos /\ x = s[i].msgid
    BY DEF Ids, n
  <2>3. ASSUME NEW x \in Ids(t, type, qos)
        PROVE  /\ x \in Ids(s, type, qos)
               /\ ~(Head(s).type = type /\ Head(s).qos = qos /\ x = Head(s).msgid)
    BY <1>4, <2>1, <2>3
  <2>4. ASSUME NEW x \in Ids(s, type, qos), x \notin Ids(t, type, qos)
        PROVE  Head(s).type = type /\ Head(s).qos = qos /\ x = Head(s).msgid
    BY <1>1, <1>5, <2>2, <2>4
  <2> QED
    BY <2>3, <2>4, Zenon
<1>7. Head(s).type = type /\ Head(s).qos = qos => Head(s).msgid \in Ids(s, type, qos)
  BY <1>1, <1>2 DEF Ids, n
<1> QED
  BY <1>3, <1>6, <1>7 DEF t

(* An acknowledgement put aside is one more in AsideIds.                   *)
LEMMA AppendAside ==
    ASSUME NEW S, NEW s \in Seq(S), NEW e \in S
    PROVE  /\ AsideIds(Append(s, e)) =
                IF e.ackType = "PUBACK" THEN AsideIds(s) \cup {e.msgid} ELSE AsideIds(s)
           /\ AsideSingle(s) /\ (e.ackType = "PUBACK" => e.msgid \notin AsideIds(s))
              => AsideSingle(Append(s, e))
<1> DEFINE t == Append(s, e)
           n == Len(s)
<1>1. /\ n \in Nat /\ Len(t) = n + 1 /\ t[n + 1] = e
      /\ \A i \in 1..n : t[i] = s[i]
  BY AppendProperties, LenProperties
<1>2. \A i \in 1..(n + 1) : i \in 1..n \/ i = n + 1
  BY <1>1
<1>3. 1..n \subseteq 1..(n + 1) /\ n + 1 \in 1..(n + 1)
  BY <1>1
<1> HIDE DEF t, n
<1>4. AsideIds(t) =
        IF e.ackType = "PUBACK" THEN AsideIds(s) \cup {e.msgid} ELSE AsideIds(s)
  BY <1>1, <1>2, <1>3, Zenon DEF AsideIds, n
<1>5. ASSUME AsideSingle(s), e.ackType = "PUBACK" => e.msgid \notin AsideIds(s)
      PROVE  AsideSingle(t)
  BY <1>1, <1>2, <1>3, <1>5 DEF AsideIds, AsideSingle, n
<1> QED
  BY <1>4, <1>5 DEF t

(* A sequence with nothing in it.                                          *)
LEMMA EmptyIds ==
    /\ \A type, qos : Ids(<<>>, type, qos) = {} /\ Single(<<>>, type, qos)
    /\ AsideIds(<<>>) = {} /\ AsideSingle(<<>>)
BY EmptySeq DEF Ids, Single, AsideIds, AsideSingle

-----------------------------------------------------------------------------
(* The acknowledgements of the client's messages                           *)

(* AckInv holds before anything is published.                              *)
LEMMA InitAckInv == Init => AckInv
BY EmptyIds DEF Init, AckInv, WriteInv, Waiting, Writing, Sent, Answered, WriteIds

(* What AckInv is about, unchanged.                                        *)
LEMMA AckUnchanged ==
    ASSUME AckInv,
           UNCHANGED <<outboundMsgs, unsent, up, pendingWrite, toBroker, fromBroker>>
    PROVE  AckInv'
BY DEF AckInv, WriteInv, Waiting, Writing, Sent, Answered

(* A step that leaves the messages alone and no PUBLISH or PUBACK behind.  *)
LEMMA AckNeutral ==
    ASSUME AckInv, WriteInv', UNCHANGED <<outboundMsgs, unsent>>,
           up' = up \/ up' = FALSE,
           Writing' = Writing, Sent' = Sent, Answered' = Answered,
           Single(toBroker, "PUBLISH", 1)', Single(fromBroker, "PUBACK", 0)'
    PROVE  AckInv'
BY DEF AckInv, Waiting

(* Writing a packet that is not a PUBLISH.                                 *)
LEMMA PutOther ==
    ASSUME TypeOK, AckInv, NEW w \in Write, w.pkt.type # "PUBLISH", w.refs = {},
           NEW result, putdatas(w, result), UNCHANGED <<outboundMsgs, unsent>>
    PROVE  /\ WriteInv' /\ Writing' = Writing /\ Sent' = Sent
           /\ Single(toBroker, "PUBLISH", 1)'
<1>1. w.pkt \in Packet /\ toBroker \in Seq(Packet)
  BY DEF Write, TypeOK
<1>2. /\ pendingWrite' = pendingWrite \/ (pendingWrite = {} /\ pendingWrite' = {w})
      /\ toBroker' = toBroker \/ toBroker' = Append(toBroker, w.pkt)
  BY DEF putdatas, sendPacket
<1>3. Sent' = Sent /\ Single(toBroker, "PUBLISH", 1)'
  <2>1. CASE toBroker' = toBroker
    BY <2>1 DEF Sent, AckInv
  <2>2. CASE toBroker' = Append(toBroker, w.pkt)
    <3>1. /\ Ids(Append(toBroker, w.pkt), "PUBLISH", 1) = Ids(toBroker, "PUBLISH", 1)
          /\ Single(Append(toBroker, w.pkt), "PUBLISH", 1)
      BY <1>1, AppendIds DEF AckInv
    <3> QED
      BY <2>2, <3>1 DEF Sent
  <2> QED
    BY <1>2, <2>1, <2>2
<1>4. WriteInv'
  BY <1>2 DEF AckInv, WriteInv
<1>5. Writing' = Writing
  BY <1>2 DEF Writing, WriteIds
<1> QED
  BY <1>3, <1>4, <1>5

(* The packet that was read, and what it takes from the PUBACKs to come.   *)
LEMMA ReceivedAck ==
    ASSUME TypeOK, AckInv, NEW type, Received(type)
    PROVE  /\ Single(fromBroker, "PUBACK", 0)'
           /\ type # "PUBACK" => Answered' = Answered
           /\ type = "PUBACK" => /\ Head(fromBroker).msgid \in Answered
                                 /\ Answered' = Answered \ {Head(fromBroker).msgid}
<1>1. /\ fromBroker \in Seq(InPacket) /\ fromBroker # <<>>
      /\ Head(fromBroker).type = type /\ fromBroker' = Tail(fromBroker)
      /\ Head(fromBroker) \in InPacket
  BY ReceivedType DEF TypeOK, Received
<1>2. type = "PUBACK" => Head(fromBroker).qos = 0
  BY <1>1 DEF InPacket, InPublish0, InPublish, InAck, Suback
<1>3. Single(fromBroker, "PUBACK", 0)
  BY DEF AckInv
<1> QED
  BY <1>1, <1>2, <1>3, TailIds DEF Answered

(* MQTTClient_publish5 keeps AckInv: the identifier is in nobody's use, so *)
(* nothing of an earlier message with it is still on its way.              *)
LEMMA PublishAck ==
    ASSUME IInv, AckInv, NEW qos \in OutQoS \ {0}, NEW p \in FreeCells,
           NEW result \in {"COMPLETE", "INTERRUPTED", "SOCKET_ERROR"},
           startPublish(qos, p, result)
    PROVE  AckInv'
<1> DEFINE id  == assignMsgId(msgID, InFlight)
           m   == [msgid |-> id, qos |-> qos, publish |-> p]
           pkt == [type |-> "PUBLISH", msgid |-> id, qos |-> qos]
           w   == [pkt |-> pkt, refs |-> {p}]
<1>1. /\ id \in MsgIds /\ id \notin InFlight
  BY AssignMsgIdFresh DEF startPublish, IInv, TypeOK
<1>2. p \in Pubs /\ refcount[p] = 0 /\ qos \in {1, 2}
  BY QoSAssumption DEF FreeCells
<1>3. /\ outboundMsgs' = outboundMsgs \cup {m}
      /\ putdatas(w, result)
      /\ unsent' = IF result = "SOCKET_ERROR" THEN unsent \cup {p} ELSE unsent
      /\ UNCHANGED <<up, fromBroker>>
  BY DEF startPublish
<1>4. pkt \in Packet
  BY <1>1, <1>2 DEF Packet
<1>5. /\ m.msgid = id /\ m.qos = qos /\ m.publish = p
      /\ w.pkt = pkt /\ w.refs = {p}
      /\ pkt.type = "PUBLISH" /\ pkt.msgid = id /\ pkt.qos = qos
  OBVIOUS
<1> HIDE DEF id, m, pkt, w
<1>6. toBroker \in Seq(Packet)
  BY DEF IInv, TypeOK
<1>7. p \notin unsent /\ \A x \in outboundMsgs : x.publish # p /\ x.msgid # id
  <2>1. \A x \in outboundMsgs : x.publish # p
    BY <1>2 DEF IInv, PublicationsExact
  <2>2. \A x \in outboundMsgs : x.msgid # id
    BY <1>1 DEF InFlight
  <2> QED
    BY <2>1, <2>2 DEF AckInv
<1>8. id \notin Writing \cup Sent \cup Answered
  BY <1>7 DEF AckInv, Waiting
<1>9. \A q \in unsent' : \E x \in outboundMsgs' : x.publish = q
  BY <1>3, <1>5 DEF AckInv
<1>10. Answered' = Answered /\ Single(fromBroker, "PUBACK", 0)'
  BY <1>3 DEF Answered, AckInv
<1>11. CASE result = "SOCKET_ERROR"
  <2>1. UNCHANGED <<pendingWrite, toBroker>> /\ unsent' = unsent \cup {p}
    BY <1>3, <1>11 DEF putdatas
  <2>2. Waiting' = Waiting
    BY <1>3, <1>5, <1>7, <2>1 DEF Waiting
  <2>3. Writing' = Writing /\ Sent' = Sent
    BY <2>1 DEF Writing, Sent
  <2>4. WriteInv'
    BY <1>3, <1>7, <2>1 DEF AckInv, WriteInv
  <2> QED
    BY <1>3, <1>9, <1>10, <2>1, <2>2, <2>3, <2>4 DEF AckInv
<1>12. CASE result # "SOCKET_ERROR"
  <2>1. unsent' = unsent
    BY <1>3, <1>12
  <2>2. Waiting' = IF qos = 1 THEN Waiting \cup {m} ELSE Waiting
    BY <1>3, <1>5, <1>7, <2>1 DEF Waiting
  <2>3. CASE result = "COMPLETE"
    <3>1. /\ pendingWrite' = pendingWrite /\ pendingWrite = {}
          /\ toBroker' = IF up THEN Append(toBroker, pkt) ELSE toBroker
      BY <1>3, <1>5, <2>3 DEF putdatas, sendPacket
    <3>2. Writing' = Writing
      BY <3>1 DEF Writing
    <3>3. WriteInv'
      BY <3>1 DEF WriteInv
    <3>4. CASE ~up
      <4>1. Sent' = Sent /\ Single(toBroker, "PUBLISH", 1)' /\ up' = up
        BY <1>3, <3>1, <3>4 DEF Sent, AckInv
      <4> QED
        BY <1>9, <1>10, <2>2, <3>2, <3>3, <3>4, <4>1 DEF AckInv
    <3>5. CASE up
      <4>1. /\ Ids(Append(toBroker, pkt), "PUBLISH", 1) =
                IF qos = 1 THEN Sent \cup {id} ELSE Sent
            /\ Single(Append(toBroker, pkt), "PUBLISH", 1)
        BY <1>4, <1>5, <1>6, <1>8, AppendIds DEF Sent, AckInv
      <4>2. /\ Sent' = IF qos = 1 THEN Sent \cup {id} ELSE Sent
            /\ Single(toBroker, "PUBLISH", 1)'
        BY <3>1, <3>5, <4>1 DEF Sent
      <4> QED
        BY <1>3, <1>5, <1>8, <1>9, <1>10, <2>2, <3>2, <3>3, <4>2 DEF AckInv
    <3> QED
      BY <3>4, <3>5
  <2>4. CASE result = "INTERRUPTED"
    <3>1. /\ pendingWrite = {} /\ pendingWrite' = {w} /\ toBroker' = toBroker
      BY <1>3, <2>4 DEF putdatas
    <3>2. Sent' = Sent /\ Single(toBroker, "PUBLISH", 1)'
      BY <3>1 DEF Sent, AckInv
    <3>3. Writing = {} /\ Writing' = IF qos = 1 THEN {id} ELSE {}
      BY <1>5, <3>1 DEF Writing, WriteIds
    <3>4. WriteInv'
      BY <1>3, <1>5, <1>7, <2>1, <3>1 DEF WriteInv
    <3> QED
      BY <1>3, <1>5, <1>8, <1>9, <1>10, <2>2, <3>2, <3>3, <3>4 DEF AckInv
  <2> QED
    BY <1>12, <2>3, <2>4
<1> QED
  BY <1>11, <1>12

(* Publishing and subscribing keep AckInv.                                 *)
LEMMA AppAck == ASSUME IInv, AckInv, App PROVE AckInv'
<1>1. CASE PublishQoS0 \/ PublishNoId
  BY <1>1, AckUnchanged DEF PublishQoS0, PublishNoId, clientVars, netVars
<1>2. CASE Publish
  BY <1>2, PublishAck DEF Publish
<1>3. CASE Subscribe
  <2> DEFINE w == [pkt |-> SubscribePacket, refs |-> {}]
  <2>1. w \in Write /\ w.pkt.type # "PUBLISH" /\ w.refs = {}
    BY DEF Write, Packet, SubscribePacket
  <2>2. \E result : putdatas(w, result)
    BY <1>3 DEF Subscribe, send_subscribe
  <2>3. UNCHANGED <<outboundMsgs, unsent, up, fromBroker>>
    BY <1>3 DEF Subscribe, clientVars
  <2> HIDE DEF w
  <2>4. WriteInv' /\ Writing' = Writing /\ Sent' = Sent /\ Single(toBroker, "PUBLISH", 1)'
    BY <2>1, <2>2, <2>3, PutOther DEF IInv
  <2>5. Answered' = Answered /\ Single(fromBroker, "PUBACK", 0)'
    BY <2>3 DEF Answered, AckInv
  <2> QED
    BY <2>3, <2>4, <2>5, AckNeutral
<1> QED
  BY <1>1, <1>2, <1>3 DEF App

(* Continuing a write keeps AckInv: the packet moves on.                   *)
LEMMA SelectAck ==
    ASSUME IInv, AckInv, ContinueWriteDone \/ ContinueWriteError \/ ReadySocket
    PROVE  AckInv'
<1>1. CASE ContinueWriteDone
  <2>1. PICK w \in pendingWrite : /\ sendPacket(w.pkt)
                                  /\ pendingWrite' = pendingWrite \ {w}
    BY <1>1 DEF ContinueWriteDone
  <2>2. UNCHANGED <<outboundMsgs, unsent, up, fromBroker>>
    BY <1>1 DEF ContinueWriteDone, clientVars
  <2>3. w.pkt \in Packet /\ toBroker \in Seq(Packet)
    BY DEF IInv, TypeOK, Write
  <2>4. pendingWrite = {w} /\ pendingWrite' = {}
    BY <2>1 DEF AckInv, WriteInv
  <2>5. /\ Writing = IF w.pkt.type = "PUBLISH" /\ w.pkt.qos = 1 THEN {w.pkt.msgid} ELSE {}
        /\ Writing' = {} /\ WriteInv'
    BY <2>4 DEF Writing, WriteIds, WriteInv
  <2>6. Answered' = Answered /\ Single(fromBroker, "PUBACK", 0)' /\ Waiting' = Waiting
    BY <2>2 DEF Answered, AckInv, Waiting
  <2>7. CASE ~up
    <3>1. Sent' = Sent /\ Single(toBroker, "PUBLISH", 1)'
      BY <2>1, <2>7 DEF sendPacket, Sent, AckInv
    <3> QED
      BY <2>2, <2>5, <2>6, <2>7, <3>1 DEF AckInv
  <2>8. CASE up
    <3>1. /\ Ids(Append(toBroker, w.pkt), "PUBLISH", 1) = Sent \cup Writing
          /\ Single(Append(toBroker, w.pkt), "PUBLISH", 1)
      BY <2>3, <2>5, AppendIds DEF Sent, AckInv
    <3>2. Sent' = Sent \cup Writing /\ Single(toBroker, "PUBLISH", 1)'
      BY <2>1, <2>8, <3>1 DEF sendPacket, Sent
    <3> QED
      BY <2>2, <2>5, <2>6, <3>2 DEF AckInv
  <2> QED
    BY <2>7, <2>8
<1>2. CASE ContinueWriteError
  <2>1. /\ ~up /\ pendingWrite' = {}
        /\ UNCHANGED <<outboundMsgs, unsent, up, toBroker, fromBroker>>
    BY <1>2 DEF ContinueWriteError, clientVars
  <2>2. Writing' = {} /\ WriteInv'
    BY <2>1 DEF Writing, WriteIds, WriteInv
  <2> QED
    BY <2>1, <2>2 DEF AckInv, Sent, Answered, Waiting
<1>3. CASE ReadySocket
  BY <1>3, AckUnchanged DEF ReadySocket, clientVars, netVars
<1> QED
  BY <1>1, <1>2, <1>3

(* Reading anything but a PUBACK keeps AckInv.                             *)
LEMMA ReceivedOther ==
    ASSUME IInv, AckInv, NEW type, Received(type), type # "PUBACK",
           UNCHANGED <<outboundMsgs, unsent, up>>,
           \/ UNCHANGED <<pendingWrite, toBroker>>
           \/ \E id \in MsgIds : \E result : send_puback(id, result)
    PROVE  AckInv'
<1>1. Answered' = Answered /\ Single(fromBroker, "PUBACK", 0)'
  BY ReceivedAck DEF IInv
<1>2. CASE UNCHANGED <<pendingWrite, toBroker>>
  <2>1. Writing' = Writing /\ Sent' = Sent /\ WriteInv' /\ Single(toBroker, "PUBLISH", 1)'
    BY <1>2 DEF Writing, Sent, WriteInv, AckInv
  <2> QED
    BY <1>1, <2>1, AckNeutral
<1>3. ASSUME NEW id \in MsgIds, NEW result, send_puback(id, result)
      PROVE  AckInv'
  <2> DEFINE w == [pkt |-> [type |-> "PUBACK", msgid |-> id, qos |-> 0], refs |-> {}]
  <2>1. w \in Write /\ w.pkt.type # "PUBLISH" /\ w.refs = {}
    BY DEF Write, Packet
  <2>2. putdatas(w, result)
    BY <1>3 DEF send_puback
  <2> HIDE DEF w
  <2>3. WriteInv' /\ Writing' = Writing /\ Sent' = Sent /\ Single(toBroker, "PUBLISH", 1)'
    BY <2>1, <2>2, PutOther DEF IInv
  <2> QED
    BY <1>1, <2>3, AckNeutral
<1> QED
  BY <1>2, <1>3

(* Reading a PUBACK keeps AckInv: its message is the one that waits for it, *)
(* and nothing else is on its way for that identifier.                     *)
LEMMA PubackAck == ASSUME IInv, AckInv, HandlePuback PROVE AckInv'
<1> DEFINE id == Head(fromBroker).msgid
<1>1. /\ Received("PUBACK")
      /\ UNCHANGED <<pendingWrite, up, toBroker, unsent>>
  BY DEF HandlePuback
<1>2. id \in Answered /\ Answered' = Answered \ {id} /\ Single(fromBroker, "PUBACK", 0)'
  BY <1>1, ReceivedAck DEF IInv
<1>3. PICK m \in Waiting : m.msgid = id
  BY <1>2 DEF AckInv
<1>4. m \in outboundMsgs /\ m.qos = 1 /\ m.publish \notin unsent
  BY DEF Waiting
<1> HIDE DEF id
<1>5. findMessage(id) = {m}
  BY <1>3, <1>4 DEF findMessage, IInv, InFlightIdsUnique
<1>6. outboundMsgs' = outboundMsgs \ {m}
  BY <1>4, <1>5 DEF HandlePuback, id
<1>7. Writing' = Writing /\ Sent' = Sent /\ Single(toBroker, "PUBLISH", 1)'
  BY <1>1 DEF Writing, Sent, AckInv
<1>8. id \notin Writing /\ id \notin Sent
  BY <1>2 DEF AckInv
<1>9. WriteInv'
  <2> SUFFICES ASSUME NEW w \in pendingWrite
               PROVE  \/ w.pkt.type # "PUBLISH" /\ w.refs = {}
                      \/ w.pkt.type = "PUBLISH"
                         /\ \E x \in outboundMsgs \ {m} :
                            /\ x.msgid = w.pkt.msgid /\ x.qos = w.pkt.qos
                            /\ w.refs = {x.publish} /\ x.publish \notin unsent
    BY <1>1, <1>6 DEF AckInv, WriteInv
  <2>1. CASE w.pkt.type # "PUBLISH" /\ w.refs = {}
    BY <2>1
  <2>2. CASE w.pkt.type = "PUBLISH" /\ \E x \in outboundMsgs :
                /\ x.msgid = w.pkt.msgid /\ x.qos = w.pkt.qos
                /\ w.refs = {x.publish} /\ x.publish \notin unsent
    <3>1. PICK x \in outboundMsgs :
                /\ x.msgid = w.pkt.msgid /\ x.qos = w.pkt.qos
                /\ w.refs = {x.publish} /\ x.publish \notin unsent
      BY <2>2
    <3>2. x # m
      BY <1>3, <1>4, <1>8, <2>2, <3>1 DEF Writing, WriteIds
    <3> QED
      BY <2>2, <3>1, <3>2
  <2> QED
    BY <2>1, <2>2 DEF AckInv, WriteInv
<1>10. Waiting' = Waiting \ {m}
  BY <1>1, <1>6 DEF Waiting
<1>11. \A x \in Waiting : x.msgid = id => x = m
  BY <1>3, <1>4 DEF Waiting, IInv, InFlightIdsUnique
<1>12. \A q \in unsent' : \E x \in outboundMsgs' : x.publish = q
  BY <1>1, <1>4, <1>6 DEF AckInv
<1>13. /\ Writing' \cup Sent' \cup Answered' \subseteq {x.msgid : x \in Waiting'}
       /\ up' => \A x \in Waiting' : x.msgid \in Writing' \cup Sent' \cup Answered'
  BY <1>1, <1>2, <1>3, <1>7, <1>8, <1>10, <1>11 DEF AckInv
<1> QED
  BY <1>2, <1>7, <1>9, <1>12, <1>13 DEF AckInv

(* The broker's answer to a QoS 1 PUBLISH takes over from the PUBLISH; the *)
(* loss of the connection only takes packets away.                         *)
LEMMA EnvironmentAck ==
    ASSUME IInv, AckInv, BrokerReceive \/ BrokerPublish \/ LoseConnection
    PROVE  AckInv'
<1>0. toBroker \in Seq(Packet) /\ fromBroker \in Seq(InPacket) /\ TypeOK'
  BY EnvironmentStep DEF IInv, TypeOK
<1>1. CASE BrokerReceive
  <2> DEFINE pkt == Head(toBroker)
             answer == [type |-> IF pkt.qos = 1 THEN "PUBACK" ELSE "PUBREC",
                        msgid |-> pkt.msgid, qos |-> 0, payload |-> 0]
             isPub1 == pkt.type = "PUBLISH" /\ pkt.qos = 1
  <2>1. /\ toBroker # <<>> /\ toBroker' = Tail(toBroker)
        /\ UNCHANGED <<outboundMsgs, unsent, up, pendingWrite>>
    BY <1>1 DEF BrokerReceive, clientVars
  <2>2. /\ Sent' = IF isPub1 THEN Sent \ {pkt.msgid} ELSE Sent
        /\ isPub1 => pkt.msgid \in Sent
        /\ Single(toBroker, "PUBLISH", 1)'
    BY <1>0, <2>1, TailIds DEF Sent, AckInv
  <2>3. Writing' = Writing /\ WriteInv' /\ Waiting' = Waiting
    BY <2>1 DEF Writing, WriteInv, Waiting, AckInv
  <2>4. pkt \in Packet
    BY <1>0, <2>1
  <2>5. /\ Suback \in InPacket /\ Suback.type # "PUBACK"
        /\ pkt.type = "PUBLISH" => answer \in InPacket
    BY <2>4 DEF Packet, SubscribePacket, InPacket, InAck, Suback
  <2>6. answer.type = "PUBACK" <=> pkt.qos = 1
    OBVIOUS
  <2>7. answer.qos = 0 /\ answer.msgid = pkt.msgid
    OBVIOUS
  <2>8. /\ pkt.type # "PUBLISH" =>
                \/ fromBroker' = Append(fromBroker, Suback)
                \/ UNCHANGED fromBroker
        /\ pkt.type = "PUBLISH" => fromBroker' = Append(fromBroker, answer)
    BY <1>1 DEF BrokerReceive
  <2> HIDE DEF pkt, answer
  <2>9. /\ Answered' = IF isPub1 THEN Answered \cup {pkt.msgid} ELSE Answered
        /\ Single(fromBroker, "PUBACK", 0)'
    <3>1. CASE UNCHANGED fromBroker /\ ~isPub1
      BY <3>1 DEF Answered, AckInv
    <3>2. CASE fromBroker' = Append(fromBroker, Suback) /\ ~isPub1
      <4>1. /\ Ids(Append(fromBroker, Suback), "PUBACK", 0) = Answered
            /\ Single(Append(fromBroker, Suback), "PUBACK", 0)
        BY <1>0, <2>5, AppendIds DEF Answered, AckInv
      <4> QED
        BY <3>2, <4>1 DEF Answered
    <3>3. CASE fromBroker' = Append(fromBroker, answer) /\ pkt.type = "PUBLISH"
      <4>1. isPub1 => pkt.msgid \notin Answered
        BY <2>2 DEF AckInv
      <4>2. /\ Ids(Append(fromBroker, answer), "PUBACK", 0) =
                    IF isPub1 THEN Answered \cup {pkt.msgid} ELSE Answered
            /\ Single(Append(fromBroker, answer), "PUBACK", 0)
        BY <1>0, <2>5, <2>6, <2>7, <3>3, <4>1, AppendIds DEF Answered, AckInv
      <4> QED
        BY <3>3, <4>2 DEF Answered
    <3> QED
      BY <2>8, <3>1, <3>2, <3>3
  <2> HIDE DEF isPub1
  <2> QED
    BY <2>1, <2>2, <2>3, <2>9 DEF AckInv
<1>2. CASE BrokerPublish
  <2>1. PICK q : fromBroker' = Append(fromBroker, q) /\ q.type = "PUBLISH"
    BY <1>2 DEF BrokerPublish
  <2>2. UNCHANGED <<outboundMsgs, unsent, up, pendingWrite, toBroker>>
    BY <1>2 DEF BrokerPublish, clientVars
  <2>3. /\ Ids(Append(fromBroker, q), "PUBACK", 0) = Answered
        /\ Single(Append(fromBroker, q), "PUBACK", 0)
    <3>1. fromBroker \in Seq(InPacket \cup {q})
      BY <1>0, SeqMonotonic
    <3> QED
      BY <2>1, <3>1, AppendIds DEF Answered, AckInv
  <2>4. Answered' = Answered /\ Single(fromBroker, "PUBACK", 0)'
    BY <2>1, <2>3 DEF Answered
  <2>5. Writing' = Writing /\ Sent' = Sent /\ WriteInv' /\ Single(toBroker, "PUBLISH", 1)'
    BY <2>2 DEF Writing, Sent, WriteInv, AckInv
  <2> QED
    BY <2>2, <2>4, <2>5, AckNeutral
<1>3. CASE LoseConnection
  <2>1. /\ toBroker' = <<>> /\ up' = FALSE
        /\ fromBroker' = fromBroker \/ fromBroker' = <<>>
        /\ UNCHANGED <<outboundMsgs, unsent, pendingWrite>>
    BY <1>3 DEF LoseConnection, clientVars
  <2>2. Sent' = {} /\ Single(toBroker, "PUBLISH", 1)'
    BY <2>1, EmptyIds DEF Sent
  <2>3. Answered' \subseteq Answered /\ Single(fromBroker, "PUBACK", 0)'
    BY <2>1, EmptyIds DEF Answered, AckInv
  <2>4. Writing' = Writing /\ WriteInv' /\ Waiting' = Waiting
    BY <2>1 DEF Writing, WriteInv, Waiting, AckInv
  <2> QED
    BY <2>1, <2>2, <2>3, <2>4 DEF AckInv
<1> QED
  BY <1>1, <1>2, <1>3

(* AckInv is inductive.                                                    *)
LEMMA NextAckInv == IInv /\ AckInv /\ [Next]_vars => AckInv'
<1> SUFFICES ASSUME IInv, AckInv, [Next]_vars PROVE AckInv'
  OBVIOUS
<1>1. CASE UNCHANGED vars
  BY <1>1, AckUnchanged DEF vars, clientVars, netVars
<1>2. CASE CycleInterrupted \/ CycleError
  BY <1>2, AckUnchanged DEF CycleInterrupted, CycleError, clientVars, netVars
<1>3. CASE HandlePublish0 \/ HandlePublish2
  <2>1. Received("PUBLISH") /\ UNCHANGED <<outboundMsgs, unsent, up, pendingWrite, toBroker>>
    BY <1>3 DEF HandlePublish0, HandlePublish2
  <2> QED
    BY <2>1, ReceivedOther
<1>4. CASE HandlePublish1
  <2>1. Received("PUBLISH") /\ UNCHANGED <<outboundMsgs, unsent, up>>
    BY <1>4 DEF HandlePublish1
  <2>2. Head(fromBroker).msgid \in MsgIds
    BY <1>4, <2>1, ReceivedType, PublishFields, InIdsAssumption
    DEF HandlePublish1, IInv, MsgIds
  <2>3. \/ UNCHANGED <<pendingWrite, toBroker>>
        \/ \E id \in MsgIds : \E result : send_puback(id, result)
    BY <1>4, <2>2 DEF HandlePublish1
  <2> QED
    BY <2>1, <2>3, ReceivedOther
<1>5. CASE IgnorePubrec \/ IgnoreSuback
  <2>1. /\ Received("PUBREC") \/ Received("SUBACK")
        /\ UNCHANGED <<outboundMsgs, unsent, up, pendingWrite, toBroker>>
    BY <1>5 DEF IgnorePubrec, IgnoreSuback, clientVars
  <2> QED
    BY <2>1, ReceivedOther
<1>6. CASE Dispatch \/ MessageArrivedReturns
  BY <1>6, AckUnchanged
  DEF Dispatch, DispatchNothing, CallMessageArrived, MessageArrivedReturns, clientVars,
      netVars
<1> QED
  BY <1>1, <1>2, <1>3, <1>4, <1>5, <1>6, AppAck, SelectAck, PubackAck, EnvironmentAck
  DEF Next, RunThread, Cycle

(* How many elements a set has that has at most one.                       *)
LEMMA AtMostOne ==
    ASSUME NEW S, \A x, y \in S : x = y
    PROVE  Cardinality(S) = IF S = {} THEN 0 ELSE 1
<1>1. CASE S = {}
  BY <1>1, FS_EmptySet
<1>2. CASE S # {}
  <2>1. PICK x : S = {x}
    BY <1>2
  <2> QED
    BY <1>2, <2>1, FS_Singleton
<1> QED
  BY <1>1, <1>2

(* The packets with identifier id are as many as Ids says.                 *)
LEMMA CountIds ==
    ASSUME NEW S, NEW s \in Seq(S), NEW type, NEW qos, NEW id, Single(s, type, qos)
    PROVE  Cardinality({i \in DOMAIN s : /\ s[i].type = type /\ s[i].qos = qos
                                         /\ s[i].msgid = id})
             = IF id \in Ids(s, type, qos) THEN 1 ELSE 0
<1> DEFINE C == {i \in DOMAIN s : /\ s[i].type = type /\ s[i].qos = qos
                                  /\ s[i].msgid = id}
<1>1. DOMAIN s = 1..Len(s)
  BY LenProperties
<1>2. \A x, y \in C : x = y
  BY <1>1 DEF Single
<1>3. C = {} <=> id \notin Ids(s, type, qos)
  BY <1>1 DEF Ids
<1> HIDE DEF C
<1>4. Cardinality(C) = IF C = {} THEN 0 ELSE 1
  BY <1>2, AtMostOne
<1> QED
  BY <1>3, <1>4 DEF C

(* The invariants make the count come out.                                 *)
LEMMA AckCount == IInv /\ AckInv => AckAccounting
<1> SUFFICES ASSUME IInv, AckInv, up, NEW id \in MsgIds
             PROVE  AcksToCome(id) =
                        Cardinality({m \in outboundMsgs :
                            m.msgid = id /\ m.qos = 1 /\ m.publish \notin unsent})
  BY DEF AckAccounting
<1> DEFINE W == {w \in pendingWrite :
                    w.pkt.type = "PUBLISH" /\ w.pkt.qos = 1 /\ w.pkt.msgid = id}
           T == {i \in DOMAIN toBroker :
                    /\ toBroker[i].type = "PUBLISH" /\ toBroker[i].qos = 1
                    /\ toBroker[i].msgid = id}
           F == {i \in DOMAIN fromBroker :
                    fromBroker[i].type = "PUBACK" /\ fromBroker[i].msgid = id}
           M == {m \in outboundMsgs :
                    m.msgid = id /\ m.qos = 1 /\ m.publish \notin unsent}
<1>1. toBroker \in Seq(Packet) /\ fromBroker \in Seq(InPacket)
  BY DEF IInv, TypeOK
<1>2. Cardinality(W) = IF id \in Writing THEN 1 ELSE 0
  <2>1. \A x, y \in W : x = y
    BY DEF AckInv, WriteInv
  <2>2. W = {} <=> id \notin Writing
    BY DEF Writing, WriteIds
  <2> HIDE DEF W
  <2> QED
    BY <2>1, <2>2, AtMostOne
<1>3. Cardinality(T) = IF id \in Sent THEN 1 ELSE 0
  BY <1>1, CountIds DEF Sent, AckInv
<1>4. Cardinality(F) = IF id \in Answered THEN 1 ELSE 0
  <2>1. \A i \in DOMAIN fromBroker : fromBroker[i].type = "PUBACK" => fromBroker[i].qos = 0
    <3>1. \A i \in DOMAIN fromBroker : fromBroker[i] \in InPacket
      BY <1>1, ElementOfSeq, LenProperties
    <3> QED
      BY <3>1 DEF InPacket, InPublish0, InPublish, InAck, Suback
  <2>2. F = {i \in DOMAIN fromBroker : /\ fromBroker[i].type = "PUBACK"
                                       /\ fromBroker[i].qos = 0
                                       /\ fromBroker[i].msgid = id}
    BY <2>1
  <2> HIDE DEF F
  <2> QED
    BY <1>1, <2>2, CountIds DEF Answered, AckInv
<1>5. Cardinality(M) = IF \E m \in Waiting : m.msgid = id THEN 1 ELSE 0
  <2>1. \A x, y \in M : x = y
    BY DEF IInv, InFlightIdsUnique
  <2>2. M = {} <=> ~\E m \in Waiting : m.msgid = id
    BY DEF Waiting
  <2> HIDE DEF M
  <2> QED
    BY <2>1, <2>2, AtMostOne
<1>6. /\ (\E m \in Waiting : m.msgid = id) <=> id \in Writing \cup Sent \cup Answered
      /\ ~(id \in Writing /\ id \in Sent) /\ ~(id \in Writing /\ id \in Answered)
      /\ ~(id \in Sent /\ id \in Answered)
  BY DEF AckInv
<1>7. AcksToCome(id) = Cardinality(W) + Cardinality(T) + Cardinality(F)
  BY DEF AcksToCome
<1> HIDE DEF W, T, F, M
<1>8. Cardinality(W) + Cardinality(T) + Cardinality(F) = Cardinality(M)
  BY <1>2, <1>3, <1>4, <1>5, <1>6
<1> QED
  BY <1>7, <1>8 DEF M

(* While the connection is up, exactly one acknowledgement is to come for  *)
(* each QoS 1 message whose publish5 did not fail: deliveryComplete is     *)
(* called once for each (MQTTClient.c:495-503).                            *)
THEOREM OneAckEach == Spec => []AckAccounting
BY InductiveInvariant, InitAckInv, NextAckInv, AckCount, PTL DEF Spec

(* The buffers of an interrupted write are those of a message in flight.   *)
LEMMA BuffersLive == IInv /\ AckInv => PendingWriteBuffersLive
BY DEF IInv, AckInv, WriteInv, PublicationsExact, TypeOK, OutMsg, PendingWriteBuffersLive

(* The topic and payload of an interrupted write are not freed before it is *)
(* finished (MQTTProtocol.c:93-95, 271).                                   *)
THEOREM NoUseAfterFreeInWrite == Spec => []PendingWriteBuffersLive
BY InductiveInvariant, InitAckInv, NextAckInv, BuffersLive, PTL DEF Spec

-----------------------------------------------------------------------------
(* The acknowledgements of the broker's messages                           *)

(* InboundAckInv holds before the broker has published anything.           *)
LEMMA InitInboundAckInv == Init => InboundAckInv
<1> SUFFICES ASSUME Init PROVE InboundAckInv
  OBVIOUS
<1>1. Unread = {} /\ Aside = {} /\ AckWrite = {} /\ Acked = {} /\ broker.awaiting = {}
  BY EmptyIds DEF Init, Unread, Aside, AckWrite, Acked, WriteIds
<1> QED
  BY <1>1, EmptyIds DEF Init, InboundAckInv

(* A step that moves no acknowledgement.                                   *)
LEMMA InboundUnchanged ==
    ASSUME InboundAckInv,
           UNCHANGED <<up, fromBroker, outboundQueue, pendingWrite, toBroker, broker>>
    PROVE  InboundAckInv'
BY DEF InboundAckInv, Unread, Aside, AckWrite, Acked

(* Writing a packet that is not a PUBACK.                                  *)
LEMMA PutNoAck ==
    ASSUME TypeOK, up, InboundAckInv, NEW w \in Write, w.pkt.type # "PUBACK",
           NEW result, putdatas(w, result)
    PROVE  AckWrite' = AckWrite /\ Acked' = Acked /\ Single(toBroker, "PUBACK", 0)'
<1>1. w.pkt \in Packet /\ toBroker \in Seq(Packet)
  BY DEF Write, TypeOK
<1>2. /\ pendingWrite' = pendingWrite \/ (pendingWrite = {} /\ pendingWrite' = {w})
      /\ toBroker' = toBroker \/ toBroker' = Append(toBroker, w.pkt)
  BY DEF putdatas, sendPacket
<1>3. Acked' = Acked /\ Single(toBroker, "PUBACK", 0)'
  <2>1. CASE toBroker' = toBroker
    BY <2>1 DEF Acked, InboundAckInv
  <2>2. CASE toBroker' = Append(toBroker, w.pkt)
    <3>1. /\ Ids(Append(toBroker, w.pkt), "PUBACK", 0) = Ids(toBroker, "PUBACK", 0)
          /\ Single(Append(toBroker, w.pkt), "PUBACK", 0)
      BY <1>1, AppendIds DEF InboundAckInv
    <3> QED
      BY <2>2, <3>1 DEF Acked
  <2> QED
    BY <1>2, <2>1, <2>2
<1>4. AckWrite' = AckWrite
  BY <1>2 DEF AckWrite, WriteIds
<1> QED
  BY <1>3, <1>4

(* Publishing and subscribing keep InboundAckInv.                          *)
LEMMA AppInbound == ASSUME IInv, InboundAckInv, App PROVE InboundAckInv'
<1>1. CASE PublishQoS0 \/ PublishNoId
  BY <1>1, InboundUnchanged DEF PublishQoS0, PublishNoId, clientVars, netVars
<1>2. CASE Publish \/ Subscribe
  <2>1. UNCHANGED <<up, fromBroker, outboundQueue, broker>>
    BY <1>2 DEF Publish, startPublish, Subscribe, clientVars
  <2>2. SUFFICES ASSUME up PROVE InboundAckInv'
    BY <2>1 DEF InboundAckInv
  <2>3. \E w \in Write : \E result : w.pkt.type # "PUBACK" /\ putdatas(w, result)
    <3>1. CASE Subscribe
      <4> DEFINE w == [pkt |-> SubscribePacket, refs |-> {}]
      <4>1. w \in Write /\ w.pkt.type # "PUBACK"
        BY DEF Write, Packet, SubscribePacket
      <4>2. \E result : putdatas(w, result)
        BY <3>1 DEF Subscribe, send_subscribe
      <4> HIDE DEF w
      <4> QED
        BY <4>1, <4>2
    <3>2. CASE Publish
      <4>1. PICK qos \in OutQoS \ {0}, p \in FreeCells,
                 result \in {"COMPLETE", "INTERRUPTED", "SOCKET_ERROR"} :
                startPublish(qos, p, result)
        BY <3>2 DEF Publish
      <4> DEFINE id == assignMsgId(msgID, InFlight)
                 w == [pkt  |-> [type |-> "PUBLISH", msgid |-> id, qos |-> qos],
                       refs |-> {p}]
      <4>2. id \in MsgIds
        BY <4>1, AssignMsgIdFresh DEF startPublish, IInv, TypeOK
      <4>3. putdatas(w, result)
        BY <4>1 DEF startPublish
      <4>4. w \in Write /\ w.pkt.type # "PUBACK"
        <5>1. qos \in {1, 2} /\ p \in Pubs
          BY QoSAssumption DEF FreeCells
        <5> QED
          BY <4>2, <5>1 DEF Write, Packet
      <4> HIDE DEF w
      <4> QED
        BY <4>3, <4>4
    <3> QED
      BY <1>2, <3>1, <3>2
  <2>4. AckWrite' = AckWrite /\ Acked' = Acked /\ Single(toBroker, "PUBACK", 0)'
    BY <2>2, <2>3, PutNoAck DEF IInv
  <2> QED
    BY <2>1, <2>2, <2>4 DEF InboundAckInv, Unread, Aside
<1> QED
  BY <1>1, <1>2 DEF App

(* Continuing a write keeps InboundAckInv.                                 *)
LEMMA SelectInbound ==
    ASSUME IInv, WriteInv, InboundAckInv,
           ContinueWriteDone \/ ContinueWriteError \/ ReadySocket
    PROVE  InboundAckInv'
<1>1. CASE ContinueWriteDone
  <2>1. PICK w \in pendingWrite : /\ sendPacket(w.pkt)
                                  /\ pendingWrite' = pendingWrite \ {w}
    BY <1>1 DEF ContinueWriteDone
  <2>2. UNCHANGED <<up, fromBroker, outboundQueue, broker>>
    BY <1>1 DEF ContinueWriteDone, clientVars
  <2>3. SUFFICES ASSUME up PROVE InboundAckInv'
    BY <2>2 DEF InboundAckInv
  <2>4. w.pkt \in Packet /\ toBroker \in Seq(Packet)
    BY DEF IInv, TypeOK, Write
  <2>5. pendingWrite = {w} /\ pendingWrite' = {}
    BY <2>1 DEF WriteInv
  <2>6. /\ AckWrite = IF w.pkt.type = "PUBACK" /\ w.pkt.qos = 0 THEN {w.pkt.msgid} ELSE {}
        /\ AckWrite' = {}
    BY <2>5 DEF AckWrite, WriteIds
  <2>7. /\ Ids(Append(toBroker, w.pkt), "PUBACK", 0) = Acked \cup AckWrite
        /\ Single(Append(toBroker, w.pkt), "PUBACK", 0)
    BY <2>3, <2>4, <2>6, AppendIds DEF Acked, InboundAckInv
  <2>8. Acked' = Acked \cup AckWrite /\ Single(toBroker, "PUBACK", 0)'
    BY <2>1, <2>3, <2>7 DEF sendPacket, Acked
  <2>9. Unread' = Unread /\ Aside' = Aside
    BY <2>2 DEF Unread, Aside
  <2> QED
    BY <2>2, <2>3, <2>6, <2>8, <2>9 DEF InboundAckInv
<1>2. CASE ContinueWriteError
  BY <1>2 DEF ContinueWriteError, InboundAckInv
<1>3. CASE ReadySocket
  BY <1>3, InboundUnchanged DEF ReadySocket, clientVars, netVars
<1> QED
  BY <1>1, <1>2, <1>3

(* A packet that was read, and what it takes from the unread ones.         *)
LEMMA ReceivedInbound ==
    ASSUME TypeOK, up, InboundAckInv, NEW type, Received(type)
    PROVE  /\ Single(fromBroker, "PUBLISH", 1)'
           /\ ~(type = "PUBLISH" /\ Head(fromBroker).qos = 1) => Unread' = Unread
           /\ type = "PUBLISH" /\ Head(fromBroker).qos = 1
                => /\ Head(fromBroker).msgid \in Unread
                   /\ Unread' = Unread \ {Head(fromBroker).msgid}
<1>1. /\ fromBroker \in Seq(InPacket) /\ fromBroker # <<>>
      /\ Head(fromBroker).type = type /\ fromBroker' = Tail(fromBroker)
  BY DEF TypeOK, Received
<1>2. Single(fromBroker, "PUBLISH", 1)
  BY DEF InboundAckInv
<1> QED
  BY <1>1, <1>2, TailIds DEF Unread

(* Reading a packet that asks for no PUBACK.                               *)
LEMMA ReceivedNoAck ==
    ASSUME IInv, InboundAckInv, NEW type, Received(type),
           ~(type = "PUBLISH" /\ Head(fromBroker).qos = 1),
           UNCHANGED <<up, pendingWrite, toBroker, broker>>,
           Aside' = Aside, AsideSingle(outboundQueue) => AsideSingle(outboundQueue)'
    PROVE  InboundAckInv'
<1>1. SUFFICES ASSUME up PROVE InboundAckInv'
  BY DEF InboundAckInv
<1>2. Unread' = Unread /\ Single(fromBroker, "PUBLISH", 1)'
  BY <1>1, ReceivedInbound DEF IInv
<1>3. AckWrite' = AckWrite /\ Acked' = Acked
  BY DEF AckWrite, Acked
<1> QED
  BY <1>1, <1>2, <1>3 DEF InboundAckInv

(* Reading a QoS 1 PUBLISH keeps InboundAckInv: its PUBACK is put aside,   *)
(* written, or begun, and only a broken connection loses it.               *)
LEMMA Publish1Inbound == ASSUME IInv, InboundAckInv, HandlePublish1 PROVE InboundAckInv'
<1> DEFINE id  == Head(fromBroker).msgid
           pkt == [type |-> "PUBACK", msgid |-> id, qos |-> 0]
           w   == [pkt |-> pkt, refs |-> {}]
<1>1. /\ Received("PUBLISH") /\ Head(fromBroker).qos = 1
      /\ UNCHANGED <<up, broker>>
  BY DEF HandlePublish1
<1>2. SUFFICES ASSUME up PROVE InboundAckInv'
  BY <1>1 DEF InboundAckInv
<1>3. id \in Unread /\ Unread' = Unread \ {id} /\ Single(fromBroker, "PUBLISH", 1)'
  BY <1>1, <1>2, ReceivedInbound DEF IInv
<1>4. id \notin Aside /\ id \notin AckWrite /\ id \notin Acked
  BY <1>2, <1>3 DEF InboundAckInv
<1>5. id \in InIds /\ id \in MsgIds
  BY <1>1, ReceivedType, PublishFields, InIdsAssumption DEF IInv, MsgIds
<1>6. /\ toBroker \in Seq(Packet) /\ pkt \in Packet
      /\ pkt.type = "PUBACK" /\ pkt.qos = 0 /\ pkt.msgid = id /\ w.pkt = pkt
  BY <1>5 DEF IInv, TypeOK, Packet
<1> HIDE DEF id
<1>7. CASE pendingWrite # {}
  <2> DEFINE a == [ackType |-> "PUBACK", msgid |-> id]
  <2>1. outboundQueue' = Append(outboundQueue, a) /\ UNCHANGED <<pendingWrite, toBroker>>
    BY <1>7 DEF HandlePublish1, queueAck, id
  <2>2. a \in AckRequest /\ a.ackType = "PUBACK" /\ a.msgid = id
        /\ outboundQueue \in Seq(AckRequest)
    BY <1>5 DEF AckRequest, IInv, TypeOK
  <2> HIDE DEF a
  <2>3. AsideIds(Append(outboundQueue, a)) = Aside \cup {id}
        /\ AsideSingle(Append(outboundQueue, a))
    BY <1>2, <1>4, <2>2, AppendAside DEF Aside, InboundAckInv
  <2>4. Aside' = Aside \cup {id} /\ AsideSingle(outboundQueue)'
    BY <2>1, <2>3 DEF Aside
  <2>5. AckWrite' = AckWrite /\ Acked' = Acked
    BY <2>1 DEF AckWrite, Acked
  <2> QED
    BY <1>1, <1>2, <1>3, <1>4, <2>1, <2>4, <2>5 DEF InboundAckInv
<1>8. CASE pendingWrite = {}
  <2>1. UNCHANGED outboundQueue /\ \E result : putdatas(w, result)
    BY <1>8 DEF HandlePublish1, send_puback, id
  <2> HIDE DEF w, pkt
  <2>2. \/ pendingWrite' = pendingWrite /\ toBroker' = Append(toBroker, pkt)
        \/ pendingWrite' = {w} /\ toBroker' = toBroker
    BY <1>2, <1>6, <1>8, <2>1 DEF putdatas, sendPacket
  <2>3. Aside' = Aside
    BY <2>1 DEF Aside
  <2>4. AckWrite = {}
    BY <1>8 DEF AckWrite, WriteIds
  <2>5. CASE pendingWrite' = pendingWrite /\ toBroker' = Append(toBroker, pkt)
    <3>1. /\ Ids(Append(toBroker, pkt), "PUBACK", 0) = Acked \cup {id}
          /\ Single(Append(toBroker, pkt), "PUBACK", 0)
      BY <1>2, <1>4, <1>6, AppendIds DEF Acked, InboundAckInv
    <3>2. Acked' = Acked \cup {id} /\ Single(toBroker, "PUBACK", 0)' /\ AckWrite' = AckWrite
      BY <2>5, <3>1 DEF Acked, AckWrite
    <3> QED
      BY <1>1, <1>2, <1>3, <1>4, <2>1, <2>3, <3>2 DEF InboundAckInv
  <2>6. CASE pendingWrite' = {w} /\ toBroker' = toBroker
    <3>1. AckWrite' = {id}
      BY <1>6, <2>6 DEF AckWrite, WriteIds
    <3>2. Acked' = Acked /\ Single(toBroker, "PUBACK", 0)'
      BY <1>2, <2>6 DEF Acked, InboundAckInv
    <3> QED
      BY <1>1, <1>2, <1>3, <1>4, <2>1, <2>3, <2>4, <3>1, <3>2 DEF InboundAckInv
  <2> QED
    BY <2>2, <2>5, <2>6
<1> QED
  BY <1>7, <1>8

(* The broker takes a PUBACK out, and adds a message whose identifier it   *)
(* does not wait for.                                                      *)
LEMMA EnvironmentInbound ==
    ASSUME IInv, InboundAckInv, BrokerReceive \/ BrokerPublish \/ LoseConnection
    PROVE  InboundAckInv'
<1>0. /\ toBroker \in Seq(Packet) /\ fromBroker \in Seq(InPacket)
      /\ broker \in [sent : 0..MaxIn, low : Seq(1..MaxIn), awaiting : SUBSET InIds]
  BY DEF IInv, TypeOK
<1>1. CASE BrokerReceive
  <2> DEFINE pkt == Head(toBroker)
             answer == [type |-> IF pkt.qos = 1 THEN "PUBACK" ELSE "PUBREC",
                        msgid |-> pkt.msgid, qos |-> 0, payload |-> 0]
  <2>1. /\ up /\ toBroker # <<>> /\ toBroker' = Tail(toBroker)
        /\ UNCHANGED <<up, outboundQueue, pendingWrite>>
    BY <1>1 DEF BrokerReceive, clientVars
  <2>2. pkt \in Packet /\ (pkt.type = "PUBACK" => pkt.qos = 0)
    BY <1>0, <2>1 DEF Packet, SubscribePacket
  <2>3. /\ pkt.type = "PUBACK" => /\ broker'.awaiting = broker.awaiting \ {pkt.msgid}
                                  /\ UNCHANGED fromBroker
        /\ pkt.type # "PUBACK" =>
            /\ UNCHANGED broker
            /\ \E q \in {answer, Suback} : fromBroker' = Append(fromBroker, q)
    BY <1>0, <1>1 DEF BrokerReceive
  <2>4. answer.type # "PUBLISH" /\ Suback.type # "PUBLISH"
    BY DEF Suback
  <2>5. Aside' = Aside /\ AckWrite' = AckWrite
    BY <2>1 DEF Aside, AckWrite
  <2>6. /\ Acked' = IF pkt.type = "PUBACK" /\ pkt.qos = 0 THEN Acked \ {pkt.msgid} ELSE Acked
        /\ pkt.type = "PUBACK" /\ pkt.qos = 0 => pkt.msgid \in Acked
        /\ Single(toBroker, "PUBACK", 0)'
    BY <1>0, <2>1, TailIds DEF Acked, InboundAckInv
  <2> HIDE DEF pkt, answer
  <2>7. CASE pkt.type = "PUBACK"
    <3>1. Unread' = Unread
      BY <2>3, <2>7 DEF Unread
    <3> QED
      BY <2>1, <2>2, <2>3, <2>5, <2>6, <2>7, <3>1 DEF InboundAckInv
  <2>8. CASE pkt.type # "PUBACK"
    <3>1. PICK q \in {answer, Suback} : fromBroker' = Append(fromBroker, q)
      BY <2>3, <2>8
    <3>2. fromBroker \in Seq(InPacket \cup {q})
      BY <1>0, SeqMonotonic
    <3>3. /\ Ids(Append(fromBroker, q), "PUBLISH", 1) = Unread
          /\ Single(Append(fromBroker, q), "PUBLISH", 1)
      BY <2>1, <2>4, <3>2, AppendIds DEF Unread, InboundAckInv
    <3>4. Unread' = Unread /\ Single(fromBroker, "PUBLISH", 1)'
      BY <3>1, <3>3 DEF Unread
    <3> QED
      BY <2>1, <2>3, <2>5, <2>6, <2>8, <3>4 DEF InboundAckInv
  <2> QED
    BY <2>7, <2>8
<1>2. CASE BrokerPublish
  <2>1. up /\ UNCHANGED <<up, outboundQueue, pendingWrite, toBroker>>
    BY <1>2 DEF BrokerPublish, clientVars
  <2> DEFINE Published(q, qos, id) ==
             /\ qos = 1 => id \notin broker.awaiting
             /\ q.type = "PUBLISH" /\ q.qos = qos /\ q.msgid = IF qos = 0 THEN 0 ELSE id
             /\ fromBroker' = Append(fromBroker, q)
             /\ broker'.awaiting = IF qos = 1 THEN broker.awaiting \cup {id}
                                   ELSE broker.awaiting
  <2>2. \E q : \E qos \in InQoS, id \in InIds : Published(q, qos, id)
    <3> DEFINE n == broker.sent + 1
    <3>0. PICK qos \in InQoS, id \in InIds :
            /\ qos = 1 => id \notin broker.awaiting
            /\ fromBroker' = Append(fromBroker,
                    [type |-> "PUBLISH", msgid |-> IF qos = 0 THEN 0 ELSE id,
                     qos |-> qos, payload |-> n])
            /\ broker' = [sent |-> n,
                          low |-> IF qos < 2 THEN Append(broker.low, n)
                                  ELSE broker.low,
                          awaiting |-> IF qos = 1
                                       THEN broker.awaiting \cup {id}
                                       ELSE broker.awaiting]
      BY <1>2 DEF BrokerPublish
    <3>1. broker'.awaiting = IF qos = 1 THEN broker.awaiting \cup {id}
                             ELSE broker.awaiting
      BY <3>0
    <3> DEFINE q == [type |-> "PUBLISH", msgid |-> IF qos = 0 THEN 0 ELSE id,
                     qos |-> qos, payload |-> n]
    <3>2. q.type = "PUBLISH" /\ q.qos = qos /\ q.msgid = IF qos = 0 THEN 0 ELSE id
      OBVIOUS
    <3>3. fromBroker' = Append(fromBroker, q)
      BY <3>0
    <3> HIDE DEF q, n
    <3> QED
      BY <3>0, <3>1, <3>2, <3>3
  <2>q. PICK q : \E qos \in InQoS, id \in InIds : Published(q, qos, id)
    BY <2>2
  <2>3. PICK qos \in InQoS, id \in InIds : Published(q, qos, id)
    BY <2>q
  <2>4. fromBroker \in Seq(InPacket \cup {q})
    BY <1>0, SeqMonotonic
  <2>5. qos = 1 => id \notin Unread
    BY <2>1, <2>3 DEF InboundAckInv
  <2>6. /\ Ids(Append(fromBroker, q), "PUBLISH", 1) =
                IF qos = 1 THEN Unread \cup {id} ELSE Unread
        /\ Single(Append(fromBroker, q), "PUBLISH", 1)
    BY <2>1, <2>3, <2>4, <2>5, AppendIds DEF Unread, InboundAckInv
  <2>7. /\ Unread' = IF qos = 1 THEN Unread \cup {id} ELSE Unread
        /\ Single(fromBroker, "PUBLISH", 1)'
    BY <2>3, <2>6 DEF Unread
  <2>8. Aside' = Aside /\ AckWrite' = AckWrite /\ Acked' = Acked
    BY <2>1 DEF Aside, AckWrite, Acked
  <2> QED
    BY <2>1, <2>3, <2>7, <2>8 DEF InboundAckInv
<1>3. CASE LoseConnection
  BY <1>3 DEF LoseConnection, InboundAckInv
<1> QED
  BY <1>1, <1>2, <1>3

(* InboundAckInv is inductive.                                             *)
LEMMA NextInboundAckInv ==
    IInv /\ WriteInv /\ InboundAckInv /\ [Next]_vars => InboundAckInv'
<1> SUFFICES ASSUME IInv, WriteInv, InboundAckInv, [Next]_vars PROVE InboundAckInv'
  OBVIOUS
<1>1. CASE UNCHANGED vars
  BY <1>1, InboundUnchanged DEF vars, clientVars, netVars
<1>2. CASE CycleInterrupted \/ CycleError
  BY <1>2, InboundUnchanged DEF CycleInterrupted, CycleError, clientVars, netVars
<1>3. CASE HandlePublish0 \/ HandlePuback \/ IgnorePubrec \/ IgnoreSuback
  <2>1. /\ UNCHANGED <<up, pendingWrite, toBroker, broker, outboundQueue>>
        /\ \E type : Received(type) /\ ~(type = "PUBLISH" /\ Head(fromBroker).qos = 1)
    BY <1>3 DEF HandlePublish0, HandlePuback, IgnorePubrec, IgnoreSuback, clientVars
  <2>2. Aside' = Aside /\ (AsideSingle(outboundQueue) => AsideSingle(outboundQueue)')
    BY <2>1 DEF Aside
  <2> QED
    BY <2>1, <2>2, ReceivedNoAck
<1>4. CASE HandlePublish2
  <2> DEFINE a == [ackType |-> "PUBREC", msgid |-> Head(fromBroker).msgid]
  <2>1. /\ Received("PUBLISH") /\ Head(fromBroker).qos = 2
        /\ UNCHANGED <<up, pendingWrite, toBroker, broker>>
        /\ outboundQueue' = Append(outboundQueue, a) \/ UNCHANGED outboundQueue
    BY <1>4 DEF HandlePublish2, queueAck
  <2>2. a.ackType # "PUBACK" /\ outboundQueue \in Seq(AckRequest)
    BY DEF IInv, TypeOK
  <2>3. outboundQueue \in Seq(AckRequest \cup {a})
    BY <2>2, SeqMonotonic
  <2> HIDE DEF a
  <2>4. /\ AsideIds(Append(outboundQueue, a)) = Aside
        /\ AsideSingle(outboundQueue) => AsideSingle(Append(outboundQueue, a))
    BY <2>2, <2>3, AppendAside DEF Aside
  <2>5. Aside' = Aside /\ (AsideSingle(outboundQueue) => AsideSingle(outboundQueue)')
    BY <2>1, <2>4 DEF Aside
  <2> QED
    BY <2>1, <2>5, ReceivedNoAck
<1>5. CASE Dispatch \/ MessageArrivedReturns
  BY <1>5, InboundUnchanged
  DEF Dispatch, DispatchNothing, CallMessageArrived, MessageArrivedReturns, clientVars,
      netVars
<1> QED
  BY <1>1, <1>2, <1>3, <1>4, <1>5, AppInbound, SelectInbound, Publish1Inbound,
     EnvironmentInbound
  DEF Next, RunThread, Cycle

(* The invariants make the count of what is owed come out.                 *)
LEMMA OwedCount == IInv /\ WriteInv /\ InboundAckInv => InboundAckAccounting
<1> SUFFICES ASSUME IInv, WriteInv, InboundAckInv, up, NEW id \in InIds
             PROVE  PubacksOwed(id) = IF id \in broker.awaiting THEN 1 ELSE 0
  BY DEF InboundAckAccounting
<1> DEFINE F == {i \in DOMAIN fromBroker :
                    /\ fromBroker[i].type = "PUBLISH" /\ fromBroker[i].qos = 1
                    /\ fromBroker[i].msgid = id}
           Q == {i \in DOMAIN outboundQueue :
                    /\ outboundQueue[i].ackType = "PUBACK"
                    /\ outboundQueue[i].msgid = id}
           W == {w \in pendingWrite :
                    w.pkt.type = "PUBACK" /\ w.pkt.msgid = id}
           T == {i \in DOMAIN toBroker :
                    toBroker[i].type = "PUBACK" /\ toBroker[i].msgid = id}
<1>1. /\ toBroker \in Seq(Packet) /\ fromBroker \in Seq(InPacket)
      /\ outboundQueue \in Seq(AckRequest)
  BY DEF IInv, TypeOK
<1>2. Cardinality(F) = IF id \in Unread THEN 1 ELSE 0
  BY <1>1, CountIds DEF Unread, InboundAckInv
<1>3. Cardinality(Q) = IF id \in Aside THEN 1 ELSE 0
  <2>1. DOMAIN outboundQueue = 1..Len(outboundQueue)
    BY <1>1, LenProperties
  <2>2. \A x, y \in Q : x = y
    BY <2>1 DEF InboundAckInv, AsideSingle
  <2>3. Q = {} <=> id \notin Aside
    BY <2>1 DEF Aside, AsideIds
  <2> HIDE DEF Q
  <2> QED
    BY <2>2, <2>3, AtMostOne
<1>4. Cardinality(W) = IF id \in AckWrite THEN 1 ELSE 0
  <2>1. \A x, y \in W : x = y
    BY DEF WriteInv
  <2>2. W = {} <=> id \notin AckWrite
    <3>1. \A w \in pendingWrite : w.pkt \in Packet
      BY DEF IInv, TypeOK, Write
    <3>2. \A w \in pendingWrite : w.pkt.type = "PUBACK" => w.pkt.qos = 0
      BY <3>1 DEF Packet, SubscribePacket
    <3> QED
      BY <3>2 DEF AckWrite, WriteIds
  <2> HIDE DEF W
  <2> QED
    BY <2>1, <2>2, AtMostOne
<1>5. Cardinality(T) = IF id \in Acked THEN 1 ELSE 0
  <2>1. T = {i \in DOMAIN toBroker : /\ toBroker[i].type = "PUBACK"
                                     /\ toBroker[i].qos = 0
                                     /\ toBroker[i].msgid = id}
    <3>1. \A i \in DOMAIN toBroker : toBroker[i] \in Packet
      BY <1>1, ElementOfSeq, LenProperties
    <3>2. \A i \in DOMAIN toBroker : toBroker[i].type = "PUBACK" => toBroker[i].qos = 0
      BY <3>1 DEF Packet, SubscribePacket
    <3> QED
      BY <3>2
  <2> HIDE DEF T
  <2> QED
    BY <1>1, <2>1, CountIds DEF Acked, InboundAckInv
<1>6. PubacksOwed(id) = Cardinality(F) + Cardinality(Q) + Cardinality(W) + Cardinality(T)
  BY DEF PubacksOwed
<1> HIDE DEF F, Q, W, T
<1>7. Cardinality(F) + Cardinality(Q) + Cardinality(W) + Cardinality(T)
        = IF id \in broker.awaiting THEN 1 ELSE 0
  BY <1>2, <1>3, <1>4, <1>5 DEF InboundAckInv
<1> QED
  BY <1>6, <1>7

(* Every QoS 1 message the broker waits for is acknowledged exactly once,  *)
(* or its acknowledgement is put aside, whatever write was pending when it *)
(* arrived (MQTTProtocol.c:203-206).                                       *)
THEOREM OnePubackEach == Spec => []InboundAckAccounting
<1>1. AckInv => WriteInv
  BY DEF AckInv
<1> QED
  BY <1>1, InductiveInvariant, InitAckInv, NextAckInv, InitInboundAckInv,
     NextInboundAckInv, OwedCount, PTL DEF Spec
=============================================================================
