------------------------------ MODULE Connect ------------------------------
(***************************************************************************)
(* Connecting one client: MQTTClient_connect down to Socket_new, the wait  *)
(* for TCP and for CONNACK (MQTTClient_waitfor), the semaphores, and the   *)
(* run thread or, where there is none, the calling thread itself going     *)
(* through MQTTClient_cycle.                                               *)
(*                                                                         *)
(* Granularity.  A section with mqttclient_mutex held is one action; the   *)
(* mutex is released in the two waits, and held while connect sleeps to    *)
(* let the run thread start.  A socket is the number of the attempt that   *)
(* created it: sockets that were given up are not closed by the code.      *)
(***************************************************************************)
EXTENDS Integers, Sequences

CONSTANTS
    MaxConnects,   \* bound: calls of MQTTClient_connect
    RunThreads     \* bound: the threads connect may start

ASSUME ConnectsAssumption == MaxConnects \in Nat \ {0}
ASSUME ThreadsAssumption == "app" \notin RunThreads

Socks   == 1..MaxConnects
Threads == {"app"} \cup RunThreads

VARIABLES
    inTime,           \* no wait of this behaviour is too short: none times out,
                      \* and the run thread is up when connect has slept
    connect_state,    \* Clients.connect_state
    socket,           \* Clients.net.socket: 0 initially, -1 after a failure
    ma,               \* a messageArrived callback is set
    running,          \* the global flag the run thread sets when it starts
    connect_sem, connack_sem,   \* semaphore values
    mrc,              \* MQTTClients.rc: the SO_ERROR the run thread found
    pack,             \* MQTTClients.pack: 0 or the socket its CONNACK was read on
    connect_pending,  \* mod_s.connect_pending
    tcp,              \* tcp[s]: the state of the connection
    connectPkt,       \* connectPkt[s]: what became of the CONNECT packet
    sends,            \* history: how often a CONNECT was written to s
    inbox,            \* inbox[s]: an unread CONNACK is there
    read,             \* history: sockets whose CONNACK was read
    app,              \* the thread in MQTTClient_connect: [pc, rc, late]
    cyc,              \* cyc[t]: thread t in MQTTClient_cycle: [pc, sock, pack, rc]
    calls,            \* number of calls of MQTTClient_connect
    results           \* history: [socket, rc] of the calls that returned

clientVars == <<connect_state, socket, ma, running>>
semVars    == <<connect_sem, connack_sem, mrc, pack>>
netVars    == <<connect_pending, tcp, connectPkt, sends, inbox, read>>
callVars   == <<calls, results>>
vars       == <<inTime, clientVars, semVars, netVars, app, cyc, callVars>>

NotCycling == [pc |-> "off", sock |-> 0, pack |-> FALSE, rc |-> 0]
Selecting  == [NotCycling EXCEPT !.pc = "select"]

Init ==
    /\ inTime \in BOOLEAN
    /\ connect_state = "NOT_IN_PROGRESS" /\ socket = 0
    /\ ma = FALSE /\ running = FALSE
    /\ connect_sem = 0 /\ connack_sem = 0 /\ mrc = 0 /\ pack = 0
    /\ connect_pending = {}
    /\ tcp = [s \in Socks |-> "none"]
    /\ connectPkt = [s \in Socks |-> "none"]
    /\ sends = [s \in Socks |-> 0]
    /\ inbox = [s \in Socks |-> FALSE] /\ read = {}
    /\ app = [pc |-> "idle", rc |-> 0, late |-> FALSE]
    /\ cyc = [t \in Threads |-> NotCycling]
    /\ calls = 0 /\ results = <<>>

\* mqttclient_mutex is free: connect holds it only while it sleeps.
MutexFree == app.pc # "starting"

\* Mutant: the semaphore counts.
Thread_post_sem_Counts(sem) == sem + 1

\* Thread_post_sem: posted only when its value is 0.
Thread_post_sem(sem) == IF sem = 0 THEN 1 ELSE sem

\* getsockopt(SO_ERROR)
SoError(s) == IF s \in Socks /\ tcp[s] = "refused" THEN 1 ELSE 0

-----------------------------------------------------------------------------
(* The application                                                         *)

\* MQTTClient_connect down to MQTTClient_connectURI: the call is one more.
connectURI ==
    /\ app.pc = "idle" /\ calls < MaxConnects
    /\ calls' = calls + 1

SetCallbacks ==
    /\ MutexFree
    /\ connect_state = "NOT_IN_PROGRESS"
    /\ ma' = TRUE
    /\ UNCHANGED <<inTime, connect_state, socket, running, semVars, netVars, app, cyc,
                   callVars>>

\* The call returns: rc 0 is success.
return(s, rc) ==
    /\ results' = Append(results, [socket |-> s, rc |-> rc])
    /\ app' = [pc |-> "idle", rc |-> 0, late |-> FALSE]

\* MQTTClient_waitfor, with the mutex released: there is no time left, always so
\* after an earlier wait has used it up, or the call waits, for the semaphore or
\* in a loop around MQTTClient_cycle, depending on whether the run thread has
\* announced itself.
waitFor(packet) ==
    LET waits == [CONNECT |-> [sem |-> "semTcp", loop |-> "loopTcp"],
                  CONNACK |-> [sem |-> "semConnack", loop |-> "loopConnack"]]
    IN  \/ /\ ~inTime
           /\ app' = [app EXCEPT !.pc = "noTime"]
           /\ UNCHANGED cyc
        \/ /\ ~app.late /\ running
           /\ app' = [pc |-> waits[packet].sem, rc |-> 0, late |-> FALSE]
           /\ UNCHANGED cyc
        \/ /\ ~app.late /\ ~running
           /\ app' = [pc |-> waits[packet].loop, rc |-> 0, late |-> FALSE]
           /\ cyc' = [cyc EXCEPT !["app"] = Selecting]

\* MQTTPacket_send_connect: what the write returns.  A write to a connection
\* that is not there yet is EAGAIN, an interrupted write.
sendResults(s) ==
    IF s \notin Socks THEN {"SOCKET_ERROR"}
    ELSE CASE tcp[s] = "connecting" -> {"INTERRUPTED"}
           [] tcp[s] = "open"       -> {"COMPLETE", "INTERRUPTED"}
           [] tcp[s] = "closed"     -> {"COMPLETE", "SOCKET_ERROR"}
           [] OTHER                 -> {"SOCKET_ERROR"}

sendConnect(s, result) ==
    /\ connectPkt' = IF result = "SOCKET_ERROR" THEN connectPkt
                     ELSE [connectPkt EXCEPT ![s] =
                              IF result = "COMPLETE" THEN "sent" ELSE "pending"]
    /\ sends' = IF result = "SOCKET_ERROR" THEN sends
                ELSE [sends EXCEPT ![s] = @ + 1]

\* What connectURIVersion does after MQTTProtocol_connect, with the
\* connect_state it finds: an error code other than SOCKET_ERROR does not
\* end the call by itself.
afterConnect(state, s, rc) ==
    IF rc = -1 \/ state = "NOT_IN_PROGRESS"
    THEN return(s, -1) /\ UNCHANGED cyc
    ELSE /\ waitFor(IF state = "TCP_IN_PROGRESS" THEN "CONNECT" ELSE "CONNACK")
         /\ UNCHANGED results

\* Socket_new: connect(2) is in progress, and the socket is watched for its end.
Socket_newPending(s) ==
    /\ socket' = s
    /\ connect_state' = "TCP_IN_PROGRESS"
    /\ tcp' = [tcp EXCEPT ![s] = "connecting"]
    /\ connect_pending' = connect_pending \cup {s}
    /\ afterConnect("TCP_IN_PROGRESS", s, 0)
    /\ UNCHANGED <<connectPkt, sends>>

\* Socket_new: the connection is there at once, and CONNECT is sent; only a
\* complete write counts as sent.
Socket_newConnected(s) ==
    \E result \in {"COMPLETE", "INTERRUPTED", "SOCKET_ERROR"} :
        /\ socket' = s
        /\ tcp' = [tcp EXCEPT ![s] =
                    IF result = "SOCKET_ERROR" THEN "closed" ELSE "open"]
        /\ sendConnect(s, result)
        /\ connect_state' = IF result = "COMPLETE" THEN "WAIT_FOR_CONNACK"
                            ELSE "NOT_IN_PROGRESS"
        /\ afterConnect(connect_state', s, 0)
        /\ UNCHANGED connect_pending

\* Socket_close: the socket is on no list any more.
Socket_close(s) ==
    /\ tcp' = [tcp EXCEPT ![s] = "none"]
    /\ connect_pending' = connect_pending \ {s}

\* Socket_new: no address, no socket (-1), or an errno of connect(2), after
\* which the socket is closed.  connect_state is left as it was.
Socket_newFailed(s) ==
    /\ socket' = -1
    /\ \/ /\ afterConnect(connect_state, -1, -1)
          /\ UNCHANGED <<tcp, connect_pending>>
       \/ /\ afterConnect(connect_state, -1, 1)
          /\ Socket_close(s)
    /\ UNCHANGED <<connect_state, connectPkt, sends>>

\* No time is left: Socket_new is not called.
TooLate ==
    /\ ~inTime
    /\ return(socket, -1)
    /\ UNCHANGED <<connect_state, socket, tcp, connect_pending, connectPkt, sends,
                   cyc>>

\* MQTTProtocol_connect
TcpConnect ==
    /\ \/ connectURI /\ ~(ma /\ ~running)
       \/ /\ app.pc = "starting"
          /\ inTime => running
          /\ UNCHANGED calls
    /\ \/ Socket_newPending(calls')
       \/ Socket_newConnected(calls')
       \/ Socket_newFailed(calls')
       \/ TooLate
    /\ UNCHANGED <<inTime, ma, running, semVars, inbox, read>>

\* Thread_start, then the check of the time and the sleep with the mutex held.
\* A thread that is slow to set running does not keep connect from starting
\* another one.
StartRunThread ==
    /\ connectURI
    /\ ma /\ ~running
    /\ \E t \in RunThreads :
        /\ cyc[t].pc = "off"
        /\ cyc' = [cyc EXCEPT ![t].pc = "starting"]
    /\ \/ app' = [app EXCEPT !.pc = "starting"] /\ UNCHANGED results
       \/ ~inTime /\ return(socket, -1)
    /\ UNCHANGED <<inTime, clientVars, semVars, netVars>>

\* Thread_wait_sem(connect_sem) was answered: the result is m->rc.
TakeConnectSem ==
    /\ app.pc = "semTcp" /\ connect_sem = 1
    /\ connect_sem' = 0
    /\ app' = [app EXCEPT !.pc = "tcpDone", !.rc = mrc]
    /\ UNCHANGED <<inTime, clientVars, connack_sem, mrc, pack, netVars, cyc, callVars>>

\* The mutex is held again: CONNECT is sent if rc is 0, which it may also be
\* when the calling thread's own loop was out of time.
TcpDone ==
    /\ app.pc = "tcpDone" /\ MutexFree
    /\ \/ /\ app.rc # 0
          /\ return(socket, -1)
          /\ UNCHANGED <<connect_state, connectPkt, sends, cyc>>
       \/ /\ app.rc = 0
          /\ connect_state' = "WAIT_FOR_CONNACK"
          /\ \E result \in sendResults(socket) :
             /\ sendConnect(socket, result)
             /\ IF result = "SOCKET_ERROR"
                THEN return(socket, -1) /\ UNCHANGED cyc
                ELSE waitFor("CONNACK") /\ UNCHANGED results
    /\ UNCHANGED <<inTime, socket, ma, running, semVars, connect_pending, tcp, inbox,
                   read, calls>>

\* MQTTClient_waitfor had no time left, and the mutex is held again.
NoTimeLeft ==
    /\ app.pc = "noTime" /\ MutexFree
    /\ return(socket, -1)
    /\ UNCHANGED <<inTime, clientVars, semVars, netVars, cyc, calls>>

\* Mutant: the semaphore is not taken.
TakeConnackSem_Peek ==
    /\ app.pc = "semConnack" /\ connack_sem = 1
    /\ return(socket, IF pack = 0 THEN -1 ELSE 0)
    /\ UNCHANGED <<inTime, clientVars, semVars, netVars, cyc, calls>>

\* Thread_wait_sem(connack_sem) was answered: success if there is a packet.
TakeConnackSem ==
    /\ app.pc = "semConnack" /\ connack_sem = 1
    /\ connack_sem' = 0
    /\ return(socket, IF pack = 0 THEN -1 ELSE 0)
    /\ UNCHANGED <<inTime, clientVars, connect_sem, mrc, pack, netVars, cyc, calls>>

\* A wait for a semaphore times out: an error, whatever pack holds.
SemTimeout ==
    /\ ~inTime
    /\ app.pc \in {"semTcp", "semConnack"}
    /\ return(socket, -1)
    /\ UNCHANGED <<inTime, clientVars, semVars, netVars, cyc, calls>>

-----------------------------------------------------------------------------
(* MQTTClient_cycle, by either thread                                      *)

\* The run thread sets the flag before it first waits for the mutex.
RunStarts(t) ==
    /\ cyc[t].pc = "starting"
    /\ running' = TRUE
    /\ cyc' = [cyc EXCEPT ![t] = Selecting]
    /\ UNCHANGED <<inTime, connect_state, socket, ma, semVars, netVars, app, callVars>>

\* Mutant: a connect that is not over yet is taken for finished.
isReady_Early(s) ==
    \/ s \in connect_pending
    \/ (tcp[s] \in {"refused", "closed"} \/ inbox[s]) /\ connectPkt[s] # "pending"

\* isReady: the connect is over, or there is something to read and no write
\* pending.
isReady(s) ==
    IF s \in connect_pending THEN tcp[s] # "connecting"
    ELSE /\ tcp[s] \in {"refused", "closed"} \/ inbox[s]
         /\ connectPkt[s] # "pending"

\* Socket_getReadySocket returns a ready socket, each in its turn ...
ReadySocket(t, s) ==
    /\ cyc[t].pc = "select"
    /\ isReady(s)
    /\ connect_pending' = connect_pending \ {s}
    /\ cyc' = [cyc EXCEPT ![t].pc = "cycle", ![t].sock = s]
    /\ UNCHANGED <<inTime, clientVars, semVars, tcp, connectPkt, sends, inbox, read,
                   app, callVars>>

\* ... or 0 after its timeout if there is none.
NoneReady(t) ==
    /\ cyc[t].pc = "select"
    /\ \A s \in Socks : ~isReady(s)
    /\ cyc' = [cyc EXCEPT ![t].pc = "cycle", ![t].sock = 0]
    /\ UNCHANGED <<inTime, clientVars, semVars, netVars, app, callVars>>

\* Socket_continueWrites: the rest of CONNECT is written once there is a
\* connection, or given up if there is none.
ContinueConnect(t, s) ==
    /\ cyc[t].pc = "select"
    /\ connectPkt[s] = "pending" /\ tcp[s] # "connecting"
    /\ \/ /\ tcp[s] = "open"
          /\ connectPkt' = [connectPkt EXCEPT ![s] = "sent"]
          /\ UNCHANGED cyc
       \/ /\ tcp[s] # "open"
          /\ connectPkt' = [connectPkt EXCEPT ![s] = "lost"]
          /\ cyc' = [cyc EXCEPT ![t].pc = "cycle", ![t].sock = s]
    /\ UNCHANGED <<inTime, clientVars, semVars, connect_pending, tcp, sends, inbox,
                   read, app, callVars>>

\* cycle reads from the client's current socket, and not while TCP is being
\* connected.
mayRead(s) == s = socket /\ s \in Socks /\ connect_state # "TCP_IN_PROGRESS"

CycleLocked(t) ==
    /\ cyc[t].pc = "cycle" /\ MutexFree
    /\ LET s == cyc[t].sock
           got == mayRead(s) /\ inbox[s]
       IN  /\ cyc' = [cyc EXCEPT ![t].pc = "post", ![t].pack = got,
                         ![t].rc = IF mayRead(s) /\ ~got /\ tcp[s] # "open"
                                   THEN -1 ELSE 0]
           /\ inbox' = IF got THEN [inbox EXCEPT ![s] = FALSE] ELSE inbox
           /\ read' = IF got THEN read \cup {s} ELSE read
    /\ UNCHANGED <<inTime, clientVars, semVars, connect_pending, tcp, connectPkt, sends,
                   app, callVars>>

\* Mutant: the result of TCP is noted but nobody is woken up.
PostConnect_NoWakeup(s) ==
    /\ mrc' = SoError(s)
    /\ connect_state' = "NOT_IN_PROGRESS"
    /\ UNCHANGED <<connect_sem, connack_sem, pack>>

\* MQTTClient_run after TCP has finished.
PostConnect(s) ==
    /\ mrc' = SoError(s)
    /\ connect_state' = "NOT_IN_PROGRESS"
    /\ connect_sem' = Thread_post_sem(connect_sem)
    /\ UNCHANGED <<connack_sem, pack>>

\* MQTTClient_run after a cycle: nothing is done for a socket that is not the
\* client's (any more), and then the packet is lost.
PostRun(t) ==
    /\ cyc[t].pc = "post" /\ MutexFree
    /\ LET s == cyc[t].sock
       IN  \/ /\ \/ s # socket
                 \/ ~cyc[t].pack /\ connect_state # "TCP_IN_PROGRESS"
              /\ UNCHANGED <<semVars, connect_state>>
           \/ /\ s = socket /\ cyc[t].pack
              /\ pack' = s
              /\ connack_sem' = Thread_post_sem(connack_sem)
              /\ UNCHANGED <<connect_sem, mrc, connect_state>>
           \/ /\ s = socket /\ ~cyc[t].pack
              /\ connect_state = "TCP_IN_PROGRESS"
              /\ PostConnect(s)
    /\ cyc' = [cyc EXCEPT ![t] = Selecting]
    /\ UNCHANGED <<inTime, socket, ma, running, netVars, app, callVars>>

\* MQTTClient_waitfor's loop after a cycle, waiting for the end of TCP.
LoopTcp ==
    /\ app.pc = "loopTcp" /\ cyc["app"].pc = "post"
    /\ LET mine == cyc["app"].sock = socket
       IN  \/ /\ mine /\ cyc["app"].rc = -1
              /\ app' = [app EXCEPT !.pc = "tcpDone", !.rc = -1]
              /\ cyc' = [cyc EXCEPT !["app"] = NotCycling]
           \/ /\ mine /\ cyc["app"].rc # -1 /\ connect_state = "TCP_IN_PROGRESS"
              /\ app' = [app EXCEPT !.pc = "tcpDone", !.rc = SoError(socket)]
              /\ cyc' = [cyc EXCEPT !["app"] = NotCycling]
           \/ /\ \/ ~mine
                 \/ cyc["app"].rc # -1 /\ connect_state # "TCP_IN_PROGRESS"
              /\ \/ /\ cyc' = [cyc EXCEPT !["app"] = Selecting]
                    /\ UNCHANGED app
                 \/ \* out of time: rc is that of the last cycle
                    /\ ~inTime
                    /\ app' = [app EXCEPT !.pc = "tcpDone",
                                          !.rc = cyc["app"].rc, !.late = TRUE]
                    /\ cyc' = [cyc EXCEPT !["app"] = NotCycling]
    /\ UNCHANGED <<inTime, clientVars, semVars, netVars, callVars>>

\* The same, waiting for CONNACK.
LoopConnack ==
    /\ app.pc = "loopConnack" /\ cyc["app"].pc = "post"
    /\ LET mine == cyc["app"].sock = socket
       IN  \/ /\ mine /\ cyc["app"].pack
              /\ return(socket, 0)
              /\ cyc' = [cyc EXCEPT !["app"] = NotCycling]
           \/ /\ mine /\ ~cyc["app"].pack
              /\ cyc["app"].rc = -1 \/ SoError(socket) # 0
              /\ return(socket, -1)
              /\ cyc' = [cyc EXCEPT !["app"] = NotCycling]
           \/ /\ \/ ~mine
                 \/ ~cyc["app"].pack /\ cyc["app"].rc # -1 /\ SoError(socket) = 0
              /\ \/ /\ cyc' = [cyc EXCEPT !["app"] = Selecting]
                    /\ UNCHANGED <<app, results>>
                 \/ /\ ~inTime
                    /\ return(socket, -1)
                    /\ cyc' = [cyc EXCEPT !["app"] = NotCycling]
    /\ UNCHANGED <<inTime, clientVars, semVars, netVars, calls>>

-----------------------------------------------------------------------------
(* Environment: the network and the broker                                 *)

TcpFinishes(s) ==
    /\ tcp[s] = "connecting"
    /\ \E r \in {"open", "refused"} : tcp' = [tcp EXCEPT ![s] = r]
    /\ UNCHANGED <<inTime, clientVars, semVars, connect_pending, connectPkt, sends,
                   inbox, read, app, cyc, callVars>>

\* The broker answers CONNECT with CONNACK, or closes the connection.
BrokerAnswers(s) ==
    /\ tcp[s] = "open" /\ connectPkt[s] = "sent"
    /\ s \notin read /\ ~inbox[s]
    /\ \/ inbox' = [inbox EXCEPT ![s] = TRUE] /\ UNCHANGED tcp
       \/ tcp' = [tcp EXCEPT ![s] = "closed"] /\ UNCHANGED inbox
    /\ UNCHANGED <<inTime, clientVars, semVars, connect_pending, connectPkt, sends,
                   read, app, cyc, callVars>>

-----------------------------------------------------------------------------

\* What the calling thread does once it is inside MQTTClient_connect.
InConnect ==
    \/ TakeConnectSem \/ TcpDone \/ NoTimeLeft \/ TakeConnackSem \/ SemTimeout
    \/ LoopTcp \/ LoopConnack

\* getReadySocket deals with socket s, for one of the threads.
Serve(s) == \E t \in Threads : ReadySocket(t, s) \/ ContinueConnect(t, s)

CycleStep(t) ==
    \/ NoneReady(t) \/ CycleLocked(t)
    \/ \E s \in Socks : ReadySocket(t, s) \/ ContinueConnect(t, s)

RunStep(t) == RunStarts(t) \/ CycleStep(t) \/ PostRun(t)

Environment(s) == TcpFinishes(s) \/ BrokerAnswers(s)

Next ==
    \/ SetCallbacks \/ StartRunThread \/ TcpConnect
    \/ InConnect \/ CycleStep("app")
    \/ \E t \in RunThreads : RunStep(t)
    \/ \E s \in Socks : Environment(s)

Spec == Init /\ [][Next]_vars

\* The threads keep running, getReadySocket serves the ready sockets in turn,
\* whoever calls it (mod_s.cur_clientsds), and the network and the broker
\* answer.
FairSpec ==
    /\ Spec
    /\ WF_vars(InConnect \/ CycleStep("app") \/ (app.pc = "starting" /\ TcpConnect))
    /\ \A t \in RunThreads : WF_vars(RunStep(t))
    /\ \A s \in Socks : SF_vars(Serve(s)) /\ WF_vars(Environment(s))

-----------------------------------------------------------------------------
(* Properties                                                              *)

\* The variables hold the values the C structures can hold.
TypeOK ==
    /\ inTime \in BOOLEAN
    /\ connect_state \in {"NOT_IN_PROGRESS", "TCP_IN_PROGRESS", "WAIT_FOR_CONNACK"}
    /\ socket \in Socks \cup {-1, 0}
    /\ ma \in BOOLEAN /\ running \in BOOLEAN
    /\ connect_sem \in {0, 1} /\ connack_sem \in {0, 1} /\ mrc \in {0, 1}
    /\ pack \in Socks \cup {0}
    /\ connect_pending \subseteq Socks
    /\ tcp \in [Socks -> {"none", "connecting", "open", "refused", "closed"}]
    /\ connectPkt \in [Socks -> {"none", "pending", "sent", "lost"}]
    /\ sends \in [Socks -> Nat]
    /\ inbox \in [Socks -> BOOLEAN] /\ read \subseteq Socks
    /\ app \in [pc : {"idle", "starting", "semTcp", "loopTcp", "tcpDone",
                      "semConnack", "loopConnack", "noTime"},
                rc : {-1, 0, 1}, late : BOOLEAN]
    /\ cyc \in [Threads -> [pc : {"off", "starting", "select", "cycle", "post"},
                            sock : Socks \cup {0}, pack : BOOLEAN, rc : {-1, 0}]]
    /\ calls \in 0..MaxConnects
    /\ results \in Seq([socket : Socks \cup {-1, 0}, rc : {-1, 0}])

NoFailureBefore(n) == \A i \in 1..n : results[i].rc = 0

\* As long as no call has failed, a call that succeeds has read the CONNACK of
\* its own connection: the semaphores and m->pack carry nothing over from an
\* earlier call (MQTTClient.c:287-295, 512-530).
SuccessBeforeFailure ==
    \A n \in DOMAIN results :
        results[n].rc = 0 /\ NoFailureBefore(n - 1) => results[n].socket \in read

\* CONNECT is written at most once to each connection, however the calling
\* thread and the run thread share the work.  As long as no call has failed, it
\* is written only to a connection that has been made, whoever found out that it
\* was, with one exception: a call whose own loop ran out of time writes it to a
\* connection it knows nothing of (MQTTClient.c:268-285, 558-561).
ConnectOnceAfterTcp ==
    /\ \A s \in Socks : sends[s] <= 1
    /\ NoFailureBefore(Len(results)) =>
        \A s \in Socks : sends[s] > 0 =>
            tcp[s] \in {"open", "closed"} \/ (app.late /\ s = socket)

\* If no wait is too short, a call that has a socket returns, or the peer has
\* closed its connection: no wakeup is lost between the run thread and the caller.
ConnectReturns ==
    (inTime /\ app.pc # "idle" /\ socket # -1)
        ~> (app.pc = "idle" \/ (socket \in Socks /\ tcp[socket] = "closed"))

-----------------------------------------------------------------------------
(* What a comment of the repository says and the code does not do          *)

\* MQTTClient.c:287: "MQTT connect sent - wait for CONNACK": a call succeeds
\* only after the CONNACK of its connection.
SuccessMeansConnack ==
    \A n \in DOMAIN results : results[n].rc = 0 => results[n].socket \in read
=============================================================================
