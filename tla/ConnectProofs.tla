--------------------------- MODULE ConnectProofs ---------------------------
(***************************************************************************)
(* Proofs about Connect, for every number of calls and of run threads.     *)
(*                                                                         *)
(* What keeps a call from taking the answer of another connection for its  *)
(* own is that each event is found once: the end of TCP by the thread that *)
(* takes the socket off connect_pending, the CONNACK by the thread that    *)
(* reads it.  As long as no call has failed, whoever finds one tells the   *)
(* call it belongs to, and the call has taken it when it returns.          *)
(***************************************************************************)
EXTENDS Connect, SequenceTheorems, TLAPS

-----------------------------------------------------------------------------
(* The inductive invariant                                                 *)

(* The number of an attempt that has no socket yet.                        *)
Fresh(s) == s > calls \/ (s = calls /\ app.pc = "starting")

(* Thread t holds the CONNACK of s, and has not handed it over yet.        *)
Holds(t, s) == cyc[t].pack /\ cyc[t].sock = s

(* What each connection has been through.                                  *)
Called == app.pc # "idle" => calls >= 1
FreshIsNone == \A s \in Socks : Fresh(s) => tcp[s] = "none"
NoneIsUnused ==
    \A s \in Socks : tcp[s] = "none" =>
        connectPkt[s] = "none" /\ ~inbox[s] /\ s \notin connect_pending
SentOnce == \A s \in Socks : sends[s] = IF connectPkt[s] = "none" THEN 0 ELSE 1
InboxUnread ==
    \A s \in Socks : inbox[s] =>
        s \notin read /\ connectPkt[s] # "none" /\ tcp[s] = "open"
ReadIsSent == \A s \in read : connectPkt[s] # "none"
SocketIsMade == socket \in Socks => tcp[socket] # "none"
NotSentYet ==
    app.pc \in {"semTcp", "loopTcp", "tcpDone"} /\ socket \in Socks
        => connectPkt[socket] = "none"

NetInv ==
    /\ Called /\ FreshIsNone /\ NoneIsUnused /\ SentOnce /\ InboxUnread
    /\ ReadIsSent /\ SocketIsMade /\ NotSentYet

(* What the threads in MQTTClient_cycle are at work on.  One thread holds  *)
(* a CONNACK; one finds out that a connection has been made.               *)
AppCycles == app.pc \notin {"loopTcp", "loopConnack"} => cyc["app"] = NotCycling
NoSocketYet ==
    \A t \in Threads : cyc[t].pc \notin {"cycle", "post"} => cyc[t].sock = 0
NoPackYet == \A t \in Threads : cyc[t].pc # "post" => ~cyc[t].pack
ReadyIsMade ==
    \A t \in Threads : cyc[t].sock # 0 =>
        tcp[cyc[t].sock] \in {"open", "refused", "closed"}
PackIsRead == \A t \in Threads : cyc[t].pack => cyc[t].sock \in read
OneHolder ==
    \A t, u \in Threads : \A s \in Socks : Holds(t, s) /\ Holds(u, s) => t = u
PendingIsNotReady ==
    \A t \in Threads : \A s \in Socks :
        cyc[t].sock = s /\ s \in connect_pending => connectPkt[s] # "none"
OneFinder ==
    \A t, u \in Threads : \A s \in Socks :
        cyc[t].sock = s /\ cyc[u].sock = s /\ connectPkt[s] = "none" /\ tcp[s] = "open"
            => t = u

CycInv ==
    /\ AppCycles /\ NoSocketYet /\ NoPackYet /\ ReadyIsMade /\ PackIsRead
    /\ OneHolder /\ PendingIsNotReady /\ OneFinder

(* That s has been connected is known, and nobody will find it out again.  *)
Noted(s) ==
    tcp[s] = "open" => s \notin connect_pending /\ \A t \in Threads : cyc[t].sock # s

(* As long as no call has failed or is bound to: the semaphores are up     *)
(* only for the call in progress.                                          *)
NoFailure == NoFailureBefore(Len(results))
Hopeful   == NoFailure /\ app.pc # "noTime"
WaitedFor ==
    connect_state = "TCP_IN_PROGRESS" =>
        app.pc \in {"semTcp", "loopTcp", "tcpDone"} /\ socket \in Socks
ConnectPosted ==
    connect_sem = 1 =>
        /\ app.pc \in {"semTcp", "loopTcp", "tcpDone"}
        /\ connect_state = "NOT_IN_PROGRESS" /\ socket \in Socks
        /\ mrc = SoError(socket) /\ tcp[socket] \in {"open", "refused"}
        /\ Noted(socket)
TcpIsDone ==
    app.pc = "tcpDone" /\ app.rc = 0 /\ ~app.late =>
        connect_sem = 0 /\ socket \in Socks /\ tcp[socket] = "open" /\ Noted(socket)
ClosedIsSent == \A s \in Socks : tcp[s] = "closed" => connectPkt[s] # "none"
ConnackPosted ==
    connack_sem = 1 =>
        /\ app.pc \in {"semConnack", "loopConnack"}
        /\ socket \in read /\ \A t \in Threads : ~Holds(t, socket)
ConnackTaken ==
    app.pc \in {"idle", "starting"} =>
        /\ socket \in Socks => socket \in read
        /\ \A t \in Threads : ~Holds(t, socket)

GoodInv ==
    /\ WaitedFor /\ ConnectPosted /\ TcpIsDone /\ ClosedIsSent
    /\ ConnackPosted /\ ConnackTaken

(* CONNECT went to a connection that is made, or the call whose connection *)
(* it is has run out of time and is about to fail.                         *)
SentIsMade ==
    \A s \in Socks : connectPkt[s] # "none" =>
        \/ tcp[s] \in {"open", "closed"}
        \/ app.pc = "noTime" /\ app.late /\ s = socket

CInv ==
    /\ TypeOK /\ NetInv /\ CycInv /\ SuccessBeforeFailure
    /\ (Hopeful => GoodInv) /\ (NoFailure => SentIsMade)

-----------------------------------------------------------------------------
(* Steps that find nothing                                                 *)

Results == [socket : Socks \cup {-1, 0}, rc : {-1, 0}]
Cycles  == [pc : {"off", "starting", "select", "cycle", "post"},
            sock : Socks \cup {0}, pack : BOOLEAN, rc : {-1, 0}]
Made    == {"open", "refused", "closed"}

(* No thread is given a socket or a CONNACK that it did not have ...       *)
FindsNothing ==
    \A u \in Threads :
        /\ cyc'[u].sock \in {cyc[u].sock, 0}
        /\ cyc'[u].pack => cyc[u].pack /\ cyc'[u].sock = cyc[u].sock

(* ... and no connection that has been made is made again.                 *)
MakesNothing ==
    /\ read \subseteq read'
    /\ \A s \in Socks : tcp[s] \in Made =>
        /\ tcp'[s] \in Made /\ (tcp'[s] = "open" => tcp[s] = "open")
        /\ connectPkt'[s] = "none" => connectPkt[s] = "none"
        /\ s \in connect_pending' => s \in connect_pending

(* Such a step keeps what the threads know of the connections.             *)
LEMMA QuietStep ==
    ASSUME TypeOK, CycInv, FindsNothing, MakesNothing
    PROVE  /\ ReadyIsMade' /\ PackIsRead' /\ OneHolder' /\ PendingIsNotReady'
           /\ OneFinder'
           /\ \A s \in Socks : tcp[s] \in Made /\ Noted(s) => Noted(s)'
           /\ \A t \in Threads : \A s \in Socks : Holds(t, s)' => Holds(t, s)
<1>0. \A t \in Threads : cyc[t].sock \in Socks \cup {0}
  BY DEF TypeOK
<1>1. /\ \A t \in Threads : cyc[t].sock # 0 => tcp[cyc[t].sock] \in Made
      /\ \A t \in Threads : cyc[t].pack => cyc[t].sock \in read
      /\ OneHolder /\ PendingIsNotReady /\ OneFinder
  BY DEF CycInv, ReadyIsMade, PackIsRead, Made
<1>z. 0 \notin Socks
  BY DEF Socks
<1>2. \A t \in Threads : cyc'[t].sock # 0 => cyc'[t].sock = cyc[t].sock
  BY DEF FindsNothing
<1>3. ReadyIsMade'
  BY <1>0, <1>1, <1>2 DEF MakesNothing, ReadyIsMade, Made
<1>4. PackIsRead'
  BY <1>1 DEF FindsNothing, MakesNothing, PackIsRead
<1>5. \A t \in Threads : \A s \in Socks : Holds(t, s)' => Holds(t, s)
  BY DEF FindsNothing, Holds
<1>6. OneHolder'
  BY <1>1, <1>5 DEF OneHolder
<1>7. \A t \in Threads : \A s \in Socks :
         cyc'[t].sock = s => cyc[t].sock = s /\ tcp[s] \in Made
  BY <1>0, <1>1, <1>2, <1>z
<1>8. PendingIsNotReady'
  BY <1>1, <1>7 DEF PendingIsNotReady, MakesNothing
<1>9. OneFinder'
  BY <1>1, <1>7 DEF OneFinder, MakesNothing
<1>10. \A s \in Socks : tcp[s] \in Made /\ Noted(s) => Noted(s)'
  BY <1>7 DEF Noted, MakesNothing
<1> QED
  BY <1>3, <1>4, <1>5, <1>6, <1>8, <1>9, <1>10

(* A thread that goes back to the start of its cycle finds nothing.        *)
LEMMA CycleReset ==
    ASSUME TypeOK, NoSocketYet, NoPackYet, NEW t \in Threads,
           NEW p \in {"off", "starting", "select"},
           cyc' = [cyc EXCEPT ![t] = [pc |-> p, sock |-> 0, pack |-> FALSE, rc |-> 0]]
    PROVE  /\ cyc' \in [Threads -> Cycles] /\ FindsNothing
           /\ NoSocketYet' /\ NoPackYet'
           /\ cyc'[t] = [pc |-> p, sock |-> 0, pack |-> FALSE, rc |-> 0]
           /\ \A u \in Threads : u # t => cyc'[u] = cyc[u]
<1> DEFINE c == [pc |-> p, sock |-> 0, pack |-> FALSE, rc |-> 0]
<1>1. c \in Cycles /\ c.pc = p /\ c.sock = 0 /\ c.pack = FALSE
  BY DEF Cycles
<1>2. cyc \in [Threads -> Cycles] /\ cyc' = [cyc EXCEPT ![t] = c]
  BY DEF TypeOK, Cycles
<1> HIDE DEF c
<1>3. cyc' \in [Threads -> Cycles] /\ cyc'[t] = c
  BY <1>1, <1>2
<1>4. \A u \in Threads : u # t => cyc'[u] = cyc[u]
  BY <1>2
<1>5. FindsNothing
  BY <1>1, <1>3, <1>4 DEF FindsNothing
<1>6. NoSocketYet'
  BY <1>1, <1>3, <1>4 DEF NoSocketYet
<1>7. NoPackYet'
  BY <1>1, <1>3, <1>4 DEF NoPackYet
<1> QED
  BY <1>3, <1>4, <1>5, <1>6, <1>7 DEF c

(* The record of a thread at the start of its cycle.                       *)
LEMMA SelectingIs ==
    Selecting = [pc |-> "select", sock |-> 0, pack |-> FALSE, rc |-> 0]
<1> DEFINE c == [pc |-> "off", sock |-> 0, pack |-> FALSE, rc |-> 0]
           d == [c EXCEPT !.pc = "select"]
<1>1. c \in [pc : {"off", "select"}, sock : {0}, pack : {FALSE}, rc : {0}]
  OBVIOUS
<1>2. d.pc = "select" /\ d.sock = 0 /\ d.pack = FALSE /\ d.rc = 0
  OBVIOUS
<1>3. d \in [pc : {"off", "select"}, sock : {0}, pack : {FALSE}, rc : {0}]
  BY <1>1
<1>4. Selecting = d
  BY DEF Selecting, NotCycling
<1> HIDE DEF d
<1> QED
  BY <1>2, <1>3, <1>4

(* Neither does one that stays where it is.                                *)
LEMMA CycleSame ==
    ASSUME NoSocketYet, NoPackYet, cyc' = cyc
    PROVE  FindsNothing /\ NoSocketYet' /\ NoPackYet'
<1> QED
  BY DEF FindsNothing, NoSocketYet, NoPackYet

(* What a step keeps that changes neither the connections nor the socket.  *)
LEMMA NetSame ==
    ASSUME TypeOK, NetInv, netVars' = netVars, socket' = socket,
           app'.pc # "idle" => calls' >= 1,
           \A s \in Socks : Fresh(s)' => Fresh(s),
           app'.pc \in {"semTcp", "loopTcp", "tcpDone"}
               => app.pc \in {"semTcp", "loopTcp", "tcpDone"}
    PROVE  NetInv' /\ MakesNothing
<1>1. UNCHANGED <<connect_pending, tcp, connectPkt, sends, inbox, read>>
  BY DEF netVars
<1>2. Called' /\ FreshIsNone' /\ NotSentYet'
  BY <1>1 DEF NetInv, Called, FreshIsNone, NotSentYet
<1>3. NoneIsUnused' /\ SentOnce' /\ InboxUnread' /\ ReadIsSent' /\ SocketIsMade'
  BY <1>1 DEF NetInv, NoneIsUnused, SentOnce, InboxUnread, ReadIsSent, SocketIsMade
<1>4. MakesNothing
  BY <1>1 DEF MakesNothing
<1> QED
  BY <1>2, <1>3, <1>4 DEF NetInv

-----------------------------------------------------------------------------
(* The history of results                                                  *)

(* A step in which no call returns ...                                     *)
LEMMA NotReturned ==
    ASSUME results' = results, read \subseteq read', SuccessBeforeFailure
    PROVE  SuccessBeforeFailure' /\ (NoFailure' <=> NoFailure)
<1>1. NoFailure' <=> NoFailure
  BY DEF NoFailure, NoFailureBefore
<1>2. SuccessBeforeFailure'
  BY DEF SuccessBeforeFailure, NoFailureBefore
<1> QED
  BY <1>1, <1>2

(* ... and one in which a call does.                                       *)
LEMMA Returned ==
    ASSUME results \in Seq(Results), read \subseteq read', SuccessBeforeFailure,
           NEW s \in Socks \cup {-1, 0}, NEW rc \in {-1, 0},
           return(s, rc),
           rc = 0 /\ NoFailure => s \in read'
    PROVE  /\ results' \in Seq(Results)
           /\ SuccessBeforeFailure'
           /\ NoFailure' => NoFailure /\ rc = 0
<1> DEFINE r == [socket |-> s, rc |-> rc]
           n == Len(results)
<1>1. r \in Results /\ r.rc = rc /\ r.socket = s
  BY DEF Results
<1>2. results' = Append(results, r)
  BY DEF return
<1> HIDE DEF r
<1>3. /\ results' \in Seq(Results) /\ n \in Nat /\ Len(results') = n + 1
      /\ results'[n + 1] = r /\ \A i \in 1..n : results'[i] = results[i]
      /\ DOMAIN results = 1..n /\ DOMAIN results' = 1..(n + 1)
  BY <1>1, <1>2, AppendProperties, LenProperties
<1> HIDE DEF n
<1>4. NoFailure' => NoFailure /\ rc = 0
  <2>1. n = Len(results)
    BY DEF n
  <2>2. \A i \in 1..n : i \in 1..(n + 1)
    BY <1>3
  <2>3. n + 1 \in 1..(n + 1)
    BY <1>3
  <2> QED
    BY <1>1, <1>3, <2>1, <2>2, <2>3 DEF NoFailure, NoFailureBefore
<1>5. SuccessBeforeFailure'
  <2> SUFFICES ASSUME NEW k \in 1..(n + 1), results'[k].rc = 0, NoFailureBefore(k - 1)'
               PROVE  results'[k].socket \in read'
    BY <1>3 DEF SuccessBeforeFailure
  <2>1. CASE k \in 1..n
    <3>1. \A i \in 1..(k - 1) : i \in 1..n
      BY <1>3, <2>1
    <3>2. NoFailureBefore(k - 1)
      BY <1>3, <3>1 DEF NoFailureBefore
    <3> QED
      BY <1>3, <2>1, <3>2 DEF SuccessBeforeFailure
  <2>2. CASE k = n + 1
    <3>1. k - 1 = n
      BY <1>3, <2>2
    <3>2. NoFailure
      BY <1>3, <3>1 DEF NoFailure, NoFailureBefore, n
    <3> QED
      BY <1>1, <1>3, <2>2, <3>2
  <2> QED
    BY <1>3, <2>1, <2>2
<1> QED
  BY <1>3, <1>4, <1>5

(* A step of a call that goes on, or of another thread: what is sent is    *)
(* left as it is, or to connections already sent to.                       *)
LEMMA CallGoesOn ==
    ASSUME CInv, results' = results, read \subseteq read',
           app.pc = "noTime" => app' = app /\ socket' = socket,
           \A s \in Socks : connectPkt'[s] # "none" => connectPkt[s] # "none",
           \A s \in Socks : tcp[s] \in {"open", "closed"} => tcp'[s] \in {"open", "closed"}
    PROVE  /\ SuccessBeforeFailure' /\ (Hopeful' => Hopeful)
           /\ NoFailure' => SentIsMade'
<1>1. SuccessBeforeFailure' /\ (NoFailure' <=> NoFailure)
  BY NotReturned DEF CInv
<1>2. Hopeful' => Hopeful
  BY <1>1 DEF Hopeful
<1>3. NoFailure' => SentIsMade'
  BY <1>1 DEF CInv, SentIsMade
<1> QED
  BY <1>1, <1>2, <1>3

AppPcs == {"idle", "starting", "semTcp", "loopTcp", "tcpDone", "semConnack",
           "loopConnack", "noTime"}

(* A call that returns an error.                                           *)
LEMMA Failed ==
    ASSUME TypeOK, SuccessBeforeFailure, read \subseteq read',
           NEW s \in Socks \cup {-1, 0}, return(s, -1)
    PROVE  /\ results' \in Seq(Results) /\ SuccessBeforeFailure' /\ ~NoFailure'
           /\ app' \in [pc : AppPcs, rc : {-1, 0, 1}, late : BOOLEAN]
           /\ app'.pc = "idle" /\ app'.rc = 0 /\ app'.late = FALSE
<1>1. results \in Seq(Results)
  BY DEF TypeOK, Results
<1>2. -1 \in {-1, 0} /\ ~(-1 = 0)
  OBVIOUS
<1>3. /\ results' \in Seq(Results) /\ SuccessBeforeFailure'
      /\ NoFailure' => NoFailure /\ -1 = 0
  BY <1>1, <1>2, Returned
<1> QED
  BY <1>3 DEF return, AppPcs

-----------------------------------------------------------------------------
(* What holds as long as no call has failed                                *)

(* A quiet step keeps what is known of the client's socket.                *)
LEMMA SocketSame ==
    ASSUME TypeOK, CycInv, FindsNothing, MakesNothing, socket' = socket
    PROVE  /\ socket \in Socks /\ tcp[socket] \in Made /\ Noted(socket)
               => Noted(socket)'
           /\ \A t \in Threads : Holds(t, socket)' => Holds(t, socket)
<1>1. ASSUME socket \in Socks, tcp[socket] \in Made, Noted(socket)
      PROVE  Noted(socket)'
  <2> PICK s \in Socks : s = socket
    BY <1>1
  <2>1. Noted(s)'
    BY <1>1, QuietStep
  <2> QED
    BY <2>1 DEF Noted
<1>2. \A t \in Threads : Holds(t, socket)' => Holds(t, socket)
  BY DEF Holds, FindsNothing
<1> QED
  BY <1>1, <1>2

(* A thread that has come by the client's socket while TCP is being        *)
(* connected is the only one to find out how that ended.                   *)
LEMMA FoundOut ==
    ASSUME CInv, GoodInv, NEW t \in Threads, cyc[t].sock = socket,
           connect_state = "TCP_IN_PROGRESS"
    PROVE  /\ socket \in Socks /\ app.pc \in {"semTcp", "loopTcp", "tcpDone"}
           /\ connect_sem = 0 /\ tcp[socket] \in {"open", "refused"}
           /\ tcp[socket] = "open" => /\ socket \notin connect_pending
                                     /\ \A u \in Threads : cyc[u].sock = socket => u = t
<1>1. /\ socket \in Socks /\ app.pc \in {"semTcp", "loopTcp", "tcpDone"}
      /\ connectPkt[socket] = "none"
  BY DEF CInv, NetInv, NotSentYet, GoodInv, WaitedFor
<1>2. connect_sem = 0
  BY DEF CInv, TypeOK, GoodInv, ConnectPosted
<1>3. tcp[socket] \in {"open", "refused"}
  <2>1. socket # 0
    BY <1>1 DEF Socks
  <2> QED
    BY <1>1, <2>1 DEF CInv, CycInv, ReadyIsMade, GoodInv, ClosedIsSent
<1>4. socket \notin connect_pending
  BY <1>1 DEF CInv, CycInv, PendingIsNotReady
<1>5. \A u \in Threads : cyc[u].sock = socket /\ tcp[socket] = "open" => u = t
  BY <1>1 DEF CInv, CycInv, OneFinder
<1> QED
  BY <1>1, <1>2, <1>3, <1>4, <1>5

(* The call in progress, if any, is left where it is, and so are the       *)
(* semaphores and the connections.                                         *)
LEMMA GoodSame ==
    ASSUME TypeOK, CycInv, GoodInv, FindsNothing,
           UNCHANGED <<connect_state, socket, semVars, netVars>>,
           app' = app \/ (app.pc = "idle" /\ app'.pc = "starting")
    PROVE  GoodInv'
<1>1. /\ UNCHANGED <<connect_sem, connack_sem, mrc, pack>>
      /\ UNCHANGED <<connect_pending, tcp, connectPkt, sends, inbox, read>>
      /\ connect_state' = connect_state /\ socket' = socket
  BY DEF semVars, netVars
<1>2. MakesNothing
  BY <1>1 DEF MakesNothing
<1>3. /\ socket \in Socks /\ tcp[socket] \in Made /\ Noted(socket) => Noted(socket)'
      /\ \A t \in Threads : Holds(t, socket)' => Holds(t, socket)
  BY <1>1, <1>2, SocketSame
<1>4. WaitedFor' /\ ClosedIsSent'
  BY <1>1 DEF GoodInv, WaitedFor, ClosedIsSent
<1>5. ConnectPosted'
  BY <1>1, <1>3 DEF GoodInv, ConnectPosted, SoError, Made
<1>6. TcpIsDone'
  BY <1>1, <1>3 DEF GoodInv, TcpIsDone, Made
<1>7. ConnackPosted' /\ ConnackTaken'
  BY <1>1, <1>3 DEF GoodInv, ConnackPosted, ConnackTaken
<1> QED
  BY <1>4, <1>5, <1>6, <1>7 DEF GoodInv

-----------------------------------------------------------------------------
(* The application                                                         *)

(* A call that fails without having touched the connections.               *)
LEMMA CallFails ==
    ASSUME CInv, return(socket, -1),
           UNCHANGED <<inTime, socket, ma, running, netVars>>,
           connect_state' \in {"NOT_IN_PROGRESS", "TCP_IN_PROGRESS", "WAIT_FOR_CONNACK"},
           connect_sem' = connect_sem, connack_sem' \in {0, 1},
           mrc' = mrc, pack' = pack,
           calls' \in 0..MaxConnects, calls' >= calls,
           cyc' \in [Threads -> Cycles], FindsNothing, NoSocketYet', NoPackYet',
           cyc'["app"] = NotCycling
    PROVE  CInv'
<1>0. TypeOK /\ calls \in Nat /\ socket \in Socks \cup {-1, 0} /\ MaxConnects \in Nat
  BY ConnectsAssumption DEF CInv, TypeOK
<1>1. UNCHANGED <<connect_pending, tcp, connectPkt, sends, inbox, read>>
  BY DEF netVars
<1>2. /\ results' \in Seq(Results) /\ SuccessBeforeFailure' /\ ~NoFailure'
      /\ app' \in [pc : AppPcs, rc : {-1, 0, 1}, late : BOOLEAN]
      /\ app'.pc = "idle"
  BY <1>0, <1>1, Failed DEF CInv
<1>3. TypeOK'
  BY <1>0, <1>1, <1>2 DEF TypeOK, Cycles, Results, AppPcs
<1>4. NetInv' /\ MakesNothing
  <2>1. \A s \in Socks : Fresh(s)' => Fresh(s)
    BY <1>0, <1>2 DEF Fresh, Socks
  <2> QED
    BY <1>2, <2>1, NetSame DEF CInv
<1>5. CycInv'
  BY <1>4, QuietStep DEF CInv, CycInv, AppCycles
<1> QED
  BY <1>2, <1>3, <1>4, <1>5 DEF CInv, Hopeful

(* MQTTClient_setCallbacks                                                 *)
LEMMA SetCallbacksInv ==
    ASSUME CInv, SetCallbacks
    PROVE  CInv'
<1>1. /\ ma' = TRUE
      /\ UNCHANGED <<inTime, connect_state, socket, running, semVars, netVars, app, cyc,
                     calls, results>>
      /\ UNCHANGED <<connect_sem, connack_sem, mrc, pack>>
      /\ UNCHANGED <<connect_pending, tcp, connectPkt, sends, inbox, read>>
  BY DEF SetCallbacks, semVars, netVars, callVars
<1>2. TypeOK'
  BY <1>1 DEF CInv, TypeOK
<1>3. NetInv' /\ MakesNothing
  BY <1>1, NetSame DEF CInv, NetInv, Called, Fresh
<1>4. FindsNothing /\ NoSocketYet' /\ NoPackYet'
  BY <1>1, CycleSame DEF CInv, CycInv
<1>5. CycInv'
  <2>1. AppCycles'
    BY <1>1 DEF CInv, CycInv, AppCycles
  <2> QED
    BY <1>3, <1>4, <2>1, QuietStep DEF CInv, CycInv
<1>6. Hopeful => GoodInv'
  BY <1>1, <1>4, GoodSame DEF CInv
<1>7. SuccessBeforeFailure' /\ (Hopeful' => Hopeful) /\ (NoFailure' => SentIsMade')
  BY <1>1, CallGoesOn
<1> QED
  BY <1>2, <1>3, <1>5, <1>6, <1>7 DEF CInv

(* MQTTClient_connect starts a run thread, and may be out of time then.    *)
LEMMA StartRunThreadInv ==
    ASSUME CInv, StartRunThread
    PROVE  CInv'
<1>1. /\ app.pc = "idle" /\ calls < MaxConnects /\ calls' = calls + 1
      /\ UNCHANGED <<inTime, clientVars, semVars, netVars>>
      /\ UNCHANGED <<connect_state, socket, ma, running>>
      /\ UNCHANGED <<connect_sem, connack_sem, mrc, pack>>
      /\ UNCHANGED <<connect_pending, tcp, connectPkt, sends, inbox, read>>
  BY DEF StartRunThread, connectURI, clientVars, semVars, netVars
<1>2. PICK t \in RunThreads :
         cyc[t].pc = "off" /\ cyc' = [cyc EXCEPT ![t].pc = "starting"]
  BY DEF StartRunThread
<1>3. /\ TypeOK /\ calls \in 0..MaxConnects /\ cyc \in [Threads -> Cycles] /\ t \in Threads
      /\ t # "app" /\ cyc[t].sock = 0 /\ ~cyc[t].pack
      /\ results \in Seq(Results) /\ MaxConnects \in Nat
  BY <1>2, ThreadsAssumption, ConnectsAssumption
     DEF CInv, TypeOK, CycInv, NoSocketYet, NoPackYet, Threads, Cycles, Results
<1>4. /\ cyc' \in [Threads -> Cycles] /\ cyc'[t].pc = "starting"
      /\ cyc'[t].sock = cyc[t].sock /\ cyc'[t].pack = cyc[t].pack
  BY <1>2, <1>3 DEF Cycles
<1>5. \A u \in Threads : u # t => cyc'[u] = cyc[u]
  BY <1>2, <1>3
<1>6. FindsNothing /\ NoSocketYet' /\ NoPackYet'
  <2>1. FindsNothing
    BY <1>3, <1>4, <1>5 DEF FindsNothing
  <2>2. NoSocketYet' /\ NoPackYet'
    BY <1>3, <1>4, <1>5 DEF CInv, CycInv, NoSocketYet, NoPackYet
  <2> QED
    BY <2>1, <2>2
<1>7. CASE app' = [app EXCEPT !.pc = "starting"] /\ results' = results
  <2>0. app'.pc = "starting" /\ app'.rc = app.rc /\ app'.late = app.late
        /\ app' \in [pc : AppPcs, rc : {-1, 0, 1}, late : BOOLEAN]
    BY <1>3, <1>7 DEF TypeOK, AppPcs
  <2>1. TypeOK'
    BY <1>1, <1>3, <1>4, <1>7, <2>0 DEF TypeOK, Cycles, AppPcs
  <2>2. NetInv' /\ MakesNothing
    <3>1. \A s \in Socks : Fresh(s)' => Fresh(s)
      BY <1>1, <1>3, <2>0 DEF Fresh, Socks
    <3> QED
      BY <1>1, <1>3, <2>0, <3>1, NetSame DEF CInv
  <2>3. CycInv'
    <3>1. AppCycles'
      BY <1>1, <1>3, <1>5, <2>0 DEF CInv, CycInv, AppCycles, Threads
    <3> QED
      BY <1>6, <2>2, <3>1, QuietStep DEF CInv, CycInv
  <2>4. Hopeful => GoodInv'
    BY <1>1, <1>6, <2>0, GoodSame DEF CInv
  <2>5. SuccessBeforeFailure' /\ (Hopeful' => Hopeful) /\ (NoFailure' => SentIsMade')
    BY <1>1, <1>7, CallGoesOn
  <2> QED
    BY <2>1, <2>2, <2>3, <2>4, <2>5 DEF CInv
<1>8. CASE return(socket, -1)
  <2>1. cyc'["app"] = NotCycling
    BY <1>1, <1>3, <1>5 DEF CInv, CycInv, AppCycles, Threads
  <2>2. /\ connack_sem' \in {0, 1} /\ calls' \in 0..MaxConnects /\ calls' >= calls
        /\ connect_state' \in {"NOT_IN_PROGRESS", "TCP_IN_PROGRESS", "WAIT_FOR_CONNACK"}
    BY <1>1, <1>3 DEF TypeOK
  <2> QED
    BY <1>1, <1>4, <1>6, <1>8, <2>1, <2>2, CallFails
<1> QED
  BY <1>7, <1>8 DEF StartRunThread

(* The wait for TCP ends: what was posted is the result for this socket.   *)
LEMMA TakeConnectSemInv ==
    ASSUME CInv, TakeConnectSem
    PROVE  CInv'
<1>1. /\ app.pc = "semTcp" /\ connect_sem = 1 /\ connect_sem' = 0
      /\ UNCHANGED <<inTime, connect_state, socket, ma, running, connack_sem, mrc, pack>>
      /\ UNCHANGED <<netVars, cyc, calls, results>>
      /\ UNCHANGED <<connect_pending, tcp, connectPkt, sends, inbox, read>>
  BY DEF TakeConnectSem, clientVars, netVars, callVars
<1>2. /\ app'.pc = "tcpDone" /\ app'.rc = mrc /\ app'.late = app.late
      /\ app' \in [pc : AppPcs, rc : {-1, 0, 1}, late : BOOLEAN]
  BY DEF TakeConnectSem, CInv, TypeOK, AppPcs
<1>3. TypeOK'
  BY <1>1, <1>2 DEF CInv, TypeOK, AppPcs
<1>4. NetInv' /\ MakesNothing
  <2>1. \A s \in Socks : Fresh(s)' => Fresh(s)
    BY <1>1, <1>2 DEF Fresh
  <2> QED
    BY <1>1, <1>2, <2>1, NetSame DEF CInv, NetInv, Called
<1>5. FindsNothing /\ NoSocketYet' /\ NoPackYet'
  BY <1>1, CycleSame DEF CInv, CycInv
<1>6. CycInv'
  <2>1. AppCycles'
    BY <1>1, <1>2 DEF CInv, CycInv, AppCycles
  <2> QED
    BY <1>4, <1>5, <2>1, QuietStep DEF CInv, CycInv
<1>7. ASSUME Hopeful PROVE GoodInv'
  <2>0. GoodInv
    BY <1>7 DEF CInv
  <2>1. WaitedFor' /\ ClosedIsSent'
    BY <1>1, <1>2, <2>0 DEF GoodInv, WaitedFor, ClosedIsSent
  <2>2. ConnectPosted'
    BY <1>1 DEF ConnectPosted
  <2>3. TcpIsDone'
    <3>1. socket \in Socks /\ mrc = SoError(socket) /\ Noted(socket)
          /\ tcp[socket] \in {"open", "refused"}
      BY <1>1, <2>0 DEF GoodInv, ConnectPosted
    <3>2. Noted(socket)'
      BY <1>1, <3>1 DEF Noted
    <3>3. mrc = 0 => tcp[socket] = "open"
      BY <3>1 DEF SoError
    <3> QED
      BY <1>1, <1>2, <3>1, <3>2, <3>3 DEF TcpIsDone
  <2>4. ConnackPosted' /\ ConnackTaken'
    BY <1>1, <1>2, <2>0 DEF GoodInv, ConnackPosted, ConnackTaken, Holds
  <2> QED
    BY <2>1, <2>2, <2>3, <2>4 DEF GoodInv
<1>8. SuccessBeforeFailure' /\ (Hopeful' => Hopeful) /\ (NoFailure' => SentIsMade')
  BY <1>1, CallGoesOn
<1> QED
  BY <1>3, <1>4, <1>6, <1>7, <1>8 DEF CInv

(* The call returns with the result of its wait: when it succeeds, no call *)
(* having failed before, it has taken the CONNACK of its own connection.   *)
LEMMA CallSucceeds ==
    ASSUME CInv, return(socket, 0), app.pc \in {"semConnack", "loopConnack"},
           UNCHANGED <<inTime, connect_state, socket, ma, running, netVars>>,
           UNCHANGED <<connect_sem, mrc, pack, calls>>, connack_sem' \in {0, 1},
           cyc' \in [Threads -> Cycles], FindsNothing, NoSocketYet', NoPackYet',
           cyc'["app"] = NotCycling,
           Hopeful => /\ connack_sem' = 0 /\ socket \in read
                      /\ \A t \in Threads : ~Holds(t, socket)'
    PROVE  CInv'
<1>0. /\ TypeOK /\ socket \in Socks \cup {-1, 0} /\ 0 \in {-1, 0}
      /\ results \in Seq(Results)
  BY DEF CInv, TypeOK, Results
<1>1. UNCHANGED <<connect_pending, tcp, connectPkt, sends, inbox, read>>
  BY DEF netVars
<1>2. /\ results' \in Seq(Results) /\ SuccessBeforeFailure' /\ (NoFailure' => NoFailure)
  BY <1>0, <1>1, Returned DEF CInv, Hopeful
<1>3. /\ app' \in [pc : AppPcs, rc : {-1, 0, 1}, late : BOOLEAN]
      /\ app'.pc = "idle"
  BY DEF return, AppPcs
<1>4. TypeOK'
  BY <1>0, <1>1, <1>2, <1>3 DEF TypeOK, Cycles, Results, AppPcs
<1>5. NetInv' /\ MakesNothing
  <2>1. \A s \in Socks : Fresh(s)' => Fresh(s)
    BY <1>3 DEF Fresh
  <2> QED
    BY <1>0, <1>3, <2>1, NetSame DEF CInv
<1>6. CycInv'
  BY <1>5, QuietStep DEF CInv, CycInv, AppCycles
<1>7. ASSUME Hopeful PROVE GoodInv'
  <2>0. GoodInv
    BY <1>7 DEF CInv
  <2>1. WaitedFor' /\ ConnectPosted' /\ TcpIsDone'
    BY <1>3, <2>0 DEF GoodInv, WaitedFor, ConnectPosted, TcpIsDone
  <2>2. ClosedIsSent'
    BY <1>1, <2>0 DEF GoodInv, ClosedIsSent
  <2>3. ConnackPosted' /\ ConnackTaken'
    BY <1>1, <1>7 DEF ConnackPosted, ConnackTaken
  <2> QED
    BY <2>1, <2>2, <2>3 DEF GoodInv
<1>8. (Hopeful' => Hopeful) /\ (NoFailure' => SentIsMade')
  BY <1>1, <1>2 DEF CInv, Hopeful, SentIsMade
<1> QED
  BY <1>2, <1>4, <1>5, <1>6, <1>7, <1>8 DEF CInv

(* The wait for CONNACK ends: what was posted is for this socket.          *)
LEMMA TakeConnackSemInv ==
    ASSUME CInv, TakeConnackSem
    PROVE  CInv'
<1>1. /\ app.pc = "semConnack" /\ connack_sem = 1 /\ connack_sem' = 0
      /\ UNCHANGED <<inTime, connect_state, socket, ma, running, netVars>>
      /\ UNCHANGED <<connect_sem, mrc, pack, calls>> /\ cyc' = cyc
  BY DEF TakeConnackSem, clientVars
<1>2. /\ FindsNothing /\ NoSocketYet' /\ NoPackYet'
      /\ cyc' \in [Threads -> Cycles] /\ cyc'["app"] = NotCycling
  BY <1>1, CycleSame DEF CInv, CycInv, AppCycles, TypeOK, Cycles
<1>3. CASE pack = 0
  <2>1. return(socket, -1)
    BY <1>3 DEF TakeConnackSem
  <2>2. /\ calls' \in 0..MaxConnects /\ calls' >= calls
        /\ connect_state' \in {"NOT_IN_PROGRESS", "TCP_IN_PROGRESS", "WAIT_FOR_CONNACK"}
    BY <1>1 DEF CInv, TypeOK
  <2> QED
    BY <1>1, <1>2, <2>1, <2>2, CallFails
<1>4. CASE pack # 0
  <2>1. return(socket, 0)
    BY <1>4 DEF TakeConnackSem
  <2>2. Hopeful => socket \in read /\ \A t \in Threads : ~Holds(t, socket)'
    BY <1>1 DEF CInv, GoodInv, ConnackPosted, Holds
  <2> QED
    BY <1>1, <1>2, <2>1, <2>2, CallSucceeds
<1> QED
  BY <1>3, <1>4

(* A wait times out.                                                       *)
LEMMA SemTimeoutInv ==
    ASSUME CInv, SemTimeout
    PROVE  CInv'
<1>1. /\ app.pc \in {"semTcp", "semConnack"} /\ return(socket, -1)
      /\ UNCHANGED <<inTime, connect_state, socket, ma, running, netVars>>
      /\ UNCHANGED <<connect_sem, connack_sem, mrc, pack, calls>> /\ cyc' = cyc
  BY DEF SemTimeout, clientVars, semVars
<1>2. /\ FindsNothing /\ NoSocketYet' /\ NoPackYet'
      /\ cyc' \in [Threads -> Cycles] /\ cyc'["app"] = NotCycling
  BY <1>1, CycleSame DEF CInv, CycInv, AppCycles, TypeOK, Cycles
<1>3. /\ connack_sem' \in {0, 1} /\ calls' \in 0..MaxConnects /\ calls' >= calls
      /\ connect_state' \in {"NOT_IN_PROGRESS", "TCP_IN_PROGRESS", "WAIT_FOR_CONNACK"}
  BY <1>1 DEF CInv, TypeOK
<1> QED
  BY <1>1, <1>2, <1>3, CallFails

(* There was no time left to wait.                                         *)
LEMMA NoTimeLeftInv ==
    ASSUME CInv, NoTimeLeft
    PROVE  CInv'
<1>1. /\ app.pc = "noTime" /\ return(socket, -1)
      /\ UNCHANGED <<inTime, connect_state, socket, ma, running, netVars>>
      /\ UNCHANGED <<connect_sem, connack_sem, mrc, pack, calls>> /\ cyc' = cyc
  BY DEF NoTimeLeft, clientVars, semVars
<1>2. /\ FindsNothing /\ NoSocketYet' /\ NoPackYet'
      /\ cyc' \in [Threads -> Cycles] /\ cyc'["app"] = NotCycling
  BY <1>1, CycleSame DEF CInv, CycInv, AppCycles, TypeOK, Cycles
<1>3. /\ connack_sem' \in {0, 1} /\ calls' \in 0..MaxConnects /\ calls' >= calls
      /\ connect_state' \in {"NOT_IN_PROGRESS", "TCP_IN_PROGRESS", "WAIT_FOR_CONNACK"}
  BY <1>1 DEF CInv, TypeOK
<1> QED
  BY <1>1, <1>2, <1>3, CallFails

(* The calling thread waits for TCP in its own cycles.                     *)
LEMMA LoopTcpInv ==
    ASSUME CInv, LoopTcp
    PROVE  CInv'
<1>1. /\ app.pc = "loopTcp"
      /\ UNCHANGED <<inTime, connect_state, socket, ma, running, semVars, netVars>>
      /\ UNCHANGED <<connect_sem, connack_sem, mrc, pack, calls, results>>
      /\ UNCHANGED <<connect_pending, tcp, connectPkt, sends, inbox, read>>
  BY DEF LoopTcp, clientVars, semVars, netVars, callVars
<1>2. TypeOK /\ "app" \in Threads /\ NoSocketYet /\ NoPackYet
  BY DEF CInv, CycInv, Threads
<1>3. SuccessBeforeFailure' /\ (Hopeful' => Hopeful) /\ (NoFailure' => SentIsMade')
  BY <1>1, CallGoesOn
<1>4. CASE app' = app /\ cyc' = [cyc EXCEPT !["app"] = Selecting]
  <2>1. /\ cyc' \in [Threads -> Cycles] /\ FindsNothing
        /\ NoSocketYet' /\ NoPackYet'
    BY <1>2, <1>4, CycleReset, SelectingIs
  <2>2. TypeOK'
    BY <1>1, <1>2, <1>4, <2>1 DEF TypeOK, Cycles
  <2>3. NetInv' /\ MakesNothing
    BY <1>1, <1>2, <1>4, NetSame DEF CInv, NetInv, Called, Fresh
  <2>4. CycInv'
    BY <1>1, <1>4, <2>1, <2>3, QuietStep DEF CInv, CycInv, AppCycles
  <2>5. Hopeful => GoodInv'
    BY <1>1, <1>4, <2>1, GoodSame DEF CInv
  <2> QED
    BY <1>3, <2>2, <2>3, <2>4, <2>5 DEF CInv
<1>5. CASE /\ \E rc \in {-1, 0, 1}, late \in BOOLEAN :
                 /\ app' = [app EXCEPT !.pc = "tcpDone", !.rc = rc, !.late = late]
                 /\ \/ rc # 0 \/ late
                    \/ /\ cyc["app"].sock = socket /\ connect_state = "TCP_IN_PROGRESS"
                       /\ rc = SoError(socket)
           /\ cyc' = [cyc EXCEPT !["app"] = NotCycling]
  <2>1. /\ app' \in [pc : AppPcs, rc : {-1, 0, 1}, late : BOOLEAN]
        /\ app'.pc = "tcpDone"
        /\ \/ app'.rc # 0 \/ app'.late
           \/ /\ cyc["app"].sock = socket /\ connect_state = "TCP_IN_PROGRESS"
              /\ app'.rc = SoError(socket)
    BY <1>2, <1>5 DEF TypeOK, AppPcs
  <2>2. /\ cyc' \in [Threads -> Cycles] /\ FindsNothing
        /\ NoSocketYet' /\ NoPackYet' /\ cyc'["app"].sock = 0
        /\ \A u \in Threads : u # "app" => cyc'[u] = cyc[u]
        /\ cyc'["app"] = NotCycling
    BY <1>2, <1>5, CycleReset DEF NotCycling
  <2>3. TypeOK'
    BY <1>1, <1>2, <2>1, <2>2 DEF TypeOK, Cycles, AppPcs
  <2>4. NetInv' /\ MakesNothing
    <3>1. \A s \in Socks : Fresh(s)' => Fresh(s)
      BY <1>1, <2>1 DEF Fresh
    <3> QED
      BY <1>1, <1>2, <2>1, <3>1, NetSame DEF CInv, NetInv, Called
  <2>5. CycInv'
    BY <2>2, <2>4, QuietStep DEF CInv, CycInv, AppCycles
  <2>6. ASSUME Hopeful PROVE GoodInv'
    <3>0. GoodInv
      BY <2>6 DEF CInv
    <3>1. WaitedFor' /\ ClosedIsSent'
      BY <1>1, <2>1, <3>0 DEF GoodInv, WaitedFor, ClosedIsSent
    <3>2. ConnectPosted'
      <4>1. socket \in Socks /\ tcp[socket] \in Made /\ Noted(socket) => Noted(socket)'
        BY <1>1, <2>2, <2>4, SocketSame DEF CInv
      <4> QED
        BY <1>1, <2>1, <3>0, <4>1 DEF GoodInv, ConnectPosted, SoError, Made
    <3>3. TcpIsDone'
      <4> SUFFICES ASSUME app'.rc = 0, ~app'.late
                   PROVE  /\ connect_sem = 0 /\ socket \in Socks
                          /\ tcp[socket] = "open" /\ Noted(socket)'
        BY <1>1 DEF TcpIsDone
      <4>1. /\ cyc["app"].sock = socket /\ connect_state = "TCP_IN_PROGRESS"
            /\ SoError(socket) = 0
        BY <2>1
      <4>2. /\ socket \in Socks /\ connect_sem = 0
            /\ tcp[socket] \in {"open", "refused"}
            /\ tcp[socket] = "open" =>
                /\ socket \notin connect_pending
                /\ \A u \in Threads : cyc[u].sock = socket => u = "app"
        BY <1>2, <3>0, <4>1, FoundOut
      <4>3. tcp[socket] = "open"
        BY <4>1, <4>2 DEF SoError
      <4>4. 0 # socket
        BY <4>2 DEF Socks
      <4>5. Noted(socket)'
        BY <1>1, <2>2, <4>2, <4>3, <4>4 DEF Noted
      <4> QED
        BY <4>2, <4>3, <4>5
    <3>4. ConnackPosted' /\ ConnackTaken'
      BY <1>1, <2>1, <3>0 DEF GoodInv, ConnackPosted, ConnackTaken
    <3> QED
      BY <3>1, <3>2, <3>3, <3>4 DEF GoodInv
  <2> QED
    BY <1>3, <2>3, <2>4, <2>5, <2>6 DEF CInv
<1> QED
  <2>1. app.rc \in {-1, 0, 1} /\ app.late \in BOOLEAN /\ cyc["app"].rc \in {-1, 0}
        /\ app = [pc |-> app.pc, rc |-> app.rc, late |-> app.late]
        /\ SoError(socket) \in {0, 1}
    BY <1>2 DEF TypeOK, SoError
  <2>2. \A rc \in {-1, 0, 1} :
           [app EXCEPT !.pc = "tcpDone", !.rc = rc]
               = [app EXCEPT !.pc = "tcpDone", !.rc = rc, !.late = app.late]
    BY <1>2 DEF TypeOK
  <2>3. CASE /\ app' = [app EXCEPT !.pc = "tcpDone", !.rc = -1]
             /\ cyc' = [cyc EXCEPT !["app"] = NotCycling]
    <3>1. app' = [app EXCEPT !.pc = "tcpDone", !.rc = -1, !.late = app.late]
      BY <2>2, <2>3
    <3>2. -1 \in {-1, 0, 1} /\ ~(-1 = 0)
      OBVIOUS
    <3> QED
      BY <1>5, <2>1, <2>3, <3>1, <3>2
  <2>4. CASE /\ cyc["app"].sock = socket /\ connect_state = "TCP_IN_PROGRESS"
             /\ app' = [app EXCEPT !.pc = "tcpDone", !.rc = SoError(socket)]
             /\ cyc' = [cyc EXCEPT !["app"] = NotCycling]
    BY <1>5, <2>1, <2>2, <2>4
  <2>5. CASE /\ app' = [app EXCEPT !.pc = "tcpDone", !.rc = cyc["app"].rc, !.late = TRUE]
             /\ cyc' = [cyc EXCEPT !["app"] = NotCycling]
    BY <1>5, <2>1, <2>5
  <2> QED
    BY <1>4, <2>3, <2>4, <2>5 DEF LoopTcp

(* The calling thread waits for CONNACK in its own cycles.                 *)
LEMMA LoopConnackInv ==
    ASSUME CInv, LoopConnack
    PROVE  CInv'
<1>1. /\ app.pc = "loopConnack"
      /\ UNCHANGED <<inTime, connect_state, socket, ma, running, semVars, netVars>>
      /\ UNCHANGED <<connect_sem, connack_sem, mrc, pack, calls>>
      /\ UNCHANGED <<connect_pending, tcp, connectPkt, sends, inbox, read>>
  BY DEF LoopConnack, clientVars, semVars, netVars
<1>2. /\ TypeOK /\ "app" \in Threads /\ NoSocketYet /\ NoPackYet
      /\ connack_sem \in {0, 1} /\ calls \in 0..MaxConnects
  BY DEF CInv, CycInv, Threads, TypeOK
<1>3. CASE app' = app /\ results' = results /\ cyc' = [cyc EXCEPT !["app"] = Selecting]
  <2>1. /\ cyc' \in [Threads -> Cycles] /\ FindsNothing
        /\ NoSocketYet' /\ NoPackYet'
    BY <1>2, <1>3, CycleReset, SelectingIs
  <2>2. TypeOK'
    BY <1>1, <1>2, <1>3, <2>1 DEF TypeOK, Cycles
  <2>3. NetInv' /\ MakesNothing
    BY <1>1, <1>2, <1>3, NetSame DEF CInv, NetInv, Called, Fresh
  <2>4. CycInv'
    BY <1>1, <1>3, <2>1, <2>3, QuietStep DEF CInv, CycInv, AppCycles
  <2>5. Hopeful => GoodInv'
    BY <1>1, <1>3, <2>1, GoodSame DEF CInv
  <2>6. SuccessBeforeFailure' /\ (Hopeful' => Hopeful) /\ (NoFailure' => SentIsMade')
    BY <1>1, <1>3, CallGoesOn
  <2> QED
    BY <2>2, <2>3, <2>4, <2>5, <2>6 DEF CInv
<1>4. ASSUME cyc' = [cyc EXCEPT !["app"] = NotCycling]
      PROVE  /\ cyc' \in [Threads -> Cycles] /\ FindsNothing
             /\ NoSocketYet' /\ NoPackYet' /\ cyc'["app"] = NotCycling
             /\ \A u \in Threads : u # "app" => cyc'[u] = cyc[u]
  BY <1>2, <1>4, CycleReset DEF NotCycling
<1>5. CASE return(socket, -1) /\ cyc' = [cyc EXCEPT !["app"] = NotCycling]
  <2>1. /\ connack_sem' \in {0, 1} /\ calls' \in 0..MaxConnects /\ calls' >= calls
        /\ connect_state' \in {"NOT_IN_PROGRESS", "TCP_IN_PROGRESS", "WAIT_FOR_CONNACK"}
    BY <1>1, <1>2 DEF TypeOK
  <2> QED
    BY <1>1, <1>4, <1>5, <2>1, CallFails
<1>6. CASE /\ cyc["app"].sock = socket /\ cyc["app"].pack
           /\ return(socket, 0) /\ cyc' = [cyc EXCEPT !["app"] = NotCycling]
  <2>1. Hopeful => /\ connack_sem' = 0 /\ socket \in read
                   /\ \A t \in Threads : ~Holds(t, socket)'
    <3>1. Holds("app", socket) /\ socket \in read
      BY <1>2, <1>6 DEF Holds, CInv, CycInv, PackIsRead
    <3>2. Hopeful => connack_sem' = 0
      BY <1>1, <1>2, <3>1 DEF CInv, GoodInv, ConnackPosted
    <3>3. ASSUME NEW t \in Threads PROVE ~Holds(t, socket)'
      <4>1. cyc'["app"].pack = FALSE
        BY <1>4, <1>6 DEF NotCycling
      <4>2. CASE t = "app"
        BY <4>1, <4>2 DEF Holds
      <4>3. CASE t # "app"
        <5>1. socket \in Socks
          BY <3>1, <1>2 DEF TypeOK
        <5>2. ~Holds(t, socket)
          BY <1>2, <3>1, <4>3, <5>1 DEF CInv, CycInv, OneHolder
        <5> QED
          BY <1>1, <1>4, <1>6, <4>3, <5>2 DEF Holds
      <4> QED
        BY <4>2, <4>3
    <3> QED
      BY <3>1, <3>2, <3>3
  <2>2. connack_sem' \in {0, 1}
    BY <1>1, <1>2
  <2> QED
    BY <1>1, <1>4, <1>6, <2>1, <2>2, CallSucceeds
<1> QED
  BY <1>3, <1>5, <1>6 DEF LoopConnack

-----------------------------------------------------------------------------
(* MQTTClient_cycle                                                        *)

(* A thread in MQTTClient_cycle is a run thread or the calling thread in   *)
(* one of its loops.                                                       *)
LEMMA CyclesInLoop ==
    ASSUME CInv, NEW t \in Threads, cyc[t].pc # "off"
    PROVE  t = "app" => app.pc \in {"loopTcp", "loopConnack"}
<1> QED
  BY DEF CInv, CycInv, AppCycles, NotCycling

(* A run thread announces itself.                                          *)
LEMMA RunStartsInv ==
    ASSUME CInv, NEW t \in RunThreads, RunStarts(t)
    PROVE  CInv'
<1>1. /\ running' = TRUE /\ cyc' = [cyc EXCEPT ![t] = Selecting]
      /\ UNCHANGED <<inTime, connect_state, socket, ma, semVars, netVars>>
      /\ UNCHANGED <<connect_sem, connack_sem, mrc, pack, app, calls, results>>
      /\ UNCHANGED <<connect_pending, tcp, connectPkt, sends, inbox, read>>
  BY DEF RunStarts, semVars, netVars, callVars
<1>2. TypeOK /\ t \in Threads /\ t # "app" /\ "app" \in Threads /\ NoSocketYet /\ NoPackYet
  BY ThreadsAssumption DEF CInv, CycInv, Threads
<1>3. /\ cyc' \in [Threads -> Cycles] /\ FindsNothing
      /\ NoSocketYet' /\ NoPackYet' /\ cyc'["app"] = cyc["app"]
  BY <1>1, <1>2, CycleReset, SelectingIs
<1>4. TypeOK'
  BY <1>1, <1>2, <1>3 DEF TypeOK, Cycles
<1>5. NetInv' /\ MakesNothing
  BY <1>1, <1>2, NetSame DEF CInv, NetInv, Called, Fresh
<1>6. CycInv'
  BY <1>1, <1>3, <1>5, QuietStep DEF CInv, CycInv, AppCycles
<1>7. Hopeful => GoodInv'
  BY <1>1, <1>3, GoodSame DEF CInv
<1>8. SuccessBeforeFailure' /\ (Hopeful' => Hopeful) /\ (NoFailure' => SentIsMade')
  BY <1>1, CallGoesOn
<1> QED
  BY <1>4, <1>5, <1>6, <1>7, <1>8 DEF CInv

(* Socket_getReadySocket finds no socket.                                  *)
LEMMA NoneReadyInv ==
    ASSUME CInv, NEW t \in Threads, NoneReady(t)
    PROVE  CInv'
<1>1. /\ cyc[t].pc = "select" /\ cyc' = [cyc EXCEPT ![t].pc = "cycle", ![t].sock = 0]
      /\ UNCHANGED <<inTime, connect_state, socket, ma, running, semVars, netVars>>
      /\ UNCHANGED <<connect_sem, connack_sem, mrc, pack, app, calls, results>>
      /\ UNCHANGED <<connect_pending, tcp, connectPkt, sends, inbox, read>>
  BY DEF NoneReady, clientVars, semVars, netVars, callVars
<1>2. TypeOK /\ cyc \in [Threads -> Cycles] /\ NoSocketYet /\ NoPackYet
  BY DEF CInv, CycInv, TypeOK, Cycles
<1>3. /\ cyc' \in [Threads -> Cycles] /\ cyc'[t].pc = "cycle"
      /\ cyc'[t].sock = 0 /\ cyc'[t].pack = cyc[t].pack
  BY <1>1, <1>2 DEF Cycles
<1>4. \A u \in Threads : u # t => cyc'[u] = cyc[u]
  BY <1>1, <1>2
<1>5. FindsNothing /\ NoSocketYet' /\ NoPackYet'
  <2>1. ~cyc[t].pack
    BY <1>1, <1>2 DEF NoPackYet
  <2> QED
    BY <1>2, <1>3, <1>4, <2>1 DEF FindsNothing, NoSocketYet, NoPackYet
<1>6. TypeOK'
  BY <1>1, <1>2, <1>3 DEF TypeOK, Cycles
<1>7. NetInv' /\ MakesNothing
  BY <1>1, <1>2, NetSame DEF CInv, NetInv, Called, Fresh
<1>8. CycInv'
  <2>1. AppCycles'
    BY <1>1, <1>4, CyclesInLoop DEF CInv, CycInv, AppCycles, Threads
  <2> QED
    BY <1>5, <1>7, <2>1, QuietStep DEF CInv, CycInv
<1>9. Hopeful => GoodInv'
  BY <1>1, <1>5, GoodSame DEF CInv
<1>10. SuccessBeforeFailure' /\ (Hopeful' => Hopeful) /\ (NoFailure' => SentIsMade')
  BY <1>1, CallGoesOn
<1> QED
  BY <1>6, <1>7, <1>8, <1>9, <1>10 DEF CInv

(* The run thread tells the call what its cycle has found.                 *)
LEMMA PostRunInv ==
    ASSUME CInv, NEW t \in RunThreads, PostRun(t)
    PROVE  CInv'
<1>1. /\ app.pc # "starting" /\ cyc' = [cyc EXCEPT ![t] = Selecting]
      /\ UNCHANGED <<inTime, socket, ma, running, netVars>>
      /\ UNCHANGED <<app, calls, results>>
      /\ UNCHANGED <<connect_pending, tcp, connectPkt, sends, inbox, read>>
  BY DEF PostRun, MutexFree, netVars, callVars
<1>2. /\ TypeOK /\ t \in Threads /\ t # "app" /\ "app" \in Threads
      /\ NoSocketYet /\ NoPackYet /\ cyc[t].sock \in Socks \cup {0}
      /\ connect_sem \in {0, 1} /\ connack_sem \in {0, 1}
      /\ SoError(cyc[t].sock) \in {0, 1}
  BY ThreadsAssumption DEF CInv, CycInv, Threads, TypeOK, SoError
<1>3. /\ cyc' \in [Threads -> Cycles] /\ FindsNothing
      /\ NoSocketYet' /\ NoPackYet' /\ cyc'["app"] = cyc["app"]
      /\ \A u \in Threads : u # t => cyc'[u] = cyc[u]
  BY <1>1, <1>2, CycleReset, SelectingIs
<1>4. cyc'[t].sock = 0 /\ cyc'[t].pack = FALSE
  <2>1. cyc'[t] = [pc |-> "select", sock |-> 0, pack |-> FALSE, rc |-> 0]
    BY <1>1, <1>2, CycleReset, SelectingIs
  <2> QED
    BY <2>1
<1>5. NetInv' /\ MakesNothing
  BY <1>1, <1>2, NetSame DEF CInv, NetInv, Called, Fresh
<1>6. CycInv'
  BY <1>1, <1>3, <1>5, QuietStep DEF CInv, CycInv, AppCycles
<1>7. SuccessBeforeFailure' /\ (Hopeful' => Hopeful) /\ (NoFailure' => SentIsMade')
  BY <1>1, CallGoesOn
<1>8. /\ socket \in Socks /\ tcp[socket] \in Made /\ Noted(socket) => Noted(socket)'
      /\ \A u \in Threads : Holds(u, socket)' => Holds(u, socket)
  BY <1>1, <1>3, <1>5, SocketSame DEF CInv
<1>9. CASE UNCHANGED <<semVars, connect_state>>
  <2>1. TypeOK'
    BY <1>1, <1>2, <1>3, <1>9 DEF TypeOK, Cycles, semVars
  <2>2. Hopeful => GoodInv'
    BY <1>1, <1>3, <1>9, GoodSame DEF CInv
  <2> QED
    BY <1>5, <1>6, <1>7, <2>1, <2>2 DEF CInv
<1>10. CASE /\ cyc[t].sock = socket /\ cyc[t].pack
            /\ pack' = cyc[t].sock /\ connack_sem' = 1
            /\ UNCHANGED <<connect_sem, mrc, connect_state>>
  <2>1. TypeOK'
    BY <1>1, <1>2, <1>3, <1>10 DEF TypeOK, Cycles
  <2>2. ASSUME Hopeful PROVE GoodInv'
    <3>0. GoodInv /\ Holds(t, socket)
      BY <1>10, <2>2 DEF CInv, Holds
    <3>1. WaitedFor' /\ ClosedIsSent'
      BY <1>1, <1>10, <3>0 DEF GoodInv, WaitedFor, ClosedIsSent
    <3>2. ConnectPosted'
      BY <1>1, <1>8, <1>10, <3>0 DEF GoodInv, ConnectPosted, SoError, Made
    <3>3. TcpIsDone'
      BY <1>1, <1>8, <1>10, <3>0 DEF GoodInv, TcpIsDone, Made
    <3>4. socket \in read /\ socket \in Socks
      BY <1>2, <1>10 DEF CInv, CycInv, PackIsRead, TypeOK
    <3>5. app.pc \in {"semConnack", "loopConnack"}
      <4>1. app.pc \notin {"semTcp", "loopTcp", "tcpDone"}
        BY <3>4 DEF CInv, NetInv, NotSentYet, ReadIsSent
      <4>2. app.pc \notin {"idle", "starting"}
        BY <1>2, <3>0 DEF GoodInv, ConnackTaken
      <4> QED
        BY <1>2, <2>2, <4>1, <4>2 DEF TypeOK, Hopeful
    <3>6. \A u \in Threads : ~Holds(u, socket)'
      <4>1. ~Holds(t, socket)'
        BY <1>4 DEF Holds
      <4>2. \A u \in Threads : Holds(u, socket) => u = t
        BY <1>2, <3>0, <3>4 DEF CInv, CycInv, OneHolder
      <4> QED
        BY <1>8, <4>1, <4>2
    <3>7. ConnackPosted' /\ ConnackTaken'
      BY <1>1, <3>4, <3>5, <3>6 DEF ConnackPosted, ConnackTaken
    <3> QED
      BY <3>1, <3>2, <3>3, <3>7 DEF GoodInv
  <2> QED
    BY <1>5, <1>6, <1>7, <2>1, <2>2 DEF CInv
<1>11. CASE /\ cyc[t].sock = socket /\ connect_state = "TCP_IN_PROGRESS"
            /\ mrc' = SoError(socket) /\ connect_state' = "NOT_IN_PROGRESS"
            /\ connect_sem' = 1 /\ UNCHANGED <<connack_sem, pack>>
  <2>1. TypeOK'
    BY <1>1, <1>2, <1>3, <1>11 DEF TypeOK, Cycles
  <2>2. ASSUME Hopeful PROVE GoodInv'
    <3>0. GoodInv
      BY <2>2 DEF CInv
    <3>1. WaitedFor' /\ ClosedIsSent'
      BY <1>1, <1>11, <3>0 DEF GoodInv, WaitedFor, ClosedIsSent
    <3>2. /\ socket \in Socks /\ app.pc \in {"semTcp", "loopTcp", "tcpDone"}
          /\ tcp[socket] \in {"open", "refused"}
          /\ tcp[socket] = "open" => /\ socket \notin connect_pending
                                    /\ \A u \in Threads : cyc[u].sock = socket => u = t
      BY <1>2, <1>11, <3>0, FoundOut
    <3>3. Noted(socket)'
      <4>1. socket # 0
        BY <3>2 DEF Socks
      <4> QED
        BY <1>1, <1>3, <1>4, <3>2, <4>1 DEF Noted
    <3>4. ConnectPosted'
      BY <1>1, <1>11, <3>2, <3>3 DEF ConnectPosted, SoError
    <3>5. TcpIsDone'
      BY <1>1, <1>2, <1>11, <3>0 DEF GoodInv, TcpIsDone, Noted
    <3>6. ConnackPosted' /\ ConnackTaken'
      BY <1>1, <1>11, <3>0, <3>2 DEF GoodInv, ConnackPosted, ConnackTaken
    <3> QED
      BY <3>1, <3>4, <3>5, <3>6 DEF GoodInv
  <2> QED
    BY <1>5, <1>6, <1>7, <2>1, <2>2 DEF CInv
<1> QED
  BY <1>2, <1>9, <1>10, <1>11 DEF PostRun, PostConnect, Thread_post_sem

(* Socket_getReadySocket finds a socket.                                   *)
LEMMA ReadySocketInv ==
    ASSUME CInv, NEW t \in Threads, NEW s \in Socks, ReadySocket(t, s)
    PROVE  CInv'
<1>1. /\ cyc[t].pc = "select" /\ cyc' = [cyc EXCEPT ![t].pc = "cycle", ![t].sock = s]
      /\ connect_pending' = connect_pending \ {s}
      /\ UNCHANGED <<inTime, connect_state, socket, ma, running>>
      /\ UNCHANGED <<connect_sem, connack_sem, mrc, pack, app, calls, results>>
      /\ UNCHANGED <<tcp, connectPkt, sends, inbox, read>>
  BY DEF ReadySocket, clientVars, semVars, callVars
<1>2. TypeOK /\ cyc \in [Threads -> Cycles] /\ NetInv /\ CycInv /\ 0 \notin Socks
  BY DEF CInv, TypeOK, Cycles, Socks
<1>3. /\ cyc' \in [Threads -> Cycles] /\ cyc'[t].pc = "cycle"
      /\ cyc'[t].sock = s /\ cyc'[t].pack = cyc[t].pack
  BY <1>1, <1>2 DEF Cycles
<1>4. \A u \in Threads : u # t => cyc'[u] = cyc[u]
  BY <1>1, <1>2
<1>5. ~cyc[t].pack /\ ~cyc'[t].pack /\ cyc[t].sock = 0
  BY <1>1, <1>2, <1>3 DEF CycInv, NoPackYet, NoSocketYet
<1>6. /\ tcp[s] \in {"open", "refused", "closed"}
      /\ s \in connect_pending \/ tcp[s] # "open" \/ connectPkt[s] # "none"
  <2>1. isReady(s) /\ tcp[s] \in {"none", "connecting", "open", "refused", "closed"}
    BY <1>2 DEF ReadySocket, TypeOK
  <2> QED
    BY <1>2, <2>1 DEF isReady, NetInv, NoneIsUnused, InboxUnread
<1>7. TypeOK'
  BY <1>1, <1>2, <1>3 DEF TypeOK, Cycles
<1>8. NetInv'
  <2>1. Called' /\ FreshIsNone' /\ NotSentYet'
    BY <1>1, <1>2 DEF NetInv, Called, FreshIsNone, NotSentYet, Fresh
  <2>2. NoneIsUnused' /\ SentOnce' /\ InboxUnread' /\ ReadIsSent' /\ SocketIsMade'
    BY <1>1, <1>2 DEF NetInv, NoneIsUnused, SentOnce, InboxUnread, ReadIsSent, SocketIsMade
  <2> QED
    BY <2>1, <2>2 DEF NetInv
<1>9. CycInv'
  <2>1. AppCycles'
    BY <1>1, <1>4, CyclesInLoop DEF CInv, CycInv, AppCycles, Threads
  <2>2. NoSocketYet' /\ NoPackYet'
    BY <1>2, <1>3, <1>4, <1>5 DEF CycInv, NoSocketYet, NoPackYet
  <2>3. ReadyIsMade'
    BY <1>1, <1>2, <1>3, <1>4, <1>6 DEF CycInv, ReadyIsMade
  <2>4. PackIsRead'
    BY <1>1, <1>2, <1>4, <1>5 DEF CycInv, PackIsRead
  <2>5. OneHolder'
    BY <1>2, <1>4, <1>5 DEF CycInv, OneHolder, Holds
  <2>6. PendingIsNotReady'
    BY <1>1, <1>2, <1>3, <1>4 DEF CycInv, PendingIsNotReady
  <2>7. OneFinder'
    <3> SUFFICES ASSUME NEW v \in Threads, NEW u \in Threads, NEW r \in Socks,
                        cyc'[v].sock = r, cyc'[u].sock = r,
                        connectPkt[r] = "none", tcp[r] = "open"
                 PROVE  v = u
      BY <1>1 DEF OneFinder
    <3>1. ASSUME NEW w \in Threads, w # t PROVE cyc'[w].sock = s /\ r = s => FALSE
      BY <1>2, <1>4, <1>6, <3>1 DEF CycInv, PendingIsNotReady, OneFinder
    <3>2. CASE r = s
      BY <3>1, <3>2
    <3>3. CASE r # s
      BY <1>2, <1>3, <1>4, <3>3 DEF CycInv, OneFinder
    <3> QED
      BY <3>2, <3>3
  <2> QED
    BY <2>1, <2>2, <2>3, <2>4, <2>5, <2>6, <2>7 DEF CycInv
<1>10. SuccessBeforeFailure' /\ (Hopeful' => Hopeful) /\ (NoFailure' => SentIsMade')
  BY <1>1, CallGoesOn
<1>11. ASSUME Hopeful PROVE GoodInv'
  <2>0. GoodInv
    BY <1>11 DEF CInv
  <2>1. WaitedFor' /\ ClosedIsSent'
    BY <1>1, <2>0 DEF GoodInv, WaitedFor, ClosedIsSent
  <2>2. ASSUME socket \in Socks, app.pc \in {"semTcp", "loopTcp", "tcpDone"}, Noted(socket)
        PROVE  Noted(socket)'
    <3>1. tcp[socket] = "open" => socket # s
      BY <1>2, <1>6, <2>2 DEF NetInv, NotSentYet, Noted
    <3> QED
      BY <1>1, <1>3, <1>4, <2>2, <3>1 DEF Noted
  <2>3. ConnectPosted'
    BY <1>1, <2>0, <2>2 DEF GoodInv, ConnectPosted, SoError
  <2>4. TcpIsDone'
    BY <1>1, <2>0, <2>2 DEF GoodInv, TcpIsDone
  <2>5. \A u \in Threads : Holds(u, socket)' => Holds(u, socket)
    BY <1>1, <1>4, <1>5 DEF Holds
  <2>6. ConnackPosted' /\ ConnackTaken'
    BY <1>1, <2>0, <2>5 DEF GoodInv, ConnackPosted, ConnackTaken
  <2> QED
    BY <2>1, <2>3, <2>4, <2>6 DEF GoodInv
<1> QED
  BY <1>7, <1>8, <1>9, <1>10, <1>11 DEF CInv

(* The rest of CONNECT is written, or given up.                            *)
LEMMA ContinueConnectInv ==
    ASSUME CInv, NEW t \in Threads, NEW s \in Socks, ContinueConnect(t, s)
    PROVE  CInv'
<1>1. /\ cyc[t].pc = "select" /\ connectPkt[s] = "pending" /\ tcp[s] # "connecting"
      /\ UNCHANGED <<inTime, connect_state, socket, ma, running>>
      /\ UNCHANGED <<connect_sem, connack_sem, mrc, pack, app, calls, results>>
      /\ UNCHANGED <<connect_pending, tcp, sends, inbox, read>>
  BY DEF ContinueConnect, clientVars, semVars, callVars
<1>2. /\ TypeOK /\ cyc \in [Threads -> Cycles] /\ NetInv /\ CycInv /\ 0 \notin Socks
      /\ tcp[s] \in {"none", "connecting", "open", "refused", "closed"}
      /\ connectPkt \in [Socks -> {"none", "pending", "sent", "lost"}]
  BY DEF CInv, TypeOK, Cycles, Socks
<1>3. /\ connectPkt' \in [Socks -> {"none", "pending", "sent", "lost"}]
      /\ connectPkt'[s] # "none"
      /\ \A r \in Socks : connectPkt'[r] = "none" <=> connectPkt[r] = "none"
  BY <1>1, <1>2 DEF ContinueConnect
<1>4. tcp[s] \in {"open", "refused", "closed"}
  BY <1>1, <1>2 DEF NetInv, NoneIsUnused
<1>5. /\ cyc' \in [Threads -> Cycles]
      /\ \A u \in Threads : u # t => cyc'[u] = cyc[u]
      /\ \/ cyc'[t] = cyc[t]
         \/ /\ tcp[s] # "open"
            /\ cyc'[t].pc = "cycle" /\ cyc'[t].sock = s /\ cyc'[t].pack = cyc[t].pack
  BY <1>2 DEF ContinueConnect, Cycles
<1>6. ~cyc[t].pack /\ ~cyc'[t].pack
  BY <1>1, <1>2, <1>5 DEF CycInv, NoPackYet
<1>7. TypeOK'
  BY <1>1, <1>2, <1>3, <1>5 DEF TypeOK, Cycles
<1>8. NetInv'
  <2>1. Called' /\ FreshIsNone' /\ NotSentYet'
    BY <1>1, <1>2, <1>3 DEF NetInv, Called, FreshIsNone, NotSentYet, Fresh
  <2>2. NoneIsUnused' /\ SentOnce' /\ InboxUnread' /\ SocketIsMade'
    BY <1>1, <1>2, <1>3 DEF NetInv, NoneIsUnused, SentOnce, InboxUnread, SocketIsMade
  <2>3. ReadIsSent'
    BY <1>1, <1>2, <1>3 DEF NetInv, ReadIsSent, TypeOK
  <2> QED
    BY <2>1, <2>2, <2>3 DEF NetInv
<1>9. CycInv'
  <2>1. AppCycles'
    BY <1>1, <1>5, CyclesInLoop DEF CInv, CycInv, AppCycles, Threads
  <2>2. NoSocketYet' /\ NoPackYet'
    BY <1>2, <1>5, <1>6 DEF CycInv, NoSocketYet, NoPackYet
  <2>3. ReadyIsMade'
    BY <1>1, <1>2, <1>4, <1>5 DEF CycInv, ReadyIsMade
  <2>4. PackIsRead'
    BY <1>1, <1>2, <1>5, <1>6 DEF CycInv, PackIsRead
  <2>5. OneHolder'
    BY <1>2, <1>5, <1>6 DEF CycInv, OneHolder, Holds
  <2>6. PendingIsNotReady'
    BY <1>1, <1>2, <1>3, <1>5 DEF CycInv, PendingIsNotReady
  <2>7. OneFinder'
    BY <1>1, <1>2, <1>3, <1>5 DEF CycInv, OneFinder
  <2> QED
    BY <2>1, <2>2, <2>3, <2>4, <2>5, <2>6, <2>7 DEF CycInv
<1>10. SuccessBeforeFailure' /\ (Hopeful' => Hopeful) /\ (NoFailure' => SentIsMade')
  BY <1>1, <1>3, CallGoesOn
<1>11. ASSUME Hopeful PROVE GoodInv'
  <2>0. GoodInv
    BY <1>11 DEF CInv
  <2>1. WaitedFor' /\ ClosedIsSent'
    BY <1>1, <1>3, <2>0 DEF GoodInv, WaitedFor, ClosedIsSent
  <2>2. Noted(socket) => Noted(socket)'
    BY <1>1, <1>5 DEF Noted
  <2>3. ConnectPosted'
    BY <1>1, <2>0, <2>2 DEF GoodInv, ConnectPosted, SoError
  <2>4. TcpIsDone'
    BY <1>1, <2>0, <2>2 DEF GoodInv, TcpIsDone
  <2>5. \A u \in Threads : Holds(u, socket)' => Holds(u, socket)
    BY <1>1, <1>5, <1>6 DEF Holds
  <2>6. ConnackPosted' /\ ConnackTaken'
    BY <1>1, <2>0, <2>5 DEF GoodInv, ConnackPosted, ConnackTaken
  <2> QED
    BY <2>1, <2>3, <2>4, <2>6 DEF GoodInv
<1> QED
  BY <1>7, <1>8, <1>9, <1>10, <1>11 DEF CInv

(* The CONNACK is read, by one thread.                                     *)
LEMMA CycleLockedInv ==
    ASSUME CInv, NEW t \in Threads, CycleLocked(t)
    PROVE  CInv'
<1> DEFINE s == cyc[t].sock
           got == mayRead(s) /\ inbox[s]
           rc == IF mayRead(s) /\ ~got /\ tcp[s] # "open" THEN -1 ELSE 0
<1>1. /\ cyc[t].pc = "cycle" /\ app.pc # "starting"
      /\ UNCHANGED <<inTime, connect_state, socket, ma, running>>
      /\ UNCHANGED <<connect_sem, connack_sem, mrc, pack, app, calls, results>>
      /\ UNCHANGED <<connect_pending, tcp, connectPkt, sends>>
  BY DEF CycleLocked, MutexFree, clientVars, semVars, callVars
<1>2. /\ TypeOK /\ cyc \in [Threads -> Cycles] /\ NetInv /\ CycInv /\ 0 \notin Socks
      /\ inbox \in [Socks -> BOOLEAN]
  BY DEF CInv, TypeOK, Cycles, Socks
<1>3. /\ got \in BOOLEAN /\ rc \in {-1, 0}
      /\ got => s = socket /\ s \in Socks /\ inbox[s]
      /\ cyc' = [cyc EXCEPT ![t].pc = "post", ![t].pack = got, ![t].rc = rc]
      /\ inbox' = IF got THEN [inbox EXCEPT ![s] = FALSE] ELSE inbox
      /\ read' = IF got THEN read \cup {s} ELSE read
  <2>1. mayRead(s) => s = socket /\ s \in Socks
    BY DEF mayRead
  <2>2. mayRead(s) \in BOOLEAN
    BY DEF mayRead
  <2>3. got \in BOOLEAN
    BY <1>2, <2>1, <2>2
  <2> QED
    BY <2>1, <2>2, <2>3 DEF CycleLocked
<1> HIDE DEF got, rc
<1>4. /\ cyc' \in [Threads -> Cycles] /\ cyc'[t].pc = "post"
      /\ cyc'[t].sock = cyc[t].sock /\ cyc'[t].pack = got
  BY <1>2, <1>3, ZenonT(40) DEF Cycles
<1>5. \A u \in Threads : u # t => cyc'[u] = cyc[u]
  BY <1>2, <1>3
<1>6. \A u \in Threads : cyc'[u].sock = cyc[u].sock
  BY <1>4, <1>5
<1>7. /\ inbox' \in [Socks -> BOOLEAN] /\ read' \subseteq Socks
      /\ \A r \in Socks : inbox'[r] => inbox[r] /\ (got => r # s)
      /\ read \subseteq read' /\ (got => read' = read \cup {s}) /\ (~got => read' = read)
  BY <1>2, <1>3 DEF TypeOK
<1>8. got => s \notin read /\ connectPkt[s] # "none"
  BY <1>2, <1>3 DEF NetInv, InboxUnread
<1>9. TypeOK'
  BY <1>1, <1>2, <1>4, <1>7 DEF TypeOK, Cycles
<1>10. NetInv'
  <2>1. Called' /\ FreshIsNone' /\ NotSentYet' /\ SentOnce' /\ SocketIsMade'
    BY <1>1, <1>2 DEF NetInv, Called, FreshIsNone, NotSentYet, Fresh, SentOnce, SocketIsMade
  <2>2. NoneIsUnused'
    BY <1>1, <1>2, <1>7 DEF NetInv, NoneIsUnused
  <2>3. InboxUnread'
    BY <1>1, <1>2, <1>7 DEF NetInv, InboxUnread
  <2>4. ReadIsSent'
    BY <1>1, <1>2, <1>7, <1>8 DEF NetInv, ReadIsSent
  <2> QED
    BY <2>1, <2>2, <2>3, <2>4 DEF NetInv
<1>11. CycInv'
  <2>1. AppCycles'
    BY <1>1, <1>5, CyclesInLoop DEF CInv, CycInv, AppCycles, Threads
  <2>2. NoSocketYet' /\ NoPackYet'
    BY <1>2, <1>4, <1>5 DEF CycInv, NoSocketYet, NoPackYet
  <2>3. ReadyIsMade' /\ PendingIsNotReady' /\ OneFinder'
    BY <1>1, <1>2, <1>6 DEF CycInv, ReadyIsMade, PendingIsNotReady, OneFinder
  <2>4. PackIsRead'
    BY <1>2, <1>4, <1>5, <1>7 DEF CycInv, PackIsRead
  <2>5. OneHolder'
    <3> SUFFICES ASSUME NEW v \in Threads, NEW u \in Threads, NEW r \in Socks,
                        Holds(v, r)', Holds(u, r)'
                 PROVE  v = u
      BY DEF OneHolder
    <3>1. ASSUME NEW w \in Threads, w # t, Holds(w, r)'
          PROVE  Holds(w, r) /\ r \in read /\ (got => r # s)
      BY <1>2, <1>5, <1>8, <3>1 DEF Holds, CycInv, PackIsRead
    <3>2. Holds(t, r)' => got /\ r = s
      BY <1>4 DEF Holds
    <3> QED
      BY <1>2, <3>1, <3>2 DEF CycInv, OneHolder
  <2> QED
    BY <2>1, <2>2, <2>3, <2>4, <2>5 DEF CycInv
<1>12. SuccessBeforeFailure' /\ (Hopeful' => Hopeful) /\ (NoFailure' => SentIsMade')
  BY <1>1, <1>7, CallGoesOn
<1>13. ASSUME Hopeful PROVE GoodInv'
  <2>0. GoodInv
    BY <1>13 DEF CInv
  <2>1. WaitedFor' /\ ClosedIsSent'
    BY <1>1, <2>0 DEF GoodInv, WaitedFor, ClosedIsSent
  <2>2. Noted(socket) => Noted(socket)'
    BY <1>1, <1>6 DEF Noted
  <2>3. ConnectPosted'
    BY <1>1, <2>0, <2>2 DEF GoodInv, ConnectPosted, SoError
  <2>4. TcpIsDone'
    BY <1>1, <2>0, <2>2 DEF GoodInv, TcpIsDone
  <2>5. socket \in read => \A u \in Threads : Holds(u, socket)' => Holds(u, socket)
    BY <1>1, <1>3, <1>4, <1>5, <1>8 DEF Holds
  <2>6. socket \notin Socks => \A u \in Threads : Holds(u, socket)' => Holds(u, socket)
    BY <1>1, <1>3, <1>4, <1>5 DEF Holds
  <2>7. ConnackPosted' /\ ConnackTaken'
    BY <1>1, <1>7, <2>0, <2>5, <2>6 DEF GoodInv, ConnackPosted, ConnackTaken
  <2> QED
    BY <2>1, <2>3, <2>4, <2>7 DEF GoodInv
<1> QED
  BY <1>9, <1>10, <1>11, <1>12, <1>13 DEF CInv

-----------------------------------------------------------------------------
(* The network and the broker                                              *)

(* TCP is connected or refused.                                            *)
LEMMA TcpFinishesInv ==
    ASSUME CInv, NEW s \in Socks, TcpFinishes(s)
    PROVE  CInv'
<1>1. /\ tcp[s] = "connecting"
      /\ UNCHANGED <<inTime, connect_state, socket, ma, running>>
      /\ UNCHANGED <<connect_sem, connack_sem, mrc, pack, app, cyc, calls, results>>
      /\ UNCHANGED <<connect_pending, connectPkt, sends, inbox, read>>
  BY DEF TcpFinishes, clientVars, semVars, callVars
<1>2. /\ TypeOK /\ NetInv /\ CycInv
      /\ tcp \in [Socks -> {"none", "connecting", "open", "refused", "closed"}]
  BY DEF CInv, TypeOK
<1>3. /\ tcp' \in [Socks -> {"none", "connecting", "open", "refused", "closed"}]
      /\ tcp'[s] \in {"open", "refused"} /\ \A r \in Socks : r # s => tcp'[r] = tcp[r]
  BY <1>2 DEF TcpFinishes
<1>4. TypeOK'
  BY <1>1, <1>2, <1>3 DEF TypeOK
<1>5. NetInv'
  <2>1. Called' /\ NotSentYet' /\ SentOnce' /\ ReadIsSent'
    BY <1>1, <1>2 DEF NetInv, Called, NotSentYet, SentOnce, ReadIsSent
  <2>2. FreshIsNone'
    BY <1>1, <1>2, <1>3 DEF NetInv, FreshIsNone, Fresh
  <2>3. NoneIsUnused' /\ InboxUnread' /\ SocketIsMade'
    BY <1>1, <1>2, <1>3 DEF NetInv, NoneIsUnused, InboxUnread, SocketIsMade
  <2> QED
    BY <2>1, <2>2, <2>3 DEF NetInv
<1>6. FindsNothing /\ NoSocketYet' /\ NoPackYet'
  BY <1>1, <1>2, CycleSame DEF CycInv
<1>7. MakesNothing
  BY <1>1, <1>3 DEF MakesNothing, Made
<1>8. CycInv'
  BY <1>1, <1>2, <1>6, <1>7, QuietStep DEF CycInv, AppCycles
<1>9. SuccessBeforeFailure' /\ (Hopeful' => Hopeful) /\ (NoFailure' => SentIsMade')
  BY <1>1, <1>3, CallGoesOn
<1>10. ASSUME Hopeful PROVE GoodInv'
  <2>0. GoodInv
    BY <1>10 DEF CInv
  <2>1. WaitedFor' /\ ConnackPosted' /\ ConnackTaken'
    BY <1>1, <2>0 DEF GoodInv, WaitedFor, ConnackPosted, ConnackTaken, Holds
  <2>2. ClosedIsSent'
    BY <1>1, <1>3, <2>0 DEF GoodInv, ClosedIsSent
  <2>3. ConnectPosted'
    BY <1>1, <1>3, <2>0 DEF GoodInv, ConnectPosted, SoError, Noted
  <2>4. TcpIsDone'
    BY <1>1, <1>3, <2>0 DEF GoodInv, TcpIsDone, Noted
  <2> QED
    BY <2>1, <2>2, <2>3, <2>4 DEF GoodInv
<1> QED
  BY <1>4, <1>5, <1>8, <1>9, <1>10 DEF CInv

(* The broker sends CONNACK or closes the connection.                      *)
LEMMA BrokerAnswersInv ==
    ASSUME CInv, NEW s \in Socks, BrokerAnswers(s)
    PROVE  CInv'
<1>1. /\ tcp[s] = "open" /\ connectPkt[s] = "sent" /\ s \notin read /\ ~inbox[s]
      /\ UNCHANGED <<inTime, connect_state, socket, ma, running>>
      /\ UNCHANGED <<connect_sem, connack_sem, mrc, pack, app, cyc, calls, results>>
      /\ UNCHANGED <<connect_pending, connectPkt, sends, read>>
  BY DEF BrokerAnswers, clientVars, semVars, callVars
<1>2. /\ TypeOK /\ NetInv /\ CycInv /\ inbox \in [Socks -> BOOLEAN]
      /\ tcp \in [Socks -> {"none", "connecting", "open", "refused", "closed"}]
  BY DEF CInv, TypeOK
<1>3. /\ tcp' \in [Socks -> {"none", "connecting", "open", "refused", "closed"}]
      /\ inbox' \in [Socks -> BOOLEAN]
      /\ \/ tcp'[s] = "open"
         \/ tcp'[s] = "closed" /\ ~inbox'[s]
      /\ \A r \in Socks : r # s => tcp'[r] = tcp[r] /\ inbox'[r] = inbox[r]
  BY <1>1, <1>2 DEF BrokerAnswers
<1>4. TypeOK'
  BY <1>1, <1>2, <1>3 DEF TypeOK
<1>5. NetInv'
  <2>1. Called' /\ NotSentYet' /\ SentOnce' /\ ReadIsSent'
    BY <1>1, <1>2 DEF NetInv, Called, NotSentYet, SentOnce, ReadIsSent
  <2>2. FreshIsNone'
    BY <1>1, <1>2, <1>3 DEF NetInv, FreshIsNone, Fresh
  <2>3. NoneIsUnused' /\ InboxUnread' /\ SocketIsMade'
    BY <1>1, <1>2, <1>3 DEF NetInv, NoneIsUnused, InboxUnread, SocketIsMade
  <2> QED
    BY <2>1, <2>2, <2>3 DEF NetInv
<1>6. FindsNothing /\ NoSocketYet' /\ NoPackYet'
  BY <1>1, <1>2, CycleSame DEF CycInv
<1>7. MakesNothing
  BY <1>1, <1>3 DEF MakesNothing, Made
<1>8. CycInv'
  BY <1>1, <1>2, <1>6, <1>7, QuietStep DEF CycInv, AppCycles
<1>9. SuccessBeforeFailure' /\ (Hopeful' => Hopeful) /\ (NoFailure' => SentIsMade')
  BY <1>1, <1>3, CallGoesOn
<1>10. ASSUME Hopeful PROVE GoodInv'
  <2>0. GoodInv
    BY <1>10 DEF CInv
  <2>1. WaitedFor' /\ ConnackPosted' /\ ConnackTaken'
    BY <1>1, <2>0 DEF GoodInv, WaitedFor, ConnackPosted, ConnackTaken, Holds
  <2>2. ClosedIsSent'
    BY <1>1, <1>3, <2>0 DEF GoodInv, ClosedIsSent
  <2>3. app.pc \in {"semTcp", "loopTcp", "tcpDone"} /\ socket \in Socks => socket # s
    BY <1>1, <1>2 DEF NetInv, NotSentYet
  <2>4. ConnectPosted'
    BY <1>1, <1>3, <2>0, <2>3 DEF GoodInv, ConnectPosted, SoError, Noted
  <2>5. TcpIsDone'
    BY <1>1, <1>3, <2>0, <2>3 DEF GoodInv, TcpIsDone, Noted
  <2> QED
    BY <2>1, <2>2, <2>4, <2>5 DEF GoodInv
<1> QED
  BY <1>4, <1>5, <1>8, <1>9, <1>10 DEF CInv

-----------------------------------------------------------------------------
(* CONNECT is sent                                                         *)

(* Where the call is while it waits.                                       *)
LEMMA WaitForIs ==
    ASSUME TypeOK, NoSocketYet, NoPackYet, cyc["app"] = NotCycling,
           NEW packet \in {"CONNECT", "CONNACK"}, waitFor(packet)
    PROVE  /\ app' \in [pc : AppPcs, rc : {-1, 0, 1}, late : BOOLEAN]
           /\ packet = "CONNECT" => app'.pc \in {"semTcp", "loopTcp", "noTime"}
           /\ packet = "CONNACK" => app'.pc \in {"semConnack", "loopConnack", "noTime"}
           /\ app.late => app'.pc = "noTime"
           /\ app'.pc = "noTime" => app'.late = app.late
           /\ cyc' \in [Threads -> Cycles] /\ FindsNothing
           /\ AppCycles' /\ NoSocketYet' /\ NoPackYet'
<1> DEFINE sem  == IF packet = "CONNECT" THEN "semTcp" ELSE "semConnack"
           loop == IF packet = "CONNECT" THEN "loopTcp" ELSE "loopConnack"
<1>1. "app" \in Threads
  BY DEF Threads
<1>2. \/ app' = [app EXCEPT !.pc = "noTime"] /\ cyc' = cyc
      \/ ~app.late /\ app' = [pc |-> sem, rc |-> 0, late |-> FALSE] /\ cyc' = cyc
      \/ /\ ~app.late /\ app' = [pc |-> loop, rc |-> 0, late |-> FALSE]
         /\ cyc' = [cyc EXCEPT !["app"] = Selecting]
  <2>1. CASE packet = "CONNECT"
    BY <2>1 DEF waitFor
  <2>2. CASE packet = "CONNACK"
    BY <2>2 DEF waitFor
  <2> QED
    BY <2>1, <2>2
<1>3. CASE app' = [app EXCEPT !.pc = "noTime"] /\ cyc' = cyc
  <2>1. /\ app' \in [pc : AppPcs, rc : {-1, 0, 1}, late : BOOLEAN]
        /\ app'.pc = "noTime" /\ app'.late = app.late
    BY <1>3 DEF TypeOK, AppPcs
  <2> QED
    BY <1>3, <2>1, CycleSame DEF TypeOK, Cycles, AppCycles
<1>4. CASE ~app.late /\ app' = [pc |-> sem, rc |-> 0, late |-> FALSE] /\ cyc' = cyc
  <2>1. /\ app' \in [pc : AppPcs, rc : {-1, 0, 1}, late : BOOLEAN]
        /\ app'.pc = sem
    BY <1>4 DEF AppPcs
  <2> QED
    BY <1>4, <2>1, CycleSame DEF TypeOK, Cycles, AppCycles
<1>5. CASE /\ ~app.late /\ app' = [pc |-> loop, rc |-> 0, late |-> FALSE]
           /\ cyc' = [cyc EXCEPT !["app"] = Selecting]
  <2>1. /\ app' \in [pc : AppPcs, rc : {-1, 0, 1}, late : BOOLEAN]
        /\ app'.pc = loop
    BY <1>5 DEF AppPcs
  <2>2. cyc' \in [Threads -> Cycles] /\ FindsNothing /\ NoSocketYet' /\ NoPackYet'
    BY <1>1, <1>5, CycleReset, SelectingIs
  <2>3. AppCycles'
    BY <2>1 DEF AppCycles
  <2> QED
    BY <1>5, <2>1, <2>2, <2>3
<1> QED
  BY <1>2, <1>3, <1>4, <1>5

(* TCP has ended: CONNECT is sent, or the call fails.                      *)
LEMMA TcpDoneInv ==
    ASSUME CInv, TcpDone
    PROVE  CInv'
<1>1. /\ app.pc = "tcpDone"
      /\ UNCHANGED <<inTime, socket, ma, running, calls>>
      /\ UNCHANGED <<connect_sem, connack_sem, mrc, pack>>
      /\ UNCHANGED <<connect_pending, tcp, inbox, read>>
  BY DEF TcpDone, semVars
<1>2. /\ TypeOK /\ NetInv /\ CycInv /\ NoSocketYet /\ NoPackYet
      /\ "app" \in Threads /\ cyc["app"] = NotCycling
      /\ connack_sem' \in {0, 1} /\ calls' \in 0..MaxConnects /\ calls' >= calls
      /\ socket \in Socks \cup {-1, 0} /\ cyc \in [Threads -> Cycles]
  BY <1>1 DEF CInv, TypeOK, CycInv, AppCycles, Threads, Cycles
<1>3. CASE /\ return(socket, -1) /\ UNCHANGED <<connectPkt, sends, cyc>>
           /\ connect_state' \in {"NOT_IN_PROGRESS", "TCP_IN_PROGRESS", "WAIT_FOR_CONNACK"}
  <2>1. /\ FindsNothing /\ NoSocketYet' /\ NoPackYet'
        /\ cyc' \in [Threads -> Cycles] /\ cyc'["app"] = NotCycling
    BY <1>2, <1>3, CycleSame
  <2>2. UNCHANGED netVars
    BY <1>1, <1>3 DEF netVars
  <2> QED
    BY <1>1, <1>2, <1>3, <2>1, <2>2, CallFails
<1>4. ASSUME app.rc = 0, connect_state' = "WAIT_FOR_CONNACK",
             NEW result \in sendResults(socket), result # "SOCKET_ERROR",
             sendConnect(socket, result),
             waitFor("CONNACK"), results' = results
      PROVE  CInv'
  <2>1. socket \in Socks /\ tcp[socket] # "none" /\ connectPkt[socket] = "none"
    BY <1>1, <1>2, <1>4 DEF sendResults, NetInv, NotSentYet
  <2>2. /\ connectPkt' \in [Socks -> {"none", "pending", "sent", "lost"}]
        /\ sends' \in [Socks -> Nat]
        /\ connectPkt'[socket] # "none" /\ sends'[socket] = 1
        /\ \A r \in Socks :
               r # socket => connectPkt'[r] = connectPkt[r] /\ sends'[r] = sends[r]
    BY <1>2, <1>4, <2>1 DEF sendConnect, TypeOK, NetInv, SentOnce
  <2>3. /\ cyc' \in [Threads -> Cycles] /\ FindsNothing
        /\ AppCycles' /\ NoSocketYet' /\ NoPackYet'
        /\ app' \in [pc : AppPcs, rc : {-1, 0, 1}, late : BOOLEAN]
        /\ app'.pc \in {"semConnack", "loopConnack", "noTime"}
        /\ app.late => app'.pc = "noTime"
        /\ app'.pc = "noTime" => app'.late = app.late
    BY <1>2, <1>4, WaitForIs
  <2>4. SuccessBeforeFailure' /\ (NoFailure' <=> NoFailure)
    BY <1>1, <1>4, NotReturned DEF CInv
  <2>5. TypeOK'
    BY <1>1, <1>2, <1>4, <2>2, <2>3, <2>4 DEF TypeOK, Cycles, Results, AppPcs
  <2>6. NoFailure => GoodInv
    BY <1>1 DEF CInv, Hopeful
  <2>7. NetInv'
    <3>1. Called' /\ FreshIsNone' /\ NotSentYet'
      BY <1>1, <1>2, <2>3 DEF NetInv, Called, FreshIsNone, NotSentYet, Fresh
    <3>2. NoneIsUnused' /\ InboxUnread' /\ SocketIsMade'
      BY <1>1, <1>2, <2>1, <2>2 DEF NetInv, NoneIsUnused, InboxUnread, SocketIsMade
    <3>3. SentOnce'
      BY <1>2, <2>1, <2>2 DEF NetInv, SentOnce
    <3>4. ReadIsSent'
      BY <1>1, <1>2, <2>1, <2>2 DEF NetInv, ReadIsSent, TypeOK
    <3> QED
      BY <3>1, <3>2, <3>3, <3>4 DEF NetInv
  <2>8. MakesNothing
    BY <1>1, <2>1, <2>2 DEF MakesNothing
  <2>9. CycInv'
    BY <1>2, <2>3, <2>8, QuietStep DEF CycInv
  <2>10. ASSUME NoFailure, app'.pc # "noTime" PROVE GoodInv'
    <3>0. /\ GoodInv /\ connect_sem = 0 /\ tcp[socket] = "open"
      BY <1>1, <1>4, <2>3, <2>6, <2>10 DEF GoodInv, TcpIsDone
    <3>1. app'.pc \in {"semConnack", "loopConnack"}
      BY <2>3, <2>10
    <3>2. WaitedFor' /\ ConnectPosted' /\ TcpIsDone' /\ ConnackTaken'
      BY <1>1, <1>4, <3>0, <3>1 DEF WaitedFor, ConnectPosted, TcpIsDone, ConnackTaken
    <3>3. ClosedIsSent'
      BY <1>1, <2>2, <3>0 DEF GoodInv, ClosedIsSent
    <3>4. ConnackPosted'
      BY <1>1, <3>0 DEF GoodInv, ConnackPosted
    <3> QED
      BY <3>2, <3>3, <3>4 DEF GoodInv
  <2>11. ASSUME NoFailure PROVE SentIsMade'
    <3>1. \A s \in Socks : connectPkt[s] # "none" => tcp[s] \in {"open", "closed"}
      BY <1>1, <2>11 DEF CInv, SentIsMade
    <3>2. app.late \/ tcp[socket] = "open"
      BY <1>1, <1>4, <2>6, <2>11 DEF GoodInv, TcpIsDone
    <3> QED
      BY <1>1, <2>2, <2>3, <3>1, <3>2 DEF SentIsMade
  <2> QED
    BY <2>4, <2>5, <2>7, <2>9, <2>10, <2>11 DEF CInv, Hopeful
<1>5. CASE app.rc # 0
  <2>1. return(socket, -1) /\ UNCHANGED <<connect_state, connectPkt, sends, cyc>>
    BY <1>5 DEF TcpDone
  <2> QED
    BY <1>2, <1>3, <2>1 DEF TypeOK
<1>6. CASE app.rc = 0
  <2>1. connect_state' = "WAIT_FOR_CONNACK"
    BY <1>6 DEF TcpDone
  <2>2. PICK result \in sendResults(socket) :
          /\ sendConnect(socket, result)
          /\ IF result = "SOCKET_ERROR"
             THEN return(socket, -1) /\ UNCHANGED cyc
             ELSE waitFor("CONNACK") /\ UNCHANGED results
    BY <1>6 DEF TcpDone
  <2>3. CASE result = "SOCKET_ERROR"
    BY <1>3, <2>1, <2>2, <2>3 DEF sendConnect
  <2>4. CASE result # "SOCKET_ERROR"
    BY <1>4, <1>6, <2>1, <2>2, <2>4
  <2> QED
    BY <2>3, <2>4
<1> QED
  BY <1>5, <1>6

-----------------------------------------------------------------------------
(* MQTTProtocol_connect                                                    *)

(* What Socket_new may do: only the new socket s is touched.               *)
NewSocket(s) ==
    /\ socket' \in {s, -1}
    /\ tcp' \in [Socks -> {"none", "connecting", "open", "refused", "closed"}]
    /\ connectPkt' \in [Socks -> {"none", "pending", "sent", "lost"}]
    /\ sends' \in [Socks -> Nat] /\ connect_pending' \subseteq Socks
    /\ \A r \in Socks : r # s =>
        /\ tcp'[r] = tcp[r] /\ connectPkt'[r] = connectPkt[r] /\ sends'[r] = sends[r]
        /\ r \in connect_pending' <=> r \in connect_pending
    /\ sends'[s] = IF connectPkt'[s] = "none" THEN 0 ELSE 1
    /\ tcp'[s] = "none" =>
        connectPkt'[s] = "none" /\ s \notin connect_pending' /\ socket' # s
    /\ connectPkt'[s] # "none" => tcp'[s] \in {"open", "closed"}

(* What the call does then.                                                *)
GoesOn ==
    /\ cyc' \in [Threads -> Cycles] /\ FindsNothing
    /\ AppCycles' /\ NoSocketYet' /\ NoPackYet'
    /\ app' \in [pc : AppPcs, rc : {-1, 0, 1}, late : BOOLEAN]
    /\ results' \in Seq(Results) /\ SuccessBeforeFailure'
    /\ connect_state' \in {"NOT_IN_PROGRESS", "TCP_IN_PROGRESS", "WAIT_FOR_CONNACK"}
    /\ \/ app'.pc = "idle" /\ ~NoFailure'
       \/ app'.pc = "noTime" /\ (NoFailure' => NoFailure)
       \/ /\ app'.pc \in {"semTcp", "loopTcp"} /\ connect_state' = "TCP_IN_PROGRESS"
          /\ NoFailure' => NoFailure
       \/ /\ app'.pc \in {"semConnack", "loopConnack"}
          /\ connect_state' = "WAIT_FOR_CONNACK"
          /\ NoFailure' => NoFailure

(* The call waits or fails.                                                *)
LEMMA AfterConnectIs ==
    ASSUME CInv, cyc["app"] = NotCycling, read' = read,
           NEW state \in {"NOT_IN_PROGRESS", "TCP_IN_PROGRESS", "WAIT_FOR_CONNACK"},
           connect_state' = state,
           NEW s \in Socks \cup {-1, 0}, NEW rc \in {-1, 0, 1}, afterConnect(state, s, rc)
    PROVE  GoesOn
<1>1. /\ TypeOK /\ NoSocketYet /\ NoPackYet /\ cyc \in [Threads -> Cycles]
      /\ results \in Seq(Results) /\ SuccessBeforeFailure /\ read \subseteq read'
  BY DEF CInv, TypeOK, CycInv, Cycles, Results
<1>2. CASE rc = -1 \/ state = "NOT_IN_PROGRESS"
  <2>1. return(s, -1) /\ cyc' = cyc
    BY <1>2 DEF afterConnect
  <2>2. /\ results' \in Seq(Results) /\ SuccessBeforeFailure' /\ ~NoFailure'
        /\ app' \in [pc : AppPcs, rc : {-1, 0, 1}, late : BOOLEAN] /\ app'.pc = "idle"
    BY <1>1, <2>1, Failed
  <2>3. cyc' \in [Threads -> Cycles] /\ FindsNothing /\ NoSocketYet' /\ NoPackYet'
    BY <1>1, <2>1, CycleSame
  <2>4. AppCycles'
    BY <2>1 DEF AppCycles
  <2> QED
    BY <2>2, <2>3, <2>4 DEF GoesOn
<1>3. CASE ~(rc = -1 \/ state = "NOT_IN_PROGRESS")
  <2>1. results' = results
    BY <1>3 DEF afterConnect
  <2>2. SuccessBeforeFailure' /\ (NoFailure' <=> NoFailure)
    BY <1>1, <2>1, NotReturned
  <2>3. CASE state = "TCP_IN_PROGRESS"
    <3>1. waitFor("CONNECT")
      BY <1>3, <2>3 DEF afterConnect
    <3> QED
      BY <1>1, <2>1, <2>2, <2>3, <3>1, WaitForIs DEF GoesOn
  <2>4. CASE state = "WAIT_FOR_CONNACK"
    <3>1. waitFor("CONNACK")
      BY <1>3, <2>4 DEF afterConnect
    <3> QED
      BY <1>1, <2>1, <2>2, <2>4, <3>1, WaitForIs DEF GoesOn
  <2> QED
    BY <1>3, <2>3, <2>4
<1> QED
  BY <1>2, <1>3

(* A call with a new socket keeps the invariant.                           *)
LEMMA NewSocketInv ==
    ASSUME CInv, NEW s \in Socks, Fresh(s), calls' = s, app.pc \in {"idle", "starting"},
           UNCHANGED <<inTime, ma, running, semVars, inbox, read>>,
           NewSocket(s), GoesOn,
           connect_state' = "TCP_IN_PROGRESS" =>
               connectPkt'[s] = "none" /\ (NoFailure => socket' = s),
           connect_state' = "WAIT_FOR_CONNACK" /\ NoFailure =>
               (tcp'[s] = "closed" => connectPkt'[s] # "none"),
           connect_state' = "TCP_IN_PROGRESS" => tcp'[s] # "closed"
    PROVE  CInv'
<1>1. /\ UNCHANGED <<connect_sem, connack_sem, mrc, pack>>
      /\ UNCHANGED <<inTime, ma, running, inbox, read>>
  BY DEF semVars
<1>2. TypeOK /\ NetInv /\ CycInv /\ s \in Nat /\ s >= 1 /\ calls \in Nat /\ 0 \notin Socks
      /\ s \in 0..MaxConnects /\ -1 \notin Socks /\ \A r \in Socks : r \in Nat
  BY ConnectsAssumption DEF CInv, TypeOK, Socks
<1>3. tcp[s] = "none" /\ connectPkt[s] = "none" /\ ~inbox[s] /\ s \notin connect_pending
      /\ s \notin read
  BY <1>2 DEF NetInv, FreshIsNone, NoneIsUnused, ReadIsSent
<1>4. TypeOK'
  <2>1. socket' \in Socks \cup {-1, 0} /\ calls' \in 0..MaxConnects
    BY <1>2 DEF NewSocket
  <2> QED
    BY <1>1, <1>2, <2>1 DEF TypeOK, NewSocket, GoesOn, Cycles, Results, AppPcs
<1>5. app'.pc \in {"idle", "noTime", "semTcp", "loopTcp", "semConnack", "loopConnack"}
      /\ (app'.pc \in {"semTcp", "loopTcp"} => connect_state' = "TCP_IN_PROGRESS")
  BY DEF GoesOn
<1>6. NetInv'
  <2>1. Called'
    BY <1>2 DEF Called
  <2>2. FreshIsNone'
    <3>1. \A r \in Socks : Fresh(r)' => r # s /\ Fresh(r)
      BY <1>2, <1>5 DEF Fresh
    <3> QED
      BY <1>2, <3>1 DEF NetInv, FreshIsNone, NewSocket
  <2>3. NoneIsUnused' /\ SentOnce' /\ InboxUnread'
    BY <1>1, <1>2, <1>3 DEF NetInv, NoneIsUnused, SentOnce, InboxUnread, NewSocket
  <2>4. ReadIsSent'
    BY <1>1, <1>2, <1>3 DEF NetInv, ReadIsSent, NewSocket, TypeOK
  <2>5. SocketIsMade' /\ NotSentYet'
    BY <1>2, <1>5 DEF SocketIsMade, NotSentYet, NewSocket
  <2> QED
    BY <2>1, <2>2, <2>3, <2>4, <2>5 DEF NetInv
<1>7. MakesNothing
  BY <1>1, <1>3 DEF MakesNothing, NewSocket, Made
<1>8. CycInv'
  BY <1>2, <1>7, QuietStep DEF CycInv, GoesOn
<1>9. ASSUME NoFailure, app'.pc \notin {"idle", "noTime"} PROVE GoodInv'
  <2>0. GoodInv /\ connect_sem = 0 /\ connack_sem = 0
    BY <1>2, <1>9 DEF CInv, Hopeful, TypeOK, GoodInv, ConnectPosted, ConnackPosted
  <2>1. app'.pc \notin {"idle", "starting", "tcpDone", "noTime"}
    BY <1>5, <1>9
  <2>2. ConnectPosted' /\ TcpIsDone' /\ ConnackPosted' /\ ConnackTaken'
    BY <1>1, <2>0, <2>1 DEF ConnectPosted, TcpIsDone, ConnackPosted, ConnackTaken
  <2>3. WaitedFor'
    BY <1>9 DEF WaitedFor, GoesOn
  <2>4. ClosedIsSent'
    BY <1>9, <2>0 DEF GoodInv, ClosedIsSent, NewSocket, GoesOn
  <2> QED
    BY <2>2, <2>3, <2>4 DEF GoodInv
<1>10. SuccessBeforeFailure' /\ (NoFailure' => NoFailure /\ app'.pc # "idle")
  BY DEF GoesOn
<1>11. NoFailure => SentIsMade'
  BY DEF CInv, SentIsMade, NewSocket
<1> QED
  BY <1>4, <1>6, <1>8, <1>9, <1>10, <1>11 DEF CInv, Hopeful

(* Socket_new in each of its outcomes.                                     *)
LEMMA TcpConnectInv ==
    ASSUME CInv, TcpConnect
    PROVE  CInv'
<1>1. /\ TypeOK /\ NetInv /\ CycInv /\ calls \in 0..MaxConnects /\ MaxConnects \in Nat
      /\ socket \in Socks \cup {-1, 0} /\ cyc \in [Threads -> Cycles]
      /\ connect_state \in {"NOT_IN_PROGRESS", "TCP_IN_PROGRESS", "WAIT_FOR_CONNACK"}
  BY ConnectsAssumption DEF CInv, TypeOK, Cycles
<1>2. PICK s : s = calls'
  OBVIOUS
<1>3. /\ s \in Socks /\ Fresh(s) /\ app.pc \in {"idle", "starting"} /\ calls' >= calls
      /\ calls' \in 0..MaxConnects
  <2>1. CASE connectURI
    BY <1>1, <1>2, <2>1 DEF connectURI, Socks, Fresh
  <2>2. CASE app.pc = "starting" /\ calls' = calls
    BY <1>1, <1>2, <2>2 DEF Socks, Fresh, NetInv, Called
  <2> QED
    BY <2>1, <2>2 DEF TcpConnect
<1>4. /\ UNCHANGED <<inTime, ma, running, semVars, inbox, read>>
      /\ UNCHANGED <<connect_sem, connack_sem, mrc, pack>> /\ read' = read
  BY DEF TcpConnect, semVars
<1>5. cyc["app"] = NotCycling
  BY <1>1, <1>3 DEF CycInv, AppCycles
<1>6. /\ tcp[s] = "none" /\ connectPkt[s] = "none" /\ s \notin connect_pending
      /\ sends[s] = 0 /\ socket # s
  BY <1>1, <1>3 DEF NetInv, FreshIsNone, NoneIsUnused, SentOnce, SocketIsMade
<1>7. /\ tcp \in [Socks -> {"none", "connecting", "open", "refused", "closed"}]
      /\ connectPkt \in [Socks -> {"none", "pending", "sent", "lost"}]
      /\ sends \in [Socks -> Nat] /\ connect_pending \subseteq Socks /\ -1 \notin Socks
  BY <1>1 DEF TypeOK, Socks
<1>8. CASE Socket_newPending(s)
  <2>1. GoesOn
    <3>1. /\ connect_state' = "TCP_IN_PROGRESS"
          /\ afterConnect("TCP_IN_PROGRESS", s, 0)
      BY <1>8 DEF Socket_newPending
    <3> QED
      BY <1>3, <1>4, <1>5, <3>1, AfterConnectIs
  <2>2. NewSocket(s) /\ connectPkt'[s] = "none" /\ socket' = s /\ tcp'[s] = "connecting"
    BY <1>3, <1>6, <1>7, <1>8 DEF Socket_newPending, NewSocket
  <2> QED
    BY <1>2, <1>3, <1>4, <2>1, <2>2, NewSocketInv
<1>9. CASE Socket_newConnected(s)
  <2>1. PICK result \in {"COMPLETE", "INTERRUPTED", "SOCKET_ERROR"} :
          /\ socket' = s
          /\ tcp' = [tcp EXCEPT ![s] =
                      IF result = "SOCKET_ERROR" THEN "closed" ELSE "open"]
          /\ sendConnect(s, result)
          /\ connect_state' = IF result = "COMPLETE" THEN "WAIT_FOR_CONNACK"
                              ELSE "NOT_IN_PROGRESS"
          /\ afterConnect(connect_state', s, 0)
          /\ UNCHANGED connect_pending
    BY <1>9 DEF Socket_newConnected
  <2>2. GoesOn
    <3> PICK state : state = connect_state'
      OBVIOUS
    <3>1. /\ state \in {"NOT_IN_PROGRESS", "TCP_IN_PROGRESS", "WAIT_FOR_CONNACK"}
          /\ afterConnect(state, s, 0)
      BY <2>1
    <3> QED
      BY <1>3, <1>4, <1>5, <3>1, AfterConnectIs
  <2>3. NewSocket(s) /\ (connect_state' = "WAIT_FOR_CONNACK" => tcp'[s] = "open")
        /\ connect_state' # "TCP_IN_PROGRESS"
    BY <1>3, <1>6, <1>7, <2>1 DEF sendConnect, NewSocket
  <2> QED
    BY <1>2, <1>3, <1>4, <2>2, <2>3, NewSocketInv
<1>10. CASE Socket_newFailed(s)
  <2>1. connect_state' = connect_state /\ socket' = -1
    BY <1>10 DEF Socket_newFailed
  <2>2. GoesOn
    <3>1. afterConnect(connect_state, -1, -1) \/ afterConnect(connect_state, -1, 1)
      BY <1>10 DEF Socket_newFailed
    <3> QED
      BY <1>1, <1>4, <1>5, <2>1, <3>1, AfterConnectIs
  <2>3. NewSocket(s) /\ connectPkt'[s] = "none" /\ tcp'[s] = "none"
    BY <1>3, <1>6, <1>7, <1>10 DEF Socket_newFailed, Socket_close, NewSocket
  <2>4. NoFailure => connect_state # "TCP_IN_PROGRESS"
    BY <1>3 DEF CInv, Hopeful, GoodInv, WaitedFor
  <2> QED
    BY <1>2, <1>3, <1>4, <2>1, <2>2, <2>3, <2>4, NewSocketInv
<1>11. CASE TooLate
  <2>1. /\ return(socket, -1) /\ cyc' = cyc /\ socket' = socket
        /\ connect_state' = connect_state
        /\ UNCHANGED <<connect_pending, tcp, connectPkt, sends>>
    BY <1>11 DEF TooLate
  <2>2. /\ FindsNothing /\ NoSocketYet' /\ NoPackYet'
        /\ cyc' \in [Threads -> Cycles] /\ cyc'["app"] = NotCycling
    BY <1>1, <1>5, <2>1, CycleSame DEF CycInv
  <2>3. UNCHANGED netVars /\ connack_sem' \in {0, 1}
    BY <1>1, <1>4, <2>1 DEF netVars, TypeOK
  <2> QED
    BY <1>1, <1>3, <1>4, <2>1, <2>2, <2>3, CallFails
<1> QED
  BY <1>2, <1>8, <1>9, <1>10, <1>11 DEF TcpConnect

-----------------------------------------------------------------------------
(* Theorems                                                                *)

(* The client has been created and not been connected.                     *)
LEMMA InitInv ==
    Init => CInv
<1> SUFFICES ASSUME Init PROVE CInv
  OBVIOUS
<1>1. /\ results = <<>> /\ Len(results) = 0 /\ results \in Seq(Results)
      /\ DOMAIN results = {}
  BY DEF Init
<1>2. TypeOK
  <2>1. cyc \in [Threads -> Cycles]
    BY DEF Init, NotCycling, Cycles
  <2>2. calls \in 0..MaxConnects
    BY ConnectsAssumption DEF Init
  <2>3. app \in [pc : AppPcs, rc : {-1, 0, 1}, late : BOOLEAN]
    BY DEF Init, AppPcs
  <2>4. /\ tcp \in [Socks -> {"none", "connecting", "open", "refused", "closed"}]
        /\ connectPkt \in [Socks -> {"none", "pending", "sent", "lost"}]
        /\ sends \in [Socks -> Nat] /\ inbox \in [Socks -> BOOLEAN]
    BY DEF Init
  <2>5. /\ inTime \in BOOLEAN /\ connect_state = "NOT_IN_PROGRESS" /\ socket = 0
        /\ ma \in BOOLEAN /\ running \in BOOLEAN /\ connect_sem = 0 /\ connack_sem = 0
        /\ mrc = 0 /\ pack = 0 /\ connect_pending = {} /\ read = {}
    BY DEF Init
  <2> QED
    BY <1>1, <2>1, <2>2, <2>3, <2>4, <2>5 DEF TypeOK, Cycles, AppPcs, Results
<1>3. NetInv
  BY DEF Init, NetInv, Called, FreshIsNone, NoneIsUnused, SentOnce, InboxUnread,
         ReadIsSent, SocketIsMade, NotSentYet, Socks
<1>4. CycInv
  BY DEF Init, CycInv, AppCycles, NoSocketYet, NoPackYet, ReadyIsMade, PackIsRead,
         OneHolder, Holds, PendingIsNotReady, OneFinder, NotCycling, Threads, Socks
<1>5. GoodInv
  BY DEF Init, GoodInv, WaitedFor, ConnectPosted, TcpIsDone, ClosedIsSent,
         ConnackPosted, ConnackTaken, Holds, NotCycling, Threads, Socks
<1>6. SuccessBeforeFailure /\ SentIsMade
  BY <1>1 DEF Init, SuccessBeforeFailure, SentIsMade
<1> QED
  BY <1>2, <1>3, <1>4, <1>5, <1>6 DEF CInv

(* Every step keeps the invariant.                                         *)
LEMMA NextInv ==
    CInv /\ [Next]_vars => CInv'
<1> SUFFICES ASSUME CInv, [Next]_vars PROVE CInv'
  OBVIOUS
<1>1. ASSUME NEW t \in Threads, CycleStep(t) PROVE CInv'
  BY <1>1, NoneReadyInv, CycleLockedInv, ReadySocketInv, ContinueConnectInv
     DEF CycleStep
<1>2. CASE SetCallbacks \/ StartRunThread \/ TcpConnect
  BY <1>2, SetCallbacksInv, StartRunThreadInv, TcpConnectInv
<1>3. CASE InConnect
  BY <1>3, TakeConnectSemInv, TcpDoneInv, NoTimeLeftInv, TakeConnackSemInv, SemTimeoutInv,
     LoopTcpInv, LoopConnackInv DEF InConnect
<1>4. CASE CycleStep("app")
  BY <1>1, <1>4 DEF Threads
<1>5. ASSUME NEW t \in RunThreads, RunStep(t) PROVE CInv'
  BY <1>1, <1>5, RunStartsInv, PostRunInv DEF RunStep, Threads
<1>6. ASSUME NEW s \in Socks, Environment(s) PROVE CInv'
  BY <1>6, TcpFinishesInv, BrokerAnswersInv DEF Environment
<1>7. CASE UNCHANGED vars
  <2>1. /\ UNCHANGED <<inTime, connect_state, socket, ma, running, semVars, netVars>>
        /\ UNCHANGED <<connect_sem, connack_sem, mrc, pack, app, cyc, calls, results>>
        /\ UNCHANGED <<connect_pending, tcp, connectPkt, sends, inbox, read>>
    BY <1>7 DEF vars, clientVars, semVars, netVars, callVars
  <2>2. TypeOK'
    BY <2>1 DEF CInv, TypeOK
  <2>3. NetInv' /\ MakesNothing
    BY <2>1, NetSame DEF CInv, NetInv, Called, Fresh
  <2>4. FindsNothing /\ NoSocketYet' /\ NoPackYet'
    BY <2>1, CycleSame DEF CInv, CycInv
  <2>5. CycInv'
    BY <2>1, <2>3, <2>4, QuietStep DEF CInv, CycInv, AppCycles
  <2>6. Hopeful => GoodInv'
    BY <2>1, <2>4, GoodSame DEF CInv
  <2>7. SuccessBeforeFailure' /\ (Hopeful' => Hopeful) /\ (NoFailure' => SentIsMade')
    BY <2>1, CallGoesOn
  <2> QED
    BY <2>2, <2>3, <2>5, <2>6, <2>7 DEF CInv
<1> QED
  BY <1>2, <1>3, <1>4, <1>5, <1>6, <1>7 DEF Next

(* The inductive invariant of MQTTClient_connect, its two waits            *)
(* (MQTTClient_waitfor) and the cycles of the threads (MQTTClient_cycle).  *)
THEOREM ConnectInvariant ==
    Spec => []CInv
<1> QED
  BY InitInv, NextInv, PTL DEF Spec

(* The client's fields, the semaphores and the threads' local state hold   *)
(* the values the C structures can hold.                                   *)
THEOREM ConnectTypes ==
    Spec => []TypeOK
<1>1. CInv => TypeOK
  BY DEF CInv
<1> QED
  BY <1>1, ConnectInvariant, PTL

(* Until a call has failed, MQTTClient_connect returns success only after  *)
(* the CONNACK of its own connection has been read, by whichever thread:   *)
(* no semaphore and no m->pack is left over from an earlier call.          *)
THEOREM SuccessHasConnack ==
    Spec => []SuccessBeforeFailure
<1>1. CInv => SuccessBeforeFailure
  BY DEF CInv
<1> QED
  BY <1>1, ConnectInvariant, PTL

(* CONNECT is written at most once to a connection, whether the calling    *)
(* thread or the run thread finds out that TCP is connected.  Until a call *)
(* has failed it is written only to a connection that has been made, but   *)
(* for the call whose own loop has run out of time.                        *)
THEOREM ConnectSentOnce ==
    Spec => []ConnectOnceAfterTcp
<1>1. CInv => ConnectOnceAfterTcp
  <2> SUFFICES ASSUME CInv PROVE ConnectOnceAfterTcp
    OBVIOUS
  <2>1. \A s \in Socks : sends[s] = IF connectPkt[s] = "none" THEN 0 ELSE 1
    BY DEF CInv, NetInv, SentOnce
  <2>2. NoFailureBefore(Len(results)) =>
           \A s \in Socks : connectPkt[s] # "none" =>
               tcp[s] \in {"open", "closed"} \/ (app.late /\ s = socket)
    BY DEF CInv, NoFailure, SentIsMade
  <2> QED
    BY <2>1, <2>2 DEF ConnectOnceAfterTcp
<1> QED
  BY <1>1, ConnectInvariant, PTL

=============================================================================
