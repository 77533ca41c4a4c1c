----------------------------- MODULE Lifecycle -----------------------------
(***************************************************************************)
(* Creating and destroying clients beside the run thread, which is never   *)
(* stopped: the mutexes, the callbacks, and what is allocated and freed.   *)
(*                                                                         *)
(* Each client has a thread of the application that owns it; a callback    *)
(* may make one call itself.  What a call does to the session is in        *)
(* MQTTSession, what connect waits for in Connect; here a call is its      *)
(* locks and the memory it needs.  socket_mutex is held over no other lock *)
(* and no callback, so a call of getReadySocket is one action.             *)
(*                                                                         *)
(* Memory that is used before it is there, or after it was freed, is noted *)
(* in used, and the model ends there.                                      *)
(***************************************************************************)
EXTENDS Naturals

CONSTANTS
    Clients,       \* client handles, and the threads that own them
    Run            \* the run thread; Connect has those a slow start adds

ASSUME RunAssumption == Run \notin Clients

Threads == Clients \cup {Run}
Mutexes == {"connect", "subscribe", "mqttclient"}
Free    == "free"
None    == "none"

ASSUME NamesAssumption == Free \notin Threads /\ None \notin Clients

VARIABLES
    library_initialized,
    handles,       \* the clients on the list handles
    clients,       \* the clients on the list bstate->clients
    lists,         \* handles and the lists of mod_s: none, live or freed
    clientsds,     \* the clients whose sockets are watched
    mem,           \* mem[c]: none, live or freed
    orphaned,      \* the clients that were destroyed with an interrupted write
    running,
    owner,         \* owner[x]: the thread that holds mutex x
    call,          \* call[t]: the API call t is in: [op, pc, c]
    cyc,           \* cyc[t]: t in MQTTClient_run or MQTTClient_cycle: [pc, m]
    doomed,        \* the clients for which destroy has been called
    risky,         \* history: what the application did that nothing guards
    used           \* history: what was used that was not there

listVars   == <<library_initialized, handles, clients, lists, clientsds>>
clientVars == <<mem, orphaned>>
vars == <<listVars, clientVars, running, owner, call, cyc, doomed, risky, used>>

NoCall  == [op |-> None, pc |-> "idle", c |-> None]
NoCycle == [pc |-> "off", m |-> None]
Selecting == [NoCycle EXCEPT !.pc = "select"]

Init ==
    /\ library_initialized = FALSE
    /\ handles = {} /\ clients = {} /\ lists = "none" /\ clientsds = {}
    /\ mem = [c \in Clients |-> "none"] /\ orphaned = {}
    /\ running = FALSE
    /\ owner = [x \in Mutexes |-> Free]
    /\ call = [t \in Threads |-> NoCall] /\ cyc = [t \in Threads |-> NoCycle]
    /\ doomed = {} /\ risky = {} /\ used = {}

-----------------------------------------------------------------------------
(* Calls                                                                   *)

\* A thread of the application between two calls, or a callback.
mayCall(t) ==
    /\ call[t] = NoCall
    /\ cyc[t].pc \in {"inMa", "inDc"} \/ (t \in Clients /\ cyc[t].pc = "off")

at(t, op, pc) == call[t].op = op /\ call[t].pc = pc
goto(t, pc) == call' = [call EXCEPT ![t].pc = pc]
return(t) == call' = [call EXCEPT ![t] = NoCall]

lock(t, x) == owner[x] = Free /\ owner' = [owner EXCEPT ![x] = t]
unlock(held) == owner' = [x \in Mutexes |-> IF x \in held THEN Free ELSE owner[x]]

busy(t) == call[t] # NoCall \/ cyc[t].pc # "off"

\* The call begins.  Creating a client beside anything else is a risk, as is a
\* call in deliveryComplete.
begin(t, op, pc, c) ==
    LET others == Threads \ {t}
        unguarded == \/ op = "create" /\ \E u \in others : busy(u)
                     \/ \E u \in others : call[u].op = "create"
    IN  /\ call' = [call EXCEPT ![t] = [op |-> op, pc |-> pc, c |-> c]]
        /\ risky' = risky
            \cup (IF unguarded THEN {"create"} ELSE {})
            \cup (IF cyc[t].pc = "inDc" THEN {"inDeliveryComplete"} ELSE {})

uses(things) == used' = used \cup things
\* What it means to look at c.
client(c) == IF mem[c] = "freed" THEN {"client"} ELSE {}
\* What it means to look at the lists.
allLists == IF lists = "freed" THEN {"lists"} ELSE {}
\* What it means to look for the client of a socket: at the socket of each.
allClients == IF \E c \in handles : at(c, "create", "client") THEN {"unfinished"} ELSE {}

\* The client is there, and nobody has said that it goes.
usable(c) == mem[c] = "live" /\ c \notin doomed

CallCreate(c) ==
    /\ mayCall(c) /\ mem[c] = "none" /\ c \notin doomed
    /\ begin(c, "create", "check", c)
    /\ UNCHANGED <<listVars, clientVars, running, owner, cyc, doomed, used>>

CallConnect(c) ==
    /\ mayCall(c) /\ usable(c)
    /\ begin(c, "connect", "lockConnect", c)
    /\ UNCHANGED <<listVars, clientVars, running, owner, cyc, doomed, used>>

\* Publish or setCallbacks, by the owner or in a callback of its client, or
\* subscribe.
CallUse(t, c) ==
    /\ mayCall(t) /\ usable(c) /\ (t = c \/ cyc[t].m = c)
    /\ \/ begin(t, "publish", "lock", c)
       \/ begin(t, "subscribe", "lockSubscribe", c)
    /\ UNCHANGED <<listVars, clientVars, running, owner, cyc, doomed, used>>

\* Destroy, by the owner or in messageArrived.  Nobody else is in a call for
\* the client, other than connect, which keeps its mutex.
CallDestroy(t, c) ==
    /\ mayCall(t) /\ usable(c) /\ (t = c \/ cyc[t].pc = "inMa")
    /\ \A u \in Threads \ {t} : call[u].c = c => at(u, "connect", "wait")
    /\ begin(t, "destroy", "lockConnect", c)
    /\ doomed' = doomed \cup {c}
    /\ UNCHANGED <<listVars, clientVars, running, owner, cyc, used>>

-----------------------------------------------------------------------------
(* MQTTClient_createWithOptions: no mutex                                  *)

CreateCheck(c) ==
    /\ at(c, "create", "check")
    /\ goto(c, IF library_initialized THEN "lists" ELSE "init")
    /\ UNCHANGED <<listVars, clientVars, running, owner, cyc, doomed, risky, used>>

\* Log_initialize, Socket_outInitialize and the lists of clients.
CreateInitialize(c) ==
    /\ at(c, "create", "init")
    /\ goto(c, "lists")
    /\ lists' = "live" /\ handles' = {} /\ clients' = {} /\ clientsds' = {}
    /\ library_initialized' = TRUE
    /\ UNCHANGED <<clientVars, running, owner, cyc, doomed, risky, used>>

\* m is allocated and put on handles, where m->c is still NULL, ...
CreateHandle(c) ==
    /\ at(c, "create", "lists")
    /\ goto(c, "client")
    /\ mem' = [mem EXCEPT ![c] = "live"]
    /\ handles' = handles \cup {c}
    /\ uses(allLists)
    /\ UNCHANGED <<library_initialized, clients, lists, clientsds, orphaned, running,
                   owner, cyc, doomed, risky>>

\* ... and m->c is allocated and put on bstate->clients.
CreateClient(c) ==
    /\ at(c, "create", "client")
    /\ return(c)
    /\ clients' = clients \cup {c}
    /\ uses(allLists)
    /\ UNCHANGED <<library_initialized, handles, lists, clientsds, clientVars, running,
                   owner, cyc, doomed, risky>>

-----------------------------------------------------------------------------
(* MQTTClient_connect                                                      *)

LockConnect(t) ==
    /\ call[t].pc = "lockConnect"
    /\ lock(t, "connect")
    /\ goto(t, "lock")
    /\ UNCHANGED <<listVars, clientVars, running, cyc, doomed, risky, used>>

\* connectURIVersion: without a run thread one is started if the client has
\* callbacks, and the call sleeps with both mutexes held.
ConnectLocked(c) ==
    /\ at(c, "connect", "lock")
    /\ lock(c, "mqttclient")
    /\ uses(client(c))
    /\ goto(c, "new")
    /\ \/ UNCHANGED cyc   \* there is one, or m->ma is NULL
       \/ ~running /\ cyc[Run].pc = "off" /\ cyc' = [cyc EXCEPT ![Run].pc = "starting"]
    /\ UNCHANGED <<listVars, clientVars, running, doomed, risky>>

\* Socket_new fails, or the socket is watched and the call waits with
\* mqttclient_mutex released, for the run thread if it has announced itself.
ConnectNew(c) ==
    /\ at(c, "connect", "new")
    /\ uses(allLists)
    /\ \/ /\ unlock({"connect", "mqttclient"}) /\ return(c)
          /\ UNCHANGED <<clientsds, cyc>>
       \/ /\ clientsds' = clientsds \cup {c}
          /\ unlock({"mqttclient"}) /\ goto(c, "wait")
          /\ cyc' = IF running THEN cyc ELSE [cyc EXCEPT ![c].pc = "select"]
    /\ UNCHANGED <<library_initialized, handles, clients, lists, clientVars, running,
                   doomed, risky>>

\* The wait for connack_sem ends: it was posted, or it took too long.
ConnectWaited(c) ==
    /\ at(c, "connect", "wait") /\ cyc[c].pc = "off"
    /\ goto(c, "relock")
    /\ UNCHANGED <<listVars, clientVars, running, owner, cyc, doomed, risky, used>>

\* The same without a run thread: the call has been through a cycle, which
\* brought the answer, or time is up, ...
ConnectLoopEnds(c) ==
    /\ at(c, "connect", "wait") /\ cyc[c].pc = "post"
    /\ cyc' = [cyc EXCEPT ![c] = NoCycle]
    /\ goto(c, "relock")
    /\ UNCHANGED <<listVars, clientVars, running, owner, doomed, risky, used>>

\* ... or it goes on.
ConnectLoops(c) ==
    /\ at(c, "connect", "wait") /\ cyc[c].pc = "post"
    /\ cyc' = [cyc EXCEPT ![c] = Selecting]
    /\ UNCHANGED <<listVars, clientVars, running, owner, call, doomed, risky, used>>

\* Mutant: connect_mutex is not released.
ConnectReturns_KeepsMutex(c) ==
    /\ at(c, "connect", "relock") /\ owner["mqttclient"] = Free
    /\ uses(client(c))
    /\ unlock({}) /\ return(c)
    /\ UNCHANGED <<listVars, clientVars, running, cyc, doomed, risky>>

ConnectReturns(c) ==
    /\ at(c, "connect", "relock") /\ owner["mqttclient"] = Free
    /\ uses(client(c))
    /\ unlock({"connect"}) /\ return(c)
    /\ UNCHANGED <<listVars, clientVars, running, cyc, doomed, risky>>

-----------------------------------------------------------------------------
(* The calls that are one section                                          *)

LockSubscribe(t) ==
    /\ at(t, "subscribe", "lockSubscribe")
    /\ lock(t, "subscribe")
    /\ goto(t, "lock")
    /\ UNCHANGED <<listVars, clientVars, running, cyc, doomed, risky, used>>

\* The section of publish and subscribe.
Section(t) ==
    /\ call[t].op \in {"publish", "subscribe"} /\ call[t].pc = "lock"
    /\ owner["mqttclient"] = Free
    /\ uses(client(call[t].c) \cup allLists)
    /\ unlock(IF call[t].op = "subscribe" THEN {"subscribe"} ELSE {})
    /\ return(t)
    /\ UNCHANGED <<listVars, clientVars, running, cyc, doomed, risky>>

\* Mutant: the pointers to the lists are cleared.
MQTTClient_terminate_Unset ==
    /\ lists' = "NULL" /\ handles' = {} /\ clientsds' = {}
    /\ library_initialized' = FALSE

\* MQTTClient_terminate: the lists are freed, those of mod_s too.
MQTTClient_terminate ==
    /\ lists' = "freed" /\ handles' = {} /\ clientsds' = {}
    /\ library_initialized' = FALSE

\* Mutant: the client stays on handles.
destroy_KeepsHandle(c) ==
    /\ uses(client(c) \cup allLists)
    /\ mem' = [mem EXCEPT ![c] = "freed"]
    /\ clients' = clients \ {c}
    /\ IF clients' = {} /\ library_initialized THEN MQTTClient_terminate
       ELSE /\ handles' = handles
            /\ UNCHANGED <<lists, clientsds, library_initialized>>
    /\ orphaned' \in {orphaned, orphaned \cup ({c} \cap clientsds)}
    /\ risky' = risky
        \cup (IF lists' = "freed" THEN {"last"} ELSE {})
        \cup (IF c \in orphaned' THEN {"writing"} ELSE {})
        \cup (IF \E u \in Threads : cyc[u].pc \in {"inMa", "maReturned"} /\ cyc[u].m = c
              THEN {"inCallback"} ELSE {})

\* MQTTClient_destroy.  The socket is neither closed nor forgotten, and if a
\* write to it was interrupted, which needs the client's publications, it goes on.
destroy(c) ==
    /\ uses(client(c) \cup allLists)
    /\ mem' = [mem EXCEPT ![c] = "freed"]
    /\ clients' = clients \ {c}
    /\ IF clients' = {} /\ library_initialized THEN MQTTClient_terminate
       ELSE /\ handles' = handles \ {c}
            /\ UNCHANGED <<lists, clientsds, library_initialized>>
    /\ orphaned' \in {orphaned, orphaned \cup ({c} \cap clientsds)}
    /\ risky' = risky
        \cup (IF lists' = "freed" THEN {"last"} ELSE {})
        \cup (IF c \in orphaned' THEN {"writing"} ELSE {})
        \cup (IF \E u \in Threads : cyc[u].pc \in {"inMa", "maReturned"} /\ cyc[u].m = c
              THEN {"inCallback"} ELSE {})

Destroy(t) ==
    /\ at(t, "destroy", "lock") /\ owner["mqttclient"] = Free
    /\ destroy(call[t].c)
    /\ unlock({"connect"}) /\ return(t)
    /\ UNCHANGED <<running, cyc, doomed>>

-----------------------------------------------------------------------------
(* MQTTClient_run and MQTTClient_cycle                                     *)

RunStarts(t) ==
    /\ cyc[t].pc = "starting"
    /\ running' = TRUE
    /\ cyc' = [cyc EXCEPT ![t].pc = "select"]
    /\ UNCHANGED <<listVars, clientVars, owner, call, doomed, risky, used>>

\* Socket_getReadySocket continues the interrupted writes and returns a socket
\* that is ready, or 0, or a socket its client has replaced (None).
getReadySocket(t) ==
    /\ cyc[t].pc = "select"
    /\ uses(allLists \cup (IF orphaned # {} THEN {"buffers"} ELSE {}))
    /\ \E m \in clientsds \cup {None} :
        cyc' = [cyc EXCEPT ![t] = [pc |-> "cycle", m |-> m]]
    /\ UNCHANGED <<listVars, clientVars, running, owner, call, doomed, risky>>

\* MQTTClient_cycle with mqttclient_mutex held: the client is looked for, and a
\* packet read and handled.  If it is PUBACK, deliveryComplete is called before
\* the mutex is released.
Cycle(t) ==
    /\ cyc[t].pc = "cycle" /\ owner["mqttclient"] = Free
    /\ uses(allLists \cup allClients)
    /\ \/ cyc' = [cyc EXCEPT ![t].pc = "post"] /\ UNCHANGED owner
       \/ /\ cyc[t].m \in handles
          /\ cyc' = [cyc EXCEPT ![t].pc = "inDc"]
          /\ owner' = [owner EXCEPT !["mqttclient"] = t]
    /\ UNCHANGED <<listVars, clientVars, running, call, doomed, risky>>

DeliveryCompleteReturns(t) ==
    /\ cyc[t].pc = "inDc" /\ call[t].pc \in {"idle", "wait"}
    /\ cyc' = [cyc EXCEPT ![t].pc = "post"]
    /\ unlock({"mqttclient"})
    /\ UNCHANGED <<listVars, clientVars, running, call, doomed, risky, used>>

\* Mutant: the client that was found before the mutex was released is used.
RunPost_NoSearch(t) ==
    /\ t = Run /\ cyc[t].pc = "post" /\ owner["mqttclient"] = Free
    /\ uses(allLists \cup allClients)
    /\ \/ cyc' = [cyc EXCEPT ![t] = Selecting]
       \/ cyc[t].m # None /\ cyc' = [cyc EXCEPT ![t].pc = "inMa"]
    /\ UNCHANGED <<listVars, clientVars, running, owner, call, doomed, risky>>

\* MQTTClient_run with the mutex held again.  The client is looked for once
\* more, as it may have been destroyed, and there is a message or there is not.
RunPost(t) ==
    /\ t = Run /\ cyc[t].pc = "post" /\ owner["mqttclient"] = Free
    /\ uses(allLists \cup allClients)
    /\ \/ cyc' = [cyc EXCEPT ![t] = Selecting]
       \/ cyc[t].m \in handles /\ cyc' = [cyc EXCEPT ![t].pc = "inMa"]
    /\ UNCHANGED <<listVars, clientVars, running, owner, call, doomed, risky>>

MessageArrivedReturns(t) ==
    /\ cyc[t].pc = "inMa" /\ call[t] = NoCall
    /\ cyc' = [cyc EXCEPT ![t].pc = "maReturned"]
    /\ UNCHANGED <<listVars, clientVars, running, owner, call, doomed, risky, used>>

\* The mutex is held again, and the client is the one from before the callback.
RunDequeue(t) ==
    /\ cyc[t].pc = "maReturned" /\ owner["mqttclient"] = Free
    /\ uses(client(cyc[t].m))
    /\ cyc' = [cyc EXCEPT ![t] = Selecting]
    /\ UNCHANGED <<listVars, clientVars, running, owner, call, doomed, risky>>

-----------------------------------------------------------------------------

InCall(t) ==
    \/ t \in Clients /\ (CreateCheck(t) \/ CreateInitialize(t) \/ CreateHandle(t)
                         \/ CreateClient(t)
                         \/ ConnectLocked(t) \/ ConnectNew(t) \/ ConnectWaited(t)
                         \/ ConnectLoopEnds(t) \/ ConnectLoops(t) \/ ConnectReturns(t))
    \/ LockConnect(t) \/ LockSubscribe(t) \/ Section(t) \/ Destroy(t)

InRun(t) ==
    \/ RunStarts(t) \/ getReadySocket(t) \/ Cycle(t) \/ DeliveryCompleteReturns(t)
    \/ RunPost(t) \/ MessageArrivedReturns(t) \/ RunDequeue(t)

\* What thread t does once it has begun.
Step(t) == used = {} /\ (InCall(t) \/ InRun(t))

Call ==
    /\ used = {}
    /\ \/ \E c \in Clients : CallCreate(c) \/ CallConnect(c)
       \/ \E t \in Threads, c \in Clients : CallUse(t, c) \/ CallDestroy(t, c)

Next == Call \/ \E t \in Threads : Step(t)

Spec == Init /\ [][Next]_vars

\* A thread that waits for a mutex gets it: the run thread sleeps in select, or
\* for 100 ms, between two turns without it.  Waits end after their timeout,
\* and callbacks return.
FairSpec ==
    /\ Spec
    /\ \A t \in Threads : SF_vars(Step(t))
    /\ \A c \in Clients : SF_vars(used = {} /\ ConnectLoopEnds(c))

-----------------------------------------------------------------------------
(* Properties                                                              *)

\* The variables hold the values the C structures can hold.
TypeOK ==
    /\ library_initialized \in BOOLEAN
    /\ handles \subseteq Clients /\ clients \subseteq Clients
    /\ lists \in {"none", "live", "freed"} /\ clientsds \subseteq Clients
    /\ mem \in [Clients -> {"none", "live", "freed"}]
    /\ orphaned \subseteq Clients
    /\ running \in BOOLEAN
    /\ owner \in [Mutexes -> Threads \cup {Free}]
    /\ call \in [Threads -> [op : {None, "create", "connect", "publish", "subscribe",
                                   "destroy"},
                             pc : {"idle", "check", "init", "lists", "client",
                                   "lockConnect", "lockSubscribe", "lock", "new",
                                   "wait", "relock"},
                             c : Clients \cup {None}]]
    /\ cyc \in [Threads -> [pc : {"off", "starting", "select", "cycle", "inDc", "post",
                                  "inMa", "maReturned"},
                            m : Clients \cup {None}]]
    /\ doomed \subseteq Clients
    /\ risky \subseteq {"create", "last", "writing", "inCallback",
                         "inDeliveryComplete"}
    /\ used \subseteq {"client", "lists", "buffers", "unfinished"}

\* Nothing is used after it was freed or before it is there, whatever the run
\* thread is doing, unless the application destroyed its last client (the run
\* thread goes on), a client in its own messageArrived or with an interrupted
\* write, or created a client beside another call or the run thread
\* (MQTTClient.c:109-166, 187-221, 568-598).  And a client exists as long as
\* connect is at work for it: the mutexes keep destroy waiting (347, 570).
NothingFreedIsUsed ==
    /\ "client" \in used => "inCallback" \in risky
    /\ "lists" \in used => {"last", "create"} \cap risky # {}
    /\ "buffers" \in used => "writing" \in risky
    /\ "unfinished" \in used => "create" \in risky
    /\ \A c \in Clients :
        call[c].op = "connect" /\ call[c].pc \in {"new", "wait", "relock"}
            => mem[c] = "live"

\* Creating and destroying keeps the two lists to the clients there are, so that
\* the last one is noticed, and the run thread finds each (MQTTClient.c:131, 147).
ListsAreClients ==
    "create" \notin risky =>
        /\ handles = {c \in Clients : mem[c] = "live"}
        /\ clients = {c \in handles : ~at(c, "create", "client")}
        /\ library_initialized <=> lists = "live"

\* Every call returns, callbacks that call included, unless deliveryComplete is
\* one of them: no thread waits for a mutex for ever (MQTTClient.c:347-364, 501).
CallsReturn ==
    \A t \in Threads : call[t] # NoCall
        ~> (call[t] = NoCall \/ used # {} \/ "inDeliveryComplete" \in risky)
=============================================================================
