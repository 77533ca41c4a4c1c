-------------------------- MODULE LifecycleProofs --------------------------
(***************************************************************************)
(* Machine-checked proofs about Lifecycle, for any number of clients: what *)
(* is freed is not used, and the lists hold the clients there are, except  *)
(* after what the application did that nothing guards.                     *)
(***************************************************************************)
EXTENDS Lifecycle, TLAPS

-----------------------------------------------------------------------------
(* The inductive invariant                                                 *)

(* What each call can be at, and for which client.                         *)
CallShape ==
    \A t \in Threads :
        \/ call[t] = NoCall
        \/ /\ call[t].op = "create" /\ t \in Clients /\ call[t].c = t
           /\ call[t].pc \in {"check", "init", "lists", "client"}
        \/ /\ call[t].op = "connect" /\ t \in Clients /\ call[t].c = t
           /\ call[t].pc \in {"lockConnect", "lock", "new", "wait", "relock"}
        \/ call[t].op = "publish" /\ call[t].c \in Clients /\ call[t].pc = "lock"
        \/ /\ call[t].op = "subscribe" /\ call[t].c \in Clients
           /\ call[t].pc \in {"lockSubscribe", "lock"}
        \/ /\ call[t].op = "destroy" /\ call[t].c \in Clients
           /\ call[t].pc \in {"lockConnect", "lock"}

(* A client's own thread goes through cycles only while connect waits, and *)
(* only the run thread delivers messages.                                  *)
CycleShape ==
    /\ \A c \in Clients : cyc[c].pc # "off" =>
        /\ call[c].op = "connect" /\ call[c].pc = "wait"
        /\ cyc[c].pc \in {"select", "cycle", "inDc", "post"}
    /\ cyc[Run].pc \in {"inMa", "maReturned"} => cyc[Run].m \in Clients

(* The threads that are past locking connect_mutex hold it.                *)
InsideConnect(t) ==
    \/ call[t].op = "connect" /\ call[t].pc \in {"lock", "new", "wait", "relock"}
    \/ call[t].op = "destroy" /\ call[t].pc = "lock"

ConnectMutex == \A t \in Threads : InsideConnect(t) => owner["connect"] = t

(* The clients that are being created, used or destroyed.                  *)
CallMemory ==
    /\ \A c \in Clients : mem[c] = "freed" => c \in doomed
    /\ \A t \in Threads :
        /\ call[t].op = "create" =>
            /\ t \notin doomed
            /\ mem[t] = IF call[t].pc = "client" THEN "live" ELSE "none"
        /\ call[t].op \in {"connect", "publish", "subscribe"} =>
            /\ mem[call[t].c] = "live"
            /\ call[t].pc \notin {"wait", "relock"} => call[t].c \notin doomed
        /\ call[t].op = "destroy" => call[t].c \in doomed /\ mem[call[t].c] = "live"
    /\ \A t, u \in Threads :
        call[t].op = "destroy" /\ call[u].op = "destroy" /\ call[t].c = call[u].c
            => t = u

(* What a callback was called for, and what is freed, is on record.        *)
OnRecord ==
    /\ cyc[Run].pc \in {"inMa", "maReturned"} =>
        mem[cyc[Run].m] = "live" \/ "inCallback" \in risky
    /\ \A c \in handles : mem[c] = "live"
    /\ lists = "freed" => "last" \in risky
    /\ orphaned # {} => "writing" \in risky
    /\ "client" \in used => "inCallback" \in risky
    /\ "lists" \in used => "last" \in risky
    /\ "buffers" \in used => "writing" \in risky
    /\ "unfinished" \in used => "create" \in risky

(* A create that is not alone is on record, and one that is sees the lists *)
(* as they were when it began.                                             *)
CreateAlone ==
    \A c \in Clients : call[c].op = "create" =>
        /\ \A u \in Threads \ {c} : busy(u) => "create" \in risky
        /\ "create" \notin risky =>
            /\ call[c].pc = "init" => ~library_initialized
            /\ call[c].pc \in {"lists", "client"} => library_initialized

(* Without its lists the library knows no client.                          *)
NoListsNoClients ==
    "create" \notin risky /\ ~library_initialized => handles = {}

LInv ==
    /\ TypeOK /\ CallShape /\ CycleShape /\ ConnectMutex /\ CallMemory
    /\ OnRecord /\ CreateAlone /\ ListsAreClients /\ NoListsNoClients

-----------------------------------------------------------------------------
(* Frames                                                                  *)

(* What a call that goes on or returns leaves alone: the other calls.      *)
LEMMA GotoCall ==
    ASSUME TypeOK, NEW t \in Threads, NEW pc, goto(t, pc)
    PROVE  /\ call'[t].pc = pc /\ call'[t].op = call[t].op /\ call'[t].c = call[t].c
           /\ \A u \in Threads \ {t} : call'[u] = call[u]
BY DEF TypeOK, goto

(* A call that returns is over.                                            *)
LEMMA ReturnCall ==
    ASSUME TypeOK, NEW t \in Threads, return(t)
    PROVE  /\ call'[t] = NoCall /\ call'[t].op = None /\ call'[t].pc = "idle"
           /\ \A u \in Threads \ {t} : call'[u] = call[u]
BY DEF TypeOK, return, NoCall

(* A call that returns keeps what the other calls rely on.                 *)
LEMMA ReturnMemory ==
    ASSUME LInv, NEW t \in Threads, return(t), UNCHANGED <<mem, doomed>>
    PROVE  CallMemory' /\ CallShape'
<1>1. /\ call'[t] = NoCall /\ call'[t].op = None
      /\ \A u \in Threads \ {t} : call'[u] = call[u]
  BY ReturnCall DEF LInv
<1> HIDE DEF NoCall
<1>2. CallShape'
  BY <1>1 DEF LInv, CallShape
<1>3. CallMemory'
  BY <1>1 DEF LInv, CallMemory, None
<1> QED
  BY <1>2, <1>3

(* And a create beside it is still on record.                              *)
LEMMA ReturnAlone ==
    ASSUME LInv, NEW t \in Threads, return(t),
           UNCHANGED <<risky, library_initialized, cyc>>
    PROVE  CreateAlone'
<1>1. /\ call'[t] = NoCall /\ call'[t].op = None
      /\ \A u \in Threads \ {t} : call'[u] = call[u]
  BY ReturnCall DEF LInv
<1>2. Clients \subseteq Threads
  BY DEF Threads
<1> HIDE DEF NoCall
<1> QED
  BY <1>1, <1>2 DEF LInv, CreateAlone, busy, None

(* A call that begins leaves the lists alone.                              *)
LEMMA BeginLists ==
    ASSUME LInv, NEW t \in Threads, NEW op, NEW pc, NEW c, pc # "client",
           call[t] = NoCall, begin(t, op, pc, c), UNCHANGED <<listVars, clientVars>>
    PROVE  ListsAreClients' /\ NoListsNoClients'
<1>1. risky \subseteq risky'
  BY DEF begin
<1>2. call'[t].pc = pc /\ \A u \in Threads \ {t} : call'[u] = call[u]
  BY DEF begin, LInv, TypeOK
<1>3. \A u \in Clients : at(u, "create", "client")' <=> at(u, "create", "client")
  BY <1>2 DEF at, NoCall, Threads
<1> QED
  BY <1>1, <1>3 DEF LInv, ListsAreClients, NoListsNoClients, TypeOK, listVars, clientVars

-----------------------------------------------------------------------------
(* The application calls                                                   *)

(* A client is created.                                                    *)
LEMMA CallCreateStep ==
    ASSUME LInv, NEW c \in Clients, CallCreate(c) PROVE LInv'
<1> USE DEF CallCreate, begin, mayCall, Threads, NoCall, at
<1>1. TypeOK'
  BY RunAssumption, NamesAssumption
  DEF LInv, TypeOK, CallShape, Mutexes, listVars, clientVars
<1>2. CallShape' /\ CycleShape'
  BY RunAssumption, NamesAssumption
  DEF LInv, TypeOK, CallShape, CycleShape, listVars, clientVars
<1>3. ConnectMutex'
  BY RunAssumption, NamesAssumption
  DEF LInv, TypeOK, CallShape, ConnectMutex, InsideConnect, Mutexes
<1>4. CallMemory'
  BY RunAssumption, NamesAssumption
  DEF LInv, TypeOK, CallShape, CycleShape, ConnectMutex, InsideConnect,
      CallMemory, clientVars
<1>5. OnRecord'
  BY RunAssumption, NamesAssumption
  DEF LInv, TypeOK, CallShape, CycleShape, CallMemory, OnRecord,
      CreateAlone, busy, listVars, clientVars
<1>6. CreateAlone'
  BY RunAssumption, NamesAssumption
  DEF LInv, TypeOK, CallShape, CycleShape, CreateAlone, busy, listVars
<1>7. ListsAreClients' /\ NoListsNoClients'
  BY BeginLists
<1> QED
  BY <1>1, <1>2, <1>3, <1>4, <1>5, <1>6, <1>7 DEF LInv

(* connect is called.                                                      *)
LEMMA CallConnectStep ==
    ASSUME LInv, NEW c \in Clients, CallConnect(c) PROVE LInv'
<1> USE DEF CallConnect, begin, mayCall, usable, Threads, NoCall, at
<1>1. TypeOK'
  BY RunAssumption, NamesAssumption
  DEF LInv, TypeOK, CallShape, Mutexes, listVars, clientVars
<1>2. CallShape' /\ CycleShape'
  BY RunAssumption, NamesAssumption
  DEF LInv, TypeOK, CallShape, CycleShape, listVars, clientVars
<1>3. ConnectMutex'
  BY RunAssumption, NamesAssumption
  DEF LInv, TypeOK, CallShape, ConnectMutex, InsideConnect, Mutexes
<1>4. CallMemory'
  BY RunAssumption, NamesAssumption
  DEF LInv, TypeOK, CallShape, CycleShape, ConnectMutex, InsideConnect,
      CallMemory, clientVars
<1>5. OnRecord'
  BY RunAssumption, NamesAssumption
  DEF LInv, TypeOK, CallShape, CycleShape, CallMemory, OnRecord,
      CreateAlone, busy, listVars, clientVars
<1>6. CreateAlone'
  BY RunAssumption, NamesAssumption
  DEF LInv, TypeOK, CallShape, CycleShape, CreateAlone, busy, listVars
<1>7. ListsAreClients' /\ NoListsNoClients'
  BY BeginLists
<1> QED
  BY <1>1, <1>2, <1>3, <1>4, <1>5, <1>6, <1>7 DEF LInv

(* Another call is made, perhaps in a callback.                            *)
LEMMA CallUseStep ==
    ASSUME LInv, NEW t \in Threads, NEW c \in Clients, CallUse(t, c) PROVE LInv'
<1> USE DEF CallUse, begin, mayCall, usable, Threads, NoCall, at
<1>1. TypeOK'
  <2>1. call' \in [Threads -> [op : {None, "create", "connect", "publish", "subscribe",
                                    "destroy"},
                              pc : {"idle", "check", "init", "lists", "client",
                                    "lockConnect", "lockSubscribe", "lock", "new",
                                    "wait", "relock"},
                              c : Clients \cup {None}]]
    BY DEF LInv, TypeOK
  <2>2. risky' \subseteq {"create", "last", "writing", "inCallback", "inDeliveryComplete"}
    BY DEF LInv, TypeOK
  <2> QED
    BY <2>1, <2>2 DEF LInv, TypeOK, listVars, clientVars
<1>2. CallShape' /\ CycleShape'
  BY RunAssumption, NamesAssumption
  DEF LInv, TypeOK, CallShape, CycleShape, listVars, clientVars
<1>3. ConnectMutex'
  BY RunAssumption, NamesAssumption
  DEF LInv, TypeOK, CallShape, ConnectMutex, InsideConnect, Mutexes
<1>4. CallMemory'
  BY RunAssumption, NamesAssumption
  DEF LInv, TypeOK, CallShape, CycleShape, ConnectMutex, InsideConnect,
      CallMemory, clientVars
<1>5. OnRecord'
  BY RunAssumption, NamesAssumption
  DEF LInv, TypeOK, CallShape, CycleShape, CallMemory, OnRecord,
      CreateAlone, busy, listVars, clientVars
<1>6. CreateAlone'
  BY RunAssumption, NamesAssumption
  DEF LInv, TypeOK, CallShape, CycleShape, CreateAlone, busy, listVars
<1>7. ListsAreClients' /\ NoListsNoClients'
  <2>1. CASE begin(t, "publish", "lock", c)
    BY <2>1, BeginLists
  <2>2. CASE begin(t, "subscribe", "lockSubscribe", c)
    BY <2>2, BeginLists
  <2> QED
    BY <2>1, <2>2
<1> QED
  BY <1>1, <1>2, <1>3, <1>4, <1>5, <1>6, <1>7 DEF LInv

(* destroy is called: from here on nobody else may use the client.         *)
LEMMA CallDestroyStep ==
    ASSUME LInv, NEW t \in Threads, NEW c \in Clients, CallDestroy(t, c) PROVE LInv'
<1> USE DEF CallDestroy, begin, mayCall, usable, Threads, NoCall, at
<1>1. TypeOK'
  BY RunAssumption, NamesAssumption
  DEF LInv, TypeOK, CallShape, Mutexes, listVars, clientVars
<1>2. CallShape' /\ CycleShape'
  BY RunAssumption, NamesAssumption
  DEF LInv, TypeOK, CallShape, CycleShape, listVars, clientVars
<1>3. ConnectMutex'
  BY RunAssumption, NamesAssumption
  DEF LInv, TypeOK, CallShape, ConnectMutex, InsideConnect, Mutexes
<1>4. CallMemory'
  BY RunAssumption, NamesAssumption
  DEF LInv, TypeOK, CallShape, CycleShape, ConnectMutex, InsideConnect,
      CallMemory, clientVars
<1>5. OnRecord'
  BY RunAssumption, NamesAssumption
  DEF LInv, TypeOK, CallShape, CycleShape, CallMemory, OnRecord,
      CreateAlone, busy, listVars, clientVars
<1>6. CreateAlone'
  BY RunAssumption, NamesAssumption
  DEF LInv, TypeOK, CallShape, CycleShape, CreateAlone, busy, listVars
<1>7. ListsAreClients' /\ NoListsNoClients'
  BY BeginLists
<1> QED
  BY <1>1, <1>2, <1>3, <1>4, <1>5, <1>6, <1>7 DEF LInv

-----------------------------------------------------------------------------
(* Creating and connecting                                                 *)

(* The library is or is not initialised.                                   *)
LEMMA CreateCheckStep ==
    ASSUME LInv, NEW c \in Clients, CreateCheck(c) PROVE LInv'
<1> USE DEF CreateCheck, goto, Threads, NoCall, at
<1>1. TypeOK'
  BY RunAssumption, NamesAssumption
  DEF LInv, TypeOK, CallShape, Mutexes, listVars, clientVars
<1>2. CallShape' /\ CycleShape'
  BY RunAssumption, NamesAssumption
  DEF LInv, TypeOK, CallShape, CycleShape, listVars, clientVars
<1>3. ConnectMutex'
  BY RunAssumption, NamesAssumption
  DEF LInv, TypeOK, CallShape, ConnectMutex, InsideConnect, Mutexes
<1>4. CallMemory'
  BY RunAssumption, NamesAssumption
  DEF LInv, TypeOK, CallShape, CycleShape, ConnectMutex, InsideConnect,
      CallMemory, clientVars
<1>5. OnRecord'
  BY RunAssumption, NamesAssumption
  DEF LInv, TypeOK, CallShape, CycleShape, CallMemory, OnRecord,
      CreateAlone, busy, listVars, clientVars
<1>6. CreateAlone'
  BY RunAssumption, NamesAssumption
  DEF LInv, TypeOK, CallShape, CycleShape, CreateAlone, busy, listVars
<1>7. ListsAreClients' /\ NoListsNoClients'
  BY RunAssumption, NamesAssumption
  DEF LInv, TypeOK, CallShape, CallMemory, CreateAlone, busy,
      ListsAreClients, NoListsNoClients, listVars, clientVars
<1> QED
  BY <1>1, <1>2, <1>3, <1>4, <1>5, <1>6, <1>7 DEF LInv

(* A create that is alone finds no client to forget.                       *)
LEMMA CreateInitializeStep ==
    ASSUME LInv, NEW c \in Clients, CreateInitialize(c) PROVE LInv'
<1> USE DEF CreateInitialize, goto, Threads, NoCall, at
<1>1. TypeOK'
  BY RunAssumption, NamesAssumption
  DEF LInv, TypeOK, CallShape, Mutexes, listVars, clientVars
<1>2. CallShape' /\ CycleShape'
  BY RunAssumption, NamesAssumption
  DEF LInv, TypeOK, CallShape, CycleShape, listVars, clientVars
<1>3. ConnectMutex'
  BY RunAssumption, NamesAssumption
  DEF LInv, TypeOK, CallShape, ConnectMutex, InsideConnect, Mutexes
<1>4. CallMemory'
  BY RunAssumption, NamesAssumption
  DEF LInv, TypeOK, CallShape, CycleShape, ConnectMutex, InsideConnect,
      CallMemory, clientVars
<1>5. OnRecord'
  BY RunAssumption, NamesAssumption
  DEF LInv, TypeOK, CallShape, CycleShape, CallMemory, OnRecord,
      CreateAlone, busy, listVars, clientVars
<1>6. CreateAlone'
  BY RunAssumption, NamesAssumption
  DEF LInv, TypeOK, CallShape, CycleShape, CreateAlone, busy, listVars
<1>7. ListsAreClients' /\ NoListsNoClients'
  BY RunAssumption, NamesAssumption
  DEF LInv, TypeOK, CallShape, CallMemory, CreateAlone, busy,
      ListsAreClients, NoListsNoClients, listVars, clientVars
<1> QED
  BY <1>1, <1>2, <1>3, <1>4, <1>5, <1>6, <1>7 DEF LInv

(* The client is on handles.                                               *)
LEMMA CreateHandleStep ==
    ASSUME LInv, NEW c \in Clients, CreateHandle(c) PROVE LInv'
<1> USE DEF CreateHandle, goto, uses, allLists, Threads, NoCall, at
<1>1. TypeOK'
  BY RunAssumption, NamesAssumption
  DEF LInv, TypeOK, CallShape, Mutexes, listVars, clientVars
<1>2. CallShape' /\ CycleShape'
  BY RunAssumption, NamesAssumption
  DEF LInv, TypeOK, CallShape, CycleShape, listVars, clientVars
<1>3. ConnectMutex'
  BY RunAssumption, NamesAssumption
  DEF LInv, TypeOK, CallShape, ConnectMutex, InsideConnect, Mutexes
<1>4. CallMemory'
  BY RunAssumption, NamesAssumption
  DEF LInv, TypeOK, CallShape, CycleShape, ConnectMutex, InsideConnect,
      CallMemory, clientVars
<1>5. OnRecord'
  BY RunAssumption, NamesAssumption
  DEF LInv, TypeOK, CallShape, CycleShape, CallMemory, OnRecord,
      CreateAlone, busy, listVars, clientVars
<1>6. CreateAlone'
  BY RunAssumption, NamesAssumption
  DEF LInv, TypeOK, CallShape, CycleShape, CreateAlone, busy, listVars
<1>7. ListsAreClients' /\ NoListsNoClients'
  BY RunAssumption, NamesAssumption
  DEF LInv, TypeOK, CallShape, CallMemory, CreateAlone, busy,
      ListsAreClients, NoListsNoClients, listVars, clientVars
<1> QED
  BY <1>1, <1>2, <1>3, <1>4, <1>5, <1>6, <1>7 DEF LInv

(* The client is complete.                                                 *)
LEMMA CreateClientStep ==
    ASSUME LInv, NEW c \in Clients, CreateClient(c) PROVE LInv'
<1> USE DEF CreateClient, return, uses, allLists, Threads, NoCall, at
<1>1. TypeOK'
  BY RunAssumption, NamesAssumption
  DEF LInv, TypeOK, CallShape, Mutexes, listVars, clientVars
<1>2. CallShape' /\ CycleShape'
  BY RunAssumption, NamesAssumption
  DEF LInv, TypeOK, CallShape, CycleShape, listVars, clientVars
<1>3. ConnectMutex'
  BY RunAssumption, NamesAssumption
  DEF LInv, TypeOK, CallShape, ConnectMutex, InsideConnect, Mutexes
<1>4. CallMemory'
  BY ReturnMemory DEF clientVars
<1>5. OnRecord'
  BY RunAssumption, NamesAssumption
  DEF LInv, TypeOK, CallShape, CycleShape, CallMemory, OnRecord,
      CreateAlone, busy, listVars, clientVars
<1>6. CreateAlone'
  BY ReturnAlone DEF listVars
<1>7. ListsAreClients' /\ NoListsNoClients'
  BY RunAssumption, NamesAssumption
  DEF LInv, TypeOK, CallShape, CallMemory, CreateAlone, busy,
      ListsAreClients, NoListsNoClients, listVars, clientVars
<1> QED
  BY <1>1, <1>2, <1>3, <1>4, <1>5, <1>6, <1>7 DEF LInv

(* connect or destroy gets connect_mutex.                                  *)
LEMMA LockConnectStep ==
    ASSUME LInv, NEW t \in Threads, LockConnect(t) PROVE LInv'
<1> USE DEF LockConnect, lock, goto, Threads, NoCall, at
<1>1. TypeOK'
  BY RunAssumption, NamesAssumption
  DEF LInv, TypeOK, CallShape, Mutexes, listVars, clientVars
<1>2. CallShape' /\ CycleShape'
  BY RunAssumption, NamesAssumption
  DEF LInv, TypeOK, CallShape, CycleShape, listVars, clientVars
<1>3. ConnectMutex'
  BY RunAssumption, NamesAssumption
  DEF LInv, TypeOK, CallShape, ConnectMutex, InsideConnect, Mutexes
<1>4. CallMemory'
  BY RunAssumption, NamesAssumption
  DEF LInv, TypeOK, CallShape, CycleShape, ConnectMutex, InsideConnect,
      CallMemory, clientVars
<1>5. OnRecord'
  BY RunAssumption, NamesAssumption
  DEF LInv, TypeOK, CallShape, CycleShape, CallMemory, OnRecord,
      CreateAlone, busy, listVars, clientVars
<1>6. CreateAlone'
  BY RunAssumption, NamesAssumption
  DEF LInv, TypeOK, CallShape, CycleShape, CreateAlone, busy, listVars
<1>7. ListsAreClients' /\ NoListsNoClients'
  BY RunAssumption, NamesAssumption
  DEF LInv, TypeOK, CallShape, CallMemory, CreateAlone, busy,
      ListsAreClients, NoListsNoClients, listVars, clientVars
<1> QED
  BY <1>1, <1>2, <1>3, <1>4, <1>5, <1>6, <1>7 DEF LInv

(* connect holds both mutexes, and may start the run thread.               *)
LEMMA ConnectLockedStep ==
    ASSUME LInv, NEW c \in Clients, ConnectLocked(c) PROVE LInv'
<1> USE DEF ConnectLocked, lock, goto, uses, client, Threads, NoCall, at
<1>1. TypeOK'
  BY RunAssumption, NamesAssumption
  DEF LInv, TypeOK, CallShape, Mutexes, listVars, clientVars
<1>2. CallShape' /\ CycleShape'
  BY RunAssumption, NamesAssumption
  DEF LInv, TypeOK, CallShape, CycleShape, listVars, clientVars
<1>3. ConnectMutex'
  BY RunAssumption, NamesAssumption
  DEF LInv, TypeOK, CallShape, ConnectMutex, InsideConnect, Mutexes
<1>4. CallMemory'
  BY RunAssumption, NamesAssumption
  DEF LInv, TypeOK, CallShape, CycleShape, ConnectMutex, InsideConnect,
      CallMemory, clientVars
<1>5. OnRecord'
  BY RunAssumption, NamesAssumption
  DEF LInv, TypeOK, CallShape, CycleShape, CallMemory, OnRecord,
      CreateAlone, busy, listVars, clientVars
<1>6. CreateAlone'
  BY RunAssumption, NamesAssumption
  DEF LInv, TypeOK, CallShape, CycleShape, CreateAlone, busy, listVars
<1>7. ListsAreClients' /\ NoListsNoClients'
  BY RunAssumption, NamesAssumption
  DEF LInv, TypeOK, CallShape, CallMemory, CreateAlone, busy,
      ListsAreClients, NoListsNoClients, listVars, clientVars
<1> QED
  BY <1>1, <1>2, <1>3, <1>4, <1>5, <1>6, <1>7 DEF LInv

(* The socket is there, or connect has failed.                             *)
LEMMA ConnectNewStep ==
    ASSUME LInv, NEW c \in Clients, ConnectNew(c) PROVE LInv'
<1> USE DEF ConnectNew, unlock, goto, return, uses, allLists, Threads, NoCall, at
<1>1. TypeOK'
  BY RunAssumption, NamesAssumption
  DEF LInv, TypeOK, CallShape, Mutexes, listVars, clientVars
<1>2. CallShape' /\ CycleShape'
  BY RunAssumption, NamesAssumption
  DEF LInv, TypeOK, CallShape, CycleShape, listVars, clientVars
<1>3. ConnectMutex'
  BY RunAssumption, NamesAssumption
  DEF LInv, TypeOK, CallShape, ConnectMutex, InsideConnect, Mutexes
<1>4. CallMemory'
  <2>1. CASE return(c)
    BY <2>1, ReturnMemory DEF clientVars
  <2>2. CASE goto(c, "wait")
    BY <2>2 DEF LInv, TypeOK, CallMemory, clientVars
  <2> QED
    BY <2>1, <2>2
<1>5. OnRecord'
  BY RunAssumption, NamesAssumption
  DEF LInv, TypeOK, CallShape, CycleShape, CallMemory, OnRecord,
      CreateAlone, busy, listVars, clientVars
<1>6. CreateAlone'
  <2>1. CASE return(c) /\ UNCHANGED cyc
    BY <2>1, ReturnAlone DEF listVars
  <2>2. CASE goto(c, "wait")
    <3>1. /\ call[c].op = "connect" /\ call'[c].op = "connect"
          /\ \A u \in Threads \ {c} : call'[u] = call[u] /\ cyc'[u] = cyc[u]
          /\ UNCHANGED <<risky, library_initialized>>
      BY <2>2 DEF LInv, TypeOK
    <3> QED
      BY <3>1 DEF LInv, CreateAlone, busy
  <2> QED
    BY <2>1, <2>2
<1>7. ListsAreClients' /\ NoListsNoClients'
  BY RunAssumption, NamesAssumption
  DEF LInv, TypeOK, CallShape, CallMemory, CreateAlone, busy,
      ListsAreClients, NoListsNoClients, listVars, clientVars
<1> QED
  BY <1>1, <1>2, <1>3, <1>4, <1>5, <1>6, <1>7 DEF LInv

(* The wait for the semaphore ends.                                        *)
LEMMA ConnectWaitedStep ==
    ASSUME LInv, NEW c \in Clients, ConnectWaited(c) PROVE LInv'
<1> USE DEF ConnectWaited, goto, Threads, NoCall, at
<1>1. TypeOK'
  BY RunAssumption, NamesAssumption
  DEF LInv, TypeOK, CallShape, Mutexes, listVars, clientVars
<1>2. CallShape' /\ CycleShape'
  BY RunAssumption, NamesAssumption
  DEF LInv, TypeOK, CallShape, CycleShape, listVars, clientVars
<1>3. ConnectMutex'
  BY RunAssumption, NamesAssumption
  DEF LInv, TypeOK, CallShape, ConnectMutex, InsideConnect, Mutexes
<1>4. CallMemory'
  BY RunAssumption, NamesAssumption
  DEF LInv, TypeOK, CallShape, CycleShape, ConnectMutex, InsideConnect,
      CallMemory, clientVars
<1>5. OnRecord'
  BY RunAssumption, NamesAssumption
  DEF LInv, TypeOK, CallShape, CycleShape, CallMemory, OnRecord,
      CreateAlone, busy, listVars, clientVars
<1>6. CreateAlone'
  BY RunAssumption, NamesAssumption
  DEF LInv, TypeOK, CallShape, CycleShape, CreateAlone, busy, listVars
<1>7. ListsAreClients' /\ NoListsNoClients'
  BY RunAssumption, NamesAssumption
  DEF LInv, TypeOK, CallShape, CallMemory, CreateAlone, busy,
      ListsAreClients, NoListsNoClients, listVars, clientVars
<1> QED
  BY <1>1, <1>2, <1>3, <1>4, <1>5, <1>6, <1>7 DEF LInv

(* The wait in a loop ends ...                                             *)
LEMMA ConnectLoopEndsStep ==
    ASSUME LInv, NEW c \in Clients, ConnectLoopEnds(c) PROVE LInv'
<1> USE DEF ConnectLoopEnds, goto, NoCycle, Threads, NoCall, at
<1>1. TypeOK'
  BY RunAssumption, NamesAssumption
  DEF LInv, TypeOK, CallShape, Mutexes, listVars, clientVars
<1>2. CallShape' /\ CycleShape'
  BY RunAssumption, NamesAssumption
  DEF LInv, TypeOK, CallShape, CycleShape, listVars, clientVars
<1>3. ConnectMutex'
  BY RunAssumption, NamesAssumption
  DEF LInv, TypeOK, CallShape, ConnectMutex, InsideConnect, Mutexes
<1>4. CallMemory'
  BY RunAssumption, NamesAssumption
  DEF LInv, TypeOK, CallShape, CycleShape, ConnectMutex, InsideConnect,
      CallMemory, clientVars
<1>5. OnRecord'
  BY RunAssumption, NamesAssumption
  DEF LInv, TypeOK, CallShape, CycleShape, CallMemory, OnRecord,
      CreateAlone, busy, listVars, clientVars
<1>6. CreateAlone'
  BY RunAssumption, NamesAssumption
  DEF LInv, TypeOK, CallShape, CycleShape, CreateAlone, busy, listVars
<1>7. ListsAreClients' /\ NoListsNoClients'
  BY RunAssumption, NamesAssumption
  DEF LInv, TypeOK, CallShape, CallMemory, CreateAlone, busy,
      ListsAreClients, NoListsNoClients, listVars, clientVars
<1> QED
  BY <1>1, <1>2, <1>3, <1>4, <1>5, <1>6, <1>7 DEF LInv

(* ... or goes on.                                                         *)
LEMMA ConnectLoopsStep ==
    ASSUME LInv, NEW c \in Clients, ConnectLoops(c) PROVE LInv'
<1> USE DEF ConnectLoops, Selecting, NoCycle, Threads, NoCall, at
<1>1. TypeOK'
  BY RunAssumption, NamesAssumption
  DEF LInv, TypeOK, CallShape, Mutexes, listVars, clientVars
<1>2. CallShape' /\ CycleShape'
  BY RunAssumption, NamesAssumption
  DEF LInv, TypeOK, CallShape, CycleShape, listVars, clientVars
<1>3. ConnectMutex'
  BY RunAssumption, NamesAssumption
  DEF LInv, TypeOK, CallShape, ConnectMutex, InsideConnect, Mutexes
<1>4. CallMemory'
  BY RunAssumption, NamesAssumption
  DEF LInv, TypeOK, CallShape, CycleShape, ConnectMutex, InsideConnect,
      CallMemory, clientVars
<1>5. OnRecord'
  BY RunAssumption, NamesAssumption
  DEF LInv, TypeOK, CallShape, CycleShape, CallMemory, OnRecord,
      CreateAlone, busy, listVars, clientVars
<1>6. CreateAlone'
  BY RunAssumption, NamesAssumption
  DEF LInv, TypeOK, CallShape, CycleShape, CreateAlone, busy, listVars
<1>7. ListsAreClients' /\ NoListsNoClients'
  BY RunAssumption, NamesAssumption
  DEF LInv, TypeOK, CallShape, CallMemory, CreateAlone, busy,
      ListsAreClients, NoListsNoClients, listVars, clientVars
<1> QED
  BY <1>1, <1>2, <1>3, <1>4, <1>5, <1>6, <1>7 DEF LInv

(* connect returns.                                                        *)
LEMMA ConnectReturnsStep ==
    ASSUME LInv, NEW c \in Clients, ConnectReturns(c) PROVE LInv'
<1> USE DEF ConnectReturns, unlock, return, uses, client, Threads, NoCall, at
<1>1. TypeOK'
  BY RunAssumption, NamesAssumption
  DEF LInv, TypeOK, CallShape, Mutexes, listVars, clientVars
<1>2. CallShape' /\ CycleShape'
  BY RunAssumption, NamesAssumption
  DEF LInv, TypeOK, CallShape, CycleShape, listVars, clientVars
<1>3. ConnectMutex'
  BY RunAssumption, NamesAssumption
  DEF LInv, TypeOK, CallShape, ConnectMutex, InsideConnect, Mutexes
<1>4. CallMemory'
  BY ReturnMemory DEF clientVars
<1>5. OnRecord'
  BY RunAssumption, NamesAssumption
  DEF LInv, TypeOK, CallShape, CycleShape, CallMemory, OnRecord,
      CreateAlone, busy, listVars, clientVars
<1>6. CreateAlone'
  BY ReturnAlone DEF listVars
<1>7. ListsAreClients' /\ NoListsNoClients'
  BY RunAssumption, NamesAssumption
  DEF LInv, TypeOK, CallShape, CallMemory, CreateAlone, busy,
      ListsAreClients, NoListsNoClients, listVars, clientVars
<1> QED
  BY <1>1, <1>2, <1>3, <1>4, <1>5, <1>6, <1>7 DEF LInv

-----------------------------------------------------------------------------
(* The other calls                                                         *)

(* subscribe gets its mutex.                                               *)
LEMMA LockSubscribeStep ==
    ASSUME LInv, NEW t \in Threads, LockSubscribe(t) PROVE LInv'
<1> USE DEF LockSubscribe, lock, goto, Threads, NoCall, at
<1>1. TypeOK'
  BY RunAssumption, NamesAssumption
  DEF LInv, TypeOK, CallShape, Mutexes, listVars, clientVars
<1>2. CallShape' /\ CycleShape'
  BY RunAssumption, NamesAssumption
  DEF LInv, TypeOK, CallShape, CycleShape, listVars, clientVars
<1>3. ConnectMutex'
  BY RunAssumption, NamesAssumption
  DEF LInv, TypeOK, CallShape, ConnectMutex, InsideConnect, Mutexes
<1>4. CallMemory'
  BY RunAssumption, NamesAssumption
  DEF LInv, TypeOK, CallShape, CycleShape, ConnectMutex, InsideConnect,
      CallMemory, clientVars
<1>5. OnRecord'
  BY RunAssumption, NamesAssumption
  DEF LInv, TypeOK, CallShape, CycleShape, CallMemory, OnRecord,
      CreateAlone, busy, listVars, clientVars
<1>6. CreateAlone'
  BY RunAssumption, NamesAssumption
  DEF LInv, TypeOK, CallShape, CycleShape, CreateAlone, busy, listVars
<1>7. ListsAreClients' /\ NoListsNoClients'
  BY RunAssumption, NamesAssumption
  DEF LInv, TypeOK, CallShape, CallMemory, CreateAlone, busy,
      ListsAreClients, NoListsNoClients, listVars, clientVars
<1> QED
  BY <1>1, <1>2, <1>3, <1>4, <1>5, <1>6, <1>7 DEF LInv

(* publish and subscribe.                                                  *)
LEMMA SectionStep ==
    ASSUME LInv, NEW t \in Threads, Section(t) PROVE LInv'
<1> USE DEF Section, unlock, return, uses, client, allLists, Threads, NoCall, at
<1>1. TypeOK'
  BY RunAssumption, NamesAssumption
  DEF LInv, TypeOK, CallShape, Mutexes, listVars, clientVars
<1>2. CallShape' /\ CycleShape'
  BY RunAssumption, NamesAssumption
  DEF LInv, TypeOK, CallShape, CycleShape, listVars, clientVars
<1>3. ConnectMutex'
  BY RunAssumption, NamesAssumption
  DEF LInv, TypeOK, CallShape, ConnectMutex, InsideConnect, Mutexes
<1>4. CallMemory'
  BY ReturnMemory DEF clientVars
<1>5. OnRecord'
  BY RunAssumption, NamesAssumption
  DEF LInv, TypeOK, CallShape, CycleShape, CallMemory, OnRecord,
      CreateAlone, busy, listVars, clientVars
<1>6. CreateAlone'
  BY ReturnAlone DEF listVars
<1>7. ListsAreClients' /\ NoListsNoClients'
  BY RunAssumption, NamesAssumption
  DEF LInv, TypeOK, CallShape, CallMemory, CreateAlone, busy,
      ListsAreClients, NoListsNoClients, listVars, clientVars
<1> QED
  BY <1>1, <1>2, <1>3, <1>4, <1>5, <1>6, <1>7 DEF LInv

(* The client of a destroy that holds connect_mutex: no other call is at   *)
(* work for it, and connect is past waiting for it.                        *)
LEMMA NobodyElse ==
    ASSUME LInv, NEW t \in Threads, at(t, "destroy", "lock"),
           NEW u \in Threads \ {t}, call[u].op # None
    PROVE  call[u].c # call[t].c
<1>1. ~InsideConnect(u)
  BY DEF LInv, ConnectMutex, InsideConnect, at
<1>2. call[t].c \in doomed
  BY DEF LInv, CallMemory, at
<1>3. CASE call[u].op = "create"
  BY <1>2, <1>3 DEF LInv, CallShape, CallMemory, NoCall, None
<1>4. CASE call[u].op \in {"connect", "publish", "subscribe"}
  BY <1>1, <1>2, <1>4 DEF LInv, CallShape, CallMemory, InsideConnect, NoCall
<1>5. CASE call[u].op = "destroy"
  BY <1>5 DEF LInv, CallMemory, at
<1> QED
  BY <1>3, <1>4, <1>5 DEF LInv, CallShape, NoCall, None

(* The client is freed, and with the last one the lists.                   *)
LEMMA DestroyStep == ASSUME LInv, NEW t \in Threads, Destroy(t) PROVE LInv'
<1> DEFINE c == call[t].c
<1>1. /\ call[t].op = "destroy" /\ call[t].pc = "lock"
      /\ destroy(c) /\ unlock({"connect"}) /\ return(t)
      /\ UNCHANGED <<running, cyc, doomed>>
  BY DEF Destroy, at
<1>2. c \in Clients /\ mem[c] = "live" /\ c \in doomed /\ owner["connect"] = t
  BY <1>1, NamesAssumption DEF LInv, CallShape, CallMemory, ConnectMutex, InsideConnect, NoCall
<1>3. /\ call'[t] = NoCall /\ call'[t].op = None /\ call'[t].pc = "idle"
      /\ \A u \in Threads \ {t} : call'[u] = call[u]
  BY <1>1, ReturnCall DEF LInv
<1>4. \A u \in Threads \ {t} : call[u].op # None => call[u].c # c
  BY <1>1, NobodyElse DEF at
<1>5. mem' = [mem EXCEPT ![c] = "freed"]
  BY <1>1 DEF destroy
<1>6. used' = used \cup allLists
  BY <1>1, <1>2 DEF destroy, uses, client
<1>7. /\ clients' = clients \ {c}
      /\ \/ /\ clients' = {} /\ library_initialized /\ library_initialized' = FALSE
            /\ lists' = "freed" /\ handles' = {} /\ clientsds' = {}
         \/ /\ ~(clients' = {} /\ library_initialized)
            /\ handles' = handles \ {c}
            /\ UNCHANGED <<lists, clientsds, library_initialized>>
  BY <1>1 DEF destroy, MQTTClient_terminate
<1>8. /\ risky' \subseteq {"create", "last", "writing", "inCallback",
                            "inDeliveryComplete"}
      /\ risky \subseteq risky'
      /\ "create" \in risky' => "create" \in risky
      /\ lists' = "freed" => "last" \in risky'
      /\ orphaned' \in {orphaned, orphaned \cup ({c} \cap clientsds)}
      /\ orphaned' # {} => orphaned # {} \/ "writing" \in risky'
      /\ cyc[Run].pc \in {"inMa", "maReturned"} /\ cyc[Run].m = c
            => "inCallback" \in risky'
  BY <1>1 DEF destroy, LInv, TypeOK, Threads
<1> HIDE DEF c
<1>9. TypeOK'
  <2>1. call' \in [Threads -> [op : {None, "create", "connect", "publish", "subscribe",
                                    "destroy"},
                              pc : {"idle", "check", "init", "lists", "client",
                                    "lockConnect", "lockSubscribe", "lock", "new",
                                    "wait", "relock"},
                              c : Clients \cup {None}]]
    BY <1>1 DEF LInv, TypeOK, return, NoCall
  <2>2. owner' \in [Mutexes -> Threads \cup {Free}]
    BY <1>1 DEF LInv, TypeOK, unlock
  <2>3. /\ mem' \in [Clients -> {"none", "live", "freed"}] /\ orphaned' \subseteq Clients
        /\ used' \subseteq {"client", "lists", "buffers", "unfinished"}
    BY <1>2, <1>5, <1>6, <1>8 DEF LInv, TypeOK, allLists
  <2>4. /\ handles' \subseteq Clients /\ clients' \subseteq Clients
        /\ clientsds' \subseteq Clients /\ library_initialized' \in BOOLEAN
        /\ lists' \in {"none", "live", "freed"}
    <3>1. library_initialized \in BOOLEAN
      BY DEF LInv, TypeOK
    <3>2. library_initialized' \in BOOLEAN
      BY <1>7, <3>1
    <3> QED
      BY <1>7, <3>2 DEF LInv, TypeOK
  <2> QED
    BY <1>1, <1>8, <2>1, <2>2, <2>3, <2>4 DEF LInv, TypeOK
<1>10. CallShape' /\ CycleShape'
  <2>1. t \in Clients => cyc[t].pc = "off"
    BY <1>1 DEF LInv, CycleShape
  <2> QED
    BY <1>1, <1>3, <2>1 DEF LInv, CallShape, CycleShape, Threads
<1>11. ConnectMutex'
  BY <1>1, <1>2, <1>3 DEF LInv, ConnectMutex, InsideConnect, None
<1>12. CallMemory'
  <2>1. \A d \in Clients \ {c} : mem'[d] = mem[d]
    BY <1>2, <1>5 DEF LInv, TypeOK
  <2>2. mem'[c] = "freed"
    BY <1>2, <1>5 DEF LInv, TypeOK
  <2>3. \A u \in Threads : call'[u].op # None =>
            /\ u # t /\ call'[u] = call[u] /\ call[u].c \in Clients
            /\ mem'[call[u].c] = mem[call[u].c]
    BY <1>3, <1>4, <2>1 DEF LInv, CallShape, Threads, NoCall
  <2>4. \A u \in Threads : call[u].op = "create" => call[u].c = u
    BY DEF LInv, CallShape, NoCall, None
  <2> QED
    BY <1>1, <1>2, <2>1, <2>2, <2>3, <2>4 DEF LInv, CallMemory, None
<1>13. OnRecord'
  <2>1. \A d \in Clients \ {c} : mem'[d] = mem[d]
    BY <1>2, <1>5 DEF LInv, TypeOK
  <2> QED
    BY <1>1, <1>6, <1>7, <1>8, <2>1 DEF LInv, OnRecord, CycleShape, TypeOK, allLists
<1>14. CreateAlone'
  <2>1. \A d \in Clients : call'[d].op = "create" => d # t /\ call[d].op = "create"
    BY <1>3 DEF Threads, None
  <2>2. \A d \in Clients : call'[d].op = "create" => "create" \in risky
    BY <1>1, <2>1 DEF LInv, CreateAlone, busy, NoCall, None
  <2> QED
    BY <1>8, <2>2 DEF CreateAlone
<1>15. ListsAreClients' /\ NoListsNoClients'
  <2>1. SUFFICES ASSUME "create" \notin risky PROVE ListsAreClients' /\ NoListsNoClients'
    BY <1>8 DEF ListsAreClients, NoListsNoClients
  <2>2. /\ handles = {d \in Clients : mem[d] = "live"}
        /\ library_initialized <=> lists = "live"
    BY <2>1 DEF LInv, ListsAreClients
  <2>3. \A d \in Clients : call[d].op # "create"
    BY <1>1, <2>1 DEF LInv, CreateAlone, busy, NoCall, None
  <2>4. \A d \in Clients : call'[d].op # "create"
    BY <1>3, <2>3 DEF Threads, None
  <2>5. clients = handles
    BY <2>1, <2>2, <2>3 DEF LInv, ListsAreClients, at
  <2>6. {d \in Clients : mem'[d] = "live"} = handles \ {c}
    BY <1>2, <1>5, <2>2 DEF LInv, TypeOK
  <2>7. handles' = handles \ {c} /\ clients' = handles'
    BY <1>7, <2>5
  <2>8. library_initialized' <=> lists' = "live"
    BY <1>7, <2>2
  <2>9. ~library_initialized' => handles' = {}
    BY <1>7, <2>1, <2>7 DEF LInv, NoListsNoClients
  <2> QED
    BY <2>4, <2>6, <2>7, <2>8, <2>9 DEF ListsAreClients, NoListsNoClients, at
<1> QED
  BY <1>9, <1>10, <1>11, <1>12, <1>13, <1>14, <1>15 DEF LInv

-----------------------------------------------------------------------------
(* The run thread                                                          *)

(* A step that only changes where a thread is in its cycle.                *)
LEMMA RunFrame ==
    ASSUME LInv, UNCHANGED <<listVars, clientVars, call, doomed, risky>>,
           TypeOK', CycleShape', OnRecord', owner'["connect"] = owner["connect"],
           \A u \in Threads : cyc'[u].pc # "off" => cyc[u].pc # "off"
    PROVE  LInv'
<1>1. CallShape' /\ ConnectMutex' /\ CallMemory'
  BY DEF LInv, CallShape, ConnectMutex, InsideConnect, CallMemory, clientVars
<1>2. \A u \in Threads : busy(u)' => busy(u)
  BY DEF busy
<1>3. CreateAlone'
  BY <1>2 DEF LInv, CreateAlone, listVars
<1>4. ListsAreClients' /\ NoListsNoClients'
  BY DEF LInv, ListsAreClients, NoListsNoClients, at, listVars, clientVars
<1> QED
  BY <1>1, <1>3, <1>4 DEF LInv

(* The run thread announces itself.                                        *)
LEMMA RunStartsStep ==
    ASSUME LInv, NEW t \in Threads, RunStarts(t) PROVE LInv'
<1> USE DEF RunStarts, Threads
<1>1. TypeOK'
  BY DEF LInv, TypeOK, Mutexes, listVars, clientVars
<1>2. CycleShape'
  BY RunAssumption DEF LInv, TypeOK, CycleShape
<1>3. OnRecord'
  BY RunAssumption DEF LInv, TypeOK, CycleShape, OnRecord, listVars, clientVars
<1>4. /\ UNCHANGED <<listVars, clientVars, call, doomed, risky>>
      /\ owner'["connect"] = owner["connect"]
  BY DEF LInv, TypeOK, Mutexes
<1>5. \A u \in Threads : cyc'[u].pc # "off" => cyc[u].pc # "off"
  BY DEF LInv, TypeOK
<1> QED
  BY <1>1, <1>2, <1>3, <1>4, <1>5, RunFrame

(* select returns.                                                         *)
LEMMA GetReadySocketStep ==
    ASSUME LInv, NEW t \in Threads, getReadySocket(t) PROVE LInv'
<1> USE DEF getReadySocket, uses, allLists, Threads
<1>1. TypeOK'
  BY DEF LInv, TypeOK, Mutexes, listVars, clientVars
<1>2. CycleShape'
  BY RunAssumption DEF LInv, TypeOK, CycleShape
<1>3. OnRecord'
  BY RunAssumption DEF LInv, TypeOK, CycleShape, OnRecord, listVars, clientVars
<1>4. /\ UNCHANGED <<listVars, clientVars, call, doomed, risky>>
      /\ owner'["connect"] = owner["connect"]
  BY DEF LInv, TypeOK, Mutexes
<1>5. \A u \in Threads : cyc'[u].pc # "off" => cyc[u].pc # "off"
  BY DEF LInv, TypeOK
<1> QED
  BY <1>1, <1>2, <1>3, <1>4, <1>5, RunFrame

(* A packet is read, and perhaps deliveryComplete called.                  *)
LEMMA CycleStep ==
    ASSUME LInv, NEW t \in Threads, Cycle(t) PROVE LInv'
<1> USE DEF Cycle, uses, allLists, allClients, Threads
<1>1. TypeOK'
  BY DEF LInv, TypeOK, Mutexes, listVars, clientVars
<1>2. CycleShape'
  BY RunAssumption DEF LInv, TypeOK, CycleShape
<1>3. OnRecord'
  BY RunAssumption DEF LInv, TypeOK, CycleShape, OnRecord, listVars, clientVars,
      CreateAlone, busy, at
<1>4. /\ UNCHANGED <<listVars, clientVars, call, doomed, risky>>
      /\ owner'["connect"] = owner["connect"]
  BY DEF LInv, TypeOK, Mutexes
<1>5. \A u \in Threads : cyc'[u].pc # "off" => cyc[u].pc # "off"
  BY DEF LInv, TypeOK
<1> QED
  BY <1>1, <1>2, <1>3, <1>4, <1>5, RunFrame

(* deliveryComplete returns.                                               *)
LEMMA DeliveryCompleteReturnsStep ==
    ASSUME LInv, NEW t \in Threads, DeliveryCompleteReturns(t) PROVE LInv'
<1> USE DEF DeliveryCompleteReturns, unlock, Threads
<1>1. TypeOK'
  BY DEF LInv, TypeOK, Mutexes, listVars, clientVars
<1>2. CycleShape'
  BY RunAssumption DEF LInv, TypeOK, CycleShape
<1>3. OnRecord'
  BY RunAssumption DEF LInv, TypeOK, CycleShape, OnRecord, listVars, clientVars
<1>4. /\ UNCHANGED <<listVars, clientVars, call, doomed, risky>>
      /\ owner'["connect"] = owner["connect"]
  BY DEF LInv, TypeOK, Mutexes
<1>5. \A u \in Threads : cyc'[u].pc # "off" => cyc[u].pc # "off"
  BY DEF LInv, TypeOK
<1> QED
  BY <1>1, <1>2, <1>3, <1>4, <1>5, RunFrame

(* The client is looked for again before messageArrived is called.         *)
LEMMA RunPostStep ==
    ASSUME LInv, NEW t \in Threads, RunPost(t) PROVE LInv'
<1> USE DEF RunPost, uses, allLists, allClients, Selecting, NoCycle, Threads
<1>1. TypeOK'
  BY DEF LInv, TypeOK, Mutexes, listVars, clientVars
<1>2. CycleShape'
  BY RunAssumption DEF LInv, TypeOK, CycleShape
<1>3. OnRecord'
  BY RunAssumption DEF LInv, TypeOK, CycleShape, OnRecord, listVars, clientVars,
      CreateAlone, busy, at
<1>4. /\ UNCHANGED <<listVars, clientVars, call, doomed, risky>>
      /\ owner'["connect"] = owner["connect"]
  BY DEF LInv, TypeOK, Mutexes
<1>5. \A u \in Threads : cyc'[u].pc # "off" => cyc[u].pc # "off"
  BY DEF LInv, TypeOK
<1> QED
  BY <1>1, <1>2, <1>3, <1>4, <1>5, RunFrame

(* messageArrived returns.                                                 *)
LEMMA MessageArrivedReturnsStep ==
    ASSUME LInv, NEW t \in Threads, MessageArrivedReturns(t) PROVE LInv'
<1> USE DEF MessageArrivedReturns, Threads
<1>1. TypeOK'
  BY DEF LInv, TypeOK, Mutexes, listVars, clientVars
<1>2. CycleShape'
  BY RunAssumption DEF LInv, TypeOK, CycleShape
<1>3. OnRecord'
  BY RunAssumption DEF LInv, TypeOK, CycleShape, OnRecord, listVars, clientVars
<1>4. /\ UNCHANGED <<listVars, clientVars, call, doomed, risky>>
      /\ owner'["connect"] = owner["connect"]
  BY DEF LInv, TypeOK, Mutexes
<1>5. \A u \in Threads : cyc'[u].pc # "off" => cyc[u].pc # "off"
  BY DEF LInv, TypeOK
<1> QED
  BY <1>1, <1>2, <1>3, <1>4, <1>5, RunFrame

(* The message is removed from a client that is there, or the application  *)
(* destroyed it in its own callback.                                       *)
LEMMA RunDequeueStep ==
    ASSUME LInv, NEW t \in Threads, RunDequeue(t) PROVE LInv'
<1> USE DEF RunDequeue, uses, client, Selecting, NoCycle, Threads
<1>1. TypeOK'
  BY DEF LInv, TypeOK, Mutexes, listVars, clientVars
<1>2. CycleShape'
  BY RunAssumption DEF LInv, TypeOK, CycleShape
<1>3. OnRecord'
  BY RunAssumption DEF LInv, TypeOK, CycleShape, OnRecord, listVars, clientVars
<1>4. /\ UNCHANGED <<listVars, clientVars, call, doomed, risky>>
      /\ owner'["connect"] = owner["connect"]
  BY DEF LInv, TypeOK, Mutexes
<1>5. \A u \in Threads : cyc'[u].pc # "off" => cyc[u].pc # "off"
  BY DEF LInv, TypeOK
<1> QED
  BY <1>1, <1>2, <1>3, <1>4, <1>5, RunFrame

-----------------------------------------------------------------------------
(* The theorems                                                            *)

(* Before the first call nothing is there.                                 *)
LEMMA InitLInv == Init => LInv
<1> SUFFICES ASSUME Init PROVE LInv
  OBVIOUS
<1>1. TypeOK
  BY DEF Init, TypeOK, NoCall, NoCycle
<1>2. CallShape /\ CycleShape /\ ConnectMutex /\ CallMemory
  BY DEF Init, CallShape, CycleShape, ConnectMutex, InsideConnect, CallMemory,
      NoCall, NoCycle, None, Threads
<1>3. OnRecord /\ CreateAlone /\ ListsAreClients /\ NoListsNoClients
  BY DEF Init, OnRecord, CreateAlone, ListsAreClients, NoListsNoClients, NoCall,
      NoCycle, None, Threads
<1> QED
  BY <1>1, <1>2, <1>3 DEF LInv

(* LInv is inductive.                                                      *)
LEMMA NextLInv == LInv /\ [Next]_vars => LInv'
<1> SUFFICES ASSUME LInv, [Next]_vars PROVE LInv'
  OBVIOUS
<1>1. CASE UNCHANGED vars
  BY <1>1 DEF vars, listVars, clientVars, LInv, TypeOK, CallShape, CycleShape,
      ConnectMutex, InsideConnect, CallMemory, OnRecord, CreateAlone, busy,
      ListsAreClients, NoListsNoClients, at
<1>2. CASE Call
  BY <1>2, CallCreateStep, CallConnectStep, CallUseStep, CallDestroyStep DEF Call
<1>3. ASSUME NEW t \in Threads, InCall(t) PROVE LInv'
  BY <1>3, CreateCheckStep, CreateInitializeStep, CreateHandleStep, CreateClientStep,
     LockConnectStep, ConnectLockedStep, ConnectNewStep, ConnectWaitedStep,
     ConnectLoopEndsStep, ConnectLoopsStep, ConnectReturnsStep, LockSubscribeStep,
     SectionStep, DestroyStep DEF InCall
<1>4. ASSUME NEW t \in Threads, InRun(t) PROVE LInv'
  BY <1>4, RunStartsStep, GetReadySocketStep, CycleStep, DeliveryCompleteReturnsStep,
     RunPostStep, MessageArrivedReturnsStep, RunDequeueStep DEF InRun
<1> QED
  BY <1>1, <1>2, <1>3, <1>4 DEF Next, Step

(* Every reachable state satisfies the inductive invariant.                *)
THEOREM LifecycleInvariant == Spec => []LInv
BY InitLInv, NextLInv, PTL DEF Spec

(* The variables keep their types.                                         *)
THEOREM LifecycleTypes == Spec => []TypeOK
BY LifecycleInvariant, PTL DEF LInv

(* Whatever the threads are doing, nothing is used after it was freed or   *)
(* before it is there, unless the application did what nothing guards, and *)
(* connect and destroy keep out of each other's way (MQTTClient.c:109-166, *)
(* 187-221, 568-598), for any number of clients.                           *)
THEOREM NoUseAfterFree == Spec => []NothingFreedIsUsed
<1>1. LInv => NothingFreedIsUsed
  BY DEF LInv, NothingFreedIsUsed, OnRecord, CallMemory, CallShape, Threads, NoCall, None
<1> QED
  BY <1>1, LifecycleInvariant, PTL

(* The two lists are the clients there are, so that the last one is        *)
(* noticed (MQTTClient.c:131, 147), for any number of clients.             *)
THEOREM ListsExact == Spec => []ListsAreClients
BY LifecycleInvariant, PTL DEF LInv
=============================================================================
