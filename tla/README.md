# A TLA+ model of the MQTT client library

The repository is a C client library for MQTT 3.1.1, cut down from the Paho
synchronous client. An application creates a client, sets callbacks, connects,
publishes and subscribes; a background thread started by the first connect
reads packets, acknowledges them and calls the application back. This directory
holds TLA+ specifications of its core, TLC configurations, and TLAPS proofs.
Source paths below are relative to the library's `src/` directory; the build
modelled is the one of its CMake files (`USE_SELECT`, `HIGH_PERFORMANCE`,
`NO_PERSISTENCE`).

## 1. Inventory

| Part | State | Operations | Interacts through |
|---|---|---|---|
| Session (`MQTTProtocol.c`, `MQTTClient.c`) | per client: `msgID`, `outboundMsgs`, `inboundMsgs`, `messageQueue`, `outboundQueue`; global `state.publications` | `publish5`, `startPublish`, `assignMsgId`, `handlePublishes`, `handlePubacks`, `queueAck`, `subscribe` | calls of the packet layer; callbacks `messageArrived`, `deliveryComplete` |
| Run thread (`MQTTClient_run`, `MQTTClient_cycle`) | `running`, `handles` | one cycle: wait for a socket, read a packet, handle it, deliver one message, post a semaphore | `mqttclient_mutex`, semaphores, callbacks |
| Connecting (`MQTTClient_connect`, `MQTTClient_waitfor`, `MQTTProtocol_connect`, `Socket_new`) | `connect_state`, `net.socket`, `connect_sem`, `connack_sem`, `m->pack`, `m->rc`, `connect_pending` | `connect`, `waitfor` | semaphores posted by the run thread, or its own loop over `MQTTClient_cycle` |
| Packets (`MQTTPacket.c`) | static `header` | `Factory`, `encode`, `decode`, the senders and parsers | socket layer |
| Socket layer (`Socket.c`, `SocketBuffer.c`) | `clientsds`, `write_pending`, `pending_wset`, stored writes, read queues, default queue | `getReadySocket`, `isReady`, `getch`, `getdata`, `putdatas`, `continueWrites` | `socket_mutex` for `getReadySocket` only |
| Linked lists (`LinkedList.c`) | first, last, cursor, count, size | append, insert, find, unlink, detach head, pop tail, empty | everything above keeps its state in them |
| Life cycle (`MQTTClient_create`, `destroy`, `terminate`) | `library_initialized`, `handles`, `bstate->clients` | create, destroy, terminate | `connect_mutex`, `mqttclient_mutex`; the run thread uses what they free |
| WebSocket (`WebSocket.c`) | `frame_buffer`, `in_frames`, `last_frame`, all static | `getch`, `getdata`, `receiveFrame`, `putdatas`, handshake | between packets and sockets; switched off unless `net.websocket` is set, which this client never does |
| Log (`Log.c`, `Messages.c`) | ring of trace entries, trace file, levels, `msg_buf` | `Log_initialize`, `Log`, `Log_setTraceLevel`, `Log_terminate` | `log_mutex`, taken by `Log` only |
| Properties (`MQTTProperties.c`) | a growing array and its encoded length | add, copy, len, write | MQTT 5 packets |
| UTF-8, Base64, SHA-1, threads, time | – | helpers | – |

What makes this code hard:

* **Two threads, two mutexes.** API calls and the handling part of a cycle hold
  `mqttclient_mutex`; `Socket_getReadySocket`, and `Socket_continueWrites` in
  it, hold `socket_mutex`. What both touch (`write_pending`, the stored writes,
  `pending_wset`) has no common lock, and the list operations of one thread can
  tear those of the other. The run thread gives `mqttclient_mutex`
  up while it waits, between the end of a cycle and its own next step, and
  inside `messageArrived`.
* **Non-blocking sockets.** Any packet may be written or read in pieces, with
  the work on other sockets in between.
* **Waiting.** `connect` releases the mutex twice and relies on semaphores that
  an earlier call's late answer may also post.
* **No end.** The run thread is never stopped, while clients, lists and log
  queues are freed under it.
* **Long histories.** Identifiers wrap, reference counts and queues have to be
  right after any sequence of operations.

`PROJECT.json` lists the hazards, each at its line.

## 2. Modules

| Module | Models | Abstractions |
|---|---|---|
| `MQTTSession` | one connected client: publishing threads, the run thread, a broker | a publication is a heap cell with a refcount; packets are records; a write completes, is partial or fails |
| `MQTTSessionProofs` | theorems about `MQTTSession`: identifiers and publications, order and removal, acknowledgements and pending writes | – |
| `SocketWrite` | `putdatas` against `continueWrites`, access by access | a list operation is cut where the other thread's can harm it; `FD_SET`/`FD_CLR` is a load and a store of a word; bytes are `<<packet, index>>` |
| `SocketWriteProofs` | theorems about `SocketWrite` | – |
| `PacketStream` | what callers rely on: packets go out whole, in order, at most one unfinished | abstract specification |
| `Connect` | connecting a client, with or without the run thread | a socket is the number of the call that made it; time is a wait that may time out |
| `ConnectProofs` | theorems about `Connect` | – |
| `SocketRead` | `MQTTPacket_Factory`, `decode`, `getch`, `getdata`, the queues | bytes are numbers; the base of the remaining length is a constant (128 in the protocol) |
| `SocketReadProofs` | theorems about `SocketRead` | – |
| `Lifecycle` | create, connect, use, destroy and terminate of clients, callbacks that call the library, the run thread | a call is its mutexes and the memory it needs; memory is `none`, `live` or `freed` |
| `LifecycleProofs` | theorems about `Lifecycle` | – |
| `SequenceLemmas` | lemmas about sequences, flattening and induction, used by the proofs | – |
| `LinkedList` | `LinkedList.c`, pointer by pointer | cells from a finite heap; freed cells lose their contents |
| `ListADT` | a list as a sequence with a cursor | abstract specification |
| `LinkedListProofs` | theorems about `LinkedList` | – |
| `WebSocket` | frames in and out, and the Factory on top of them | bytes are numbers; the limits of the length forms are constants |
| `Log` | the ring, the trace file with its backup, initialize and terminate beside logging threads | a message is a number and a level |
| `LogProofs` | theorems about `Log` | – |
| `MQTTProperties` | adding, copying, sizes and bytes of MQTT 5 properties | – |
| `Utf8`, `Base64` | the pure functions, against reference definitions | – |
| `MCMQTTSession`, `MCSocketWrite`, `MCSocketRead` | constants for TLC | – |
| `MCUtils` | one run over the parts under `utils/` and the properties | see below |

### MQTTSession

Everything done with `mqttclient_mutex` held is one action; `run.pc` records
where the run thread is when it does not hold it. `Publish`, `PublishNoId` and
`PublishQoS0` are the outcomes of `MQTTClient_publish5`, `Subscribe` those of
`MQTTClient_subscribe`, which drops the result of its write. A message is stored
before its packet is written and stays stored whatever the write returns; the
history variable `unsent` remembers those whose write failed.
`HandlePublish0/1/2`, `HandlePuback`, `IgnorePubrec` and `IgnoreSuback` are the rest of a cycle
after a packet has been read; `CallMessageArrived` and `MessageArrivedReturns`
deliver one message. `assignMsgId` is given in closed form: the first free
identifier in the order of the search, which excludes the one it starts from.
The broker answers PUBLISH and SUBSCRIBE, remembers what it has not been acknowledged, and
may send a QoS 2 message again; the connection may be lost at any time.

`AckAccounting` and `InboundAckAccounting` count, for each identifier, the
places where its acknowledgement can be. They say that no acknowledgement is
lost or doubled while the connection is up, over partial writes, refused writes
and deferred acknowledgements.

### SocketWrite and PacketStream

The actions follow `Socket_putdatas` and `Socket_getReadySocket` with
`Socket_continueWrites` (`Select` to `ScanDone`) between their accesses to
shared state. A list operation of one thread is cut where the other thread's can
harm it: the look-up of `Socket_noPendingWrites` is `PutCheck` (the element under
the cursor), `PutWalk` (element after element) and `PutFound` (the cursor is
stored); an append is the read of the last element (`PutBuffer`, `PutAppend`) and
the links behind it (`PutBuffered`, `PutAppended`); a removal is `UnlinkFind`
(the cursor is put on the element), `UnlinkTake` (whatever the cursor is on by
then is taken out and freed) and `UnlinkRestore` (the cursor is put back). The
scan continues from the cursor after a removal. The kernel takes at least one
byte on a writable socket.

The two threads do harm each other's operations: the cursor is moved under
`ListUnlink`, or an element is freed that the look-up or the append is on. What
the C code does after that is not defined any more. The history variable `torn`
remembers it, the model goes on with one of the outcomes, and what is checked and
proved holds until then. That it does not hold after that is the run
`write_torn`. `ImplementsPacketStream` maps `finished[s]` to the number of
accepted packets whose last byte is on the wire.

### Connect

`app` is the thread in `MQTTClient_connect`, `cyc[t]` a thread inside
`MQTTClient_cycle`: a run thread or, when none has announced itself, the
caller. `TcpConnect` has one alternative for each way `MQTTProtocol_connect`
can end. A run thread may not be up when `connect` wakes from its 100 ms sleep;
the caller then uses its own loop, and the next connect starts another thread.
When the time of that loop is up, `rc` is 0 as if TCP were connected: `TcpDone`
writes CONNECT all the same, and the call fails in the wait that follows, which
finds no time left (`NoTimeLeft`). `ConnectOnceAfterTcp` names this exception.

### Lifecycle

Each client has a thread that owns it; callbacks run in the run thread, or in a
connect that loops by itself, and may call the library. A section under
`mqttclient_mutex` is one action, create, which takes no mutex, is four. An
application may do what nothing in the library guards against: create a client
beside other calls, destroy the last client while the run thread lives, destroy
a client with an interrupted write or inside its own `messageArrived`, or call the
library in `deliveryComplete`. The history variable `risky` remembers those, `used` what was used
without being there, and the model ends at such a use. The properties say that
nothing else leads to trouble, and name for each trouble the cause it needs.

### SocketRead

A call of the Factory is a sequence of steps during which no other call runs
but bytes arrive. Every call starts at the first byte of the packet; bytes read
earlier come from the socket's queue. `def_queue` is passed from socket to
socket as in `SocketBuffer.c`, with whatever is in it. A buffer that grows with
data in it loses the data, as in `SocketBuffer_getQueuedData`.

### LinkedList and ListADT

`ImplementsADT` says that every step is a step of the abstract list, and that it
is the one its operation stands for, with the same item or search. `Forward` and
`Backward` follow the pointers as an iteration does, for one step more than
there are cells, so that a cycle shows as a sequence that is too long.

### WebSocket

Reading is modelled from `MQTTPacket_Factory` down to `recv`: the Factory asks
for a header byte, a length byte and a body, `getch` and `getdata` serve it from
the frame on the queue and call `receiveFrame` when there is not enough, and
`recv` may stop after any byte. An interrupted call gives up, puts the position
back and starts again. The peer's frames may be empty; a pong may be refused,
because a write is pending on the socket, and nobody is told. `disturbed`
remembers the four events that cost data (section 5): a control frame inside a
packet, an interruption between fragments, a masked frame, an empty message
where the first bytes of a packet are expected. The invariants hold until the
first of them. `putdatas` frames and masks a packet and restores the caller's
buffers.

### Log, MQTTProperties, Utf8, Base64

`Log` keeps the steps of `Log_trace` apart because `Log_initialize` and
`Log_terminate` may fall between them; a behaviour in which they do is marked
`undefined` and not continued. In `MQTTProperties` lists grow by adding, and
what is written is read back by an independent reader. `Utf8` and `Base64` put
any text together byte by byte and compare the functions with their reference
definitions in every state. Their array indices and chars have the sign the
build gives them.

### MCUtils

These parts share no state, so one run serves them all: `subject` names the part
a behaviour exercises, and only that part takes steps. `LinkedList` and `Log`
are extended, so that their properties are checked as they are proved; a
property of an instance is prefixed with its subject. The state spaces add up
and are not multiplied.

## 3. Runs

| Run | Checks | Distinct states |
|---|---|---|
| `session_safe` | 3 identifiers, 3 publications, QoS 0 and 1 publishes, subscribing; 2 inbound messages of any QoS, refused and accepted callbacks | 2 990 000 |
| `session_live` | delivery and acknowledgement under fairness, with QoS 1 and 2 publishes; only its PUBACK removes a message | 566 000 |
| `session_refused` | **violated**: an identifier is refused although one is free | – |
| `write_apart` | 2 sockets in different words of the `fd_set`, 3 packets with 1–3 buffers, broken connections, fairness | 431 000 |
| `write_shared` | **violated**: 2 sockets in one word, a pending write is not watched | – |
| `write_torn` | **violated**: list operations of the two threads harm each other, and a packet is written into the middle of another | – |
| `connect_safe` | connects with timeouts, a late run thread; under fairness no wakeup is lost | 139 000 |
| `connect_late` | **violated**: success without the connection's own CONNACK | – |
| `read_safe` | 2 sockets, 3 packets, every split, closing at any byte, too long a length field, fairness | 68 000 |
| `read_close` | **violated**: a packet gets another connection's header byte | – |
| `lifecycle` | 2 clients, their threads, the run thread, callbacks that call; fairness | 65 000 |
| `utils` | lists, WebSocket frames, log, properties, UTF-8, Base64 | 396 000 |

**Bounds.** With three identifiers the search wraps, steps over those in flight
and fails; three publications keep them all in flight, and one more publish is
refused. One SUBSCRIBE or its SUBACK is under way at a time, which is enough to
have a write of another kind pending at every point. Two inbound messages are
enough for one being delivered and one behind it, and for one that replaces the
other (both of QoS 2 with the one identifier of the broker) while a publication
is left for a message of the application. Publishes of QoS 2, which stay in flight
for ever, are in `session_live`; the theorems have every QoS and any number of
messages on either side. Two sockets and three packets give a write on the same
and on the other socket while one is pending; the packet with an empty middle
buffer ends a partial write exactly on a buffer border. `write_torn` needs no
broken connection. In `SocketRead` base 2
makes a body of two bytes need two length bytes. Three list cells have a first,
a middle and a last element. Two clients are enough for one that goes and one
that stays, and for a last one. Two WebSocket packets, one without a body, are
cut into frames in every way, with empty frames and two PINGs, one of them empty,
in between; once data has been lost the peer sends nothing more; with `Len16 = 4` all
forms of a header occur. A ring of two entries wraps twice with four messages,
in two lives of the library. Properties cover each type and both sides of each
border of the variable byte integer; the bytes of `Utf8` are those next to the
borders of `valid_ranges`, up to four, the longest character being four; seven
octets are two groups of Base64 and a remainder of one.

**Symmetry** is used for publications in the safety run of the session
only. **Deadlock** is checked in `session_safe`; the other systems stop when their
bounded inputs are used up, and `SocketWrite` also after `torn`, where
`continueWrite` may meet a socket without a stored write, a NULL dereference. In `lifecycle`
what a deadlock of mutexes would be is the liveness property `CallsReturn`.

**Fairness.** The run thread loops forever and its waits are bounded
(`select` has a timeout), so its steps are weakly fair; the application's
callback is assumed to return. In `SocketWrite` peers eventually read. In
`SocketRead` and `Connect` a ready socket is served in its turn (strong
fairness of the choice): `cur_clientsds` walks over all ready sockets before
`select` is called again. In `Lifecycle` the steps of a thread are strongly
fair: a thread that waits for a mutex gets it, because the run thread sleeps in
`select`, or 100 ms, without it in every turn; waits end with their timeout and
callbacks return. The liveness properties excuse lost connections.

**Mutants.** For each property `PROJECT.json` names a variant of a modelled
definition, kept next to it and marked `Mutant`, under which TLC finds the
property violated.

## 4. Proofs

The theorems hold for every value of the constants that satisfies the
assumptions stated in the modules. Each inductive invariant is a conjunction of
named parts, each lemma on an action shows that the parts are preserved, and
each was checked by TLC, on the bounds of the run of its component, before it
was proved.

**Session** (`MAX_MSG_ID >= 2`, QoS values in 0..2, the broker's identifiers in
1..`MAX_MSG_ID`).

* `TypeCorrect`, `UniqueIds` (`InFlightIdsUnique`), `SearchEnds`
  (`SearchTerminates`) and `NoLeakNoDoubleFree` (`PublicationsExact`) are the
  conjuncts of `IInv`. Unique identifiers need that the assigned identifier is
  outside those in flight, a lemma on `assignMsgId`; `SearchTerminates` needs
  that an assigned identifier is not 0; exact reference counts need unique
  publications, so that dropping one message's reference leaves the others'
  alone, and types, so that the counts are 0 or 1.
* `OneAckEach` (`AckAccounting`) and `OnePubackEach` (`InboundAckAccounting`)
  count over sequences, which says nothing about a step by itself. `AckInv`
  states the same as sets of identifiers that are pairwise disjoint and cover
  the messages waiting, plus that no identifier occurs twice in one place; the
  counts follow from it at the end, with lemmas on cardinality. `AckInv` also
  says whose buffers a pending write has, from which `NoUseAfterFreeInWrite`
  (`PendingWriteBuffersLive`) follows.
* `InOrderDelivery` (`DeliveredInOrder`) needs to know where the messages are
  that have not been delivered: `OrderInv` says that the unread packets hold
  the rest of the broker's messages, all of them and in order, or, after the
  connection was lost, none.
* `OnlyPubackRemoves` proves the action property `OnlyItsPubackRemoves`.

**Socket writing** (the first buffer of a packet, which holds its fixed header,
is not empty; `NULL` is not a socket).

* Everything but the types is proved under `~torn`, which no lock establishes:
  the theorems say what the order of the accesses alone guarantees, and that the
  cases `torn` records (the cursor moved between `UnlinkFind` and `UnlinkTake`, a
  freed element that `putdatas` is on) are the only ways in which the lists are
  harmed.
* `PendingListInvariant`: `WInv` ties the list, its cursor, the stored writes
  and the positions of the two threads together. It says for each step of
  `putdatas` and of the scan what is already on the list and what not yet, so
  that the other thread's removals and appends leave the pointers alone: where a
  removal has saved the cursor, which element it is about to take, which element
  the look-up or the append is on. `NoDanglingPointer` (`PointersLive`) follows;
  `SocketWriteTypes` has an invariant of its own, because it holds after `torn`
  too.
* `NoWriteForgotten` (`PendingWritesWatched`) has the hypothesis `WordsApart`:
  no two sockets have their bits in one word of an `fd_set`. Without it the
  property is false (finding 2 below), as it is after `torn` (finding 3).
  `write_apart` checks an instance that satisfies it.
* `BytesInOrder` (`WireIsAccepted`): `WireInv` says that the wire and what is
  left of the stored write, or of the one about to be stored, are together the
  bytes of the accepted packets. The proof needs what `FlattenSeq`, `Total` and
  the recursion over the buffers in a partial write return, for any buffers.
* `RefinesPacketStream` (`ImplementsPacketStream`): the detailed specification
  implements `PacketStream`. The mapping counts the packets whose last byte is
  on the wire. What it needs beyond `WireInv` is that all accepted packets but
  the last are completely on the wire (`AllButLast`); then the last packet's
  last byte appears with the end of its last write and not before, so that a
  write accepts, finishes or continues a packet and never does more than one
  of these for two packets.

**Connecting** (at least one call; `"app"` is not the name of a run thread).

* `ConnectInvariant`: `CInv` has three parts. `NetInv` says what each
  connection has been through, `CycInv` what the threads in `MQTTClient_cycle`
  have found, the core being that one thread holds a CONNACK (`OneHolder`) and
  one finds out that TCP is connected (`OneFinder`). `GoodInv` holds until a
  call fails: the semaphores are up only for the call in progress and its
  socket, and nobody is on the way to post them again. The restriction is
  needed: after a timeout the late answer does post them (finding 4).
* `SuccessHasConnack` (`SuccessBeforeFailure`), `ConnectSentOnce`
  (`ConnectOnceAfterTcp`) and `ConnectTypes` follow. For the second, `SentIsMade`
  says that until a call fails CONNECT is on a connection that has been made, or
  on that of a call whose own loop has run out of time. Such a call is bound to
  fail, and `GoodInv` no longer holds for it (`Hopeful`).

**Socket reading** (the base is at least 2, the peers send bytes, `NULL` is not
a socket; of the bytes after the packets nothing is assumed but where stated).

* `ReadInvariant`: `RInv` bounds what is received by what has arrived, keeps
  `index <= headerlen <= sizeof(fixed_header)` for every queue, and says that
  until a read fails the default queue is either empty or in use for the socket
  of the active call, which then has no queue of its own. `SocketReadTypes`
  (`TypeOK`) needs the bounds of the header, because a replayed byte advances
  `index` without the test that `queueChar` makes. `DefaultQueueNobodys`
  (`DefaultQueueFree`) is the case without a call. The restriction to reads that
  did not fail is needed: a failing read leaves the default queue in use
  (finding 5).
* `IntactInvariant` is about the bytes, until a read fails. Those received of a
  packet that is not finished are on the socket's queue, or on the default queue
  for the active call; what the call has decoded of the length is what the
  digits read so far are worth, and these are the first digits of the packet's
  length. The lemma `EncodeStep` gives the recursive equation of `encode`, from
  which it follows that `decode` stops at the last digit and has the length
  then. `PacketsArriveIntact` (`PacketsIntact`) and `NoByteLost` (`NothingLost`)
  follow.
* These three have the hypothesis `TrailingIsNoPacket`: what a stream holds after
  its last packet is not itself read as a packet, since its length field does
  not end. A stream that stops inside a packet is one whose peer closes in the
  middle of its last packet; what the hypothesis leaves out are lengths with
  more digits than they need, which MQTT forbids and `decode` accepts.
  `MCSocketRead` assumes it of its instances, one of which ends in a length that
  is too long.

**Life cycle** (names of clients, of the run thread and of nobody differ).

* `LifecycleInvariant`: `LInv` says where each call can be, which of them hold
  `connect_mutex`, what memory a call relies on, and that a create which is not
  alone is on record. `NoUseAfterFree` (`NothingFreedIsUsed`), `ListsExact`
  (`ListsAreClients`) and `LifecycleTypes` follow.

**Linked lists** (finitely many cells; `NULL` is neither a cell nor an item).

* `ListInvariant`: `LInv` says that there is a sequence of distinct cells, which
  are the allocated ones, such that each points to its neighbours in it
  (`Chain`), that `first` and `last` are its ends, `count` its length, that the
  cursor is on one of them, and that no two hold the same item. For each
  operation a lemma gives the sequence after it: with an element more, or
  without one. The operations that remove from the ends have assignments of
  their own for `first` and `last`; the proof shows that they agree with those
  of `ListUnlink`.
* `ListStaysLinked` (`WellLinked`) needs that an iteration visits this sequence
  (`WalkVisits`), by induction over its steps; that it ends within the number of
  cells follows from the cells being distinct. `ListTypes` follows, too.
* `ListRefinesADT` (`ImplementsADT`): each operation is the one of `ListADT`, on
  the items of the sequence and the item under the cursor. That no two elements
  hold the same item makes the element found by pointer the one found by item.

**Log** (the ring and a file have room for something, as the settings in `Log.c`
do).

* `LogInvariant`: `LogInv` holds until `Log` runs beside `Log_initialize` or
  `Log_terminate`. `RingInv` says that the indices follow from the number of
  messages put into the ring, below the first wrap and after it; `SlotsInv` that
  the entry taken j entries ago holds the message that was j-th from last, but
  for an entry taken and not filled; `LoggerInv` that one thread is in `Log`,
  and that the entry it will write is the last one. `FileInv` bounds the length
  of the file by `lines_written`, which may count an earlier file's lines.
* `RingHoldsLast` (`LogHoldsLast`) reads the ring from its oldest entry on.

**Induction.** The library's induction theorems take an operator, which the
provers do not instantiate. `SequenceLemmas` states induction for a set instead
(`SetInduction`: a set with 0 and the successor of each of its naturals has
all naturals), which is enough for `FlattenSeq` and for the recursive functions
of `SocketWrite` and `SocketRead`.

**Only model-checked.** The liveness properties and `ENABLED` are out of the
prover's reach. Of the parts in the `utils` run the lists and the log are proved about:
`WebSocket` needs bitwise operators, which the prover does not have; what `Utf8`,
`Base64` and `MQTTProperties` compute is compared with references that fold over
their inputs, where only induction over the data would say more than TLC does.

## 5. What the runs found

1. `assignMsgId` never tries the identifier it starts from, so it may refuse
   with one identifier free (`session_refused`, `MQTTProtocol.c:42`).
2. `FD_SET` in `putdatas` and `FD_CLR` in `continueWrites` race on one word of
   `pending_wset`; a pending write may never be continued (`write_shared`,
   `Socket.c:655` and `1076`).
3. The operations of `putdatas` and `continueWrites` on `write_pending` have no
   lock in common. An element appended behind one that is being freed is lost, or
   `ListUnlink` takes out the element to which a look-up on another socket has
   moved the cursor; the socket's next packet then goes into the middle of its
   unfinished one (`write_torn`, `Socket.c:570`, `649` and `1078`,
   `LinkedList.c:203-206`). Which of the ways is taken depends on what the freed
   memory holds; the run shows the first.
4. The semaphores and `m->pack` are not reset between connects; after a timeout
   the next connect may succeed before its CONNACK (`connect_late`,
   `MQTTClient.c:524`), and even with socket -1, if `Socket_new` failed with an
   errno and `connect_state` still has the value of the earlier attempt.
5. A connection closed in the middle of a packet leaves its header bytes in the
   default queue, which goes to the next socket (`read_close`,
   `SocketBuffer.c:242`).

Also met while modelling, and part of what the models allow: when the caller's own
loop runs out of time, CONNECT is written to a connection that may not be made
(`MQTTClient.c:281`, `558`); a partial write
makes `publish5` return `TCPSOCKET_INTERRUPTED`, which `sample/test2.c:336`
asserts against; a second publish while a write is pending fails but keeps its
message and identifier; `isReady`'s flow control is checked before the mutex is
taken, so that a PUBACK may have to be put on `outboundQueue`, which nothing
empties; a message `messageArrived` refuses is offered again only when another
packet arrives; the branch of `MQTTClient_run` marked "should not happen" is
taken in every idle cycle; nothing is written at QoS 0 under 3.1.1, and QoS 2
exchanges are never completed; `MQTTClient_subscribe` returns success whether or
not its packet was written; `List.size` is never reduced by a removal.

On the life cycle: a timeout of the run thread returns socket 0, which is also
`net.socket` of a client that was never connected, so the cycle then reads from
descriptor 0; a destroyed client's socket is neither closed nor taken off
`clientsds`; after the last destroy the run thread goes on with freed lists and
`handles == NULL`; the mutexes alone do not protect a client destroyed in its
own `messageArrived`; a call of the library in `deliveryComplete` never returns.

On WebSocket, which this client never enables: the mask of a masked frame is
read into an inner variable (`WebSocket.c:689`) and the data unmasked with
zeros; a control frame that arrives while a data frame is on the queue, or
between two fragments, frees or answers with the data gathered so far; a
continuation after a PING in the same call inherits its opcode; an interruption
between fragments loses the ones before it; an error met for a body looks like
an interruption; a second packet in the same frame waits until the socket is
readable again; an empty data frame makes `getch` return success without a
character; a PING that comes while a write is pending stays unanswered; the pong
and close frames are freed even if their write was interrupted; all state is
static and shared by all connections.

On the log: `Log_initialize` always returns -1; after a failed allocation of the
file's name `trace_queue` points to freed memory; `Log_terminate` and
`Log_initialize` use the queue and `msg_buf` without `log_mutex`, although a
comment in `Log` says that only one thread may use the buffer; the environment's
level `PROTOCOL` sets only the output level, so protocol messages stay filtered;
`lines_written` survives `Log_terminate`, so the first file of the next life is
renamed early.

On the encoders: `writeInt4` takes an `int` and writes values from 2^31 on
wrongly; a variable byte integer of 2^28 or more is counted as four bytes and
written as five; the result of `MQTTProperties_write` counts one byte for the
length whatever its size; after a failed `realloc` the next addition writes
behind the array; `Base64_encode` reports success for a buffer that holds whole
groups but not all of the data; `Base64_decodeLength` underflows for input
shorter than its padding.

## 6. Not modelled, and what is left

Left out: memory exhaustion other than where named, the poll variant of
`Socket.c`, the texts of `Messages.c`, SHA-1 and the WebSocket handshake
(`WebSocket_connect`, `WebSocket_upgrade`: text over the network, and a digest
whose only reference is itself), resizing the log's ring and the trace callback,
which the library never uses, `Log_stackTrace`, the samples.

What would come next:

1. `SocketSelect`: `addSocket`, `Socket_close` and the walk over `clientsds`
   with `cur_clientsds` under different mutexes; `FD_SETSIZE`; several sockets
   failing in one scan.
2. A composition of two sessions over one socket layer; today `MQTTSession`,
   `Connect` and `Lifecycle` are three views of the same run thread.
3. More pure functions against references: `readUTF`, `addressPort`,
   `Thread_wait_sem`'s interval count.

A theorem that could follow: that what `Socket_putdatas` accepts on one side is what
`MQTTPacket_Factory` returns on the other, from the refinement of `PacketStream`
and `PacketsArriveIntact`, once the two modules are composed.
