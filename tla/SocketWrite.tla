---------------------------- MODULE SocketWrite ----------------------------
(***************************************************************************)
(* Partial writes: Socket_putdatas, called by the thread that holds        *)
(* mqttclient_mutex, against Socket_continueWrites, called by the run      *)
(* thread with socket_mutex only.  No lock is common to the two, so they   *)
(* interleave between the accesses to what they share:                     *)
(*   write_pending   the list of sockets with an unfinished write          *)
(*   writes          SocketBuffer.c's list of what is left to write        *)
(*   pending_wset    the fd_set of sockets select watches for writing      *)
(* An update of an fd_set is a load and a store of the word that holds the *)
(* socket's bit: sockets whose bits are in one word can overwrite each     *)
(* other's update.  A list operation of one thread is cut where the other  *)
(* thread's can harm it: ListFindItem of putdatas looks at the cursor,     *)
(* walks from element to element and stores the cursor; ListAppend reads   *)
(* the last element and links the new one behind it; ListUnlink finds the  *)
(* element by setting the cursor, takes out and frees whatever the cursor  *)
(* is on, and puts the cursor back.  The pointers one such cut stores are  *)
(* stored in one step.                                                     *)
(*                                                                         *)
(* Elements are freed by the run thread only.  torn records that such an   *)
(* overlap was harmful: the wrong element was taken, or an element freed   *)
(* that putdatas was on.  The behaviour goes on after that as far as the   *)
(* code's memory is still defined; of what an element holds after it was   *)
(* freed, and of a link written to it, the model shows one outcome each    *)
(* (no next element; the new element in or not), and nothing is claimed.   *)
(*                                                                         *)
(* The kernel takes at least one byte of a write on a writable socket and  *)
(* none (EAGAIN) on another; a write it does not take completely leaves    *)
(* the socket unwritable until the peer has read.                          *)
(***************************************************************************)
EXTENDS Integers, Sequences, FiniteSets, SequencesExt

CONSTANTS
    Sockets,       \* the connected sockets
    Packets,       \* packets to be written, each at most once
    Lens,          \* Lens[p]: the lengths of the buffers packet p consists of
    Word,          \* Word[s]: the word of an fd_set that holds the bit of s
    NULL,          \* no list element, no socket
    MayBreak       \* whether connections may break

\* The first buffer holds the fixed header.
ASSUME LensAssumption ==
    \A p \in Packets : Lens[p] \in Seq(Nat) /\ Lens[p] # <<>> /\ Lens[p][1] > 0
ASSUME NullAssumption == NULL \notin Sockets \cup Packets
ASSUME BreakAssumption == MayBreak \in BOOLEAN

VARIABLES
    write_pending,   \* mod_s.write_pending
    current,         \* the list's cursor, write_pending->current
    writes,          \* SocketBuffer.c: [socket, iovecs, total, bytes]
    pending_wset,    \* mod_s.pending_wset
    put,             \* Socket_putdatas: [pc, socket, iovecs, at, bytes, word]
    cont,            \* Socket_continueWrites: [pc, cur, saved, pwset, rc, word]
    writable,        \* sockets whose send buffer has room
    broken,          \* sockets whose connection is broken
    wire,            \* wire[s]: the bytes given to the kernel, in order
    accepted,        \* history: the packets putdatas accepted, in order
    torn             \* history: two list operations have harmed each other

vars == <<write_pending, current, writes, pending_wset, put, cont, writable,
          broken, wire, accepted, torn>>

\* Byte i of packet p is <<p, i>>; the buffers of p cut its bytes up.
Total(lens) ==
    LET sum[i \in 0..Len(lens)] == IF i = 0 THEN 0 ELSE sum[i - 1] + lens[i]
    IN  sum[Len(lens)]
Iovecs(p) ==
    [b \in 1..Len(Lens[p]) |->
        [i \in 1..Lens[p][b] |-> <<p, Total(SubSeq(Lens[p], 1, b - 1)) + i>>]]
Bytes(p) == [i \in 1..Total(Lens[p]) |-> <<p, i>>]

BufLen(iovecs) == Len(FlattenSeq(iovecs))

IdlePut == [pc |-> "idle", socket |-> NULL, iovecs |-> <<>>, at |-> NULL,
            bytes |-> 0, word |-> {}]
IdleCont == [pc |-> "idle", cur |-> NULL, saved |-> NULL, pwset |-> {}, rc |-> 0,
             word |-> {}]

Init ==
    /\ write_pending = <<>> /\ current = NULL
    /\ writes = <<>>
    /\ pending_wset = {}
    /\ put = IdlePut /\ cont = IdleCont
    /\ writable = Sockets /\ broken = {}
    /\ wire = [s \in Sockets |-> <<>>]
    /\ accepted = [s \in Sockets |-> <<>>]
    /\ torn = FALSE

-----------------------------------------------------------------------------
(* Lists, fd_sets and the kernel                                           *)

Pending(s) == \E i \in DOMAIN write_pending : write_pending[i] = s

\* ListFindItem of the run thread, which no other thread's can harm: the
\* cursor is left on the element found.
findCursor(s) == current' = IF Pending(s) THEN s ELSE current

\* The first and the last element of a list.
firstOf(list) == IF list = <<>> THEN NULL ELSE Head(list)
lastOf(list) == IF list = <<>> THEN NULL ELSE Last(list)

\* ListNextElement
nextElement(s) ==
    IF Pending(s)
    THEN LET i == CHOOSE j \in DOMAIN write_pending : write_pending[j] = s
         IN  IF i < Len(write_pending) THEN write_pending[i + 1] ELSE NULL
    ELSE NULL

\* The bits of the word that holds the bit of s.
bitsOf(set, s) == {t \in set : Word[t] = Word[s]}

\* A word goes back to memory.
storeWord(s, word) == pending_wset' = (pending_wset \ bitsOf(Sockets, s)) \cup word

\* writev: how many of n bytes are taken; -1 is SOCKET_ERROR, EAGAIN is 0.
writevResults(s, n) ==
    IF s \in broken THEN {-1} ELSE IF s \in writable THEN 1..n ELSE {0}

\* writev took k bytes of the buffers iov.
writev(s, iov, k) ==
    /\ wire' = [wire EXCEPT ![s] = @ \o SubSeq(FlattenSeq(iov), 1, k)]
    /\ writable' = IF k < BufLen(iov) THEN writable \ {s} ELSE writable

\* SocketBuffer_getWrite: the first entry of the socket.
writeOf(s) == SelectInSeq(writes, LAMBDA pw : pw.socket = s)

-----------------------------------------------------------------------------
(* Socket_putdatas                                                         *)

Unused == {p \in Packets :
              \A s \in Sockets : \A i \in DOMAIN accepted[s] : accepted[s][i] # p}

\* Mutant: a pending write is not checked for.
PutCheck_None(s, p) ==
    /\ put.pc = "idle"
    /\ put' = [put EXCEPT !.pc = "write", !.socket = s, !.iovecs = Iovecs(p)]
    /\ UNCHANGED <<write_pending, current, writes, pending_wset, cont, writable,
                   broken, wire, accepted, torn>>

\* Socket_noPendingWrites: ListFindItem first looks at what the cursor is on,
\* an element ListUnlink may just have freed.  With a write pending putdatas
\* is over (an error).
PutCheck(s, p) ==
    /\ put.pc = "idle"
    /\ torn' = (torn \/ (current # NULL /\ ~Pending(current)))
    /\ put' = IF current = s THEN put
              ELSE [put EXCEPT !.pc = "find", !.socket = s, !.iovecs = Iovecs(p),
                               !.at = firstOf(write_pending)]
    /\ UNCHANGED <<write_pending, current, writes, pending_wset, cont, writable,
                   broken, wire, accepted>>

\* It compares one element after the other.
PutWalk ==
    /\ put.pc = "find"
    /\ \/ put.at = NULL /\ put' = [put EXCEPT !.pc = "write"]
       \/ put.at = put.socket /\ put' = [put EXCEPT !.pc = "found"]
       \/ /\ put.at \notin {NULL, put.socket}
          /\ put' = [put EXCEPT !.at = nextElement(put.at)]
    /\ UNCHANGED <<write_pending, current, writes, pending_wset, cont, writable,
                   broken, wire, accepted, torn>>

\* The list's cursor is moved to the element found, and putdatas is over.
PutFound ==
    /\ put.pc = "found"
    /\ current' = put.at
    /\ put' = IdlePut
    /\ UNCHANGED <<write_pending, writes, pending_wset, cont, writable, broken,
                   wire, accepted, torn>>

\* The packet the iovecs of a putdatas belong to.
packetOf(iovecs) == FlattenSeq(iovecs)[1][1]

PutWrite ==
    /\ put.pc = "write"
    /\ LET s == put.socket
           total == BufLen(put.iovecs)
       IN  \E k \in writevResults(s, total) :
            \/ /\ k = -1
               /\ put' = IdlePut
               /\ UNCHANGED <<wire, writable, accepted>>
            \/ /\ k >= 0
               /\ writev(s, put.iovecs, k)
               /\ accepted' = [accepted EXCEPT ![s] =
                                    Append(@, packetOf(put.iovecs))]
               /\ put' = IF k = total THEN IdlePut
                         ELSE [put EXCEPT !.pc = "buffer", !.bytes = k]
    /\ UNCHANGED <<write_pending, current, writes, pending_wset, cont, broken,
                   torn>>

\* SocketBuffer_pendingWrite: ListAppend reads the last of the stored writes
PutBuffer ==
    /\ put.pc = "buffer"
    /\ put' = [put EXCEPT !.pc = "buffering",
                          !.at = IF writes = <<>> THEN NULL ELSE Last(writes).socket]
    /\ UNCHANGED <<write_pending, current, writes, pending_wset, cont, writable,
                   broken, wire, accepted, torn>>

\* ... and links the new one behind it; behind a freed one it may be lost.
PutBuffered ==
    /\ put.pc = "buffering"
    /\ \/ writes' = Append(writes, [socket |-> put.socket, iovecs |-> put.iovecs,
                                    total |-> BufLen(put.iovecs),
                                    bytes |-> put.bytes])
       \/ put.at # NULL /\ writeOf(put.at) = 0 /\ UNCHANGED writes
    /\ put' = [put EXCEPT !.pc = "append", !.at = NULL]
    /\ UNCHANGED <<write_pending, current, pending_wset, cont, writable, broken,
                   wire, accepted, torn>>

\* ListAppend(write_pending) likewise.
PutAppend ==
    /\ put.pc = "append"
    /\ put' = [put EXCEPT !.pc = "appending", !.at = lastOf(write_pending)]
    /\ UNCHANGED <<write_pending, current, writes, pending_wset, cont, writable,
                   broken, wire, accepted, torn>>

\* Mutant: the memory for the socket is not set.
PutAppended_Unset ==
    /\ put.pc = "appending"
    /\ write_pending' = Append(write_pending, NULL)
    /\ put' = [put EXCEPT !.pc = "load", !.at = NULL]
    /\ UNCHANGED <<current, writes, pending_wset, cont, writable, broken, wire,
                   accepted, torn>>

PutAppended ==
    /\ put.pc = "appending"
    /\ \/ write_pending' = Append(write_pending, put.socket)
       \/ put.at # NULL /\ ~Pending(put.at) /\ UNCHANGED write_pending
    /\ put' = [put EXCEPT !.pc = "load", !.at = NULL]
    /\ UNCHANGED <<current, writes, pending_wset, cont, writable, broken, wire,
                   accepted, torn>>

\* FD_SET: the word is read ...
PutLoad ==
    /\ put.pc = "load"
    /\ put' = [put EXCEPT !.pc = "store",
                          !.word = bitsOf(pending_wset, put.socket)]
    /\ UNCHANGED <<write_pending, current, writes, pending_wset, cont, writable,
                   broken, wire, accepted, torn>>

\* Mutant: the bit is not set.
PutStore_Unset ==
    /\ put.pc = "store"
    /\ storeWord(put.socket, put.word)
    /\ put' = IdlePut
    /\ UNCHANGED <<write_pending, current, writes, cont, writable, broken, wire,
                   accepted, torn>>

\* ... and written with the bit set.
PutStore ==
    /\ put.pc = "store"
    /\ storeWord(put.socket, put.word \cup {put.socket})
    /\ put' = IdlePut
    /\ UNCHANGED <<write_pending, current, writes, cont, writable, broken, wire,
                   accepted, torn>>

-----------------------------------------------------------------------------
(* Socket_getReadySocket and Socket_continueWrites                         *)

\* pending_wset is copied and select returns the writable ones; a broken
\* connection counts as writable.
Select ==
    /\ cont.pc = "idle"
    /\ cont' = [cont EXCEPT !.pc = "select", !.pwset = pending_wset]
    /\ UNCHANGED <<write_pending, current, writes, pending_wset, put, writable,
                   broken, wire, accepted, torn>>

SelectReturns ==
    /\ cont.pc = "select"
    /\ cont' = [cont EXCEPT !.pc = "scan",
                            !.pwset = @ \cap (writable \cup broken),
                            !.cur = firstOf(write_pending)]
    /\ UNCHANGED <<write_pending, current, writes, pending_wset, put, writable,
                   broken, wire, accepted, torn>>

\* A socket select did not report is passed over.
ScanNext ==
    /\ cont.pc = "scan" /\ cont.cur # NULL
    /\ cont.cur \notin cont.pwset
    /\ cont' = [cont EXCEPT !.cur = nextElement(cont.cur)]
    /\ UNCHANGED <<write_pending, current, writes, pending_wset, put, writable,
                   broken, wire, accepted, torn>>

\* Mutant: bytes already written are not added up.
remaining_Restart(pw) == pw.iovecs

\* Socket_continueWrite: what is left of each buffer, curbuflen being the
\* length of the buffers before it.  Buffers with nothing left are dropped.
remaining(pw) ==
    LET curbuflen(i) == BufLen(SubSeq(pw.iovecs, 1, i - 1))
        left(i) ==
            IF pw.bytes <= curbuflen(i) THEN <<pw.iovecs[i]>>
            ELSE IF pw.bytes < curbuflen(i) + Len(pw.iovecs[i])
                 THEN <<SubSeq(pw.iovecs[i], pw.bytes - curbuflen(i) + 1,
                               Len(pw.iovecs[i]))>>
                 ELSE <<>>
    IN  FlattenSeq([i \in 1..Len(pw.iovecs) |-> left(i)])

\* rc is 1 when the packet is complete, -1 on an error and 0 otherwise; then
\* the scan goes on with the next element.
ContinueWrite ==
    /\ cont.pc = "scan" /\ cont.cur \in cont.pwset
    /\ LET s == cont.cur
           i == writeOf(s)
           iov == remaining(writes[i])
       IN  /\ i # 0
           /\ \E k \in writevResults(s, BufLen(iov)) :
              \/ /\ k = -1
                 /\ cont' = [cont EXCEPT !.pc = "remove", !.rc = -1]
                 /\ UNCHANGED <<writes, wire, writable>>
              \/ /\ k >= 0
                 /\ writev(s, iov, k)
                 /\ writes' = [writes EXCEPT ![i].bytes = @ + k]
                 /\ cont' = IF writes[i].bytes + k = writes[i].total
                            THEN [cont EXCEPT !.pc = "remove", !.rc = 1]
                            ELSE [cont EXCEPT !.cur = nextElement(s)]
    /\ UNCHANGED <<write_pending, current, pending_wset, put, broken, accepted, torn>>

\* SocketBuffer_writeComplete takes the write out and frees it, perhaps
\* while putdatas links another behind it.
RemoveWrite ==
    /\ cont.pc = "remove"
    /\ writes' = RemoveAt(writes, writeOf(cont.cur))
    /\ torn' = (torn \/ (put.pc = "buffering" /\ put.at = cont.cur))
    /\ cont' = [cont EXCEPT !.pc = "load"]
    /\ UNCHANGED <<write_pending, current, pending_wset, put, writable, broken,
                   wire, accepted>>

\* FD_CLR: the word is read ...
ClearLoad ==
    /\ cont.pc = "load"
    /\ cont' = [cont EXCEPT !.pc = "store",
                            !.word = bitsOf(pending_wset, cont.cur)]
    /\ UNCHANGED <<write_pending, current, writes, pending_wset, put, writable,
                   broken, wire, accepted, torn>>

\* Mutant: all bits are cleared.
ClearStore_All ==
    /\ cont.pc = "store"
    /\ pending_wset' = {}
    /\ cont' = [cont EXCEPT !.pc = "unlink", !.word = {}]
    /\ UNCHANGED <<write_pending, current, writes, put, writable, broken, wire,
                   accepted, torn>>

\* ... and written with the bit clear.
ClearStore ==
    /\ cont.pc = "store"
    /\ storeWord(cont.cur, cont.word \ {cont.cur})
    /\ cont' = [cont EXCEPT !.pc = "unlink", !.word = {}]
    /\ UNCHANGED <<write_pending, current, writes, put, writable, broken, wire,
                   accepted, torn>>

\* ListRemove(write_pending), that is ListUnlink: it saves the cursor and has
\* ListFindItem put it on the element of the socket.
UnlinkFind ==
    /\ cont.pc = "unlink"
    /\ cont' = IF Pending(cont.cur)
               THEN [cont EXCEPT !.pc = "take", !.saved = current]
               ELSE [cont EXCEPT !.pc = "advance"]
    /\ findCursor(cont.cur)
    /\ UNCHANGED <<write_pending, writes, pending_wset, put, writable, broken,
                   wire, accepted, torn>>

\* Mutant: the cursor goes back to where it was, be it freed.
savedCursor_Stale(e) == cont.saved

\* The cursor goes back to where it was, or to the next element if that is
\* the one taken out.
savedCursor(e) == IF cont.saved = e THEN nextElement(e) ELSE cont.saved

\* The element of e is one putdatas is on: it compares it, is about to store
\* the cursor to it, or to link another behind it.
putdatasOn(e) == put.pc \in {"find", "found", "appending"} /\ put.at = e

\* It takes out and frees the element the cursor is on by now.
UnlinkTake ==
    /\ cont.pc = "take"
    /\ write_pending' = RemoveFirst(write_pending, current)
    /\ torn' = (torn \/ current # cont.cur \/ putdatasOn(current))
    /\ cont' = [cont EXCEPT !.pc = "restore", !.saved = savedCursor(current)]
    /\ UNCHANGED <<current, writes, pending_wset, put, writable, broken, wire,
                   accepted>>

\* The cursor, on the freed element until now, is put back.
UnlinkRestore ==
    /\ cont.pc = "restore"
    /\ current' = cont.saved
    /\ cont' = [cont EXCEPT !.pc = "advance", !.saved = NULL]
    /\ UNCHANGED <<write_pending, writes, pending_wset, put, writable, broken,
                   wire, accepted, torn>>

\* The scan goes on from the list's cursor, wherever that is by now.
Advance ==
    /\ cont.pc = "advance"
    /\ cont' = [cont EXCEPT !.pc = "scan", !.cur = current, !.rc = 0]
    /\ UNCHANGED <<write_pending, current, writes, pending_wset, put, writable,
                   broken, wire, accepted, torn>>

\* The scan is over.  isReady looks some sockets up in write_pending.
ScanDone ==
    /\ cont.pc = "scan" /\ cont.cur = NULL
    /\ cont' = IdleCont
    /\ \/ UNCHANGED current
       \/ \E s \in Sockets : Pending(s) /\ findCursor(s)
    /\ UNCHANGED <<write_pending, writes, pending_wset, put, writable, broken,
                   wire, accepted, torn>>

-----------------------------------------------------------------------------
(* Environment                                                             *)

Drain(s) ==
    /\ s \notin writable
    /\ writable' = writable \cup {s}
    /\ UNCHANGED <<write_pending, current, writes, pending_wset, put, cont,
                   broken, wire, accepted, torn>>

Break(s) ==
    /\ MayBreak /\ s \notin broken
    /\ broken' = broken \cup {s}
    /\ UNCHANGED <<write_pending, current, writes, pending_wset, put, cont,
                   writable, wire, accepted, torn>>

-----------------------------------------------------------------------------

putdatas ==
    \/ PutWalk \/ PutFound \/ PutWrite \/ PutBuffer \/ PutBuffered
    \/ PutAppend \/ PutAppended \/ PutLoad \/ PutStore

continueWrites ==
    \/ Select \/ SelectReturns \/ ScanNext \/ ContinueWrite \/ RemoveWrite
    \/ ClearLoad \/ ClearStore \/ UnlinkFind \/ UnlinkTake \/ UnlinkRestore
    \/ Advance \/ ScanDone

Next ==
    \/ \E s \in Sockets, p \in Unused : PutCheck(s, p)
    \/ putdatas \/ continueWrites
    \/ \E s \in Sockets : Drain(s) \/ Break(s)

Spec == Init /\ [][Next]_vars

\* Both threads run until they return, the run thread calls getReadySocket
\* again and again, and every peer reads what it is sent.
FairSpec ==
    /\ Spec
    /\ WF_vars(putdatas) /\ WF_vars(continueWrites)
    /\ \A s \in Sockets : WF_vars(Drain(s))

-----------------------------------------------------------------------------
(* Properties                                                              *)

PendingWrites == [socket : Sockets, iovecs : Seq(Seq(Packets \X Nat)),
                  total : Nat, bytes : Nat]

\* The variables hold the values the C structures can hold.
TypeOK ==
    /\ write_pending \in Seq(Sockets)
    /\ current \in Sockets \cup {NULL}
    /\ writes \in Seq(PendingWrites)
    /\ pending_wset \subseteq Sockets
    /\ put \in [pc : {"idle", "find", "found", "write", "buffer", "buffering",
                      "append", "appending", "load", "store"},
                socket : Sockets \cup {NULL}, iovecs : Seq(Seq(Packets \X Nat)),
                at : Sockets \cup {NULL}, bytes : Nat, word : SUBSET Sockets]
    /\ cont \in [pc : {"idle", "select", "scan", "remove", "load", "store",
                       "unlink", "take", "restore", "advance"},
                 cur : Sockets \cup {NULL}, saved : Sockets \cup {NULL},
                 pwset : SUBSET Sockets, rc : {-1, 0, 1}, word : SUBSET Sockets]
    /\ writable \subseteq Sockets /\ broken \subseteq Sockets
    /\ wire \in [Sockets -> Seq(Packets \X Nat)]
    /\ accepted \in [Sockets -> Seq(Packets)]
    /\ torn \in BOOLEAN

\* The bytes on each connection are those of the packets putdatas accepted,
\* in that order: partial writes, continued any number of times while other
\* sockets are written to, never interleave, repeat or drop bytes, until two
\* list operations harm each other (Socket.c:608-662, 961-1012).
WireIsAccepted ==
    ~torn =>
        \A s \in Sockets :
            IsPrefix(wire[s], FlattenSeq([i \in DOMAIN accepted[s] |->
                                            Bytes(accepted[s][i])]))

\* As long as no element is freed that putdatas is on, and the cursor is not
\* moved under ListUnlink, no pointer dangles: neither the list's cursor,
\* outside of ListUnlink, nor what it will be put back to, nor the position
\* of the scan, nor that of putdatas; and a socket that is looked up has its
\* write stored, which continueWrite takes for granted (Socket.c:969,
\* 1044-1102, LinkedList.c:150-232).
PointersLive ==
    ~torn =>
        /\ current # NULL /\ cont.pc # "restore" => Pending(current)
        /\ cont.pc \in {"take", "restore"} /\ cont.saved # NULL
                => Pending(cont.saved)
        /\ cont.pc \in {"scan", "remove", "load", "store", "unlink", "take"}
                /\ cont.cur # NULL => Pending(cont.cur)
        /\ put.pc \in {"find", "found", "appending"} /\ put.at # NULL
                => Pending(put.at)
        /\ cont.pc = "scan" /\ cont.cur \in cont.pwset => writeOf(cont.cur) # 0

\* Between calls the records of unfinished writes agree: the list and the
\* stored writes, one per socket, and select watches each of them, so that no
\* write is forgotten, until two list operations harm each other.  (The
\* reverse is not true: a write continued before putdatas sets the bit leaves
\* a bit behind, which only wakes select up.)
PendingWritesWatched ==
    ~torn /\ put.pc = "idle" /\ cont.pc \in {"idle", "select"} =>
        /\ ToSet(write_pending) \subseteq pending_wset
        /\ ToSet(write_pending) = {writes[i].socket : i \in DOMAIN writes}
        /\ Len(writes) = Len(write_pending)
        /\ IsInjective(write_pending)

\* Socket.h:83 and 91: the sockets "for which a write is pending" are in the
\* "pending write set for select" once putdatas has returned.
SelectedForWriting ==
    put.pc = "idle" /\ cont.pc \in {"idle", "select"} =>
        ToSet(write_pending) \subseteq pending_wset

\* Socket.c:564-566: what Socket_noPendingWrites returns indicates "whether
\* any data is pending outbound for a socket.  true == no pending data".
NoPendingData == put.pc = "write" => writeOf(put.socket) = 0

\* How many of the accepted packets are completely on the wire.
Finished(s) ==
    Cardinality({i \in DOMAIN accepted[s] :
        LET p == accepted[s][i] IN <<p, Total(Lens[p])>> \in ToSet(wire[s])})

\* Every packet that was accepted is finished, or its connection breaks, or
\* two list operations harm each other: the next one is accepted only after
\* it.
EveryWriteFinishes ==
    \A s \in Sockets :
        (Finished(s) < Len(accepted[s]))
            ~> (torn \/ s \in broken \/ Finished(s) = Len(accepted[s]))

Stream == INSTANCE PacketStream WITH finished <- [s \in Sockets |-> Finished(s)]

\* Until two list operations harm each other, the socket layer implements the
\* packet streams its callers rely on.
ImplementsPacketStream ==
    Stream!Init /\ [][Stream!Next \/ torn']_(Stream!streamVars)
=============================================================================
