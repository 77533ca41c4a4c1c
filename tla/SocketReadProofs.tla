-------------------------- MODULE SocketReadProofs --------------------------
(***************************************************************************)
(* Proofs about SocketRead, for every number of sockets, every sequence of *)
(* packets, whatever bytes follow them, and every base of the remaining    *)
(* length.  RInv is about the queues and needs nothing more; IntactInv     *)
(* adds where in the stream each byte of a queue was read, and assumes     *)
(* that the bytes after the packets are no packet.                         *)
(***************************************************************************)
EXTENDS SocketRead, SequenceLemmas

-----------------------------------------------------------------------------
(* The bytes of a packet                                                   *)

(* For n up to m, f[n] is the encoding of n.                               *)
Encodes(f, m) ==
    \A n \in 0..m :
        f[n] = IF n < Base THEN <<n>> ELSE <<(n % Base) + Base>> \o f[n \div Base]

(* A digit is less than the base, and a number that has more than one is   *)
(* greater than the number its other digits make.                          *)
LEMMA DigitFacts ==
    ASSUME NEW n \in Nat
    PROVE  /\ n % Base \in Nat /\ n % Base < Base
           /\ n \div Base \in Nat
           /\ n >= Base => n \div Base < n
<1>0. Base \in Nat /\ Base >= 2
  BY BaseAssumption
<1> DEFINE q == n \div Base
           r == n % Base
<1>1. q \in Int /\ r \in Int /\ 0 <= r /\ r < Base /\ n = Base * q + r
  BY <1>0
<1> HIDE DEF q, r
<1>2. q \in Nat
  BY <1>0, <1>1
<1>3. n >= Base => q < n
  BY <1>0, <1>1, <1>2
<1> QED
  BY <1>1, <1>2, <1>3 DEF q, r

(* Both kinds of bytes of an encoding are bytes.                           *)
LEMMA DigitBytes ==
    ASSUME NEW n \in Nat
    PROVE  (n < Base => n \in Byte) /\ (n % Base) + Base \in Byte
<1>1. Base \in Nat /\ Base >= 2 /\ n % Base \in Nat /\ n % Base < Base
  BY BaseAssumption, DigitFacts
<1> DEFINE r == n % Base
<1> HIDE DEF r
<1>2. r \in Nat /\ r < Base => r + Base \in 0..(2 * Base - 1)
  BY <1>1
<1> QED
  BY <1>1, <1>2 DEF Byte, r

(* There is such a function, and its values are sequences of bytes.        *)
LEMMA EncodeExists ==
    ASSUME NEW m \in Nat
    PROVE  \E f \in [0..m -> Seq(Byte)] : Encodes(f, m)
<1> DEFINE N == {n \in Nat : \E f \in [0..n -> Seq(Byte)] : Encodes(f, n)}
<1>0. Base \in Nat /\ Base >= 2
  BY BaseAssumption
<1>1. 0 \in N
  <2>1. 0 \in Byte
    BY <1>0, DigitBytes
  <2>2. [i \in 0..0 |-> <<0>>] \in [0..0 -> Seq(Byte)]
    BY <2>1
  <2>3. Encodes([i \in 0..0 |-> <<0>>], 0)
    BY <1>0 DEF Encodes
  <2> QED
    BY <2>2, <2>3
<1>2. ASSUME NEW n \in Nat, n \in N PROVE n + 1 \in N
  <2>1. PICK f \in [0..n -> Seq(Byte)] : Encodes(f, n)
    BY <1>2
  <2> DEFINE e == IF n + 1 < Base THEN <<n + 1>>
                  ELSE <<((n + 1) % Base) + Base>> \o f[(n + 1) \div Base]
             g == [i \in 0..(n + 1) |-> IF i = n + 1 THEN e ELSE f[i]]
  <2>2. n + 1 >= Base => (n + 1) \div Base \in 0..n
    <3>1. n + 1 \in Nat
      OBVIOUS
    <3>2. /\ (n + 1) \div Base \in Nat
          /\ n + 1 >= Base => (n + 1) \div Base < n + 1
      BY <3>1, DigitFacts
    <3> QED
      BY <3>2
  <2>3. e \in Seq(Byte)
    <3>1. n + 1 < Base => n + 1 \in Byte
      BY DigitBytes
    <3>2. ((n + 1) % Base) + Base \in Byte
      BY DigitBytes
    <3>3. n + 1 >= Base => f[(n + 1) \div Base] \in Seq(Byte)
      BY <2>1, <2>2
    <3> DEFINE c == ((n + 1) % Base) + Base
               d == f[(n + 1) \div Base]
    <3> HIDE DEF c, d
    <3>4. c \in Byte
      BY <3>2 DEF c
    <3>5. n + 1 >= Base => d \in Seq(Byte)
      BY <3>3 DEF d
    <3>6. (IF n + 1 < Base THEN <<n + 1>> ELSE <<c>> \o d) \in Seq(Byte)
      BY <1>0, <3>1, <3>4, <3>5
    <3> QED
      BY <3>6 DEF c, d
  <2>4. g \in [0..(n + 1) -> Seq(Byte)]
    <3> HIDE DEF e
    <3> QED
      BY <2>1, <2>3
  <2>5. ASSUME NEW i \in 0..(n + 1)
        PROVE  g[i] = IF i < Base THEN <<i>>
                      ELSE <<(i % Base) + Base>> \o g[i \div Base]
    <3>1. i >= Base => i \div Base \in 0..n /\ i \div Base # n + 1
      <4>1. i \in Nat /\ (i >= Base => i \div Base \in Nat /\ i \div Base < i)
        BY DigitFacts
      <4> QED
        BY <1>0, <4>1
    <3> DEFINE h == i \div Base
    <3>2. i >= Base => g[h] = f[h]
      <4> HIDE DEF e, h
      <4> QED
        BY <3>1 DEF h
    <3>3. CASE i = n + 1
      <4>1. g[i] = e
        <5> HIDE DEF e
        <5> QED
          BY <3>3
      <4> HIDE DEF g
      <4>2. CASE i < Base
        BY <3>3, <4>1, <4>2
      <4>3. CASE ~(i < Base)
        <5>1. g[h] = f[h]
          BY <1>0, <3>2, <4>3
        <5>2. g[i] = <<(i % Base) + Base>> \o f[h]
          BY <3>3, <4>1, <4>3
        <5> QED
          BY <4>3, <5>1, <5>2
      <4> QED
        BY <4>2, <4>3
    <3>4. CASE i # n + 1
      <4>1. g[i] = f[i] /\ i \in 0..n
        <5> HIDE DEF e
        <5> QED
          BY <3>4
      <4>2. f[i] = IF i < Base THEN <<i>> ELSE <<(i % Base) + Base>> \o f[h]
        BY <2>1, <4>1 DEF Encodes
      <4> HIDE DEF g, h
      <4>3. f[i] = IF i < Base THEN <<i>> ELSE <<(i % Base) + Base>> \o g[h]
        BY <1>0, <3>2, <4>2
      <4> QED
        BY <4>1, <4>3 DEF h
    <3> QED
      BY <3>3, <3>4
  <2>6. Encodes(g, n + 1)
    <3> HIDE DEF g
    <3> QED
      BY <2>5 DEF Encodes
  <2>7. n + 1 \in Nat
    OBVIOUS
  <2> HIDE DEF g
  <2> QED
    BY <2>4, <2>6, <2>7
<1>3. Nat \subseteq N
  <2> HIDE DEF N
  <2> QED
    BY <1>1, <1>2, SetInduction
<1> QED
  BY <1>3

(* It is the only one.                                                     *)
LEMMA EncodeUnique ==
    ASSUME NEW m \in Nat, NEW l \in Nat, NEW f, NEW g, Encodes(f, m), Encodes(g, l),
           NEW n \in Nat, n <= m, n <= l
    PROVE  f[n] = g[n]
<1> DEFINE N == {k \in Nat : \A i \in 0..k : i <= m /\ i <= l => f[i] = g[i]}
<1>0. Base \in Nat /\ Base >= 2
  BY BaseAssumption
<1>1. 0 \in N
  <2>1. 0 \in 0..m /\ 0 \in 0..l /\ 0 < Base
    BY <1>0
  <2>2. f[0] = <<0>> /\ g[0] = <<0>>
    BY <2>1 DEF Encodes
  <2> QED
    BY <2>2
<1>2. ASSUME NEW k \in Nat, k \in N PROVE k + 1 \in N
  <2>1. ASSUME k + 1 <= m, k + 1 <= l PROVE f[k + 1] = g[k + 1]
    <3> DEFINE j == k + 1
               h == j \div Base
    <3>1. j \in Nat /\ j \in 0..m /\ j \in 0..l
      BY <2>1
    <3>2. /\ f[j] = IF j < Base THEN <<j>> ELSE <<(j % Base) + Base>> \o f[h]
          /\ g[j] = IF j < Base THEN <<j>> ELSE <<(j % Base) + Base>> \o g[h]
      BY <3>1 DEF Encodes
    <3>3. h \in Nat /\ (j >= Base => h < j)
      <4> HIDE DEF j
      <4> QED
        BY <3>1, DigitFacts
    <3>4. j = k + 1
      OBVIOUS
    <3> HIDE DEF j, h
    <3>5. j >= Base => h \in 0..k /\ h <= m /\ h <= l
      BY <2>1, <3>3, <3>4
    <3>6. j >= Base => f[h] = g[h]
      BY <1>2, <3>5
    <3>7. f[j] = g[j]
      BY <1>0, <3>1, <3>2, <3>6
    <3> QED
      BY <3>7 DEF j
  <2> QED
    BY <1>2, <2>1
<1>3. Nat \subseteq N
  <2> HIDE DEF N
  <2> QED
    BY <1>1, <1>2, SetInduction
<1>4. n \in N /\ n \in 0..n
  BY <1>3
<1> QED
  BY <1>4

(* What encode returns, by such a function.                                *)
LEMMA EncodeIs ==
    ASSUME NEW m \in Nat
    PROVE  \E f \in [0..m -> Seq(Byte)] : Encodes(f, m) /\ encode(m) = f[m]
<1> DEFINE F(f) == [n \in 0..m |-> IF n < Base THEN <<n>>
                                   ELSE <<(n % Base) + Base>> \o f[n \div Base]]
           h == CHOOSE f : f = F(f)
<1>1. PICK f \in [0..m -> Seq(Byte)] : Encodes(f, m)
  BY EncodeExists
<1>2. f = F(f)
  BY <1>1 DEF Encodes
<1>3. h = F(h)
  <2> HIDE DEF F
  <2> QED
    BY <1>2
<1>4. encode(m) = h[m]
  BY DEF encode
<1> HIDE DEF h
<1>5. Encodes(h, m)
  BY <1>3 DEF Encodes
<1>6. f[m] = h[m]
  BY <1>1, <1>5, EncodeUnique
<1> QED
  BY <1>1, <1>4, <1>6

(* The encoding of a length, digit by digit.                               *)
LEMMA EncodeStep ==
    ASSUME NEW m \in Nat
    PROVE  /\ encode(m) \in Seq(Byte)
           /\ m < Base => encode(m) = <<m>>
           /\ m >= Base => encode(m) = <<(m % Base) + Base>> \o encode(m \div Base)
<1>0. Base \in Nat /\ Base >= 2
  BY BaseAssumption
<1>1. PICK f \in [0..m -> Seq(Byte)] : Encodes(f, m) /\ encode(m) = f[m]
  BY EncodeIs
<1>2. m \in 0..m
  OBVIOUS
<1> DEFINE h == m \div Base
<1>3. f[m] = IF m < Base THEN <<m>> ELSE <<(m % Base) + Base>> \o f[h]
  BY <1>1, <1>2 DEF Encodes
<1>4. m >= Base => f[h] = encode(h)
  <2> SUFFICES ASSUME m >= Base PROVE f[h] = encode(h)
    OBVIOUS
  <2>1. h \in Nat /\ h < m
    BY DigitFacts
  <2> HIDE DEF h
  <2>2. PICK g : Encodes(g, h) /\ encode(h) = g[h]
    BY <2>1, EncodeIs
  <2>3. f[h] = g[h]
    BY <1>1, <2>1, <2>2, EncodeUnique
  <2> QED
    BY <2>2, <2>3
<1>5. encode(m) \in Seq(Byte)
  BY <1>1, <1>2
<1>6. m < Base => encode(m) = <<m>>
  BY <1>1, <1>3
<1>7. m >= Base => encode(m) = <<(m % Base) + Base>> \o encode(h)
  <2> HIDE DEF h
  <2> QED
    BY <1>0, <1>1, <1>3, <1>4
<1> QED
  BY <1>5, <1>6, <1>7

(* A packet's frame is a sequence of bytes.                                *)
LEMMA FrameType ==
    ASSUME NEW p \in [header : Byte, body : Seq(Byte)]
    PROVE  Frame(p) \in Seq(Byte)
<1>1. p.header \in Byte /\ p.body \in Seq(Byte) /\ Len(p.body) \in Nat
  OBVIOUS
<1>2. encode(Len(p.body)) \in Seq(Byte)
  BY <1>1, EncodeStep
<1>3. <<p.header>> \o encode(Len(p.body)) \in Seq(Byte)
  BY <1>1, <1>2
<1> QED
  BY <1>1, <1>3 DEF Frame

(* What a peer sends is a sequence of bytes.                               *)
LEMMA StreamType ==
    ASSUME NEW s \in Sockets
    PROVE  /\ SentBytes(s) \in Seq(Byte) /\ Stream(s) \in Seq(Byte)
           /\ Len(Stream(s)) \in Nat
<1>1. Sent[s] \in Seq([header : Byte, body : Seq(Byte)]) /\ Trailing[s] \in Seq(Byte)
  BY SentAssumption
<1> DEFINE fs == [i \in DOMAIN Sent[s] |-> Frame(Sent[s][i])]
<1>2. \A i \in DOMAIN Sent[s] : Frame(Sent[s][i]) \in Seq(Byte)
  <2> SUFFICES ASSUME NEW i \in DOMAIN Sent[s] PROVE Frame(Sent[s][i]) \in Seq(Byte)
    OBVIOUS
  <2>1. Sent[s][i] \in [header : Byte, body : Seq(Byte)]
    <3> DEFINE P == [header : Byte, body : Seq(Byte)]
    <3>1. Sent[s] \in Seq(P)
      BY <1>1
    <3> HIDE DEF P
    <3>2. Sent[s][i] \in P
      BY <3>1
    <3> QED
      BY <3>2 DEF P
  <2> QED
    BY <2>1, FrameType
<1>3. fs \in Seq(Seq(Byte))
  <2>1. DOMAIN Sent[s] = 1..Len(Sent[s]) /\ Len(Sent[s]) \in Nat
    BY <1>1
  <2> QED
    BY <1>2, <2>1, IsASeq
<1>4. SentBytes(s) \in Seq(Byte)
  <2> HIDE DEF fs
  <2>1. FlattenSeq(fs) \in Seq(Byte)
    BY <1>3, FlattenType
  <2> QED
    BY <2>1 DEF SentBytes, fs
<1>5. Stream(s) \in Seq(Byte)
  BY <1>1, <1>4, ConcatProperties DEF Stream
<1> QED
  BY <1>4, <1>5, LenProperties

-----------------------------------------------------------------------------
(* The invariant                                                           *)

Calls == [pc : {"idle", "header", "length", "data"}, socket : Sockets \cup {NULL},
          header : Byte, len : 0..MAX_NO_OF_REMAINING_LENGTH_BYTES, value : Nat,
          mult : Nat]

(* No more bytes are received than have arrived, nor arrive than are sent. *)
StreamBounds ==
    \A s \in Sockets : received[s] <= arrived[s] /\ arrived[s] <= Len(Stream(s))

(* index is at most headerlen, which is at most the size of fixed_header.  *)
HeaderFits(q) == q.index <= Len(q.header) /\ Len(q.header) <= FixedHeaderSize

(* The queue on the list for a socket is its own.                          *)
QueueInv ==
    /\ queues \in [Sockets -> Queue] /\ def_queue \in Queue
    /\ HeaderFits(def_queue)
    /\ \A s \in Sockets : HeaderFits(queues[s]) /\ queues[s].socket \in {NULL, s}

(* The default queue is empty, or in use for the socket of the active      *)
(* call, which then has no queue of its own.                               *)
DefaultInv ==
    failed = {} =>
        /\ def_queue.socket = NULL => def_queue.header = <<>>
        /\ def_queue.socket # NULL =>
              call.pc # "idle" /\ call.socket = def_queue.socket /\ ~queued(call.socket)

RInv ==
    /\ TypeOK /\ StreamBounds /\ QueueInv /\ DefaultInv
    /\ call.pc # "idle" => call.socket \in Sockets

(* Fresh is an empty queue and NoCall no call.                             *)
LEMMA InitialValues ==
    /\ Fresh \in Queue /\ Fresh.socket = NULL /\ Fresh.index = 0
    /\ Fresh.header = <<>> /\ HeaderFits(Fresh)
    /\ NoCall \in Calls /\ NoCall.pc = "idle"
    /\ 0 \in Byte
<1>1. Base \in Nat /\ Base >= 2
  BY BaseAssumption
<1>2. 0 \in Byte
  BY <1>1 DEF Byte
<1>3. NoCall \in Calls /\ NoCall.pc = "idle"
  BY <1>2 DEF NoCall, Calls, MAX_NO_OF_REMAINING_LENGTH_BYTES
<1>4. <<>> \in Seq(Byte) /\ <<>> \in Body
  BY DEF Body
<1>5. /\ Fresh \in Queue /\ Fresh.socket = NULL /\ Fresh.index = 0
      /\ Fresh.header = <<>> /\ HeaderFits(Fresh)
  BY <1>4 DEF Fresh, Queue, FixedHeaderSize, HeaderFits
<1> QED
  BY <1>2, <1>3, <1>5

(* roomFor changes only the size of the buffer.                            *)
LEMMA RoomForFacts ==
    ASSUME NEW q \in Queue, NEW n \in Nat
    PROVE  /\ roomFor(q, n) \in Queue
           /\ roomFor(q, n).socket = q.socket /\ roomFor(q, n).index = q.index
           /\ roomFor(q, n).header = q.header /\ roomFor(q, n).data = q.data
BY DEF roomFor, Queue

(* appendChar stays within fixed_header, whatever the queue holds.         *)
LEMMA AppendCharFacts ==
    ASSUME NEW q \in Queue, NEW c \in Byte, HeaderFits(q)
    PROVE  /\ appendChar(q, c) \in Queue
           /\ appendChar(q, c).socket = q.socket
           /\ HeaderFits(appendChar(q, c))
<1> DEFINE h == Append(SubSeq(q.header, 1, q.index), c)
<1>0. /\ q.index \in 0..5 /\ q.header \in Seq(Byte) /\ Len(q.header) \in Nat
      /\ q.index <= Len(q.header)
  BY DEF Queue, FixedHeaderSize, HeaderFits
<1>1. h \in Seq(Byte) /\ Len(h) = q.index + 1
  <2>1. \A i \in 1..q.index : q.header[i] \in Byte
    BY <1>0
  <2>2. SubSeq(q.header, 1, q.index) \in Seq(Byte)
        /\ Len(SubSeq(q.header, 1, q.index)) = q.index
    BY <1>0, <2>1, SubSeqProperties
  <2> QED
    BY <2>2, AppendProperties
<1> HIDE DEF h
<1>2. CASE q.index >= FixedHeaderSize
  BY <1>2 DEF appendChar
<1>3. CASE ~(q.index >= FixedHeaderSize)
  <2>1. q.index + 1 \in 0..5
    BY <1>0, <1>3 DEF FixedHeaderSize
  <2>2. appendChar(q, c) = [q EXCEPT !.header = h, !.index = q.index + 1]
    BY <1>3 DEF appendChar, Queue, h
  <2>3. [q EXCEPT !.header = h, !.index = q.index + 1] \in Queue
    BY <1>1, <2>1 DEF Queue, FixedHeaderSize
  <2> QED
    BY <1>1, <2>1, <2>2, <2>3 DEF Queue, HeaderFits, FixedHeaderSize
<1> QED
  BY <1>2, <1>3

(* The call after a byte of the header or the length.                      *)
LEMMA UseCharFacts ==
    ASSUME call \in Calls, NEW c \in Byte, Reading, useChar(c)
    PROVE  call' \in Calls /\ call'.pc # "idle" /\ call'.socket = call.socket
<1> DEFINE v == call.value + (c % Base) * call.mult
           m == call.mult * Base
<1>0. Base \in Nat /\ Base >= 2 /\ c \in Nat /\ call.value \in Nat /\ call.mult \in Nat
  BY BaseAssumption DEF Byte, Calls
<1>1. v \in Nat /\ m \in Nat
  <2>1. c % Base \in Nat
    BY <1>0, DigitFacts
  <2> DEFINE d == c % Base
  <2> HIDE DEF d
  <2>2. d \in Nat
    BY <2>1 DEF d
  <2>3. d * call.mult \in Nat /\ call.mult * Base \in Nat
    BY <1>0, <2>2
  <2>4. call.value + d * call.mult \in Nat
    BY <1>0, <2>3
  <2> QED
    BY <2>3, <2>4 DEF d
<1>2. CASE call.pc = "header"
  BY <1>2 DEF useChar, Calls
<1>3. CASE call.pc # "header"
  <2>1. call.len + 1 \in 0..4
    BY <1>3 DEF Reading, Calls, MAX_NO_OF_REMAINING_LENGTH_BYTES
  <2>2. call' = [call EXCEPT !.pc = IF c >= Base THEN "length" ELSE "data",
                             !.len = call.len + 1, !.value = v, !.mult = m]
    BY <1>3 DEF useChar, Calls
  <2> HIDE DEF v, m
  <2> QED
    BY <1>1, <2>1, <2>2 DEF Calls, MAX_NO_OF_REMAINING_LENGTH_BYTES
<1> QED
  BY <1>2, <1>3

(* SocketBuffer_interrupted, at the end of a call.                         *)
LEMMA InterruptedFacts ==
    ASSUME RInv, NEW s \in Sockets, s = call.socket, call.pc # "idle",
           NEW data \in Body, NEW n \in Nat, SocketBuffer_interrupted(s, data, n),
           call' = NoCall, UNCHANGED failed
    PROVE  QueueInv' /\ DefaultInv'
<1>0. /\ queues \in [Sockets -> Queue] /\ def_queue \in Queue /\ queues[s] \in Queue
      /\ NULL \notin Sockets
  BY SocketsAssumption DEF RInv, QueueInv
<1> DEFINE q == IF queued(s) THEN queues[s] ELSE def_queue
           r == [roomFor(q, n) EXCEPT !.socket = s, !.index = 0, !.data = data]
<1>1. q \in Queue
  BY <1>0
<1> DEFINE b == roomFor(q, n)
<1>2. b \in Queue /\ b.socket = q.socket /\ b.header = q.header
  <2> HIDE DEF q
  <2> QED
    BY <1>1, RoomForFacts
<1> HIDE DEF b
<1>3. r = [b EXCEPT !.socket = s, !.index = 0, !.data = data]
  BY DEF b
<1>4. /\ r \in Queue /\ r.socket = s /\ r.index = 0
      /\ r.header \in Seq(Byte) /\ r.header = q.header
  <2> HIDE DEF r
  <2>1. /\ s \in Sockets \cup {NULL} /\ 0 \in 0..FixedHeaderSize
    BY DEF FixedHeaderSize
  <2>2. b.header \in Seq(Byte) /\ b.buflen \in Nat
    BY <1>2 DEF Queue
  <2>3. r = [socket |-> s, index |-> 0, header |-> b.header, data |-> data,
             buflen |-> b.buflen]
    BY <1>2, <1>3 DEF Queue
  <2> QED
    BY <1>2, <2>1, <2>2, <2>3 DEF Queue
<1>5. queues' = [queues EXCEPT ![s] = r]
  <2>1. CASE queued(s)
    <3>1. b = roomFor(queues[s], n) /\ b.socket = s
      BY <1>2, <2>1 DEF b, queued
    <3>2. [b EXCEPT !.index = 0, !.data = data] = r
      <4> HIDE DEF r
      <4> QED
        BY <1>2, <1>3, <3>1 DEF Queue
    <3>3. queues' = [queues EXCEPT ![s] = [b EXCEPT !.index = 0, !.data = data]]
      <4> HIDE DEF r, q
      <4> QED
        BY <1>0, <2>1, <3>1 DEF SocketBuffer_interrupted
    <3> HIDE DEF r
    <3> QED
      BY <3>2, <3>3
  <2>2. CASE ~queued(s)
    BY <2>2 DEF SocketBuffer_interrupted
  <2> QED
    BY <2>1, <2>2
<1> HIDE DEF r
<1>6. def_queue' \in {def_queue, Fresh} /\ (~queued(s) => def_queue' = Fresh)
      /\ (queued(s) => def_queue' = def_queue)
  BY DEF SocketBuffer_interrupted
<1>7. QueueInv'
  <2>1. queues' \in [Sockets -> Queue] /\ \A t \in Sockets : queues'[t] = IF t = s THEN r ELSE queues[t]
    BY <1>0, <1>4, <1>5
  <2>2. def_queue' \in Queue /\ HeaderFits(def_queue')
    BY <1>0, <1>6, InitialValues DEF RInv, QueueInv
  <2>3. HeaderFits(r)
    <3>1. HeaderFits(q)
      BY DEF RInv, QueueInv
    <3> HIDE DEF q
    <3> QED
      BY <1>4, <3>1 DEF HeaderFits
  <2>4. \A t \in Sockets : HeaderFits(queues'[t]) /\ queues'[t].socket \in {NULL, t}
    BY <1>4, <2>1, <2>3 DEF RInv, QueueInv
  <2> QED
    BY <2>1, <2>2, <2>4 DEF QueueInv
<1>8. DefaultInv'
  <2>1. CASE queued(s)
    BY <1>6, <2>1 DEF RInv, DefaultInv
  <2>2. CASE ~queued(s)
    BY <1>6, <2>2, InitialValues DEF DefaultInv
  <2> QED
    BY <2>1, <2>2
<1> QED
  BY <1>7, <1>8

(* SocketBuffer_complete, at the end of a call.                            *)
LEMMA CompleteFacts ==
    ASSUME RInv, NEW s \in Sockets, NEW n \in Nat, SocketBuffer_complete(s, n)
    PROVE  QueueInv' /\ DefaultInv'
<1>0. /\ queues \in [Sockets -> Queue] /\ def_queue \in Queue /\ queues[s] \in Queue
  BY DEF RInv, QueueInv
<1> DEFINE q == IF queued(s) THEN queues[s] ELSE def_queue
           k == roomFor(q, n).buflen
<1>1. k \in Nat
  <2>1. q \in Queue
    BY <1>0
  <2> HIDE DEF q
  <2>2. roomFor(q, n) \in Queue
    BY <2>1, RoomForFacts
  <2> QED
    BY <2>2 DEF Queue
<1>2. /\ def_queue' = [Fresh EXCEPT !.buflen = k]
      /\ queues' = [queues EXCEPT ![s] = Fresh]
  BY DEF SocketBuffer_complete
<1> HIDE DEF k
<1>3. /\ def_queue' \in Queue /\ def_queue'.socket = NULL /\ def_queue'.header = <<>>
      /\ def_queue'.index = 0
  BY <1>1, <1>2, InitialValues DEF Queue, Fresh
<1>4. /\ queues' \in [Sockets -> Queue]
      /\ \A t \in Sockets : queues'[t] = IF t = s THEN Fresh ELSE queues[t]
  BY <1>0, <1>2, InitialValues
<1>5. \A t \in Sockets : HeaderFits(queues'[t]) /\ queues'[t].socket \in {NULL, t}
  BY <1>4, InitialValues DEF RInv, QueueInv
<1>6. HeaderFits(def_queue')
  BY <1>3 DEF HeaderFits, FixedHeaderSize
<1> QED
  BY <1>3, <1>4, <1>5, <1>6 DEF QueueInv, DefaultInv

(* SocketBuffer_queueChar, during a call.                                  *)
LEMMA QueueCharFacts ==
    ASSUME RInv, NEW s \in Sockets, s = call.socket, call.pc # "idle",
           NEW c \in Byte, SocketBuffer_queueChar(s, c),
           call'.pc # "idle", call'.socket = s, UNCHANGED failed
    PROVE  QueueInv' /\ DefaultInv'
<1>0. /\ queues \in [Sockets -> Queue] /\ def_queue \in Queue /\ queues[s] \in Queue
      /\ NULL \notin Sockets
      /\ HeaderFits(queues[s]) /\ HeaderFits(def_queue)
  BY SocketsAssumption DEF RInv, QueueInv
<1>1. CASE queued(s)
  <2> DEFINE r == appendChar(queues[s], c)
  <2>1. queues' = [queues EXCEPT ![s] = r] /\ def_queue' = def_queue
    BY <1>0, <1>1 DEF SocketBuffer_queueChar
  <2>2. r \in Queue /\ r.socket = queues[s].socket /\ HeaderFits(r)
    BY <1>0, AppendCharFacts
  <2> HIDE DEF r
  <2>3. /\ queues' \in [Sockets -> Queue]
        /\ \A t \in Sockets : queues'[t] = IF t = s THEN r ELSE queues[t]
    BY <1>0, <2>1, <2>2
  <2>4. \A t \in Sockets : HeaderFits(queues'[t]) /\ queues'[t].socket \in {NULL, t}
    BY <2>2, <2>3 DEF RInv, QueueInv
  <2>5. failed = {} => def_queue.socket = NULL
    BY <1>1 DEF RInv, DefaultInv
  <2> QED
    BY <1>0, <2>1, <2>3, <2>4, <2>5 DEF QueueInv, DefaultInv, RInv
<1>2. CASE ~queued(s) /\ def_queue.socket \in {NULL, s}
  <2> DEFINE d == IF def_queue.socket = s THEN def_queue
                  ELSE [def_queue EXCEPT !.socket = s, !.index = 0, !.data = <<>>]
  <2>1. d \in Queue /\ d.socket = s /\ HeaderFits(d)
    <3>1. CASE def_queue.socket = s
      BY <1>0, <3>1
    <3>2. CASE def_queue.socket # s
      <4>0. d = [def_queue EXCEPT !.socket = s, !.index = 0, !.data = <<>>]
        BY <3>2
      <4>1. /\ d = [socket |-> s, index |-> 0, header |-> def_queue.header,
                    data |-> <<>>, buflen |-> def_queue.buflen]
            /\ def_queue.header \in Seq(Byte) /\ def_queue.buflen \in Nat
            /\ Len(def_queue.header) \in Nat
        <5> HIDE DEF d
        <5>1. d = [socket |-> s, index |-> 0, header |-> def_queue.header,
                   data |-> <<>>, buflen |-> def_queue.buflen]
          BY <1>0, <4>0 DEF Queue
        <5>2. def_queue.header \in Seq(Byte) /\ def_queue.buflen \in Nat
          BY <1>0 DEF Queue
        <5> QED
          BY <5>1, <5>2
      <4>2. <<>> \in Body /\ 0 \in 0..FixedHeaderSize /\ s \in Sockets \cup {NULL}
        BY DEF Body, FixedHeaderSize
      <4> HIDE DEF d
      <4>3. d \in Queue /\ d.socket = s /\ d.index = 0 /\ d.header = def_queue.header
        BY <4>1, <4>2 DEF Queue
      <4> QED
        BY <1>0, <4>1, <4>3 DEF HeaderFits
    <3> QED
      BY <3>1, <3>2
  <2>2. queues' = queues /\ def_queue' = appendChar(d, c)
    BY <1>0, <1>2 DEF SocketBuffer_queueChar
  <2> HIDE DEF d
  <2>3. def_queue' \in Queue /\ def_queue'.socket = s
        /\ HeaderFits(def_queue')
    BY <2>1, <2>2, AppendCharFacts
  <2>4. QueueInv'
    BY <2>2, <2>3 DEF QueueInv, RInv
  <2>5. ~queued(s)'
    BY <1>2, <2>2 DEF queued
  <2> QED
    BY <1>0, <2>3, <2>4, <2>5 DEF DefaultInv, queued
<1>3. CASE ~queued(s) /\ def_queue.socket \notin {NULL, s}
  <2>1. UNCHANGED <<queues, def_queue>>
    BY <1>3 DEF SocketBuffer_queueChar
  <2>2. failed # {}
    BY <1>3 DEF RInv, DefaultInv
  <2> QED
    BY <2>1, <2>2 DEF QueueInv, DefaultInv, RInv
<1> QED
  BY <1>1, <1>2, <1>3

(* What was read of a body is a sequence of bytes and unwritten memory.    *)
LEMMA BytesGotType ==
    ASSUME RInv, NEW s \in Sockets, NEW n \in Nat, received[s] + n <= arrived[s]
    PROVE  /\ bytesGot(s, n) \in Body
           /\ queuedData(s) \in Body
           /\ Len(queuedData(s)) \in Nat
<1>0. /\ queues[s] \in Queue /\ received[s] \in Nat /\ arrived[s] \in Nat
      /\ arrived[s] <= Len(Stream(s)) /\ Stream(s) \in Seq(Byte)
      /\ Len(Stream(s)) \in Nat
  BY StreamType DEF RInv, QueueInv, TypeOK, StreamBounds
<1>1. queuedData(s) \in Body
  <2>1. queues[s].data \in Body
    BY <1>0 DEF Queue
  <2>2. <<>> \in Body /\ [i \in DOMAIN queues[s].data |-> NULL] \in Body
    BY <2>1 DEF Body
  <2> QED
    BY <2>1, <2>2 DEF queuedData
<1>2. SubSeq(Stream(s), received[s] + 1, received[s] + n) \in Seq(Byte)
  <2>1. \A i \in (received[s] + 1)..(received[s] + n) : Stream(s)[i] \in Byte
    BY <1>0
  <2> QED
    BY <1>0, <2>1, SubSeqProperties
<1>3. SubSeq(Stream(s), received[s] + 1, received[s] + n) \in Body
  BY <1>2 DEF Body
<1>4. bytesGot(s, n) \in Body
  BY <1>1, <1>3, ConcatProperties DEF bytesGot, Body
<1> QED
  BY <1>1, <1>4 DEF Body

(* A failing call keeps the queues as they are.                            *)
LEMMA ErrorInv == ASSUME RInv, call.socket \in Sockets, returnError PROVE RInv'
<1>1. /\ UNCHANGED <<arrived, eof, received, queues, def_queue, packets>>
      /\ failed' = failed \cup {call.socket} /\ call' = NoCall
  BY DEF returnError
<1>2. TypeOK'
  BY <1>1, InitialValues DEF RInv, TypeOK, Calls
<1>3. StreamBounds' /\ QueueInv'
  BY <1>1 DEF RInv, StreamBounds, QueueInv
<1>4. DefaultInv'
  BY <1>1 DEF DefaultInv
<1> QED
  BY <1>1, <1>2, <1>3, <1>4, InitialValues DEF RInv

(* A byte of the queue is read again.                                      *)
LEMMA QueuedCharInv == ASSUME RInv, GetQueuedChar PROVE RInv'
<1> DEFINE s == call.socket
           q == queues[s]
           k == q.index
<1>0. call \in Calls /\ call.pc # "idle" /\ s \in Sockets
  BY DEF RInv, TypeOK, Calls, GetQueuedChar, Reading
<1>1. /\ queues \in [Sockets -> Queue] /\ q \in Queue /\ k \in 0..5 /\ q.header \in Seq(Byte)
  BY <1>0 DEF RInv, QueueInv, Queue, FixedHeaderSize
<1>2. /\ k < Len(q.header) /\ queued(s) /\ Reading /\ useChar(q.header[k + 1])
      /\ queues' = [queues EXCEPT ![s].index = k + 1]
      /\ UNCHANGED <<arrived, eof, received, def_queue, packets, failed>>
  BY <1>1 DEF GetQueuedChar, replaying
<1>3. q.header[k + 1] \in Byte
  BY <1>1, <1>2
<1>4. call' \in Calls /\ call'.pc # "idle" /\ call'.socket = s
  BY <1>0, <1>2, <1>3, UseCharFacts
<1>5. k + 1 \in 0..FixedHeaderSize /\ k + 1 <= Len(q.header) /\ HeaderFits(q)
  <2>1. k < 5 /\ HeaderFits(q)
    BY <1>0, <1>1, <1>2 DEF RInv, QueueInv, HeaderFits, FixedHeaderSize
  <2>2. Len(q.header) \in Nat
    BY <1>1
  <2> HIDE DEF q, k
  <2> QED
    BY <1>1, <1>2, <2>1, <2>2 DEF FixedHeaderSize
<1> DEFINE r == [q EXCEPT !.index = k + 1]
<1>6. queues' = [queues EXCEPT ![s] = r]
  BY <1>1, <1>2
<1>7. r \in Queue /\ HeaderFits(r) /\ r.socket = q.socket
  BY <1>1, <1>5 DEF Queue, HeaderFits
<1> HIDE DEF r
<1>8. /\ queues' \in [Sockets -> Queue]
      /\ \A t \in Sockets : queues'[t] = IF t = s THEN r ELSE queues[t]
  BY <1>0, <1>1, <1>6, <1>7
<1>9. \A t \in Sockets : HeaderFits(queues'[t]) /\ queues'[t].socket = queues[t].socket
  BY <1>7, <1>8 DEF RInv, QueueInv
<1> HIDE DEF q, k
<1>10. QueueInv'
  BY <1>2, <1>8, <1>9 DEF RInv, QueueInv
<1>11. DefaultInv'
  BY <1>0, <1>2, <1>4, <1>9 DEF RInv, DefaultInv, queued
<1>12. TypeOK' /\ StreamBounds'
  BY <1>2, <1>4, <1>8 DEF RInv, TypeOK, StreamBounds, Calls
<1> QED
  BY <1>0, <1>4, <1>10, <1>11, <1>12 DEF RInv

(* A byte is received and kept in the queue.                               *)
LEMMA GetCharInv == ASSUME RInv, GetChar PROVE RInv'
<1> DEFINE s == call.socket
           c == Stream(s)[received[s] + 1]
<1>0. call \in Calls /\ call.pc # "idle" /\ s \in Sockets /\ Reading
  BY DEF RInv, TypeOK, Calls, GetChar, Receiving, Reading
<1>1. /\ available(s) /\ received' = [received EXCEPT ![s] = @ + 1]
      /\ SocketBuffer_queueChar(s, c) /\ useChar(c)
      /\ UNCHANGED <<arrived, eof, packets, failed>>
  BY DEF GetChar
<1>2. /\ received[s] \in Nat /\ arrived[s] \in Nat /\ received[s] + 1 <= arrived[s]
      /\ received[s] + 1 \in 1..Len(Stream(s)) /\ Stream(s) \in Seq(Byte)
  BY <1>0, <1>1, StreamType DEF RInv, TypeOK, StreamBounds, available
<1>3. c \in Byte
  BY <1>2
<1> HIDE DEF c
<1>4. call' \in Calls /\ call'.pc # "idle" /\ call'.socket = s
  BY <1>0, <1>1, <1>3, UseCharFacts
<1>5. QueueInv' /\ DefaultInv'
  BY <1>0, <1>1, <1>3, <1>4, QueueCharFacts
<1>6. /\ received' \in [Sockets -> Nat]
      /\ \A t \in Sockets : received'[t] = IF t = s THEN received[s] + 1 ELSE received[t]
  BY <1>0, <1>1, <1>2 DEF RInv, TypeOK
<1>7. StreamBounds'
  BY <1>1, <1>2, <1>6 DEF RInv, StreamBounds
<1>8. TypeOK'
  BY <1>1, <1>4, <1>5, <1>6 DEF RInv, TypeOK, QueueInv, Calls
<1> QED
  BY <1>0, <1>4, <1>5, <1>7, <1>8 DEF RInv

(* No byte is there: the call ends and the queue is kept.                  *)
LEMMA CharInterruptedInv == ASSUME RInv, GetCharInterrupted PROVE RInv'
<1> DEFINE s == call.socket
<1>0. call.pc # "idle" /\ s \in Sockets
  BY DEF RInv, GetCharInterrupted, Receiving, Reading
<1>1. /\ SocketBuffer_interrupted(s, <<>>, 0) /\ call' = NoCall
      /\ UNCHANGED <<arrived, eof, received, packets, failed>>
  BY DEF GetCharInterrupted
<1>2. <<>> \in Body /\ 0 \in Nat
  BY DEF Body
<1>3. QueueInv' /\ DefaultInv'
  BY <1>0, <1>1, <1>2, InterruptedFacts
<1>4. TypeOK'
  BY <1>1, <1>3, InitialValues DEF RInv, TypeOK, QueueInv, Calls
<1>5. StreamBounds'
  BY <1>1 DEF RInv, StreamBounds
<1> QED
  BY <1>1, <1>3, <1>4, <1>5, InitialValues DEF RInv

(* The body is received as far as it is there, and kept.                   *)
LEMMA DataInterruptedInv == ASSUME RInv, GetDataInterrupted PROVE RInv'
<1> DEFINE s == call.socket
           n == arrived[s] - received[s]
           b == bytesGot(s, n)
<1>0. call.pc # "idle" /\ s \in Sockets /\ call.value \in Nat
  BY DEF RInv, TypeOK, GetDataInterrupted
<1>1. /\ received' = [received EXCEPT ![s] = @ + n]
      /\ SocketBuffer_interrupted(s, b, call.value) /\ call' = NoCall
      /\ UNCHANGED <<arrived, eof, packets, failed>>
  BY DEF GetDataInterrupted
<1>2. /\ received[s] \in Nat /\ arrived[s] \in Nat /\ n \in Nat
      /\ received[s] + n <= arrived[s]
  BY <1>0 DEF RInv, TypeOK, StreamBounds
<1> HIDE DEF n
<1>3. b \in Body
  BY <1>0, <1>2, BytesGotType
<1> HIDE DEF b
<1>4. QueueInv' /\ DefaultInv'
  BY <1>0, <1>1, <1>3, InterruptedFacts
<1>5. /\ received' \in [Sockets -> Nat]
      /\ \A t \in Sockets : received'[t] = IF t = s THEN received[s] + n ELSE received[t]
  BY <1>0, <1>1, <1>2 DEF RInv, TypeOK
<1>6. StreamBounds'
  BY <1>1, <1>2, <1>5 DEF RInv, StreamBounds
<1>7. TypeOK'
  BY <1>1, <1>4, <1>5, InitialValues DEF RInv, TypeOK, QueueInv, Calls
<1> QED
  BY <1>1, <1>4, <1>6, <1>7, InitialValues DEF RInv

(* The packet is complete: the queue becomes the default queue.            *)
LEMMA ReturnPacketFacts ==
    ASSUME RInv, call.socket \in Sockets, NEW body \in Body,
           returnPacket(call.socket, body)
    PROVE  /\ QueueInv' /\ DefaultInv' /\ call' \in Calls /\ call'.pc = "idle"
           /\ packets' \in [Sockets -> Seq([header : Byte, body : Body])]
           /\ UNCHANGED <<arrived, eof, failed>>
<1> DEFINE s == call.socket
           p == [header |-> call.header, body |-> body]
           P == [header : Byte, body : Body]
<1>0. /\ call.value \in Nat /\ p \in P /\ packets \in [Sockets -> Seq(P)]
  BY DEF RInv, TypeOK
<1>1. /\ packets' = [packets EXCEPT ![s] = Append(@, p)]
      /\ SocketBuffer_complete(s, call.value) /\ call' = NoCall
      /\ UNCHANGED <<arrived, eof, failed>>
  BY DEF returnPacket
<1>2. QueueInv' /\ DefaultInv'
  BY <1>0, <1>1, CompleteFacts
<1> HIDE DEF p, P
<1>3. packets[s] \in Seq(P)
  BY <1>0
<1>4. Append(packets[s], p) \in Seq(P)
  BY <1>0, <1>3, AppendProperties
<1>5. packets' \in [Sockets -> Seq(P)]
  BY <1>0, <1>1, <1>4
<1> QED
  BY <1>1, <1>2, <1>5, InitialValues DEF P

LEMMA NoDataInv == ASSUME RInv, GetNoData PROVE RInv'
<1>0. call.socket \in Sockets /\ returnPacket(call.socket, <<>>) /\ UNCHANGED received
  BY DEF RInv, GetNoData
<1>1. <<>> \in Body
  BY DEF Body
<1>2. /\ QueueInv' /\ DefaultInv' /\ call' \in Calls /\ call'.pc = "idle"
      /\ packets' \in [Sockets -> Seq([header : Byte, body : Body])]
      /\ UNCHANGED <<arrived, eof, failed>>
  BY <1>0, <1>1, ReturnPacketFacts
<1>3. TypeOK' /\ StreamBounds'
  BY <1>0, <1>2 DEF RInv, TypeOK, StreamBounds, QueueInv, Calls
<1> QED
  BY <1>2, <1>3 DEF RInv

LEMMA GetDataInv == ASSUME RInv, GetData PROVE RInv'
<1> DEFINE s == call.socket
           n == call.value - Len(queuedData(s))
           b == bytesGot(s, n)
<1>0. s \in Sockets /\ call.value \in Nat
  BY DEF RInv, TypeOK, GetData
<1>1. /\ n > 0 /\ arrived[s] - received[s] >= n
      /\ received' = [received EXCEPT ![s] = @ + n] /\ returnPacket(s, b)
  BY DEF GetData
<1>2. received[s] \in Nat /\ arrived[s] \in Nat /\ received[s] <= arrived[s]
  BY <1>0 DEF RInv, TypeOK, StreamBounds
<1>3. Len(queuedData(s)) \in Nat
  <2>1. received[s] + 0 <= arrived[s] /\ 0 \in Nat
    BY <1>2
  <2> QED
    BY <1>0, <2>1, BytesGotType
<1>4. n \in Nat /\ received[s] + n <= arrived[s]
  BY <1>0, <1>1, <1>2, <1>3
<1> HIDE DEF n
<1>5. b \in Body
  BY <1>0, <1>4, BytesGotType
<1> HIDE DEF b
<1>6. /\ QueueInv' /\ DefaultInv' /\ call' \in Calls /\ call'.pc = "idle"
      /\ packets' \in [Sockets -> Seq([header : Byte, body : Body])]
      /\ UNCHANGED <<arrived, eof, failed>>
  BY <1>0, <1>1, <1>5, ReturnPacketFacts
<1>7. /\ received' \in [Sockets -> Nat]
      /\ \A t \in Sockets : received'[t] = IF t = s THEN received[s] + n ELSE received[t]
  BY <1>0, <1>1, <1>2, <1>4 DEF RInv, TypeOK
<1>8. StreamBounds'
  BY <1>2, <1>4, <1>6, <1>7 DEF RInv, StreamBounds
<1>9. TypeOK'
  BY <1>6, <1>7 DEF RInv, TypeOK, QueueInv, Calls
<1> QED
  BY <1>6, <1>8, <1>9 DEF RInv

(* A call starts; bytes arrive; the peer closes.                           *)
LEMMA OutsideInv ==
    ASSUME RInv, NEW s \in Sockets, Factory(s) \/ Arrive(s) \/ Close(s)
    PROVE  RInv'
<1>0. UNCHANGED <<received, queues, def_queue, packets, failed>>
  BY DEF Factory, Arrive, Close
<1>1. QueueInv'
  BY <1>0 DEF RInv, QueueInv
<1>2. CASE Factory(s)
  <2>1. /\ call.pc = "idle" /\ call' = [NoCall EXCEPT !.pc = "header", !.socket = s]
        /\ UNCHANGED <<arrived, eof>>
    BY <1>2 DEF Factory
  <2>2. call' \in Calls /\ call'.socket = s
    BY <2>1, InitialValues DEF NoCall, Calls
  <2>3. DefaultInv'
    BY <1>0, <2>1 DEF RInv, DefaultInv
  <2>4. TypeOK' /\ StreamBounds'
    BY <1>0, <2>1, <2>2 DEF RInv, TypeOK, StreamBounds, Calls
  <2> QED
    BY <1>1, <2>2, <2>3, <2>4 DEF RInv
<1>3. CASE Arrive(s)
  <2>1. PICK n \in (arrived[s] + 1)..Len(Stream(s)) : arrived' = [arrived EXCEPT ![s] = n]
    BY <1>3 DEF Arrive
  <2>2. UNCHANGED <<eof, call>>
    BY <1>3 DEF Arrive
  <2>3. arrived[s] \in Nat /\ received[s] \in Nat /\ received[s] <= arrived[s]
    BY DEF RInv, TypeOK, StreamBounds
  <2>4. n \in Nat /\ received[s] <= n /\ n <= Len(Stream(s))
    BY <2>3, StreamType
  <2>5. /\ arrived' \in [Sockets -> Nat]
        /\ \A t \in Sockets : arrived'[t] = IF t = s THEN n ELSE arrived[t]
    BY <2>1, <2>4 DEF RInv, TypeOK
  <2>6. StreamBounds'
    BY <1>0, <2>4, <2>5 DEF RInv, StreamBounds
  <2>7. TypeOK'
    BY <1>0, <2>2, <2>5 DEF RInv, TypeOK
  <2>8. DefaultInv'
    BY <1>0, <2>2 DEF RInv, DefaultInv, queued
  <2> QED
    BY <1>1, <2>2, <2>6, <2>7, <2>8 DEF RInv
<1>4. CASE Close(s)
  <2>1. eof' = [eof EXCEPT ![s] = TRUE] /\ UNCHANGED <<arrived, call>>
    BY <1>4 DEF Close
  <2>2. TypeOK' /\ StreamBounds'
    BY <1>0, <2>1 DEF RInv, TypeOK, StreamBounds
  <2>3. DefaultInv'
    BY <1>0, <2>1 DEF RInv, DefaultInv, queued
  <2> QED
    BY <1>1, <2>1, <2>2, <2>3 DEF RInv
<1> QED
  BY <1>2, <1>3, <1>4

(* The invariant holds when no byte was read ...                           *)
LEMMA InitRead == Init => RInv
<1> SUFFICES ASSUME Init PROVE RInv
  OBVIOUS
<1>1. QueueInv
  BY InitialValues DEF Init, QueueInv
<1>2. StreamBounds
  BY StreamType DEF Init, StreamBounds
<1>3. DefaultInv
  BY InitialValues DEF Init, DefaultInv
<1>4. TypeOK
  <2>1. packets \in [Sockets -> Seq([header : Byte, body : Body])]
    BY DEF Init
  <2> QED
    BY <1>1, <2>1, InitialValues DEF Init, TypeOK, QueueInv, Calls
<1> QED
  BY <1>1, <1>2, <1>3, <1>4, InitialValues DEF RInv, Init

(* ... and every step keeps it.                                            *)
LEMMA StepRead == RInv /\ [Next]_vars => RInv'
<1> SUFFICES ASSUME RInv, [Next]_vars PROVE RInv'
  OBVIOUS
<1>1. CASE GetQueuedChar
  BY <1>1, QueuedCharInv
<1>2. CASE GetChar
  BY <1>2, GetCharInv
<1>3. CASE GetCharInterrupted
  BY <1>3, CharInterruptedInv
<1>4. CASE GetCharEof \/ HeaderFull \/ BadLength \/ GetDataEof
  <2>1. returnError /\ call.pc # "idle"
    BY <1>4 DEF GetCharEof, HeaderFull, BadLength, GetDataEof, Receiving, Reading
  <2> QED
    BY <2>1, ErrorInv DEF RInv
<1>5. CASE GetNoData
  BY <1>5, NoDataInv
<1>6. CASE GetData
  BY <1>6, GetDataInv
<1>7. CASE GetDataInterrupted
  BY <1>7, DataInterruptedInv
<1>8. CASE \E s \in Sockets : Factory(s) \/ Arrive(s) \/ Close(s)
  BY <1>8, OutsideInv
<1>9. CASE UNCHANGED vars
  <2>1. TypeOK' /\ StreamBounds'
    BY <1>9 DEF vars, RInv, TypeOK, StreamBounds
  <2>2. QueueInv' /\ DefaultInv'
    BY <1>9 DEF vars, RInv, QueueInv, DefaultInv, queued
  <2> QED
    BY <1>9, <2>1, <2>2 DEF vars, RInv
<1> QED
  BY <1>1, <1>2, <1>3, <1>4, <1>5, <1>6, <1>7, <1>8, <1>9 DEF Next, InFactory

-----------------------------------------------------------------------------
(* Where the packets are in the stream                                     *)

(* A packet as it is sent.                                                 *)
PacketType == [header : Byte, body : Seq(Byte)]

(* The frames of packets, one after another.                               *)
Frames(ps) == FlattenSeq([i \in DOMAIN ps |-> Frame(ps[i])])

(* The bytes of a frame.                                                   *)
LEMMA FrameBytes ==
    ASSUME NEW p \in PacketType
    PROVE  /\ Frame(p) \in Seq(Byte) /\ encode(Len(p.body)) \in Seq(Byte)
           /\ p.body \in Seq(Byte) /\ p.header \in Byte
           /\ Len(p.body) \in Nat /\ Len(encode(Len(p.body))) \in Nat
           /\ Len(Frame(p)) = 1 + Len(encode(Len(p.body))) + Len(p.body)
           /\ Frame(p)[1] = p.header
           /\ \A i \in 1..Len(encode(Len(p.body))) :
                Frame(p)[1 + i] = encode(Len(p.body))[i]
           /\ \A i \in 1..Len(p.body) :
                Frame(p)[1 + Len(encode(Len(p.body))) + i] = p.body[i]
<1> DEFINE e == encode(Len(p.body))
           b == p.body
           h == p.header
           u == <<h>> \o e
<1>1. h \in Byte /\ b \in Seq(Byte) /\ Len(b) \in Nat
  BY DEF PacketType
<1>2. e \in Seq(Byte) /\ Len(e) \in Nat
  <2> DEFINE m == Len(p.body)
  <2>1. m \in Nat
    BY <1>1
  <2> HIDE DEF m
  <2>2. encode(m) \in Seq(Byte)
    BY <2>1, EncodeStep
  <2> QED
    BY <2>2 DEF m
<1>3. Frame(p) = u \o b
  BY DEF Frame
<1> HIDE DEF e, b, h
<1>4. /\ u \in Seq(Byte) /\ Len(u) = 1 + Len(e) /\ u[1] = h
      /\ \A i \in 1..Len(e) : u[1 + i] = e[i]
  BY <1>1, <1>2
<1> HIDE DEF u
<1>5. /\ u \o b \in Seq(Byte) /\ Len(u \o b) = Len(u) + Len(b)
      /\ \A i \in 1..Len(u) : (u \o b)[i] = u[i]
      /\ \A i \in 1..Len(b) : (u \o b)[Len(u) + i] = b[i]
  <2>1. b \in Seq(Byte) /\ u \in Seq(Byte)
    BY <1>1, <1>4
  <2> QED
    BY <2>1, ConcatAt
<1>6. \A i \in 1..Len(e) : 1 + i \in 1..Len(u) /\ 1 \in 1..Len(u)
  BY <1>2, <1>4
<1>7. (u \o b)[1] = h
  BY <1>2, <1>4, <1>5
<1>8. \A i \in 1..Len(e) : (u \o b)[1 + i] = e[i]
  BY <1>2, <1>4, <1>5, <1>6
<1> QED
  BY <1>1, <1>2, <1>3, <1>4, <1>5, <1>7, <1>8 DEF e, b, h

(* The frames of the first packets, and of one more.                       *)
LEMMA FramesFacts ==
    ASSUME NEW ps \in Seq(PacketType), NEW n \in Nat, n <= Len(ps)
    PROVE  /\ Frames(ps) \in Seq(Byte) /\ Frames(SubSeq(ps, 1, n)) \in Seq(Byte)
           /\ Len(Frames(SubSeq(ps, 1, n))) <= Len(Frames(ps))
           /\ \A i \in 1..Len(Frames(SubSeq(ps, 1, n))) :
                Frames(ps)[i] = Frames(SubSeq(ps, 1, n))[i]
           /\ n < Len(ps) => Frames(SubSeq(ps, 1, n + 1))
                                = Frames(SubSeq(ps, 1, n)) \o Frame(ps[n + 1])
<1> DEFINE fs == [i \in DOMAIN ps |-> Frame(ps[i])]
<1>0. Len(ps) \in Nat /\ DOMAIN ps = 1..Len(ps) /\ \A i \in 1..Len(ps) : ps[i] \in PacketType
  OBVIOUS
<1>1. \A i \in 1..Len(ps) : Frame(ps[i]) \in Seq(Byte)
  BY <1>0, FrameType DEF PacketType
<1>2. fs \in Seq(Seq(Byte)) /\ Len(fs) = Len(ps) /\ \A i \in 1..Len(ps) : fs[i] = Frame(ps[i])
  BY <1>0, <1>1
<1>3. ASSUME NEW k \in 0..Len(ps)
      PROVE  Frames(SubSeq(ps, 1, k)) = FlattenSeq(SubSeq(fs, 1, k))
  <2> DEFINE t == SubSeq(ps, 1, k)
  <2>1. Len(t) = k /\ DOMAIN t = 1..k /\ \A i \in 1..k : t[i] = ps[i]
    BY <1>0, SubSeqProperties
  <2> DEFINE g == [i \in DOMAIN t |-> Frame(t[i])]
             u == SubSeq(fs, 1, k)
  <2>2. /\ \A i \in 1..k : fs[i] \in Seq(Byte)
        /\ \A i \in 1..k : i \in 1..Len(ps)
    BY <1>0, <1>1, <1>2
  <2>3. u \in Seq(Seq(Byte)) /\ Len(u) = k /\ \A i \in 1..k : u[i] = fs[i]
    <3> HIDE DEF fs
    <3> QED
      BY <1>0, <1>2, <2>2, SubSeqProperties
  <2>4. DOMAIN u = 1..k
    <3> HIDE DEF u
    <3> QED
      BY <2>3
  <2> HIDE DEF t
  <2>5. \A i \in 1..k : g[i] = u[i]
    <3> HIDE DEF u, fs
    <3> QED
      BY <1>2, <2>1, <2>2, <2>3
  <2>6. g = u
    <3>1. DOMAIN g = 1..k /\ g = [i \in 1..k |-> g[i]]
      BY <2>1
    <3>2. u = [i \in 1..k |-> u[i]]
      <4> HIDE DEF u
      <4> QED
        BY <2>3, <2>4
    <3> HIDE DEF g, u
    <3> QED
      BY <2>5, <3>1, <3>2
  <2> QED
    BY <2>6 DEF Frames, t
<1>4. Frames(ps) = FlattenSeq(fs)
  BY DEF Frames
<1> HIDE DEF fs
<1>5. Frames(SubSeq(ps, 1, n)) = FlattenSeq(SubSeq(fs, 1, n))
  BY <1>0, <1>3
<1>6. /\ Frames(ps) \in Seq(Byte) /\ Frames(SubSeq(ps, 1, n)) \in Seq(Byte)
      /\ Len(Frames(SubSeq(ps, 1, n))) <= Len(Frames(ps))
      /\ \A i \in 1..Len(Frames(SubSeq(ps, 1, n))) :
            Frames(ps)[i] = Frames(SubSeq(ps, 1, n))[i]
  BY <1>2, <1>4, <1>5, FlattenPrefix
<1>7. ASSUME n < Len(ps)
      PROVE  Frames(SubSeq(ps, 1, n + 1)) = Frames(SubSeq(ps, 1, n)) \o Frame(ps[n + 1])
  <2>1. n + 1 \in 0..Len(ps) /\ n + 1 \in 1..Len(ps) /\ n < Len(fs)
    BY <1>0, <1>2, <1>7
  <2>2. /\ SubSeq(fs, 1, n) \in Seq(Seq(Byte)) /\ fs[n + 1] \in Seq(Byte)
        /\ SubSeq(fs, 1, n + 1) = Append(SubSeq(fs, 1, n), fs[n + 1])
    BY <1>2, <2>1, PrefixAppend
  <2>3. FlattenSeq(SubSeq(fs, 1, n + 1)) = FlattenSeq(SubSeq(fs, 1, n)) \o fs[n + 1]
    BY <2>2, FlattenAppend
  <2>4. Frames(SubSeq(ps, 1, n + 1)) = FlattenSeq(SubSeq(fs, 1, n + 1)) /\ fs[n + 1] = Frame(ps[n + 1])
    BY <1>2, <1>3, <2>1
  <2> QED
    BY <1>5, <2>3, <2>4
<1> QED
  BY <1>6, <1>7

(* The length of the first n packets, and the packet after them.           *)
Pos(s, n) == Len(Frames(SubSeq(Sent[s], 1, n)))
More(s, n) == n < Len(Sent[s])
Cur(s, n) == Sent[s][n + 1]

(* What the stream holds after its first n packets: the next one, or what  *)
(* is sent after all packets.                                              *)
LEMMA StreamAt ==
    ASSUME NEW s \in Sockets, NEW n \in Nat, n <= Len(Sent[s])
    PROVE  /\ Frames(SubSeq(Sent[s], 1, n)) \in Seq(Byte)
           /\ Pos(s, n) \in Nat /\ Pos(s, n) <= Len(Stream(s))
           /\ \A i \in 1..Pos(s, n) : Stream(s)[i] = Frames(SubSeq(Sent[s], 1, n))[i]
           /\ More(s, n) =>
                /\ Cur(s, n) \in PacketType
                /\ Pos(s, n + 1) = Pos(s, n) + Len(Frame(Cur(s, n)))
                /\ Pos(s, n) + Len(Frame(Cur(s, n))) <= Len(Stream(s))
                /\ \A i \in 1..Len(Frame(Cur(s, n))) :
                    Stream(s)[Pos(s, n) + i] = Frame(Cur(s, n))[i]
           /\ ~More(s, n) =>
                /\ Len(Stream(s)) = Pos(s, n) + Len(Trailing[s])
                /\ \A i \in 1..Len(Trailing[s]) :
                    Stream(s)[Pos(s, n) + i] = Trailing[s][i]
<1> DEFINE ps == Sent[s]
           fs == Frames(SubSeq(ps, 1, n))
           p == ps[n + 1]
           pos == Len(fs)
           t == Trailing[s]
<1>0. ps \in Seq(PacketType) /\ t \in Seq(Byte) /\ Len(ps) \in Nat
  <2>1. ps \in Seq(PacketType) /\ t \in Seq(Byte)
    BY SentAssumption DEF PacketType
  <2> HIDE DEF ps
  <2> QED
    BY <2>1
<1>1. Stream(s) = Frames(ps) \o t
  BY DEF Stream, SentBytes, Frames
<1> HIDE DEF ps, t
<1>2. n <= Len(ps)
  BY DEF ps
<1>3. /\ Frames(ps) \in Seq(Byte) /\ fs \in Seq(Byte) /\ Len(fs) <= Len(Frames(ps))
      /\ \A i \in 1..Len(fs) : Frames(ps)[i] = fs[i]
  BY <1>0, <1>2, FramesFacts
<1>4. /\ Stream(s) \in Seq(Byte) /\ Len(Stream(s)) = Len(Frames(ps)) + Len(t)
      /\ Len(Frames(ps)) \in Nat /\ Len(t) \in Nat
      /\ \A i \in 1..Len(Frames(ps)) : Stream(s)[i] = Frames(ps)[i]
      /\ \A i \in 1..Len(t) : Stream(s)[Len(Frames(ps)) + i] = t[i]
  BY <1>0, <1>1, <1>3, ConcatAt
<1>5. Len(fs) \in Nat
  BY <1>3
<1>6. ASSUME n < Len(ps)
      PROVE  /\ p \in PacketType
             /\ Frames(SubSeq(ps, 1, n + 1)) = fs \o Frame(p)
             /\ Len(Frames(SubSeq(ps, 1, n + 1))) = pos + Len(Frame(p))
             /\ pos + Len(Frame(p)) <= Len(Stream(s))
             /\ \A i \in 1..Len(Frame(p)) : Stream(s)[pos + i] = Frame(p)[i]
  <2> DEFINE g == Frames(SubSeq(ps, 1, n + 1))
             f == Frame(p)
  <2>1. g = fs \o f
    BY <1>0, <1>2, <1>6, FramesFacts
  <2>2. p \in PacketType
    <3>1. n + 1 \in 1..Len(ps)
      BY <1>0, <1>6
    <3> QED
      BY <1>0, <3>1
  <2>3. f \in Seq(Byte)
    <3> HIDE DEF p
    <3> QED
      BY <2>2, FrameType DEF PacketType
  <2>4. n + 1 \in Nat /\ n + 1 <= Len(ps)
    BY <1>0, <1>6
  <2>5. Len(g) <= Len(Frames(ps)) /\ \A i \in 1..Len(g) : Frames(ps)[i] = g[i]
    BY <1>0, <2>4, FramesFacts
  <2> HIDE DEF f, g, fs
  <2>6. /\ Len(g) = pos + Len(f) /\ Len(f) \in Nat
        /\ \A i \in 1..Len(f) : g[pos + i] = f[i]
    BY <1>3, <2>1, <2>3, ConcatAt
  <2>7. pos + Len(f) <= Len(Stream(s))
    BY <1>4, <1>5, <2>5, <2>6
  <2>8. ASSUME NEW i \in 1..Len(f) PROVE Stream(s)[pos + i] = f[i]
    <3>1. pos + i \in 1..Len(g) /\ pos + i \in 1..Len(Frames(ps))
      BY <1>4, <1>5, <2>5, <2>6
    <3> QED
      BY <1>4, <2>5, <2>6, <3>1
  <2> QED
    BY <2>1, <2>2, <2>6, <2>7, <2>8 DEF f, g
<1>7. ASSUME n = Len(ps)
      PROVE  /\ Len(Stream(s)) = pos + Len(t)
             /\ \A i \in 1..Len(t) : Stream(s)[pos + i] = t[i]
  <2>1. fs = Frames(ps)
    <3>1. SubSeq(ps, 1, n) = ps
      BY <1>0, <1>7, SubSeqFull
    <3> QED
      BY <3>1
  <2> QED
    BY <1>4, <2>1
<1> HIDE DEF fs
<1>8. pos <= Len(Stream(s)) /\ \A i \in 1..pos : Stream(s)[i] = fs[i]
  BY <1>3, <1>4, <1>5
<1>9. pos = Pos(s, n) /\ p = Cur(s, n) /\ (More(s, n) <=> n < Len(ps))
      /\ fs = Frames(SubSeq(Sent[s], 1, n)) /\ t = Trailing[s]
      /\ Len(Frames(SubSeq(ps, 1, n + 1))) = Pos(s, n + 1)
  BY DEF ps, fs, t, Pos, More, Cur
<1>10. ~More(s, n) => n = Len(ps)
  BY <1>0, <1>2, <1>9
<1>11. fs \in Seq(Byte) /\ pos \in Nat
  BY <1>3, <1>5
<1> HIDE DEF p, pos
<1>12. CASE More(s, n)
  BY <1>6, <1>8, <1>9, <1>11, <1>12
<1>13. CASE ~More(s, n)
  BY <1>7, <1>8, <1>9, <1>10, <1>11, <1>13
<1> QED
  BY <1>12, <1>13

-----------------------------------------------------------------------------
(* The digits of a length                                                  *)

(* The first byte of an encoding, and the rest of it.                      *)
LEMMA EncodeDigits ==
    ASSUME NEW m \in Nat
    PROVE  /\ Len(encode(m)) \in Nat /\ Len(encode(m)) >= 1
           /\ m < Base => Len(encode(m)) = 1 /\ encode(m)[1] = m
           /\ m >= Base =>
                /\ Len(encode(m \div Base)) \in Nat
                /\ Len(encode(m)) = 1 + Len(encode(m \div Base))
                /\ encode(m)[1] = (m % Base) + Base
                /\ \A i \in 1..Len(encode(m \div Base)) :
                    encode(m)[1 + i] = encode(m \div Base)[i]
<1> DEFINE e == encode(m)
           k == m \div Base
           r == encode(k)
           c == (m % Base) + Base
<1>0. Base \in Nat /\ Base >= 2
  BY BaseAssumption
<1>1. /\ e \in Seq(Byte)
      /\ m < Base => e = <<m>>
      /\ m >= Base => e = <<c>> \o r
  BY EncodeStep
<1>2. k \in Nat
  BY DigitFacts
<1> HIDE DEF k, c
<1>3. r \in Seq(Byte)
  BY <1>2, EncodeStep
<1> HIDE DEF e, r
<1>4. CASE m < Base
  <2>1. e = <<m>>
    BY <1>1, <1>4
  <2>2. Len(e) = 1 /\ e[1] = m
    BY <2>1
  <2> QED
    BY <1>0, <1>4, <2>2 DEF e
<1>5. CASE m >= Base
  <2>1. e = <<c>> \o r
    BY <1>1, <1>5
  <2>2. /\ Len(r) \in Nat /\ Len(e) = 1 + Len(r) /\ e[1] = c
        /\ \A i \in 1..Len(r) : e[1 + i] = r[i]
    BY <1>3, <2>1
  <2>3. Len(e) \in Nat /\ Len(e) >= 1
    BY <2>2
  <2> QED
    BY <1>0, <1>5, <2>2, <2>3 DEF e, r, k, c
<1> QED
  BY <1>0, <1>4, <1>5

(* Reading one more digit: what is left of the number is shifted.          *)
LEMMA DecodeDigit ==
    ASSUME NEW m \in Nat, NEW value \in Nat, NEW mult \in Nat
    PROVE  /\ m < Base => value + (m % Base) * mult = value + mult * m
           /\ m >= Base =>
                /\ (m % Base) + Base >= Base
                /\ ((m % Base) + Base) % Base = m % Base
                /\ (value + (m % Base) * mult) + (mult * Base) * (m \div Base)
                        = value + mult * m
<1> DEFINE q == m \div Base
           r == m % Base
<1>0. Base \in Nat /\ Base >= 2
  BY BaseAssumption
<1>1. q \in Nat /\ r \in Nat /\ r < Base /\ m = Base * q + r
  BY <1>0, DigitFacts
<1>2. m < Base => r = m
  BY <1>0
<1>3. (r + Base) % Base = r
  <2> HIDE DEF q, r
  <2> QED
    BY <1>0, <1>1
<1> HIDE DEF q, r
<1>4. mult * m = mult * (Base * q) + mult * r
  BY <1>0, <1>1
<1>5. mult * (Base * q) = (mult * Base) * q
  BY <1>0, <1>1
<1>6. mult * r = r * mult /\ mult * r \in Nat /\ (mult * Base) * q \in Nat
  BY <1>0, <1>1
<1>7. (value + r * mult) + (mult * Base) * q = value + mult * m
  BY <1>4, <1>5, <1>6
<1>8. r + Base >= Base
  BY <1>0, <1>1
<1>9. m < Base => r * mult = mult * m
  BY <1>2, <1>6
<1> QED
  BY <1>3, <1>7, <1>8, <1>9 DEF q, r

-----------------------------------------------------------------------------
(* What is kept of the packets                                             *)

(* The bytes of the length of the packet after the first n.                *)
LenBytes(s, n) == encode(Len(Cur(s, n).body))

(* What was received after n packets, r bytes in all, is in the queue q.   *)
AllKept(s, n, r, q) ==
    /\ r = Pos(s, n) + Len(q.header) + Len(q.data)
    /\ \A i \in 1..Len(q.header) : Stream(s)[Pos(s, n) + i] = q.header[i]
    /\ \A i \in 1..Len(q.data) : Stream(s)[Pos(s, n) + Len(q.header) + i] = q.data[i]

(* q holds data only after the whole header, less than the whole body, in  *)
(* a buffer that will not grow.                                            *)
DataFits(s, n, q) ==
    /\ More(s, n) => Len(q.header) <= 1 + Len(LenBytes(s, n))
    /\ q.data # <<>> =>
        /\ More(s, n) /\ Len(q.header) = 1 + Len(LenBytes(s, n))
        /\ Len(q.data) < Len(Cur(s, n).body)
        /\ Len(Cur(s, n).body) <= q.buflen

Kept(s, n, r, q) ==
    n \in Nat /\ n <= Len(Sent[s]) /\ AllKept(s, n, r, q) /\ DataFits(s, n, q)

(* Where the bytes of the next packet are.                                 *)
LEMMA PosFacts ==
    ASSUME NEW s \in Sockets, NEW n \in Nat, n <= Len(Sent[s])
    PROVE  /\ Pos(s, n) \in Nat /\ Pos(s, n) <= Len(Stream(s))
           /\ Len(Stream(s)) \in Nat /\ Stream(s) \in Seq(Byte)
           /\ More(s, n) =>
                /\ Cur(s, n) \in PacketType /\ Cur(s, n).body \in Seq(Byte)
                /\ Len(Cur(s, n).body) \in Nat
                /\ LenBytes(s, n) \in Seq(Byte) /\ Len(LenBytes(s, n)) \in Nat
                /\ Pos(s, n + 1)
                    = Pos(s, n) + 1 + Len(LenBytes(s, n)) + Len(Cur(s, n).body)
                /\ Pos(s, n + 1) <= Len(Stream(s))
                /\ Stream(s)[Pos(s, n) + 1] = Cur(s, n).header
                /\ \A i \in 1..Len(LenBytes(s, n)) :
                    Stream(s)[Pos(s, n) + 1 + i] = LenBytes(s, n)[i]
                /\ \A i \in 1..Len(Cur(s, n).body) :
                    Stream(s)[Pos(s, n) + 1 + Len(LenBytes(s, n)) + i]
                        = Cur(s, n).body[i]
           /\ ~More(s, n) =>
                /\ Len(Stream(s)) = Pos(s, n) + Len(Trailing[s])
                /\ Len(Trailing[s]) \in Nat
                /\ \A i \in 1..Len(Trailing[s]) :
                    Stream(s)[Pos(s, n) + i] = Trailing[s][i]
<1> DEFINE p == Cur(s, n)
           e == LenBytes(s, n)
           f == Frame(p)
           S == Stream(s)
           b == p.body
           k == Pos(s, n)
<1>1. S \in Seq(Byte) /\ Len(S) \in Nat
  BY StreamType
<1>2. k \in Nat /\ k <= Len(S)
  BY StreamAt
<1>3. ASSUME More(s, n)
      PROVE  /\ p \in PacketType /\ b \in Seq(Byte)
             /\ Len(b) \in Nat /\ e \in Seq(Byte) /\ Len(e) \in Nat
             /\ Pos(s, n + 1) = k + 1 + Len(e) + Len(b) /\ Pos(s, n + 1) <= Len(S)
             /\ S[k + 1] = p.header
             /\ \A i \in 1..Len(e) : S[k + 1 + i] = e[i]
             /\ \A i \in 1..Len(b) : S[k + 1 + Len(e) + i] = b[i]
  <2>1. /\ p \in PacketType /\ Pos(s, n + 1) = k + Len(f) /\ k + Len(f) <= Len(S)
        /\ \A i \in 1..Len(f) : S[k + i] = f[i]
    BY <1>3, StreamAt
  <2>2. e = encode(Len(p.body))
    BY DEF LenBytes
  <2> HIDE DEF p, S, k
  <2>3. /\ b \in Seq(Byte) /\ Len(b) \in Nat /\ encode(Len(p.body)) \in Seq(Byte)
        /\ Len(encode(Len(p.body))) \in Nat
        /\ Len(f) = 1 + Len(encode(Len(p.body))) + Len(b) /\ f[1] = p.header
        /\ \A i \in 1..Len(encode(Len(p.body))) : f[1 + i] = encode(Len(p.body))[i]
        /\ \A i \in 1..Len(b) : f[1 + Len(encode(Len(p.body))) + i] = b[i]
    BY <2>1, FrameBytes
  <2>4. /\ e \in Seq(Byte) /\ Len(e) \in Nat /\ Len(f) = 1 + Len(e) + Len(b)
        /\ \A i \in 1..Len(e) : f[1 + i] = e[i]
        /\ \A i \in 1..Len(b) : f[1 + Len(e) + i] = b[i]
    <3> HIDE DEF f, e, b
    <3> QED
      BY <2>2, <2>3
  <2> HIDE DEF f, e, b
  <2>5. Len(f) = 1 + Len(e) + Len(b) /\ Len(e) \in Nat /\ Len(b) \in Nat
    BY <2>3, <2>4
  <2>6. S[k + 1] = p.header
    <3>1. 1 \in 1..Len(f)
      BY <2>5
    <3> QED
      BY <2>1, <2>3, <3>1
  <2>7. ASSUME NEW i \in 1..Len(e) PROVE S[k + 1 + i] = e[i]
    <3>1. 1 + i \in 1..Len(f) /\ k + 1 + i = k + (1 + i)
      BY <1>2, <2>5
    <3>2. S[k + (1 + i)] = f[1 + i]
      BY <2>1, <3>1
    <3> QED
      BY <2>4, <3>1, <3>2
  <2>8. ASSUME NEW i \in 1..Len(b) PROVE S[k + 1 + Len(e) + i] = b[i]
    <3>1. /\ 1 + Len(e) + i \in 1..Len(f)
          /\ k + 1 + Len(e) + i = k + (1 + Len(e) + i)
      BY <1>2, <2>5
    <3>2. S[k + (1 + Len(e) + i)] = f[1 + Len(e) + i]
      BY <2>1, <3>1
    <3> QED
      BY <2>4, <3>1, <3>2
  <2>9. k + Len(f) = k + 1 + Len(e) + Len(b)
    BY <1>2, <2>5
  <2> QED
    BY <2>1, <2>3, <2>4, <2>6, <2>7, <2>8, <2>9
<1>4. ASSUME ~More(s, n)
      PROVE  /\ Len(S) = k + Len(Trailing[s]) /\ Len(Trailing[s]) \in Nat
             /\ \A i \in 1..Len(Trailing[s]) : S[k + i] = Trailing[s][i]
  <2>1. Trailing[s] \in Seq(Byte)
    BY SentAssumption
  <2>2. Len(Trailing[s]) \in Nat
    BY <2>1
  <2> QED
    BY <1>4, <2>2, StreamAt
<1> HIDE DEF p, e, S, k
<1>5. CASE More(s, n)
  BY <1>1, <1>2, <1>3, <1>5 DEF p, e, S, k
<1>6. CASE ~More(s, n)
  BY <1>1, <1>2, <1>4, <1>6 DEF S, k
<1> QED
  BY <1>5, <1>6

(* One more byte of the header was received.                               *)
LEMMA HeaderGrows ==
    ASSUME NEW s \in Sockets, NEW n, NEW r, NEW q \in Queue, NEW q2 \in Queue,
           Kept(s, n, r, q), q.data = <<>>, r + 1 <= Len(Stream(s)),
           More(s, n) => Len(q.header) <= Len(LenBytes(s, n)),
           q2.header = Append(q.header, Stream(s)[r + 1]), q2.data = <<>>
    PROVE  Kept(s, n, r + 1, q2)
<1> DEFINE h == q.header
           g == q2.header
           k == Pos(s, n)
           S == Stream(s)
           e == LenBytes(s, n)
<1>0. n \in Nat /\ n <= Len(Sent[s])
  BY DEF Kept
<1>1. /\ k \in Nat /\ Len(S) \in Nat /\ S \in Seq(Byte)
      /\ More(s, n) => Len(e) \in Nat
  BY <1>0, PosFacts
<1>2. /\ r = k + Len(h) + Len(q.data)
      /\ \A i \in 1..Len(h) : S[k + i] = h[i]
  BY DEF Kept, AllKept
<1>3. h \in Seq(Byte) /\ Len(h) \in Nat
  <2>1. h \in Seq(Byte)
    BY DEF Queue
  <2> HIDE DEF h
  <2> QED
    BY <2>1
<1> HIDE DEF k, S
<1>4. r = k + Len(h) /\ r \in Nat
  BY <1>1, <1>2, <1>3
<1>5. S[r + 1] \in Byte
  BY <1>1, <1>4 DEF S
<1>6. g = Append(h, S[r + 1])
  BY DEF S
<1> HIDE DEF h, g, e
<1>7. /\ Len(g) = Len(h) + 1
      /\ \A i \in 1..Len(h) : g[i] = h[i]
      /\ g[Len(h) + 1] = S[r + 1]
  BY <1>3, <1>5, <1>6, AppendProperties
<1>8. ASSUME NEW i \in 1..Len(g) PROVE S[k + i] = g[i]
  <2>1. CASE i \in 1..Len(h)
    BY <1>2, <1>7, <2>1
  <2>2. CASE i = Len(h) + 1
    <3>1. k + i = r + 1
      BY <1>1, <1>3, <1>4, <2>2
    <3> QED
      BY <1>7, <2>2, <3>1
  <2> QED
    BY <1>3, <1>7, <2>1, <2>2
<1>9. r + 1 = k + Len(g) + Len(q2.data)
  <2>1. Len(q2.data) = 0
    OBVIOUS
  <2>2. Len(g) = Len(h) + 1
    BY <1>7
  <2> QED
    BY <1>1, <1>3, <1>4, <2>1, <2>2
<1>10. AllKept(s, n, r + 1, q2)
  <2>1. \A i \in 1..Len(q2.data) : FALSE
    OBVIOUS
  <2> QED
    BY <1>8, <1>9, <2>1 DEF AllKept, k, g, S
<1>11. More(s, n) => Len(g) <= 1 + Len(e)
  <2>1. Len(g) = Len(h) + 1
    BY <1>7
  <2> QED
    BY <1>1, <1>3, <2>1 DEF h, e
<1>12. DataFits(s, n, q2)
  BY <1>11 DEF DataFits, g, e
<1> QED
  BY <1>0, <1>10, <1>12 DEF Kept

(* The bytes of the body that were received, and k more.                   *)
NewData(s, r, q, k) == q.data \o SubSeq(Stream(s), r + 1, r + k)

(* They are the first bytes of the body, where they are in the stream.     *)
PartOfBody(s, n, r, q, k) ==
    /\ NewData(s, r, q, k) \in Seq(Byte) /\ r \in Nat
    /\ Len(NewData(s, r, q, k)) = Len(q.data) + k
    /\ r + k = Pos(s, n) + Len(q.header) + Len(NewData(s, r, q, k))
    /\ \A i \in 1..Len(NewData(s, r, q, k)) :
        /\ Stream(s)[Pos(s, n) + Len(q.header) + i] = NewData(s, r, q, k)[i]
        /\ NewData(s, r, q, k)[i] = Cur(s, n).body[i]

LEMMA MoreData ==
    ASSUME NEW s \in Sockets, NEW n, NEW r, NEW q \in Queue, NEW k \in Nat,
           Kept(s, n, r, q), More(s, n), Len(q.header) = 1 + Len(LenBytes(s, n)),
           Len(q.data) + k <= Len(Cur(s, n).body)
    PROVE  PartOfBody(s, n, r, q, k)
<1> DEFINE h == q.header
           a == q.data
           p == Pos(s, n)
           S == Stream(s)
           b == Cur(s, n).body
           l == Len(LenBytes(s, n))
           w == SubSeq(S, r + 1, r + k)
           d == NewData(s, r, q, k)
<1>0. n \in Nat /\ n <= Len(Sent[s])
  BY DEF Kept
<1>1. /\ p \in Nat /\ Len(S) \in Nat /\ S \in Seq(Byte) /\ l \in Nat
      /\ Len(b) \in Nat /\ b \in Seq(Byte)
      /\ p + 1 + l + Len(b) <= Len(S)
  BY <1>0, PosFacts
<1>2. \A i \in 1..Len(b) : S[p + 1 + l + i] = b[i]
  BY <1>0, PosFacts
<1>3. /\ r = p + Len(h) + Len(a)
      /\ \A i \in 1..Len(a) : S[p + Len(h) + i] = a[i]
  BY DEF Kept, AllKept
<1>4. Len(a) \in Nat /\ Len(h) = 1 + l /\ Len(a) + k <= Len(b)
  <2>1. a \in Body
    BY DEF Queue
  <2> HIDE DEF a
  <2>2. a \in Seq(Byte \cup {NULL}) /\ Len(a) \in Nat
    BY <2>1 DEF Body
  <2> QED
    BY <2>1, <2>2 DEF a
<1>5. a \in Seq(Byte \cup {NULL})
  BY DEF Queue, Body
<1>6. d = a \o w
  BY DEF NewData
<1> HIDE DEF h, a, p, S, b, l, d
<1>7. r \in Nat /\ r = p + 1 + l + Len(a) /\ r + k <= Len(S)
  BY <1>1, <1>3, <1>4
<1>8. /\ w \in Seq(Byte) /\ Len(w) = k
      /\ \A i \in 1..k : w[i] = S[r + i]
  <2>1. \A i \in (r + 1)..(r + k) : S[i] \in Byte
    BY <1>1, <1>7
  <2>2. /\ w \in Seq(Byte) /\ Len(w) = (IF r + 1 <= r + k THEN (r + k) - (r + 1) + 1 ELSE 0)
        /\ \A i \in 1..((r + k) - (r + 1) + 1) : w[i] = S[(r + 1) + i - 1]
    BY <1>1, <1>7, <2>1, SubSeqProperties
  <2>3. (r + k) - (r + 1) + 1 = k
    BY <1>7
  <2>4. Len(w) = k
    BY <1>7, <2>2, <2>3
  <2>5. ASSUME NEW i \in 1..k PROVE w[i] = S[r + i]
    <3>1. (r + 1) + i - 1 = r + i
      BY <1>7
    <3> QED
      BY <2>2, <2>3, <3>1
  <2> QED
    BY <2>2, <2>4, <2>5
<1> HIDE DEF w
<1>9. ASSUME NEW i \in 1..Len(a) PROVE a[i] = b[i]
  <2>1. i \in 1..Len(b) /\ p + 1 + l + i = p + Len(h) + i
    BY <1>1, <1>4
  <2> QED
    BY <1>2, <1>3, <2>1
<1>10. ASSUME NEW i \in 1..k PROVE w[i] = b[Len(a) + i]
  <2>1. Len(a) + i \in 1..Len(b) /\ p + 1 + l + (Len(a) + i) = r + i
    BY <1>1, <1>4, <1>7
  <2> QED
    BY <1>2, <1>8, <2>1
<1>11. a \in Seq(Byte)
  <2>1. \A i \in 1..Len(a) : a[i] \in Byte
    <3>1. \A i \in 1..Len(a) : i \in 1..Len(b)
      BY <1>1, <1>4
    <3> QED
      BY <1>1, <1>9, <3>1
  <2> QED
    BY <1>5, <2>1
<1>12. /\ d \in Seq(Byte) /\ Len(d) = Len(a) + Len(w)
       /\ \A i \in 1..Len(a) : d[i] = a[i]
       /\ \A i \in 1..Len(w) : d[Len(a) + i] = w[i]
  <2>1. /\ a \o w \in Seq(Byte) /\ Len(a \o w) = Len(a) + Len(w)
        /\ \A i \in 1..Len(a) : (a \o w)[i] = a[i]
        /\ \A i \in 1..Len(w) : (a \o w)[Len(a) + i] = w[i]
    <3>1. a \in Seq(Byte) /\ w \in Seq(Byte)
      BY <1>8, <1>11
    <3> QED
      BY <3>1, ConcatAt
  <2> QED
    BY <1>6, <2>1
<1>13. ASSUME NEW i \in 1..Len(d)
       PROVE  S[p + Len(h) + i] = d[i] /\ d[i] = b[i]
  <2>0. Len(d) = Len(a) + k
    BY <1>8, <1>12
  <2>1. d[i] = b[i]
    <3>1. CASE i \in 1..Len(a)
      BY <1>9, <1>12, <3>1
    <3>2. CASE i \notin 1..Len(a)
      <4> DEFINE j == i - Len(a)
      <4>1. j \in 1..k /\ i = Len(a) + j
        BY <1>4, <2>0, <3>2
      <4> HIDE DEF j
      <4> QED
        BY <1>8, <1>10, <1>12, <4>1
    <3> QED
      BY <3>1, <3>2
  <2>2. i \in 1..Len(b) /\ p + 1 + l + i = p + Len(h) + i
    BY <1>1, <1>4, <2>0
  <2> QED
    BY <1>2, <2>1, <2>2
<1>14. Len(d) = Len(a) + k /\ r + k = p + Len(h) + Len(d)
  <2>1. Len(d) = Len(a) + k
    BY <1>8, <1>12
  <2> QED
    BY <1>1, <1>4, <1>7, <2>1
<1> QED
  BY <1>7, <1>12, <1>13, <1>14 DEF h, a, p, S, b, d, PartOfBody

(* Part of the body was received.                                          *)
LEMMA DataGrows ==
    ASSUME NEW s \in Sockets, NEW n, NEW r, NEW q \in Queue, NEW k \in Nat,
           Kept(s, n, r, q), More(s, n), Len(q.header) = 1 + Len(LenBytes(s, n)),
           Len(q.data) + k < Len(Cur(s, n).body), NEW q2,
           q2.header = q.header, q2.data = NewData(s, r, q, k),
           Len(Cur(s, n).body) <= q2.buflen
    PROVE  Kept(s, n, r + k, q2)
<1> DEFINE d == NewData(s, r, q, k)
<1>0. n \in Nat /\ n <= Len(Sent[s])
  BY DEF Kept
<1>1. Len(q.data) \in Nat /\ Len(Cur(s, n).body) \in Nat
  <2>1. q.data \in Body
    BY DEF Queue
  <2>2. Len(q.data) \in Nat
    BY <2>1 DEF Body
  <2> QED
    BY <1>0, <2>2, PosFacts
<1>2. Len(q.data) + k <= Len(Cur(s, n).body)
  BY <1>1
<1>3. /\ Len(d) = Len(q.data) + k
      /\ r + k = Pos(s, n) + Len(q.header) + Len(d)
      /\ \A i \in 1..Len(d) : Stream(s)[Pos(s, n) + Len(q.header) + i] = d[i]
  <2>1. PartOfBody(s, n, r, q, k)
    BY <1>2, MoreData
  <2> QED
    BY <2>1 DEF PartOfBody
<1>4. \A i \in 1..Len(q.header) : Stream(s)[Pos(s, n) + i] = q.header[i]
  BY DEF Kept, AllKept
<1>5. AllKept(s, n, r + k, q2)
  <2> HIDE DEF d
  <2> QED
    BY <1>3, <1>4 DEF AllKept, d
<1>6. DataFits(s, n, q2)
  <2>1. More(s, n) => Len(q.header) <= 1 + Len(LenBytes(s, n))
    BY DEF Kept, DataFits
  <2> QED
    BY <1>3, <2>1 DEF DataFits
<1> QED
  BY <1>0, <1>5, <1>6 DEF Kept

(* All of the body was received: the next packet starts here.              *)
LEMMA PacketDone ==
    ASSUME NEW s \in Sockets, NEW n, NEW r, NEW q \in Queue, NEW k \in Nat,
           Kept(s, n, r, q), More(s, n), Len(q.header) = 1 + Len(LenBytes(s, n)),
           Len(q.data) + k = Len(Cur(s, n).body),
           NEW q2, q2.header = <<>>, q2.data = <<>>
    PROVE  /\ NewData(s, r, q, k) = Cur(s, n).body
           /\ Kept(s, n + 1, r + k, q2)
<1> DEFINE d == NewData(s, r, q, k)
           b == Cur(s, n).body
           l == Len(LenBytes(s, n))
<1>0. n \in Nat /\ n <= Len(Sent[s])
  BY DEF Kept
<1>1. Len(q.data) \in Nat
  <2>1. q.data \in Body
    BY DEF Queue
  <2> QED
    BY <2>1 DEF Body
<1>2. /\ Len(b) \in Nat /\ b \in Seq(Byte) /\ l \in Nat /\ Pos(s, n) \in Nat
      /\ Pos(s, n + 1) = Pos(s, n) + 1 + l + Len(b)
  BY <1>0, PosFacts
<1>3. Len(q.data) + k <= Len(b)
  BY <1>1, <1>2
<1>4. /\ d \in Seq(Byte) /\ Len(d) = Len(q.data) + k
      /\ r + k = Pos(s, n) + Len(q.header) + Len(d)
      /\ \A i \in 1..Len(d) : d[i] = b[i]
  <2>1. PartOfBody(s, n, r, q, k)
    BY <1>3, MoreData
  <2> QED
    BY <2>1 DEF PartOfBody
<1> HIDE DEF d, b, l
<1>5. d = b
  <2>1. Len(d) = Len(b)
    BY <1>4 DEF b
  <2> QED
    BY <1>2, <1>4, <2>1, SeqEqual
<1>6. r + k = Pos(s, n + 1)
  <2>1. r + k = Pos(s, n) + Len(q.header) + Len(d) /\ Len(q.header) = 1 + l /\ Len(d) = Len(b)
    BY <1>4, <1>5 DEF l
  <2> QED
    BY <1>2, <2>1
<1>7. Pos(s, n + 1) \in Nat /\ n + 1 \in Nat /\ n + 1 <= Len(Sent[s])
  <2>1. Len(Sent[s]) \in Nat
    <3>1. Sent[s] \in Seq([header : Byte, body : Seq(Byte)])
      BY SentAssumption
    <3> QED
      BY <3>1, LenProperties
  <2>2. n \in Nat /\ n < Len(Sent[s]) => n + 1 \in Nat /\ n + 1 <= Len(Sent[s])
    BY <2>1
  <2>3. Pos(s, n + 1) \in Nat
    BY <1>2
  <2> QED
    BY <1>0, <2>2, <2>3 DEF More
<1>8. Kept(s, n + 1, r + k, q2)
  <2>1. Len(q2.header) = 0 /\ Len(q2.data) = 0
    OBVIOUS
  <2>2. AllKept(s, n + 1, r + k, q2)
    <3>1. r + k = Pos(s, n + 1) + Len(q2.header) + Len(q2.data)
      BY <1>6, <1>7, <2>1
    <3>2. 1..0 = {}
      OBVIOUS
    <3> QED
      BY <2>1, <3>1, <3>2 DEF AllKept
  <2>3. More(s, n + 1) => 0 <= 1 + Len(LenBytes(s, n + 1))
    <3>1. More(s, n + 1) => Len(LenBytes(s, n + 1)) \in Nat
      BY <1>7, PosFacts
    <3> QED
      BY <3>1
  <2> QED
    BY <1>7, <2>1, <2>2, <2>3 DEF Kept, DataFits
<1> QED
  BY <1>5, <1>8 DEF d, b

-----------------------------------------------------------------------------
(* What the active call has decoded                                        *)

(* How many bytes of the header the call c has read or read again.         *)
Consumed(c) == IF c.pc = "header" THEN 0 ELSE 1 + c.len

(* m is the number the digits make that call c has not read yet.           *)
Left(s, n, c, m) ==
    /\ c.value + c.mult * m = Len(Cur(s, n).body)
    /\ Len(LenBytes(s, n)) = c.len + Len(encode(m))
    /\ \A i \in 1..Len(encode(m)) : LenBytes(s, n)[c.len + i] = encode(m)[i]

(* The call c has decoded what it has read of the packet after the first n. *)
Decoded(s, n, c) ==
    /\ c.pc = "header" => c.len = 0 /\ c.value = 0 /\ c.mult = 1
    /\ c.pc \in {"length", "data"} => c.header = Stream(s)[Pos(s, n) + 1]
    /\ c.pc = "data" => /\ More(s, n) /\ c.value = Len(Cur(s, n).body)
                        /\ c.len = Len(LenBytes(s, n))
    /\ c.pc = "length" /\ More(s, n) => \E m \in Nat : Left(s, n, c, m)

(* The call decodes the next byte.                                         *)
LEMMA DecodeNext ==
    ASSUME TrailingIsNoPacket, NEW s \in Sockets, NEW n \in Nat, n <= Len(Sent[s]),
           call \in Calls, Reading, Decoded(s, n, call),
           Pos(s, n) + Consumed(call) + 1 <= Len(Stream(s)),
           NEW c, c = Stream(s)[Pos(s, n) + Consumed(call) + 1], useChar(c)
    PROVE  /\ Decoded(s, n, call') /\ Consumed(call') = Consumed(call) + 1
           /\ Consumed(call) \in Nat
           /\ More(s, n) => Consumed(call) <= Len(LenBytes(s, n))
<1> DEFINE p == Pos(s, n)
           S == Stream(s)
           e == LenBytes(s, n)
           L == Len(e)
           B == Len(Cur(s, n).body)
           len == call.len
           v == call.value
           u == call.mult
<1>0. Base \in Nat /\ Base >= 2
  BY BaseAssumption
<1>1. p \in Nat /\ Len(S) \in Nat /\ S \in Seq(Byte)
  BY PosFacts
<1>2. More(s, n) => L \in Nat /\ B \in Nat /\ e = encode(B)
  BY PosFacts DEF LenBytes
<1>3. len \in 0..4 /\ v \in Nat /\ u \in Nat
  BY DEF Calls, MAX_NO_OF_REMAINING_LENGTH_BYTES
<1>4. CASE call.pc = "header"
  <2>1. Consumed(call) = 0 /\ len = 0 /\ v = 0 /\ u = 1 /\ c = S[p + 1]
    BY <1>1, <1>4 DEF Consumed, Decoded
  <2>2. call' = [call EXCEPT !.pc = "length", !.header = c]
    BY <1>4 DEF useChar
  <2>3. /\ call'.pc = "length" /\ call'.header = c /\ call'.len = 0
        /\ call'.value = 0 /\ call'.mult = 1
    BY <2>1, <2>2 DEF Calls
  <2>4. Consumed(call') = 1
    BY <2>3 DEF Consumed
  <2>5. More(s, n) => Left(s, n, call', B)
    <3> SUFFICES ASSUME More(s, n) PROVE Left(s, n, call', B)
      OBVIOUS
    <3>1. B \in Nat /\ L \in Nat /\ e = encode(B)
      BY <1>2
    <3> HIDE DEF B, e
    <3>2. 0 + 1 * B = B /\ L = 0 + Len(encode(B))
      BY <3>1
    <3>3. \A i \in 1..Len(encode(B)) : e[0 + i] = encode(B)[i]
      BY <3>1
    <3> QED
      BY <2>3, <3>2, <3>3 DEF Left, B, e
  <2>6. More(s, n) => 0 <= L
    BY <1>2
  <2>7. More(s, n) => \E m \in Nat : Left(s, n, call', m)
    BY <1>2, <2>5
  <2> QED
    BY <2>1, <2>3, <2>4, <2>6, <2>7 DEF Decoded
<1>5. CASE call.pc = "length" /\ call.len < 4
  <2>1. /\ Consumed(call) = 1 + len /\ c = S[p + (1 + len) + 1] /\ len \in 0..3
        /\ p + (1 + len) + 1 <= Len(S)
    BY <1>3, <1>5 DEF Consumed
  <2> DEFINE i == len + 1
  <2>2. i \in 1..4 /\ p + (1 + len) + 1 = p + 1 + i /\ i + 1 \in 2..5
        /\ p + 1 + i = p + (i + 1)
    BY <1>1, <2>1
  <2>3. /\ call'.pc = (IF c >= Base THEN "length" ELSE "data")
        /\ call'.header = call.header /\ call'.len = i
        /\ call'.value = v + (c % Base) * u /\ call'.mult = u * Base
    BY <1>5 DEF useChar, Calls
  <2>4. Consumed(call') = Consumed(call) + 1
    BY <2>1, <2>2, <2>3 DEF Consumed
  <2>5. call'.header = S[p + 1]
    BY <1>5, <2>3 DEF Decoded
  <2>6. CASE ~More(s, n)
    <3>1. /\ Len(S) = p + Len(Trailing[s]) /\ Len(Trailing[s]) \in Nat
          /\ \A j \in 1..Len(Trailing[s]) : S[p + j] = Trailing[s][j]
      BY <2>6, PosFacts
    <3>2. i + 1 \in 1..Len(Trailing[s])
      <4>1. p + (i + 1) <= p + Len(Trailing[s]) /\ Len(Trailing[s]) \in Nat
        BY <2>1, <2>2, <3>1
      <4> HIDE DEF i
      <4> QED
        BY <1>1, <2>2, <4>1
    <3>3. c = Trailing[s][i + 1]
      <4> HIDE DEF i, p
      <4> QED
        BY <2>1, <2>2, <3>1, <3>2
    <3>4. c >= Base
      <4>1. i + 1 <= Len(Trailing[s])
        BY <2>2, <3>1, <3>2
      <4> HIDE DEF i
      <4> QED
        BY <2>2, <3>3, <4>1 DEF TrailingIsNoPacket
    <3> QED
      BY <2>1, <2>3, <2>4, <2>5, <2>6, <3>4 DEF Decoded
  <2>7. CASE More(s, n)
    <3>1. PICK m \in Nat : Left(s, n, call, m)
      BY <1>5, <2>7 DEF Decoded
    <3> DEFINE z == encode(m)
               k == m \div Base
               y == encode(k)
    <3>2. /\ v + u * m = B /\ L = len + Len(z)
          /\ \A j \in 1..Len(z) : e[len + j] = z[j]
      BY <3>1 DEF Left
    <3>3. L \in Nat /\ B \in Nat /\ Len(z) \in Nat /\ Len(z) >= 1
      BY <1>2, <2>7, EncodeDigits
    <3>4. i \in 1..L /\ 1 \in 1..Len(z)
      <4> HIDE DEF e, z
      <4> QED
        BY <2>1, <3>2, <3>3
    <3>5. c = e[i] /\ e[i] = z[1]
      <4>1. S[p + 1 + i] = e[i]
        BY <2>7, <3>4, PosFacts
      <4> HIDE DEF e, z
      <4> QED
        BY <2>1, <2>2, <3>2, <3>4, <4>1
    <3>6. Consumed(call) <= L
      <4> HIDE DEF e
      <4> QED
        BY <2>1, <3>3, <3>4
    <3>7. Consumed(call) \in Nat
      BY <2>1
    <3>8. CASE m < Base
      <4>1. c = m /\ Len(z) = 1
        BY <3>5, <3>8, EncodeDigits
      <4>2. ~(c >= Base)
        BY <1>0, <3>8, <4>1
      <4>3. v + (m % Base) * u = v + u * m
        BY <1>3, <3>8, DecodeDigit
      <4>4. i = L
        <5> HIDE DEF e, z
        <5> QED
          BY <2>1, <3>2, <3>3, <4>1
      <4>5. call'.pc = "data" /\ call'.value = B /\ call'.len = L
        <5> HIDE DEF B, e
        <5> QED
          BY <2>3, <3>2, <4>1, <4>2, <4>3, <4>4
      <4> QED
        BY <2>4, <2>5, <2>7, <3>6, <3>7, <4>5 DEF Decoded
    <3>9. CASE m >= Base
      <4>1. /\ c = (m % Base) + Base /\ Len(y) \in Nat /\ Len(z) = 1 + Len(y)
            /\ \A j \in 1..Len(y) : z[1 + j] = y[j]
        BY <3>5, <3>9, EncodeDigits
      <4>2. /\ c >= Base
            /\ (v + (c % Base) * u) + (u * Base) * k = v + u * m
        <5>1. /\ (m % Base) + Base >= Base /\ ((m % Base) + Base) % Base = m % Base
              /\ (v + (m % Base) * u) + (u * Base) * k = v + u * m
          BY <1>3, <3>9, DecodeDigit
        <5>2. c >= Base /\ c % Base = m % Base
          BY <4>1, <5>1
        <5> QED
          BY <5>1, <5>2
      <4>3. k \in Nat
        BY DigitFacts
      <4>4. call'.pc = "length"
        BY <2>3, <4>2
      <4>5. Left(s, n, call', k)
        <5>1. call'.value + call'.mult * k = B
          <6> HIDE DEF B, k
          <6> QED
            BY <2>3, <3>2, <4>2
        <5>2. L = call'.len + Len(y)
          <6>1. call'.len = i
            BY <2>3
          <6>2. L = len + Len(z) /\ Len(z) = 1 + Len(y) /\ Len(y) \in Nat
            BY <3>2, <4>1
          <6> HIDE DEF e, z, y
          <6> QED
            BY <2>1, <6>1, <6>2
        <5>3. ASSUME NEW j \in 1..Len(y) PROVE e[call'.len + j] = y[j]
          <6>1. call'.len = i
            BY <2>3
          <6>2. 1 + j \in 1..Len(z) /\ i + j = len + (1 + j)
            <7>1. Len(z) = 1 + Len(y) /\ Len(y) \in Nat
              BY <4>1
            <7> HIDE DEF y, z
            <7> QED
              BY <2>1, <7>1
          <6> HIDE DEF e, z, y, i
          <6> QED
            BY <3>2, <4>1, <6>1, <6>2
        <5> HIDE DEF k
        <5> QED
          BY <5>1, <5>2, <5>3 DEF Left
      <4> HIDE DEF k
      <4> QED
        BY <2>4, <2>5, <2>7, <3>6, <3>7, <4>3, <4>4, <4>5 DEF Decoded
    <3> QED
      BY <1>0, <3>8, <3>9
  <2> QED
    BY <2>6, <2>7
<1> QED
  BY <1>4, <1>5 DEF Reading, MAX_NO_OF_REMAINING_LENGTH_BYTES

-----------------------------------------------------------------------------
(* The invariant of the bytes                                              *)

(* The queue that holds what was read of a socket's next packet.           *)
Own(s) == IF queued(s) THEN queues[s]
          ELSE IF def_queue.socket = s THEN def_queue ELSE Fresh

Done(s) == Len(packets[s])
Active(s) == call.pc # "idle" /\ call.socket = s

(* The finished packets are the first ones sent.                           *)
InOrder(s) == packets[s] = SubSeq(Sent[s], 1, Done(s))

(* A call reads the header from its first byte; a queue that is not on the *)
(* list holds only header bytes, and all of them are read.                 *)
IndexRight(s) ==
    /\ Own(s).index = IF Active(s) THEN Consumed(call) ELSE 0
    /\ ~queued(s) => /\ queues[s] = Fresh /\ Own(s).data = <<>>
                     /\ Own(s).index = Len(Own(s).header)

SocketInv(s) == /\ InOrder(s) /\ IndexRight(s)
                /\ Kept(s, Done(s), received[s], Own(s))

IntactInv ==
    failed = {} =>
        /\ \A s \in Sockets : SocketInv(s)
        /\ call.pc # "idle" => Decoded(call.socket, Done(call.socket), call)

(* The types of the queue of a socket.                                     *)
LEMMA OwnFacts ==
    ASSUME NEW s \in Sockets, RInv
    PROVE  /\ Own(s) \in Queue
           /\ Own(s).header \in Seq(Byte) /\ Len(Own(s).header) \in Nat
           /\ Own(s).data \in Body /\ Len(Own(s).data) \in Nat
           /\ Own(s).index \in Nat /\ Own(s).index <= Len(Own(s).header)
           /\ Own(s).buflen \in Nat
           /\ received[s] \in Nat /\ arrived[s] \in Nat /\ received[s] <= arrived[s]
           /\ arrived[s] <= Len(Stream(s)) /\ Len(Stream(s)) \in Nat
<1> DEFINE q == Own(s)
<1>1. q \in Queue /\ HeaderFits(q)
  BY InitialValues DEF Own, RInv, QueueInv
<1> HIDE DEF q
<1>2. /\ q.header \in Seq(Byte) /\ q.data \in Body /\ q.index \in Nat /\ q.buflen \in Nat
  BY <1>1 DEF Queue, FixedHeaderSize
<1>3. Len(q.header) \in Nat /\ Len(q.data) \in Nat
  BY <1>2 DEF Body
<1>4. q.index <= Len(q.header)
  BY <1>1 DEF HeaderFits
<1>5. received[s] \in Nat /\ arrived[s] \in Nat /\ received[s] <= arrived[s]
      /\ arrived[s] <= Len(Stream(s)) /\ Len(Stream(s)) \in Nat
  BY StreamType DEF RInv, TypeOK, StreamBounds
<1> QED
  BY <1>1, <1>2, <1>3, <1>4, <1>5 DEF q

(* Kept is about the bytes of the queue only.                              *)
LEMMA KeptSame ==
    ASSUME NEW s, NEW n, NEW r, NEW q, NEW q2, Kept(s, n, r, q),
           q2.header = q.header, q2.data = q.data,
           q2.buflen = q.buflen \/ q.data = <<>>
    PROVE  Kept(s, n, r, q2)
<1>1. AllKept(s, n, r, q2)
  BY DEF Kept, AllKept
<1>2. DataFits(s, n, q2)
  BY DEF Kept, DataFits
<1> QED
  BY <1>1, <1>2 DEF Kept

(* A step that is not about socket t.                                      *)
LEMMA OthersKept ==
    ASSUME RInv, RInv', failed = {}, failed' = {},
           NEW t \in Sockets, SocketInv(t), ~Active(t), ~Active(t)',
           queues'[t] = queues[t], packets'[t] = packets[t], received'[t] = received[t]
    PROVE  SocketInv(t)'
<1>0. NULL \notin Sockets
  BY SocketsAssumption
<1>1. def_queue.socket # t
  BY <1>0 DEF RInv, DefaultInv, Active
<1>2. def_queue'.socket # t
  BY <1>0 DEF RInv, DefaultInv, Active
<1>3. queued(t)' <=> queued(t)
  BY DEF queued
<1>4. Own(t)' = Own(t) /\ Done(t)' = Done(t)
  BY <1>1, <1>2, <1>3 DEF Own, Done
<1>5. InOrder(t)'
  BY <1>4 DEF SocketInv, InOrder
<1>6. IndexRight(t)'
  BY <1>3, <1>4 DEF SocketInv, IndexRight
<1>7. Kept(t, Done(t), received[t], Own(t))'
  BY <1>4 DEF SocketInv
<1> QED
  BY <1>5, <1>6, <1>7 DEF SocketInv

(* While a byte is received for the header, there is no data and all of    *)
(* the header was read again.                                              *)
LEMMA ReceivingFacts ==
    ASSUME RInv, failed = {}, IntactInv, NEW s \in Sockets, s = call.socket, Receiving
    PROVE  /\ Own(s).data = <<>> /\ Own(s).index = Len(Own(s).header)
           /\ Own(s).index = Consumed(call) /\ Own(s).index \in 0..4
           /\ received[s] = Pos(s, Done(s)) + Consumed(call)
<1> DEFINE q == Own(s)
           n == Done(s)
           L == Len(LenBytes(s, n))
<1>0. /\ SocketInv(s) /\ Decoded(s, n, call) /\ call.pc # "idle"
      /\ call.pc = "header" \/ (call.pc = "length" /\ call.len < 4)
      /\ call.len \in 0..4
  BY DEF IntactInv, Receiving, Reading, MAX_NO_OF_REMAINING_LENGTH_BYTES, RInv, TypeOK
<1>1. q.index = Consumed(call)
  BY <1>0 DEF SocketInv, IndexRight, Active
<1>2. q.index \in 0..4
  BY <1>0, <1>1 DEF Consumed
<1>3. q.index = Len(q.header)
  <2>1. CASE queued(s)
    <3>1. ~(q.index < Len(q.header))
      BY <2>1 DEF Receiving, replaying, Own
    <3> QED
      BY <3>1, OwnFacts
  <2>2. CASE ~queued(s)
    BY <1>0, <2>2 DEF SocketInv, IndexRight
  <2> QED
    BY <2>1, <2>2
<1>4. Kept(s, n, received[s], q)
  BY <1>0 DEF SocketInv
<1>5. q.data = <<>>
  <2> SUFFICES ASSUME q.data # <<>> PROVE FALSE
    OBVIOUS
  <2>1. More(s, n) /\ Len(q.header) = 1 + L /\ n \in Nat /\ n <= Len(Sent[s])
    BY <1>4 DEF Kept, DataFits
  <2>2. L \in Nat
    BY <2>1, PosFacts
  <2>3. Consumed(call) = 1 + L
    BY <1>1, <1>3, <2>1
  <2>4. call.pc = "length" /\ Consumed(call) = 1 + call.len
    BY <1>0, <2>2, <2>3 DEF Consumed
  <2>5. PICK m \in Nat : L = call.len + Len(encode(m))
    BY <1>0, <2>1, <2>4 DEF Decoded, Left
  <2>6. Len(encode(m)) \in Nat /\ Len(encode(m)) >= 1
    BY EncodeDigits
  <2> DEFINE z == Len(encode(m))
  <2> HIDE DEF z, L
  <2> QED
    BY <1>0, <2>2, <2>3, <2>4, <2>5, <2>6 DEF z
<1>6. received[s] = Pos(s, n) + Consumed(call)
  <2>1. received[s] = Pos(s, n) + Len(q.header) + Len(q.data) /\ n \in Nat /\ n <= Len(Sent[s])
    BY <1>4 DEF Kept, AllKept
  <2>2. Pos(s, n) \in Nat
    BY <2>1, PosFacts
  <2>3. Len(q.data) = 0
    BY <1>5
  <2> HIDE DEF q, n
  <2> QED
    BY <1>1, <1>2, <1>3, <2>1, <2>2, <2>3
<1> QED
  BY <1>1, <1>2, <1>3, <1>5, <1>6

(* A byte of the queue is read again.                                      *)
LEMMA QueuedCharIntact ==
    ASSUME TrailingIsNoPacket, RInv, RInv', failed = {}, IntactInv,
           NEW s \in Sockets, s = call.socket, GetQueuedChar
    PROVE  SocketInv(s)' /\ Decoded(s, Done(s), call)' /\ call'.socket = s
<1> DEFINE q == queues[s]
           n == Done(s)
           c == q.header[q.index + 1]
           k == Pos(s, n)
<1>0. /\ Reading /\ queued(s) /\ q.index < Len(q.header) /\ useChar(c)
      /\ queues' = [queues EXCEPT ![s].index = @ + 1]
      /\ UNCHANGED <<received, def_queue, packets, failed>>
      /\ call \in Calls /\ call.pc # "idle" /\ queues \in [Sockets -> Queue]
  BY DEF GetQueuedChar, replaying, Reading, RInv, TypeOK, Calls
<1>1. /\ SocketInv(s) /\ Decoded(s, n, call) /\ Own(s) = q
  BY <1>0 DEF IntactInv, Own
<1>2. /\ q \in Queue /\ q.header \in Seq(Byte) /\ Len(q.header) \in Nat /\ q.index \in Nat
      /\ Len(q.data) \in Nat /\ received[s] \in Nat /\ received[s] <= Len(Stream(s))
  <2>1. /\ q \in Queue /\ q.header \in Seq(Byte) /\ Len(q.header) \in Nat /\ q.index \in Nat
        /\ Len(q.data) \in Nat /\ received[s] \in Nat /\ received[s] <= arrived[s]
        /\ arrived[s] \in Nat /\ arrived[s] <= Len(Stream(s)) /\ Len(Stream(s)) \in Nat
    BY <1>1, OwnFacts
  <2> HIDE DEF q
  <2> QED
    BY <2>1
<1>3. q.index = Consumed(call)
  BY <1>0, <1>1 DEF SocketInv, IndexRight, Active
<1>4. /\ Kept(s, n, received[s], q) /\ n \in Nat /\ n <= Len(Sent[s])
      /\ received[s] = k + Len(q.header) + Len(q.data)
      /\ \A i \in 1..Len(q.header) : Stream(s)[k + i] = q.header[i]
  BY <1>1 DEF SocketInv, Kept, AllKept
<1>5. k \in Nat /\ Len(Stream(s)) \in Nat
  BY <1>4, PosFacts
<1>6. call'.socket = s /\ call'.pc # "idle" /\ c \in Byte
  <2>1. c \in Byte
    BY <1>0, <1>2
  <2> HIDE DEF c
  <2> QED
    BY <1>0, <2>1, UseCharFacts
<1>7. q.index + 1 \in 1..Len(q.header) /\ k + Consumed(call) + 1 = k + (q.index + 1)
      /\ k + Consumed(call) + 1 <= Len(Stream(s))
  <2> DEFINE i == q.index
             u == Consumed(call)
             l == Len(q.header)
             m == Len(q.data)
             z == Len(Stream(s))
  <2>1. i \in Nat /\ l \in Nat /\ m \in Nat /\ k \in Nat /\ z \in Nat
    BY <1>2, <1>5
  <2>2. i < l /\ i = u /\ received[s] = k + l + m /\ received[s] <= z
    BY <1>0, <1>2, <1>3, <1>4
  <2> HIDE DEF i, u, l, m, z, k
  <2>3. i + 1 \in 1..l /\ k + u + 1 = k + (i + 1) /\ k + u + 1 <= z
    BY <2>1, <2>2
  <2> QED
    BY <2>3 DEF i, u, l, m, z, k
<1>8. c = Stream(s)[k + Consumed(call) + 1]
  BY <1>4, <1>7
<1>9. Decoded(s, n, call') /\ Consumed(call') = Consumed(call) + 1
  <2> HIDE DEF n, c
  <2> QED
    BY <1>0, <1>1, <1>4, <1>7, <1>8, DecodeNext
<1>10. Done(s)' = n /\ received'[s] = received[s]
  BY <1>0 DEF Done
<1> DEFINE r == [q EXCEPT !.index = q.index + 1]
<1>11. queues'[s] = r
  BY <1>0
<1>12. /\ r.header = q.header /\ r.data = q.data /\ r.buflen = q.buflen
       /\ r.socket = q.socket /\ r.index = q.index + 1
  BY <1>2 DEF Queue
<1> HIDE DEF q, r, n
<1>13. queued(s)' /\ Own(s)' = r
  BY <1>0, <1>11, <1>12 DEF queued, Own, q
<1>14. Kept(s, n, received[s], r)
  BY <1>4, <1>12, KeptSame
<1>15. InOrder(s)'
  BY <1>0, <1>1, <1>10 DEF SocketInv, InOrder, n
<1>16. IndexRight(s)'
  BY <1>3, <1>6, <1>9, <1>12, <1>13 DEF IndexRight, Active
<1>17. SocketInv(s)'
  BY <1>10, <1>13, <1>14, <1>15, <1>16 DEF SocketInv
<1> QED
  BY <1>6, <1>9, <1>10, <1>17

(* appendChar puts a byte at the end of a header that was read to its end. *)
LEMMA AppendCharAtEnd ==
    ASSUME NEW d \in Queue, NEW c \in Byte, d.index = Len(d.header), d.index \in 0..4
    PROVE  /\ appendChar(d, c) \in Queue
           /\ appendChar(d, c).header = Append(d.header, c)
           /\ appendChar(d, c).index = d.index + 1
           /\ appendChar(d, c).data = d.data
           /\ appendChar(d, c).socket = d.socket
<1> DEFINE i == d.index
           h == d.header
           g == Append(h, c)
<1>1. h \in Seq(Byte) /\ i = Len(h) /\ i \in 0..4
  BY DEF Queue
<1>2. appendChar(d, c) = IF i >= FixedHeaderSize THEN d
        ELSE [d EXCEPT !.header = Append(SubSeq(h, 1, i), c), !.index = i + 1]
  BY DEF appendChar, Queue
<1> HIDE DEF i, h
<1>3. ~(i >= FixedHeaderSize) /\ i + 1 \in 0..FixedHeaderSize
  <2>1. i \in 0..4
    BY <1>1
  <2>2. \A j \in 0..4 : ~(j >= 5) /\ j + 1 \in 0..5
    OBVIOUS
  <2> QED
    BY <2>1, <2>2 DEF FixedHeaderSize
<1>4. SubSeq(h, 1, i) = h /\ g \in Seq(Byte)
  BY <1>1, SubSeqFull, AppendProperties
<1> HIDE DEF g
<1>5. appendChar(d, c) = [d EXCEPT !.header = g, !.index = i + 1]
  BY <1>2, <1>3, <1>4 DEF g
<1> QED
  BY <1>3, <1>4, <1>5 DEF Queue, g, h, i

(* SocketBuffer_queueChar keeps the byte that is received.                 *)
LEMMA QueueCharOwn ==
    ASSUME RInv, failed = {}, IntactInv, NEW s \in Sockets, s = call.socket, Receiving,
           NEW c \in Byte, SocketBuffer_queueChar(s, c)
    PROVE  /\ Own(s)' \in Queue /\ Own(s)'.header = Append(Own(s).header, c)
           /\ Own(s)'.data = <<>> /\ Own(s)'.index = Own(s).index + 1
           /\ queued(s)' <=> queued(s)
           /\ ~queued(s) => queues'[s] = Fresh
           /\ \A t \in Sockets : t # s => queues'[t] = queues[t]
<1> DEFINE q == Own(s)
<1>0. /\ queues \in [Sockets -> Queue] /\ def_queue \in Queue /\ NULL \notin Sockets
      /\ q \in Queue /\ q.header \in Seq(Byte) /\ Len(q.header) \in Nat
  BY OwnFacts, SocketsAssumption DEF RInv, QueueInv
<1>1. q.data = <<>> /\ q.index = Len(q.header) /\ q.index \in 0..4
  BY ReceivingFacts
<1>2. ~queued(s) => queues[s] = Fresh
  BY DEF IntactInv, SocketInv, IndexRight
<1> DEFINE a == appendChar(q, c)
<1>3. /\ a \in Queue /\ a.header = Append(q.header, c) /\ a.index = q.index + 1
      /\ a.data = <<>> /\ a.socket = q.socket
  <2> HIDE DEF q
  <2> QED
    BY <1>0, <1>1, AppendCharAtEnd
<1>4. CASE queued(s)
  <2>1. q = queues[s] /\ q.socket = s
    BY <1>4 DEF Own, queued
  <2>2. queues' = [queues EXCEPT ![s] = a] /\ def_queue' = def_queue
    BY <1>0, <1>4, <2>1 DEF SocketBuffer_queueChar
  <2> HIDE DEF a, q
  <2>3. queues'[s] = a /\ \A t \in Sockets : t # s => queues'[t] = queues[t]
    BY <1>0, <2>2
  <2>4. queued(s)' /\ Own(s)' = a
    BY <1>3, <2>1, <2>3 DEF queued, Own
  <2> QED
    BY <1>3, <1>4, <2>3, <2>4 DEF q
<1>5. CASE ~queued(s) /\ def_queue.socket = s
  <2>1. q = def_queue
    BY <1>5 DEF Own
  <2>2. def_queue' = a /\ queues' = queues
    BY <1>0, <1>5, <2>1 DEF SocketBuffer_queueChar
  <2> HIDE DEF a, q
  <2>3. ~queued(s)' /\ def_queue'.socket = s
    BY <1>3, <1>5, <2>1, <2>2 DEF queued
  <2>4. Own(s)' = a
    BY <2>2, <2>3 DEF Own
  <2> QED
    BY <1>2, <1>3, <1>5, <2>2, <2>3, <2>4 DEF q
<1>6. CASE ~queued(s) /\ def_queue.socket # s
  <2>1. q = Fresh
    BY <1>6 DEF Own
  <2>2. def_queue.socket = NULL /\ def_queue.header = <<>>
    BY <1>0, <1>6 DEF RInv, DefaultInv
  <2> DEFINE d == [def_queue EXCEPT !.socket = s, !.index = 0, !.data = <<>>]
             b == appendChar(d, c)
  <2>3. def_queue' = b /\ queues' = queues
    BY <1>0, <1>6, <2>2 DEF SocketBuffer_queueChar
  <2>4. d \in Queue /\ d.index = 0 /\ d.header = <<>> /\ d.data = <<>> /\ d.socket = s
    <3>1. d = [socket |-> s, index |-> 0, header |-> <<>>, data |-> <<>>,
               buflen |-> def_queue.buflen]
      <4>1. d = [def_queue EXCEPT !.socket = s, !.index = 0, !.data = <<>>]
        OBVIOUS
      <4> HIDE DEF d
      <4> QED
        BY <1>0, <2>2, <4>1 DEF Queue
    <3>2. /\ <<>> \in Seq(Byte) /\ <<>> \in Body /\ 0 \in 0..FixedHeaderSize
          /\ s \in Sockets \cup {NULL} /\ def_queue.buflen \in Nat
      BY <1>0 DEF Queue, Body, FixedHeaderSize
    <3> HIDE DEF d
    <3> QED
      BY <3>1, <3>2 DEF Queue
  <2> HIDE DEF d
  <2>5. Len(d.header) = 0 /\ d.index = Len(d.header) /\ d.index \in 0..4
    BY <2>4
  <2>6. /\ b \in Queue /\ b.header = Append(<<>>, c) /\ b.index = 0 + 1 /\ b.data = <<>>
        /\ b.socket = s
    BY <2>4, <2>5, AppendCharAtEnd
  <2> HIDE DEF b, a
  <2>7. ~queued(s)' /\ Own(s)' = b
    BY <1>6, <2>3, <2>6 DEF queued, Own
  <2>8. Own(s).header = <<>> /\ Own(s).index = 0
    BY <2>1, InitialValues
  <2> QED
    BY <1>2, <1>6, <2>3, <2>6, <2>7, <2>8
<1> QED
  BY <1>4, <1>5, <1>6

(* A byte is received and kept.                                            *)
LEMMA GetCharIntact ==
    ASSUME TrailingIsNoPacket, RInv, RInv', failed = {}, IntactInv,
           NEW s \in Sockets, s = call.socket, GetChar
    PROVE  /\ SocketInv(s)' /\ Decoded(s, Done(s), call)' /\ call'.socket = s
           /\ \A t \in Sockets : t # s => queues'[t] = queues[t] /\ received'[t] = received[t]
<1> DEFINE n == Done(s)
           r == received[s]
           c == Stream(s)[r + 1]
           k == Pos(s, n)
<1>0. /\ Receiving /\ Reading /\ available(s) /\ received' = [received EXCEPT ![s] = @ + 1]
      /\ SocketBuffer_queueChar(s, c) /\ useChar(c)
      /\ UNCHANGED <<arrived, eof, packets, failed>>
      /\ call \in Calls /\ call.pc # "idle" /\ received \in [Sockets -> Nat]
  BY DEF GetChar, Receiving, Reading, RInv, TypeOK, Calls
<1>1. /\ SocketInv(s) /\ Decoded(s, n, call) /\ Kept(s, n, r, Own(s))
      /\ n \in Nat /\ n <= Len(Sent[s])
  BY <1>0 DEF IntactInv, SocketInv, Kept
<1>2. /\ Own(s).data = <<>> /\ Own(s).index = Len(Own(s).header)
      /\ Own(s).index = Consumed(call) /\ Own(s).index \in 0..4
      /\ r = k + Consumed(call)
  BY <1>0, ReceivingFacts
<1>3. Own(s) \in Queue /\ r \in Nat /\ r + 1 <= Len(Stream(s)) /\ Len(Stream(s)) \in Nat
  BY <1>0, OwnFacts DEF available
<1>4. c \in Byte
  BY <1>3, StreamType
<1>5. c = Stream(s)[k + Consumed(call) + 1] /\ k + Consumed(call) + 1 <= Len(Stream(s))
  BY <1>2, <1>3
<1> HIDE DEF c
<1>6. call'.socket = s /\ call'.pc # "idle"
  BY <1>0, <1>4, UseCharFacts
<1>7. /\ Decoded(s, n, call') /\ Consumed(call') = Consumed(call) + 1
      /\ More(s, n) => Consumed(call) <= Len(LenBytes(s, n))
  <2> HIDE DEF n
  <2> QED
    BY <1>0, <1>1, <1>5, DecodeNext
<1>8. /\ Own(s)' \in Queue /\ Own(s)'.header = Append(Own(s).header, c)
      /\ Own(s)'.data = <<>> /\ Own(s)'.index = Own(s).index + 1
      /\ queued(s)' <=> queued(s)
      /\ ~queued(s) => queues'[s] = Fresh
      /\ \A t \in Sockets : t # s => queues'[t] = queues[t]
  BY <1>0, <1>4, QueueCharOwn
<1>9. Done(s)' = n /\ received'[s] = r + 1
      /\ \A t \in Sockets : t # s => received'[t] = received[t]
  BY <1>0 DEF Done
<1>10. Kept(s, n, r + 1, Own(s)')
  <2> DEFINE q == Own(s)
             q2 == Own(s)'
  <2>1. More(s, n) => Len(q.header) <= Len(LenBytes(s, n))
    BY <1>2, <1>7
  <2>2. q2.header = Append(q.header, Stream(s)[r + 1])
    BY <1>8 DEF c
  <2>3. q \in Queue /\ q2 \in Queue /\ Kept(s, n, r, q) /\ q.data = <<>> /\ q2.data = <<>>
        /\ r + 1 <= Len(Stream(s))
    BY <1>1, <1>2, <1>3, <1>8
  <2> HIDE DEF q, q2, n, r
  <2>4. Kept(s, n, r + 1, q2)
    BY <2>1, <2>2, <2>3, HeaderGrows
  <2> QED
    BY <2>4 DEF q2
<1>11. InOrder(s)'
  BY <1>0, <1>1, <1>9 DEF SocketInv, InOrder
<1>12. IndexRight(s)'
  <2>1. Own(s)'.index = Consumed(call')
    BY <1>2, <1>7, <1>8
  <2>2. Own(s)'.index = Len(Own(s)'.header)
    <3>1. Own(s).header \in Seq(Byte)
      BY OwnFacts
    <3>2. Len(Append(Own(s).header, c)) = Len(Own(s).header) + 1
      BY <1>4, <3>1, AppendProperties
    <3> QED
      BY <1>2, <1>8, <3>2
  <2> QED
    BY <1>6, <1>8, <2>1, <2>2 DEF IndexRight, Active
<1>13. SocketInv(s)'
  BY <1>9, <1>10, <1>11, <1>12 DEF SocketInv
<1> QED
  BY <1>6, <1>7, <1>8, <1>9, <1>13

(* SocketBuffer_interrupted leaves the header on the socket's own queue.   *)
LEMMA InterruptedOwn ==
    ASSUME RInv, failed = {}, IntactInv, NEW s \in Sockets, s = call.socket,
           call.pc # "idle", NEW data, NEW n \in Nat, SocketBuffer_interrupted(s, data, n)
    PROVE  /\ queued(s)' /\ Own(s)'.header = Own(s).header
           /\ Own(s)'.data = data /\ Own(s)'.index = 0
           /\ Own(s)'.buflen \in Nat /\ Own(s)'.buflen >= n
           /\ \A t \in Sockets : t # s => queues'[t] = queues[t]
<1> DEFINE q == IF queued(s) THEN queues[s] ELSE def_queue
           b == roomFor(q, n)
           r == [b EXCEPT !.socket = s, !.index = 0, !.data = data]
<1>0. /\ queues \in [Sockets -> Queue] /\ def_queue \in Queue /\ queues[s] \in Queue
      /\ NULL \notin Sockets
  BY SocketsAssumption DEF RInv, QueueInv
<1>1. q \in Queue /\ q.header = Own(s).header
  <2>1. CASE queued(s)
    BY <1>0, <2>1 DEF Own
  <2>2. CASE ~queued(s) /\ def_queue.socket = s
    BY <1>0, <2>2 DEF Own
  <2>3. CASE ~queued(s) /\ def_queue.socket # s
    BY <1>0, <2>3, InitialValues DEF Own, RInv, DefaultInv
  <2> QED
    BY <2>1, <2>2, <2>3
<1>2. /\ b \in Queue /\ b.header = q.header /\ b.socket = q.socket
      /\ b.buflen \in Nat /\ b.buflen >= n
  <2> HIDE DEF q
  <2>1. b \in Queue /\ b.header = q.header /\ b.socket = q.socket
    BY <1>1, RoomForFacts
  <2>2. q.buflen \in Nat
    BY <1>1 DEF Queue
  <2>3. b.buflen = IF n > q.buflen THEN n ELSE q.buflen
    BY <1>1 DEF roomFor, Queue
  <2> QED
    BY <2>1, <2>2, <2>3
<1>3. queues' = [queues EXCEPT ![s] = r]
  <2>1. CASE queued(s)
    <3>1. b = roomFor(queues[s], n) /\ b.socket = s
      BY <1>2, <2>1 DEF queued
    <3>2. queues' = [queues EXCEPT ![s] = [b EXCEPT !.index = 0, !.data = data]]
      <4> HIDE DEF b
      <4> QED
        BY <1>0, <2>1, <3>1 DEF SocketBuffer_interrupted
    <3> HIDE DEF b
    <3>3. [b EXCEPT !.index = 0, !.data = data] = r
      BY <1>2, <3>1 DEF Queue
    <3> QED
      BY <3>2, <3>3
  <2>2. CASE ~queued(s)
    BY <2>2 DEF SocketBuffer_interrupted
  <2> QED
    BY <2>1, <2>2
<1> HIDE DEF b
<1>4. /\ r.socket = s /\ r.index = 0 /\ r.data = data /\ r.header = b.header
      /\ r.buflen = b.buflen
  BY <1>2 DEF Queue
<1> HIDE DEF r, q
<1>5. queues'[s] = r /\ \A t \in Sockets : t # s => queues'[t] = queues[t]
  BY <1>0, <1>3
<1>6. queued(s)' /\ Own(s)' = r
  BY <1>4, <1>5 DEF queued, Own
<1> QED
  BY <1>1, <1>2, <1>4, <1>5, <1>6

(* No byte is there: the call ends and the header is kept.                 *)
LEMMA CharInterruptedIntact ==
    ASSUME RInv, RInv', failed = {}, IntactInv,
           NEW s \in Sockets, s = call.socket, GetCharInterrupted
    PROVE  /\ SocketInv(s)' /\ call'.pc = "idle"
           /\ \A t \in Sockets : t # s => queues'[t] = queues[t] /\ received'[t] = received[t]
<1>0. /\ Receiving /\ SocketBuffer_interrupted(s, <<>>, 0) /\ call' = NoCall
      /\ UNCHANGED <<arrived, eof, received, packets, failed>> /\ call.pc # "idle"
  BY DEF GetCharInterrupted, Receiving, Reading
<1>1. Own(s).data = <<>>
  BY <1>0, ReceivingFacts
<1>2. /\ queued(s)' /\ Own(s)'.header = Own(s).header
      /\ Own(s)'.data = <<>> /\ Own(s)'.index = 0
      /\ \A t \in Sockets : t # s => queues'[t] = queues[t]
  <2>1. 0 \in Nat
    OBVIOUS
  <2> QED
    BY <1>0, <2>1, InterruptedOwn
<1>3. SocketInv(s) /\ Kept(s, Done(s), received[s], Own(s))
  BY DEF IntactInv, SocketInv
<1>4. Done(s)' = Done(s) /\ received'[s] = received[s] /\ call'.pc = "idle"
  BY <1>0, InitialValues DEF Done
<1>5. Kept(s, Done(s), received[s], Own(s)')
  <2> DEFINE q == Own(s)
             q2 == Own(s)'
  <2>1. q2.header = q.header /\ q2.data = q.data /\ q.data = <<>>
    BY <1>1, <1>2
  <2> HIDE DEF q2
  <2> QED
    BY <1>3, <2>1, KeptSame DEF q2
<1>6. InOrder(s)'
  BY <1>0, <1>3, <1>4 DEF SocketInv, InOrder
<1>7. IndexRight(s)'
  BY <1>2, <1>4 DEF IndexRight, Active
<1>8. SocketInv(s)'
  BY <1>4, <1>5, <1>6, <1>7 DEF SocketInv
<1> QED
  BY <1>0, <1>2, <1>4, <1>8

(* While a body is read, the header is complete, and what was read of the  *)
(* body before is taken from the queue.                                    *)
LEMMA DataFacts ==
    ASSUME RInv, failed = {}, IntactInv, NEW s \in Sockets, s = call.socket,
           call.pc = "data"
    PROVE  /\ SocketInv(s) /\ Kept(s, Done(s), received[s], Own(s)) /\ Own(s) \in Queue
           /\ Done(s) \in Nat /\ Done(s) <= Len(Sent[s]) /\ More(s, Done(s))
           /\ call.value = Len(Cur(s, Done(s)).body) /\ call.value \in Nat
           /\ call.header = Cur(s, Done(s)).header
           /\ Len(Own(s).header) = 1 + Len(LenBytes(s, Done(s)))
           /\ queuedData(s) = Own(s).data /\ Len(Own(s).data) \in Nat
           /\ Len(Own(s).data) <= call.value
<1> DEFINE q == Own(s)
           n == Done(s)
           L == Len(LenBytes(s, n))
           B == Len(Cur(s, n).body)
<1>1. /\ SocketInv(s) /\ Decoded(s, n, call) /\ Kept(s, n, received[s], q)
      /\ n \in Nat /\ n <= Len(Sent[s]) /\ DataFits(s, n, q)
  BY DEF IntactInv, SocketInv, Kept
<1>2. /\ More(s, n) /\ call.value = B /\ call.len = L
      /\ call.header = Stream(s)[Pos(s, n) + 1]
  BY <1>1 DEF Decoded
<1>3. L \in Nat /\ B \in Nat /\ call.header = Cur(s, n).header
  BY <1>1, <1>2, PosFacts
<1>4. q.index = 1 + L
  BY <1>1, <1>2 DEF SocketInv, IndexRight, Active, Consumed
<1>5. /\ q \in Queue /\ q.index <= Len(q.header) /\ Len(q.header) \in Nat
      /\ Len(q.data) \in Nat /\ q.buflen \in Nat /\ q.data \in Body
  BY OwnFacts
<1>6. Len(q.header) = 1 + L
  <2>1. Len(q.header) <= 1 + L
    BY <1>1, <1>2 DEF DataFits
  <2> HIDE DEF q, L
  <2> QED
    BY <1>3, <1>4, <1>5, <2>1
<1>7. q.data # <<>> => Len(q.data) < B /\ B <= q.buflen
  BY <1>1 DEF DataFits
<1>8. Len(q.data) <= B
  <2>1. CASE q.data = <<>>
    BY <1>3, <2>1
  <2>2. CASE q.data # <<>>
    <3> HIDE DEF q, B
    <3> QED
      BY <1>3, <1>5, <1>7, <2>2
  <2> QED
    BY <2>1, <2>2
<1>9. queuedData(s) = q.data
  <2>1. CASE ~queued(s)
    BY <1>1, <2>1 DEF SocketInv, IndexRight, queuedData
  <2>2. CASE queued(s)
    <3>1. q = queues[s]
      BY <2>2 DEF Own
    <3>2. CASE q.data = <<>>
      <4>1. [i \in DOMAIN q.data |-> NULL] = <<>>
        <5>1. DOMAIN q.data = {}
          BY <3>2
        <5> QED
          BY <5>1
      <4> QED
        BY <2>2, <3>1, <3>2, <4>1 DEF queuedData
    <3>3. CASE q.data # <<>>
      <4>1. ~(call.value > q.buflen)
        <5> HIDE DEF q, B
        <5> QED
          BY <1>2, <1>3, <1>5, <1>7, <3>3
      <4> QED
        BY <2>2, <3>1, <4>1 DEF queuedData
    <3> QED
      BY <3>2, <3>3
  <2> QED
    BY <2>1, <2>2
<1> QED
  BY <1>1, <1>2, <1>3, <1>5, <1>6, <1>8, <1>9

(* Part of the body is there: it is kept.                                  *)
LEMMA DataInterruptedIntact ==
    ASSUME RInv, RInv', failed = {}, IntactInv,
           NEW s \in Sockets, s = call.socket, GetDataInterrupted
    PROVE  /\ SocketInv(s)' /\ call'.pc = "idle"
           /\ \A t \in Sockets : t # s => queues'[t] = queues[t] /\ received'[t] = received[t]
<1> DEFINE n == arrived[s] - received[s]
           q == Own(s)
           q2 == Own(s)'
           r == received[s]
           d == Done(s)
           b == bytesGot(s, n)
           B == Len(Cur(s, d).body)
<1>0. /\ call.pc = "data" /\ n < call.value - Len(queuedData(s))
      /\ received' = [received EXCEPT ![s] = @ + n]
      /\ SocketBuffer_interrupted(s, b, call.value) /\ call' = NoCall
      /\ UNCHANGED <<arrived, eof, packets, failed>>
      /\ received \in [Sockets -> Nat]
  BY DEF GetDataInterrupted, RInv, TypeOK
<1>1. /\ SocketInv(s) /\ Kept(s, d, r, q) /\ q \in Queue
      /\ d \in Nat /\ More(s, d) /\ call.value = B /\ call.value \in Nat
      /\ Len(q.header) = 1 + Len(LenBytes(s, d))
      /\ queuedData(s) = q.data /\ Len(q.data) \in Nat
  BY <1>0, DataFacts
<1>2. n \in Nat /\ r \in Nat
  BY OwnFacts
<1>3. b = NewData(s, r, q, n)
  BY <1>1 DEF bytesGot, NewData
<1>4. Len(q.data) + n < B
  <2>1. n < B - Len(q.data)
    BY <1>0, <1>1
  <2> HIDE DEF n, B, q
  <2> QED
    BY <1>1, <1>2, <2>1
<1>5. /\ queued(s)' /\ q2.header = q.header /\ q2.data = b /\ q2.index = 0
      /\ q2.buflen \in Nat /\ q2.buflen >= B
      /\ \A t \in Sockets : t # s => queues'[t] = queues[t]
  <2> HIDE DEF b
  <2>1. /\ queued(s)' /\ q2.header = q.header /\ q2.data = b /\ q2.index = 0
        /\ q2.buflen \in Nat /\ q2.buflen >= call.value
        /\ \A t \in Sockets : t # s => queues'[t] = queues[t]
    BY <1>0, <1>1, InterruptedOwn
  <2> QED
    BY <1>1, <2>1
<1>6. /\ received'[s] = r + n /\ Done(s)' = d /\ call'.pc = "idle"
      /\ \A t \in Sockets : t # s => received'[t] = received[t]
  BY <1>0, InitialValues DEF Done
<1>7. Kept(s, d, r + n, q2)
  <2>1. B <= q2.buflen
    <3> HIDE DEF q2, B
    <3> QED
      BY <1>1, <1>5
  <2>2. q2.data = NewData(s, r, q, n) /\ q2.header = q.header
    BY <1>3, <1>5
  <2> HIDE DEF q, q2, n, r, d
  <2> QED
    BY <1>1, <1>2, <1>4, <2>1, <2>2, DataGrows
<1>8. InOrder(s)'
  BY <1>0, <1>1, <1>6 DEF SocketInv, InOrder
<1>9. IndexRight(s)'
  BY <1>5, <1>6 DEF IndexRight, Active
<1>10. SocketInv(s)'
  BY <1>6, <1>7, <1>8, <1>9 DEF SocketInv
<1> QED
  BY <1>5, <1>6, <1>10

(* The body is complete: the packet returned is the next one sent.         *)
LEMMA PacketIntact ==
    ASSUME RInv, RInv', failed = {}, IntactInv,
           NEW s \in Sockets, s = call.socket, call.pc = "data", NEW k \in Nat,
           Len(Own(s).data) + k = call.value, returnPacket(s, bytesGot(s, k)),
           received'[s] = received[s] + k
    PROVE  /\ SocketInv(s)' /\ call'.pc = "idle"
           /\ \A t \in Sockets : t # s => queues'[t] = queues[t] /\ packets'[t] = packets[t]
<1> DEFINE q == Own(s)
           q2 == Own(s)'
           r == received[s]
           d == Done(s)
           b == bytesGot(s, k)
           p == Cur(s, d)
<1>1. /\ SocketInv(s) /\ Kept(s, d, r, q) /\ q \in Queue
      /\ d \in Nat /\ d <= Len(Sent[s]) /\ More(s, d)
      /\ call.value = Len(p.body) /\ call.header = p.header
      /\ Len(q.header) = 1 + Len(LenBytes(s, d)) /\ queuedData(s) = q.data
  BY DataFacts
<1>2. b = NewData(s, r, q, k)
  BY <1>1 DEF bytesGot, NewData
<1>3. /\ packets' = [packets EXCEPT ![s] = Append(@, [header |-> call.header, body |-> b])]
      /\ SocketBuffer_complete(s, call.value) /\ call' = NoCall
      /\ packets \in [Sockets -> Seq([header : Byte, body : Body])]
      /\ queues \in [Sockets -> Queue] /\ NULL \notin Sockets
  BY SocketsAssumption DEF returnPacket, RInv, TypeOK
<1>4. /\ queues' = [queues EXCEPT ![s] = Fresh] /\ def_queue'.socket = NULL
  BY <1>3 DEF SocketBuffer_complete, Fresh
<1>5. /\ queues'[s] = Fresh /\ \A t \in Sockets : t # s => queues'[t] = queues[t]
  BY <1>3, <1>4
<1>6. ~queued(s)' /\ q2 = Fresh
  BY <1>3, <1>4, <1>5, InitialValues DEF queued, Own
<1>7. Fresh.header = <<>> /\ Fresh.data = <<>> /\ Fresh.index = 0
  BY DEF Fresh
<1>8. b = p.body /\ Kept(s, d + 1, r + k, Fresh)
  <2>1. Len(q.data) + k = Len(p.body)
    BY <1>1
  <2> HIDE DEF q, d, r, p
  <2>2. NewData(s, r, q, k) = Cur(s, d).body /\ Kept(s, d + 1, r + k, Fresh)
    BY <1>1, <1>7, <2>1, PacketDone DEF p
  <2> QED
    BY <1>2, <2>2 DEF p
<1>9. packets'[s] = SubSeq(Sent[s], 1, d + 1)
  <2>1. p \in PacketType
    BY <1>1, PosFacts
  <2>2. [header |-> p.header, body |-> p.body] = p
    <3> HIDE DEF p
    <3> QED
      BY <2>1 DEF PacketType
  <2>3. packets'[s] = Append(packets[s], p)
    <3> HIDE DEF b, p
    <3> QED
      BY <1>1, <1>3, <1>8, <2>2
  <2>4. packets[s] = SubSeq(Sent[s], 1, d)
    BY <1>1 DEF SocketInv, InOrder
  <2>5. SubSeq(Sent[s], 1, d + 1) = Append(SubSeq(Sent[s], 1, d), Sent[s][d + 1])
    <3>1. Sent[s] \in Seq(PacketType)
      BY SentAssumption DEF PacketType
    <3> HIDE DEF d
    <3> QED
      BY <1>1, <3>1, PrefixAppend DEF More
  <2> QED
    BY <2>3, <2>4, <2>5 DEF Cur
<1>10. Done(s)' = d + 1
  <2>1. Sent[s] \in Seq(PacketType) /\ d + 1 \in Nat /\ d + 1 <= Len(Sent[s])
    BY <1>1, <1>8, SentAssumption DEF PacketType, Kept
  <2>2. Len(SubSeq(Sent[s], 1, d + 1)) = d + 1
    <3> DEFINE e == d + 1
    <3>1. \A i \in 1..e : Sent[s][i] \in PacketType
      <4> HIDE DEF d
      <4>1. \A i \in 1..e : i \in 1..Len(Sent[s])
        BY <2>1
      <4> QED
        BY <2>1, <4>1, ElementOfSeq
    <3> HIDE DEF e
    <3> QED
      BY <2>1, <3>1, SubSeqProperties DEF e
  <2> QED
    BY <1>9, <2>2 DEF Done
<1>11. InOrder(s)'
  BY <1>9, <1>10 DEF InOrder
<1>12. call'.pc = "idle"
  BY <1>3, InitialValues
<1>13. IndexRight(s)'
  <2>1. Len(Fresh.header) = 0
    BY <1>7
  <2> QED
    BY <1>5, <1>6, <1>7, <1>12, <2>1 DEF IndexRight, Active
<1>14. SocketInv(s)'
  BY <1>6, <1>8, <1>10, <1>11, <1>13 DEF SocketInv
<1>15. \A t \in Sockets : t # s => packets'[t] = packets[t]
  <2> HIDE DEF b
  <2> QED
    BY <1>3
<1> QED
  BY <1>5, <1>12, <1>14, <1>15

(* A packet without a body.                                                *)
LEMMA NoDataIntact ==
    ASSUME RInv, RInv', failed = {}, IntactInv,
           NEW s \in Sockets, s = call.socket, GetNoData
    PROVE  /\ SocketInv(s)' /\ call'.pc = "idle"
           /\ \A t \in Sockets : t # s => /\ queues'[t] = queues[t] /\ packets'[t] = packets[t]
                                          /\ received'[t] = received[t]
<1>0. call.pc = "data" /\ call.value = 0 /\ returnPacket(s, <<>>) /\ received' = received
  BY DEF GetNoData
<1>1. /\ queuedData(s) = Own(s).data /\ Len(Own(s).data) \in Nat /\ Own(s) \in Queue
      /\ Len(Own(s).data) <= call.value
  BY <1>0, DataFacts
<1>2. Len(Own(s).data) + 0 = call.value /\ received[s] \in Nat /\ received[s] + 0 = received[s]
  BY <1>0, <1>1, OwnFacts
<1>3. bytesGot(s, 0) = <<>>
  <2> DEFINE w == SubSeq(Stream(s), received[s] + 1, received[s] + 0)
  <2>1. Own(s).data = <<>>
    <3>1. Own(s).data \in Body /\ Len(Own(s).data) = 0
      BY <1>0, <1>1, <1>2, OwnFacts
    <3> QED
      BY <3>1, EmptySeq DEF Body
  <2>2. w = <<>>
    <3>1. received[s] + 0 < received[s] + 1
      BY <1>2
    <3>2. Stream(s) \in Seq(Byte)
      BY StreamType
    <3> QED
      BY <1>2, <3>1, <3>2
  <2>3. bytesGot(s, 0) = <<>> \o <<>>
    <3> HIDE DEF w
    <3> QED
      BY <1>1, <2>1, <2>2 DEF bytesGot, w
  <2> QED
    BY <2>3
<1>4. returnPacket(s, bytesGot(s, 0)) /\ received'[s] = received[s] + 0 /\ 0 \in Nat
  BY <1>0, <1>2, <1>3
<1> QED
  BY <1>0, <1>2, <1>4, PacketIntact

(* The rest of the body is there.                                          *)
LEMMA GetDataIntact ==
    ASSUME RInv, RInv', failed = {}, IntactInv,
           NEW s \in Sockets, s = call.socket, GetData
    PROVE  /\ SocketInv(s)' /\ call'.pc = "idle"
           /\ \A t \in Sockets : t # s => /\ queues'[t] = queues[t] /\ packets'[t] = packets[t]
                                          /\ received'[t] = received[t]
<1> DEFINE k == call.value - Len(queuedData(s))
<1>0. /\ call.pc = "data" /\ k > 0 /\ received' = [received EXCEPT ![s] = @ + k]
      /\ returnPacket(s, bytesGot(s, k)) /\ received \in [Sockets -> Nat]
  BY DEF GetData, RInv, TypeOK
<1>1. /\ queuedData(s) = Own(s).data /\ Len(Own(s).data) \in Nat /\ call.value \in Nat
  BY <1>0, DataFacts
<1>2. k \in Nat /\ Len(Own(s).data) + k = call.value
  BY <1>0, <1>1
<1>3. received'[s] = received[s] + k /\ \A t \in Sockets : t # s => received'[t] = received[t]
  BY <1>0
<1> HIDE DEF k
<1> QED
  BY <1>0, <1>2, <1>3, PacketIntact

(* No packet was read before the first call.                               *)
LEMMA InitIntact == Init => IntactInv
<1> SUFFICES ASSUME Init, NEW s \in Sockets PROVE SocketInv(s)
  <2>1. Init => call.pc = "idle"
    BY InitialValues DEF Init
  <2> QED
    BY <2>1 DEF IntactInv
<1>1. /\ packets[s] = <<>> /\ queues[s] = Fresh /\ def_queue = Fresh /\ received[s] = 0
      /\ call.pc = "idle" /\ NULL \notin Sockets
  BY SocketsAssumption, InitialValues DEF Init
<1>2. Own(s) = Fresh /\ Done(s) = 0
  BY <1>1 DEF Own, Done, queued
<1>3. Sent[s] \in Seq(PacketType) /\ Len(Sent[s]) \in Nat
  <2>1. Sent[s] \in Seq(PacketType)
    BY SentAssumption DEF PacketType
  <2> QED
    BY <2>1, LenProperties
<1>4. SubSeq(Sent[s], 1, 0) = <<>>
  BY <1>3
<1>5. Pos(s, 0) = 0
  <2>1. Frames(<<>>) = <<>>
    <3>1. [i \in DOMAIN <<>> |-> Frame(<<>>[i])] = <<>>
      OBVIOUS
    <3> QED
      BY <3>1, FlattenEmpty DEF Frames
  <2> QED
    <3>1. Pos(s, 0) = Len(<<>>)
      BY <1>4, <2>1 DEF Pos
    <3> QED
      BY <3>1
<1>6. Fresh.header = <<>> /\ Fresh.data = <<>> /\ Fresh.index = 0
  BY DEF Fresh
<1>7. Kept(s, 0, 0, Fresh)
  <2>1. Len(Fresh.header) = 0 /\ Len(Fresh.data) = 0 /\ 1..0 = {}
    BY <1>6
  <2>2. AllKept(s, 0, 0, Fresh)
    BY <1>5, <2>1 DEF AllKept
  <2>3. More(s, 0) => 0 <= 1 + Len(LenBytes(s, 0))
    <3>1. More(s, 0) => Len(LenBytes(s, 0)) \in Nat
      BY <1>3, PosFacts
    <3> QED
      BY <3>1
  <2> QED
    BY <1>3, <1>6, <2>1, <2>2, <2>3 DEF Kept, DataFits
<1>8. InOrder(s)
  BY <1>1, <1>2, <1>4 DEF InOrder
<1>9. IndexRight(s)
  <2>1. Len(Fresh.header) = 0
    BY <1>6
  <2> QED
    BY <1>1, <1>2, <1>6, <2>1 DEF IndexRight, Active
<1> QED
  BY <1>1, <1>2, <1>7, <1>8, <1>9 DEF SocketInv

(* A step of the active call keeps what is known of every socket.          *)
LEMMA InFactoryIntact ==
    ASSUME TrailingIsNoPacket, RInv, RInv', IntactInv, InFactory, failed' = {}
    PROVE  IntactInv'
<1>0. failed = {} /\ call.socket \in Sockets /\ call.pc # "idle"
  BY DEF InFactory, GetQueuedChar, GetChar, GetCharInterrupted, GetCharEof, HeaderFull,
         BadLength, GetNoData, GetData, GetDataInterrupted, GetDataEof, Receiving,
         Reading, returnError, returnPacket, RInv
<1>1. PICK s \in Sockets : s = call.socket
  BY <1>0
<1> DEFINE Same(t) == /\ queues'[t] = queues[t] /\ packets'[t] = packets[t]
                      /\ received'[t] = received[t]
<1>2. /\ SocketInv(s)' /\ \A t \in Sockets : t # s => Same(t)
      /\ \/ call'.socket = s /\ Decoded(s, Done(s), call)'
         \/ call'.pc = "idle"
  <2>1. CASE GetQueuedChar
    <3>1. /\ UNCHANGED <<packets, received>> /\ queues \in [Sockets -> Queue]
          /\ queues' = [queues EXCEPT ![s].index = @ + 1]
      BY <1>1, <2>1 DEF GetQueuedChar, RInv, TypeOK
    <3>2. \A t \in Sockets : t # s => Same(t)
      BY <3>1
    <3> HIDE DEF Same
    <3> QED
      BY <1>0, <1>1, <2>1, <3>2, QueuedCharIntact
  <2>2. CASE GetChar
    <3>1. UNCHANGED packets
      BY <2>2 DEF GetChar
    <3> QED
      BY <1>0, <1>1, <2>2, <3>1, GetCharIntact
  <2>3. CASE GetCharInterrupted
    <3>1. UNCHANGED packets
      BY <2>3 DEF GetCharInterrupted
    <3> QED
      BY <1>0, <1>1, <2>3, <3>1, CharInterruptedIntact
  <2>4. CASE GetNoData
    BY <1>0, <1>1, <2>4, NoDataIntact
  <2>5. CASE GetData
    BY <1>0, <1>1, <2>5, GetDataIntact
  <2>6. CASE GetDataInterrupted
    <3>1. UNCHANGED packets
      BY <2>6 DEF GetDataInterrupted
    <3> QED
      BY <1>0, <1>1, <2>6, <3>1, DataInterruptedIntact
  <2>7. CASE GetCharEof \/ HeaderFull \/ BadLength \/ GetDataEof
    BY <2>7 DEF GetCharEof, HeaderFull, BadLength, GetDataEof, returnError
  <2> QED
    BY <2>1, <2>2, <2>3, <2>4, <2>5, <2>6, <2>7 DEF InFactory
<1>3. ASSUME NEW t \in Sockets, t # s PROVE SocketInv(t)'
  <2>1. SocketInv(t) /\ ~Active(t)
    BY <1>0, <1>1, <1>3 DEF IntactInv, Active
  <2>2. ~Active(t)'
    BY <1>2, <1>3 DEF Active
  <2> QED
    BY <1>0, <1>2, <1>3, <2>1, <2>2, OthersKept
<1>4. \A t \in Sockets : SocketInv(t)'
  BY <1>2, <1>3
<1>5. call'.pc # "idle" => Decoded(call.socket, Done(call.socket), call)'
  BY <1>2
<1> QED
  BY <1>4, <1>5 DEF IntactInv

(* A call starts; bytes arrive; the peer closes.                           *)
LEMMA OutsideIntact ==
    ASSUME RInv, RInv', IntactInv, failed' = {}, NEW s \in Sockets,
           Factory(s) \/ Arrive(s) \/ Close(s)
    PROVE  IntactInv'
<1>0. UNCHANGED <<received, queues, def_queue, packets, failed>> /\ failed = {}
  BY DEF Factory, Arrive, Close
<1>1. \A t \in Sockets : /\ SocketInv(t) /\ Own(t)' = Own(t) /\ Done(t)' = Done(t)
                         /\ (queued(t)' <=> queued(t))
  BY <1>0 DEF IntactInv, Own, Done, queued
<1>2. \A t \in Sockets : InOrder(t)' /\ Kept(t, Done(t), received[t], Own(t))'
  BY <1>0, <1>1 DEF SocketInv, InOrder
<1>3. CASE Factory(s)
  <2>1. call.pc = "idle" /\ call' = [NoCall EXCEPT !.pc = "header", !.socket = s]
    BY <1>3 DEF Factory
  <2>2. /\ call'.pc = "header" /\ call'.socket = s /\ call'.len = 0 /\ call'.value = 0
        /\ call'.mult = 1
    BY <2>1 DEF NoCall
  <2>3. Consumed(call') = 0
    BY <2>2 DEF Consumed
  <2>4. \A t \in Sockets : IndexRight(t)'
    BY <1>0, <1>1, <2>1, <2>3 DEF SocketInv, IndexRight, Active
  <2>5. Decoded(call.socket, Done(call.socket), call)'
    BY <2>2 DEF Decoded
  <2> QED
    BY <1>2, <2>4, <2>5 DEF IntactInv, SocketInv
<1>4. CASE Arrive(s) \/ Close(s)
  <2>1. UNCHANGED call
    BY <1>4 DEF Arrive, Close
  <2>2. \A t \in Sockets : IndexRight(t)'
    BY <1>0, <1>1, <2>1 DEF SocketInv, IndexRight, Active
  <2>3. call.pc # "idle" => Done(call.socket)' = Done(call.socket)
    BY <1>0, <2>1 DEF Done
  <2>4. call'.pc # "idle" => Decoded(call.socket, Done(call.socket), call)'
    BY <1>0, <2>1, <2>3 DEF IntactInv
  <2> QED
    BY <1>2, <2>2, <2>4 DEF IntactInv, SocketInv
<1> QED
  BY <1>3, <1>4

(* Every step keeps it.                                                    *)
LEMMA StepIntact ==
    ASSUME TrailingIsNoPacket PROVE RInv /\ IntactInv /\ [Next]_vars => IntactInv'
<1> SUFFICES ASSUME RInv, IntactInv, [Next]_vars, failed' = {} PROVE IntactInv'
  BY DEF IntactInv
<1>0. RInv'
  BY StepRead
<1>1. CASE InFactory
  BY <1>0, <1>1, InFactoryIntact
<1>2. CASE \E s \in Sockets : Factory(s) \/ Arrive(s) \/ Close(s)
  BY <1>0, <1>2, OutsideIntact
<1>3. CASE UNCHANGED vars
  <2>1. UNCHANGED <<received, queues, def_queue, packets, failed, call>>
    BY <1>3 DEF vars
  <2>2. \A t \in Sockets : SocketInv(t) => SocketInv(t)'
    BY <2>1 DEF SocketInv, InOrder, IndexRight, Own, Done, queued, Active
  <2>3. Decoded(call.socket, Done(call.socket), call)
            => Decoded(call.socket, Done(call.socket), call)'
    BY <2>1 DEF Done
  <2> QED
    BY <2>1, <2>2, <2>3 DEF IntactInv
<1> QED
  BY <1>1, <1>2, <1>3 DEF Next


-----------------------------------------------------------------------------
(* Theorems                                                                *)

(* The bounds of the streams and of the queues, and the use of the default *)
(* queue by the active call only, hold in every state.                     *)
THEOREM ReadInvariant == Spec => []RInv
BY InitRead, StepRead, PTL DEF Spec

(* Socket_getch and SocketBuffer_queueChar never pass the end of           *)
(* fixed_header, whatever bytes the peers send and wherever the stream is  *)
(* cut (SocketBuffer.c:281-311).                                           *)
THEOREM SocketReadTypes == Spec => []TypeOK
<1>1. RInv => TypeOK
  BY DEF RInv
<1> QED
  BY <1>1, ReadInvariant, PTL

(* Unless a read failed, the default queue is nobody's and empty between   *)
(* two calls of MQTTPacket_Factory, so that the next socket's bytes are    *)
(* kept (SocketBuffer.c:289-299).                                         *)
THEOREM DefaultQueueNobodys == Spec => []DefaultQueueFree
<1>1. RInv => DefaultQueueFree
  BY DEF RInv, DefaultInv, DefaultQueueFree
<1> QED
  BY <1>1, ReadInvariant, PTL

(* The next theorems are about peers that send packets one after another,  *)
(* followed, if by anything, by bytes with a length that is too long: the  *)
(* stream of a peer that sent yet another packet is that of a longer Sent. *)
(* The stream may still end anywhere: bytes need not arrive, and the peer  *)
(* may close between any two of them.                                      *)

(* Until a read fails, every byte received of a packet that is not         *)
(* finished is on the socket's queue, or on the default queue for the      *)
(* active call, and what the active call decoded of the length is that of  *)
(* the packet being sent (Socket.c:498-561, SocketBuffer.c:160-310,        *)
(* MQTTPacket.c).                                                          *)
THEOREM IntactInvariant ==
    ASSUME TrailingIsNoPacket PROVE Spec => [](RInv /\ IntactInv)
<1>1. Init => RInv /\ IntactInv
  BY InitRead, InitIntact
<1>2. RInv /\ IntactInv /\ [Next]_vars => (RInv /\ IntactInv)'
  BY StepRead, StepIntact
<1> QED
  BY <1>1, <1>2, PTL DEF Spec

(* Until a read fails, MQTTPacket_Factory returns on every socket the      *)
(* packets that were sent, in order and byte for byte, however the streams *)
(* are cut and the reads of the sockets take turns.                        *)
THEOREM PacketsArriveIntact == ASSUME TrailingIsNoPacket PROVE Spec => []PacketsIntact
<1>1. ASSUME RInv, IntactInv PROVE PacketsIntact
  <2> SUFFICES ASSUME failed = {}, NEW s \in Sockets PROVE IsPrefix(packets[s], Sent[s])
    BY DEF PacketsIntact
  <2>1. packets[s] = SubSeq(Sent[s], 1, Done(s)) /\ Done(s) \in Nat /\ Done(s) <= Len(Sent[s])
    BY <1>1 DEF IntactInv, SocketInv, InOrder, Kept
  <2> QED
    BY <2>1 DEF IsPrefix, Done
<1> QED
  BY <1>1, IntactInvariant, PTL

(* Between two calls the bytes received on a socket are those of its       *)
(* finished packets and of its queue: an interrupted Socket_getch or       *)
(* Socket_getdata loses none (Socket.c:498-561, SocketBuffer.c:160-310).   *)
THEOREM NoByteLost == ASSUME TrailingIsNoPacket PROVE Spec => []NothingLost
<1>1. ASSUME RInv, IntactInv PROVE NothingLost
  <2> SUFFICES ASSUME call.pc = "idle", failed = {}, NEW s \in Sockets
               PROVE  SubSeq(Stream(s), 1, received[s])
                        = Frames(packets[s]) \o queues[s].header \o queues[s].data
    BY DEF NothingLost, Frames
  <2> DEFINE q == queues[s]
             S == Stream(s)
             r == received[s]
             n == Done(s)
             f == Frames(packets[s])
             k == Pos(s, n)
  <2>1. SocketInv(s) /\ Own(s) = q
    <3>1. SocketInv(s)
      BY <1>1 DEF IntactInv
    <3>2. def_queue.socket # s
      BY <1>1, SocketsAssumption DEF RInv, DefaultInv
    <3> QED
      BY <3>1, <3>2 DEF SocketInv, IndexRight, Own
  <2>2. /\ n \in Nat /\ n <= Len(Sent[s]) /\ packets[s] = SubSeq(Sent[s], 1, n)
        /\ r = k + Len(q.header) + Len(q.data)
        /\ \A i \in 1..Len(q.header) : S[k + i] = q.header[i]
        /\ \A i \in 1..Len(q.data) : S[k + Len(q.header) + i] = q.data[i]
    BY <2>1 DEF SocketInv, InOrder, Kept, AllKept
  <2>3. /\ f \in Seq(Byte) /\ Len(f) = k /\ k \in Nat
        /\ \A i \in 1..k : S[i] = f[i]
    <3>1. f = Frames(SubSeq(Sent[s], 1, n)) /\ Len(f) = k
      BY <2>2 DEF Pos
    <3> HIDE DEF f, n
    <3> QED
      BY <2>2, <3>1, StreamAt
  <2> DEFINE B == Byte \cup {NULL}
             h == q.header
             d == q.data
             a == f \o h
             b == a \o d
             w == SubSeq(S, 1, r)
  <2>4. /\ h \in Seq(B) /\ d \in Seq(B) /\ S \in Seq(B) /\ f \in Seq(B) /\ Len(S) \in Nat
        /\ Len(h) \in Nat /\ Len(d) \in Nat /\ r \in Nat /\ r <= Len(S)
    <3>1. /\ h \in Seq(Byte) /\ d \in Body /\ Len(h) \in Nat /\ Len(d) \in Nat
          /\ r \in Nat /\ r <= Len(S) /\ Len(S) \in Nat
      <4>1. /\ h \in Seq(Byte) /\ d \in Body /\ Len(h) \in Nat /\ Len(d) \in Nat
            /\ r \in Nat /\ arrived[s] \in Nat /\ r <= arrived[s] /\ arrived[s] <= Len(S)
            /\ Len(S) \in Nat
        BY <1>1, <2>1, OwnFacts
      <4> HIDE DEF r, h, d, S
      <4> QED
        BY <4>1
    <3>2. S \in Seq(Byte)
      BY StreamType
    <3> HIDE DEF h, d, S, f
    <3> QED
      BY <2>3, <3>1, <3>2 DEF Body
  <2> HIDE DEF q, S, r, f, k, h, d, n, B
  <2>5. /\ a \in Seq(B) /\ Len(a) = k + Len(h)
        /\ \A i \in 1..k : a[i] = f[i]
        /\ \A i \in 1..Len(h) : a[k + i] = h[i]
    <3>1. Len(f) = k
      BY <2>3
    <3>2. /\ a \in Seq(B) /\ Len(a) = Len(f) + Len(h)
          /\ \A i \in 1..Len(f) : a[i] = f[i]
          /\ \A i \in 1..Len(h) : a[Len(f) + i] = h[i]
      BY <2>4, ConcatAt
    <3> HIDE DEF a
    <3> QED
      BY <3>1, <3>2
  <2> HIDE DEF a
  <2>6. /\ b \in Seq(B) /\ Len(b) = Len(a) + Len(d)
        /\ \A i \in 1..Len(a) : b[i] = a[i]
        /\ \A i \in 1..Len(d) : b[Len(a) + i] = d[i]
    <3>1. a \in Seq(B) /\ d \in Seq(B)
      BY <2>4, <2>5
    <3> QED
      BY <3>1, ConcatAt
  <2> HIDE DEF b
  <2>7. w \in Seq(B) /\ Len(w) = r /\ \A i \in 1..r : w[i] = S[i]
    <3>1. \A i \in 1..r : S[i] \in B
      BY <2>4
    <3> QED
      BY <2>4, <3>1, SubSeqProperties
  <2> HIDE DEF w
  <2>8. Len(b) = r /\ Len(a) = k + Len(h) /\ Len(a) \in Nat
        /\ r = k + Len(h) + Len(d)
    <3>1. r = k + Len(h) + Len(d)
      BY <2>2 DEF h, d
    <3>2. Len(b) = Len(a) + Len(d) /\ Len(a) = k + Len(h)
      BY <2>5, <2>6
    <3> QED
      BY <2>3, <2>4, <3>1, <3>2
  <2>9. ASSUME NEW i \in 1..r PROVE b[i] = S[i]
    <3>1. CASE i \in 1..k
      <4>1. i \in 1..Len(a)
        BY <2>3, <2>4, <2>8, <3>1
      <4> QED
        BY <2>3, <2>5, <2>6, <3>1, <4>1
    <3>2. CASE i \in (k + 1)..Len(a)
      <4> DEFINE j == i - k
      <4>1. j \in 1..Len(h) /\ i = k + j /\ i \in 1..Len(a)
        BY <2>3, <2>4, <2>8, <3>2
      <4> HIDE DEF j
      <4>2. S[k + j] = h[j]
        BY <2>2, <4>1 DEF h
      <4> QED
        BY <2>5, <2>6, <4>1, <4>2
    <3>3. CASE i \in (Len(a) + 1)..r
      <4> DEFINE j == i - Len(a)
      <4>1. j \in 1..Len(d) /\ i = Len(a) + j
        BY <2>3, <2>4, <2>8, <3>3
      <4> HIDE DEF j
      <4>2. S[k + Len(h) + j] = d[j]
        BY <2>2, <4>1 DEF h, d
      <4>3. k + Len(h) + j = i
        BY <2>8, <4>1
      <4> QED
        BY <2>6, <4>1, <4>2, <4>3
    <3> QED
      BY <2>3, <2>8, <3>1, <3>2, <3>3
  <2>10. w = b
    BY <2>6, <2>7, <2>8, <2>9, SeqEqual
  <2> QED
    BY <2>10 DEF w, b, a, S, r, f, h, d, q
<1> QED
  BY <1>1, IntactInvariant, PTL
=============================================================================
