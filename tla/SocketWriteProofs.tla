-------------------------- MODULE SocketWriteProofs -------------------------
(***************************************************************************)
(* Proofs about SocketWrite, for every number of sockets and packets and   *)
(* every division of the packets into buffers.                             *)
(***************************************************************************)
EXTENDS SocketWrite, SequenceLemmas, FiniteSetTheorems

-----------------------------------------------------------------------------
(* The bytes of a packet                                                   *)

(* For i up to n, f[i] is the sum of the first i of lens.                  *)
Sums(f, lens, n) ==
    \A i \in 0..n : f[i] = IF i = 0 THEN 0 ELSE f[i - 1] + lens[i]

(* There is such a function, and its values are naturals.                  *)
LEMMA SumExists ==
    ASSUME NEW lens \in Seq(Nat)
    PROVE  \E f \in [0..Len(lens) -> Nat] : Sums(f, lens, Len(lens))
<1> DEFINE N == {n \in Nat : n <= Len(lens) =>
                                \E f \in [0..n -> Nat] : Sums(f, lens, n)}
<1>0. Len(lens) \in Nat /\ \A i \in 1..Len(lens) : lens[i] \in Nat
  OBVIOUS
<1>1. 0 \in N
  <2>1. [i \in 0..0 |-> 0] \in [0..0 -> Nat] /\ Sums([i \in 0..0 |-> 0], lens, 0)
    BY DEF Sums
  <2> QED
    BY <2>1
<1>2. ASSUME NEW n \in Nat, n \in N PROVE n + 1 \in N
  <2>1. ASSUME n + 1 <= Len(lens)
        PROVE  \E f \in [0..(n + 1) -> Nat] : Sums(f, lens, n + 1)
    <3>1. n <= Len(lens) /\ n + 1 \in 1..Len(lens)
      BY <1>0, <2>1
    <3>2. PICK f \in [0..n -> Nat] : Sums(f, lens, n)
      BY <1>2, <3>1
    <3> DEFINE g == [i \in 0..(n + 1) |-> IF i = n + 1 THEN f[n] + lens[n + 1] ELSE f[i]]
    <3>3. f[n] + lens[n + 1] \in Nat
      BY <1>0, <3>1, <3>2
    <3>4. g \in [0..(n + 1) -> Nat]
      BY <3>2, <3>3
    <3>5. ASSUME NEW i \in 0..(n + 1)
          PROVE  g[i] = IF i = 0 THEN 0 ELSE g[i - 1] + lens[i]
      <4>1. CASE i = n + 1
        BY <3>2, <4>1
      <4>2. CASE i # n + 1
        <5>1. i \in 0..n /\ g[i] = f[i] /\ (i # 0 => g[i - 1] = f[i - 1])
          BY <4>2
        <5> HIDE DEF g
        <5> QED
          BY <3>2, <5>1 DEF Sums
      <4> QED
        BY <4>1, <4>2
    <3>6. Sums(g, lens, n + 1)
      <4> HIDE DEF g
      <4> QED
        BY <3>5 DEF Sums
    <3> QED
      BY <3>4, <3>6
  <2> QED
    BY <2>1
<1>3. Nat \subseteq N
  <2> HIDE DEF N
  <2> QED
    BY <1>1, <1>2, SetInduction
<1>4. Len(lens) \in N
  BY <1>0, <1>3
<1> QED
  BY <1>0, <1>4

(* It is the only one.                                                     *)
LEMMA SumUnique ==
    ASSUME NEW lens, NEW f, NEW g, NEW m \in Nat, Sums(f, lens, m), Sums(g, lens, m)
    PROVE  \A i \in 0..m : f[i] = g[i]
<1> DEFINE N == {n \in Nat : n \in 0..m => f[n] = g[n]}
<1>1. 0 \in N
  BY DEF Sums
<1>2. ASSUME NEW n \in Nat, n \in N PROVE n + 1 \in N
  <2>1. SUFFICES ASSUME n + 1 \in 0..m PROVE f[n + 1] = g[n + 1]
    OBVIOUS
  <2>2. f[n] = g[n] /\ (n + 1) - 1 = n /\ n + 1 # 0
    BY <1>2, <2>1
  <2>3. f[n + 1] = f[n] + lens[n + 1] /\ g[n + 1] = g[n] + lens[n + 1]
    BY <2>1, <2>2 DEF Sums
  <2> QED
    BY <2>2, <2>3
<1>3. Nat \subseteq N
  <2> HIDE DEF N
  <2> QED
    BY <1>1, <1>2, SetInduction
<1> QED
  BY <1>3

(* What Total returns, by such a function.                                 *)
LEMMA TotalIs ==
    ASSUME NEW lens \in Seq(Nat)
    PROVE  \E f \in [0..Len(lens) -> Nat] :
             Sums(f, lens, Len(lens)) /\ Total(lens) = f[Len(lens)]
<1> DEFINE F(f) == [i \in 0..Len(lens) |-> IF i = 0 THEN 0 ELSE f[i - 1] + lens[i]]
           h == CHOOSE f : f = F(f)
<1>1. PICK f \in [0..Len(lens) -> Nat] : Sums(f, lens, Len(lens))
  BY SumExists
<1>2. f = F(f)
  BY <1>1 DEF Sums
<1>3. h = F(h)
  <2> HIDE DEF F
  <2> QED
    BY <1>2
<1>4. Len(lens) \in Nat
  OBVIOUS
<1>5. Total(lens) = h[Len(lens)]
  BY DEF Total
<1> HIDE DEF h
<1>6. Sums(h, lens, Len(lens))
  BY <1>3 DEF Sums
<1>7. \A i \in 0..Len(lens) : f[i] = h[i]
  BY <1>1, <1>4, <1>6, SumUnique
<1>8. Total(lens) = f[Len(lens)]
  BY <1>4, <1>5, <1>7
<1> QED
  BY <1>1, <1>8

(* The length of a packet is a natural number ...                          *)
LEMMA TotalType ==
    ASSUME NEW lens \in Seq(Nat) PROVE Total(lens) \in Nat
<1>1. Len(lens) \in 0..Len(lens)
  OBVIOUS
<1> QED
  BY <1>1, TotalIs

(* ... and grows by the length of each buffer.                             *)
LEMMA TotalAppend ==
    ASSUME NEW lens \in Seq(Nat), NEW x \in Nat
    PROVE  Total(Append(lens, x)) = Total(lens) + x
<1> DEFINE tt == Append(lens, x)
           n == Len(lens)
<1>1. /\ tt \in Seq(Nat) /\ n \in Nat /\ Len(tt) = n + 1 /\ n = Len(lens)
      /\ tt[n + 1] = x /\ \A i \in 1..n : tt[i] = lens[i]
  BY AppendProperties
<1> HIDE DEF tt, n
<1>2. PICK f : Sums(f, tt, Len(tt)) /\ Total(tt) = f[Len(tt)]
  BY <1>1, TotalIs
<1>3. PICK g : Sums(g, lens, n) /\ Total(lens) = g[n]
  BY <1>1, TotalIs
<1>4. Sums(f, lens, n)
  <2>1. \A i \in 0..n : i \in 0..Len(tt)
    BY <1>1
  <2>2. \A i \in 0..n : i # 0 => i \in 1..n
    BY <1>1
  <2> QED
    BY <1>1, <1>2, <2>1, <2>2 DEF Sums
<1>5. f[n] = g[n]
  <2>1. n \in 0..n
    BY <1>1
  <2>2. \A i \in 0..n : f[i] = g[i]
    BY <1>1, <1>3, <1>4, SumUnique
  <2> QED
    BY <2>1, <2>2
<1>6. f[n + 1] = f[n] + x
  <2>1. n + 1 \in 0..Len(tt) /\ n + 1 # 0 /\ (n + 1) - 1 = n
    BY <1>1
  <2> QED
    BY <1>1, <1>2, <2>1 DEF Sums
<1> QED
  BY <1>1, <1>2, <1>3, <1>5, <1>6 DEF tt

Byte == Packets \X Nat

(* The buffers of a packet are sequences of bytes.                         *)
LEMMA IovecsType ==
    ASSUME NEW p \in Packets
    PROVE  /\ Iovecs(p) \in Seq(Seq(Byte))
           /\ Len(Iovecs(p)) = Len(Lens[p])
           /\ Lens[p] \in Seq(Nat)
<1>1. Lens[p] \in Seq(Nat) /\ Len(Lens[p]) \in Nat
  BY LensAssumption
<1> DEFINE B(b) == [i \in 1..Lens[p][b] |-> <<p, Total(SubSeq(Lens[p], 1, b - 1)) + i>>]
<1>2. ASSUME NEW b \in 1..Len(Lens[p]) PROVE B(b) \in Seq(Byte)
  <2>1. Lens[p][b] \in Nat
    BY <1>1
  <2>2. SubSeq(Lens[p], 1, b - 1) \in Seq(Nat)
    <3>1. b - 1 \in Nat /\ b - 1 < Len(Lens[p])
      BY <1>1
    <3> QED
      BY <1>1, <3>1, PrefixAppend
  <2>3. Total(SubSeq(Lens[p], 1, b - 1)) \in Nat
    BY <2>2, TotalType
  <2>4. \A i \in 1..Lens[p][b] : <<p, Total(SubSeq(Lens[p], 1, b - 1)) + i>> \in Byte
    BY <2>1, <2>3 DEF Byte
  <2> QED
    BY <2>1, <2>4
<1>3. Iovecs(p) = [b \in 1..Len(Lens[p]) |-> B(b)]
  BY DEF Iovecs
<1> HIDE DEF B
<1> QED
  BY <1>1, <1>2, <1>3

(* The buffers, one after the other, are the bytes of the packet.          *)
LEMMA IovecsFlat ==
    ASSUME NEW p \in Packets PROVE FlattenSeq(Iovecs(p)) = Bytes(p)
<1> DEFINE iov == Iovecs(p)
           lens == Lens[p]
           L == Len(lens)
           R(n) == [i \in 1..n |-> <<p, i>>]
           N == {b \in Nat : b <= L =>
                    FlattenSeq(SubSeq(iov, 1, b)) = R(Total(SubSeq(lens, 1, b)))}
<1>0. iov \in Seq(Seq(Byte)) /\ Len(iov) = L /\ lens \in Seq(Nat) /\ L \in Nat
  BY IovecsType
<1>1. 0 \in N
  <2>1. SubSeq(iov, 1, 0) = <<>> /\ SubSeq(lens, 1, 0) = <<>>
    BY SubSeqEmpty
  <2>2. Total(<<>>) = 0
    <3>1. PICK f : Sums(f, <<>>, 0) /\ Total(<<>>) = f[0]
      <4>1. <<>> \in Seq(Nat) /\ Len(<<>>) = 0
        OBVIOUS
      <4> QED
        BY <4>1, TotalIs
    <3> QED
      BY <3>1 DEF Sums
  <2>3. R(0) = <<>>
    OBVIOUS
  <2>4. 0 \in Nat /\ FlattenSeq(SubSeq(iov, 1, 0)) = R(Total(SubSeq(lens, 1, 0)))
    <3> HIDE DEF R, iov
    <3> QED
      BY <2>1, <2>2, <2>3, FlattenEmpty
  <2> QED
    BY <2>4
<1>2. ASSUME NEW b \in Nat, b \in N PROVE b + 1 \in N
  <2>1. SUFFICES ASSUME b + 1 <= L
                 PROVE  FlattenSeq(SubSeq(iov, 1, b + 1)) = R(Total(SubSeq(lens, 1, b + 1)))
    OBVIOUS
  <2> DEFINE t == Total(SubSeq(lens, 1, b))
             x == lens[b + 1]
  <2>2. FlattenSeq(SubSeq(iov, 1, b)) = R(t) /\ b < L
    BY <1>0, <1>2, <2>1
  <2>3. /\ SubSeq(lens, 1, b) \in Seq(Nat) /\ x \in Nat
        /\ SubSeq(lens, 1, b + 1) = Append(SubSeq(lens, 1, b), x)
    BY <1>0, <2>2, PrefixAppend
  <2>4. t \in Nat /\ Total(SubSeq(lens, 1, b + 1)) = t + x
    BY <2>3, TotalType, TotalAppend
  <2>5. /\ SubSeq(iov, 1, b) \in Seq(Seq(Byte)) /\ iov[b + 1] \in Seq(Byte)
        /\ SubSeq(iov, 1, b + 1) = Append(SubSeq(iov, 1, b), iov[b + 1])
    <3> HIDE DEF iov
    <3> QED
      BY <1>0, <2>2, PrefixAppend
  <2>6. iov[b + 1] = [i \in 1..x |-> <<p, t + i>>]
    <3>1. b + 1 \in 1..L /\ (b + 1) - 1 = b
      BY <1>0, <2>1
    <3> HIDE DEF L
    <3> QED
      BY <3>1 DEF Iovecs, L
  <2>7. FlattenSeq(SubSeq(iov, 1, b + 1)) = R(t) \o [i \in 1..x |-> <<p, t + i>>]
    <3> HIDE DEF iov, R, t, x
    <3> QED
      BY <2>2, <2>5, <2>6, FlattenAppend
  <2>8. R(t) \o [i \in 1..x |-> <<p, t + i>>] = R(t + x)
    <3> HIDE DEF t, x
    <3> DEFINE r == R(t)
               q == [i \in 1..x |-> <<p, t + i>>]
               u == R(t + x)
    <3>1. r \in Seq(Byte) /\ Len(r) = t /\ \A i \in 1..t : r[i] = <<p, i>>
      BY <2>4 DEF Byte
    <3>2. q \in Seq(Byte) /\ Len(q) = x /\ \A i \in 1..x : q[i] = <<p, t + i>>
      BY <2>3, <2>4 DEF Byte
    <3>3. u \in Seq(Byte) /\ Len(u) = t + x /\ \A i \in 1..(t + x) : u[i] = <<p, i>>
      BY <2>3, <2>4 DEF Byte
    <3> HIDE DEF r, q, u
    <3>4. /\ r \o q \in Seq(Byte) /\ Len(r \o q) = Len(r) + Len(q)
          /\ \A i \in 1..(Len(r) + Len(q)) :
                (r \o q)[i] = IF i <= Len(r) THEN r[i] ELSE q[i - Len(r)]
      BY <3>1, <3>2, ConcatProperties
    <3>5. ASSUME NEW i \in 1..Len(u) PROVE (r \o q)[i] = u[i]
      <4>1. i \in 1..(t + x)
        BY <3>3
      <4>2. CASE i <= t
        <5>1. i \in 1..t /\ i \in 1..(Len(r) + Len(q)) /\ i <= Len(r)
          BY <2>3, <2>4, <3>1, <3>2, <4>1, <4>2
        <5>2. (r \o q)[i] = r[i]
          BY <3>4, <5>1
        <5> QED
          BY <3>1, <3>3, <4>1, <5>1, <5>2
      <4>3. CASE i > t
        <5>1. i - t \in 1..x /\ t + (i - t) = i
          BY <2>3, <2>4, <4>1, <4>3
        <5>2. (r \o q)[i] = q[i - t]
          BY <2>3, <2>4, <3>1, <3>2, <3>4, <4>1, <4>3
        <5> QED
          BY <3>2, <3>3, <4>1, <5>1, <5>2
      <4>4. i <= t \/ i > t
        BY <2>3, <2>4, <4>1
      <4> QED
        BY <4>2, <4>3, <4>4
    <3>6. r \o q = u
      BY <3>1, <3>2, <3>3, <3>4, <3>5, SeqEqual
    <3> QED
      BY <3>6 DEF r, q, u
  <2> HIDE DEF t, R
  <2> QED
    BY <2>4, <2>7, <2>8
<1>3. Nat \subseteq N
  <2> HIDE DEF N
  <2> QED
    BY <1>1, <1>2, SetInduction
<1>4. L \in N
  BY <1>0, <1>3
<1>5. SubSeq(iov, 1, L) = iov /\ SubSeq(lens, 1, L) = lens
  <2> HIDE DEF iov
  <2> QED
    BY <1>0, SubSeqFull
<1>6. FlattenSeq(SubSeq(iov, 1, L)) = R(Total(SubSeq(lens, 1, L)))
  <2> HIDE DEF iov, R
  <2> QED
    BY <1>0, <1>4
<1>7. FlattenSeq(iov) = R(Total(lens))
  BY <1>5, <1>6, Zenon
<1> QED
  BY <1>7 DEF Bytes

(* A packet has bytes, and they tell which packet it is.                   *)
LEMMA PacketOfIovecs ==
    ASSUME NEW p \in Packets
    PROVE  /\ Bytes(p) \in Seq(Byte)
           /\ Len(Bytes(p)) \in Nat \ {0}
           /\ BufLen(Iovecs(p)) = Len(Bytes(p))
           /\ packetOf(Iovecs(p)) = p
<1> DEFINE lens == Lens[p]
           L == Len(lens)
<1>1. lens \in Seq(Nat) /\ L \in Nat \ {0} /\ lens[1] \in Nat /\ lens[1] >= 1
  BY LensAssumption
<1>2. PICK f \in [0..L -> Nat] : Sums(f, lens, L) /\ Total(lens) = f[L]
  BY <1>1, TotalIs
<1> DEFINE N == {n \in Nat : n + 1 <= L => f[n + 1] >= 1}
<1>3. 0 \in N
  <2>1. f[0] = 0 /\ f[1] = f[0] + lens[1]
    <3>1. 0 \in 0..L /\ 1 \in 0..L /\ 1 - 1 = 0
      BY <1>1
    <3> QED
      BY <1>2, <3>1 DEF Sums
  <2> QED
    BY <1>1, <2>1
<1>4. ASSUME NEW n \in Nat, n \in N PROVE n + 1 \in N
  <2>1. SUFFICES ASSUME (n + 1) + 1 <= L PROVE f[(n + 1) + 1] >= 1
    OBVIOUS
  <2>2. f[n + 1] >= 1 /\ f[n + 1] \in Nat
    BY <1>1, <1>2, <1>4, <2>1
  <2>3. lens[(n + 1) + 1] \in Nat
    BY <1>1, <2>1
  <2>4. f[(n + 1) + 1] = f[n + 1] + lens[(n + 1) + 1]
    <3>1. (n + 1) + 1 \in 0..L /\ ((n + 1) + 1) - 1 = n + 1 /\ (n + 1) + 1 # 0
      BY <1>1, <2>1
    <3> QED
      BY <1>2, <3>1 DEF Sums
  <2> QED
    BY <2>2, <2>3, <2>4
<1>5. Nat \subseteq N
  <2> HIDE DEF N
  <2> QED
    BY <1>3, <1>4, SetInduction
<1>6. L - 1 \in N /\ (L - 1) + 1 = L
  <2> HIDE DEF N
  <2> QED
    BY <1>1, <1>5
<1>7. Total(lens) \in Nat \ {0}
  <2>1. L - 1 \in Nat
    BY <1>1
  <2>2. f[L] >= 1 /\ f[L] \in Nat
    <3> HIDE DEF L
    <3> QED
      BY <1>1, <1>2, <1>6
  <2> QED
    BY <1>2, <2>2
<1> DEFINE t == Total(lens)
<1>8. Bytes(p) = [i \in 1..t |-> <<p, i>>]
  BY DEF Bytes
<1> HIDE DEF t
<1>9. /\ Bytes(p) \in Seq(Byte) /\ Len(Bytes(p)) = t /\ t \in Nat \ {0}
      /\ Bytes(p)[1] = <<p, 1>>
  BY <1>7, <1>8 DEF Byte, t
<1>10. FlattenSeq(Iovecs(p)) = Bytes(p)
  BY IovecsFlat
<1> QED
  BY <1>9, <1>10 DEF BufLen, packetOf

(* What continueWrite passes to writev is what has not been written.       *)
LEMMA RemainingFlat ==
    ASSUME NEW pw \in PendingWrites
    PROVE  /\ remaining(pw) \in Seq(Seq(Byte))
           /\ FlattenSeq(remaining(pw)) = After(FlattenSeq(pw.iovecs), pw.bytes)
<1> DEFINE iov == pw.iovecs
           n == pw.bytes
           L == Len(iov)
           pre(b) == FlattenSeq(SubSeq(iov, 1, b))
           c(i) == BufLen(SubSeq(iov, 1, i - 1))
           left(i) == IF n <= c(i) THEN <<iov[i]>>
                      ELSE IF n < c(i) + Len(iov[i])
                           THEN <<SubSeq(iov[i], n - c(i) + 1, Len(iov[i]))>>
                           ELSE <<>>
           ll == [i \in 1..L |-> left(i)]
           rem(b) == FlattenSeq(SubSeq(ll, 1, b))
<1>0. iov \in Seq(Seq(Byte)) /\ L \in Nat /\ n \in Nat
  BY DEF PendingWrites, Byte
<1>1. remaining(pw) = FlattenSeq(ll)
  BY DEF remaining
<1> HIDE DEF iov, n
<1>2. ASSUME NEW b \in Nat, b < L
      PROVE  /\ pre(b) \in Seq(Byte) /\ iov[b + 1] \in Seq(Byte)
             /\ pre(b + 1) = pre(b) \o iov[b + 1]
             /\ c(b + 1) = Len(pre(b)) /\ c(b + 1) \in Nat
             /\ Len(iov[b + 1]) \in Nat
  <2>1. /\ SubSeq(iov, 1, b) \in Seq(Seq(Byte)) /\ iov[b + 1] \in Seq(Byte)
        /\ SubSeq(iov, 1, b + 1) = Append(SubSeq(iov, 1, b), iov[b + 1])
    BY <1>0, <1>2, PrefixAppend
  <2>2. (b + 1) - 1 = b
    OBVIOUS
  <2>3. pre(b) \in Seq(Byte) /\ pre(b + 1) = pre(b) \o iov[b + 1]
    BY <2>1, FlattenType, FlattenAppend
  <2>4. Len(iov[b + 1]) \in Nat /\ Len(pre(b)) \in Nat
    BY <2>1, <2>3
  <2> QED
    BY <2>1, <2>2, <2>3, <2>4 DEF BufLen
<1>3. ASSUME NEW i \in 1..L PROVE left(i) \in Seq(Seq(Byte))
  <2>1. i - 1 \in Nat /\ i - 1 < L /\ (i - 1) + 1 = i
    BY <1>0
  <2>2. iov[i] \in Seq(Byte) /\ c(i) \in Nat /\ Len(iov[i]) \in Nat
    BY <1>2, <2>1
  <2> HIDE DEF c
  <2>3. CASE n <= c(i)
    BY <2>2, <2>3
  <2>4. CASE ~(n <= c(i)) /\ n < c(i) + Len(iov[i])
    <3>1. n - c(i) \in Nat
      BY <1>0, <2>2, <2>4
    <3>2. SubSeq(iov[i], n - c(i) + 1, Len(iov[i])) \in Seq(Byte)
      BY <2>2, <3>1, AfterFacts DEF After
    <3> QED
      BY <2>4, <3>2
  <2>5. CASE ~(n <= c(i)) /\ ~(n < c(i) + Len(iov[i]))
    BY <2>5
  <2> QED
    BY <2>3, <2>4, <2>5
<1>4. ll \in Seq(Seq(Seq(Byte))) /\ Len(ll) = L /\ \A i \in 1..L : ll[i] = left(i)
  <2> HIDE DEF left, L
  <2> QED
    BY <1>0, <1>3
<1> DEFINE N == {b \in Nat : b <= L =>
                    /\ rem(b) \in Seq(Seq(Byte))
                    /\ FlattenSeq(rem(b)) = After(pre(b), n)}
<1>5. 0 \in N
  <2>1. SubSeq(iov, 1, 0) = <<>> /\ SubSeq(ll, 1, 0) = <<>>
    BY SubSeqEmpty
  <2>2. pre(0) = <<>> /\ rem(0) = <<>>
    BY <2>1, FlattenEmpty
  <2>3. After(<<>>, n) = <<>>
    <3>1. <<>> \in Seq(Byte) /\ Len(<<>>) = 0
      OBVIOUS
    <3> QED
      BY <1>0, <3>1, AfterFacts
  <2>4. <<>> \in Seq(Seq(Byte))
    OBVIOUS
  <2>5. rem(0) \in Seq(Seq(Byte)) /\ FlattenSeq(rem(0)) = After(pre(0), n)
    BY <2>2, <2>3, <2>4, FlattenEmpty, Zenon
  <2> HIDE DEF pre, rem
  <2> QED
    BY <2>5
<1>6. ASSUME NEW b \in Nat, b \in N PROVE b + 1 \in N
  <2>0. SUFFICES ASSUME b + 1 <= L
                 PROVE  /\ rem(b + 1) \in Seq(Seq(Byte))
                        /\ FlattenSeq(rem(b + 1)) = After(pre(b + 1), n)
    OBVIOUS
  <2>1. b < L /\ b + 1 \in 1..L
    BY <1>0, <2>0
  <2>2. rem(b) \in Seq(Seq(Byte)) /\ FlattenSeq(rem(b)) = After(pre(b), n)
    <3>1. b <= L
      BY <1>0, <2>1
    <3> HIDE DEF rem, pre
    <3> QED
      BY <1>6, <3>1
  <2>3. rem(b + 1) = rem(b) \o left(b + 1)
    <3>1. /\ SubSeq(ll, 1, b) \in Seq(Seq(Seq(Byte)))
          /\ SubSeq(ll, 1, b + 1) = Append(SubSeq(ll, 1, b), ll[b + 1])
      <4> HIDE DEF ll
      <4> QED
        BY <1>4, <2>1, PrefixAppend
    <3>2. ll[b + 1] = left(b + 1) /\ left(b + 1) \in Seq(Seq(Byte))
      BY <1>3, <2>1
    <3> HIDE DEF ll, left
    <3> QED
      BY <3>1, <3>2, FlattenAppend
  <2> DEFINE F == pre(b)
             x == iov[b + 1]
             m == Len(F)
             l == left(b + 1)
             r == rem(b)
             k == c(b + 1)
  <2>4. /\ F \in Seq(Byte) /\ x \in Seq(Byte) /\ pre(b + 1) = F \o x
        /\ m \in Nat /\ Len(x) \in Nat /\ k = m
    BY <1>2, <2>1
  <2>5. l = IF n <= m THEN <<x>>
            ELSE IF n < m + Len(x) THEN <<After(x, n - m)>> ELSE <<>>
    <3>1. l = IF n <= k THEN <<x>>
              ELSE IF n < k + Len(x) THEN <<After(x, n - k)>> ELSE <<>>
      BY DEF After
    <3> HIDE DEF l, x, m, k
    <3> QED
      BY <2>4, <3>1
  <2>6. r \in Seq(Seq(Byte)) /\ FlattenSeq(r) = After(F, n) /\ rem(b + 1) = r \o l
    BY <2>2, <2>3
  <2>7. After(F \o x, n) = IF n <= m THEN After(F, n) \o x ELSE After(x, n - m)
    <3> HIDE DEF F, x
    <3> QED
      BY <1>0, <2>4, AfterConcat
  <2> HIDE DEF F, x, l, r, k, rem, pre, left, c
  <2>8. m \in Nat /\ m = Len(F)
    BY <2>4
  <2> HIDE DEF m
  <2>9. ASSUME NEW y \in Seq(Byte), l = <<y>>
        PROVE  /\ r \o l \in Seq(Seq(Byte))
               /\ FlattenSeq(r \o l) = FlattenSeq(r) \o y
    <3>1. r \o l = Append(r, y) /\ Append(r, y) \in Seq(Seq(Byte))
      BY <2>6, <2>9, AppendIsConcat, AppendProperties
    <3> QED
      BY <2>6, <3>1, FlattenAppend
  <2>10. n > m => After(F, n) = <<>>
    BY <1>0, <2>4, <2>8, AfterFacts
  <2>11. CASE n <= m
    <3>1. l = <<x>>
      BY <2>5, <2>11
    <3>2. r \o l \in Seq(Seq(Byte)) /\ FlattenSeq(r \o l) = FlattenSeq(r) \o x
      BY <2>4, <2>9, <3>1
    <3> QED
      BY <2>4, <2>6, <2>7, <2>11, <3>2
  <2>12. CASE n > m /\ n < m + Len(x)
    <3>1. l = <<After(x, n - m)>> /\ n - m \in Nat
      BY <1>0, <2>5, <2>8, <2>12
    <3>2. After(x, n - m) \in Seq(Byte)
      BY <2>4, <3>1, AfterFacts
    <3>3. /\ r \o l \in Seq(Seq(Byte))
          /\ FlattenSeq(r \o l) = <<>> \o After(x, n - m)
      BY <2>6, <2>9, <2>10, <2>12, <3>1, <3>2
    <3>4. <<>> \o After(x, n - m) = After(x, n - m)
      BY <3>2, ConcatEmptySeq
    <3>5. After(F \o x, n) = After(x, n - m)
      BY <1>0, <2>7, <2>8, <2>12
    <3> QED
      BY <2>4, <2>6, <3>3, <3>4, <3>5
  <2>13. CASE n > m /\ ~(n < m + Len(x))
    <3>1. l = <<>> /\ n - m \in Nat /\ n - m >= Len(x)
      BY <1>0, <2>4, <2>5, <2>8, <2>13
    <3>2. r \o l = r
      BY <2>6, <3>1, ConcatEmptySeq
    <3>3. After(x, n - m) = <<>>
      BY <2>4, <3>1, AfterFacts
    <3>4. After(F \o x, n) = <<>>
      BY <1>0, <2>7, <2>8, <2>13, <3>3
    <3> QED
      BY <2>4, <2>6, <2>10, <2>13, <3>2, <3>4
  <2> QED
    BY <1>0, <2>8, <2>11, <2>12, <2>13
<1>7. Nat \subseteq N
  <2> HIDE DEF N
  <2> QED
    BY <1>5, <1>6, SetInduction
<1>8. rem(L) \in Seq(Seq(Byte)) /\ FlattenSeq(rem(L)) = After(pre(L), n)
  <2>1. L \in N
    BY <1>0, <1>7
  <2> HIDE DEF rem, pre
  <2> QED
    BY <1>0, <2>1
<1>9. SubSeq(iov, 1, L) = iov /\ SubSeq(ll, 1, L) = ll
  <2> HIDE DEF ll
  <2> QED
    BY <1>0, <1>4, SubSeqFull
<1>10. pre(L) = FlattenSeq(iov) /\ rem(L) = FlattenSeq(ll)
  BY <1>9, Zenon
<1> HIDE DEF pre, rem, ll
<1> QED
  BY <1>1, <1>8, <1>10 DEF iov, n

(* The bytes of one more packet.                                           *)
LEMMA StreamAppend ==
    ASSUME NEW a \in Seq(Packets), NEW p \in Packets
    PROVE  /\ [i \in DOMAIN a |-> Bytes(a[i])] \in Seq(Seq(Byte))
           /\ FlattenSeq([i \in DOMAIN Append(a, p) |-> Bytes(Append(a, p)[i])])
                = FlattenSeq([i \in DOMAIN a |-> Bytes(a[i])]) \o Bytes(p)
<1> DEFINE b == Append(a, p)
           A == [i \in DOMAIN a |-> Bytes(a[i])]
           B == [i \in DOMAIN b |-> Bytes(b[i])]
<1>1. /\ b \in Seq(Packets) /\ Len(a) \in Nat /\ Len(b) = Len(a) + 1 /\ b[Len(a) + 1] = p
      /\ \A i \in 1..Len(a) : b[i] = a[i]
      /\ DOMAIN a = 1..Len(a) /\ DOMAIN b = 1..Len(b)
      /\ \A i \in 1..Len(a) : a[i] \in Packets
      /\ \A i \in 1..Len(b) : b[i] \in Packets
  BY AppendProperties, LenProperties
<1> HIDE DEF b
<1>2. \A q \in Packets : Bytes(q) \in Seq(Byte)
  BY PacketOfIovecs
<1>3. /\ A \in Seq(Seq(Byte)) /\ Len(A) = Len(a)
      /\ \A i \in 1..Len(a) : A[i] = Bytes(a[i])
  BY <1>1, <1>2
<1>4. /\ B \in Seq(Seq(Byte)) /\ Len(B) = Len(b)
      /\ \A i \in 1..Len(b) : B[i] = Bytes(b[i])
  BY <1>1, <1>2
<1> HIDE DEF A, B
<1>5. /\ Append(A, Bytes(p)) \in Seq(Seq(Byte)) /\ Len(Append(A, Bytes(p))) = Len(A) + 1
      /\ \A i \in 1..Len(A) : Append(A, Bytes(p))[i] = A[i]
      /\ Append(A, Bytes(p))[Len(A) + 1] = Bytes(p)
  BY <1>2, <1>3, AppendProperties
<1>6. ASSUME NEW i \in 1..Len(B) PROVE B[i] = Append(A, Bytes(p))[i]
  <2>1. i \in 1..Len(a) \/ i = Len(a) + 1
    BY <1>1, <1>4
  <2> QED
    BY <1>1, <1>3, <1>4, <1>5, <2>1
<1>7. B = Append(A, Bytes(p))
  BY <1>1, <1>3, <1>4, <1>5, <1>6, SeqEqual
<1>8. FlattenSeq(B) = FlattenSeq(A) \o Bytes(p)
  BY <1>2, <1>3, <1>7, FlattenAppend
<1> QED
  BY <1>3, <1>8 DEF A, B, b

-----------------------------------------------------------------------------
(* The inductive invariant                                                 *)

(* The sockets of the writes ws; one write for each; what each write holds. *)
SocketsOf(ws) == {ws[i].socket : i \in DOMAIN ws}
OneEach(ws) == \A i, j \in DOMAIN ws : ws[i].socket = ws[j].socket => i = j
Unfinished(pw) ==
    /\ \E p \in Packets : pw.iovecs = Iovecs(p)
    /\ pw.total = BufLen(pw.iovecs)
    /\ pw.bytes <= pw.total
AllUnfinished(ws) == \A i \in DOMAIN ws : Unfinished(ws[i])

(* No socket is twice on the list.                                         *)
Distinct(list) == \A i, j \in DOMAIN list : list[i] = list[j] => i = j

Stored == SocketsOf(writes)
Listed == ToSet(write_pending)

(* putdatas has stored a write and not listed its socket yet; the reverse  *)
(* for continueWrites.                                                     *)
Adding   == put.pc \in {"append", "appending"}
Removing == cont.pc \in {"load", "store", "unlink", "take"}

(* putdatas holds what is left of a packet, and no list has it yet.        *)
Holding == put.pc \in {"buffer", "buffering"}

(* What the threads are at work on, whatever the lists have suffered.      *)
WorkInv ==
    /\ put.pc = "idle" => put = IdlePut
    /\ put.pc # "idle" => put.socket \in Sockets
    /\ put.pc # "idle" => \E p \in Packets : put.iovecs = Iovecs(p)
    /\ cont.pc = "remove" => cont.cur \in Stored

(* No element before the one putdatas is at has the socket it looks for.   *)
Passed(list, at, s) ==
    \E j \in DOMAIN list : list[j] = at /\ \A i \in DOMAIN list : i < j => list[i] # s
WalkInv ==
    put.pc = "find" =>
        \/ put.at = NULL /\ put.socket \notin Listed
        \/ put.at # NULL /\ Passed(write_pending, put.at, put.socket)

(* What putdatas knows of the lists.                                       *)
PutInv ==
    /\ WalkInv
    /\ put.pc \in {"found", "appending"} => put.at \in Listed \cup {NULL}
    /\ put.pc = "found" => put.at # NULL
    /\ put.pc = "buffering" => put.at \in Stored \cup {NULL}
    /\ Holding \/ Adding => put.bytes <= BufLen(put.iovecs)
    /\ put.pc = "write" \/ Holding => put.socket \notin Stored \cup Listed
    /\ Adding => put.socket \in Stored /\ put.socket \notin Listed

(* What continueWrites knows of them.                                      *)
ContInv ==
    /\ cont.pc = "scan" /\ cont.cur # NULL => cont.cur \in Listed
    /\ cont.pc = "remove" => cont.cur \in Listed
    /\ Removing => cont.cur \in Listed /\ cont.cur \notin Stored
    /\ cont.pc \in {"take", "restore"} => cont.saved \in Listed \cup {NULL}

(* The list and the stored writes agree, but for the sockets that are being *)
(* added or removed.                                                       *)
ListInv ==
    /\ Distinct(write_pending)
    /\ OneEach(writes)
    /\ AllUnfinished(writes)
    /\ \A s \in Listed : s \in Stored \/ (Removing /\ s = cont.cur)
    /\ \A s \in Stored : s \in Listed \/ (Adding /\ s = put.socket)
    /\ Len(writes) + (IF Removing THEN 1 ELSE 0)
            = Len(write_pending) + (IF Adding THEN 1 ELSE 0)
    /\ cont.pc # "restore" => current \in Listed \cup {NULL}

TypeInv == TypeOK /\ WorkInv

WInv == TypeInv /\ PutInv /\ ContInv /\ ListInv

(* The bytes of the packets accepted for s.                                *)
AcceptedBytes(s) == FlattenSeq([i \in DOMAIN accepted[s] |-> Bytes(accepted[s][i])])

(* On a connection that is not broken the wire holds what was accepted but *)
(* for the rest of the packet that is stored, or about to be.              *)
WireInv ==
    /\ cont.pc = "remove" /\ cont.cur \notin broken =>
        \A i \in DOMAIN writes :
            writes[i].socket = cont.cur => writes[i].bytes = writes[i].total
    /\ \A s \in Sockets \ broken : \A i \in DOMAIN writes : writes[i].socket = s =>
        wire[s] \o After(FlattenSeq(writes[i].iovecs), writes[i].bytes) = AcceptedBytes(s)
    /\ \A s \in Sockets \ broken : put.pc \in {"buffer", "buffering"} /\ put.socket = s =>
        wire[s] \o After(FlattenSeq(put.iovecs), put.bytes) = AcceptedBytes(s)
    /\ \A s \in Sockets \ broken :
        s \notin Stored /\ ~(put.pc \in {"buffer", "buffering"} /\ put.socket = s) =>
            wire[s] = AcceptedBytes(s)
    /\ \A s \in broken : IsPrefix(wire[s], AcceptedBytes(s))

(* Every listed socket is watched, or about to be, or about to be unlinked. *)
WatchInv ==
    \A s \in Listed :
        \/ s \in pending_wset
        \/ put.pc \in {"load", "store"} /\ put.socket = s
        \/ cont.pc \in {"unlink", "take"} /\ cont.cur = s

-----------------------------------------------------------------------------
(* Facts about the two lists                                               *)

(* A socket is added to the list ...                                       *)
LEMMA ListAppend ==
    ASSUME NEW list \in Seq(Sockets), NEW s \in Sockets
    PROVE  /\ Append(list, s) \in Seq(Sockets)
           /\ Len(Append(list, s)) = Len(list) + 1
           /\ ToSet(Append(list, s)) = ToSet(list) \cup {s}
           /\ Distinct(list) /\ s \notin ToSet(list) => Distinct(Append(list, s))
<1> DEFINE l2 == Append(list, s)
<1>1. /\ l2 \in Seq(Sockets) /\ Len(list) \in Nat /\ Len(l2) = Len(list) + 1
      /\ l2[Len(list) + 1] = s /\ \A i \in 1..Len(list) : l2[i] = list[i]
      /\ DOMAIN l2 = 1..Len(l2) /\ DOMAIN list = 1..Len(list)
  BY AppendProperties, LenProperties
<1> HIDE DEF l2
<1>2. \A i \in 1..Len(l2) : i \in 1..Len(list) \/ i = Len(list) + 1
  BY <1>1
<1>3. \A i \in 1..Len(list) : i \in 1..Len(l2)
  BY <1>1
<1>4. Len(list) + 1 \in 1..Len(l2)
  BY <1>1
<1>5. ToSet(l2) = ToSet(list) \cup {s}
  BY <1>1, <1>2, <1>3, <1>4 DEF ToSet
<1>6. Distinct(list) /\ s \notin ToSet(list) => Distinct(l2)
  BY <1>1, <1>2 DEF Distinct, ToSet
<1> QED
  BY <1>1, <1>5, <1>6 DEF l2

(* ... and taken off it.                                                   *)
LEMMA ListRemove ==
    ASSUME NEW list \in Seq(Sockets), NEW s \in ToSet(list), Distinct(list)
    PROVE  /\ RemoveFirst(list, s) \in Seq(Sockets)
           /\ Len(RemoveFirst(list, s)) = Len(list) - 1
           /\ ToSet(RemoveFirst(list, s)) = ToSet(list) \ {s}
           /\ Distinct(RemoveFirst(list, s))
<1> DEFINE I == {i \in 1..Len(list) : list[i] = s}
           k == Min(I)
           l2 == RemoveAt(list, k)
<1>0. Len(list) \in Nat /\ DOMAIN list = 1..Len(list)
  BY LenProperties
<1>1. I \in SUBSET Nat /\ I # {}
  BY <1>0 DEF ToSet
<1>2. k \in I
  <2> HIDE DEF I
  <2> QED
    BY <1>1, MinOfNats
<1>3. k \in 1..Len(list) /\ list[k] = s
  <2> HIDE DEF k
  <2> QED
    BY <1>2
<1>4. RemoveFirst(list, s) = l2
  BY <1>0, <1>1 DEF RemoveFirst, SelectInSeq
<1> HIDE DEF I, k
<1>5. /\ l2 \in Seq(Sockets) /\ Len(l2) = Len(list) - 1
      /\ \A j \in 1..(Len(list) - 1) : l2[j] = IF j < k THEN list[j] ELSE list[j + 1]
  BY <1>3, RemoveAtFacts
<1>6. DOMAIN l2 = 1..(Len(list) - 1)
  <2> HIDE DEF l2
  <2> QED
    BY <1>5, LenProperties
<1> HIDE DEF l2
<1>7. Distinct(l2)
  <2> SUFFICES ASSUME NEW i \in 1..(Len(list) - 1), NEW j \in 1..(Len(list) - 1),
                      l2[i] = l2[j]
               PROVE  i = j
    BY <1>6 DEF Distinct
  <2>1. /\ i \in DOMAIN list /\ j \in DOMAIN list
        /\ i + 1 \in DOMAIN list /\ j + 1 \in DOMAIN list
    BY <1>0
  <2> QED
    BY <1>0, <1>3, <1>5, <2>1 DEF Distinct
<1>8. ToSet(l2) = ToSet(list) \ {s}
  <2>1. ASSUME NEW x \in ToSet(l2) PROVE x \in ToSet(list) \ {s}
    <3>1. PICK j \in 1..(Len(list) - 1) : x = l2[j]
      BY <1>6 DEF ToSet
    <3>2. j \in DOMAIN list /\ j + 1 \in DOMAIN list /\ k \in DOMAIN list
      BY <1>0, <1>3
    <3>3. CASE j < k
      BY <1>3, <1>5, <3>1, <3>2, <3>3 DEF ToSet, Distinct
    <3>4. CASE ~(j < k)
      <4>1. j + 1 # k /\ x = list[j + 1]
        BY <1>0, <1>3, <1>5, <3>1, <3>4
      <4> QED
        BY <1>3, <3>2, <4>1 DEF ToSet, Distinct
    <3> QED
      BY <3>3, <3>4
  <2>2. ASSUME NEW x \in ToSet(list) \ {s} PROVE x \in ToSet(l2)
    <3>1. PICK i \in 1..Len(list) : x = list[i]
      BY <1>0 DEF ToSet
    <3>2. i # k
      BY <1>3, <3>1
    <3>3. CASE i < k
      <4>1. i \in 1..(Len(list) - 1) /\ l2[i] = x
        BY <1>0, <1>3, <1>5, <3>1, <3>3
      <4> QED
        BY <1>6, <4>1 DEF ToSet
    <3>4. CASE i > k
      <4>1. i - 1 \in 1..(Len(list) - 1) /\ l2[i - 1] = x
        <5>1. i - 1 \in 1..(Len(list) - 1) /\ ~(i - 1 < k) /\ (i - 1) + 1 = i
          BY <1>0, <1>3, <3>1, <3>4
        <5> QED
          BY <1>5, <3>1, <5>1
      <4> QED
        BY <1>6, <4>1 DEF ToSet
    <3> QED
      BY <1>0, <1>3, <3>1, <3>2, <3>3, <3>4
  <2> QED
    BY <2>1, <2>2
<1> QED
  BY <1>4, <1>5, <1>7, <1>8

(* The element after the one of s, if any.                                 *)
LEMMA NextElement ==
    ASSUME write_pending \in Seq(Sockets), NEW s \in Listed
    PROVE  /\ nextElement(s) \in Listed \cup {NULL}
           /\ Distinct(write_pending) => nextElement(s) # s
<1> DEFINE i == CHOOSE j \in DOMAIN write_pending : write_pending[j] = s
<1>1. i \in DOMAIN write_pending /\ write_pending[i] = s
  BY DEF Listed, ToSet
<1>2. nextElement(s) = IF i < Len(write_pending) THEN write_pending[i + 1] ELSE NULL
  BY <1>1 DEF nextElement, Pending
<1> HIDE DEF i
<1>3. Len(write_pending) \in Nat /\ DOMAIN write_pending = 1..Len(write_pending)
  BY LenProperties
<1>4. i < Len(write_pending) => i + 1 \in DOMAIN write_pending
  BY <1>1, <1>3
<1>5. s \in Sockets /\ s # NULL
  BY <1>1, <1>3, NullAssumption, ElementOfSeq
<1>6. i + 1 # i
  BY <1>1, <1>3
<1> QED
  BY <1>1, <1>2, <1>4, <1>5, <1>6 DEF Listed, ToSet, Distinct

(* What putdatas has passed stays passed when it goes on to the next       *)
(* element, or finds no more ...                                           *)
LEMMA PassedNext ==
    ASSUME write_pending \in Seq(Sockets), Distinct(write_pending), NEW at, NEW s,
           at # s, Passed(write_pending, at, s)
    PROVE  \/ nextElement(at) = NULL /\ s \notin Listed
           \/ nextElement(at) # NULL /\ Passed(write_pending, nextElement(at), s)
<1>0. Len(write_pending) \in Nat /\ DOMAIN write_pending = 1..Len(write_pending)
  BY LenProperties
<1>1. PICK j \in DOMAIN write_pending :
        write_pending[j] = at /\ \A i \in DOMAIN write_pending : i < j => write_pending[i] # s
  BY DEF Passed
<1> DEFINE k == CHOOSE h \in DOMAIN write_pending : write_pending[h] = at
<1>2. k \in DOMAIN write_pending /\ write_pending[k] = at
  BY <1>1
<1>3. nextElement(at) = IF k < Len(write_pending) THEN write_pending[k + 1] ELSE NULL
  BY <1>1 DEF nextElement, Pending
<1> HIDE DEF k
<1>4. k = j
  BY <1>1, <1>2 DEF Distinct
<1>5. \A i \in DOMAIN write_pending : i < j + 1 => write_pending[i] # s
  BY <1>0, <1>1
<1>6. CASE j < Len(write_pending)
  <2>1. j + 1 \in DOMAIN write_pending /\ nextElement(at) = write_pending[j + 1]
    BY <1>0, <1>1, <1>3, <1>4, <1>6
  <2>2. write_pending[j + 1] \in Sockets
    BY <1>0, <2>1, ElementOfSeq
  <2>3. nextElement(at) # NULL
    BY <2>1, <2>2, NullAssumption
  <2> QED
    BY <1>5, <2>1, <2>3 DEF Passed
<1>7. CASE ~(j < Len(write_pending))
  <2>1. \A i \in DOMAIN write_pending : i < j + 1
    BY <1>0, <1>1, <1>7
  <2> QED
    BY <1>3, <1>4, <1>5, <1>7, <2>1 DEF Listed, ToSet
<1> QED
  BY <1>6, <1>7

(* ... and when another element is taken out.                              *)
LEMMA PassedRemove ==
    ASSUME NEW list \in Seq(Sockets), Distinct(list), NEW at, NEW s, NEW e \in ToSet(list),
           e # at, Passed(list, at, s)
    PROVE  Passed(RemoveFirst(list, e), at, s)
<1> DEFINE I == {i \in 1..Len(list) : list[i] = e}
           k == Min(I)
           l2 == RemoveAt(list, k)
<1>0. Len(list) \in Nat /\ DOMAIN list = 1..Len(list)
  BY LenProperties
<1>1. I \in SUBSET Nat /\ I # {}
  BY <1>0 DEF ToSet
<1>2. k \in I
  <2> HIDE DEF I
  <2> QED
    BY <1>1, MinOfNats
<1>3. k \in 1..Len(list) /\ list[k] = e
  <2> HIDE DEF k
  <2> QED
    BY <1>2
<1>4. RemoveFirst(list, e) = l2
  BY <1>0, <1>1 DEF RemoveFirst, SelectInSeq
<1> HIDE DEF I, k
<1>5. /\ l2 \in Seq(Sockets) /\ Len(l2) = Len(list) - 1
      /\ \A j \in 1..(Len(list) - 1) : l2[j] = IF j < k THEN list[j] ELSE list[j + 1]
  BY <1>3, RemoveAtFacts
<1>6. DOMAIN l2 = 1..(Len(list) - 1)
  <2> HIDE DEF l2
  <2> QED
    BY <1>5, LenProperties
<1> HIDE DEF l2
<1>7. PICK j \in DOMAIN list : list[j] = at /\ \A i \in DOMAIN list : i < j => list[i] # s
  BY DEF Passed
<1>8. j # k
  BY <1>3, <1>7
<1>9. CASE j < k
  <2>1. j \in DOMAIN l2 /\ l2[j] = at
    BY <1>0, <1>3, <1>5, <1>6, <1>7, <1>9
  <2>2. ASSUME NEW i \in DOMAIN l2, i < j PROVE l2[i] # s
    <3>1. i \in DOMAIN list /\ l2[i] = list[i]
      BY <1>0, <1>3, <1>5, <1>6, <1>9, <2>2
    <3> QED
      BY <1>7, <2>2, <3>1
  <2> QED
    BY <1>4, <2>1, <2>2 DEF Passed
<1>10. CASE j > k
  <2>1. j - 1 \in 1..(Len(list) - 1) /\ ~(j - 1 < k) /\ (j - 1) + 1 = j
    BY <1>0, <1>3, <1>7, <1>10
  <2>2. j - 1 \in DOMAIN l2 /\ l2[j - 1] = at
    BY <1>5, <1>6, <1>7, <2>1
  <2>3. ASSUME NEW i \in DOMAIN l2, i < j - 1 PROVE l2[i] # s
    <3>1. /\ i \in 1..(Len(list) - 1) /\ i \in DOMAIN list /\ i + 1 \in DOMAIN list
          /\ i < j /\ i + 1 < j
      BY <1>0, <1>6, <1>7, <2>3
    <3> QED
      BY <1>5, <1>7, <3>1
  <2> QED
    BY <1>4, <2>2, <2>3 DEF Passed
<1>11. j < k \/ j > k
  BY <1>0, <1>3, <1>7, <1>8
<1> QED
  BY <1>4, <1>9, <1>10, <1>11

(* A search begins at the first element; nothing is before it.             *)
LEMMA PassedFirst ==
    ASSUME write_pending \in Seq(Sockets), NEW s
    PROVE  LET at == firstOf(write_pending)
           IN  /\ at \in Listed \cup {NULL}
               /\ \/ at = NULL /\ s \notin Listed
                  \/ at # NULL /\ Passed(write_pending, at, s)
<1>1. CASE write_pending = <<>>
  BY <1>1 DEF firstOf, Listed, ToSet
<1>2. CASE write_pending # <<>>
  <2>1. /\ 1 \in DOMAIN write_pending /\ firstOf(write_pending) = write_pending[1]
        /\ DOMAIN write_pending = 1..Len(write_pending) /\ Len(write_pending) \in Nat
    BY <1>2, LenProperties DEF firstOf
  <2>2. write_pending[1] \in Sockets
    BY <2>1, ElementOfSeq
  <2>3. \A i \in DOMAIN write_pending : ~(i < 1)
    BY <2>1
  <2> QED
    BY <2>1, <2>2, <2>3, NullAssumption DEF Passed, Listed, ToSet
<1> QED
  BY <1>1, <1>2

(* The last element is listed.                                             *)
LEMMA LastListed ==
    ASSUME write_pending \in Seq(Sockets)
    PROVE  lastOf(write_pending) \in Listed \cup {NULL}
<1>1. CASE write_pending = <<>>
  BY <1>1 DEF lastOf
<1>2. CASE write_pending # <<>>
  <2>1. /\ Len(write_pending) \in DOMAIN write_pending
        /\ lastOf(write_pending) = write_pending[Len(write_pending)]
    BY <1>2 DEF lastOf, Last
  <2> QED
    BY <2>1 DEF Listed, ToSet
<1> QED
  BY <1>1, <1>2

(* getWrite finds the write of a socket that has one.                      *)
LEMMA WriteOf ==
    ASSUME NEW ws \in Seq(PendingWrites), NEW s
    PROVE  LET i == SelectInSeq(ws, LAMBDA pw : pw.socket = s)
           IN  /\ s \in SocketsOf(ws) => i \in 1..Len(ws) /\ ws[i].socket = s
               /\ s \notin SocketsOf(ws) => i = 0
<1> DEFINE I == {i \in 1..Len(ws) : ws[i].socket = s}
<1>1. Len(ws) \in Nat /\ DOMAIN ws = 1..Len(ws)
  BY LenProperties
<1>2. SelectInSeq(ws, LAMBDA pw : pw.socket = s) = IF I # {} THEN Min(I) ELSE 0
  BY DEF SelectInSeq
<1>3. I \in SUBSET Nat /\ (s \in SocketsOf(ws) <=> I # {})
  BY <1>1 DEF SocketsOf
<1>4. I # {} => Min(I) \in I
  <2> HIDE DEF I
  <2> QED
    BY <1>3, MinOfNats
<1>5. \A i \in I : i \in 1..Len(ws) /\ ws[i].socket = s
  OBVIOUS
<1> HIDE DEF I
<1> QED
  BY <1>2, <1>3, <1>4, <1>5

LEMMA WriteOfStored ==
    ASSUME writes \in Seq(PendingWrites), NEW s \in Stored
    PROVE  writeOf(s) \in DOMAIN writes /\ writes[writeOf(s)].socket = s
<1>1. DOMAIN writes = 1..Len(writes)
  BY LenProperties
<1>2. writeOf(s) \in 1..Len(writes) /\ writes[writeOf(s)].socket = s
  BY WriteOf DEF writeOf, Stored
<1> QED
  BY <1>1, <1>2

(* A write is stored ...                                                   *)
LEMMA WritesAppend ==
    ASSUME NEW ws \in Seq(PendingWrites), NEW pw \in PendingWrites
    PROVE  /\ Append(ws, pw) \in Seq(PendingWrites)
           /\ Len(Append(ws, pw)) = Len(ws) + 1
           /\ SocketsOf(Append(ws, pw)) = SocketsOf(ws) \cup {pw.socket}
           /\ OneEach(ws) /\ pw.socket \notin SocketsOf(ws) => OneEach(Append(ws, pw))
           /\ AllUnfinished(ws) /\ Unfinished(pw) => AllUnfinished(Append(ws, pw))
           /\ \A i \in DOMAIN Append(ws, pw) :
                Append(ws, pw)[i] = pw \/ (i \in DOMAIN ws /\ Append(ws, pw)[i] = ws[i])
<1> DEFINE w2 == Append(ws, pw)
<1>1. /\ w2 \in Seq(PendingWrites) /\ Len(ws) \in Nat /\ Len(w2) = Len(ws) + 1
      /\ w2[Len(ws) + 1] = pw /\ \A i \in 1..Len(ws) : w2[i] = ws[i]
      /\ DOMAIN w2 = 1..Len(w2) /\ DOMAIN ws = 1..Len(ws)
  BY AppendProperties, LenProperties
<1> HIDE DEF w2
<1>2. \A i \in 1..Len(w2) : i \in 1..Len(ws) \/ i = Len(ws) + 1
  BY <1>1
<1>3. \A i \in 1..Len(ws) : i \in 1..Len(w2)
  BY <1>1
<1>4. Len(ws) + 1 \in 1..Len(w2)
  BY <1>1
<1>5. SocketsOf(w2) = SocketsOf(ws) \cup {pw.socket}
  BY <1>1, <1>2, <1>3, <1>4 DEF SocketsOf
<1>6. OneEach(ws) /\ pw.socket \notin SocketsOf(ws) => OneEach(w2)
  BY <1>1, <1>2 DEF OneEach, SocketsOf
<1>7. AllUnfinished(ws) /\ Unfinished(pw) => AllUnfinished(w2)
  BY <1>1, <1>2 DEF AllUnfinished
<1>8. \A i \in DOMAIN w2 : w2[i] = pw \/ (i \in DOMAIN ws /\ w2[i] = ws[i])
  BY <1>1, <1>2
<1> QED
  BY <1>1, <1>5, <1>6, <1>7, <1>8 DEF w2

(* ... continued: b bytes of write k are written ...                       *)
Continued(w2, ws, k, b) == w2 = [ws EXCEPT ![k].bytes = b]

LEMMA WritesUpdate ==
    ASSUME NEW ws \in Seq(PendingWrites), NEW k \in DOMAIN ws, NEW b \in Nat,
           NEW w2, Continued(w2, ws, k, b)
    PROVE  /\ w2 \in Seq(PendingWrites)
           /\ Len(w2) = Len(ws) /\ DOMAIN w2 = DOMAIN ws
           /\ SocketsOf(w2) = SocketsOf(ws)
           /\ OneEach(ws) => OneEach(w2)
           /\ AllUnfinished(ws) /\ b <= ws[k].total => AllUnfinished(w2)
           /\ \A i \in DOMAIN ws :
                /\ w2[i].socket = ws[i].socket /\ w2[i].iovecs = ws[i].iovecs
                /\ w2[i].total = ws[i].total
                /\ w2[i].bytes = IF i = k THEN b ELSE ws[i].bytes
<1> DEFINE e == [ws[k] EXCEPT !.bytes = b]
<1>1. Len(ws) \in Nat /\ DOMAIN ws = 1..Len(ws) /\ ws[k] \in PendingWrites
  BY LenProperties, ElementOfSeq
<1>2. /\ e \in PendingWrites /\ e.socket = ws[k].socket /\ e.iovecs = ws[k].iovecs
      /\ e.total = ws[k].total /\ e.bytes = b
  BY <1>1 DEF PendingWrites
<1>3. w2 = [ws EXCEPT ![k] = e]
  BY DEF Continued
<1> HIDE DEF e
<1>4. /\ w2 \in Seq(PendingWrites) /\ Len(w2) = Len(ws)
      /\ \A i \in 1..Len(ws) : w2[i] = IF i = k THEN e ELSE ws[i]
  BY <1>1, <1>2, <1>3, ExceptSeq
<1>5. DOMAIN w2 = DOMAIN ws
  BY <1>1, <1>4, LenProperties
<1>6. \A i \in DOMAIN ws :
        /\ w2[i].socket = ws[i].socket /\ w2[i].iovecs = ws[i].iovecs
        /\ w2[i].total = ws[i].total
        /\ w2[i].bytes = IF i = k THEN b ELSE ws[i].bytes
  BY <1>1, <1>2, <1>4
<1>7. SocketsOf(w2) = SocketsOf(ws)
  BY <1>5, <1>6 DEF SocketsOf
<1>8. OneEach(ws) => OneEach(w2)
  BY <1>5, <1>6 DEF OneEach
<1>9. AllUnfinished(ws) /\ b <= ws[k].total => AllUnfinished(w2)
  BY <1>5, <1>6 DEF AllUnfinished, Unfinished
<1> QED
  BY <1>4, <1>5, <1>6, <1>7, <1>8, <1>9

(* ... and removed.                                                        *)
LEMMA WritesRemove ==
    ASSUME NEW ws \in Seq(PendingWrites), NEW k \in DOMAIN ws, OneEach(ws)
    PROVE  /\ RemoveAt(ws, k) \in Seq(PendingWrites)
           /\ Len(RemoveAt(ws, k)) = Len(ws) - 1
           /\ SocketsOf(RemoveAt(ws, k)) = SocketsOf(ws) \ {ws[k].socket}
           /\ OneEach(RemoveAt(ws, k))
           /\ AllUnfinished(ws) => AllUnfinished(RemoveAt(ws, k))
           /\ \A j \in DOMAIN RemoveAt(ws, k) :
                \E i \in DOMAIN ws : i # k /\ RemoveAt(ws, k)[j] = ws[i]
<1> DEFINE w2 == RemoveAt(ws, k)
<1>0. Len(ws) \in Nat /\ DOMAIN ws = 1..Len(ws)
  BY LenProperties
<1>1. /\ w2 \in Seq(PendingWrites) /\ Len(w2) = Len(ws) - 1
      /\ \A j \in 1..(Len(ws) - 1) : w2[j] = IF j < k THEN ws[j] ELSE ws[j + 1]
  BY <1>0, RemoveAtFacts
<1> HIDE DEF w2
<1>2. DOMAIN w2 = 1..(Len(ws) - 1)
  BY <1>1, LenProperties
<1>3. ASSUME NEW j \in DOMAIN w2 PROVE \E i \in DOMAIN ws : i # k /\ w2[j] = ws[i]
  <2>1. j \in 1..(Len(ws) - 1) /\ j \in DOMAIN ws /\ j + 1 \in DOMAIN ws
    BY <1>0, <1>2
  <2>2. j < k => j # k /\ w2[j] = ws[j]
    BY <1>0, <1>1, <2>1
  <2>3. ~(j < k) => j + 1 # k /\ w2[j] = ws[j + 1]
    BY <1>0, <1>1, <2>1
  <2> QED
    BY <2>1, <2>2, <2>3
<1>4. OneEach(w2)
  <2> SUFFICES ASSUME NEW i \in 1..(Len(ws) - 1), NEW j \in 1..(Len(ws) - 1),
                      w2[i].socket = w2[j].socket
               PROVE  i = j
    BY <1>2 DEF OneEach
  <2>1. /\ i \in DOMAIN ws /\ j \in DOMAIN ws
        /\ i + 1 \in DOMAIN ws /\ j + 1 \in DOMAIN ws
    BY <1>0
  <2> QED
    BY <1>0, <1>1, <2>1, SMTT(30) DEF OneEach
<1>5. ASSUME NEW i \in DOMAIN ws, i # k PROVE \E j \in DOMAIN w2 : w2[j] = ws[i]
  <2>1. CASE i < k
    <3>1. i \in DOMAIN w2 /\ w2[i] = ws[i]
      BY <1>0, <1>1, <1>2, <2>1
    <3> QED
      BY <3>1
  <2>2. CASE i > k
    <3>1. i - 1 \in 1..(Len(ws) - 1) /\ ~(i - 1 < k) /\ (i - 1) + 1 = i
      BY <1>0, <2>2
    <3> QED
      BY <1>1, <1>2, <3>1
  <2> QED
    BY <1>0, <1>5, <2>1, <2>2
<1>6. SocketsOf(w2) = SocketsOf(ws) \ {ws[k].socket}
  <2>1. ASSUME NEW x \in SocketsOf(w2) PROVE x \in SocketsOf(ws) \ {ws[k].socket}
    BY <1>3 DEF SocketsOf, OneEach
  <2>2. ASSUME NEW x \in SocketsOf(ws) \ {ws[k].socket} PROVE x \in SocketsOf(w2)
    <3>1. PICK i \in DOMAIN ws : x = ws[i].socket
      BY DEF SocketsOf
    <3>2. PICK j \in DOMAIN w2 : w2[j] = ws[i]
      BY <1>5, <3>1
    <3> QED
      BY <3>1, <3>2 DEF SocketsOf
  <2> QED
    BY <2>1, <2>2
<1>7. AllUnfinished(ws) => AllUnfinished(w2)
  BY <1>3 DEF AllUnfinished
<1> QED
  BY <1>1, <1>3, <1>4, <1>6, <1>7 DEF w2

(* The last stored write, if any, is one of a socket.                      *)
LEMMA LastStored ==
    ASSUME writes \in Seq(PendingWrites)
    PROVE  (IF writes = <<>> THEN NULL ELSE Last(writes).socket) \in Stored \cup {NULL}
<1>1. CASE writes = <<>>
  BY <1>1
<1>2. CASE writes # <<>>
  <2>1. Len(writes) \in DOMAIN writes /\ Last(writes) = writes[Len(writes)]
    BY <1>2 DEF Last
  <2> QED
    BY <1>2, <2>1 DEF Stored, SocketsOf
<1> QED
  BY <1>1, <1>2

(* Whatever is taken out of a list, a list of sockets is left.             *)
LEMMA RemoveFirstType ==
    ASSUME NEW list \in Seq(Sockets), NEW e
    PROVE  RemoveFirst(list, e) \in Seq(Sockets)
<1> DEFINE I == {i \in 1..Len(list) : list[i] = e}
<1>1. RemoveFirst(list, e) = IF I # {} THEN RemoveAt(list, Min(I)) ELSE list
  <2>1. Len(list) \in Nat /\ (I # {} => Min(I) \in I)
    <3>1. Len(list) \in Nat /\ I \in SUBSET Nat
      BY LenProperties
    <3> HIDE DEF I
    <3> QED
      BY <3>1, MinOfNats
  <2>2. I # {} => Min(I) > 0
    BY <2>1
  <2>3. (\E i \in 1..Len(list) : list[i] = e) <=> I # {}
    OBVIOUS
  <2> QED
    BY <2>2, <2>3 DEF RemoveFirst, SelectInSeq
<1>2. I \in SUBSET Nat /\ \A i \in I : i \in 1..Len(list)
  BY LenProperties
<1> HIDE DEF I
<1>3. I # {} => Min(I) \in 1..Len(list)
  BY <1>2, MinOfNats
<1> QED
  BY <1>1, <1>3, RemoveAtFacts

-----------------------------------------------------------------------------
(* Every step keeps the types                                              *)

(* The elements of the lists have the types of sockets and writes.         *)
LEMMA TypeFacts ==
    ASSUME TypeOK
    PROVE  /\ write_pending \in Seq(Sockets) /\ writes \in Seq(PendingWrites)
           /\ Len(writes) \in Nat /\ Len(write_pending) \in Nat
           /\ DOMAIN writes = 1..Len(writes)
           /\ Listed \subseteq Sockets /\ Stored \subseteq Sockets
           /\ NULL \notin Sockets
           /\ \A s : Pending(s) <=> s \in Listed
           /\ \A s : nextElement(s) \in Sockets \cup {NULL}
<1>1. write_pending \in Seq(Sockets) /\ writes \in Seq(PendingWrites)
  BY DEF TypeOK
<1>2. /\ Len(writes) \in Nat /\ Len(write_pending) \in Nat
      /\ DOMAIN write_pending = 1..Len(write_pending) /\ DOMAIN writes = 1..Len(writes)
  BY <1>1, LenProperties
<1>3. Listed \subseteq Sockets
  BY <1>1, <1>2, ElementOfSeq DEF Listed, ToSet
<1>4. Stored \subseteq Sockets
  <2>1. \A i \in DOMAIN writes : writes[i] \in PendingWrites
    BY <1>1, <1>2, ElementOfSeq
  <2> QED
    BY <2>1 DEF Stored, SocketsOf, PendingWrites
<1>5. \A s : Pending(s) <=> s \in Listed
  BY DEF Pending, Listed, ToSet
<1>6. ASSUME NEW s PROVE nextElement(s) \in Sockets \cup {NULL}
  <2>1. CASE s \in Listed
    BY <1>1, <1>3, <2>1, NextElement
  <2>2. CASE s \notin Listed
    BY <1>5, <2>2 DEF nextElement
  <2> QED
    BY <2>1, <2>2
<1> QED
  BY <1>1, <1>2, <1>3, <1>4, <1>5, <1>6, NullAssumption

(* The same of a state that satisfies the whole invariant.                 *)
LEMMA StateFacts ==
    ASSUME WInv
    PROVE  /\ Len(writes) \in Nat /\ Len(write_pending) \in Nat
           /\ Listed \subseteq Sockets /\ Stored \subseteq Sockets
           /\ NULL \notin Sockets
           /\ \A s : Pending(s) <=> s \in Listed
BY TypeFacts DEF WInv, TypeInv

(* A write on a connection leaves the invariant's sequences of bytes.      *)
LEMMA WritevType ==
    ASSUME NEW s \in Sockets, NEW iov \in Seq(Seq(Byte)), NEW k \in Nat,
           k <= BufLen(iov), wire \in [Sockets -> Seq(Byte)], writable \subseteq Sockets,
           writev(s, iov, k)
    PROVE  wire' \in [Sockets -> Seq(Byte)] /\ writable' \subseteq Sockets
<1>1. FlattenSeq(iov) \in Seq(Byte) /\ Len(FlattenSeq(iov)) = BufLen(iov)
  BY FlattenType DEF BufLen
<1>2. \A i \in 1..k : FlattenSeq(iov)[i] \in Byte
  BY <1>1, ElementOfSeq
<1>3. SubSeq(FlattenSeq(iov), 1, k) \in Seq(Byte)
  BY <1>2, SubSeqProperties
<1>4. wire[s] \o SubSeq(FlattenSeq(iov), 1, k) \in Seq(Byte)
  BY <1>3, ConcatProperties
<1> QED
  BY <1>4 DEF writev

(* The records of the two threads.                                         *)
PutTypes == [pc : {"idle", "find", "found", "write", "buffer", "buffering",
                   "append", "appending", "load", "store"},
             socket : Sockets \cup {NULL}, iovecs : Seq(Seq(Byte)),
             at : Sockets \cup {NULL}, bytes : Nat, word : SUBSET Sockets]
ContTypes == [pc : {"idle", "select", "scan", "remove", "load", "store",
                    "unlink", "take", "restore", "advance"},
              cur : Sockets \cup {NULL}, saved : Sockets \cup {NULL},
              pwset : SUBSET Sockets, rc : {-1, 0, 1}, word : SUBSET Sockets]

LEMMA Records == TypeOK => put \in PutTypes /\ cont \in ContTypes
BY DEF TypeOK, PutTypes, ContTypes, Byte

(* A step that leaves the lists and the connections alone.                 *)
LEMMA RecordsType ==
    ASSUME TypeOK, put' \in PutTypes, cont' \in ContTypes,
           UNCHANGED <<write_pending, writes, writable, broken, wire, accepted>>,
           current' \in Sockets \cup {NULL}, pending_wset' \subseteq Sockets,
           torn' \in BOOLEAN
    PROVE  TypeOK'
BY DEF TypeOK, PutTypes, ContTypes, Byte

(* putdatas looks the socket up ...                                        *)
LEMMA PutCheckType ==
    ASSUME TypeInv, NEW s \in Sockets, NEW p \in Packets, PutCheck(s, p)
    PROVE  TypeInv'
<1>1. TypeOK /\ put \in PutTypes /\ cont \in ContTypes
  BY Records DEF TypeInv
<1>2. Iovecs(p) \in Seq(Seq(Byte)) /\ firstOf(write_pending) \in Sockets \cup {NULL}
  BY <1>1, IovecsType, PassedFirst, TypeFacts
<1>3. \/ put' = put
      \/ put' = [put EXCEPT !.pc = "find", !.socket = s, !.iovecs = Iovecs(p),
                            !.at = firstOf(write_pending)]
  BY DEF PutCheck
<1>4. put' \in PutTypes
  BY <1>1, <1>2, <1>3 DEF PutTypes
<1>5. /\ UNCHANGED <<write_pending, current, writes, pending_wset, cont, writable,
                     broken, wire, accepted>>
      /\ torn' \in BOOLEAN
  BY DEF PutCheck
<1>6. TypeOK'
  <2>1. current' \in Sockets \cup {NULL} /\ pending_wset' \subseteq Sockets
    BY <1>1, <1>5 DEF TypeOK
  <2> QED
    BY <1>1, <1>4, <1>5, <2>1, RecordsType
<1>7. WorkInv'
  <2>1. Stored' = Stored
    BY <1>5 DEF Stored
  <2>2. CASE put' = put
    BY <1>5, <2>1, <2>2 DEF TypeInv, WorkInv
  <2>3. CASE put' = [put EXCEPT !.pc = "find", !.socket = s, !.iovecs = Iovecs(p),
                                !.at = firstOf(write_pending)]
    <3>1. put'.pc = "find" /\ put'.socket = s /\ put'.iovecs = Iovecs(p)
      BY <1>1, <2>3 DEF PutTypes
    <3> QED
      BY <1>5, <2>1, <3>1 DEF TypeInv, WorkInv
  <2> QED
    BY <1>3, <2>2, <2>3
<1> QED
  BY <1>6, <1>7 DEF TypeInv

(* ... and goes on with it, or gives up.                                   *)
LEMMA PutStepType ==
    ASSUME TypeInv,
           PutWalk \/ PutFound \/ PutBuffer \/ PutAppend \/ PutLoad \/ PutStore
    PROVE  TypeInv'
<1>1. TypeOK /\ put \in PutTypes /\ cont \in ContTypes
  BY Records DEF TypeInv
<1>2. /\ UNCHANGED <<write_pending, writes, cont, writable, broken, wire, accepted, torn>>
      /\ put.pc # "idle"
  BY DEF PutWalk, PutFound, PutBuffer, PutAppend, PutLoad, PutStore
<1>3. IdlePut \in PutTypes
  BY DEF IdlePut, PutTypes
<1>4. put' \in PutTypes
  <2>1. CASE PutWalk
    BY <1>1, <2>1, TypeFacts DEF PutWalk, PutTypes
  <2>2. CASE PutFound \/ PutStore
    BY <1>3, <2>2 DEF PutFound, PutStore
  <2>3. CASE PutBuffer
    <3>1. (IF writes = <<>> THEN NULL ELSE Last(writes).socket) \in Sockets \cup {NULL}
      BY <1>1, LastStored, TypeFacts
    <3> QED
      BY <1>1, <2>3, <3>1 DEF PutBuffer, PutTypes
  <2>4. CASE PutAppend
    <3>1. lastOf(write_pending) \in Sockets \cup {NULL}
      BY <1>1, LastListed, TypeFacts
    <3> QED
      BY <1>1, <2>4, <3>1 DEF PutAppend, PutTypes
  <2>5. CASE PutLoad
    <3>1. bitsOf(pending_wset, put.socket) \subseteq Sockets
      BY <1>1 DEF TypeOK, bitsOf
    <3> QED
      BY <1>1, <2>5, <3>1 DEF PutLoad, PutTypes
  <2> QED
    BY <2>1, <2>2, <2>3, <2>4, <2>5
<1>5. current' \in Sockets \cup {NULL} /\ pending_wset' \subseteq Sockets
  <2>1. CASE PutFound
    BY <1>1, <2>1 DEF PutFound, TypeOK
  <2>2. CASE PutStore
    <3>1. put.socket \in Sockets /\ put.word \subseteq Sockets
      BY <1>1, <1>2 DEF TypeInv, WorkInv, PutTypes
    <3> QED
      BY <1>1, <2>2, <3>1 DEF PutStore, TypeOK, storeWord
  <2>3. CASE PutWalk \/ PutBuffer \/ PutAppend \/ PutLoad
    BY <1>1, <2>3 DEF PutWalk, PutBuffer, PutAppend, PutLoad, TypeOK
  <2> QED
    BY <2>1, <2>2, <2>3
<1>6. torn' \in BOOLEAN
  BY <1>1, <1>2 DEF TypeOK
<1>7. TypeOK'
  BY <1>1, <1>2, <1>4, <1>5, <1>6, RecordsType
<1>8. \/ put' = IdlePut
      \/ put'.pc # "idle" /\ put'.socket = put.socket /\ put'.iovecs = put.iovecs
  <2>1. CASE PutFound \/ PutStore
    BY <2>1 DEF PutFound, PutStore
  <2>2. CASE PutWalk \/ PutBuffer \/ PutAppend \/ PutLoad
    BY <1>1, <2>2 DEF PutWalk, PutBuffer, PutAppend, PutLoad, PutTypes
  <2> QED
    BY <2>1, <2>2
<1>9. Stored' = Stored
  BY <1>2 DEF Stored
<1>10. WorkInv'
  BY <1>2, <1>8, <1>9 DEF TypeInv, WorkInv, IdlePut
<1> QED
  BY <1>7, <1>10 DEF TypeInv

(* putdatas writes.                                                        *)
LEMMA PutWriteType ==
    ASSUME TypeInv, PutWrite
    PROVE  TypeInv'
<1> DEFINE s == put.socket
           total == BufLen(put.iovecs)
<1>0. TypeOK /\ put \in PutTypes /\ cont \in ContTypes
  BY Records DEF TypeInv
<1>1. PICK p \in Packets : put.iovecs = Iovecs(p)
  BY DEF TypeInv, WorkInv, PutWrite
<1>2. /\ s \in Sockets /\ total \in Nat /\ packetOf(put.iovecs) = p
      /\ put.iovecs \in Seq(Seq(Byte))
  BY <1>1, PacketOfIovecs, IovecsType DEF TypeInv, WorkInv, PutWrite
<1>3. PICK k \in writevResults(s, total) :
        \/ /\ k = -1
           /\ put' = IdlePut
           /\ UNCHANGED <<wire, writable, accepted>>
        \/ /\ k >= 0
           /\ writev(s, put.iovecs, k)
           /\ accepted' = [accepted EXCEPT ![s] = Append(@, packetOf(put.iovecs))]
           /\ put' = IF k = total THEN IdlePut
                     ELSE [put EXCEPT !.pc = "buffer", !.bytes = k]
  BY DEF PutWrite
<1>4. k >= 0 => k \in Nat /\ k <= total
  BY <1>2, <1>3 DEF writevResults
<1>5. UNCHANGED <<write_pending, current, writes, pending_wset, cont, broken, torn>>
  BY DEF PutWrite
<1>6. /\ wire \in [Sockets -> Seq(Byte)] /\ accepted \in [Sockets -> Seq(Packets)]
      /\ writable \subseteq Sockets
  BY <1>0 DEF TypeOK, Byte
<1>7. \/ put' = IdlePut
      \/ k >= 0 /\ put' = [put EXCEPT !.pc = "buffer", !.bytes = k]
  BY <1>3
<1>8. wire' \in [Sockets -> Seq(Byte)] /\ writable' \subseteq Sockets
  BY <1>2, <1>3, <1>4, <1>6, WritevType
<1>9. accepted' \in [Sockets -> Seq(Packets)]
  <2>1. Append(accepted[s], p) \in Seq(Packets)
    BY <1>2, <1>6, AppendProperties
  <2> QED
    BY <1>2, <1>3, <1>6, <2>1
<1>10. TypeOK'
  <2>1. put' \in PutTypes
    <3>1. CASE put' = IdlePut
      BY <3>1 DEF IdlePut, PutTypes
    <3>2. CASE k >= 0 /\ put' = [put EXCEPT !.pc = "buffer", !.bytes = k]
      BY <1>0, <1>4, <3>2 DEF PutTypes
    <3> QED
      BY <1>7, <3>1, <3>2
  <2> QED
    BY <1>0, <1>5, <1>8, <1>9, <2>1 DEF TypeOK, PutTypes, Byte
<1>11. Stored' = Stored
  BY <1>5 DEF Stored
<1>12. WorkInv'
  <2>1. CASE put' = IdlePut
    BY <1>5, <1>11, <2>1 DEF TypeInv, WorkInv, IdlePut
  <2>2. CASE k >= 0 /\ put' = [put EXCEPT !.pc = "buffer", !.bytes = k]
    <3>1. put'.pc = "buffer" /\ put'.socket = s /\ put'.iovecs = put.iovecs
      BY <1>0, <2>2 DEF PutTypes
    <3> QED
      BY <1>1, <1>2, <1>5, <1>11, <3>1 DEF TypeInv, WorkInv
  <2> QED
    BY <1>7, <2>1, <2>2
<1> QED
  BY <1>10, <1>12 DEF TypeInv

(* What is left is stored, and the socket listed.                          *)
LEMMA PutLinkType ==
    ASSUME TypeInv, PutBuffered \/ PutAppended
    PROVE  TypeInv'
<1> DEFINE pw == [socket |-> put.socket, iovecs |-> put.iovecs,
                  total |-> BufLen(put.iovecs), bytes |-> put.bytes]
<1>1. TypeOK /\ put \in PutTypes /\ cont \in ContTypes /\ put.pc # "idle"
  BY Records DEF TypeInv, PutBuffered, PutAppended
<1>2. PICK p \in Packets : put.iovecs = Iovecs(p)
  BY <1>1 DEF TypeInv, WorkInv
<1>3. BufLen(put.iovecs) \in Nat /\ put.socket \in Sockets
  BY <1>1, <1>2, PacketOfIovecs DEF TypeInv, WorkInv
<1>4. pw \in PendingWrites
  BY <1>1, <1>3 DEF PendingWrites, PutTypes, Byte
<1>5. /\ writes \in Seq(PendingWrites) /\ write_pending \in Seq(Sockets)
      /\ UNCHANGED <<current, pending_wset, cont, writable, broken, wire, accepted, torn>>
  BY <1>1 DEF TypeOK, PutBuffered, PutAppended
<1>6. writes' = writes \/ writes' = Append(writes, pw)
  BY DEF PutBuffered, PutAppended
<1> HIDE DEF pw
<1>7. writes' \in Seq(PendingWrites) /\ Stored \subseteq Stored'
  <2>1. CASE writes' = writes
    BY <1>5, <2>1 DEF Stored
  <2>2. CASE writes' = Append(writes, pw)
    BY <1>4, <1>5, <2>2, WritesAppend DEF Stored
  <2> QED
    BY <1>6, <2>1, <2>2
<1>8. write_pending' \in Seq(Sockets)
  <2>1. write_pending' = write_pending \/ write_pending' = Append(write_pending, put.socket)
    BY DEF PutBuffered, PutAppended
  <2> QED
    BY <1>3, <1>5, <2>1, AppendProperties
<1>9. /\ put' \in PutTypes /\ put'.pc # "idle" /\ put'.socket = put.socket
      /\ put'.iovecs = put.iovecs
  BY <1>1 DEF PutBuffered, PutAppended, PutTypes
<1>10. TypeOK'
  BY <1>1, <1>5, <1>7, <1>8, <1>9 DEF TypeOK, PutTypes, Byte
<1>11. WorkInv'
  BY <1>2, <1>3, <1>5, <1>7, <1>9 DEF TypeInv, WorkInv
<1> QED
  BY <1>10, <1>11 DEF TypeInv

(* The steps of the run thread that write nothing.                         *)
LEMMA ContStepType ==
    ASSUME TypeInv,
           \/ Select \/ SelectReturns \/ ScanNext \/ ClearLoad \/ ClearStore
           \/ UnlinkFind \/ UnlinkRestore \/ Advance \/ ScanDone
    PROVE  TypeInv'
<1>1. TypeOK /\ put \in PutTypes /\ cont \in ContTypes
  BY Records DEF TypeInv
<1>2. UNCHANGED <<write_pending, writes, put, writable, broken, wire, accepted, torn>>
  BY DEF Select, SelectReturns, ScanNext, ClearLoad, ClearStore, UnlinkFind,
         UnlinkRestore, Advance, ScanDone
<1>3. /\ current \in Sockets \cup {NULL} /\ pending_wset \subseteq Sockets
      /\ torn' \in BOOLEAN
  BY <1>1, <1>2 DEF TypeOK
<1>4. cont' \in ContTypes /\ cont'.pc # "remove"
  <2>1. CASE SelectReturns
    <3>1. firstOf(write_pending) \in Sockets \cup {NULL}
      BY <1>1, PassedFirst, TypeFacts
    <3>2. cont.pwset \cap (writable \cup broken) \subseteq Sockets
      BY <1>1 DEF ContTypes
    <3> QED
      BY <1>1, <2>1, <3>1, <3>2 DEF SelectReturns, ContTypes
  <2>2. CASE ScanNext
    BY <1>1, <2>2, TypeFacts DEF ScanNext, ContTypes
  <2>3. CASE ClearLoad
    <3>1. bitsOf(pending_wset, cont.cur) \subseteq Sockets
      BY <1>3 DEF bitsOf
    <3> QED
      BY <1>1, <2>3, <3>1 DEF ClearLoad, ContTypes
  <2>4. CASE ScanDone
    BY <2>4 DEF ScanDone, IdleCont, ContTypes
  <2>5. CASE Select \/ ClearStore \/ UnlinkFind \/ UnlinkRestore \/ Advance
    BY <1>1, <1>3, <2>5 DEF Select, ClearStore, UnlinkFind, UnlinkRestore, Advance,
                            ContTypes
  <2> QED
    BY <2>1, <2>2, <2>3, <2>4, <2>5
<1>5. current' \in Sockets \cup {NULL}
  <2>1. \A s : Pending(s) => s \in Sockets
    BY <1>1, TypeFacts
  <2>2. CASE UnlinkFind \/ ScanDone
    BY <1>3, <2>1, <2>2 DEF UnlinkFind, ScanDone, findCursor
  <2>3. CASE UnlinkRestore
    BY <1>1, <2>3 DEF UnlinkRestore, ContTypes
  <2>4. CASE \/ Select \/ SelectReturns \/ ScanNext \/ ClearLoad \/ ClearStore \/ Advance
    BY <1>3, <2>4 DEF Select, SelectReturns, ScanNext, ClearLoad, ClearStore, Advance
  <2> QED
    BY <2>2, <2>3, <2>4
<1>6. pending_wset' \subseteq Sockets
  <2>1. CASE ClearStore
    BY <1>1, <1>3, <2>1 DEF ClearStore, storeWord, ContTypes
  <2>2. CASE ~ClearStore
    BY <1>3, <2>2 DEF Select, SelectReturns, ScanNext, ClearLoad, UnlinkFind,
                      UnlinkRestore, Advance, ScanDone
  <2> QED
    BY <2>1, <2>2
<1>7. TypeOK'
  <2>1. put' \in PutTypes
    BY <1>1, <1>2
  <2> QED
    BY <1>1, <1>2, <1>3, <1>4, <1>5, <1>6, <2>1, RecordsType
<1>8. WorkInv'
  BY <1>2, <1>4 DEF TypeInv, WorkInv
<1> QED
  BY <1>7, <1>8 DEF TypeInv

(* What continueWrite finds for the socket it is at.                       *)
LEMMA ContinueTypes ==
    ASSUME TypeInv, ContinueWrite
    PROVE  LET s == cont.cur
               i == writeOf(s)
               iov == remaining(writes[i])
           IN  /\ s \in Sockets
               /\ i \in DOMAIN writes /\ writes[i].socket = s
               /\ writes[i] \in PendingWrites
               /\ iov \in Seq(Seq(Byte)) /\ BufLen(iov) \in Nat
<1> DEFINE s == cont.cur
           i == writeOf(s)
<1>1. TypeOK /\ cont \in ContTypes
  BY Records DEF TypeInv
<1>2. s \in Sockets /\ i # 0
  BY <1>1 DEF ContinueWrite, ContTypes
<1>3. writes \in Seq(PendingWrites) /\ DOMAIN writes = 1..Len(writes)
  BY <1>1, TypeFacts
<1>4. i \in DOMAIN writes /\ writes[i].socket = s
  <2>1. s \in Stored
    BY <1>2, <1>3, WriteOf DEF writeOf, Stored
  <2> QED
    BY <1>3, <2>1, WriteOfStored
<1> HIDE DEF i
<1>5. writes[i] \in PendingWrites
  BY <1>3, <1>4, ElementOfSeq
<1>6. remaining(writes[i]) \in Seq(Seq(Byte))
  BY <1>5, RemainingFlat
<1>7. BufLen(remaining(writes[i])) \in Nat
  BY <1>6, FlattenType, LenProperties DEF BufLen
<1> QED
  BY <1>2, <1>4, <1>5, <1>6, <1>7 DEF i

LEMMA ContinueWriteType ==
    ASSUME TypeInv, ContinueWrite
    PROVE  TypeInv'
<1> DEFINE s == cont.cur
           i == writeOf(s)
           iov == remaining(writes[i])
           left == BufLen(iov)
<1>1. /\ s \in Sockets /\ i \in DOMAIN writes /\ writes[i].socket = s
      /\ writes[i] \in PendingWrites /\ iov \in Seq(Seq(Byte)) /\ left \in Nat
  BY ContinueTypes
<1>2. PICK k \in writevResults(s, left) :
        \/ /\ k = -1
           /\ cont' = [cont EXCEPT !.pc = "remove", !.rc = -1]
           /\ UNCHANGED <<writes, wire, writable>>
        \/ /\ k >= 0
           /\ writev(s, iov, k)
           /\ writes' = [writes EXCEPT ![i].bytes = @ + k]
           /\ cont' = IF writes[i].bytes + k = writes[i].total
                      THEN [cont EXCEPT !.pc = "remove", !.rc = 1]
                      ELSE [cont EXCEPT !.cur = nextElement(s)]
  BY DEF ContinueWrite
<1>3. UNCHANGED <<write_pending, current, pending_wset, put, broken, accepted, torn>>
  BY DEF ContinueWrite
<1>4. k >= 0 => k \in Nat /\ k <= left
  BY <1>1, <1>2 DEF writevResults
<1>5. /\ TypeOK /\ writes \in Seq(PendingWrites) /\ cont \in ContTypes /\ cont.pc = "scan"
      /\ wire \in [Sockets -> Seq(Byte)] /\ writable \subseteq Sockets
      /\ nextElement(s) \in Sockets \cup {NULL}
  BY Records, TypeFacts DEF TypeInv, TypeOK, Byte, ContinueWrite
<1> HIDE DEF i, iov, left
<1>6. writes' \in Seq(PendingWrites) /\ SocketsOf(writes') = SocketsOf(writes)
  <2>1. CASE k = -1
    BY <1>2, <1>5, <2>1
  <2>2. CASE k >= 0
    <3> DEFINE b == writes[i].bytes + k
    <3>1. b \in Nat
      BY <1>1, <1>4, <2>2 DEF PendingWrites
    <3>2. writes' = [writes EXCEPT ![i].bytes = b]
      BY <1>2, <2>2
    <3> HIDE DEF b
    <3>3. Continued(writes', writes, i, b)
      BY <3>2 DEF Continued
    <3> QED
      BY <1>1, <1>5, <3>1, <3>3, WritesUpdate
  <2> QED
    BY <1>2, <2>1, <2>2
<1>7. wire' \in [Sockets -> Seq(Byte)] /\ writable' \subseteq Sockets
  BY <1>1, <1>2, <1>4, <1>5, WritevType DEF left
<1>8. cont' \in ContTypes /\ (cont'.pc = "remove" => cont'.cur = s)
  BY <1>1, <1>2, <1>5 DEF ContTypes
<1>9. TypeOK'
  BY <1>3, <1>5, <1>6, <1>7, <1>8 DEF TypeOK, ContTypes, Byte
<1>10. s \in Stored'
  BY <1>1, <1>6 DEF Stored, SocketsOf
<1>11. WorkInv'
  BY <1>3, <1>8, <1>10 DEF TypeInv, WorkInv
<1> QED
  BY <1>9, <1>11 DEF TypeInv

(* A write and an element are taken out.                                   *)
LEMMA TakeType ==
    ASSUME TypeInv, RemoveWrite \/ UnlinkTake
    PROVE  TypeInv'
<1>1. TypeOK /\ put \in PutTypes /\ cont \in ContTypes
  BY Records DEF TypeInv
<1>2. /\ UNCHANGED <<current, pending_wset, put, writable, broken, wire, accepted>>
      /\ torn' \in BOOLEAN
  BY DEF RemoveWrite, UnlinkTake
<1>3. writes' \in Seq(PendingWrites)
  <2>1. CASE RemoveWrite
    <3>1. cont.cur \in Stored /\ writes \in Seq(PendingWrites)
      BY <1>1, <2>1 DEF RemoveWrite, TypeInv, WorkInv, TypeOK
    <3>2. writeOf(cont.cur) \in 1..Len(writes)
      BY <1>1, <3>1, WriteOfStored, TypeFacts
    <3> QED
      BY <2>1, <3>1, <3>2, RemoveAtFacts DEF RemoveWrite
  <2>2. CASE UnlinkTake
    BY <1>1, <2>2 DEF UnlinkTake, TypeOK
  <2> QED
    BY <2>1, <2>2
<1>4. write_pending' \in Seq(Sockets)
  <2>1. CASE RemoveWrite
    BY <1>1, <2>1 DEF RemoveWrite, TypeOK
  <2>2. CASE UnlinkTake
    BY <1>1, <2>2, RemoveFirstType DEF UnlinkTake, TypeOK
  <2> QED
    BY <2>1, <2>2
<1>5. cont' \in ContTypes /\ cont'.pc # "remove"
  <2>1. savedCursor(current) \in Sockets \cup {NULL}
    BY <1>1, TypeFacts DEF savedCursor, ContTypes
  <2> QED
    BY <1>1, <2>1 DEF RemoveWrite, UnlinkTake, ContTypes
<1>6. TypeOK'
  BY <1>1, <1>2, <1>3, <1>4, <1>5 DEF TypeOK, ContTypes
<1>7. WorkInv'
  BY <1>2, <1>5 DEF TypeInv, WorkInv
<1> QED
  BY <1>6, <1>7 DEF TypeInv

(* Every step keeps the types.                                             *)
LEMMA StepType == TypeInv /\ [Next]_vars => TypeInv'
<1> SUFFICES ASSUME TypeInv, [Next]_vars PROVE TypeInv'
  OBVIOUS
<1>1. CASE \E s \in Sockets, p \in Unused : PutCheck(s, p)
  BY <1>1, PutCheckType DEF Unused
<1>2. CASE putdatas
  BY <1>2, PutStepType, PutWriteType, PutLinkType DEF putdatas
<1>3. CASE continueWrites
  BY <1>3, ContStepType, ContinueWriteType, TakeType DEF continueWrites
<1>4. CASE \E s \in Sockets : Drain(s) \/ Break(s)
  <2>1. PICK s \in Sockets : Drain(s) \/ Break(s)
    BY <1>4
  <2>2. /\ UNCHANGED <<write_pending, current, writes, pending_wset, put, cont, wire,
                       accepted, torn>>
        /\ TypeOK
    BY <2>1 DEF Drain, Break, TypeInv
  <2>3. writable' \subseteq Sockets /\ broken' \subseteq Sockets
    BY <2>1, <2>2 DEF Drain, Break, TypeOK
  <2>4. TypeOK'
    <3>1. put' \in PutTypes /\ cont' \in ContTypes
      BY <2>2, Records
    <3> QED
      BY <2>2, <2>3, <3>1 DEF TypeOK, PutTypes, ContTypes, Byte
  <2>5. WorkInv'
    BY <2>2 DEF TypeInv, WorkInv, Stored
  <2> QED
    BY <2>4, <2>5 DEF TypeInv
<1>5. CASE UNCHANGED vars
  <2>1. UNCHANGED <<write_pending, current, writes, pending_wset, put, cont, writable,
                    broken, wire, accepted, torn>> /\ TypeOK
    BY <1>5 DEF vars, TypeInv
  <2>2. put' \in PutTypes /\ cont' \in ContTypes
    BY <2>1, Records
  <2>3. TypeOK'
    BY <2>1, <2>2, RecordsType DEF TypeOK
  <2>4. WorkInv'
    BY <2>1 DEF TypeInv, WorkInv, Stored
  <2> QED
    BY <2>3, <2>4 DEF TypeInv
<1> QED
  BY <1>1, <1>2, <1>3, <1>4, <1>5 DEF Next

LEMMA InitType == Init => TypeInv
<1> SUFFICES ASSUME Init PROVE TypeInv
  OBVIOUS
<1>1. TypeOK
  <2>1. put \in PutTypes
    BY DEF Init, IdlePut, PutTypes
  <2>2. cont \in ContTypes
    BY DEF Init, IdleCont, ContTypes
  <2>3. /\ wire \in [Sockets -> Seq(Packets \X Nat)]
        /\ accepted \in [Sockets -> Seq(Packets)]
        /\ write_pending \in Seq(Sockets) /\ writes \in Seq(PendingWrites)
    BY DEF Init
  <2>4. /\ current \in Sockets \cup {NULL} /\ pending_wset \subseteq Sockets
        /\ writable \subseteq Sockets /\ broken \subseteq Sockets /\ torn \in BOOLEAN
    BY DEF Init
  <2> QED
    BY <2>1, <2>2, <2>3, <2>4 DEF TypeOK, PutTypes, ContTypes, Byte
<1> QED
  BY <1>1 DEF Init, TypeInv, WorkInv, IdlePut, IdleCont

(* Nothing but values of the C structures' types is stored, also after     *)
(* list operations have harmed each other: the type invariant of the       *)
(* module.                                                                 *)
THEOREM SocketWriteTypes == Spec => []TypeOK
<1>1. TypeInv => TypeOK
  BY DEF TypeInv
<1> QED
  BY <1>1, InitType, StepType, PTL DEF Spec

-----------------------------------------------------------------------------
(* Every step preserves the invariant, until two list operations harm each *)
(* other                                                                   *)

(* The initial state.                                                      *)
LEMMA InitInv == Init => WInv
<1> SUFFICES ASSUME Init PROVE WInv
  OBVIOUS
<1>1. Stored = {} /\ Listed = {} /\ Len(writes) = 0 /\ Len(write_pending) = 0
  BY DEF Init, Stored, Listed, SocketsOf, ToSet
<1>2. PutInv /\ ContInv
  BY <1>1 DEF Init, PutInv, WalkInv, ContInv, Holding, Adding, Removing, IdlePut, IdleCont
<1>3. ListInv
  BY <1>1 DEF Init, ListInv, Removing, Adding, IdlePut, IdleCont, Distinct, OneEach, AllUnfinished
<1> QED
  BY <1>2, <1>3, InitType DEF WInv

(* What one thread knows stays true while the other leaves the lists alone. *)
LEMMA KeepPut ==
    ASSUME PutInv, UNCHANGED <<write_pending, writes, put>>
    PROVE  PutInv' /\ Stored' = Stored /\ Listed' = Listed /\ Adding' = Adding
BY DEF PutInv, WalkInv, Holding, Adding, Stored, Listed

LEMMA KeepCont ==
    ASSUME ContInv, UNCHANGED <<write_pending, writes, cont>>
    PROVE  ContInv' /\ Stored' = Stored /\ Listed' = Listed /\ Removing' = Removing
BY DEF ContInv, Removing, Stored, Listed

(* Socket_noPendingWrites begins its look-up ...                           *)
LEMMA PutCheckInv ==
    ASSUME WInv, NEW s \in Sockets, NEW p \in Packets, PutCheck(s, p), ~torn'
    PROVE  WInv'
<1>1. /\ UNCHANGED <<write_pending, writes, current, cont>>
      /\ TypeInv' /\ put.pc = "idle" /\ put \in PutTypes
  BY PutCheckType, Records DEF PutCheck, WInv, TypeInv
<1>2. \/ put' = put
      \/ put'.pc = "find" /\ put'.socket = s /\ put'.at = firstOf(write_pending)
  BY <1>1 DEF PutCheck, PutTypes
<1>3. PutInv'
  <2>1. CASE put' = put
    BY <1>1, <2>1, KeepPut DEF WInv
  <2>2. CASE put'.pc = "find" /\ put'.socket = s /\ put'.at = firstOf(write_pending)
    <3>1. \/ put'.at = NULL /\ s \notin Listed
          \/ put'.at # NULL /\ Passed(write_pending, put'.at, s)
      BY <2>2, PassedFirst DEF WInv, TypeInv, TypeOK
    <3>2. WalkInv'
      BY <1>1, <2>2, <3>1 DEF WalkInv, Listed
    <3> QED
      BY <2>2, <3>2 DEF PutInv, Holding, Adding
  <2> QED
    BY <1>2, <2>1, <2>2
<1>4. ContInv' /\ Stored' = Stored /\ Listed' = Listed /\ Removing' = Removing
  BY <1>1, KeepCont DEF WInv
<1>5. Adding = FALSE /\ Adding' = FALSE
  BY <1>1, <1>2 DEF Adding
<1>6. ListInv'
  BY <1>1, <1>4, <1>5 DEF WInv, ListInv
<1> QED
  BY <1>1, <1>3, <1>4, <1>6 DEF WInv

(* ... goes from element to element ...                                    *)
LEMMA PutWalkInv ==
    ASSUME WInv, PutWalk
    PROVE  WInv'
<1>1. /\ UNCHANGED <<write_pending, writes, current, cont>>
      /\ TypeInv' /\ put.pc = "find" /\ put \in PutTypes
  BY PutStepType, Records DEF PutWalk, WInv, TypeInv
<1>2. /\ write_pending \in Seq(Sockets) /\ Distinct(write_pending)
      /\ put.socket \in Sockets /\ NULL \notin Sockets
      /\ \/ put.at = NULL /\ put.socket \notin Listed
         \/ put.at # NULL /\ Passed(write_pending, put.at, put.socket)
  BY <1>1, StateFacts DEF WInv, TypeInv, TypeOK, WorkInv, PutInv, WalkInv, ListInv
<1>3. put.at # NULL => put.at \in Listed
  BY <1>2 DEF Passed, Listed, ToSet
<1>4. ContInv' /\ Stored' = Stored /\ Listed' = Listed /\ Removing' = Removing
  BY <1>1, KeepCont DEF WInv
<1>5. put'.socket = put.socket /\ put'.pc \in {"write", "found", "find"}
  BY <1>1 DEF PutWalk, PutTypes
<1>6. PutInv'
  <2>1. CASE put'.pc = "write"
    <3>1. put.at = NULL
      BY <1>1, <2>1 DEF PutWalk, PutTypes
    <3>2. put.socket \notin Listed /\ put.socket \notin Stored
      BY <1>1, <1>2, <3>1 DEF WInv, ListInv, Adding
    <3> QED
      BY <1>4, <1>5, <2>1, <3>2 DEF PutInv, WalkInv, Holding, Adding
  <2>2. CASE put'.pc = "found"
    <3>1. put'.at \in Listed /\ put'.at # NULL
      BY <1>1, <1>2, <1>3, <2>2 DEF PutWalk, PutTypes
    <3> QED
      BY <1>4, <2>2, <3>1 DEF PutInv, WalkInv, Holding, Adding
  <2>3. CASE put'.pc = "find"
    <3>1. put.at # NULL /\ put.at # put.socket /\ put'.at = nextElement(put.at)
      BY <1>1, <2>3 DEF PutWalk, PutTypes
    <3>2. \/ put'.at = NULL /\ put.socket \notin Listed
          \/ put'.at # NULL /\ Passed(write_pending, put'.at, put.socket)
      BY <1>2, <3>1, PassedNext
    <3>3. WalkInv'
      BY <1>1, <1>4, <1>5, <3>2 DEF WalkInv
    <3> QED
      BY <2>3, <3>3 DEF PutInv, Holding, Adding
  <2> QED
    BY <1>5, <2>1, <2>2, <2>3
<1>7. Adding = FALSE /\ Adding' = FALSE
  BY <1>1, <1>5 DEF Adding
<1>8. ListInv'
  BY <1>1, <1>4, <1>7 DEF WInv, ListInv
<1> QED
  BY <1>1, <1>4, <1>6, <1>8 DEF WInv

(* ... and, having found the socket, moves the cursor.                     *)
LEMMA PutFoundInv ==
    ASSUME WInv, PutFound
    PROVE  WInv'
<1>1. /\ UNCHANGED <<write_pending, writes, cont>> /\ current' = put.at
      /\ TypeInv' /\ put.pc = "found" /\ put' = IdlePut
  BY PutStepType DEF PutFound, WInv
<1>2. put.at \in Listed
  BY <1>1 DEF WInv, PutInv
<1>3. ContInv' /\ Stored' = Stored /\ Listed' = Listed /\ Removing' = Removing
  BY <1>1, KeepCont DEF WInv
<1>4. PutInv'
  BY <1>1 DEF PutInv, WalkInv, Holding, Adding, IdlePut
<1>5. Adding = FALSE /\ Adding' = FALSE
  BY <1>1 DEF Adding, IdlePut
<1>6. ListInv'
  BY <1>1, <1>2, <1>3, <1>5 DEF WInv, ListInv
<1> QED
  BY <1>1, <1>3, <1>4, <1>6 DEF WInv

(* putdatas writes.                                                        *)
LEMMA PutWriteInv ==
    ASSUME WInv, PutWrite
    PROVE  WInv'
<1> DEFINE total == BufLen(put.iovecs)
<1>1. /\ UNCHANGED <<write_pending, writes, current, cont>>
      /\ TypeInv' /\ put.pc = "write" /\ put \in PutTypes
  BY PutWriteType, Records DEF PutWrite, WInv, TypeInv
<1>2. PICK p \in Packets : put.iovecs = Iovecs(p)
  BY <1>1 DEF WInv, TypeInv, WorkInv
<1>3. total \in Nat
  BY <1>2, PacketOfIovecs
<1>4. \/ put' = IdlePut
      \/ \E k \in writevResults(put.socket, total) :
            k >= 0 /\ put' = [put EXCEPT !.pc = "buffer", !.bytes = k]
  BY DEF PutWrite
<1>5. ContInv' /\ Stored' = Stored /\ Listed' = Listed /\ Removing' = Removing
  BY <1>1, KeepCont DEF WInv
<1>6. PutInv' /\ Adding' = FALSE
  <2>1. CASE put' = IdlePut
    BY <2>1 DEF PutInv, WalkInv, Holding, Adding, IdlePut
  <2>2. CASE \E k \in writevResults(put.socket, total) :
                k >= 0 /\ put' = [put EXCEPT !.pc = "buffer", !.bytes = k]
    <3>1. PICK k \in writevResults(put.socket, total) :
            k >= 0 /\ put' = [put EXCEPT !.pc = "buffer", !.bytes = k]
      BY <2>2
    <3>2. k <= total
      BY <1>3, <3>1 DEF writevResults
    <3>3. /\ put'.pc = "buffer" /\ put'.socket = put.socket /\ put'.iovecs = put.iovecs
          /\ put'.bytes = k
      BY <1>1, <3>1 DEF PutTypes
    <3>4. put.socket \notin Stored \cup Listed
      BY <1>1 DEF WInv, PutInv
    <3> QED
      BY <1>5, <3>2, <3>3, <3>4 DEF PutInv, WalkInv, Holding, Adding
  <2> QED
    BY <1>4, <2>1, <2>2
<1>7. ListInv'
  BY <1>1, <1>5, <1>6 DEF WInv, ListInv, Adding
<1> QED
  BY <1>1, <1>5, <1>6, <1>7 DEF WInv

(* The steps of putdatas that only look at the lists, or set the bit.      *)
LEMMA PutLookInv ==
    ASSUME WInv, PutBuffer \/ PutAppend \/ PutLoad \/ PutStore
    PROVE  WInv'
<1>1. /\ UNCHANGED <<write_pending, writes, current, cont>>
      /\ TypeInv' /\ TypeOK /\ put \in PutTypes
  BY PutStepType, Records DEF PutBuffer, PutAppend, PutLoad, PutStore, WInv, TypeInv
<1>2. ContInv' /\ Stored' = Stored /\ Listed' = Listed /\ Removing' = Removing
  BY <1>1, KeepCont DEF WInv
<1>3. PutInv' /\ Adding' = Adding /\ (Adding => put'.socket = put.socket)
  <2>1. CASE PutBuffer
    <3>1. /\ put.pc = "buffer" /\ put'.pc = "buffering" /\ put'.socket = put.socket
          /\ put'.iovecs = put.iovecs /\ put'.bytes = put.bytes
          /\ put'.at \in Stored \cup {NULL}
      BY <1>1, <2>1, LastStored DEF PutBuffer, PutTypes, TypeOK
    <3> QED
      BY <1>2, <3>1 DEF WInv, PutInv, WalkInv, Holding, Adding
  <2>2. CASE PutAppend
    <3>1. /\ put.pc = "append" /\ put'.pc = "appending" /\ put'.socket = put.socket
          /\ put'.iovecs = put.iovecs /\ put'.bytes = put.bytes
          /\ put'.at = lastOf(write_pending)
      BY <1>1, <2>2 DEF PutAppend, PutTypes
    <3>2. lastOf(write_pending) \in Listed \cup {NULL}
      BY <1>1, LastListed DEF TypeOK
    <3> QED
      BY <1>2, <3>1, <3>2 DEF WInv, PutInv, WalkInv, Holding, Adding
  <2>3. CASE PutLoad \/ PutStore
    <3>1. put.pc \in {"load", "store"} /\ put'.pc \in {"store", "idle"}
      <4>1. CASE PutLoad
        BY <1>1, <4>1 DEF PutLoad, PutTypes
      <4>2. CASE PutStore
        BY <4>2 DEF PutStore, IdlePut
      <4> QED
        BY <2>3, <4>1, <4>2
    <3> QED
      BY <3>1 DEF PutInv, WalkInv, Holding, Adding
  <2> QED
    BY <2>1, <2>2, <2>3
<1>4. ListInv'
  BY <1>1, <1>2, <1>3 DEF WInv, ListInv
<1> QED
  BY <1>1, <1>2, <1>3, <1>4 DEF WInv

(* SocketBuffer_pendingWrite stores what is left, behind a write that is   *)
(* still stored.                                                           *)
LEMMA BufferedFacts ==
    ASSUME WInv, PutBuffered
    PROVE  LET pw == [socket |-> put.socket, iovecs |-> put.iovecs,
                      total |-> BufLen(put.iovecs), bytes |-> put.bytes]
           IN  /\ pw \in PendingWrites /\ Unfinished(pw)
               /\ writes' = Append(writes, pw)
<1> DEFINE pw == [socket |-> put.socket, iovecs |-> put.iovecs,
                  total |-> BufLen(put.iovecs), bytes |-> put.bytes]
<1>1. put \in PutTypes /\ put.pc = "buffering" /\ writes \in Seq(PendingWrites)
  BY Records DEF PutBuffered, WInv, TypeInv, TypeOK
<1>2. PICK p \in Packets : put.iovecs = Iovecs(p)
  BY <1>1 DEF WInv, TypeInv, WorkInv
<1>3. pw \in PendingWrites
  BY <1>1, <1>2, PacketOfIovecs DEF PendingWrites, WInv, TypeInv, WorkInv, PutTypes, Byte
<1>4. Unfinished(pw)
  BY <1>1, <1>2 DEF Unfinished, WInv, PutInv, Holding
<1>5. put.at # NULL => writeOf(put.at) # 0
  <2>1. put.at # NULL => writeOf(put.at) \in DOMAIN writes
    BY <1>1, WriteOfStored DEF WInv, PutInv
  <2>2. DOMAIN writes = 1..Len(writes)
    BY <1>1, LenProperties
  <2> QED
    BY <2>1, <2>2
<1>6. writes' = Append(writes, pw)
  BY <1>5 DEF PutBuffered
<1> QED
  BY <1>3, <1>4, <1>6

LEMMA PutBufferedInv ==
    ASSUME WInv, PutBuffered
    PROVE  WInv'
<1> DEFINE pw == [socket |-> put.socket, iovecs |-> put.iovecs,
                  total |-> BufLen(put.iovecs), bytes |-> put.bytes]
<1>1. /\ UNCHANGED <<write_pending, current, cont>>
      /\ TypeInv' /\ put \in PutTypes /\ put.pc = "buffering"
  BY PutLinkType, Records DEF PutBuffered, WInv, TypeInv
<1>2. /\ pw \in PendingWrites /\ pw.socket = put.socket /\ Unfinished(pw)
      /\ writes' = Append(writes, pw)
  BY BufferedFacts
<1>3. /\ writes \in Seq(PendingWrites) /\ OneEach(writes) /\ AllUnfinished(writes)
      /\ put.socket \notin Stored /\ put.socket \notin Listed
  BY <1>1 DEF WInv, TypeInv, TypeOK, ListInv, PutInv, Holding
<1> HIDE DEF pw
<1>4. /\ Len(writes') = Len(writes) + 1
      /\ Stored' = Stored \cup {put.socket} /\ OneEach(writes') /\ AllUnfinished(writes')
  BY <1>2, <1>3, WritesAppend DEF Stored
<1>5. UNCHANGED <<Listed, Removing>>
  BY <1>1 DEF Listed, Removing
<1>6. /\ put'.pc = "append" /\ put'.socket = put.socket /\ put'.iovecs = put.iovecs
      /\ put'.bytes = put.bytes
  BY <1>1 DEF PutBuffered, PutTypes
<1>7. PutInv'
  <2>1. put.bytes <= BufLen(put.iovecs)
    BY <1>1 DEF WInv, PutInv, Holding
  <2> QED
    BY <1>3, <1>4, <1>5, <1>6, <2>1 DEF PutInv, WalkInv, Holding, Adding
<1>8. ContInv'
  BY <1>1, <1>3, <1>4, <1>5 DEF WInv, ContInv
<1>9. Adding = FALSE /\ Adding' = TRUE
  BY <1>1, <1>6 DEF Adding
<1>10. ListInv'
  BY <1>1, <1>4, <1>5, <1>6, <1>9, StateFacts DEF WInv, ListInv
<1> QED
  BY <1>1, <1>7, <1>8, <1>10 DEF WInv

(* putdatas lists the socket.                                              *)
LEMMA PutAppendedInv ==
    ASSUME WInv, PutAppended
    PROVE  WInv'
<1>1. /\ UNCHANGED <<writes, current, cont>>
      /\ TypeInv' /\ TypeOK /\ put \in PutTypes /\ put.pc = "appending"
  BY PutLinkType, Records DEF PutAppended, WInv, TypeInv
<1>2. /\ put.socket \in Sockets /\ put.socket \in Stored /\ put.socket \notin Listed
      /\ write_pending \in Seq(Sockets) /\ Distinct(write_pending)
      /\ put.at \in Listed \cup {NULL}
  BY <1>1 DEF WInv, TypeInv, WorkInv, PutInv, Adding, TypeOK, ListInv
<1>3. write_pending' = Append(write_pending, put.socket)
  BY <1>2, StateFacts DEF PutAppended
<1>4. /\ Len(write_pending') = Len(write_pending) + 1
      /\ Listed' = Listed \cup {put.socket} /\ Distinct(write_pending')
  BY <1>2, <1>3, ListAppend DEF Listed
<1>5. UNCHANGED <<Stored, Removing>>
  BY <1>1 DEF Stored, Removing
<1>6. put'.pc = "load"
  BY <1>1 DEF PutAppended, PutTypes
<1>7. PutInv'
  BY <1>6 DEF PutInv, WalkInv, Holding, Adding
<1>8. ContInv'
  BY <1>1, <1>4, <1>5 DEF WInv, ContInv
<1>9. Adding = TRUE /\ Adding' = FALSE
  BY <1>1, <1>6 DEF Adding
<1>10. ListInv'
  BY <1>1, <1>2, <1>4, <1>5, <1>9, StateFacts DEF WInv, ListInv
<1> QED
  BY <1>1, <1>7, <1>8, <1>10 DEF WInv

(* The steps of the run thread that leave the lists alone.                 *)
LEMMA ContStepInv ==
    ASSUME WInv,
           \/ Select \/ SelectReturns \/ ScanNext \/ ClearLoad \/ ClearStore
           \/ UnlinkFind \/ UnlinkRestore \/ Advance \/ ScanDone
    PROVE  WInv'
<1>1. UNCHANGED <<write_pending, writes, put>>
  BY DEF Select, SelectReturns, ScanNext, ClearLoad, ClearStore, UnlinkFind,
         UnlinkRestore, Advance, ScanDone
<1>2. /\ TypeInv' /\ write_pending \in Seq(Sockets) /\ cont \in ContTypes
      /\ \A s : Pending(s) <=> s \in Listed
  BY ContStepType, Records, StateFacts DEF WInv, TypeInv, TypeOK
<1>3. PutInv' /\ Stored' = Stored /\ Listed' = Listed /\ Adding' = Adding
  BY <1>1, KeepPut DEF WInv
<1>4. CASE SelectReturns \/ ScanNext \/ Advance \/ ScanDone
  <2>1. cont'.pc \in {"scan", "idle"}
    <3>1. CASE ScanDone
      BY <3>1 DEF ScanDone, IdleCont
    <3>2. CASE SelectReturns \/ ScanNext \/ Advance
      BY <1>2, <3>2 DEF SelectReturns, ScanNext, Advance, ContTypes
    <3> QED
      BY <1>4, <3>1, <3>2
  <2>2. cont'.pc = "scan" => cont'.cur \in Listed \cup {NULL}
    <3>1. CASE SelectReturns
      BY <1>2, <3>1, PassedFirst DEF SelectReturns, ContTypes
    <3>2. CASE ScanNext
      <4>1. cont.cur \in Listed /\ cont'.cur = nextElement(cont.cur)
        BY <1>2, <3>2 DEF ScanNext, WInv, ContInv, ContTypes
      <4> QED
        BY <1>2, <4>1, NextElement
    <3>3. CASE Advance
      BY <1>2, <3>3 DEF Advance, WInv, ListInv, ContTypes
    <3>4. CASE ScanDone
      BY <3>4 DEF ScanDone, IdleCont
    <3> QED
      BY <1>4, <3>1, <3>2, <3>3, <3>4
  <2>3. current' \in Listed \cup {NULL} /\ cont.pc # "restore"
    BY <1>2, <1>4 DEF SelectReturns, ScanNext, Advance, ScanDone, findCursor, WInv, ListInv
  <2>4. Removing = FALSE /\ Removing' = FALSE
    BY <1>4, <2>1 DEF Removing, SelectReturns, ScanNext, Advance, ScanDone
  <2>5. ContInv'
    BY <1>3, <2>1, <2>2, <2>4 DEF ContInv
  <2>6. ListInv'
    BY <1>1, <1>3, <2>3, <2>4 DEF WInv, ListInv
  <2> QED
    BY <1>2, <1>3, <2>5, <2>6 DEF WInv
<1>5. CASE Select \/ ClearLoad \/ ClearStore \/ UnlinkFind
  <2>1. Removing => cont.cur \in Listed /\ cont.cur \notin Stored
    BY DEF WInv, ContInv
  <2>2. /\ Removing' = Removing
        /\ Removing => cont'.cur = cont.cur
        /\ cont'.pc \in {"select", "store", "unlink", "take"}
        /\ cont'.pc = "take" => cont'.saved = current
    <3>1. CASE Select
      BY <1>2, <3>1 DEF Select, Removing, ContTypes
    <3>2. CASE ClearLoad
      BY <1>2, <3>2 DEF ClearLoad, Removing, ContTypes
    <3>3. CASE ClearStore
      BY <1>2, <3>3 DEF ClearStore, Removing, ContTypes
    <3>4. CASE UnlinkFind
      <4>1. Pending(cont.cur)
        BY <1>2, <2>1, <3>4 DEF UnlinkFind, Removing
      <4> QED
        BY <1>2, <3>4, <4>1 DEF UnlinkFind, Removing, ContTypes
    <3> QED
      BY <1>5, <3>1, <3>2, <3>3, <3>4
  <2>3. /\ current \in Listed \cup {NULL} /\ current' \in Listed \cup {NULL}
    BY <1>2, <1>5, <2>1 DEF Select, ClearLoad, ClearStore, UnlinkFind, findCursor,
                            WInv, ListInv
  <2>4. ContInv'
    BY <1>3, <2>1, <2>2, <2>3 DEF ContInv
  <2>5. ListInv'
    BY <1>1, <1>3, <2>2, <2>3 DEF WInv, ListInv
  <2> QED
    BY <1>2, <1>3, <2>4, <2>5 DEF WInv
<1>6. CASE UnlinkRestore
  <2>1. cont.pc = "restore" /\ cont'.pc = "advance" /\ current' = cont.saved
    BY <1>2, <1>6 DEF UnlinkRestore, ContTypes
  <2>2. current' \in Listed \cup {NULL}
    BY <2>1 DEF WInv, ContInv
  <2>3. Removing = FALSE /\ Removing' = FALSE
    BY <2>1 DEF Removing
  <2>4. ContInv'
    BY <2>1, <2>3 DEF ContInv
  <2>5. ListInv'
    BY <1>1, <1>3, <2>2, <2>3 DEF WInv, ListInv
  <2> QED
    BY <1>2, <1>3, <2>4, <2>5 DEF WInv
<1> QED
  BY <1>4, <1>5, <1>6

(* What a step of continueWrite does to the write of the socket it is at.  *)
LEMMA ContinueFacts ==
    ASSUME WInv, ContinueWrite
    PROVE  LET s == cont.cur
               i == writeOf(s)
               iov == remaining(writes[i])
           IN  /\ s \in Sockets /\ s \in Listed /\ s \in Stored
               /\ i \in DOMAIN writes /\ writes[i].socket = s
               /\ writes[i] \in PendingWrites /\ Unfinished(writes[i])
               /\ iov \in Seq(Seq(Byte))
               /\ FlattenSeq(iov) = After(FlattenSeq(writes[i].iovecs), writes[i].bytes)
               /\ FlattenSeq(writes[i].iovecs) \in Seq(Byte)
               /\ writes[i].total = Len(FlattenSeq(writes[i].iovecs))
               /\ BufLen(iov) \in Nat /\ writes[i].bytes + BufLen(iov) = writes[i].total
<1> DEFINE s == cont.cur
           i == writeOf(s)
           pw == writes[i]
<1>1. s \in Sockets /\ s \in Listed
  BY StateFacts DEF ContinueWrite, WInv, TypeInv, TypeOK, ContInv
<1>2. s \in Stored /\ writes \in Seq(PendingWrites)
  BY <1>1 DEF WInv, TypeInv, TypeOK, ListInv, ContinueWrite, Removing
<1>3. i \in DOMAIN writes /\ writes[i].socket = s
  BY <1>2, WriteOfStored
<1>4. i \in DOMAIN writes /\ pw \in PendingWrites
  BY <1>2, <1>3, LenProperties, ElementOfSeq
<1>5. Unfinished(pw)
  BY <1>4 DEF WInv, ListInv, AllUnfinished
<1> HIDE DEF pw, i, s
<1>6. pw.iovecs \in Seq(Seq(Byte)) /\ pw.total \in Nat /\ pw.bytes \in Nat
  BY <1>4 DEF PendingWrites, Byte
<1>7. FlattenSeq(pw.iovecs) \in Seq(Byte)
  BY <1>6, FlattenType
<1>8. pw.total = Len(FlattenSeq(pw.iovecs)) /\ pw.bytes <= pw.total
  BY <1>5 DEF Unfinished, BufLen
<1>9. /\ remaining(pw) \in Seq(Seq(Byte))
      /\ FlattenSeq(remaining(pw)) = After(FlattenSeq(pw.iovecs), pw.bytes)
  BY <1>4, RemainingFlat
<1>10. Len(After(FlattenSeq(pw.iovecs), pw.bytes)) = pw.total - pw.bytes
  <2> DEFINE F == FlattenSeq(pw.iovecs)
             n == pw.bytes
  <2>1. F \in Seq(Byte) /\ n \in Nat /\ n <= Len(F) /\ Len(F) = pw.total
    BY <1>6, <1>7, <1>8
  <2> HIDE DEF F, n
  <2>2. Len(After(F, n)) = IF n <= Len(F) THEN Len(F) - n ELSE 0
    BY <2>1, AfterFacts
  <2>3. Len(After(F, n)) = pw.total - n
    BY <2>1, <2>2
  <2> QED
    BY <2>3 DEF F, n
<1>11. BufLen(remaining(pw)) = pw.total - pw.bytes
  BY <1>9, <1>10 DEF BufLen
<1>12. BufLen(remaining(pw)) \in Nat /\ pw.bytes + BufLen(remaining(pw)) = pw.total
  BY <1>6, <1>8, <1>11
<1> QED
  BY <1>1, <1>2, <1>3, <1>4, <1>5, <1>7, <1>8, <1>9, <1>12 DEF pw, i, s

(* Socket_continueWrite writes some more of a packet.                      *)
LEMMA ContinueWriteInv ==
    ASSUME WInv, ContinueWrite
    PROVE  WInv'
<1> DEFINE s == cont.cur
           i == writeOf(s)
           iov == remaining(writes[i])
           left == BufLen(iov)
<1>1. /\ s \in Sockets /\ s \in Listed /\ s \in Stored
      /\ i \in DOMAIN writes /\ writes[i] \in PendingWrites
      /\ left \in Nat /\ writes[i].bytes + left = writes[i].total
  BY ContinueFacts
<1>2. PICK k \in writevResults(s, left) :
        \/ /\ k = -1
           /\ cont' = [cont EXCEPT !.pc = "remove", !.rc = -1]
           /\ UNCHANGED <<writes, wire, writable>>
        \/ /\ k >= 0
           /\ writev(s, iov, k)
           /\ writes' = [writes EXCEPT ![i].bytes = @ + k]
           /\ cont' = IF writes[i].bytes + k = writes[i].total
                      THEN [cont EXCEPT !.pc = "remove", !.rc = 1]
                      ELSE [cont EXCEPT !.cur = nextElement(s)]
  BY DEF ContinueWrite
<1>3. UNCHANGED <<write_pending, current, put>> /\ TypeInv'
  BY ContinueWriteType DEF ContinueWrite, WInv
<1>4. k >= 0 => k \in Nat /\ k <= left
  BY <1>1, <1>2 DEF writevResults
<1>5. /\ writes \in Seq(PendingWrites) /\ OneEach(writes) /\ AllUnfinished(writes)
      /\ write_pending \in Seq(Sockets) /\ cont \in ContTypes /\ cont.pc = "scan"
  BY Records DEF WInv, TypeInv, TypeOK, ListInv, ContinueWrite
<1>6. nextElement(s) \in Listed \cup {NULL}
  BY <1>1, <1>5, NextElement
<1> HIDE DEF i, iov, left
<1>7. /\ Len(writes') = Len(writes) /\ SocketsOf(writes') = SocketsOf(writes)
      /\ OneEach(writes') /\ AllUnfinished(writes')
  <2>1. CASE k = -1
    BY <1>2, <1>5, <2>1
  <2>2. CASE k >= 0
    <3> DEFINE b == writes[i].bytes + k
    <3>1. b \in Nat /\ b <= writes[i].total
      BY <1>1, <1>4, <2>2 DEF PendingWrites
    <3>2. writes' = [writes EXCEPT ![i].bytes = b]
      BY <1>2, <2>2
    <3> HIDE DEF b
    <3>3. Continued(writes', writes, i, b)
      BY <3>2 DEF Continued
    <3> QED
      BY <1>1, <1>5, <3>1, <3>3, WritesUpdate
  <2> QED
    BY <1>2, <2>1, <2>2
<1>8. \/ cont'.pc = "remove" /\ cont'.cur = s
      \/ cont'.pc = "scan" /\ cont'.cur = nextElement(s)
  BY <1>2, <1>5 DEF ContTypes
<1>9. UNCHANGED <<Stored, Listed, Adding>>
  BY <1>3, <1>7 DEF Stored, Listed, Adding
<1>10. Removing = FALSE /\ Removing' = FALSE
  BY <1>5, <1>8 DEF Removing
<1>11. PutInv'
  BY <1>3, <1>9 DEF WInv, PutInv, WalkInv, Holding, Adding
<1>12. ContInv'
  BY <1>1, <1>6, <1>8, <1>9, <1>10 DEF ContInv
<1>13. ListInv'
  BY <1>3, <1>5, <1>7, <1>8, <1>9, <1>10 DEF WInv, ListInv
<1> QED
  BY <1>3, <1>11, <1>12, <1>13 DEF WInv

(* SocketBuffer_writeComplete drops the write, and putdatas is not about to *)
(* link another behind it.                                                 *)
LEMMA RemoveWriteInv ==
    ASSUME WInv, RemoveWrite, ~torn'
    PROVE  WInv'
<1> DEFINE s == cont.cur
           i == writeOf(s)
<1>1. /\ s \in Listed /\ s \in Stored /\ writes \in Seq(PendingWrites)
      /\ OneEach(writes) /\ AllUnfinished(writes) /\ cont.pc = "remove"
      /\ cont \in ContTypes
  BY Records DEF RemoveWrite, WInv, TypeInv, WorkInv, TypeOK, ContInv, ListInv
<1>2. i \in DOMAIN writes /\ writes[i].socket = s
  BY <1>1, WriteOfStored
<1>3. writes' = RemoveAt(writes, i)
  BY DEF RemoveWrite
<1> HIDE DEF i
<1>4. /\ Len(writes') = Len(writes) - 1
      /\ Stored' = Stored \ {s} /\ OneEach(writes') /\ AllUnfinished(writes')
  BY <1>1, <1>2, <1>3, WritesRemove DEF Stored
<1>5. UNCHANGED <<write_pending, current, put>> /\ TypeInv'
  BY TakeType DEF RemoveWrite, WInv
<1>6. UNCHANGED <<Listed, Adding>>
  BY <1>5 DEF Listed, Adding
<1>7. cont'.pc = "load" /\ cont'.cur = s /\ Removing = FALSE /\ Removing' = TRUE
  BY <1>1 DEF RemoveWrite, ContTypes, Removing
<1>8. PutInv'
  <2>1. Adding => put.socket # s
    BY <1>1 DEF WInv, PutInv
  <2>2. put.pc = "buffering" => put.at # s
    BY DEF RemoveWrite
  <2> QED
    BY <1>4, <1>5, <1>6, <2>1, <2>2 DEF WInv, PutInv, WalkInv, Holding, Adding
<1>9. ContInv'
  BY <1>1, <1>4, <1>6, <1>7 DEF ContInv
<1>10. ListInv'
  BY <1>1, <1>4, <1>5, <1>6, <1>7, StateFacts DEF WInv, ListInv
<1> QED
  BY <1>5, <1>8, <1>9, <1>10 DEF WInv

(* ListUnlink takes the socket off the list: the cursor is still where     *)
(* ListFindItem put it, and putdatas is on another element.                *)
LEMMA UnlinkTakeInv ==
    ASSUME WInv, UnlinkTake, ~torn'
    PROVE  WInv'
<1> DEFINE s == cont.cur
<1>1. /\ current = s /\ ~putdatasOn(s) /\ cont.pc = "take"
      /\ write_pending' = RemoveFirst(write_pending, s)
      /\ UNCHANGED <<writes, put>>
  BY DEF UnlinkTake
<1>2. /\ s \in Listed /\ s \notin Stored /\ write_pending \in Seq(Sockets)
      /\ Distinct(write_pending) /\ cont \in ContTypes /\ TypeInv'
      /\ cont.saved \in Listed \cup {NULL}
  BY <1>1, Records, TakeType DEF WInv, TypeInv, TypeOK, ContInv, ListInv, Removing
<1>3. /\ Len(write_pending') = Len(write_pending) - 1
      /\ Listed' = Listed \ {s} /\ Distinct(write_pending')
  BY <1>1, <1>2, ListRemove DEF Listed
<1>4. nextElement(s) \in (Listed \ {s}) \cup {NULL}
  BY <1>2, NextElement
<1>5. cont'.pc = "restore" /\ cont'.saved = savedCursor(s)
  BY <1>1, <1>2 DEF UnlinkTake, ContTypes
<1>6. cont'.saved \in Listed' \cup {NULL}
  BY <1>2, <1>3, <1>4, <1>5 DEF savedCursor
<1>7. UNCHANGED <<Stored, Adding>>
  BY <1>1 DEF Stored, Adding
<1>8. Removing = TRUE /\ Removing' = FALSE
  BY <1>1, <1>5 DEF Removing
<1>9. PutInv'
  <2>1. put.pc \in {"find", "found", "appending"} => put.at # s
    BY <1>1 DEF putdatasOn
  <2>2. WalkInv'
    <3> SUFFICES ASSUME put.pc = "find" PROVE WalkInv'
      BY <1>1 DEF WalkInv
    <3>1. CASE put.at = NULL /\ put.socket \notin Listed
      BY <1>1, <1>3, <3>1 DEF WalkInv
    <3>2. CASE put.at # NULL /\ Passed(write_pending, put.at, put.socket)
      <4>1. Passed(RemoveFirst(write_pending, s), put.at, put.socket)
        BY <1>2, <2>1, <3>2, PassedRemove DEF Listed
      <4> QED
        BY <1>1, <3>2, <4>1 DEF WalkInv
    <3> QED
      BY <3>1, <3>2 DEF WInv, PutInv, WalkInv
  <2> QED
    BY <1>1, <1>3, <1>7, <2>1, <2>2 DEF WInv, PutInv, Holding, Adding
<1>10. ContInv'
  BY <1>5, <1>6, <1>8 DEF ContInv
<1>11. ListInv'
  BY <1>1, <1>2, <1>3, <1>5, <1>7, <1>8, StateFacts DEF WInv, ListInv
<1> QED
  BY <1>2, <1>9, <1>10, <1>11 DEF WInv

(* The peers and the network leave the lists alone.                        *)
LEMMA PeerInv ==
    ASSUME WInv, (\E s \in Sockets : Drain(s) \/ Break(s)) \/ UNCHANGED vars
    PROVE  WInv'
<1>1. UNCHANGED <<write_pending, current, writes, put, cont>>
  BY DEF Drain, Break, vars
<1>2. TypeInv'
  BY StepType DEF WInv, Next
<1>3. PutInv' /\ ContInv' /\ UNCHANGED <<Stored, Listed, Adding, Removing>>
  BY <1>1, KeepPut, KeepCont DEF WInv
<1>4. ListInv'
  BY <1>1, <1>3 DEF WInv, ListInv
<1> QED
  BY <1>2, <1>3, <1>4 DEF WInv

(* Every step preserves it, unless it harms the other thread's operation.  *)
LEMMA StepInv == WInv /\ [Next]_vars /\ ~torn' => WInv'
<1> SUFFICES ASSUME WInv, [Next]_vars, ~torn' PROVE WInv'
  OBVIOUS
<1>1. CASE \E s \in Sockets, p \in Unused : PutCheck(s, p)
  BY <1>1, PutCheckInv DEF Unused
<1>2. CASE putdatas
  BY <1>2, PutWalkInv, PutFoundInv, PutWriteInv, PutLookInv, PutBufferedInv,
     PutAppendedInv DEF putdatas
<1>3. CASE continueWrites
  BY <1>3, ContStepInv, ContinueWriteInv, RemoveWriteInv, UnlinkTakeInv
     DEF continueWrites
<1>4. CASE (\E s \in Sockets : Drain(s) \/ Break(s)) \/ UNCHANGED vars
  BY <1>4, PeerInv
<1> QED
  BY <1>1, <1>2, <1>3, <1>4 DEF Next

(* Harm is not undone.                                                     *)
LEMMA TornStays == torn /\ [Next]_vars => torn'
BY DEF Next, putdatas, continueWrites, vars, PutCheck, PutWalk, PutFound, PutWrite,
       PutBuffer, PutBuffered, PutAppend, PutAppended, PutLoad, PutStore, Select,
       SelectReturns, ScanNext, ContinueWrite, RemoveWrite, ClearLoad, ClearStore,
       UnlinkFind, UnlinkTake, UnlinkRestore, Advance, ScanDone, Drain, Break

(* Until an element is freed that putdatas is on, or the cursor moved under *)
(* ListUnlink, the list of pending writes and the stored writes agree, but *)
(* for what putdatas is adding and continueWrites is removing.             *)
THEOREM PendingListInvariant == Spec => [](~torn => WInv)
<1>1. Init => (~torn => WInv)
  BY InitInv
<1>2. (~torn => WInv) /\ [Next]_vars => (~torn => WInv)'
  BY StepInv, TornStays
<1> QED
  BY <1>1, <1>2, PTL DEF Spec

(* Until then neither thread follows a dangling pointer, whatever the      *)
(* other does to the lists meanwhile.                                      *)
THEOREM NoDanglingPointer == Spec => []PointersLive
<1>1. (~torn => WInv) => PointersLive
  <2> SUFFICES ASSUME WInv PROVE PointersLive
    BY DEF PointersLive
  <2>0. \A s : Pending(s) <=> s \in Listed
    BY StateFacts
  <2>1. current # NULL /\ cont.pc # "restore" => Pending(current)
    BY <2>0 DEF WInv, ListInv
  <2>2. cont.pc \in {"take", "restore"} /\ cont.saved # NULL => Pending(cont.saved)
    BY <2>0 DEF WInv, ContInv
  <2>3. cont.pc \in {"scan", "remove", "load", "store", "unlink", "take"}
            /\ cont.cur # NULL => Pending(cont.cur)
    BY <2>0 DEF WInv, ContInv, Removing
  <2>4. put.pc \in {"find", "found", "appending"} /\ put.at # NULL => Pending(put.at)
    <3>1. put.pc = "find" /\ put.at # NULL => put.at \in Listed
      BY DEF WInv, PutInv, WalkInv, Passed, Listed, ToSet
    <3> QED
      BY <2>0, <3>1 DEF WInv, PutInv
  <2>5. cont.pc = "scan" /\ cont.cur \in cont.pwset => writeOf(cont.cur) # 0
    <3> SUFFICES ASSUME cont.pc = "scan", cont.cur \in cont.pwset
                 PROVE  writeOf(cont.cur) # 0
      OBVIOUS
    <3>1. cont.cur \in Sockets /\ writes \in Seq(PendingWrites)
      BY Records DEF WInv, TypeInv, TypeOK, ContTypes
    <3>2. cont.cur \in Stored
      BY <3>1, NullAssumption DEF WInv, ContInv, ListInv, Removing
    <3>3. writeOf(cont.cur) \in DOMAIN writes
      BY <3>1, <3>2, WriteOfStored
    <3> QED
      BY <3>1, <3>3, LenProperties
  <2> QED
    BY <2>1, <2>2, <2>3, <2>4, <2>5 DEF PointersLive
<1> QED
  BY <1>1, PendingListInvariant, PTL

-----------------------------------------------------------------------------
(* Every pending write is watched by select                                *)

(* No two sockets have their bits in one word of an fd_set.                *)
WordsApart == \A s, t \in Sockets : Word[s] = Word[t] => s = t

LEMMA StepWatch ==
    ASSUME WordsApart, WInv, WatchInv, [Next]_vars, ~torn'
    PROVE  WatchInv'
<1>0. \A s \in Sockets : bitsOf(Sockets, s) = {s}
  BY DEF WordsApart, bitsOf
<1>1. CASE \E s \in Sockets, p \in Unused : PutCheck(s, p)
  <2>1. UNCHANGED <<Listed, pending_wset, cont>> /\ put.pc = "idle"
    BY <1>1 DEF PutCheck, Listed
  <2> QED
    BY <2>1 DEF WatchInv
<1>2. CASE PutWalk \/ PutFound \/ PutWrite \/ PutBuffer \/ PutBuffered \/ PutAppend
  <2>1. UNCHANGED <<Listed, pending_wset, cont>> /\ put.pc \notin {"load", "store"}
    BY <1>2 DEF PutWalk, PutFound, PutWrite, PutBuffer, PutBuffered, PutAppend, Listed
  <2> QED
    BY <2>1 DEF WatchInv
<1>3. CASE PutAppended
  <2>1. Listed' \subseteq Listed \cup {put.socket}
    <3>1. put.socket \in Sockets /\ write_pending \in Seq(Sockets)
      BY <1>3 DEF PutAppended, WInv, TypeInv, TypeOK, WorkInv
    <3>2. write_pending' \in {write_pending, Append(write_pending, put.socket)}
      BY <1>3 DEF PutAppended
    <3> QED
      BY <3>1, <3>2, ListAppend DEF Listed
  <2>2. UNCHANGED <<pending_wset, cont>> /\ put'.pc = "load" /\ put'.socket = put.socket
    BY <1>3, Records DEF PutAppended, WInv, TypeInv, PutTypes
  <2>3. put.pc = "appending"
    BY <1>3 DEF PutAppended
  <2> QED
    BY <2>1, <2>2, <2>3 DEF WatchInv
<1>4. CASE PutLoad
  <2>1. /\ UNCHANGED <<Listed, pending_wset, cont>> /\ put'.pc = "store"
        /\ put'.socket = put.socket
    BY <1>4, Records DEF PutLoad, Listed, WInv, TypeInv, PutTypes
  <2> QED
    BY <2>1 DEF WatchInv
<1>5. CASE PutStore
  <2>1. UNCHANGED <<Listed, cont>> /\ put.pc = "store" /\ put.socket \in Sockets
    BY <1>5 DEF PutStore, Listed, WInv, TypeInv, WorkInv
  <2>2. put.socket \in pending_wset'
    BY <1>5 DEF PutStore, storeWord
  <2>3. \A s \in pending_wset : s \in pending_wset'
    BY <1>0, <1>5, <2>1, <2>2 DEF PutStore, storeWord
  <2> QED
    BY <2>1, <2>2, <2>3 DEF WatchInv
<1>6. CASE Select \/ SelectReturns \/ ScanNext \/ ContinueWrite \/ RemoveWrite
           \/ ClearLoad \/ UnlinkRestore \/ Advance \/ ScanDone
  <2>1. UNCHANGED <<Listed, pending_wset, put>> /\ cont.pc \notin {"unlink", "take"}
    BY <1>6 DEF Select, SelectReturns, ScanNext, ContinueWrite, RemoveWrite, ClearLoad,
                UnlinkRestore, Advance, ScanDone, Listed
  <2> QED
    BY <2>1 DEF WatchInv
<1>7. CASE ClearStore
  <2>1. /\ UNCHANGED <<Listed, put>> /\ cont'.pc = "unlink" /\ cont'.cur = cont.cur
        /\ cont.pc = "store" /\ cont.cur \in Sockets
    BY <1>7, StateFacts, Records DEF ClearStore, Listed, WInv, TypeInv, ContTypes, ContInv,
                                     Removing
  <2>2. \A s \in pending_wset : s \in pending_wset' \/ s = cont.cur
    BY <1>0, <1>7, <2>1 DEF ClearStore, storeWord
  <2> QED
    BY <2>1, <2>2 DEF WatchInv
<1>8. CASE UnlinkFind
  <2>1. /\ UNCHANGED <<Listed, pending_wset, put>> /\ cont.pc = "unlink"
        /\ cont'.cur = cont.cur
    BY <1>8, Records DEF UnlinkFind, Listed, WInv, TypeInv, ContTypes
  <2>2. cont'.pc = "take"
    <3>1. Pending(cont.cur)
      BY <2>1, StateFacts DEF WInv, ContInv, Removing
    <3> QED
      BY <1>8, <3>1, Records DEF UnlinkFind, WInv, TypeInv, ContTypes
  <2> QED
    BY <2>1, <2>2 DEF WatchInv
<1>10. CASE UnlinkTake
  <2>1. current = cont.cur /\ cont.cur \in Listed /\ UNCHANGED <<pending_wset, put>>
    BY <1>10 DEF UnlinkTake, WInv, ContInv, Removing
  <2>2. Listed' = Listed \ {cont.cur}
    BY <1>10, <2>1, ListRemove DEF UnlinkTake, Listed, WInv, TypeInv, TypeOK, ListInv
  <2> QED
    BY <2>1, <2>2 DEF WatchInv
<1>9. CASE (\E s \in Sockets : Drain(s) \/ Break(s)) \/ UNCHANGED vars
  <2>1. UNCHANGED <<Listed, pending_wset, put, cont>>
    BY <1>9 DEF Drain, Break, vars, Listed
  <2> QED
    BY <2>1 DEF WatchInv
<1> QED
  BY <1>1, <1>2, <1>3, <1>4, <1>5, <1>6, <1>7, <1>8, <1>9, <1>10
     DEF Next, putdatas, continueWrites

(* Until two list operations harm each other, every unfinished write is    *)
(* between calls on the list, stored once and in the set select watches,   *)
(* if no two sockets share a word of an fd_set (Socket.c:608-662,          *)
(* 1044-1102).  The runs write_shared and write_torn show what goes wrong  *)
(* otherwise.                                                              *)
THEOREM NoWriteForgotten ==
    ASSUME WordsApart PROVE Spec => []PendingWritesWatched
<1>1. Init => WatchInv
  BY DEF Init, WatchInv, Listed, ToSet
<1>2. (~torn => WInv) /\ (~torn => WatchInv) /\ [Next]_vars => (~torn => WatchInv)'
  BY StepWatch, TornStays
<1>3. (~torn => WInv) /\ (~torn => WatchInv) => PendingWritesWatched
  <2> SUFFICES ASSUME WInv, WatchInv, put.pc = "idle", cont.pc \in {"idle", "select"}
               PROVE  /\ ToSet(write_pending) \subseteq pending_wset
                      /\ ToSet(write_pending) = {writes[i].socket : i \in DOMAIN writes}
                      /\ Len(writes) = Len(write_pending)
                      /\ IsInjective(write_pending)
    BY DEF PendingWritesWatched
  <2>1. Adding = FALSE /\ Removing = FALSE
    BY DEF Adding, Removing
  <2>2. Listed \subseteq pending_wset
    BY DEF WatchInv
  <2>3. Listed = Stored
    BY <2>1 DEF WInv, ListInv
  <2>4. Len(writes) = Len(write_pending)
    BY <2>1, StateFacts DEF WInv, ListInv
  <2>5. IsInjective(write_pending)
    BY DEF WInv, ListInv, Distinct, IsInjective
  <2> QED
    BY <2>2, <2>3, <2>4, <2>5 DEF Listed, Stored, SocketsOf
<1> QED
  BY <1>1, <1>2, <1>3, PendingListInvariant, PTL DEF Spec

-----------------------------------------------------------------------------
(* The bytes on the wire                                                   *)

(* The bytes are sequences of bytes.                                       *)
LEMMA BytesTypes ==
    ASSUME WInv
    PROVE  /\ \A s \in Sockets : wire[s] \in Seq(Byte) /\ AcceptedBytes(s) \in Seq(Byte)
           /\ \A i \in DOMAIN writes :
                /\ FlattenSeq(writes[i].iovecs) \in Seq(Byte)
                /\ writes[i].bytes \in Nat
                /\ writes[i].total = Len(FlattenSeq(writes[i].iovecs))
                /\ After(FlattenSeq(writes[i].iovecs), writes[i].bytes) \in Seq(Byte)
           /\ put.pc \in {"buffer", "buffering"} =>
                After(FlattenSeq(put.iovecs), put.bytes) \in Seq(Byte)
<1>1. ASSUME NEW s \in Sockets
      PROVE  wire[s] \in Seq(Byte) /\ AcceptedBytes(s) \in Seq(Byte)
  <2>1. wire[s] \in Seq(Byte) /\ accepted[s] \in Seq(Packets)
    BY DEF WInv, TypeInv, TypeOK, Byte
  <2>2. [i \in DOMAIN accepted[s] |-> Bytes(accepted[s][i])] \in Seq(Seq(Byte))
    <3>1. /\ Len(accepted[s]) \in Nat /\ DOMAIN accepted[s] = 1..Len(accepted[s])
          /\ \A i \in 1..Len(accepted[s]) : accepted[s][i] \in Packets
      BY <2>1, LenProperties, ElementOfSeq
    <3>2. \A i \in 1..Len(accepted[s]) : Bytes(accepted[s][i]) \in Seq(Byte)
      BY <3>1, PacketOfIovecs
    <3> QED
      BY <3>1, <3>2
  <2> QED
    BY <2>1, <2>2, FlattenType DEF AcceptedBytes
<1>2. ASSUME NEW i \in DOMAIN writes
      PROVE  /\ FlattenSeq(writes[i].iovecs) \in Seq(Byte)
             /\ writes[i].bytes \in Nat
             /\ writes[i].total = Len(FlattenSeq(writes[i].iovecs))
             /\ After(FlattenSeq(writes[i].iovecs), writes[i].bytes) \in Seq(Byte)
  <2>1. writes[i] \in PendingWrites /\ Unfinished(writes[i])
    BY LenProperties, ElementOfSeq DEF WInv, TypeInv, TypeOK, ListInv, AllUnfinished
  <2>2. writes[i].iovecs \in Seq(Seq(Byte)) /\ writes[i].bytes \in Nat
    BY <2>1 DEF PendingWrites, Byte
  <2>3. FlattenSeq(writes[i].iovecs) \in Seq(Byte)
    BY <2>2, FlattenType
  <2> QED
    BY <2>1, <2>2, <2>3, AfterFacts DEF Unfinished, BufLen
<1>3. put.pc \in {"buffer", "buffering"} => After(FlattenSeq(put.iovecs), put.bytes) \in Seq(Byte)
  <2>1. put.iovecs \in Seq(Seq(Byte)) /\ put.bytes \in Nat
    BY DEF WInv, TypeInv, TypeOK, Byte
  <2>2. FlattenSeq(put.iovecs) \in Seq(Byte)
    BY <2>1, FlattenType
  <2> QED
    BY <2>1, <2>2, AfterFacts
<1> QED
  BY <1>1, <1>2, <1>3

(* A connection that is not broken carries a prefix of what was accepted.  *)
LEMMA UnbrokenPrefix ==
    ASSUME WInv, WireInv, NEW s \in Sockets \ broken
    PROVE  IsPrefix(wire[s], AcceptedBytes(s))
<1>1. \E r \in Seq(Byte) : wire[s] \o r = AcceptedBytes(s)
  <2>1. CASE s \in Stored
    <3>1. PICK i \in DOMAIN writes : writes[i].socket = s
      BY <2>1 DEF Stored, SocketsOf
    <3> QED
      BY <3>1, BytesTypes DEF WireInv
  <2>2. CASE s \notin Stored /\ put.pc \in {"buffer", "buffering"} /\ put.socket = s
    BY <2>2, BytesTypes DEF WireInv
  <2>3. CASE s \notin Stored /\ ~(put.pc \in {"buffer", "buffering"} /\ put.socket = s)
    <3>1. wire[s] = AcceptedBytes(s) /\ wire[s] \in Seq(Byte)
      BY <2>3, BytesTypes DEF WireInv
    <3>2. wire[s] \o <<>> = AcceptedBytes(s) /\ <<>> \in Seq(Byte)
      BY <3>1, ConcatEmptySeq
    <3> QED
      BY <3>2
  <2> QED
    BY <2>1, <2>2, <2>3
<1>2. wire[s] \in Seq(Byte)
  BY BytesTypes
<1> QED
  BY <1>1, <1>2, PrefixOfConcat

(* Concatenation of bytes is associative.                                  *)
LEMMA BytesAssociate ==
    ASSUME NEW u \in Seq(Byte), NEW v \in Seq(Byte), NEW w \in Seq(Byte)
    PROVE  (u \o v) \o w = u \o (v \o w)
BY ConcatAssociative

(* k more of the bytes f, after the first n, go onto a wire w.             *)
LEMMA MoreBytes ==
    ASSUME NEW w \in Seq(Byte), NEW f \in Seq(Byte), NEW n \in Nat, NEW k \in Nat,
           n + k <= Len(f)
    PROVE  (w \o SubSeq(After(f, n), 1, k)) \o After(f, n + k) = w \o After(f, n)
<1>1. After(f, n) \in Seq(Byte) /\ Len(After(f, n)) = Len(f) - n
  <2>1. n <= Len(f) /\ Len(f) \in Nat
    OBVIOUS
  <2> QED
    BY <2>1, AfterFacts
<1>2. \A i \in 1..k : After(f, n)[i] \in Byte
  <2>1. \A i \in 1..k : i \in 1..Len(After(f, n))
    BY <1>1
  <2> QED
    BY <1>1, <2>1, ElementOfSeq
<1>3. SubSeq(After(f, n), 1, k) \in Seq(Byte)
  BY <1>2, SubSeqProperties
<1>4. n + k \in Nat
  OBVIOUS
<1>5. After(f, n + k) \in Seq(Byte)
  BY <1>4, AfterFacts
<1>6. (w \o SubSeq(After(f, n), 1, k)) \o After(f, n + k)
        = w \o (SubSeq(After(f, n), 1, k) \o After(f, n + k))
  <2> DEFINE a == SubSeq(After(f, n), 1, k)
             b == After(f, n + k)
  <2>1. a \in Seq(Byte) /\ b \in Seq(Byte)
    BY <1>3, <1>5
  <2> HIDE DEF a, b
  <2>2. (w \o a) \o b = w \o (a \o b)
    BY <2>1, BytesAssociate
  <2> QED
    BY <2>2 DEF a, b
<1>7. SubSeq(After(f, n), 1, k) \o After(f, n + k) = After(f, n)
  BY AfterMore
<1> QED
  BY <1>6, <1>7

(* Steps that write nothing.                                               *)
LEMMA QuietWire ==
    ASSUME WireInv, UNCHANGED <<writes, wire, accepted, broken>>,
           \/ put.pc \notin {"buffer", "buffering"} /\ put'.pc \notin {"buffer", "buffering"}
           \/ UNCHANGED put
           \/ /\ put.pc \in {"buffer", "buffering"} /\ put'.pc \in {"buffer", "buffering"}
              /\ put'.socket = put.socket /\ put'.iovecs = put.iovecs
              /\ put'.bytes = put.bytes,
           cont'.pc # "remove" \/ UNCHANGED cont
    PROVE  WireInv'
<1>1. \A s : AcceptedBytes(s)' = AcceptedBytes(s)
  BY DEF AcceptedBytes
<1>2. Stored' = Stored
  BY DEF Stored
<1> QED
  BY <1>1, <1>2 DEF WireInv

(* putdatas writes: all of the packet, or its first bytes.                 *)
LEMMA PutWriteWire ==
    ASSUME WInv, WireInv, PutWrite
    PROVE  WireInv'
<1> DEFINE total == BufLen(put.iovecs)
           f == FlattenSeq(put.iovecs)
<1>0. PICK s : s = put.socket
  OBVIOUS
<1>1. PICK p \in Packets : put.iovecs = Iovecs(p)
  BY DEF WInv, TypeInv, WorkInv, PutWrite
<1>2. /\ s \in Sockets /\ total \in Nat /\ packetOf(put.iovecs) = p /\ f = Bytes(p)
      /\ f \in Seq(Byte) /\ Len(f) = total
  BY <1>0, <1>1, PacketOfIovecs, IovecsFlat DEF WInv, TypeInv, WorkInv, PutWrite, BufLen
<1>3. PICK k \in writevResults(s, total) :
        \/ /\ k = -1
           /\ put' = IdlePut
           /\ UNCHANGED <<wire, writable, accepted>>
        \/ /\ k >= 0
           /\ writev(s, put.iovecs, k)
           /\ accepted' = [accepted EXCEPT ![s] = Append(@, packetOf(put.iovecs))]
           /\ put' = IF k = total THEN IdlePut
                     ELSE [put EXCEPT !.pc = "buffer", !.bytes = k]
  BY <1>0 DEF PutWrite
<1>4. k >= 0 => k \in Nat /\ k <= total /\ s \notin broken
  BY <1>2, <1>3 DEF writevResults
<1>5. UNCHANGED <<writes, cont, broken>> /\ put.pc = "write" /\ s \notin Stored
  BY <1>0 DEF PutWrite, WInv, PutInv
<1>6. CASE k = -1
  <2>1. UNCHANGED <<writes, wire, accepted, broken>> /\ put'.pc = "idle"
    BY <1>3, <1>5, <1>6 DEF IdlePut
  <2> QED
    BY <1>5, <2>1, QuietWire
<1>7. CASE k >= 0
  <2>1. wire[s] = AcceptedBytes(s) /\ wire[s] \in Seq(Byte)
    BY <1>2, <1>4, <1>5, <1>7, BytesTypes DEF WireInv
  <2>2. /\ wire \in [Sockets -> Seq(Packets \X Nat)] /\ accepted \in [Sockets -> Seq(Packets)]
        /\ put \in PutTypes
    BY Records DEF WInv, TypeInv, TypeOK
  <2>0. /\ writev(s, put.iovecs, k)
        /\ accepted' = [accepted EXCEPT ![s] = Append(@, packetOf(put.iovecs))]
        /\ put' = IF k = total THEN IdlePut
                  ELSE [put EXCEPT !.pc = "buffer", !.bytes = k]
    BY <1>3, <1>7
  <2>3. wire' = [wire EXCEPT ![s] = wire[s] \o SubSeq(f, 1, k)]
    BY <2>0 DEF writev
  <2>4. accepted' = [accepted EXCEPT ![s] = Append(accepted[s], p)]
    BY <1>2, <2>0
  <2>5. wire'[s] = wire[s] \o SubSeq(f, 1, k) /\ \A t \in Sockets \ {s} : wire'[t] = wire[t]
    BY <1>2, <2>2, <2>3
  <2>6. /\ accepted'[s] = Append(accepted[s], p)
        /\ \A t \in Sockets \ {s} : accepted'[t] = accepted[t]
    BY <1>2, <2>2, <2>4
  <2>7. AcceptedBytes(s)' = AcceptedBytes(s) \o f
    <3> DEFINE a == accepted[s]
    <3>1. a \in Seq(Packets)
      BY <1>2, <2>2
    <3> HIDE DEF a
    <3>2. FlattenSeq([i \in DOMAIN Append(a, p) |-> Bytes(Append(a, p)[i])])
            = FlattenSeq([i \in DOMAIN a |-> Bytes(a[i])]) \o Bytes(p)
      BY <3>1, StreamAppend
    <3>3. AcceptedBytes(s)' = FlattenSeq([i \in DOMAIN Append(a, p) |-> Bytes(Append(a, p)[i])])
      BY <2>6 DEF AcceptedBytes, a
    <3>4. AcceptedBytes(s) = FlattenSeq([i \in DOMAIN a |-> Bytes(a[i])])
      BY DEF AcceptedBytes, a
    <3> QED
      BY <1>2, <3>2, <3>3, <3>4
  <2>8. \A t \in Sockets \ {s} : AcceptedBytes(t)' = AcceptedBytes(t)
    BY <2>6 DEF AcceptedBytes
  <2>9. After(f, 0) = f /\ After(f, total) = <<>>
    <3>1. After(f, 0) = f
      BY <1>2, SubSeqFull DEF After
    <3>2. After(f, total) = <<>>
      BY <1>2, SubSeqEmpty DEF After
    <3> QED
      BY <3>1, <3>2
  <2>10. wire'[s] \o After(f, k) = AcceptedBytes(s)'
    <3>1. 0 + k <= Len(f) /\ 0 + k = k /\ k \in Nat /\ 0 \in Nat
      BY <1>2, <1>4, <1>7
    <3> DEFINE w == wire[s]
    <3>2. (w \o SubSeq(After(f, 0), 1, k)) \o After(f, 0 + k) = w \o After(f, 0)
      <4> HIDE DEF w, f
      <4> QED
        BY <1>2, <2>1, <3>1, MoreBytes, ZenonT(40) DEF w
    <3>3. (w \o SubSeq(f, 1, k)) \o After(f, k) = w \o f
      BY <2>9, <3>1, <3>2
    <3> QED
      BY <2>1, <2>5, <2>7, <3>3
  <2>11. wire'[s] \in Seq(Byte)
    BY <1>2, PutWriteInv, BytesTypes DEF WInv, TypeInv, TypeOK, Byte
  <2>12. k = total => wire'[s] = AcceptedBytes(s)'
    BY <2>9, <2>10, <2>11, ConcatEmptySeq
  <2>13. /\ k = total => put'.pc = "idle"
         /\ k # total => put'.pc = "buffer" /\ put'.socket = s /\ put'.bytes = k
                         /\ put'.iovecs = put.iovecs
    <3>1. CASE k = total
      BY <2>0, <3>1 DEF IdlePut
    <3>2. CASE k # total
      BY <1>0, <2>0, <2>2, <3>2 DEF PutTypes
    <3> QED
      BY <3>1, <3>2
  <2>14. Stored' = Stored
    BY <1>5 DEF Stored
  <2>15. \A i \in DOMAIN writes : writes[i].socket # s
    BY <1>5 DEF Stored, SocketsOf
  <2>16. broken \subseteq Sockets
    BY DEF WInv, TypeInv, TypeOK
  <2> HIDE DEF f, total
  <2>20. (cont.pc = "remove" /\ cont.cur \notin broken =>
             \A i \in DOMAIN writes :
               writes[i].socket = cont.cur => writes[i].bytes = writes[i].total)'
    BY <1>5 DEF WireInv
  <2>21. (\A t \in Sockets \ broken : \A i \in DOMAIN writes : writes[i].socket = t =>
            wire[t] \o After(FlattenSeq(writes[i].iovecs), writes[i].bytes)
                = AcceptedBytes(t))'
    <3> SUFFICES ASSUME NEW t \in Sockets \ broken, NEW i \in DOMAIN writes,
                        writes[i].socket = t
                 PROVE  wire'[t] \o After(FlattenSeq(writes[i].iovecs), writes[i].bytes)
                            = AcceptedBytes(t)'
      BY <1>5
    <3>1. t \in Sockets \ {s}
      BY <2>15
    <3>2. wire[t] \o After(FlattenSeq(writes[i].iovecs), writes[i].bytes) = AcceptedBytes(t)
      BY DEF WireInv
    <3> QED
      BY <2>5, <2>8, <3>1, <3>2
  <2>22. (\A t \in Sockets \ broken : put.pc \in {"buffer", "buffering"} /\ put.socket = t =>
            wire[t] \o After(FlattenSeq(put.iovecs), put.bytes) = AcceptedBytes(t))'
    BY <2>10, <2>13 DEF f, AcceptedBytes
  <2>23. (\A t \in Sockets \ broken :
            t \notin Stored /\ ~(put.pc \in {"buffer", "buffering"} /\ put.socket = t) =>
                wire[t] = AcceptedBytes(t))'
    <3> SUFFICES ASSUME NEW t \in Sockets \ broken, t \notin Stored,
                        ~(put'.pc \in {"buffer", "buffering"} /\ put'.socket = t)
                 PROVE  wire'[t] = AcceptedBytes(t)'
      BY <1>5, <2>14
    <3>1. CASE t = s
      BY <2>12, <2>13, <3>1 DEF AcceptedBytes
    <3>2. CASE t # s
      <4>1. wire[t] = AcceptedBytes(t)
        BY <1>5 DEF WireInv
      <4> QED
        BY <2>5, <2>8, <3>2, <4>1
    <3> QED
      BY <3>1, <3>2
  <2>24. (\A t \in broken : IsPrefix(wire[t], AcceptedBytes(t)))'
    BY <1>4, <1>5, <1>7, <2>5, <2>8, <2>16 DEF WireInv
  <2> QED
    BY <2>20, <2>21, <2>22, <2>23, <2>24 DEF WireInv
<1> QED
  BY <1>3, <1>6, <1>7

(* What is left of a packet is stored.                                     *)
LEMMA PutBufferedWire ==
    ASSUME WInv, WireInv, PutBuffered
    PROVE  WireInv'
<1> DEFINE pw == [socket |-> put.socket, iovecs |-> put.iovecs,
                  total |-> BufLen(put.iovecs), bytes |-> put.bytes]
<1>1. pw \in PendingWrites /\ writes' = Append(writes, pw)
  BY BufferedFacts
<1>3. /\ pw \in PendingWrites /\ pw.socket = put.socket /\ put.socket \in Sockets
      /\ pw.iovecs = put.iovecs /\ pw.bytes = put.bytes
  BY <1>1 DEF WInv, TypeInv, WorkInv, PutBuffered
<1>4. /\ writes' = Append(writes, pw) /\ writes \in Seq(PendingWrites)
      /\ put.pc = "buffering" /\ put'.pc = "append"
      /\ UNCHANGED <<cont, wire, accepted, broken>>
  BY <1>1, Records DEF PutBuffered, WInv, TypeInv, TypeOK, PutTypes
<1>5. put.socket \notin Listed
  BY <1>4 DEF WInv, PutInv, Holding
<1> HIDE DEF pw
<1>6. /\ \A i \in DOMAIN writes' :
            writes'[i] = pw \/ (i \in DOMAIN writes /\ writes'[i] = writes[i])
      /\ SocketsOf(writes') = SocketsOf(writes) \cup {pw.socket}
  BY <1>3, <1>4, WritesAppend
<1>7. \A t : AcceptedBytes(t)' = AcceptedBytes(t)
  BY <1>4 DEF AcceptedBytes
<1>8. (cont.pc = "remove" /\ cont.cur \notin broken =>
         \A i \in DOMAIN writes :
           writes[i].socket = cont.cur => writes[i].bytes = writes[i].total)'
  <2>1. cont.pc = "remove" => cont.cur # pw.socket
    BY <1>3, <1>5 DEF WInv, ContInv
  <2> QED
    BY <1>4, <1>6, <2>1 DEF WireInv
<1>9. (\A t \in Sockets \ broken : \A i \in DOMAIN writes : writes[i].socket = t =>
         wire[t] \o After(FlattenSeq(writes[i].iovecs), writes[i].bytes) = AcceptedBytes(t))'
  <2> SUFFICES ASSUME NEW t \in Sockets \ broken, NEW i \in DOMAIN writes',
                      writes'[i].socket = t
               PROVE  wire[t] \o After(FlattenSeq(writes'[i].iovecs), writes'[i].bytes)
                        = AcceptedBytes(t)
    BY <1>4, <1>7
  <2>1. CASE writes'[i] = pw
    BY <1>3, <1>4, <2>1 DEF WireInv
  <2>2. CASE i \in DOMAIN writes /\ writes'[i] = writes[i]
    BY <2>2 DEF WireInv
  <2> QED
    BY <1>6, <2>1, <2>2
<1>10. (\A t \in Sockets \ broken :
          t \notin Stored /\ ~(put.pc \in {"buffer", "buffering"} /\ put.socket = t) =>
              wire[t] = AcceptedBytes(t))'
  BY <1>3, <1>4, <1>6, <1>7 DEF WireInv, Stored
<1>11. (\A t \in broken : IsPrefix(wire[t], AcceptedBytes(t)))'
  BY <1>4, <1>7 DEF WireInv
<1> QED
  BY <1>4, <1>8, <1>9, <1>10, <1>11 DEF WireInv

(* A packet is continued where it was left.                                *)
LEMMA ContinueWriteWire ==
    ASSUME WInv, WireInv, ContinueWrite
    PROVE  WireInv'
<1> DEFINE s == cont.cur
           i == writeOf(s)
           iov == remaining(writes[i])
           left == BufLen(iov)
           f == FlattenSeq(writes[i].iovecs)
           n == writes[i].bytes
<1>1. /\ s \in Sockets /\ s \in Listed /\ s \in Stored
      /\ i \in DOMAIN writes /\ writes[i].socket = s
      /\ FlattenSeq(iov) = After(f, n) /\ f \in Seq(Byte) /\ Len(f) = writes[i].total
      /\ left \in Nat /\ n + left = writes[i].total /\ n \in Nat
      /\ writes[i].total \in Nat
  BY ContinueFacts DEF PendingWrites
<1>2. PICK k \in writevResults(s, left) :
        \/ /\ k = -1
           /\ cont' = [cont EXCEPT !.pc = "remove", !.rc = -1]
           /\ UNCHANGED <<writes, wire, writable>>
        \/ /\ k >= 0
           /\ writev(s, iov, k)
           /\ writes' = [writes EXCEPT ![i].bytes = @ + k]
           /\ cont' = IF writes[i].bytes + k = writes[i].total
                      THEN [cont EXCEPT !.pc = "remove", !.rc = 1]
                      ELSE [cont EXCEPT !.cur = nextElement(s)]
  BY DEF ContinueWrite
<1>3. UNCHANGED <<put, broken, accepted>> /\ cont.pc = "scan"
  BY DEF ContinueWrite
<1>4. /\ k >= 0 => k \in Nat /\ k <= left /\ s \notin broken
      /\ k = -1 => s \in broken
  BY <1>1, <1>2 DEF writevResults
<1>5. \A t : AcceptedBytes(t)' = AcceptedBytes(t)
  BY <1>3 DEF AcceptedBytes
<1>6. /\ cont \in ContTypes
      /\ writes \in Seq(PendingWrites) /\ OneEach(writes)
      /\ wire \in [Sockets -> Seq(Packets \X Nat)] /\ broken \subseteq Sockets
  BY Records DEF WInv, TypeInv, TypeOK, ListInv
<1>7. CASE k = -1
  <2>1. /\ UNCHANGED <<writes, wire, accepted, broken, put>>
        /\ cont'.cur = s /\ s \in broken
    BY <1>2, <1>3, <1>4, <1>6, <1>7 DEF ContTypes
  <2>2. Stored' = Stored
    BY <2>1 DEF Stored
  <2> QED
    BY <1>5, <2>1, <2>2 DEF WireInv
<1>8. CASE k >= 0
  <2>0. /\ writev(s, iov, k)
        /\ writes' = [writes EXCEPT ![i].bytes = @ + k]
        /\ cont' = IF writes[i].bytes + k = writes[i].total
                   THEN [cont EXCEPT !.pc = "remove", !.rc = 1]
                   ELSE [cont EXCEPT !.cur = nextElement(s)]
    BY <1>2, <1>8
  <2>1. k \in Nat /\ k <= left /\ s \notin broken
    BY <1>4, <1>8
  <2> DEFINE b == n + k
  <2>2. b \in Nat /\ b <= writes[i].total
    BY <1>1, <2>1
  <2>3. /\ DOMAIN writes' = DOMAIN writes
        /\ SocketsOf(writes') = SocketsOf(writes)
        /\ \A j \in DOMAIN writes :
             /\ writes'[j].socket = writes[j].socket /\ writes'[j].iovecs = writes[j].iovecs
             /\ writes'[j].total = writes[j].total
             /\ writes'[j].bytes = IF j = i THEN b ELSE writes[j].bytes
    <3>1. Continued(writes', writes, i, b)
      BY <2>0 DEF Continued
    <3>2. i \in DOMAIN writes /\ writes \in Seq(PendingWrites)
      BY <1>1, <1>6
    <3> HIDE DEF b, i
    <3> QED
      BY <2>2, <3>1, <3>2, WritesUpdate
  <2>4. wire' = [wire EXCEPT ![s] = wire[s] \o SubSeq(After(f, n), 1, k)]
    BY <1>1, <2>0 DEF writev
  <2>5. /\ wire'[s] = wire[s] \o SubSeq(After(f, n), 1, k)
        /\ \A t \in Sockets \ {s} : wire'[t] = wire[t]
    BY <1>1, <1>6, <2>4
  <2>6. wire[s] \o After(f, n) = AcceptedBytes(s)
    BY <1>1, <2>1 DEF WireInv
  <2>7. wire'[s] \o After(f, b) = AcceptedBytes(s)
    <3> DEFINE w == wire[s]
    <3>1. w \in Seq(Byte) /\ f \in Seq(Byte) /\ n \in Nat /\ k \in Nat /\ n + k <= Len(f)
      BY <1>1, <2>1, <2>2, BytesTypes
    <3>2. (w \o SubSeq(After(f, n), 1, k)) \o After(f, n + k) = w \o After(f, n)
      <4> HIDE DEF w, f, n
      <4> QED
        BY <3>1, MoreBytes
    <3> QED
      BY <2>5, <2>6, <3>2
  <2>8. Stored' = Stored
    BY <2>3 DEF Stored
  <2>9. \A j \in DOMAIN writes : writes[j].socket = s => j = i
    BY <1>1, <1>6 DEF OneEach
  <2>10. cont'.pc = "remove" => cont'.cur = s /\ b = writes[i].total
    <3>1. CASE b = writes[i].total
      BY <1>6, <2>0, <3>1 DEF ContTypes
    <3>2. CASE b # writes[i].total
      BY <1>3, <1>6, <2>0, <3>2 DEF ContTypes
    <3> QED
      BY <3>1, <3>2
  <2>11. f = FlattenSeq(writes[i].iovecs)
    OBVIOUS
  <2> HIDE DEF b, i, iov, left, f, n
  <2>20. (cont.pc = "remove" /\ cont.cur \notin broken =>
            \A j \in DOMAIN writes :
              writes[j].socket = cont.cur => writes[j].bytes = writes[j].total)'
    BY <2>3, <2>9, <2>10
  <2>21. (\A t \in Sockets \ broken : \A j \in DOMAIN writes : writes[j].socket = t =>
            wire[t] \o After(FlattenSeq(writes[j].iovecs), writes[j].bytes)
                = AcceptedBytes(t))'
    <3> SUFFICES ASSUME NEW t \in Sockets \ broken, NEW j \in DOMAIN writes,
                        writes[j].socket = t
                 PROVE  wire'[t] \o After(FlattenSeq(writes[j].iovecs), writes'[j].bytes)
                            = AcceptedBytes(t)
      BY <1>3, <1>5, <2>3
    <3>1. CASE t = s
      <4>1. j = i /\ writes'[j].bytes = b
        BY <2>3, <2>9, <3>1
      <4> QED
        BY <2>7, <2>11, <3>1, <4>1
    <3>2. CASE t # s
      <4>1. j # i /\ writes'[j].bytes = writes[j].bytes /\ wire'[t] = wire[t]
        BY <1>1, <2>3, <2>5, <3>2
      <4>2. wire[t] \o After(FlattenSeq(writes[j].iovecs), writes[j].bytes)
                = AcceptedBytes(t)
        BY DEF WireInv
      <4> QED
        BY <4>1, <4>2
    <3> QED
      BY <3>1, <3>2
  <2>22. (\A t \in Sockets \ broken : put.pc \in {"buffer", "buffering"} /\ put.socket = t =>
            wire[t] \o After(FlattenSeq(put.iovecs), put.bytes) = AcceptedBytes(t))'
    <3>1. put.pc \in {"buffer", "buffering"} => put.socket # s
      BY <1>1 DEF WInv, PutInv, Holding
    <3> SUFFICES ASSUME NEW t \in Sockets \ broken, put.pc \in {"buffer", "buffering"}, put.socket = t
                 PROVE  wire'[t] \o After(FlattenSeq(put.iovecs), put.bytes)
                            = AcceptedBytes(t)
      BY <1>3, <1>5
    <3>2. wire[t] \o After(FlattenSeq(put.iovecs), put.bytes) = AcceptedBytes(t)
      BY DEF WireInv
    <3> QED
      BY <2>5, <3>1, <3>2
  <2>23. (\A t \in Sockets \ broken :
            t \notin Stored /\ ~(put.pc \in {"buffer", "buffering"} /\ put.socket = t) =>
                wire[t] = AcceptedBytes(t))'
    <3> SUFFICES ASSUME NEW t \in Sockets \ broken, t \notin Stored,
                        ~(put.pc \in {"buffer", "buffering"} /\ put.socket = t)
                 PROVE  wire'[t] = AcceptedBytes(t)
      BY <1>3, <1>5, <2>8
    <3>1. t # s /\ wire[t] = AcceptedBytes(t)
      BY <1>1 DEF WireInv
    <3> QED
      BY <2>5, <3>1
  <2>24. (\A t \in broken : IsPrefix(wire[t], AcceptedBytes(t)))'
    BY <1>3, <1>5, <1>6, <2>1, <2>5 DEF WireInv
  <2> QED
    BY <2>20, <2>21, <2>22, <2>23, <2>24 DEF WireInv
<1> QED
  BY <1>2, <1>7, <1>8

(* A write is dropped when nothing is left of it, or the connection broke. *)
LEMMA RemoveWriteWire ==
    ASSUME WInv, WireInv, RemoveWrite
    PROVE  WireInv'
<1> DEFINE s == cont.cur
           i == writeOf(s)
<1>1. /\ s \in Listed /\ s \in Stored /\ s \in Sockets /\ writes \in Seq(PendingWrites)
      /\ OneEach(writes) /\ cont.pc = "remove"
  BY StateFacts DEF RemoveWrite, WInv, TypeInv, TypeOK, WorkInv, ContInv, ListInv
<1>2. i \in DOMAIN writes /\ writes[i].socket = s
  BY <1>1, WriteOfStored
<1>3. /\ writes' = RemoveAt(writes, i) /\ cont'.pc = "load"
      /\ UNCHANGED <<put, wire, accepted, broken>>
  BY Records DEF RemoveWrite, WInv, TypeInv, ContTypes
<1> HIDE DEF i
<1>4. /\ SocketsOf(writes') = SocketsOf(writes) \ {s}
      /\ \A j \in DOMAIN writes' : \E h \in DOMAIN writes : writes'[j] = writes[h]
  BY <1>1, <1>2, <1>3, WritesRemove
<1>5. \A t : AcceptedBytes(t)' = AcceptedBytes(t)
  BY <1>3 DEF AcceptedBytes
<1>6. s \notin broken => wire[s] = AcceptedBytes(s)
  <2> SUFFICES ASSUME s \notin broken PROVE wire[s] = AcceptedBytes(s)
    OBVIOUS
  <2> DEFINE f == FlattenSeq(writes[i].iovecs)
             n == writes[i].bytes
  <2>1. n = writes[i].total /\ wire[s] \o After(f, n) = AcceptedBytes(s)
    BY <1>1, <1>2 DEF WireInv
  <2>2. n = Len(f) /\ f \in Seq(Byte) /\ n \in Nat /\ wire[s] \in Seq(Byte)
    BY <1>1, <1>2, <2>1, BytesTypes
  <2> HIDE DEF f, n
  <2>3. After(f, n) = <<>>
    BY <2>2, AfterFacts
  <2> QED
    BY <2>1, <2>2, <2>3, ConcatEmptySeq
<1>7. (\A t \in Sockets \ broken : \A j \in DOMAIN writes : writes[j].socket = t =>
         wire[t] \o After(FlattenSeq(writes[j].iovecs), writes[j].bytes) = AcceptedBytes(t))'
  <2> SUFFICES ASSUME NEW t \in Sockets \ broken, NEW j \in DOMAIN writes',
                      writes'[j].socket = t
               PROVE  wire[t] \o After(FlattenSeq(writes'[j].iovecs), writes'[j].bytes)
                        = AcceptedBytes(t)
    BY <1>3, <1>5
  <2>1. PICK h \in DOMAIN writes : writes'[j] = writes[h]
    BY <1>4
  <2>2. \A u \in Sockets \ broken : \A k \in DOMAIN writes : writes[k].socket = u =>
          wire[u] \o After(FlattenSeq(writes[k].iovecs), writes[k].bytes) = AcceptedBytes(u)
    BY DEF WireInv
  <2>3. writes[h].socket = t
    BY <2>1
  <2>4. wire[t] \o After(FlattenSeq(writes[h].iovecs), writes[h].bytes) = AcceptedBytes(t)
    BY <2>2, <2>3
  <2> QED
    BY <2>1, <2>4
<1>8. (\A t \in Sockets \ broken : put.pc \in {"buffer", "buffering"} /\ put.socket = t =>
         wire[t] \o After(FlattenSeq(put.iovecs), put.bytes) = AcceptedBytes(t))'
  BY <1>3, <1>5 DEF WireInv
<1>9. (\A t \in Sockets \ broken :
         t \notin Stored /\ ~(put.pc \in {"buffer", "buffering"} /\ put.socket = t) =>
             wire[t] = AcceptedBytes(t))'
  <2> SUFFICES ASSUME NEW t \in Sockets \ broken, t \notin Stored',
                      ~(put.pc \in {"buffer", "buffering"} /\ put.socket = t)
               PROVE  wire[t] = AcceptedBytes(t)
    BY <1>3, <1>5
  <2>1. t = s \/ t \notin Stored
    BY <1>4 DEF Stored
  <2> QED
    BY <1>6, <2>1 DEF WireInv
<1>10. (\A t \in broken : IsPrefix(wire[t], AcceptedBytes(t)))'
  BY <1>3, <1>5 DEF WireInv
<1> QED
  BY <1>3, <1>7, <1>8, <1>9, <1>10 DEF WireInv

(* A connection breaks: the peer may never see the rest.                   *)
LEMMA BreakWire ==
    ASSUME WInv, WireInv, NEW s \in Sockets, Break(s)
    PROVE  WireInv'
<1>1. /\ UNCHANGED <<writes, put, cont, wire, accepted>> /\ broken' = broken \cup {s}
      /\ s \notin broken
  BY DEF Break
<1>2. /\ \A t : AcceptedBytes(t)' = AcceptedBytes(t)
      /\ Stored' = Stored
  BY <1>1 DEF AcceptedBytes, Stored
<1>3. IsPrefix(wire[s], AcceptedBytes(s))
  BY <1>1, UnbrokenPrefix
<1> QED
  BY <1>1, <1>2, <1>3 DEF WireInv

(* Every step preserves it.                                                *)
LEMMA StepWire == WInv /\ WireInv /\ [Next]_vars => WireInv'
<1> SUFFICES ASSUME WInv, WireInv, [Next]_vars PROVE WireInv'
  OBVIOUS
<1>1. CASE \E s \in Sockets, p \in Unused : PutCheck(s, p)
  <2>1. UNCHANGED <<writes, wire, accepted, broken, cont>> /\ put.pc = "idle"
    BY <1>1 DEF PutCheck
  <2>2. put'.pc \in {"idle", "find"}
    BY <1>1, Records DEF PutCheck, WInv, TypeInv, PutTypes
  <2> QED
    BY <2>1, <2>2, QuietWire
<1>2. CASE PutWalk \/ PutFound \/ PutAppend \/ PutAppended \/ PutLoad \/ PutStore
  <2>1. /\ UNCHANGED <<writes, wire, accepted, broken, cont>>
        /\ put.pc \notin {"buffer", "buffering"}
    BY <1>2 DEF PutWalk, PutFound, PutAppend, PutAppended, PutLoad, PutStore
  <2>2. put'.pc \notin {"buffer", "buffering"}
    <3>1. CASE PutFound \/ PutStore
      BY <3>1 DEF PutFound, PutStore, IdlePut
    <3>2. CASE PutWalk
      BY <3>2, Records DEF PutWalk, WInv, TypeInv, PutTypes
    <3>3. CASE PutAppend \/ PutAppended \/ PutLoad
      BY <3>3, Records DEF PutAppend, PutAppended, PutLoad, WInv, TypeInv, PutTypes
    <3> QED
      BY <1>2, <3>1, <3>2, <3>3
  <2> QED
    BY <2>1, <2>2, QuietWire
<1>3. CASE PutBuffer
  <2>1. /\ UNCHANGED <<writes, wire, accepted, broken, cont>>
        /\ put.pc = "buffer" /\ put'.pc = "buffering" /\ put'.socket = put.socket
        /\ put'.iovecs = put.iovecs /\ put'.bytes = put.bytes
    BY <1>3, Records DEF PutBuffer, WInv, TypeInv, PutTypes
  <2> QED
    BY <2>1, QuietWire
<1>5. CASE \/ Select \/ SelectReturns \/ ScanNext \/ ClearLoad \/ ClearStore
           \/ UnlinkFind \/ UnlinkTake \/ UnlinkRestore \/ Advance \/ ScanDone
  <2>1. UNCHANGED <<writes, wire, accepted, broken, put>>
    BY <1>5 DEF Select, SelectReturns, ScanNext, ClearLoad, ClearStore, UnlinkFind,
                UnlinkTake, UnlinkRestore, Advance, ScanDone
  <2>2. cont'.pc # "remove"
    <3>1. CASE ScanDone
      BY <3>1 DEF ScanDone, IdleCont
    <3>2. CASE ScanNext
      BY <3>2, Records DEF ScanNext, WInv, TypeInv, ContTypes
    <3>3. CASE \/ Select \/ SelectReturns \/ ClearLoad \/ ClearStore
      BY <3>3, Records DEF Select, SelectReturns, ClearLoad, ClearStore, WInv, TypeInv,
                           ContTypes
    <3>4. CASE UnlinkFind \/ UnlinkTake \/ UnlinkRestore \/ Advance
      BY <3>4, Records DEF UnlinkFind, UnlinkTake, UnlinkRestore, Advance, WInv, TypeInv,
                           ContTypes
    <3> QED
      BY <1>5, <3>1, <3>2, <3>3, <3>4
  <2> QED
    BY <2>1, <2>2, QuietWire
<1>6. CASE (\E s \in Sockets : Drain(s)) \/ UNCHANGED vars
  <2>1. UNCHANGED <<writes, wire, accepted, broken, put, cont>>
    BY <1>6 DEF Drain, vars
  <2> QED
    BY <2>1, QuietWire
<1> QED
  BY <1>1, <1>2, <1>3, <1>5, <1>6, PutWriteWire, PutBufferedWire, ContinueWriteWire,
     RemoveWriteWire, BreakWire DEF Next, putdatas, continueWrites

(* At first nothing is accepted and nothing written.                       *)
LEMMA InitWire == Init => WireInv
<1> SUFFICES ASSUME Init PROVE WireInv
  OBVIOUS
<1>1. \A s \in Sockets : wire[s] = <<>> /\ AcceptedBytes(s) = <<>>
  <2> SUFFICES ASSUME NEW s \in Sockets PROVE wire[s] = <<>> /\ AcceptedBytes(s) = <<>>
    OBVIOUS
  <2>1. accepted[s] = <<>> /\ wire[s] = <<>>
    BY DEF Init
  <2>2. [i \in DOMAIN accepted[s] |-> Bytes(accepted[s][i])] = <<>>
    BY <2>1
  <2> QED
    BY <2>1, <2>2, FlattenEmpty DEF AcceptedBytes
<1>2. DOMAIN writes = {} /\ broken = {} /\ put.pc = "idle" /\ cont.pc = "idle"
  BY DEF Init, IdlePut, IdleCont
<1> QED
  BY <1>1, <1>2 DEF WireInv

(* Until two list operations harm each other, the bytes on a connection    *)
(* are those of the packets putdatas accepted, in order: partial writes    *)
(* never interleave, repeat or drop bytes (Socket.c:608-662, 961-1012).    *)
THEOREM BytesInOrder == Spec => []WireIsAccepted
<1>1. (~torn => WInv) /\ (~torn => WireInv) => WireIsAccepted
  <2> SUFFICES ASSUME WInv, WireInv, NEW s \in Sockets
               PROVE  IsPrefix(wire[s], AcceptedBytes(s))
    BY DEF WireIsAccepted, AcceptedBytes
  <2>1. CASE s \in broken
    BY <2>1 DEF WireInv
  <2>2. CASE s \notin broken
    BY <2>2, UnbrokenPrefix
  <2> QED
    BY <2>1, <2>2
<1>2. (~torn => WInv) /\ (~torn => WireInv) /\ [Next]_vars => (~torn => WireInv)'
  BY StepWire, TornStays
<1> QED
  BY <1>1, <1>2, InitWire, PendingListInvariant, PTL DEF Spec

-----------------------------------------------------------------------------
(* The refinement of PacketStream                                          *)

(* The byte that ends a packet.                                            *)
LastByte(p) == <<p, Total(Lens[p])>>

(* What is in either part is in the whole.                                 *)
LEMMA ConcatElements ==
    ASSUME NEW S, NEW a \in Seq(S), NEW b \in Seq(S)
    PROVE  ToSet(a) \subseteq ToSet(a \o b) /\ ToSet(b) \subseteq ToSet(a \o b)
<1>1. /\ a \o b \in Seq(S) /\ Len(a \o b) = Len(a) + Len(b)
      /\ Len(a) \in Nat /\ Len(b) \in Nat
      /\ \A i \in 1..Len(a) : (a \o b)[i] = a[i]
      /\ \A i \in 1..Len(b) : (a \o b)[Len(a) + i] = b[i]
  BY ConcatAt
<1>2. /\ DOMAIN a = 1..Len(a) /\ DOMAIN b = 1..Len(b)
      /\ DOMAIN (a \o b) = 1..(Len(a) + Len(b))
  BY <1>1, LenProperties
<1>3. \A i \in 1..Len(a) : i \in DOMAIN (a \o b)
  BY <1>1, <1>2
<1>4. \A i \in 1..Len(b) : Len(a) + i \in DOMAIN (a \o b)
  BY <1>1, <1>2
<1>5. ToSet(a) \subseteq ToSet(a \o b)
  BY <1>1, <1>2, <1>3 DEF ToSet
<1>6. ToSet(b) \subseteq ToSet(a \o b)
  BY <1>1, <1>2, <1>4 DEF ToSet
<1> QED
  BY <1>5, <1>6

(* A packet ends with its last byte.                                       *)
LEMMA EndsWithLast ==
    ASSUME NEW p \in Packets PROVE LastByte(p) \in ToSet(Bytes(p))
<1> DEFINE t == Total(Lens[p])
<1>1. t \in Nat
  BY TotalType, LensAssumption
<1>2. Bytes(p) = [i \in 1..t |-> <<p, i>>]
  BY DEF Bytes
<1>3. Len(Bytes(p)) # 0
  BY PacketOfIovecs
<1> HIDE DEF t
<1>4. t \in 1..t
  BY <1>1, <1>2, <1>3
<1>5. DOMAIN Bytes(p) = 1..t /\ Bytes(p)[t] = <<p, t>>
  BY <1>2, <1>4
<1> QED
  BY <1>4, <1>5 DEF ToSet, LastByte, t

(* The bytes of packets hold the last byte of each of them.                *)
LEMMA LastBytes ==
    ASSUME NEW a \in Seq(Packets)
    PROVE  \A i \in 1..Len(a) :
             LastByte(a[i]) \in ToSet(FlattenSeq([j \in DOMAIN a |-> Bytes(a[j])]))
<1> DEFINE F(b) == FlattenSeq([j \in DOMAIN b |-> Bytes(b[j])])
           N == {n \in Nat : \A b \in Seq(Packets) : Len(b) = n =>
                    \A i \in 1..n : LastByte(b[i]) \in ToSet(F(b))}
<1>1. 0 \in N
  OBVIOUS
<1>2. ASSUME NEW n \in Nat, n \in N PROVE n + 1 \in N
  <2> SUFFICES ASSUME NEW b \in Seq(Packets), Len(b) = n + 1, NEW i \in 1..(n + 1)
               PROVE  LastByte(b[i]) \in ToSet(F(b))
    OBVIOUS
  <2> DEFINE c == SubSeq(b, 1, n)
             p == b[n + 1]
  <2>1. c \in Seq(Packets) /\ p \in Packets /\ SubSeq(b, 1, n + 1) = Append(c, p)
    BY PrefixAppend
  <2>2. b = Append(c, p)
    BY <2>1, SubSeqFull
  <2>3. Len(c) = n /\ \A j \in 1..n : c[j] = b[j]
    OBVIOUS
  <2> HIDE DEF c, p
  <2>4. /\ [j \in DOMAIN c |-> Bytes(c[j])] \in Seq(Seq(Byte))
        /\ F(Append(c, p)) = F(c) \o Bytes(p)
    BY <2>1, StreamAppend
  <2>5. F(b) = F(c) \o Bytes(p)
    BY <2>2, <2>4
  <2>6. F(c) \in Seq(Byte) /\ Bytes(p) \in Seq(Byte)
    BY <2>1, <2>4, FlattenType, PacketOfIovecs
  <2>7. i \in 1..n => LastByte(c[i]) \in ToSet(F(c))
    BY <1>2, <2>1, <2>3
  <2> HIDE DEF F
  <2>8. ToSet(F(c)) \subseteq ToSet(F(b)) /\ ToSet(Bytes(p)) \subseteq ToSet(F(b))
    BY <2>5, <2>6, ConcatElements
  <2>9. CASE i \in 1..n
    BY <2>3, <2>7, <2>8, <2>9
  <2>10. CASE i = n + 1
    BY <2>1, <2>8, <2>10, EndsWithLast DEF p
  <2> QED
    BY <2>9, <2>10
<1>3. Nat \subseteq N
  <2> HIDE DEF N
  <2> QED
    BY <1>1, <1>2, SetInduction
<1>4. Len(a) \in N
  <2> HIDE DEF N
  <2> QED
    BY <1>3, LenProperties
<1> QED
  BY <1>4

(* How many of the packets a are completely among the bytes w.             *)
Ended(a, w) == Cardinality({i \in DOMAIN a : LastByte(a[i]) \in ToSet(w)})

(* All packets of a but the last are completely among the bytes w.         *)
EndedButLast(a, w) == \A i \in 1..(Len(a) - 1) : LastByte(a[i]) \in ToSet(w)

(* On every connection at most the last packet accepted is unfinished.     *)
AllButLast == \A s \in Sockets : EndedButLast(accepted[s], wire[s])

(* Then the number of packets depends on the last one only.                *)
LEMMA CountEnded ==
    ASSUME NEW a \in Seq(Packets), NEW w, EndedButLast(a, w)
    PROVE  /\ Len(a) \in Nat
           /\ Len(a) # 0 /\ LastByte(a[Len(a)]) \notin ToSet(w)
                => Ended(a, w) = Len(a) - 1
           /\ ~(Len(a) # 0 /\ LastByte(a[Len(a)]) \notin ToSet(w))
                => Ended(a, w) = Len(a)
<1> DEFINE n == Len(a)
           E == {i \in DOMAIN a : LastByte(a[i]) \in ToSet(w)}
<1>1. n \in Nat /\ DOMAIN a = 1..n
  BY LenProperties
<1>2. \A i \in 1..(n - 1) : i \in E
  BY <1>1 DEF EndedButLast
<1> HIDE DEF n
<1>3. CASE n # 0 /\ LastByte(a[n]) \notin ToSet(w)
  <2>1. E = 1..(n - 1)
    <3>1. \A i \in E : i \in 1..(n - 1)
      BY <1>1, <1>3
    <3>2. \A i \in 1..(n - 1) : i \in E
      BY <1>2
    <3> QED
      BY <3>1, <3>2
  <2>2. Cardinality(1..(n - 1)) = n - 1
    <3>1. 1 \in Int /\ n - 1 \in Int
      BY <1>1
    <3>2. Cardinality(1..(n - 1)) = IF 1 > n - 1 THEN 0 ELSE (n - 1) - 1 + 1
      BY <3>1, FS_Interval
    <3> QED
      BY <1>1, <1>3, <3>2
  <2> QED
    BY <1>1, <1>3, <2>1, <2>2 DEF Ended, n
<1>4. CASE ~(n # 0 /\ LastByte(a[n]) \notin ToSet(w))
  <2>1. E = 1..n
    <3>1. E \subseteq 1..n
      BY <1>1
    <3>2. ASSUME NEW i \in 1..n PROVE i \in E
      <4>1. CASE i = n
        BY <1>1, <1>4, <4>1
      <4>2. CASE i # n
        BY <1>1, <1>2, <4>2
      <4> QED
        BY <4>1, <4>2
    <3> QED
      BY <3>1, <3>2
  <2>2. Cardinality(1..n) = n
    <3>1. Cardinality(1..n) = IF 1 > n THEN 0 ELSE n - 1 + 1
      BY <1>1, FS_Interval
    <3> QED
      BY <1>1, <3>1
  <2> QED
    BY <1>1, <1>4, <2>1, <2>2 DEF Ended, n
<1> QED
  BY <1>3, <1>4 DEF n

(* The mapping counts them.                                                *)
LEMMA FinishedIs ==
    ASSUME NEW s
    PROVE  /\ Finished(s) = Ended(accepted[s], wire[s])
           /\ Finished(s)' = Ended(accepted'[s], wire'[s])
BY DEF Finished, Ended, LastByte

(* A step that writes nothing is no step of the streams.                   *)
LEMMA QuietStream ==
    ASSUME AllButLast, UNCHANGED <<wire, accepted>>
    PROVE  AllButLast' /\ UNCHANGED Stream!streamVars
<1>1. AllButLast'
  BY DEF AllButLast
<1>2. \A s \in Sockets : Finished(s)' = Finished(s)
  BY FinishedIs
<1> QED
  BY <1>1, <1>2 DEF Stream!streamVars

(* putdatas writes a packet when all before it are finished.               *)
LEMMA PutWriteStream ==
    ASSUME WInv, WireInv, AllButLast, PutWrite
    PROVE  AllButLast' /\ [Stream!Next]_(Stream!streamVars)
<1> DEFINE total == BufLen(put.iovecs)
           f == FlattenSeq(put.iovecs)
<1>0. PICK s : s = put.socket
  OBVIOUS
<1>1. PICK p \in Packets : put.iovecs = Iovecs(p)
  BY DEF WInv, TypeInv, WorkInv, PutWrite
<1>2. /\ s \in Sockets /\ total \in Nat /\ packetOf(put.iovecs) = p
      /\ f \in Seq(Byte) /\ Len(f) = total
  BY <1>0, <1>1, PacketOfIovecs, IovecsFlat DEF WInv, TypeInv, WorkInv, PutWrite, BufLen
<1>3. PICK k \in writevResults(s, total) :
        \/ /\ k = -1
           /\ UNCHANGED <<wire, accepted>>
        \/ /\ k >= 0
           /\ writev(s, put.iovecs, k)
           /\ accepted' = [accepted EXCEPT ![s] = Append(@, packetOf(put.iovecs))]
  BY <1>0 DEF PutWrite
<1>4. k >= 0 => k \in Nat /\ k <= total /\ s \notin broken
  BY <1>2, <1>3 DEF writevResults
<1>5. put.pc = "write" /\ s \notin Stored
  BY <1>0 DEF PutWrite, WInv, PutInv
<1>6. CASE k = -1
  BY <1>3, <1>6, QuietStream
<1>7. CASE k >= 0
  <2> DEFINE a == accepted[s]
             w == wire[s]
             g == SubSeq(f, 1, k)
  <2>1. w = AcceptedBytes(s) /\ w \in Seq(Byte) /\ a \in Seq(Packets)
    BY <1>2, <1>4, <1>5, <1>7, BytesTypes DEF WireInv, WInv, TypeInv, TypeOK
  <2>2. wire \in [Sockets -> Seq(Packets \X Nat)] /\ accepted \in [Sockets -> Seq(Packets)]
    BY DEF WInv, TypeInv, TypeOK
  <2>3. /\ wire' = [wire EXCEPT ![s] = w \o g]
        /\ accepted' = [accepted EXCEPT ![s] = Append(a, p)]
    <3>1. /\ writev(s, put.iovecs, k)
          /\ accepted' = [accepted EXCEPT ![s] = Append(@, packetOf(put.iovecs))]
      BY <1>3, <1>7
    <3>2. wire' = [wire EXCEPT ![s] = w \o g]
      BY <3>1 DEF writev
    <3>3. accepted' = [accepted EXCEPT ![s] = Append(a, p)]
      BY <1>2, <3>1
    <3> QED
      BY <3>2, <3>3
  <2>4. /\ wire'[s] = w \o g /\ accepted'[s] = Append(a, p)
        /\ \A t \in Sockets \ {s} : wire'[t] = wire[t] /\ accepted'[t] = accepted[t]
    BY <1>2, <2>2, <2>3
  <2>5. g \in Seq(Byte)
    <3>1. \A i \in 1..k : f[i] \in Byte
      BY <1>2, <1>4, <1>7, ElementOfSeq
    <3> QED
      BY <1>4, <1>7, <3>1, SubSeqProperties
  <2>6. \A i \in 1..Len(a) : LastByte(a[i]) \in ToSet(w)
    BY <2>1, LastBytes DEF AcceptedBytes
  <2> HIDE DEF f, g, a, w
  <2>7. ToSet(w) \subseteq ToSet(w \o g)
    BY <2>1, <2>5, ConcatElements
  <2>8. /\ Append(a, p) \in Seq(Packets) /\ Len(Append(a, p)) = Len(a) + 1
        /\ Len(a) \in Nat /\ \A i \in 1..Len(a) : Append(a, p)[i] = a[i]
    BY <2>1, AppendProperties, LenProperties
  <2>9. EndedButLast(Append(a, p), w \o g)
    BY <2>6, <2>7, <2>8 DEF EndedButLast
  <2>10. EndedButLast(a, w)
    BY <2>6, <2>8 DEF EndedButLast
  <2>11. Ended(a, w) = Len(a)
    <3>1. Len(a) # 0 => LastByte(a[Len(a)]) \in ToSet(w)
      BY <2>6, <2>8
    <3> QED
      BY <2>1, <2>10, <3>1, CountEnded
  <2>12. Ended(Append(a, p), w \o g) \in {Len(a), Len(a) + 1}
    <3> DEFINE b == Append(a, p)
    <3>1. b \in Seq(Packets) /\ EndedButLast(b, w \o g) /\ Len(b) = Len(a) + 1
      BY <2>8, <2>9
    <3> HIDE DEF b
    <3>2. Ended(b, w \o g) \in {Len(b) - 1, Len(b)}
      BY <3>1, CountEnded
    <3> QED
      BY <2>8, <3>1, <3>2 DEF b
  <2>13. AllButLast'
    <3> SUFFICES ASSUME NEW t \in Sockets PROVE EndedButLast(accepted'[t], wire'[t])
      BY DEF AllButLast
    <3>1. CASE t = s
      BY <2>4, <2>9, <3>1
    <3>2. CASE t # s
      BY <2>4, <3>2 DEF AllButLast
    <3> QED
      BY <3>1, <3>2
  <2>14. /\ Finished(s) = Len(a) /\ Finished(s)' \in {Finished(s), Finished(s) + 1}
         /\ \A t \in Sockets \ {s} : Finished(t)' = Finished(t)
    BY <2>4, <2>11, <2>12, FinishedIs DEF a, w
  <2> DEFINE fin == [t \in Sockets |-> Finished(t)]
  <2>15. /\ fin' = [t \in Sockets |-> Finished(t)']
         /\ fin' = fin \/ fin' = [fin EXCEPT ![s] = @ + 1]
    <3>1. fin' = [t \in Sockets |-> Finished(t)']
      OBVIOUS
    <3>2. CASE Finished(s)' = Finished(s)
      <4>1. \A t \in Sockets : Finished(t)' = Finished(t)
        BY <2>14, <3>2
      <4> QED
        BY <3>1, <4>1
    <3>3. CASE Finished(s)' = Finished(s) + 1
      <4>1. \A t \in Sockets : Finished(t)' = IF t = s THEN Finished(s) + 1 ELSE Finished(t)
        BY <2>14, <3>3
      <4> QED
        BY <1>2, <3>1, <4>1
    <3> QED
      BY <2>14, <3>1, <3>2, <3>3
  <2>16. fin[s] = Len(accepted[s])
    BY <1>2, <2>14 DEF a
  <2>17. Stream!Accept(s, p)
    BY <2>3, <2>15, <2>16 DEF Stream!Accept, a
  <2> QED
    BY <1>2, <2>13, <2>17 DEF Stream!Next
<1> QED
  BY <1>3, <1>6, <1>7

(* continueWrite goes on with the packet that is not finished.             *)
LEMMA ContinueWriteStream ==
    ASSUME WInv, AllButLast, ContinueWrite
    PROVE  AllButLast' /\ [Stream!Next]_(Stream!streamVars)
<1> DEFINE s == cont.cur
           iov == remaining(writes[writeOf(s)])
           f == FlattenSeq(iov)
<1>1. /\ s \in Sockets /\ iov \in Seq(Seq(Byte)) /\ BufLen(iov) \in Nat
  BY ContinueFacts
<1>2. PICK k \in writevResults(s, BufLen(iov)) :
        \/ k = -1 /\ UNCHANGED wire
        \/ k >= 0 /\ writev(s, iov, k)
  BY DEF ContinueWrite
<1>3. UNCHANGED accepted
  BY DEF ContinueWrite
<1>4. CASE k = -1
  BY <1>2, <1>3, <1>4, QuietStream
<1>5. CASE k >= 0
  <2> DEFINE a == accepted[s]
             w == wire[s]
             g == SubSeq(f, 1, k)
  <2>1. /\ w \in Seq(Byte) /\ a \in Seq(Packets) /\ wire \in [Sockets -> Seq(Byte)]
        /\ f \in Seq(Byte) /\ Len(f) = BufLen(iov)
    BY <1>1, BytesTypes, FlattenType DEF WInv, TypeInv, TypeOK, Byte, BufLen
  <2>2. k \in Nat /\ k <= BufLen(iov)
    BY <1>1, <1>2, <1>5 DEF writevResults
  <2>3. g \in Seq(Byte)
    <3>1. \A i \in 1..k : f[i] \in Byte
      BY <2>1, <2>2, ElementOfSeq
    <3> QED
      BY <2>2, <3>1, SubSeqProperties
  <2>4. wire' = [wire EXCEPT ![s] = w \o g]
    <3>1. writev(s, iov, k)
      BY <1>2, <1>5
    <3> QED
      BY <3>1 DEF writev
  <2>5. wire'[s] = w \o g /\ \A t \in Sockets \ {s} : wire'[t] = wire[t]
    BY <1>1, <2>1, <2>4
  <2> HIDE DEF iov, f, g
  <2>6. ToSet(w) \subseteq ToSet(w \o g)
    BY <2>1, <2>3, ConcatElements
  <2>7. EndedButLast(a, w) /\ EndedButLast(a, w \o g)
    BY <1>1, <2>6 DEF AllButLast, EndedButLast
  <2>8. AllButLast'
    <3> SUFFICES ASSUME NEW t \in Sockets PROVE EndedButLast(accepted[t], wire'[t])
      BY <1>3 DEF AllButLast
    <3>1. CASE t = s
      BY <2>5, <2>7, <3>1
    <3>2. CASE t # s
      BY <2>5, <3>2 DEF AllButLast
    <3> QED
      BY <3>1, <3>2
  <2>9. \/ Ended(a, w \o g) = Ended(a, w)
        \/ Ended(a, w) < Len(a) /\ Ended(a, w \o g) = Ended(a, w) + 1
    <3> DEFINE v == w \o g
    <3> HIDE DEF a, w, v
    <3>1. /\ a \in Seq(Packets) /\ EndedButLast(a, w) /\ EndedButLast(a, v)
          /\ ToSet(w) \subseteq ToSet(v)
      BY <2>1, <2>6, <2>7 DEF v
    <3>2. Len(a) \in Nat
      BY <3>1, CountEnded
    <3>3. CASE Len(a) # 0 /\ LastByte(a[Len(a)]) \notin ToSet(w)
      <4>1. Ended(a, w) = Len(a) - 1
        BY <3>1, <3>3, CountEnded
      <4>2. Ended(a, v) \in {Len(a) - 1, Len(a)}
        BY <3>1, CountEnded
      <4> QED
        BY <3>2, <4>1, <4>2 DEF v
    <3>4. CASE ~(Len(a) # 0 /\ LastByte(a[Len(a)]) \notin ToSet(w))
      <4>1. Ended(a, w) = Len(a)
        BY <3>1, <3>4, CountEnded
      <4>2. Ended(a, v) = Len(a)
        BY <3>1, <3>4, CountEnded
      <4> QED
        BY <4>1, <4>2 DEF v
    <3> QED
      BY <3>3, <3>4
  <2> DEFINE fin == [t \in Sockets |-> Finished(t)]
  <2>10. fin' = [t \in Sockets |-> Finished(t)']
    OBVIOUS
  <2>11. /\ Finished(s) = Ended(a, w) /\ Ended(accepted'[s], wire'[s]) = Ended(a, w \o g)
         /\ \A t \in Sockets \ {s} : Finished(t)' = Finished(t)
    BY <1>3, <2>5, FinishedIs
  <2>12. CASE Ended(a, w \o g) = Ended(a, w)
    <3>1. \A t \in Sockets : Finished(t)' = Finished(t)
      <4> SUFFICES ASSUME NEW t \in Sockets PROVE Finished(t)' = Finished(t)
        OBVIOUS
      <4>1. CASE t = s
        BY <1>3, <2>5, <2>12, <4>1, FinishedIs
      <4> QED
        BY <2>11, <4>1
    <3>2. UNCHANGED Stream!streamVars
      BY <1>3, <2>10, <3>1 DEF Stream!streamVars
    <3> QED
      BY <2>8, <3>2
  <2>13. CASE Ended(a, w) < Len(a) /\ Ended(a, w \o g) = Ended(a, w) + 1
    <3>1. \A t \in Sockets :
            Finished(t)' = IF t = s THEN Finished(s) + 1 ELSE Finished(t)
      <4> SUFFICES ASSUME NEW t \in Sockets
                   PROVE  Finished(t)' = IF t = s THEN Finished(s) + 1 ELSE Finished(t)
        OBVIOUS
      <4>1. CASE t = s
        BY <1>3, <2>5, <2>11, <2>13, <4>1, FinishedIs
      <4> QED
        BY <2>11, <4>1
    <3>2. fin' = [fin EXCEPT ![s] = @ + 1]
      BY <1>1, <2>10, <3>1
    <3>3. fin[s] < Len(accepted[s])
      BY <1>1, <2>11, <2>13
    <3>4. Stream!Finish(s)
      BY <1>3, <3>2, <3>3 DEF Stream!Finish
    <3> QED
      BY <1>1, <2>8, <3>4 DEF Stream!Next
  <2> QED
    BY <2>9, <2>12, <2>13
<1> QED
  BY <1>2, <1>4, <1>5

(* Every step is a step of the streams, or none.                           *)
LEMMA StepStream ==
    WInv /\ WireInv /\ AllButLast /\ [Next]_vars
        => AllButLast' /\ [Stream!Next]_(Stream!streamVars)
<1> SUFFICES ASSUME WInv, WireInv, AllButLast, [Next]_vars
             PROVE  AllButLast' /\ [Stream!Next]_(Stream!streamVars)
  OBVIOUS
<1>1. CASE \/ \E s \in Sockets, p \in Unused : PutCheck(s, p)
           \/ PutWalk \/ PutFound \/ PutBuffer \/ PutBuffered \/ PutAppend
           \/ PutAppended \/ PutLoad \/ PutStore
  <2>1. UNCHANGED <<wire, accepted>>
    BY <1>1 DEF PutCheck, PutWalk, PutFound, PutBuffer, PutBuffered, PutAppend,
                PutAppended, PutLoad, PutStore
  <2> QED
    BY <2>1, QuietStream
<1>2. CASE \/ Select \/ SelectReturns \/ ScanNext \/ RemoveWrite \/ ClearLoad
           \/ ClearStore \/ UnlinkFind \/ UnlinkTake \/ UnlinkRestore \/ Advance \/ ScanDone
  <2>1. UNCHANGED <<wire, accepted>>
    BY <1>2 DEF Select, SelectReturns, ScanNext, RemoveWrite, ClearLoad, ClearStore,
                UnlinkFind, UnlinkTake, UnlinkRestore, Advance, ScanDone
  <2> QED
    BY <2>1, QuietStream
<1>3. CASE (\E s \in Sockets : Drain(s) \/ Break(s)) \/ UNCHANGED vars
  <2>1. UNCHANGED <<wire, accepted>>
    BY <1>3 DEF Drain, Break, vars
  <2> QED
    BY <2>1, QuietStream
<1> QED
  BY <1>1, <1>2, <1>3, PutWriteStream, ContinueWriteStream
     DEF Next, putdatas, continueWrites

(* Until two list operations harm each other, the socket layer implements  *)
(* the packet streams its callers rely on: a packet is accepted only when  *)
(* those before it are completely on the wire, and they are finished one   *)
(* by one, in order (Socket.c:608-662, 961-1102).                          *)
THEOREM RefinesPacketStream == Spec => ImplementsPacketStream
<1>1. Init => AllButLast /\ Stream!Init
  <2> SUFFICES ASSUME Init PROVE AllButLast /\ Stream!Init
    OBVIOUS
  <2>1. accepted = [s \in Sockets |-> <<>>] /\ <<>> \in Seq(Packets)
    BY DEF Init
  <2>2. \A s \in Sockets : accepted[s] = <<>> /\ Len(accepted[s]) = 0
    BY <2>1
  <2>3. AllButLast
    BY <2>2 DEF AllButLast, EndedButLast
  <2>4. \A s \in Sockets : Finished(s) = 0
    <3> SUFFICES ASSUME NEW s \in Sockets PROVE Finished(s) = 0
      OBVIOUS
    <3>1. EndedButLast(accepted[s], wire[s]) /\ accepted[s] \in Seq(Packets)
      BY <2>1, <2>2, <2>3 DEF AllButLast
    <3>2. Ended(accepted[s], wire[s]) = Len(accepted[s])
      BY <2>2, <3>1, CountEnded
    <3> QED
      BY <2>2, <3>2, FinishedIs
  <2> QED
    BY <2>1, <2>3, <2>4 DEF Stream!Init
<1> DEFINE Untorn == ~torn => WInv /\ WireInv /\ AllButLast
<1>2. Init => Untorn
  BY <1>1, InitInv, InitWire
<1>3. Untorn /\ [Next]_vars => Untorn'
  BY StepInv, StepWire, StepStream, TornStays
<1>4. Untorn /\ [Next]_vars => [Stream!Next \/ torn']_(Stream!streamVars)
  BY StepStream, TornStays
<1> HIDE DEF Untorn
<1> QED
  BY <1>1, <1>2, <1>3, <1>4, PTL DEF Spec, ImplementsPacketStream
=============================================================================
