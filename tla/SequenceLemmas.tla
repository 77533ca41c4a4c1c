--------------------------- MODULE SequenceLemmas ---------------------------
(***************************************************************************)
(* Facts about the operators that the models take from the community       *)
(* modules, for the proofs: Min, RemoveAt, FlattenSeq.  Induction is over  *)
(* a set of natural numbers, which the provers can work with.              *)
(***************************************************************************)
EXTENDS Integers, Sequences, SequencesExt, SequenceTheorems, NaturalsInduction,
        WellFoundedInduction, TLAPS

(* A set of naturals with an element has a least one: what Min returns.    *)
LEMMA MinOfNats ==
    ASSUME NEW S \in SUBSET Nat, S # {}
    PROVE  Min(S) \in S /\ \A y \in S : Min(S) <= y
<1>1. PICK x \in S : \A y \in S : ~(<<y, x>> \in OpToRel(<, Nat))
  BY NatLessThanWellFounded, WFMin
<1>2. \A y \in S : x <= y
  <2> SUFFICES ASSUME NEW y \in S PROVE x <= y
    OBVIOUS
  <2>1. y \in Nat /\ x \in Nat
    OBVIOUS
  <2>2. ~(<<y, x>> \in {ss \in Nat \X Nat : ss[1] < ss[2]})
    BY <1>1, Zenon DEF OpToRel
  <2> QED
    BY <2>1, <2>2
<1>3. \E z \in S : \A y \in S : z <= y
  BY <1>2
<1> QED
  BY <1>3 DEF Min

(* A set that has 0, and with each number the next one, has them all.      *)
LEMMA SetInduction ==
    ASSUME NEW S, 0 \in S, \A n \in Nat : n \in S => n + 1 \in S
    PROVE  Nat \subseteq S
<1> DEFINE T == Nat \ S
<1>1. SUFFICES ASSUME T # {} PROVE FALSE
  OBVIOUS
<1>2. T \in SUBSET Nat
  OBVIOUS
<1>3. PICK m \in T : \A y \in T : m <= y
  BY <1>1, <1>2, MinOfNats
<1>4. m \in Nat /\ m # 0 /\ m \notin S
  OBVIOUS
<1>5. m - 1 \in Nat /\ m - 1 \notin T
  BY <1>3, <1>4
<1>6. (m - 1) + 1 \in S
  BY <1>5
<1> QED
  BY <1>4, <1>6

-----------------------------------------------------------------------------
(* FlattenSeq                                                              *)

(* For i up to n, f[i] is the concatenation of the first i of ss.          *)
Flattens(f, ss, n) ==
    \A i \in 1..n : f[i] = IF i = 1 THEN ss[i] ELSE f[i - 1] \o ss[i]

(* There is such a function, and its values are sequences.                 *)
LEMMA FlattenExists ==
    ASSUME NEW S, NEW ss \in Seq(Seq(S))
    PROVE  \E f \in [1..Len(ss) -> Seq(S)] : Flattens(f, ss, Len(ss))
<1> DEFINE N == {n \in Nat : n <= Len(ss) =>
                                \E f \in [1..n -> Seq(S)] : Flattens(f, ss, n)}
<1>0. Len(ss) \in Nat /\ \A i \in 1..Len(ss) : ss[i] \in Seq(S)
  OBVIOUS
<1>1. 0 \in N
  <2>1. [i \in 1..0 |-> <<>>] \in [1..0 -> Seq(S)] /\ Flattens([i \in 1..0 |-> <<>>], ss, 0)
    BY DEF Flattens
  <2> QED
    BY <2>1
<1>2. ASSUME NEW n \in Nat, n \in N PROVE n + 1 \in N
  <2>1. ASSUME n + 1 <= Len(ss)
        PROVE  \E f \in [1..(n + 1) -> Seq(S)] : Flattens(f, ss, n + 1)
    <3>1. n <= Len(ss)
      BY <1>0, <2>1
    <3>2. PICK f \in [1..n -> Seq(S)] : Flattens(f, ss, n)
      BY <1>2, <3>1
    <3> DEFINE x == IF n = 0 THEN ss[1] ELSE f[n] \o ss[n + 1]
               g == [i \in 1..(n + 1) |-> IF i = n + 1 THEN x ELSE f[i]]
    <3>3. x \in Seq(S)
      BY <1>0, <2>1, <3>2
    <3>4. g \in [1..(n + 1) -> Seq(S)]
      <4> HIDE DEF x
      <4> QED
        BY <3>2, <3>3
    <3>5. ASSUME NEW i \in 1..(n + 1)
          PROVE  g[i] = IF i = 1 THEN ss[i] ELSE g[i - 1] \o ss[i]
      <4>1. CASE i = n + 1
        BY <3>2, <4>1
      <4>2. CASE i # n + 1
        <5>1. i \in 1..n /\ g[i] = f[i] /\ (i # 1 => g[i - 1] = f[i - 1])
          BY <4>2
        <5> HIDE DEF g
        <5> QED
          BY <3>2, <5>1 DEF Flattens
      <4> QED
        BY <4>1, <4>2
    <3>6. Flattens(g, ss, n + 1)
      <4> HIDE DEF g
      <4> QED
        BY <3>5 DEF Flattens
    <3> QED
      BY <3>4, <3>6
  <2> QED
    BY <2>1
<1>3. Nat \subseteq N
  <2> HIDE DEF N
  <2> QED
    BY <1>1, <1>2, SetInduction
<1>4. Len(ss) \in N
  BY <1>0, <1>3
<1> QED
  BY <1>0, <1>4

(* It is the only one.                                                     *)
LEMMA FlattenUnique ==
    ASSUME NEW ss, NEW f, NEW g, NEW m \in Nat, Flattens(f, ss, m), Flattens(g, ss, m)
    PROVE  \A i \in 1..m : f[i] = g[i]
<1> DEFINE N == {n \in Nat : n \in 1..m => f[n] = g[n]}
<1>1. 0 \in N
  OBVIOUS
<1>2. ASSUME NEW n \in Nat, n \in N PROVE n + 1 \in N
  <2>1. SUFFICES ASSUME n + 1 \in 1..m PROVE f[n + 1] = g[n + 1]
    OBVIOUS
  <2>2. CASE n = 0
    BY <2>1, <2>2 DEF Flattens
  <2>3. CASE n # 0
    <3>1. f[n] = g[n] /\ (n + 1) - 1 = n /\ n + 1 # 1
      BY <1>2, <2>1, <2>3
    <3>2. f[n + 1] = f[n] \o ss[n + 1] /\ g[n + 1] = g[n] \o ss[n + 1]
      BY <2>1, <3>1 DEF Flattens
    <3> QED
      BY <3>1, <3>2
  <2> QED
    BY <2>2, <2>3
<1>3. Nat \subseteq N
  <2> HIDE DEF N
  <2> QED
    BY <1>1, <1>2, SetInduction
<1> QED
  BY <1>3

(* What FlattenSeq returns, by such a function.                            *)
LEMMA FlattenIs ==
    ASSUME NEW S, NEW ss \in Seq(Seq(S)), ss # <<>>
    PROVE  \E f \in [1..Len(ss) -> Seq(S)] :
             Flattens(f, ss, Len(ss)) /\ FlattenSeq(ss) = f[Len(ss)]
<1> DEFINE F(f) == [i \in 1..Len(ss) |-> IF i = 1 THEN ss[i] ELSE f[i - 1] \o ss[i]]
           h == CHOOSE f : f = F(f)
<1>1. PICK f \in [1..Len(ss) -> Seq(S)] : Flattens(f, ss, Len(ss))
  BY FlattenExists
<1>2. f = F(f)
  BY <1>1 DEF Flattens
<1>3. h = F(h)
  <2> HIDE DEF F
  <2> QED
    BY <1>2
<1>4. Len(ss) \in Nat \ {0}
  OBVIOUS
<1>5. FlattenSeq(ss) = h[Len(ss)]
  BY <1>4 DEF FlattenSeq
<1> HIDE DEF h
<1>6. Flattens(h, ss, Len(ss))
  BY <1>3 DEF Flattens
<1>7. \A i \in 1..Len(ss) : f[i] = h[i]
  BY <1>1, <1>4, <1>6, FlattenUnique
<1>8. FlattenSeq(ss) = f[Len(ss)]
  BY <1>4, <1>5, <1>7
<1> QED
  BY <1>1, <1>8

(* Flattening nothing ...                                                  *)
LEMMA FlattenEmpty == FlattenSeq(<<>>) = <<>>
BY DEF FlattenSeq

(* ... gives a sequence, as it does in general.                            *)
LEMMA FlattenType ==
    ASSUME NEW S, NEW ss \in Seq(Seq(S)) PROVE FlattenSeq(ss) \in Seq(S)
<1>1. CASE ss = <<>>
  BY <1>1, FlattenEmpty, EmptySeq
<1>2. CASE ss # <<>>
  <2>1. PICK f \in [1..Len(ss) -> Seq(S)] :
            Flattens(f, ss, Len(ss)) /\ FlattenSeq(ss) = f[Len(ss)]
    BY <1>2, FlattenIs
  <2>2. Len(ss) \in 1..Len(ss)
    BY <1>2
  <2> QED
    BY <2>1, <2>2
<1> QED
  BY <1>1, <1>2

(* One more sequence.                                                      *)
LEMMA FlattenAppend ==
    ASSUME NEW S, NEW ss \in Seq(Seq(S)), NEW x \in Seq(S)
    PROVE  FlattenSeq(Append(ss, x)) = FlattenSeq(ss) \o x
<1> DEFINE tt == Append(ss, x)
           n == Len(ss)
<1>1. /\ tt \in Seq(Seq(S)) /\ tt # <<>> /\ n \in Nat /\ Len(tt) = n + 1
      /\ tt[n + 1] = x /\ \A i \in 1..n : tt[i] = ss[i]
  BY AppendProperties
<1>0. n = Len(ss)
  OBVIOUS
<1> HIDE DEF tt, n
<1>2. PICK f \in [1..Len(tt) -> Seq(S)] :
            Flattens(f, tt, Len(tt)) /\ FlattenSeq(tt) = f[Len(tt)]
  BY <1>1, FlattenIs
<1>3. CASE ss = <<>>
  <2>1. n = 0 /\ FlattenSeq(ss) = <<>>
    BY <1>0, <1>3, FlattenEmpty
  <2>2. FlattenSeq(tt) = x
    BY <1>1, <1>2, <2>1 DEF Flattens
  <2> QED
    BY <2>1, <2>2, ConcatEmptySeq DEF tt
<1>4. CASE ss # <<>>
  <2>1. PICK g : Flattens(g, ss, n) /\ FlattenSeq(ss) = g[n]
    BY <1>0, <1>4, FlattenIs
  <2>2. n # 0
    BY <1>0, <1>4
  <2>3. Flattens(f, ss, n)
    <3>1. \A i \in 1..n : i \in 1..Len(tt)
      BY <1>1
    <3> QED
      BY <1>1, <1>2, <3>1 DEF Flattens
  <2>4. f[n] = g[n]
    <3>1. n \in 1..n
      BY <1>1, <2>2
    <3>2. n \in Nat /\ Flattens(f, ss, n) /\ Flattens(g, ss, n)
      BY <1>1, <2>1, <2>3
    <3>3. \A i \in 1..n : f[i] = g[i]
      BY <3>2, FlattenUnique
    <3> QED
      BY <3>1, <3>3
  <2>5. f[n + 1] = f[n] \o x
    <3>1. n + 1 \in 1..Len(tt) /\ n + 1 # 1 /\ (n + 1) - 1 = n
      BY <1>1, <2>2
    <3> QED
      BY <1>1, <1>2, <3>1 DEF Flattens
  <2> QED
    BY <1>1, <1>2, <2>1, <2>4, <2>5 DEF tt
<1> QED
  BY <1>3, <1>4

-----------------------------------------------------------------------------
(* Parts of a sequence                                                     *)

(* The first b + 1 elements are the first b and one more.                  *)
LEMMA PrefixAppend ==
    ASSUME NEW S, NEW s \in Seq(S), NEW b \in Nat, b < Len(s)
    PROVE  /\ SubSeq(s, 1, b) \in Seq(S)
           /\ s[b + 1] \in S
           /\ SubSeq(s, 1, b + 1) = Append(SubSeq(s, 1, b), s[b + 1])
<1>0. Len(s) \in Nat /\ b + 1 \in 1..Len(s) /\ s[b + 1] \in S
  BY LenProperties, ElementOfSeq
<1>1. \A i \in 1..(b + 1) : s[i] \in S
  BY <1>0
<1> DEFINE p == SubSeq(s, 1, b)
           q == SubSeq(s, 1, b + 1)
<1>2. p \in Seq(S) /\ Len(p) = b /\ \A i \in 1..b : p[i] = s[i]
  BY <1>1, SubSeqProperties
<1>3. q \in Seq(S) /\ Len(q) = b + 1 /\ \A i \in 1..(b + 1) : q[i] = s[i]
  BY <1>1, SubSeqProperties
<1> HIDE DEF p, q
<1>4. /\ Append(p, s[b + 1]) \in Seq(S) /\ Len(Append(p, s[b + 1])) = b + 1
      /\ \A i \in 1..b : Append(p, s[b + 1])[i] = p[i]
      /\ Append(p, s[b + 1])[b + 1] = s[b + 1]
  BY <1>0, <1>2, AppendProperties
<1>5. \A i \in 1..(b + 1) : i \in 1..b \/ i = b + 1
  OBVIOUS
<1>6. q = Append(p, s[b + 1])
  BY <1>2, <1>3, <1>4, <1>5, SeqEqual
<1> QED
  BY <1>0, <1>2, <1>6 DEF p, q

(* The elements of two sequences put together.                             *)
LEMMA ConcatAt ==
    ASSUME NEW S, NEW a \in Seq(S), NEW b \in Seq(S)
    PROVE  /\ a \o b \in Seq(S) /\ Len(a \o b) = Len(a) + Len(b)
           /\ Len(a) \in Nat /\ Len(b) \in Nat
           /\ \A i \in 1..Len(a) : (a \o b)[i] = a[i]
           /\ \A i \in 1..Len(b) : (a \o b)[Len(a) + i] = b[i]
<1>1. /\ a \o b \in Seq(S) /\ Len(a \o b) = Len(a) + Len(b)
      /\ \A i \in 1..(Len(a) + Len(b)) :
            (a \o b)[i] = IF i <= Len(a) THEN a[i] ELSE b[i - Len(a)]
  BY ConcatProperties
<1>2. Len(a) \in Nat /\ Len(b) \in Nat
  OBVIOUS
<1>3. ASSUME NEW i \in 1..Len(b) PROVE (a \o b)[Len(a) + i] = b[i]
  <2>1. /\ Len(a) + i \in 1..(Len(a) + Len(b)) /\ ~(Len(a) + i <= Len(a))
        /\ (Len(a) + i) - Len(a) = i
    BY <1>2
  <2> QED
    BY <1>1, <2>1
<1>4. ASSUME NEW i \in 1..Len(a) PROVE (a \o b)[i] = a[i]
  BY <1>1, <1>2
<1> QED
  BY <1>1, <1>2, <1>3, <1>4

(* A flattened sequence starts with its first parts, flattened.            *)
LEMMA FlattenPrefix ==
    ASSUME NEW S, NEW ss \in Seq(Seq(S)), NEW n \in Nat, n <= Len(ss)
    PROVE  LET a == FlattenSeq(SubSeq(ss, 1, n))
               b == FlattenSeq(ss)
           IN  /\ a \in Seq(S) /\ b \in Seq(S) /\ Len(a) <= Len(b)
               /\ \A i \in 1..Len(a) : b[i] = a[i]
<1> DEFINE B(k) == FlattenSeq(SubSeq(ss, 1, k))
           Starts(k) == Len(B(n)) <= Len(B(k)) /\ \A i \in 1..Len(B(n)) : B(k)[i] = B(n)[i]
           N == {k \in Nat : n + k <= Len(ss) => Starts(n + k)}
<1>0. Len(ss) \in Nat
  OBVIOUS
<1>1. \A k \in 0..Len(ss) : SubSeq(ss, 1, k) \in Seq(Seq(S)) /\ B(k) \in Seq(S)
  <2> SUFFICES ASSUME NEW k \in 0..Len(ss)
               PROVE  SubSeq(ss, 1, k) \in Seq(Seq(S)) /\ B(k) \in Seq(S)
    OBVIOUS
  <2>1. \A i \in 1..k : ss[i] \in Seq(S)
    BY <1>0
  <2>2. SubSeq(ss, 1, k) \in Seq(Seq(S))
    BY <1>0, <2>1, SubSeqProperties
  <2> QED
    BY <2>2, FlattenType
<1>2. ASSUME NEW k \in Nat, k < Len(ss)
      PROVE  B(k + 1) = B(k) \o ss[k + 1] /\ ss[k + 1] \in Seq(S)
  <2>1. /\ SubSeq(ss, 1, k) \in Seq(Seq(S)) /\ ss[k + 1] \in Seq(S)
        /\ SubSeq(ss, 1, k + 1) = Append(SubSeq(ss, 1, k), ss[k + 1])
    BY <1>0, <1>2, PrefixAppend
  <2> QED
    BY <2>1, FlattenAppend
<1>3. B(n) \in Seq(S) /\ Len(B(n)) \in Nat
  BY <1>0, <1>1
<1> HIDE DEF B
<1>4. 0 \in N
  BY <1>3
<1>5. ASSUME NEW k \in Nat, k \in N PROVE k + 1 \in N
  <2> SUFFICES ASSUME n + (k + 1) <= Len(ss) PROVE Starts(n + (k + 1))
    OBVIOUS
  <2> DEFINE j == n + k
  <2>1. j \in Nat /\ j < Len(ss) /\ n + (k + 1) = j + 1 /\ j \in 0..Len(ss)
    BY <1>0
  <2>2. Starts(j)
    BY <1>0, <1>5, <2>1
  <2> HIDE DEF j
  <2> DEFINE x == ss[j + 1]
  <2>3. B(j + 1) = B(j) \o x /\ x \in Seq(S)
    BY <1>2, <2>1
  <2>4. B(j) \in Seq(S)
    BY <1>1, <2>1
  <2> HIDE DEF x
  <2>5. Len(B(j)) \in Nat /\ Len(B(j + 1)) = Len(B(j)) + Len(x) /\ Len(x) \in Nat
        /\ \A i \in 1..Len(B(j)) : B(j + 1)[i] = B(j)[i]
    BY <2>3, <2>4
  <2>6. Starts(j + 1)
    BY <1>3, <2>2, <2>5
  <2> QED
    BY <2>1, <2>6
<1>6. Nat \subseteq N
  <2> HIDE DEF N
  <2> QED
    BY <1>4, <1>5, SetInduction
<1>7. Starts(Len(ss))
  <2> DEFINE d == Len(ss) - n
  <2>1. d \in Nat /\ n + d = Len(ss)
    BY <1>0
  <2> HIDE DEF d
  <2>2. d \in N
    BY <1>6, <2>1
  <2> HIDE DEF Starts
  <2>3. n + d <= Len(ss)
    BY <1>0, <2>1
  <2>4. Starts(n + d)
    BY <2>2, <2>3
  <2> QED
    BY <2>1, <2>4
<1>8. B(Len(ss)) = FlattenSeq(ss) /\ B(Len(ss)) \in Seq(S)
  <2>1. SubSeq(ss, 1, Len(ss)) = ss
    BY SubSeqFull
  <2>2. B(Len(ss)) = FlattenSeq(ss)
    BY <2>1 DEF B
  <2> QED
    BY <2>2, FlattenType
<1> QED
  BY <1>3, <1>7, <1>8 DEF B

(* What is left of a sequence after its first n elements.                  *)
After(s, n) == SubSeq(s, n + 1, Len(s))

LEMMA AfterFacts ==
    ASSUME NEW S, NEW s \in Seq(S), NEW n \in Nat
    PROVE  /\ After(s, n) \in Seq(S)
           /\ Len(After(s, n)) = IF n <= Len(s) THEN Len(s) - n ELSE 0
           /\ \A i \in 1..(Len(s) - n) : After(s, n)[i] = s[n + i]
           /\ n >= Len(s) => After(s, n) = <<>>
<1>0. Len(s) \in Nat
  OBVIOUS
<1>1. \A i \in (n + 1)..Len(s) : s[i] \in S
  BY <1>0, ElementOfSeq
<1>2. /\ SubSeq(s, n + 1, Len(s)) \in Seq(S)
      /\ Len(SubSeq(s, n + 1, Len(s)))
            = IF n + 1 <= Len(s) THEN Len(s) - (n + 1) + 1 ELSE 0
      /\ \A i \in 1..(Len(s) - (n + 1) + 1) :
            SubSeq(s, n + 1, Len(s))[i] = s[(n + 1) + i - 1]
  BY <1>0, <1>1, SubSeqProperties
<1>3. n >= Len(s) => After(s, n) = <<>>
  BY <1>0, SubSeqEmpty DEF After
<1>4. \A i \in 1..(Len(s) - n) : (n + 1) + i - 1 = n + i
  BY <1>0
<1> HIDE DEF After
<1>5. Len(s) - (n + 1) + 1 = Len(s) - n
  BY <1>0
<1> QED
  BY <1>0, <1>2, <1>3, <1>4, <1>5 DEF After

(* The end of a concatenation: of both sequences ...                       *)
LEMMA AfterConcat ==
    ASSUME NEW S, NEW s \in Seq(S), NEW t \in Seq(S), NEW n \in Nat
    PROVE  After(s \o t, n) = IF n <= Len(s) THEN After(s, n) \o t
                              ELSE After(t, n - Len(s))
<1>0. Len(s) \in Nat /\ Len(t) \in Nat
  OBVIOUS
<1>1. /\ s \o t \in Seq(S) /\ Len(s \o t) = Len(s) + Len(t)
      /\ \A i \in 1..(Len(s) + Len(t)) :
            (s \o t)[i] = IF i <= Len(s) THEN s[i] ELSE t[i - Len(s)]
  BY ConcatProperties
<1> DEFINE a == After(s \o t, n)
           u == After(s, n)
<1>2. /\ a \in Seq(S)
      /\ Len(a) = IF n <= Len(s) + Len(t) THEN Len(s) + Len(t) - n ELSE 0
      /\ \A i \in 1..(Len(s) + Len(t) - n) : a[i] = (s \o t)[n + i]
  <2> DEFINE st == s \o t
  <2>1. st \in Seq(S) /\ Len(st) = Len(s) + Len(t) /\ a = After(st, n)
    BY <1>1
  <2>2. /\ After(st, n) \in Seq(S)
        /\ Len(After(st, n)) = IF n <= Len(st) THEN Len(st) - n ELSE 0
        /\ \A i \in 1..(Len(st) - n) : After(st, n)[i] = st[n + i]
    <3> HIDE DEF st, a
    <3> QED
      BY <2>1, AfterFacts
  <2> HIDE DEF a
  <2> QED
    BY <2>1, <2>2
<1>3. /\ u \in Seq(S)
      /\ Len(u) = IF n <= Len(s) THEN Len(s) - n ELSE 0
      /\ \A i \in 1..(Len(s) - n) : u[i] = s[n + i]
  BY AfterFacts
<1> HIDE DEF a, u
<1>4. CASE n <= Len(s)
  <2>1. /\ u \o t \in Seq(S) /\ Len(u \o t) = Len(u) + Len(t)
        /\ \A i \in 1..(Len(u) + Len(t)) :
              (u \o t)[i] = IF i <= Len(u) THEN u[i] ELSE t[i - Len(u)]
    BY <1>3, ConcatProperties
  <2>2. Len(a) = Len(u \o t) /\ Len(u) = Len(s) - n
    BY <1>0, <1>2, <1>3, <1>4, <2>1
  <2>3. ASSUME NEW i \in 1..Len(a) PROVE a[i] = (u \o t)[i]
    <3>1. i \in 1..(Len(s) + Len(t) - n) /\ i \in 1..(Len(u) + Len(t))
      BY <1>0, <1>2, <1>4, <2>1, <2>2
    <3>2. a[i] = (s \o t)[n + i] /\ n + i \in 1..(Len(s) + Len(t))
      BY <1>0, <1>2, <3>1
    <3>3. CASE i <= Len(s) - n
      BY <1>0, <1>1, <1>3, <2>1, <2>2, <3>1, <3>2, <3>3
    <3>4. CASE i > Len(s) - n
      <4>1. (n + i) - Len(s) = i - Len(u) /\ ~(n + i <= Len(s)) /\ ~(i <= Len(u))
        BY <1>0, <2>2, <3>1, <3>4
      <4> QED
        BY <1>1, <2>1, <3>1, <3>2, <4>1
    <3> QED
      BY <1>0, <3>3, <3>4, <3>1
  <2>4. a = u \o t
    BY <1>2, <2>1, <2>2, <2>3, SeqEqual
  <2> QED
    BY <1>4, <2>4 DEF a, u
<1>5. CASE n > Len(s)
  <2>0. n - Len(s) \in Nat
    BY <1>0, <1>5
  <2> DEFINE m == n - Len(s)
             v == After(t, m)
  <2>1. /\ v \in Seq(S)
        /\ Len(v) = IF m <= Len(t) THEN Len(t) - m ELSE 0
        /\ \A i \in 1..(Len(t) - m) : v[i] = t[m + i]
    BY <2>0, AfterFacts
  <2> HIDE DEF v
  <2>2. Len(a) = Len(v)
    BY <1>0, <1>2, <1>5, <2>1
  <2>3. ASSUME NEW i \in 1..Len(a) PROVE a[i] = v[i]
    <3>1. /\ i \in 1..(Len(s) + Len(t) - n) /\ i \in 1..(Len(t) - m)
          /\ n + i \in 1..(Len(s) + Len(t)) /\ ~(n + i <= Len(s))
          /\ (n + i) - Len(s) = m + i
      BY <1>0, <1>2, <1>5
    <3> HIDE DEF m
    <3> QED
      BY <1>1, <1>2, <2>1, <3>1
  <2>4. a = v
    BY <1>2, <2>1, <2>2, <2>3, SeqEqual
  <2> QED
    BY <1>0, <1>5, <2>4 DEF a, v
<1> QED
  BY <1>0, <1>4, <1>5

(* ... and what remains when k more elements have been taken.              *)
LEMMA AfterMore ==
    ASSUME NEW S, NEW s \in Seq(S), NEW n \in Nat, NEW k \in Nat, n + k <= Len(s)
    PROVE  SubSeq(After(s, n), 1, k) \o After(s, n + k) = After(s, n)
<1>0. Len(s) \in Nat
  OBVIOUS
<1> DEFINE a == After(s, n)
           b == After(s, n + k)
           c == SubSeq(a, 1, k)
           m == n + k
<1>1. /\ a \in Seq(S) /\ Len(a) = Len(s) - n
      /\ \A i \in 1..(Len(s) - n) : a[i] = s[n + i]
  <2>1. n <= Len(s)
    BY <1>0
  <2>2. /\ After(s, n) \in Seq(S)
        /\ Len(After(s, n)) = IF n <= Len(s) THEN Len(s) - n ELSE 0
        /\ \A i \in 1..(Len(s) - n) : After(s, n)[i] = s[n + i]
    BY AfterFacts
  <2> QED
    BY <2>1, <2>2
<1>2. /\ b \in Seq(S) /\ Len(b) = Len(s) - (n + k)
      /\ \A i \in 1..(Len(s) - (n + k)) : b[i] = s[(n + k) + i]
  <2>1. m \in Nat /\ m <= Len(s) /\ m = n + k
    OBVIOUS
  <2> HIDE DEF m
  <2>2. /\ After(s, m) \in Seq(S)
        /\ Len(After(s, m)) = IF m <= Len(s) THEN Len(s) - m ELSE 0
        /\ \A i \in 1..(Len(s) - m) : After(s, m)[i] = s[m + i]
    BY <2>1, AfterFacts
  <2> QED
    BY <2>1, <2>2
<1> HIDE DEF a, b
<1>3. \A i \in 1..k : a[i] \in S
  BY <1>0, <1>1, ElementOfSeq
<1>4. c \in Seq(S) /\ Len(c) = k /\ \A i \in 1..k : c[i] = a[i]
  BY <1>3, SubSeqProperties
<1> HIDE DEF c
<1>5. /\ c \o b \in Seq(S) /\ Len(c \o b) = Len(c) + Len(b)
      /\ \A i \in 1..(Len(c) + Len(b)) :
            (c \o b)[i] = IF i <= Len(c) THEN c[i] ELSE b[i - Len(c)]
  <2>1. c \in Seq(S) /\ b \in Seq(S)
    BY <1>2, <1>4
  <2> QED
    BY <2>1, ConcatProperties
<1>6. Len(c \o b) = Len(a)
  BY <1>0, <1>1, <1>2, <1>4, <1>5
<1>7. ASSUME NEW i \in 1..Len(c \o b) PROVE (c \o b)[i] = a[i]
  <2>0. i \in 1..(Len(s) - n) /\ i \in 1..(Len(c) + Len(b)) /\ a[i] = s[n + i]
    BY <1>0, <1>1, <1>5, <1>6
  <2>1. CASE i <= k
    BY <1>4, <1>5, <2>0, <2>1
  <2>2. CASE i > k
    <3>1. i - k \in 1..(Len(s) - (n + k)) /\ (n + k) + (i - k) = n + i
      BY <1>0, <2>0, <2>2
    <3>2. (c \o b)[i] = b[i - k]
      BY <1>4, <1>5, <2>0, <2>2
    <3> QED
      BY <1>2, <2>0, <3>1, <3>2
  <2> QED
    BY <2>0, <2>1, <2>2
<1>8. c \o b = a
  BY <1>1, <1>5, <1>6, <1>7, SeqEqual
<1> QED
  BY <1>8 DEF a, b, c

(* A prefix goes on being one when the other sequence grows.               *)
LEMMA PrefixOfConcat ==
    ASSUME NEW S, NEW s \in Seq(S), NEW t \in Seq(S)
    PROVE  IsPrefix(s, s \o t)
<1>1. Len(s) \in Nat /\ Len(t) \in Nat
  OBVIOUS
<1>2. Len(s \o t) = Len(s) + Len(t) /\ SubSeq(s \o t, 1, Len(s)) = s
  BY ConcatProperties, SubSeqOfConcat1, ConcatSimplifications, SubSeqFull
<1>3. SubSeq(s, 1, Len(s)) = s
  BY SubSeqFull
<1> QED
  BY <1>1, <1>2, <1>3 DEF IsPrefix

(* Element i is removed; the others keep their order.                      *)
LEMMA RemoveAtFacts ==
    ASSUME NEW S, NEW s \in Seq(S), NEW i \in 1..Len(s)
    PROVE  /\ RemoveAt(s, i) \in Seq(S)
           /\ Len(RemoveAt(s, i)) = Len(s) - 1
           /\ \A j \in 1..(Len(s) - 1) :
                RemoveAt(s, i)[j] = IF j < i THEN s[j] ELSE s[j + 1]
<1>0. Len(s) \in Nat /\ i \in Nat /\ \A j \in 1..Len(s) : s[j] \in S
  BY ElementOfSeq
<1> DEFINE a == SubSeq(s, 1, i - 1)
           b == SubSeq(s, i + 1, Len(s))
<1>1. a \in Seq(S) /\ Len(a) = i - 1 /\ \A j \in 1..(i - 1) : a[j] = s[j]
  <2>1. \A j \in 1..(i - 1) : s[j] \in S
    BY <1>0
  <2>2. i - 1 \in Int /\ 1 \in Int
    BY <1>0
  <2>3. /\ a \in Seq(S) /\ Len(a) = IF 1 <= i - 1 THEN (i - 1) - 1 + 1 ELSE 0
        /\ \A j \in 1..((i - 1) - 1 + 1) : a[j] = s[1 + j - 1]
    BY <2>1, <2>2, SubSeqProperties
  <2> HIDE DEF a
  <2>4. \A j \in 1..(i - 1) : 1 + j - 1 = j
    BY <1>0
  <2> QED
    BY <1>0, <2>3, <2>4
<1>2. b = After(s, i)
  BY DEF After
<1>3. /\ b \in Seq(S) /\ Len(b) = Len(s) - i
      /\ \A j \in 1..(Len(s) - i) : b[j] = s[i + j]
  <2> HIDE DEF b
  <2>1. /\ After(s, i) \in Seq(S)
        /\ Len(After(s, i)) = IF i <= Len(s) THEN Len(s) - i ELSE 0
        /\ \A j \in 1..(Len(s) - i) : After(s, i)[j] = s[i + j]
    BY <1>0, AfterFacts
  <2> QED
    BY <1>0, <1>2, <2>1
<1>4. RemoveAt(s, i) = a \o b
  BY DEF RemoveAt
<1> HIDE DEF a, b
<1>5. /\ a \o b \in Seq(S) /\ Len(a \o b) = Len(a) + Len(b)
      /\ \A j \in 1..(Len(a) + Len(b)) :
            (a \o b)[j] = IF j <= Len(a) THEN a[j] ELSE b[j - Len(a)]
  BY <1>1, <1>3, ConcatProperties
<1>6. ASSUME NEW j \in 1..(Len(s) - 1)
      PROVE  (a \o b)[j] = IF j < i THEN s[j] ELSE s[j + 1]
  <2>0. j \in 1..(Len(a) + Len(b))
    BY <1>0, <1>1, <1>3
  <2>1. CASE j < i
    BY <1>0, <1>1, <1>5, <2>0, <2>1
  <2>2. CASE ~(j < i)
    <3>1. j - Len(a) \in 1..(Len(s) - i) /\ i + (j - Len(a)) = j + 1 /\ ~(j <= Len(a))
      BY <1>0, <1>1, <2>2
    <3> QED
      BY <1>3, <1>5, <2>0, <2>2, <3>1
  <2> QED
    BY <2>1, <2>2
<1> QED
  BY <1>0, <1>1, <1>3, <1>4, <1>5, <1>6
=============================================================================
