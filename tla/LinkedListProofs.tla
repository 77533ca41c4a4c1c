-------------------------- MODULE LinkedListProofs --------------------------
(***************************************************************************)
(* Proofs about LinkedList, for every number of cells and items: the       *)
(* pointers always form one list in both directions, and every operation   *)
(* does what the abstract list of ListADT says.                            *)
(***************************************************************************)
EXTENDS LinkedList, SequenceLemmas, FiniteSetTheorems

-----------------------------------------------------------------------------
(* The inductive invariant                                                 *)

(* Element i of q, and NULL before and behind it.                          *)
At(q, i) == IF i \in 1..Len(q) THEN q[i] ELSE NULL

OnceEach(q) == \A i, j \in 1..Len(q) : q[i] = q[j] => i = j

(* The pointers of the cells el link the elements q, from fst to lst.      *)
Chain(q, fst, lst, el) ==
    /\ q \in Seq(Elems) /\ OnceEach(q)
    /\ fst = At(q, 1) /\ lst = At(q, Len(q))
    /\ \A i \in 1..Len(q) : /\ el[q[i]].next = At(q, i + 1)
                            /\ el[q[i]].prev = At(q, i - 1)

Cell == [prev : Pointer, next : Pointer, content : Contents \cup {NULL}]

(* The list consists of the elements q, which are the allocated cells; the *)
(* cursor is on one of them or nowhere.                                    *)
ListOf(q) ==
    /\ Chain(q, first, last, elem)
    /\ elem \in [Elems -> Cell]
    /\ alloc = ToSet(q) /\ count = Len(q) /\ size \in 0..MaxSize
    /\ current \in alloc \cup {NULL}
    /\ \A x \in alloc : elem[x].content \in Contents

(* No two of the cells hold the same item.                                 *)
OneItemEach(cells, el) == \A x, y \in cells : el[x].content = el[y].content => x = y

LInv == (\E q : ListOf(q)) /\ OneItemEach(alloc, elem)

-----------------------------------------------------------------------------
(* Sequences                                                               *)

(* Facts about a sequence that every proof below uses.                     *)
LEMMA SeqFacts ==
    ASSUME NEW S, NEW q \in Seq(S)
    PROVE  /\ Len(q) \in Nat /\ DOMAIN q = 1..Len(q)
           /\ \A i \in 1..Len(q) : q[i] \in S
           /\ \A x : x \in ToSet(q) <=> \E i \in 1..Len(q) : q[i] = x
<1>1. Len(q) \in Nat /\ DOMAIN q = 1..Len(q) /\ \A i \in 1..Len(q) : q[i] \in S
  BY LenProperties, ElementOfSeq
<1> QED
  BY <1>1 DEF ToSet

(* Element e comes to be element i; the others keep their order.           *)
LEMMA InsertAtFacts ==
    ASSUME NEW S, NEW s \in Seq(S), NEW i \in 1..Len(s), NEW e \in S
    PROVE  /\ InsertAt(s, i, e) \in Seq(S)
           /\ Len(InsertAt(s, i, e)) = Len(s) + 1
           /\ \A j \in 1..(Len(s) + 1) :
                InsertAt(s, i, e)[j] = IF j < i THEN s[j]
                                       ELSE IF j = i THEN e ELSE s[j - 1]
<1>0. Len(s) \in Nat /\ i \in Nat /\ i >= 1 /\ i <= Len(s) /\ \A j \in 1..Len(s) : s[j] \in S
  BY SeqFacts
<1> DEFINE a == SubSeq(s, 1, i - 1)
           b == SubSeq(s, i, Len(s))
           c == a \o <<e>>
<1>1. a \in Seq(S) /\ Len(a) = i - 1 /\ \A j \in 1..(i - 1) : a[j] = s[j]
  <2>1. \A j \in 1..(i - 1) : s[j] \in S
    BY <1>0
  <2>2. i - 1 \in Int /\ 1 \in Int
    BY <1>0
  <2>3. /\ a \in Seq(S) /\ Len(a) = IF 1 <= i - 1 THEN (i - 1) - 1 + 1 ELSE 0
        /\ \A j \in 1..((i - 1) - 1 + 1) : a[j] = s[1 + j - 1]
    BY <2>1, <2>2, SubSeqProperties
  <2> HIDE DEF a
  <2>4. \A j \in 1..(i - 1) : 1 + j - 1 = j
    BY <1>0
  <2> QED
    BY <1>0, <2>3, <2>4
<1>2. i - 1 \in Nat /\ b = After(s, i - 1)
  BY <1>0 DEF After
<1>3. /\ b \in Seq(S) /\ Len(b) = Len(s) - (i - 1)
      /\ \A j \in 1..(Len(s) - (i - 1)) : b[j] = s[(i - 1) + j]
  <2> HIDE DEF b
  <2> DEFINE n == i - 1
  <2>1. n \in Nat /\ n <= Len(s)
    BY <1>0
  <2> HIDE DEF n
  <2>2. /\ After(s, n) \in Seq(S)
        /\ Len(After(s, n)) = IF n <= Len(s) THEN Len(s) - n ELSE 0
        /\ \A j \in 1..(Len(s) - n) : After(s, n)[j] = s[n + j]
    BY <2>1, AfterFacts
  <2> QED
    BY <1>2, <2>1, <2>2 DEF n
<1>4. InsertAt(s, i, e) = c \o b
  BY DEF InsertAt
<1> HIDE DEF a, b
<1>5. /\ c \in Seq(S) /\ Len(c) = i /\ c[i] = e /\ \A j \in 1..(i - 1) : c[j] = s[j]
  <2> DEFINE u == <<e>>
  <2>1. u \in Seq(S) /\ Len(u) = 1 /\ u[1] = e /\ c = a \o u
    OBVIOUS
  <2> HIDE DEF u, c
  <2>2. a \in Seq(S) /\ u \in Seq(S)
    BY <1>1, <2>1
  <2>3. /\ a \o u \in Seq(S) /\ Len(a \o u) = Len(a) + Len(u)
        /\ \A j \in 1..Len(a) : (a \o u)[j] = a[j]
        /\ \A j \in 1..Len(u) : (a \o u)[Len(a) + j] = u[j]
    BY <2>2, ConcatAt
  <2>4. Len(a) + 1 = i /\ 1 \in 1..Len(u)
    BY <1>0, <1>1, <2>1
  <2> QED
    BY <1>1, <2>1, <2>3, <2>4
<1> HIDE DEF c
<1>6. /\ c \o b \in Seq(S) /\ Len(c \o b) = Len(c) + Len(b)
      /\ \A j \in 1..Len(c) : (c \o b)[j] = c[j]
      /\ \A j \in 1..Len(b) : (c \o b)[Len(c) + j] = b[j]
  <2>1. c \in Seq(S) /\ b \in Seq(S)
    BY <1>3, <1>5
  <2> QED
    BY <2>1, ConcatAt
<1>7. ASSUME NEW j \in 1..(Len(s) + 1)
      PROVE  (c \o b)[j] = IF j < i THEN s[j] ELSE IF j = i THEN e ELSE s[j - 1]
  <2>1. CASE j <= i
    BY <1>0, <1>5, <1>6, <2>1
  <2>2. CASE j > i
    <3> DEFINE h == j - i
    <3>1. h \in 1..(Len(s) - (i - 1)) /\ (i - 1) + h = j - 1 /\ i + h = j
      BY <1>0, <2>2
    <3> HIDE DEF h
    <3>2. (c \o b)[i + h] = s[(i - 1) + h]
      BY <1>3, <1>5, <1>6, <3>1
    <3>3. (c \o b)[j] = s[j - 1]
      BY <3>1, <3>2
    <3>4. ~(j < i) /\ j # i
      BY <1>0, <2>2
    <3> QED
      BY <3>3, <3>4
  <2>3. j <= i \/ j > i
    BY <1>0
  <2> QED
    BY <2>1, <2>2, <2>3
<1> QED
  BY <1>0, <1>3, <1>4, <1>5, <1>6, <1>7

(* Distinct elements are no more than there are.                           *)
LEMMA OnceEachBound ==
    ASSUME NEW q \in Seq(Elems), OnceEach(q)
    PROVE  /\ Len(q) \in Nat /\ Cardinality(Elems) \in Nat
           /\ Len(q) <= Cardinality(Elems)
<1>1. Len(q) \in Nat /\ q \in [1..Len(q) -> Elems]
  BY LenProperties
<1>2. q \in Injection(1..Len(q), Elems)
  BY <1>1 DEF OnceEach, Injection, IsInjective
<1>3. IsFiniteSet(Elems) /\ Cardinality(Elems) \in Nat
  BY ElemsAssumption, FS_CardinalityType
<1>4. Cardinality(1..Len(q)) <= Cardinality(Elems)
  BY <1>2, <1>3, FS_Injection
<1>5. Cardinality(1..Len(q)) = IF 1 > Len(q) THEN 0 ELSE Len(q) - 1 + 1
  BY <1>1, FS_Interval
<1> QED
  BY <1>1, <1>3, <1>4, <1>5

-----------------------------------------------------------------------------
(* Iterating                                                               *)

Steps == 1..(Cardinality(Elems) + 1)

(* An iteration h goes from element to element of q.                       *)
Walks(h, q) ==
    /\ DOMAIN h = Steps
    /\ h[1] = At(q, 1)
    /\ \A n \in Steps : n # 1 =>
        /\ h[n - 1] = NULL => h[n] = NULL
        /\ \A i \in 1..Len(q) : h[n - 1] = q[i] => h[n] = At(q, i + 1)

(* Then it visits them all, in order.                                      *)
LEMMA WalkVisits ==
    ASSUME NEW q \in Seq(Elems), OnceEach(q), NEW h, Walks(h, q)
    PROVE  /\ \A n \in Steps : h[n] = At(q, n)
           /\ h = [n \in Steps |-> h[n]]
              => SubSeq(h, 1, Cardinality({n \in DOMAIN h : h[n] # NULL})) = q
<1>0. /\ Len(q) \in Nat /\ Cardinality(Elems) \in Nat /\ Len(q) <= Cardinality(Elems)
      /\ DOMAIN q = 1..Len(q) /\ \A i \in 1..Len(q) : q[i] \in Elems
      /\ NULL \notin Elems
  BY OnceEachBound, SeqFacts, ElemsAssumption
<1> DEFINE N == {n \in Nat : n + 1 \in Steps => h[n + 1] = At(q, n + 1)}
<1>1. 0 \in N
  BY DEF Walks
<1>2. ASSUME NEW n \in Nat, n \in N PROVE n + 1 \in N
  <2> SUFFICES ASSUME (n + 1) + 1 \in Steps PROVE h[(n + 1) + 1] = At(q, (n + 1) + 1)
    OBVIOUS
  <2>1. n + 1 \in Steps /\ h[n + 1] = At(q, n + 1) /\ ((n + 1) + 1) - 1 = n + 1 /\ (n + 1) + 1 # 1
    BY <1>0, <1>2 DEF Steps
  <2>2. CASE n + 1 <= Len(q)
    <3> DEFINE m == n + 1
    <3>1. m \in 1..Len(q) /\ h[m] = q[m]
      BY <1>0, <2>1, <2>2 DEF At
    <3>2. (m + 1) - 1 = m /\ m + 1 \in Steps /\ m + 1 # 1
      BY <2>1
    <3> HIDE DEF m
    <3>3. h[m + 1] = At(q, m + 1)
      BY <3>1, <3>2 DEF Walks
    <3> QED
      BY <3>3 DEF m
  <2>3. CASE n + 1 > Len(q)
    <3> DEFINE m == n + 1
    <3>1. At(q, m) = NULL /\ At(q, m + 1) = NULL
      BY <1>0, <2>3 DEF At
    <3>2. (m + 1) - 1 = m /\ m + 1 \in Steps /\ m + 1 # 1 /\ h[m] = NULL
      BY <2>1, <3>1
    <3> HIDE DEF m
    <3>3. h[m + 1] = NULL
      BY <3>2 DEF Walks
    <3> QED
      BY <3>1, <3>3 DEF m
  <2> QED
    BY <1>0, <2>2, <2>3
<1>3. Nat \subseteq N
  <2> HIDE DEF N
  <2> QED
    BY <1>1, <1>2, SetInduction
<1>4. ASSUME NEW n \in Steps PROVE h[n] = At(q, n)
  <2>1. n - 1 \in Nat /\ (n - 1) + 1 = n
    BY <1>0 DEF Steps
  <2>2. n - 1 \in N
    <3> HIDE DEF N
    <3> QED
      BY <1>3, <2>1
  <2> QED
    BY <2>1, <2>2
<1>5. ASSUME h = [n \in Steps |-> h[n]]
      PROVE  SubSeq(h, 1, Cardinality({n \in DOMAIN h : h[n] # NULL})) = q
  <2>1. {n \in DOMAIN h : h[n] # NULL} = 1..Len(q)
    <3>1. \A n \in Steps : n \in 1..Len(q) <=> h[n] # NULL
      BY <1>0, <1>4 DEF At
    <3>2. 1..Len(q) \subseteq Steps /\ DOMAIN h = Steps
      BY <1>0 DEF Steps, Walks
    <3> QED
      BY <3>1, <3>2
  <2>2. Cardinality(1..Len(q)) = Len(q)
    <3>1. Cardinality(1..Len(q)) = IF 1 > Len(q) THEN 0 ELSE Len(q) - 1 + 1
      <4>1. 1 \in Int /\ Len(q) \in Int
        BY <1>0
      <4> QED
        BY <4>1, FS_Interval
    <3> QED
      BY <1>0, <3>1
  <2>3. \A i \in 1..Len(q) : h[i] = q[i] /\ i \in Steps
    BY <1>0, <1>4 DEF At, Steps
  <2>4. SubSeq(h, 1, Len(q)) = q
    <3>1. \A i \in 1..Len(q) : h[i] \in Elems
      BY <1>0, <2>3
    <3>2. 1 \in Int /\ Len(q) \in Int
      BY <1>0
    <3>3. /\ SubSeq(h, 1, Len(q)) \in Seq(Elems)
          /\ Len(SubSeq(h, 1, Len(q))) = IF 1 <= Len(q) THEN Len(q) - 1 + 1 ELSE 0
          /\ \A i \in 1..(Len(q) - 1 + 1) : SubSeq(h, 1, Len(q))[i] = h[1 + i - 1]
      BY <3>1, <3>2, SubSeqProperties
    <3>4. \A i \in 1..Len(q) : 1 + i - 1 = i
      BY <1>0
    <3> DEFINE r == SubSeq(h, 1, Len(q))
    <3>5. r \in Seq(Elems) /\ Len(r) = Len(q) /\ \A i \in 1..Len(q) : r[i] = q[i]
      BY <1>0, <2>3, <3>3, <3>4
    <3> HIDE DEF r
    <3>6. r = q
      BY <3>5, SeqEqual
    <3> QED
      BY <3>6 DEF r
  <2> QED
    BY <2>1, <2>2, <2>4
<1> QED
  BY <1>4, <1>5

(* ListNextElement visits the elements of the list in order ...            *)
LEMMA ForwardIs ==
    ASSUME NEW q, Chain(q, first, last, elem)
    PROVE  Forward = q
<1> DEFINE F(f) == [n \in 1..(Cardinality(Elems) + 1) |->
                        IF n = 1 THEN ListNextElement(NULL)
                        ELSE IF f[n - 1] = NULL THEN NULL
                             ELSE ListNextElement(f[n - 1])]
           h == CHOOSE f : f = F(f)
           w == [n \in Steps |-> At(q, n)]
<1>0. /\ q \in Seq(Elems) /\ OnceEach(q) /\ Len(q) \in Nat
      /\ Cardinality(Elems) \in Nat /\ NULL \notin Elems
      /\ \A i \in 1..Len(q) : q[i] \in Elems
  BY OnceEachBound, SeqFacts, ElemsAssumption DEF Chain
<1>1. ListNextElement(NULL) = At(q, 1)
  BY DEF ListNextElement, Chain
<1>2. \A i \in 1..Len(q) : ListNextElement(q[i]) = At(q, i + 1)
  BY <1>0 DEF ListNextElement, Chain
<1>3. w = F(w)
  <2> SUFFICES ASSUME NEW n \in Steps
               PROVE  At(q, n) = IF n = 1 THEN ListNextElement(NULL)
                                 ELSE IF w[n - 1] = NULL THEN NULL
                                      ELSE ListNextElement(w[n - 1])
    BY DEF Steps
  <2>1. CASE n = 1
    BY <1>1, <2>1
  <2>2. CASE n # 1
    <3>1. n - 1 \in Steps /\ w[n - 1] = At(q, n - 1) /\ (n - 1) + 1 = n
      BY <1>0, <2>2 DEF Steps
    <3> HIDE DEF w
    <3>2. CASE n - 1 \in 1..Len(q)
      <4>1. At(q, n - 1) = q[n - 1] /\ q[n - 1] # NULL
        BY <1>0, <3>2 DEF At
      <4>2. ListNextElement(q[n - 1]) = At(q, n)
        BY <1>2, <3>1, <3>2
      <4> QED
        BY <2>2, <3>1, <4>1, <4>2
    <3>3. CASE n - 1 \notin 1..Len(q)
      <4>1. At(q, n - 1) = NULL /\ At(q, n) = NULL
        BY <1>0, <2>2, <3>3 DEF At, Steps
      <4> QED
        BY <2>2, <3>1, <4>1
    <3> QED
      BY <3>2, <3>3
  <2> QED
    BY <2>1, <2>2
<1>4. h = F(h)
  <2> HIDE DEF F
  <2> QED
    BY <1>3
<1>5. Forward = SubSeq(h, 1, Cardinality({n \in DOMAIN h : h[n] # NULL}))
  BY DEF Forward, Visited
<1> HIDE DEF h, w
<1>6. h = [n \in Steps |-> h[n]] /\ DOMAIN h = Steps
  BY <1>4 DEF Steps
<1>7. Walks(h, q)
  <2>1. h[1] = At(q, 1)
    BY <1>0, <1>1, <1>4
  <2>2. ASSUME NEW n \in Steps, n # 1
        PROVE  /\ h[n - 1] = NULL => h[n] = NULL
               /\ \A i \in 1..Len(q) : h[n - 1] = q[i] => h[n] = At(q, i + 1)
    <3>1. h[n] = IF h[n - 1] = NULL THEN NULL ELSE ListNextElement(h[n - 1])
      BY <1>4, <2>2 DEF Steps
    <3> QED
      BY <1>0, <1>2, <3>1
  <2> QED
    BY <1>6, <2>1, <2>2 DEF Walks
<1> QED
  BY <1>0, <1>5, <1>6, <1>7, WalkVisits

(* ... and ListPrevElement in the opposite one.                            *)
LEMMA BackwardIs ==
    ASSUME NEW q, Chain(q, first, last, elem)
    PROVE  Backward = Reverse(q)
<1> DEFINE F(f) == [n \in 1..(Cardinality(Elems) + 1) |->
                        IF n = 1 THEN ListPrevElement(NULL)
                        ELSE IF f[n - 1] = NULL THEN NULL
                             ELSE ListPrevElement(f[n - 1])]
           h == CHOOSE f : f = F(f)
           r == Reverse(q)
           w == [n \in Steps |-> At(r, n)]
<1>a. /\ q \in Seq(Elems) /\ OnceEach(q) /\ Len(q) \in Nat
      /\ Cardinality(Elems) \in Nat /\ NULL \notin Elems
      /\ \A i \in 1..Len(q) : q[i] \in Elems
  BY OnceEachBound, SeqFacts, ElemsAssumption DEF Chain
<1>b. /\ r \in Seq(Elems) /\ Len(r) = Len(q)
      /\ \A i \in 1..Len(q) : r[i] = q[(Len(q) - i) + 1]
  BY <1>a DEF Reverse
<1> HIDE DEF r
<1>0. /\ r \in Seq(Elems) /\ OnceEach(r) /\ Len(r) \in Nat
      /\ \A i \in 1..Len(r) : r[i] \in Elems
  <2>1. OnceEach(r)
    <3> SUFFICES ASSUME NEW i \in 1..Len(q), NEW j \in 1..Len(q), r[i] = r[j]
                 PROVE  i = j
      BY <1>b DEF OnceEach
    <3>1. (Len(q) - i) + 1 \in 1..Len(q) /\ (Len(q) - j) + 1 \in 1..Len(q)
      BY <1>a
    <3>2. (Len(q) - i) + 1 = (Len(q) - j) + 1
      BY <1>a, <1>b, <3>1 DEF OnceEach
    <3> QED
      BY <1>a, <3>2
  <2> QED
    BY <1>a, <1>b, <2>1, SeqFacts
<1>1. ListPrevElement(NULL) = At(r, 1)
  <2>1. ListPrevElement(NULL) = At(q, Len(q))
    BY DEF ListPrevElement, Chain
  <2>2. CASE Len(q) = 0
    BY <1>b, <2>1, <2>2 DEF At
  <2>3. CASE Len(q) # 0
    <3>1. 1 \in 1..Len(q) /\ (Len(q) - 1) + 1 = Len(q) /\ Len(q) \in 1..Len(q)
      BY <1>a, <2>3
    <3>2. r[1] = q[Len(q)]
      BY <1>b, <3>1
    <3> QED
      BY <1>b, <2>1, <3>1, <3>2 DEF At
  <2> QED
    BY <2>2, <2>3
<1>2. \A i \in 1..Len(r) : ListPrevElement(r[i]) = At(r, i + 1)
  <2> SUFFICES ASSUME NEW i \in 1..Len(r) PROVE ListPrevElement(r[i]) = At(r, i + 1)
    OBVIOUS
  <2> DEFINE k == (Len(q) - i) + 1
  <2>1. k \in 1..Len(q) /\ r[i] = q[k] /\ k - 1 = Len(q) - i
    BY <1>a, <1>b
  <2>2. ListPrevElement(r[i]) = At(q, k - 1)
    <3> HIDE DEF k
    <3> QED
      BY <1>a, <2>1 DEF ListPrevElement, Chain
  <2>3. CASE i < Len(q)
    <3>1. i + 1 \in 1..Len(q) /\ (Len(q) - (i + 1)) + 1 = k - 1 /\ k - 1 \in 1..Len(q)
      BY <1>a, <1>b, <2>3
    <3>2. r[i + 1] = q[k - 1]
      BY <1>b, <3>1
    <3> HIDE DEF k
    <3> QED
      BY <1>b, <2>2, <3>1, <3>2 DEF At
  <2>4. CASE ~(i < Len(q))
    <3>1. i + 1 \notin 1..Len(q) /\ k - 1 \notin 1..Len(q)
      BY <1>a, <1>b, <2>4
    <3> HIDE DEF k
    <3> QED
      BY <1>b, <2>2, <3>1 DEF At
  <2> QED
    BY <2>3, <2>4
<1>3. w = F(w)
  <2> SUFFICES ASSUME NEW n \in Steps
               PROVE  At(r, n) = IF n = 1 THEN ListPrevElement(NULL)
                                 ELSE IF w[n - 1] = NULL THEN NULL
                                      ELSE ListPrevElement(w[n - 1])
    BY DEF Steps
  <2>1. CASE n = 1
    BY <1>1, <2>1
  <2>2. CASE n # 1
    <3>1. n - 1 \in Steps /\ w[n - 1] = At(r, n - 1) /\ (n - 1) + 1 = n
      BY <1>a, <2>2 DEF Steps
    <3> HIDE DEF w
    <3>2. CASE n - 1 \in 1..Len(r)
      <4>1. At(r, n - 1) = r[n - 1] /\ r[n - 1] # NULL
        BY <1>a, <1>0, <3>2 DEF At
      <4>2. ListPrevElement(r[n - 1]) = At(r, n)
        BY <1>2, <3>1, <3>2
      <4> QED
        BY <2>2, <3>1, <4>1, <4>2
    <3>3. CASE n - 1 \notin 1..Len(r)
      <4>1. At(r, n - 1) = NULL /\ At(r, n) = NULL
        BY <1>a, <1>0, <2>2, <3>3 DEF At, Steps
      <4> QED
        BY <2>2, <3>1, <4>1
    <3> QED
      BY <3>2, <3>3
  <2> QED
    BY <2>1, <2>2
<1>4. h = F(h)
  <2> HIDE DEF F
  <2> QED
    BY <1>3
<1>5. Backward = SubSeq(h, 1, Cardinality({n \in DOMAIN h : h[n] # NULL}))
  BY DEF Backward, Visited
<1> HIDE DEF h, w
<1>6. h = [n \in Steps |-> h[n]] /\ DOMAIN h = Steps
  BY <1>4 DEF Steps
<1>7. Walks(h, r)
  <2>1. h[1] = At(r, 1)
    BY <1>a, <1>1, <1>4
  <2>2. ASSUME NEW n \in Steps, n # 1
        PROVE  /\ h[n - 1] = NULL => h[n] = NULL
               /\ \A i \in 1..Len(r) : h[n - 1] = r[i] => h[n] = At(r, i + 1)
    <3>1. h[n] = IF h[n - 1] = NULL THEN NULL ELSE ListPrevElement(h[n - 1])
      BY <1>4, <2>2 DEF Steps
    <3> QED
      BY <1>a, <1>0, <1>2, <3>1
  <2> QED
    BY <1>6, <2>1, <2>2 DEF Walks
<1>8. Backward = r
  BY <1>0, <1>5, <1>6, <1>7, WalkVisits
<1> QED
  BY <1>8 DEF r

LEMMA VisitsChain ==
    \A q : Chain(q, first, last, elem) => Forward = q /\ Backward = Reverse(q)
BY ForwardIs, BackwardIs

(* The same of the state after a step.                                     *)
LEMMA VisitsChainAfter ==
    \A q : Chain(q, first', last', elem') => Forward' = q /\ Backward' = Reverse(q)
<1>1. (\A q : Chain(q, first, last, elem) => Forward = q /\ Backward = Reverse(q))'
  BY VisitsChain, PTL
<1> QED
  BY <1>1 DEF Chain

-----------------------------------------------------------------------------
(* The pointers after an operation                                         *)

(* Facts about a chain that the operations use.                            *)
LEMMA ChainFacts ==
    ASSUME NEW q, NEW fst, NEW lst, NEW el, Chain(q, fst, lst, el)
    PROVE  /\ q \in Seq(Elems) /\ Len(q) \in Nat /\ NULL \notin Elems
           /\ \A i \in 1..Len(q) : q[i] \in Elems /\ q[i] # NULL
           /\ \A i, j \in 1..Len(q) : q[i] = q[j] => i = j
           /\ \A x : x \in ToSet(q) <=> \E i \in 1..Len(q) : q[i] = x
           /\ fst = At(q, 1) /\ lst = At(q, Len(q))
           /\ \A i \in 1..Len(q) : /\ el[q[i]].next = At(q, i + 1)
                                   /\ el[q[i]].prev = At(q, i - 1)
<1>1. q \in Seq(Elems) /\ NULL \notin Elems
  BY ElemsAssumption DEF Chain
<1>2. /\ Len(q) \in Nat /\ \A i \in 1..Len(q) : q[i] \in Elems
      /\ \A x : x \in ToSet(q) <=> \E i \in 1..Len(q) : q[i] = x
  BY <1>1, SeqFacts
<1> QED
  BY <1>1, <1>2 DEF Chain, OnceEach

(* ListAppend                                                              *)
Links(fst, lst, el, newel, el2) ==
    /\ el2[newel].prev = lst /\ el2[newel].next = NULL
    /\ \A x \in Elems \ {newel} :
        /\ el2[x].prev = el[x].prev
        /\ el2[x].next = IF x = lst /\ fst # NULL THEN newel ELSE el[x].next

LEMMA ChainAppend ==
    ASSUME NEW q, NEW fst, NEW lst, NEW el \in [Elems -> Cell], Chain(q, fst, lst, el),
           NEW newel \in Elems \ ToSet(q), NEW el2, Links(fst, lst, el, newel, el2)
    PROVE  Chain(Append(q, newel), IF fst = NULL THEN newel ELSE fst, newel, el2)
<1> DEFINE n == Len(q)
           r == Append(q, newel)
<1>0. /\ q \in Seq(Elems) /\ n \in Nat /\ NULL \notin Elems
      /\ \A i \in 1..n : q[i] \in Elems /\ q[i] # NULL /\ q[i] # newel
      /\ \A i, j \in 1..n : q[i] = q[j] => i = j
      /\ fst = At(q, 1) /\ lst = At(q, n)
  BY ChainFacts
<1>l. \A i \in 1..n : el[q[i]].next = At(q, i + 1) /\ el[q[i]].prev = At(q, i - 1)
  BY ChainFacts
<1>1. /\ r \in Seq(Elems) /\ Len(r) = n + 1 /\ r[n + 1] = newel
      /\ \A i \in 1..n : r[i] = q[i]
  BY <1>0, AppendProperties
<1> HIDE DEF n, r
<1>2. /\ el2[newel].prev = lst /\ el2[newel].next = NULL
      /\ \A x \in Elems \ {newel} :
            /\ el2[x].prev = el[x].prev
            /\ el2[x].next = IF x = lst /\ fst # NULL THEN newel ELSE el[x].next
  BY DEF Links
<1>3. /\ \A i \in Int : i \notin 1..n => At(q, i) = NULL
      /\ \A i \in 1..n : At(q, i) = q[i] /\ At(r, i) = q[i]
      /\ At(r, n + 1) = newel
      /\ \A i \in Int : i \notin 1..(n + 1) => At(r, i) = NULL
  BY <1>0, <1>1 DEF At, n
<1>4. OnceEach(r)
  BY <1>0, <1>1 DEF OnceEach
<1>5. (IF fst = NULL THEN newel ELSE fst) = At(r, 1)
  <2>1. CASE n = 0
    BY <1>0, <1>3, <2>1
  <2>2. CASE n # 0
    BY <1>0, <1>3, <2>2
  <2> QED
    BY <2>1, <2>2
<1>6. ASSUME NEW i \in 1..n
      PROVE  el2[r[i]].next = At(r, i + 1) /\ el2[r[i]].prev = At(r, i - 1)
  <2>0. i \in Nat /\ i >= 1 /\ i <= n
    BY <1>0
  <2>1. r[i] = q[i] /\ q[i] \in Elems \ {newel} /\ fst # NULL
    <3>1. 1 \in 1..n
      BY <1>0, <2>0
    <3> QED
      BY <1>0, <1>1, <1>3, <3>1
  <2>2. At(r, i - 1) = At(q, i - 1)
    <3>1. i - 1 \in 1..n \/ (i - 1 \in Int /\ i - 1 \notin 1..(n + 1) /\ i - 1 \notin 1..n)
      BY <1>0, <2>0
    <3> QED
      BY <1>3, <3>1
  <2>3. CASE i = n
    <3>1. q[i] = lst /\ At(r, i + 1) = newel
      BY <1>0, <1>3, <2>3
    <3> QED
      BY <1>l, <1>2, <2>1, <2>2, <3>1
  <2>4. CASE i # n
    <3>1. i + 1 \in 1..n /\ n \in 1..n
      BY <1>0, <2>0, <2>4
    <3>2. q[i] # lst /\ At(r, i + 1) = At(q, i + 1)
      BY <1>0, <1>3, <2>4, <3>1
    <3> QED
      BY <1>l, <1>2, <2>1, <2>2, <3>2
  <2> QED
    BY <2>3, <2>4
<1>7. el2[r[n + 1]].next = At(r, (n + 1) + 1) /\ el2[r[n + 1]].prev = At(r, (n + 1) - 1)
  <2>1. (n + 1) - 1 = n /\ (n + 1) + 1 \notin 1..(n + 1) /\ (n + 1) + 1 \in Int
    <3> HIDE DEF n
    <3>1. n \in Nat
      BY <1>0
    <3> QED
      BY <3>1
  <2>2. At(r, n) = lst
    BY <1>0, <1>3
  <2> QED
    BY <1>1, <1>2, <1>3, <2>1, <2>2
<1>8. \A i \in 1..(n + 1) : i \in 1..n \/ i = n + 1
  BY <1>0
<1>9. Chain(r, IF fst = NULL THEN newel ELSE fst, newel, el2)
  BY <1>1, <1>3, <1>4, <1>5, <1>6, <1>7, <1>8 DEF Chain
<1> QED
  BY <1>9 DEF r

(* ListInsert before element k                                             *)
PutIn(q, k, newel, r) ==
    /\ r \in Seq(Elems) /\ Len(r) = Len(q) + 1
    /\ \A j \in 1..(Len(q) + 1) :
        r[j] = IF j < k THEN q[j] ELSE IF j = k THEN newel ELSE q[j - 1]

LinksBefore(el, index, newel, el2) ==
    /\ el2[newel].prev = el[index].prev /\ el2[newel].next = index
    /\ \A x \in Elems \ {newel} :
        /\ el2[x].prev = IF x = index THEN newel ELSE el[x].prev
        /\ el2[x].next = IF x = el[index].prev THEN newel ELSE el[x].next

LEMMA ChainInsert ==
    ASSUME NEW q, NEW fst, NEW lst, NEW el \in [Elems -> Cell], Chain(q, fst, lst, el),
           NEW newel \in Elems \ ToSet(q), NEW k \in 1..Len(q), NEW index,
           index = q[k], NEW r, PutIn(q, k, newel, r),
           NEW el2, LinksBefore(el, index, newel, el2)
    PROVE  Chain(r, IF el[index].prev = NULL THEN newel ELSE fst, lst, el2)
<1> DEFINE n == Len(q)
<1>0. /\ q \in Seq(Elems) /\ n \in Nat /\ NULL \notin Elems /\ k \in 1..n
      /\ \A i \in 1..n : q[i] \in Elems /\ q[i] # NULL /\ q[i] # newel
      /\ \A i, j \in 1..n : q[i] = q[j] => i = j
      /\ fst = At(q, 1) /\ lst = At(q, n)
  BY ChainFacts
<1>l. \A i \in 1..n : el[q[i]].next = At(q, i + 1) /\ el[q[i]].prev = At(q, i - 1)
  BY ChainFacts
<1>1. /\ r \in Seq(Elems) /\ Len(r) = n + 1
      /\ \A j \in 1..(n + 1) : r[j] = IF j < k THEN q[j] ELSE IF j = k THEN newel ELSE q[j - 1]
  BY DEF PutIn
<1> HIDE DEF n
<1>2. /\ el2[newel].prev = At(q, k - 1) /\ el2[newel].next = q[k]
      /\ \A x \in Elems \ {newel} :
            /\ el2[x].prev = IF x = q[k] THEN newel ELSE el[x].prev
            /\ el2[x].next = IF x = At(q, k - 1) THEN newel ELSE el[x].next
  <2>1. el[index].prev = At(q, k - 1)
    BY <1>0, <1>l
  <2> QED
    BY <2>1 DEF LinksBefore
<1>3. /\ \A i \in Int : At(q, i) = IF i \in 1..n THEN q[i] ELSE NULL
      /\ \A i \in Int : At(r, i) = IF i \in 1..(n + 1) THEN r[i] ELSE NULL
  BY <1>0, <1>1 DEF At, n
<1>4. OnceEach(r)
  <2> SUFFICES ASSUME NEW i \in 1..(n + 1), NEW j \in 1..(n + 1), r[i] = r[j]
               PROVE  i = j
    BY <1>1 DEF OnceEach
  <2> DEFINE o(m) == IF m < k THEN m ELSE m - 1
  <2>1. /\ i # k => o(i) \in 1..n /\ r[i] = q[o(i)]
        /\ j # k => o(j) \in 1..n /\ r[j] = q[o(j)]
        /\ i = k => r[i] = newel
        /\ j = k => r[j] = newel
    <3>1. \A m \in 1..(n + 1) : m # k => o(m) \in 1..n /\ r[m] = q[o(m)]
      <4> SUFFICES ASSUME NEW m \in 1..(n + 1), m # k
                   PROVE  o(m) \in 1..n /\ r[m] = q[o(m)]
        OBVIOUS
      <4>1. o(m) \in 1..n
        BY <1>0
      <4>2. r[m] = IF m < k THEN q[m] ELSE q[m - 1]
        BY <1>1
      <4> QED
        BY <4>1, <4>2
    <3>2. k \in 1..(n + 1) /\ r[k] = newel
      BY <1>0, <1>1
    <3> QED
      BY <3>1, <3>2
  <2>2. CASE i # k /\ j # k
    <3>1. o(i) = o(j)
      <4> HIDE DEF o
      <4> QED
        BY <1>0, <2>1, <2>2
    <3> QED
      BY <1>0, <2>2, <3>1
  <2>3. CASE i = k \/ j = k
    <3> HIDE DEF o
    <3> QED
      BY <1>0, <2>1, <2>3
  <2> QED
    BY <2>2, <2>3
<1>5. (IF el[index].prev = NULL THEN newel ELSE fst) = At(r, 1)
  <2>0. el[index].prev = At(q, k - 1) /\ k - 1 \in Int /\ 1 \in 1..(n + 1) /\ 1 \in 1..n
    BY <1>0, <1>l
  <2>1. CASE k = 1
    <3>1. k - 1 \notin 1..n /\ At(r, 1) = r[1] /\ r[1] = newel
      BY <1>0, <1>1, <1>3, <2>0, <2>1
    <3> QED
      BY <1>3, <2>0, <3>1
  <2>2. CASE k # 1
    <3>1. k - 1 \in 1..n /\ 1 < k
      BY <1>0, <2>2
    <3>2. At(q, k - 1) # NULL
      BY <1>0, <1>3, <2>0, <3>1
    <3>3. At(r, 1) = q[1] /\ fst = q[1]
      <4>1. r[1] = q[1]
        BY <1>1, <2>0, <3>1
      <4> QED
        BY <1>0, <1>3, <2>0, <4>1
    <3> QED
      BY <2>0, <3>2, <3>3
  <2> QED
    BY <2>1, <2>2
<1>6. lst = At(r, n + 1)
  <2>1. n + 1 \in 1..(n + 1) /\ ~(n + 1 < k) /\ n + 1 # k /\ (n + 1) - 1 = n /\ n \in 1..n
    BY <1>0
  <2>2. r[n + 1] = q[n]
    BY <1>1, <2>1
  <2>3. n + 1 \in Int /\ n \in Int
    BY <1>0
  <2>4. At(r, n + 1) = r[n + 1] /\ At(q, n) = q[n]
    BY <1>3, <2>1, <2>3
  <2> QED
    BY <1>0, <2>2, <2>4
<1>a. /\ \A i \in Int : i < k => At(r, i) = At(q, i)
      /\ At(r, k) = newel
      /\ \A i \in Int : i > k => At(r, i) = At(q, i - 1)
  <2>1. ASSUME NEW i \in Int, i < k PROVE At(r, i) = At(q, i)
    <3>1. CASE i >= 1
      <4>1. i \in 1..n /\ i \in 1..(n + 1)
        BY <1>0, <2>1, <3>1
      <4> QED
        BY <1>1, <1>3, <2>1, <4>1
    <3>2. CASE ~(i >= 1)
      <4>1. i \notin 1..n /\ i \notin 1..(n + 1)
        BY <3>2
      <4> QED
        BY <1>3, <4>1
    <3> QED
      BY <3>1, <3>2
  <2>2. At(r, k) = newel
    <3>1. k \in 1..(n + 1) /\ k \in Int /\ ~(k < k)
      BY <1>0
    <3> QED
      BY <1>1, <1>3, <3>1
  <2>3. ASSUME NEW i \in Int, i > k PROVE At(r, i) = At(q, i - 1)
    <3>0. ~(i < k) /\ i # k /\ i - 1 \in Int
      BY <1>0, <2>3
    <3>1. CASE i <= n + 1
      <4>1. i - 1 \in 1..n /\ i \in 1..(n + 1)
        BY <1>0, <2>3, <3>1
      <4> QED
        BY <1>1, <1>3, <3>0, <4>1
    <3>2. CASE ~(i <= n + 1)
      <4>1. i - 1 \notin 1..n /\ i \notin 1..(n + 1)
        BY <1>0, <3>2
      <4> QED
        BY <1>3, <3>0, <4>1
    <3> QED
      BY <3>1, <3>2
  <2> QED
    BY <2>1, <2>2, <2>3
<1>7. ASSUME NEW i \in 1..(n + 1)
      PROVE  el2[r[i]].next = At(r, i + 1) /\ el2[r[i]].prev = At(r, i - 1)
  <2>0. i \in Nat /\ i - 1 \in Int /\ i + 1 \in Int /\ k \in Nat /\ k \in 1..n /\ k - 1 \in Int
    BY <1>0
  <2>1. CASE i < k
    <3>1. i \in 1..n /\ i - 1 < k
      BY <1>0, <2>0, <2>1
    <3>2. r[i] = q[i] /\ q[i] \in Elems \ {newel} /\ q[i] # q[k]
      BY <1>0, <1>1, <2>0, <2>1, <3>1
    <3>3. el2[q[i]].prev = At(r, i - 1)
      BY <1>l, <1>2, <1>a, <2>0, <3>1, <3>2
    <3>4. CASE i = k - 1
      <4>1. At(q, k - 1) = q[i] /\ i + 1 = k
        BY <1>3, <2>0, <3>1, <3>4
      <4> QED
        BY <1>2, <1>a, <3>2, <3>3, <4>1
    <3>5. CASE i # k - 1
      <4>1. i + 1 < k /\ k - 1 \in 1..n
        <5>1. k <= n /\ n \in Nat
          BY <1>0
        <5> QED
          BY <2>0, <2>1, <3>1, <3>5, <5>1
      <4>2. q[i] # At(q, k - 1)
        BY <1>0, <1>3, <2>0, <3>1, <3>5, <4>1
      <4>3. At(r, i + 1) = At(q, i + 1)
        BY <1>a, <2>0, <4>1
      <4> QED
        BY <1>l, <1>2, <3>1, <3>2, <3>3, <4>2, <4>3
    <3> QED
      BY <3>4, <3>5
  <2>2. CASE i = k
    <3>1. r[i] = newel
      BY <1>1, <2>0, <2>2
    <3>2. k + 1 > k /\ (k + 1) - 1 = k /\ k - 1 < k
      BY <2>0
    <3>3. At(r, i + 1) = q[k] /\ At(r, i - 1) = At(q, k - 1)
      BY <1>3, <1>a, <2>0, <2>2, <3>2
    <3> QED
      BY <1>2, <3>1, <3>3
  <2>3. CASE i > k
    <3> DEFINE h == i - 1
    <3>1. h \in 1..n /\ h \in Int /\ h >= k /\ h + 1 = (i + 1) - 1 /\ i + 1 > k /\ h = i - 1
      BY <1>0, <2>0, <2>3
    <3>2. r[i] = q[h]
      <4>1. ~(i < k) /\ i # k
        BY <2>0, <2>3
      <4> QED
        BY <1>1, <4>1
    <3> HIDE DEF h
    <3>3. q[h] \in Elems \ {newel}
      BY <1>0, <3>1
    <3>4. q[h] # At(q, k - 1)
      <4>1. CASE k - 1 \in 1..n
        <5>1. h # k - 1
          BY <2>0, <3>1
        <5> QED
          BY <1>0, <1>3, <2>0, <3>1, <4>1, <5>1
      <4>2. CASE k - 1 \notin 1..n
        BY <1>0, <1>3, <2>0, <3>1, <4>2
      <4> QED
        BY <4>1, <4>2
    <3>5. At(r, i + 1) = At(q, h + 1)
      BY <1>a, <2>0, <3>1
    <3>6. el2[q[h]].next = At(r, i + 1)
      BY <1>l, <1>2, <3>1, <3>3, <3>4, <3>5
    <3>7. CASE h = k
      BY <1>2, <1>a, <3>1, <3>2, <3>3, <3>6, <3>7
    <3>8. CASE h # k
      <4>1. h > k /\ q[h] # q[k]
        BY <1>0, <2>0, <3>1, <3>8
      <4>2. At(r, h) = At(q, h - 1)
        BY <1>a, <3>1, <4>1
      <4> QED
        BY <1>l, <1>2, <3>1, <3>2, <3>3, <3>6, <4>1, <4>2
    <3> QED
      BY <3>7, <3>8
  <2>4. i < k \/ i = k \/ i > k
    BY <2>0
  <2> QED
    BY <2>1, <2>2, <2>3, <2>4
<1>8. Chain(r, IF el[index].prev = NULL THEN newel ELSE fst, lst, el2)
  BY <1>1, <1>3, <1>4, <1>5, <1>6, <1>7 DEF Chain
<1> QED
  BY <1>8

(* Element k of q is taken out ...                                         *)
TakenOut(q, k, r) ==
    /\ r \in Seq(Elems) /\ Len(r) = Len(q) - 1
    /\ \A j \in 1..(Len(q) - 1) : r[j] = IF j < k THEN q[j] ELSE q[j + 1]

(* ... and the elements around it, e, are linked to each other.            *)
Unlinks(el, e, el2) ==
    \A x \in Elems \ {e} :
        /\ el2[x].next = IF x = el[e].prev THEN el[e].next ELSE el[x].next
        /\ el2[x].prev = IF x = el[e].next THEN el[e].prev ELSE el[x].prev

LEMMA ChainRemove ==
    ASSUME NEW q, NEW fst, NEW lst, NEW el \in [Elems -> Cell], Chain(q, fst, lst, el),
           NEW k \in 1..Len(q), NEW e, e = q[k],
           NEW r, TakenOut(q, k, r), NEW el2, Unlinks(el, e, el2)
    PROVE  Chain(r, IF el[e].prev = NULL THEN el[e].next ELSE fst,
                    IF el[e].next = NULL THEN el[e].prev ELSE lst, el2)
<1> DEFINE n == Len(q)
<1>0. /\ q \in Seq(Elems) /\ n \in Nat /\ NULL \notin Elems /\ k \in 1..n
      /\ k \in Nat /\ k >= 1 /\ k <= n
      /\ \A i \in 1..n : q[i] \in Elems /\ q[i] # NULL
      /\ \A i, j \in 1..n : q[i] = q[j] => i = j
      /\ fst = At(q, 1) /\ lst = At(q, n)
  <2>1. /\ q \in Seq(Elems) /\ n \in Nat /\ NULL \notin Elems
        /\ \A i \in 1..n : q[i] \in Elems /\ q[i] # NULL
        /\ \A i, j \in 1..n : q[i] = q[j] => i = j
        /\ fst = At(q, 1) /\ lst = At(q, n)
    BY ChainFacts, ZenonT(30)
  <2>2. k \in 1..n /\ k \in Nat /\ k >= 1 /\ k <= n
    BY <2>1
  <2> QED
    BY <2>1, <2>2
<1>l. \A i \in 1..n : el[q[i]].next = At(q, i + 1) /\ el[q[i]].prev = At(q, i - 1)
  BY DEF Chain
<1>1. /\ r \in Seq(Elems) /\ Len(r) = n - 1
      /\ \A j \in 1..(n - 1) : r[j] = IF j < k THEN q[j] ELSE q[j + 1]
  BY DEF TakenOut
<1>3. /\ \A i \in Int : At(q, i) = IF i \in 1..n THEN q[i] ELSE NULL
      /\ \A i \in Int : At(r, i) = IF i \in 1..(n - 1) THEN r[i] ELSE NULL
  BY <1>0, <1>1 DEF At
<1> HIDE DEF n
<1> DEFINE p == At(q, k - 1)
           s == At(q, k + 1)
<1>2. el[e].prev = p /\ el[e].next = s
  BY <1>0, <1>l
<1>4. \A x \in Elems \ {e} :
        /\ el2[x].next = IF x = p THEN s ELSE el[x].next
        /\ el2[x].prev = IF x = s THEN p ELSE el[x].prev
  <2> HIDE DEF p, s
  <2> QED
    BY <1>2 DEF Unlinks
<1>5. /\ \A i \in Int : i < k => At(r, i) = At(q, i)
      /\ \A i \in Int : i >= k => At(r, i) = At(q, i + 1)
  <2>1. ASSUME NEW i \in Int, i < k PROVE At(r, i) = At(q, i)
    <3>1. CASE i >= 1
      <4>1. i \in 1..n /\ i \in 1..(n - 1)
        BY <1>0, <2>1, <3>1
      <4>2. r[i] = q[i]
        BY <1>1, <2>1, <4>1
      <4> QED
        BY <1>3, <4>1, <4>2
    <3>2. CASE ~(i >= 1)
      <4>1. i \notin 1..n /\ i \notin 1..(n - 1)
        BY <3>2
      <4> QED
        BY <1>3, <4>1
    <3> QED
      BY <3>1, <3>2
  <2>2. ASSUME NEW i \in Int, i >= k PROVE At(r, i) = At(q, i + 1)
    <3>0. ~(i < k) /\ i + 1 \in Int
      BY <1>0, <2>2
    <3>1. CASE i <= n - 1
      <4>1. i + 1 \in 1..n /\ i \in 1..(n - 1)
        BY <1>0, <2>2, <3>1
      <4>2. r[i] = q[i + 1]
        BY <1>1, <3>0, <4>1
      <4> QED
        BY <1>3, <3>0, <4>1, <4>2
    <3>2. CASE ~(i <= n - 1)
      <4>1. i + 1 \notin 1..n /\ i \notin 1..(n - 1)
        BY <1>0, <3>2
      <4> QED
        BY <1>3, <3>0, <4>1
    <3> QED
      BY <3>1, <3>2
  <2> QED
    BY <2>1, <2>2
<1>6. \A i \in 1..(n - 1) : LET h == IF i < k THEN i ELSE i + 1
                            IN  h \in 1..n /\ h # k /\ r[i] = q[h]
  BY <1>0, <1>1
<1>7. OnceEach(r)
  <2> SUFFICES ASSUME NEW i \in 1..(n - 1), NEW j \in 1..(n - 1), r[i] = r[j]
               PROVE  i = j
    BY <1>1 DEF OnceEach
  <2> DEFINE h == IF i < k THEN i ELSE i + 1
             g == IF j < k THEN j ELSE j + 1
  <2>1. h \in 1..n /\ g \in 1..n /\ r[i] = q[h] /\ r[j] = q[g]
    BY <1>6
  <2>2. h = g
    <3>1. \A a, b \in 1..n : q[a] = q[b] => a = b
      BY <1>0
    <3>2. q[h] = q[g]
      BY <2>1
    <3> HIDE DEF h, g
    <3> QED
      BY <2>1, <3>1, <3>2, Zenon
  <2> QED
    BY <1>0, <2>2
<1>8. (IF el[e].prev = NULL THEN el[e].next ELSE fst) = At(r, 1)
  <2>1. CASE k = 1
    <3>1. k - 1 \notin 1..n /\ k - 1 \in Int /\ 1 \in Int /\ 1 >= k /\ k + 1 = 1 + 1
      BY <1>0, <2>1
    <3>2. p = NULL /\ At(r, 1) = s
      <4>1. p = NULL
        BY <1>3, <3>1
      <4>2. At(r, 1) = At(q, 1 + 1)
        BY <1>5, <3>1
      <4> QED
        BY <3>1, <4>1, <4>2
    <3> HIDE DEF p, s
    <3> QED
      BY <1>2, <3>2
  <2>2. CASE k # 1
    <3>1. k - 1 \in 1..n /\ k - 1 \in Int /\ 1 \in Int /\ 1 < k
      BY <1>0, <2>2
    <3>2. p # NULL
      BY <1>0, <1>3, <3>1
    <3>3. At(r, 1) = At(q, 1)
      BY <1>5, <3>1
    <3> HIDE DEF p, s
    <3> QED
      BY <1>0, <1>2, <3>2, <3>3
  <2> QED
    BY <2>1, <2>2
<1>9. (IF el[e].next = NULL THEN el[e].prev ELSE lst) = At(r, n - 1)
  <2>1. CASE k = n
    <3>1. k + 1 \notin 1..n /\ k + 1 \in Int /\ n - 1 \in Int /\ n - 1 < k /\ n - 1 = k - 1
      BY <1>0, <2>1
    <3>2. s = NULL
      BY <1>3, <3>1
    <3>3. At(r, n - 1) = p
      BY <1>5, <3>1
    <3> HIDE DEF p, s
    <3> QED
      BY <1>2, <3>2, <3>3
  <2>2. CASE k # n
    <3>1. k + 1 \in 1..n /\ k + 1 \in Int /\ n - 1 \in Int /\ n - 1 >= k /\ (n - 1) + 1 = n
      BY <1>0, <2>2
    <3>2. s # NULL
      BY <1>0, <1>3, <3>1
    <3>3. At(r, n - 1) = At(q, n)
      BY <1>5, <3>1
    <3> HIDE DEF p, s
    <3> QED
      BY <1>0, <1>2, <3>2, <3>3
  <2> QED
    BY <2>1, <2>2
<1>10. ASSUME NEW i \in 1..(n - 1)
       PROVE  el2[r[i]].next = At(r, i + 1) /\ el2[r[i]].prev = At(r, i - 1)
  <2>0. i \in Nat /\ i - 1 \in Int /\ i + 1 \in Int
    BY <1>0
  <2>1. PICK h \in 1..n : h = (IF i < k THEN i ELSE i + 1) /\ h # k /\ r[i] = q[h]
    BY <1>6
  <2>2. q[h] \in Elems \ {e}
    BY <1>0, <2>1
  <2>3. h \in Nat /\ h + 1 \in Int /\ h - 1 \in Int /\ k - 1 \in Int /\ k + 1 \in Int
    BY <1>0, <2>1
  <2>4. q[h] = p <=> h = k - 1
    <3>1. CASE k - 1 \in 1..n
      BY <1>0, <1>3, <2>1, <2>3, <3>1
    <3>2. CASE k - 1 \notin 1..n
      BY <1>0, <1>3, <2>1, <2>3, <3>2
    <3> QED
      BY <3>1, <3>2
  <2>5. q[h] = s <=> h = k + 1
    <3>1. CASE k + 1 \in 1..n
      BY <1>0, <1>3, <2>1, <2>3, <3>1
    <3>2. CASE k + 1 \notin 1..n
      BY <1>0, <1>3, <2>1, <2>3, <3>2
    <3> QED
      BY <3>1, <3>2
  <2>6. /\ el2[q[h]].next = IF h = k - 1 THEN At(q, k + 1) ELSE At(q, h + 1)
        /\ el2[q[h]].prev = IF h = k + 1 THEN At(q, k - 1) ELSE At(q, h - 1)
    BY <1>l, <1>4, <2>1, <2>2, <2>4, <2>5
  <2>7. CASE i < k
    <3>1. h = i /\ i # k + 1 /\ i - 1 < k
      BY <1>0, <2>0, <2>1, <2>7
    <3>2. At(r, i - 1) = At(q, i - 1)
      BY <1>5, <2>0, <3>1
    <3>3. CASE i = k - 1
      <4>1. i + 1 >= k /\ (i + 1) + 1 = k + 1
        BY <1>0, <3>3
      <4>2. At(r, i + 1) = At(q, k + 1)
        BY <1>5, <2>0, <4>1
      <4> QED
        BY <2>1, <2>6, <3>1, <3>2, <3>3, <4>2
    <3>4. CASE i # k - 1
      <4>1. i + 1 < k
        BY <1>0, <2>0, <2>7, <3>4
      <4>2. At(r, i + 1) = At(q, i + 1)
        BY <1>5, <2>0, <4>1
      <4> QED
        BY <2>1, <2>6, <3>1, <3>2, <3>4, <4>2
    <3> QED
      BY <3>3, <3>4
  <2>8. CASE ~(i < k)
    <3>1. h = i + 1 /\ h # k - 1 /\ i + 1 >= k /\ i >= k
      BY <1>0, <2>0, <2>1, <2>8
    <3>2. At(r, i + 1) = At(q, h + 1)
      BY <1>5, <2>0, <3>1
    <3>3. CASE h = k + 1
      <4>1. i - 1 < k /\ i - 1 = k - 1
        BY <1>0, <2>0, <3>1, <3>3
      <4>2. At(r, i - 1) = At(q, k - 1)
        BY <1>5, <2>0, <4>1
      <4> QED
        BY <2>1, <2>6, <3>1, <3>2, <3>3, <4>2
    <3>4. CASE h # k + 1
      <4>1. i - 1 >= k /\ (i - 1) + 1 = h - 1
        BY <1>0, <2>0, <3>1, <3>4
      <4>2. At(r, i - 1) = At(q, h - 1)
        BY <1>5, <2>0, <4>1
      <4> QED
        BY <2>1, <2>6, <3>1, <3>2, <3>4, <4>2
    <3> QED
      BY <3>3, <3>4
  <2> QED
    BY <2>7, <2>8
<1>11. Chain(r, IF el[e].prev = NULL THEN el[e].next ELSE fst,
                IF el[e].next = NULL THEN el[e].prev ELSE lst, el2)
  BY <1>1, <1>7, <1>8, <1>9, <1>10 DEF Chain
<1> QED
  BY <1>11

-----------------------------------------------------------------------------
(* The list after an operation                                             *)

(* Facts about a list that the operations use.                             *)
LEMMA ListFacts ==
    ASSUME NEW q, ListOf(q)
    PROVE  /\ q \in Seq(Elems) /\ Len(q) \in Nat /\ count = Len(q)
           /\ alloc = ToSet(q) /\ alloc \subseteq Elems /\ NULL \notin Elems
           /\ NULL \notin Contents
           /\ \A i \in 1..Len(q) : q[i] \in alloc
           /\ \A x \in alloc : \E i \in 1..Len(q) : q[i] = x
           /\ \A i, j \in 1..Len(q) : q[i] = q[j] => i = j
           /\ Forward = q /\ Backward = Reverse(q)
<1>1. Chain(q, first, last, elem) /\ alloc = ToSet(q) /\ count = Len(q)
  BY DEF ListOf
<1>2. /\ q \in Seq(Elems) /\ Len(q) \in Nat /\ NULL \notin Elems
      /\ \A i \in 1..Len(q) : q[i] \in Elems
      /\ \A i, j \in 1..Len(q) : q[i] = q[j] => i = j
      /\ \A x : x \in ToSet(q) <=> \E i \in 1..Len(q) : q[i] = x
  BY <1>1, ChainFacts
<1> QED
  BY <1>1, <1>2, VisitsChain, ElemsAssumption

(* Element k is taken out of q.                                            *)
LEMMA Removed ==
    ASSUME NEW q \in Seq(Elems), NEW k \in 1..Len(q),
           \A i, j \in 1..Len(q) : q[i] = q[j] => i = j
    PROVE  /\ RemoveAt(q, k) \in Seq(Elems) /\ Len(RemoveAt(q, k)) = Len(q) - 1
           /\ \A j \in 1..(Len(q) - 1) :
                RemoveAt(q, k)[j] = IF j < k THEN q[j] ELSE q[j + 1]
           /\ ToSet(RemoveAt(q, k)) = ToSet(q) \ {q[k]}
<1> DEFINE r == RemoveAt(q, k)
           n == Len(q)
<1>1. /\ r \in Seq(Elems) /\ Len(r) = n - 1
      /\ \A j \in 1..(n - 1) : r[j] = IF j < k THEN q[j] ELSE q[j + 1]
  BY RemoveAtFacts
<1>2. /\ n \in Nat /\ k \in 1..n /\ k \in Nat
      /\ \A i, j \in 1..n : q[i] = q[j] => i = j
      /\ \A x : x \in ToSet(q) <=> \E i \in 1..n : q[i] = x
  BY SeqFacts
<1>3. \A x : x \in ToSet(r) <=> \E i \in 1..(n - 1) : r[i] = x
  <2> HIDE DEF r
  <2> QED
    BY <1>1, SeqFacts
<1> HIDE DEF r, n
<1>4. ASSUME NEW x \in ToSet(r) PROVE x \in ToSet(q) \ {q[k]}
  <2>1. PICK j \in 1..(n - 1) : r[j] = x
    BY <1>3
  <2> DEFINE h == IF j < k THEN j ELSE j + 1
  <2>2. h \in 1..n /\ h # k /\ x = q[h]
    BY <1>1, <1>2, <2>1
  <2> HIDE DEF h
  <2> QED
    BY <1>2, <2>2
<1>5. ASSUME NEW x \in ToSet(q) \ {q[k]} PROVE x \in ToSet(r)
  <2>1. PICK i \in 1..n : q[i] = x /\ i # k
    BY <1>2
  <2>2. CASE i < k
    <3>1. i \in 1..(n - 1) /\ r[i] = x
      BY <1>1, <1>2, <2>1, <2>2
    <3> QED
      BY <1>3, <3>1
  <2>3. CASE i > k
    <3>1. i - 1 \in 1..(n - 1) /\ ~(i - 1 < k) /\ (i - 1) + 1 = i
      BY <1>2, <2>1, <2>3
    <3>2. r[i - 1] = x
      BY <1>1, <2>1, <3>1
    <3> QED
      BY <1>3, <3>1, <3>2
  <2> QED
    BY <1>2, <2>1, <2>2, <2>3
<1> QED
  BY <1>1, <1>4, <1>5 DEF r, n

(* What unlinking e does to each field of each cell.                       *)
LEMMA WithoutIs ==
    ASSUME NEW q, ListOf(q), NEW k \in 1..Len(q), NEW e, e = q[k]
    PROVE  /\ without(e) \in [Elems -> Cell]
           /\ \A x \in Elems \ {e} :
                /\ without(e)[x].next = IF x = elem[e].prev THEN elem[e].next ELSE elem[x].next
                /\ without(e)[x].prev = IF x = elem[e].next THEN elem[e].prev ELSE elem[x].prev
                /\ without(e)[x].content = elem[x].content
<1> DEFINE p == elem[e].prev
           s == elem[e].next
           w == without(e)
<1>1. /\ NULL \notin Elems /\ e \in Elems /\ Len(q) \in Nat
      /\ \A i, j \in 1..Len(q) : q[i] = q[j] => i = j
  BY ListFacts
<1>2. elem \in [Elems -> Cell]
  BY DEF ListOf
<1>3. s = At(q, k + 1) /\ p = At(q, k - 1)
  BY DEF ListOf, Chain
<1>4. p \in Pointer /\ s \in Pointer
  BY <1>1, <1>2 DEF Cell
<1>5. \A x \in Elems : ~(x = p /\ x = s)
  <2>1. k - 1 # k + 1
    BY <1>1
  <2> HIDE DEF p, s
  <2> QED
    BY <1>1, <1>3, <2>1 DEF At
<1>a. w = [x \in Elems |-> CASE x = e -> Freed
                             [] x = p -> [elem[x] EXCEPT !.next = s]
                             [] x = s -> [elem[x] EXCEPT !.prev = p]
                             [] OTHER -> elem[x]]
  BY DEF without
<1>p. p # e /\ s # e
  <2>1. k - 1 # k /\ k + 1 # k
    BY <1>1
  <2> HIDE DEF p, s
  <2> QED
    BY <1>1, <1>3, <2>1 DEF At
<1> HIDE DEF p, s, w
<1>6. w[e] = Freed
  BY <1>a, <1>1, <1>p
<1>7. \A x \in Elems \ {e} :
        w[x] = IF x = p THEN [elem[x] EXCEPT !.next = s]
               ELSE IF x = s THEN [elem[x] EXCEPT !.prev = p]
               ELSE elem[x]
  <2> SUFFICES ASSUME NEW x \in Elems \ {e}
               PROVE  w[x] = IF x = p THEN [elem[x] EXCEPT !.next = s]
                             ELSE IF x = s THEN [elem[x] EXCEPT !.prev = p]
                             ELSE elem[x]
    OBVIOUS
  <2>1. w[x] = CASE x = e -> Freed
                 [] x = p -> [elem[x] EXCEPT !.next = s]
                 [] x = s -> [elem[x] EXCEPT !.prev = p]
                 [] OTHER -> elem[x]
    BY <1>a
  <2> QED
    BY <1>5, <2>1
<1>8. ASSUME NEW x \in Elems \ {e}
      PROVE  /\ w[x] \in Cell
             /\ w[x].next = IF x = p THEN s ELSE elem[x].next
             /\ w[x].prev = IF x = s THEN p ELSE elem[x].prev
             /\ w[x].content = elem[x].content
  <2> DEFINE c == elem[x]
  <2>1. c \in Cell
    BY <1>2
  <2>2. w[x] = IF x = p THEN [c EXCEPT !.next = s]
               ELSE IF x = s THEN [c EXCEPT !.prev = p] ELSE c
    BY <1>7
  <2> HIDE DEF c
  <2>3. w[x] \in Cell /\ w[x].next = (IF x = p THEN s ELSE c.next)
        /\ w[x].prev = (IF x = s THEN p ELSE c.prev) /\ w[x].content = c.content
    BY <1>4, <1>5, <2>1, <2>2 DEF Cell
  <2> QED
    BY <2>3 DEF c
<1>9. w \in [Elems -> Cell]
  <2>1. Freed \in Cell
    BY DEF Freed, Cell, Pointer
  <2>2. \A x \in Elems : w[x] \in Cell
    BY <1>6, <1>8, <2>1
  <2>3. w = [x \in Elems |-> w[x]]
    BY <1>a
  <2> QED
    BY <2>2, <2>3
<1> QED
  BY <1>8, <1>9 DEF p, s, w

(* Where an operation that unlinks e leaves the list's ends.               *)
UnlinksEnds(e) ==
    /\ first' = IF elem[e].prev = NULL THEN elem[e].next ELSE first
    /\ last' = IF elem[e].next = NULL THEN elem[e].prev ELSE last

(* The list after element k is unlinked.                                   *)
LEMMA ListWithout ==
    ASSUME NEW q, ListOf(q), NEW k \in 1..Len(q), NEW e, e = q[k],
           elem' = without(e), alloc' = alloc \ {e}, count' = count - 1, size' = size,
           UnlinksEnds(e), current' \in (alloc \ {e}) \cup {NULL}
    PROVE  /\ ListOf(RemoveAt(q, k))'
           /\ \A x \in alloc' : elem'[x].content = elem[x].content
<1> DEFINE r == RemoveAt(q, k)
           el2 == elem'
           f == IF elem[e].prev = NULL THEN elem[e].next ELSE first
           l == IF elem[e].next = NULL THEN elem[e].prev ELSE last
<1>0. /\ q \in Seq(Elems) /\ Len(q) \in Nat /\ count = Len(q)
      /\ alloc = ToSet(q) /\ alloc \subseteq Elems
      /\ \A i, j \in 1..Len(q) : q[i] = q[j] => i = j
  BY ListFacts
<1>1. /\ r \in Seq(Elems) /\ Len(r) = Len(q) - 1
      /\ \A j \in 1..(Len(q) - 1) : r[j] = IF j < k THEN q[j] ELSE q[j + 1]
      /\ ToSet(r) = alloc \ {e}
  BY <1>0, Removed
<1>2. Chain(q, first, last, elem) /\ elem \in [Elems -> Cell]
  BY DEF ListOf
<1>3. /\ el2 \in [Elems -> Cell]
      /\ \A x \in Elems \ {e} :
            /\ el2[x].next = IF x = elem[e].prev THEN elem[e].next ELSE elem[x].next
            /\ el2[x].prev = IF x = elem[e].next THEN elem[e].prev ELSE elem[x].prev
            /\ el2[x].content = elem[x].content
  BY WithoutIs
<1>4. first' = f /\ last' = l
  BY DEF UnlinksEnds
<1> HIDE DEF r, el2
<1>5. Chain(r, f, l, el2)
  <2>1. Unlinks(elem, e, el2) /\ TakenOut(q, k, r)
    BY <1>1, <1>3 DEF Unlinks, TakenOut
  <2>2. elem \in [Elems -> Cell] /\ Chain(q, first, last, elem)
    BY <1>2
  <2>3. k \in 1..Len(q) /\ e = q[k]
    OBVIOUS
  <2> QED
    BY <2>1, <2>2, <2>3, ChainRemove, Zenon
<1>6. \A x \in alloc' : el2[x].content = elem[x].content /\ el2[x].content \in Contents
  BY <1>0, <1>3 DEF ListOf
<1>7. alloc' = ToSet(r) /\ count' = Len(r) /\ size' \in 0..MaxSize
  BY <1>0, <1>1 DEF ListOf
<1>8. Chain(r, first', last', el2)
  BY <1>4, <1>5
<1>9. ListOf(r)'
  <2>1. current' \in alloc' \cup {NULL}
    OBVIOUS
  <2> QED
    BY <1>3, <1>6, <1>7, <1>8, <2>1 DEF ListOf, el2
<1> QED
  BY <1>6, <1>9 DEF r, el2

(* The list after an item is added at the end ...                          *)
LEMMA ListAppended ==
    ASSUME NEW q, ListOf(q), NEW c \in Contents, NEW newel \in Elems \ alloc,
           ListAppend(c, newel)
    PROVE  /\ ListOf(Append(q, newel))' /\ elem'[newel].content = c
           /\ \A x \in alloc : elem'[x].content = elem[x].content
<1> DEFINE r == Append(q, newel)
           el2 == elem'
           f == IF first = NULL THEN newel ELSE first
<1>0. /\ q \in Seq(Elems) /\ Len(q) \in Nat /\ count = Len(q) /\ NULL \notin Elems
      /\ alloc = ToSet(q) /\ alloc \subseteq Elems
  BY ListFacts
<1>1. /\ r \in Seq(Elems) /\ Len(r) = Len(q) + 1 /\ ToSet(r) = alloc \cup {newel}
  <2>1. r \in Seq(Elems) /\ Len(r) = Len(q) + 1 /\ r[Len(q) + 1] = newel
        /\ \A i \in 1..Len(q) : r[i] = q[i]
    BY <1>0, AppendProperties
  <2>2. /\ \A x : x \in ToSet(r) <=> \E i \in 1..Len(r) : r[i] = x
        /\ \A x : x \in ToSet(q) <=> \E i \in 1..Len(q) : q[i] = x
    <3> HIDE DEF r
    <3> QED
      BY <1>0, <2>1, SeqFacts
  <2> HIDE DEF r
  <2>3. \A i \in 1..Len(r) : i \in 1..Len(q) \/ i = Len(q) + 1
    BY <1>0, <2>1
  <2>4. \A i \in 1..Len(q) : i \in 1..Len(r)
    BY <1>0, <2>1
  <2>5. Len(q) + 1 \in 1..Len(r)
    BY <1>0, <2>1
  <2> QED
    BY <1>0, <2>1, <2>2, <2>3, <2>4, <2>5
<1>2. Chain(q, first, last, elem) /\ elem \in [Elems -> Cell] /\ last \in Pointer
  BY SeqFacts DEF ListOf, Chain, At, Pointer
<1>3. /\ size' \in 0..MaxSize /\ count' = count + 1 /\ first' = f /\ last' = newel
      /\ alloc' = alloc \cup {newel} /\ current' = current
      /\ el2 = [x \in Elems |->
                   IF x = newel THEN [prev |-> last, next |-> NULL, content |-> c]
                   ELSE IF x = last /\ first # NULL
                        THEN [elem[x] EXCEPT !.next = newel]
                        ELSE elem[x]]
  <2>1. size \in 0..MaxSize
    BY DEF ListOf
  <2> QED
    BY <2>1, MaxSizeAssumption DEF ListAppend, Addable
<1> HIDE DEF r, el2
<1>4. el2[newel] = [prev |-> last, next |-> NULL, content |-> c]
  BY <1>3
<1>5. ASSUME NEW x \in Elems \ {newel}
      PROVE  /\ el2[x] \in Cell /\ el2[x].prev = elem[x].prev
             /\ el2[x].next = IF x = last /\ first # NULL THEN newel ELSE elem[x].next
             /\ el2[x].content = elem[x].content
  <2> DEFINE d == elem[x]
  <2>1. d \in Cell /\ newel \in Pointer
    BY <1>2 DEF Pointer
  <2>2. el2[x] = IF x = last /\ first # NULL THEN [d EXCEPT !.next = newel] ELSE d
    BY <1>3
  <2> HIDE DEF d
  <2>3. /\ el2[x] \in Cell /\ el2[x].prev = d.prev
        /\ el2[x].next = IF x = last /\ first # NULL THEN newel ELSE d.next
        /\ el2[x].content = d.content
    BY <2>1, <2>2 DEF Cell
  <2> QED
    BY <2>3 DEF d
<1>6. el2 \in [Elems -> Cell]
  <2>1. [prev |-> last, next |-> NULL, content |-> c] \in Cell
    BY <1>2 DEF Cell, Pointer
  <2>2. \A x \in Elems : el2[x] \in Cell
    BY <1>4, <1>5, <2>1
  <2>3. el2 = [x \in Elems |-> el2[x]]
    BY <1>3
  <2> QED
    BY <2>2, <2>3
<1>7. Chain(r, f, newel, el2)
  <2>1. Links(first, last, elem, newel, el2)
    BY <1>4, <1>5 DEF Links
  <2>2. newel \in Elems \ ToSet(q)
    BY <1>0
  <2> QED
    BY <1>2, <2>1, <2>2, ChainAppend DEF r
<1>8. \A x \in alloc : el2[x].content = elem[x].content
  BY <1>0, <1>5
<1>9. ListOf(r)'
  <2>1. Chain(r, first', last', el2)
    BY <1>3, <1>7
  <2>2. alloc' = ToSet(r) /\ count' = Len(r) /\ current' \in alloc' \cup {NULL}
    BY <1>0, <1>1, <1>3 DEF ListOf
  <2>3. \A x \in alloc' : el2[x].content \in Contents
    BY <1>3, <1>4, <1>8 DEF ListOf
  <2> QED
    BY <1>3, <1>6, <2>1, <2>2, <2>3 DEF ListOf, el2
<1> QED
  BY <1>4, <1>8, <1>9 DEF r, el2

(* ... and before element k.                                               *)
LEMMA ListInserted ==
    ASSUME NEW q, ListOf(q), NEW c \in Contents, NEW newel \in Elems \ alloc,
           NEW k \in 1..Len(q), NEW index, index = q[k], ListInsert(c, newel, index)
    PROVE  /\ ListOf(InsertAt(q, k, newel))' /\ elem'[newel].content = c
           /\ \A x \in alloc : elem'[x].content = elem[x].content
<1> DEFINE r == InsertAt(q, k, newel)
           el2 == elem'
           p == elem[index].prev
           f == IF elem[index].prev = NULL THEN newel ELSE first
<1>0. /\ q \in Seq(Elems) /\ Len(q) \in Nat /\ count = Len(q) /\ NULL \notin Elems
      /\ alloc = ToSet(q) /\ alloc \subseteq Elems /\ index \in alloc
      /\ \A i \in 1..Len(q) : q[i] \in alloc
      /\ \A i, j \in 1..Len(q) : q[i] = q[j] => i = j
      /\ \A x \in alloc : \E i \in 1..Len(q) : q[i] = x
  BY ListFacts
<1>1. PutIn(q, k, newel, r) /\ ToSet(r) = alloc \cup {newel}
  <2>1. PutIn(q, k, newel, r)
    <3>1. q \in Seq(Elems) /\ k \in 1..Len(q) /\ newel \in Elems
      BY <1>0
    <3>2. /\ r \in Seq(Elems) /\ Len(r) = Len(q) + 1
          /\ \A j \in 1..(Len(q) + 1) :
                r[j] = IF j < k THEN q[j] ELSE IF j = k THEN newel ELSE q[j - 1]
      BY <3>1, InsertAtFacts
    <3> QED
      BY <3>2 DEF PutIn
  <2> HIDE DEF r
  <2>2. \A x : x \in ToSet(r) <=> \E i \in 1..Len(r) : r[i] = x
    BY <2>1, SeqFacts DEF PutIn
  <2>3. ASSUME NEW x \in ToSet(r) PROVE x \in alloc \cup {newel}
    <3>1. PICK i \in 1..(Len(q) + 1) : r[i] = x
      BY <2>1, <2>2 DEF PutIn
    <3>2. r[i] = IF i < k THEN q[i] ELSE IF i = k THEN newel ELSE q[i - 1]
      BY <2>1 DEF PutIn
    <3>3. (i < k => i \in 1..Len(q)) /\ (~(i < k) /\ i # k => i - 1 \in 1..Len(q))
      BY <1>0
    <3> QED
      BY <1>0, <3>1, <3>2, <3>3
  <2>4. ASSUME NEW x \in alloc PROVE x \in ToSet(r)
    <3>1. PICK i \in 1..Len(q) : q[i] = x
      BY <1>0
    <3>2. CASE i < k
      <4>1. i \in 1..(Len(q) + 1)
        BY <1>0
      <4> QED
        BY <2>1, <2>2, <3>1, <3>2, <4>1 DEF PutIn
    <3>3. CASE ~(i < k)
      <4>1. i + 1 \in 1..(Len(q) + 1) /\ ~(i + 1 < k) /\ i + 1 # k /\ (i + 1) - 1 = i
        BY <1>0, <3>3
      <4>2. r[i + 1] = q[i]
        BY <2>1, <4>1 DEF PutIn
      <4> QED
        BY <2>1, <2>2, <3>1, <4>1, <4>2 DEF PutIn
    <3> QED
      BY <3>2, <3>3
  <2>5. newel \in ToSet(r)
    <3>1. k \in 1..(Len(q) + 1) /\ ~(k < k)
      BY <1>0
    <3> QED
      BY <2>1, <2>2, <3>1 DEF PutIn
  <2> QED
    BY <2>1, <2>3, <2>4, <2>5
<1>2. Chain(q, first, last, elem) /\ elem \in [Elems -> Cell]
  BY DEF ListOf
<1>3. /\ size' \in 0..MaxSize /\ count' = count + 1 /\ first' = f /\ last' = last
      /\ alloc' = alloc \cup {newel} /\ current' = current
      /\ el2 = [x \in Elems |->
                   CASE x = newel -> [prev |-> p, next |-> index, content |-> c]
                     [] x = index -> [elem[x] EXCEPT !.prev = newel]
                     [] x = p -> [elem[x] EXCEPT !.next = newel]
                     [] OTHER -> elem[x]]
  <2>1. size \in 0..MaxSize
    BY DEF ListOf
  <2> QED
    BY <2>1, MaxSizeAssumption DEF ListInsert, Addable
<1>p. p \in alloc \cup {NULL} /\ p # index
  <2>1. p = At(q, k - 1) /\ k - 1 # k
    BY <1>0 DEF ListOf, Chain
  <2> HIDE DEF p
  <2> QED
    BY <1>0, <2>1 DEF At
<1> HIDE DEF r, el2
<1>c. index \in Elems /\ index # newel /\ p # newel
  <2> HIDE DEF p
  <2> QED
    BY <1>0, <1>p
<1>4. el2[newel] = [prev |-> p, next |-> index, content |-> c]
  <2> HIDE DEF p
  <2>1. el2[newel] = CASE newel = newel -> [prev |-> p, next |-> index, content |-> c]
                       [] newel = index -> [elem[newel] EXCEPT !.prev = newel]
                       [] newel = p -> [elem[newel] EXCEPT !.next = newel]
                       [] OTHER -> elem[newel]
    BY <1>3
  <2> QED
    BY <1>c, <2>1
<1>5. ASSUME NEW x \in Elems \ {newel}
      PROVE  /\ el2[x] \in Cell
             /\ el2[x].prev = IF x = index THEN newel ELSE elem[x].prev
             /\ el2[x].next = IF x = p THEN newel ELSE elem[x].next
             /\ el2[x].content = elem[x].content
  <2> DEFINE d == elem[x]
  <2>1. d \in Cell /\ newel \in Pointer
    BY <1>2 DEF Pointer
  <2> HIDE DEF p
  <2>2. el2[x] = CASE x = newel -> [prev |-> p, next |-> index, content |-> c]
                   [] x = index -> [d EXCEPT !.prev = newel]
                   [] x = p -> [d EXCEPT !.next = newel]
                   [] OTHER -> d
    BY <1>3
  <2> HIDE DEF d
  <2>3. el2[x] = IF x = index THEN [d EXCEPT !.prev = newel]
                 ELSE IF x = p THEN [d EXCEPT !.next = newel] ELSE d
    BY <1>p, <2>2
  <2>4. /\ el2[x] \in Cell /\ el2[x].prev = (IF x = index THEN newel ELSE d.prev)
        /\ el2[x].next = (IF x = p THEN newel ELSE d.next)
        /\ el2[x].content = d.content
    BY <1>p, <2>1, <2>3 DEF Cell
  <2> QED
    BY <2>4 DEF d
<1>6. el2 \in [Elems -> Cell]
  <2> HIDE DEF p
  <2>1. [prev |-> p, next |-> index, content |-> c] \in Cell
    BY <1>0, <1>p DEF Cell, Pointer
  <2>2. \A x \in Elems : el2[x] \in Cell
    BY <1>4, <1>5, <2>1
  <2>3. el2 = [x \in Elems |-> el2[x]]
    BY <1>3
  <2> QED
    BY <2>2, <2>3
<1>7. Chain(r, f, last, el2)
  <2>1. LinksBefore(elem, index, newel, el2)
    BY <1>4, <1>5 DEF LinksBefore
  <2>2. newel \in Elems \ ToSet(q)
    BY <1>0
  <2> QED
    BY <1>1, <1>2, <2>1, <2>2, ChainInsert
<1>8. \A x \in alloc : el2[x].content = elem[x].content
  BY <1>0, <1>5
<1>9. ListOf(r)'
  <2>1. Chain(r, first', last', el2)
    BY <1>3, <1>7
  <2>2. alloc' = ToSet(r) /\ count' = Len(r) /\ current' \in alloc' \cup {NULL}
    BY <1>0, <1>1, <1>3 DEF ListOf, PutIn
  <2>3. \A x \in alloc' : el2[x].content \in Contents
    BY <1>3, <1>4, <1>8 DEF ListOf
  <2> QED
    BY <1>3, <1>6, <2>1, <2>2, <2>3 DEF ListOf, el2
<1> QED
  BY <1>4, <1>8, <1>9 DEF r, el2

(* The elements around element k.                                          *)
LEMMA Neighbours ==
    ASSUME NEW q, ListOf(q), NEW k \in 1..Len(q)
    PROVE  /\ elem[q[k]].next = At(q, k + 1) /\ elem[q[k]].prev = At(q, k - 1)
           /\ At(q, k + 1) \in (alloc \ {q[k]}) \cup {NULL}
           /\ At(q, k - 1) \in (alloc \ {q[k]}) \cup {NULL}
           /\ At(q, k + 1) = NULL <=> k = Len(q)
           /\ At(q, k - 1) = NULL <=> k = 1
           /\ first = q[1] /\ last = q[Len(q)]
<1>0. /\ Len(q) \in Nat /\ NULL \notin alloc
      /\ \A i \in 1..Len(q) : q[i] \in alloc
      /\ \A i, j \in 1..Len(q) : q[i] = q[j] => i = j
  BY ListFacts
<1>1. elem[q[k]].next = At(q, k + 1) /\ elem[q[k]].prev = At(q, k - 1)
  BY DEF ListOf, Chain
<1>2. k + 1 \in 1..Len(q) <=> k # Len(q)
  BY <1>0
<1>3. k - 1 \in 1..Len(q) <=> k # 1
  BY <1>0
<1>4. /\ At(q, k + 1) \in (alloc \ {q[k]}) \cup {NULL}
      /\ At(q, k + 1) = NULL <=> k = Len(q)
  BY <1>0, <1>2 DEF At
<1>5. /\ At(q, k - 1) \in (alloc \ {q[k]}) \cup {NULL}
      /\ At(q, k - 1) = NULL <=> k = 1
  BY <1>0, <1>3 DEF At
<1>6. first = q[1] /\ last = q[Len(q)]
  <2>1. 1 \in 1..Len(q) /\ Len(q) \in 1..Len(q)
    BY <1>0
  <2>2. first = At(q, 1) /\ last = At(q, Len(q))
    BY DEF ListOf, Chain
  <2> QED
    BY <2>1, <2>2 DEF At
<1> QED
  BY <1>1, <1>4, <1>5, <1>6

(* The elements that match a search, by their places in the list.          *)
Matches(q, wanted) == {i \in 1..Len(q) : elem[q[i]].content \in wanted}

(* What a search finds.                                                    *)
LEMMA Finds ==
    ASSUME NEW q, ListOf(q), NEW wanted
    PROVE  LET I == Matches(q, wanted)
           IN  /\ findItem(wanted) = IF current # NULL /\ elem[current].content \in wanted
                                     THEN current
                                     ELSE IF I = {} THEN NULL ELSE q[Min(I)]
               /\ I # {} => Min(I) \in I
               /\ findItem(wanted) # NULL =>
                    \E k \in 1..Len(q) : findItem(wanted) = q[k]
<1> DEFINE I == Matches(q, wanted)
<1>0. /\ Len(q) \in Nat /\ Forward = q
      /\ alloc \subseteq Elems /\ NULL \notin Elems
      /\ \A i \in 1..Len(q) : q[i] \in alloc
      /\ \A x \in alloc : \E i \in 1..Len(q) : q[i] = x
  BY ListFacts
<1>1. SelectInSeq(Forward, LAMBDA e : elem[e].content \in wanted)
        = IF I # {} THEN Min(I) ELSE 0
  BY <1>0 DEF SelectInSeq, Matches
<1>2. I # {} => Min(I) \in I /\ Min(I) # 0
  <2>1. I \in SUBSET Nat /\ 0 \notin I
    BY <1>0 DEF Matches
  <2> HIDE DEF I
  <2> QED
    BY <2>1, MinOfNats
<1> HIDE DEF I
<1>3. findItem(wanted) = IF current # NULL /\ elem[current].content \in wanted
                         THEN current
                         ELSE IF I = {} THEN NULL ELSE q[Min(I)]
  BY <1>0, <1>1, <1>2 DEF findItem
<1>4. \A i \in I : i \in 1..Len(q)
  BY DEF Matches, I
<1>5. current \in alloc \cup {NULL}
  BY DEF ListOf
<1> QED
  BY <1>0, <1>2, <1>3, <1>4, <1>5 DEF I

(* The list after the element a search finds is unlinked, ...              *)
LEMMA ListUnlinked ==
    ASSUME NEW q, ListOf(q), NEW wanted, ListUnlink(wanted)
    PROVE  \E k \in 1..Len(q) :
             /\ findItem(wanted) = q[k] /\ ListOf(RemoveAt(q, k))'
             /\ alloc' = alloc \ {q[k]} /\ alloc' \subseteq alloc
             /\ \A x \in alloc' : elem'[x].content = elem[x].content
<1>1. PICK k \in 1..Len(q) : findItem(wanted) = q[k]
  BY Finds DEF ListUnlink
<1> DEFINE e == q[k]
<1>2. /\ elem' = without(e) /\ alloc' = alloc \ {e} /\ count' = count - 1 /\ size' = size
      /\ UnlinksEnds(e) /\ current' = cursorAfter(e)
  BY <1>1 DEF ListUnlink, UnlinksEnds
<1>3. current' \in (alloc \ {e}) \cup {NULL}
  BY <1>2, Neighbours DEF cursorAfter, ListOf
<1>4. ListOf(RemoveAt(q, k))' /\ \A x \in alloc' : elem'[x].content = elem[x].content
  <2> HIDE DEF e
  <2>1. e = q[k]
    BY DEF e
  <2> QED
    BY <1>2, <1>3, <2>1, ListWithout
<1> QED
  BY <1>1, <1>2, <1>4

(* ... the first element, ...                                              *)
LEMMA ListHeadDetached ==
    ASSUME NEW q, ListOf(q), ListDetachHead
    PROVE  /\ 1 \in 1..Len(q) /\ first = q[1] /\ ListOf(RemoveAt(q, 1))'
           /\ alloc' = alloc \ {q[1]} /\ alloc' \subseteq alloc
           /\ \A x \in alloc' : elem'[x].content = elem[x].content
<1>0. /\ Len(q) \in Nat /\ count = Len(q)
      /\ \A i, j \in 1..Len(q) : q[i] = q[j] => i = j
  BY ListFacts
<1>1. 1 \in 1..Len(q) /\ Len(q) \in 1..Len(q)
  BY <1>0 DEF ListDetachHead
<1> DEFINE e == q[1]
<1>2. /\ elem[e].next = At(q, 1 + 1) /\ elem[e].prev = NULL /\ first = e /\ last = q[Len(q)]
      /\ At(q, 1 + 1) \in (alloc \ {e}) \cup {NULL}
      /\ At(q, 1 + 1) = NULL <=> 1 = Len(q)
  <2> DEFINE k == 1
  <2>1. k \in 1..Len(q)
    BY <1>1
  <2> HIDE DEF k
  <2>2. /\ elem[q[k]].next = At(q, k + 1) /\ elem[q[k]].prev = At(q, k - 1)
        /\ At(q, k + 1) \in (alloc \ {q[k]}) \cup {NULL}
        /\ At(q, k + 1) = NULL <=> k = Len(q)
        /\ At(q, k - 1) = NULL <=> k = 1
        /\ first = q[1] /\ last = q[Len(q)]
    BY <2>1, Neighbours
  <2> QED
    BY <2>2 DEF k
<1>3. last = first <=> elem[e].next = NULL
  BY <1>0, <1>1, <1>2
<1>4. /\ elem' = without(e) /\ alloc' = alloc \ {e} /\ count' = count - 1 /\ size' = size
      /\ current' = (IF current = first THEN elem[first].next ELSE current)
      /\ UnlinksEnds(e)
  <2> HIDE DEF e
  <2> QED
    BY <1>2, <1>3 DEF ListDetachHead, UnlinksEnds
<1>5. current' \in (alloc \ {e}) \cup {NULL}
  BY <1>2, <1>4 DEF ListOf
<1>6. ListOf(RemoveAt(q, 1))' /\ \A x \in alloc' : elem'[x].content = elem[x].content
  <2> HIDE DEF e
  <2>1. e = q[1]
    BY DEF e
  <2> QED
    BY <1>1, <1>4, <1>5, <2>1, ListWithout
<1> QED
  BY <1>1, <1>2, <1>4, <1>6

(* ... or the last one.                                                    *)
LEMMA ListTailPopped ==
    ASSUME NEW q, ListOf(q), ListPopTail
    PROVE  /\ Len(q) \in 1..Len(q) /\ last = q[Len(q)] /\ ListOf(RemoveAt(q, Len(q)))'
           /\ alloc' = alloc \ {q[Len(q)]} /\ alloc' \subseteq alloc
           /\ \A x \in alloc' : elem'[x].content = elem[x].content
<1>0. /\ Len(q) \in Nat /\ count = Len(q)
      /\ \A i, j \in 1..Len(q) : q[i] = q[j] => i = j
  BY ListFacts
<1>1. 1 \in 1..Len(q) /\ Len(q) \in 1..Len(q)
  BY <1>0 DEF ListPopTail
<1> DEFINE k == Len(q)
           e == q[k]
<1>2. /\ elem[e].prev = At(q, k - 1) /\ elem[e].next = NULL /\ first = q[1] /\ last = e
      /\ At(q, k - 1) \in (alloc \ {e}) \cup {NULL}
      /\ At(q, k - 1) = NULL <=> k = 1
  <2>1. k \in 1..Len(q)
    BY <1>1
  <2>2. /\ elem[q[k]].next = At(q, k + 1) /\ elem[q[k]].prev = At(q, k - 1)
        /\ At(q, k - 1) \in (alloc \ {q[k]}) \cup {NULL}
        /\ At(q, k + 1) = NULL <=> k = Len(q)
        /\ At(q, k - 1) = NULL <=> k = 1
        /\ first = q[1] /\ last = q[Len(q)]
    <3> HIDE DEF k
    <3> QED
      BY <2>1, Neighbours
  <2> QED
    BY <2>2
<1>3. last = first <=> elem[e].prev = NULL
  BY <1>0, <1>1, <1>2
<1>4. /\ elem' = without(e) /\ alloc' = alloc \ {e} /\ count' = count - 1 /\ size' = size
      /\ current' = (IF current = last THEN elem[last].prev ELSE current)
      /\ UnlinksEnds(e)
  <2> HIDE DEF e
  <2> QED
    BY <1>2, <1>3 DEF ListPopTail, UnlinksEnds
<1>5. current' \in (alloc \ {e}) \cup {NULL}
  BY <1>2, <1>4 DEF ListOf
<1>6. ListOf(RemoveAt(q, k))' /\ \A x \in alloc' : elem'[x].content = elem[x].content
  <2>1. k \in 1..Len(q) /\ e = q[k]
    BY <1>1
  <2> HIDE DEF e, k
  <2> QED
    BY <1>4, <1>5, <2>1, ListWithout
<1> QED
  BY <1>1, <1>2, <1>4, <1>6

(* No elements make a list, too.                                           *)
LEMMA ListEmptied ==
    ASSUME NEW q, ListOf(q), ListEmpty
    PROVE  ListOf(<<>>)' /\ alloc' = {}
<1>1. Forward = q /\ alloc = ToSet(q) /\ alloc \subseteq Elems
  BY ListFacts
<1>2. /\ alloc' = {} /\ first' = NULL /\ last' = NULL /\ current' = NULL
      /\ count' = 0 /\ size' = 0
      /\ elem' = [e \in Elems |-> IF e \in alloc THEN Freed ELSE elem[e]]
  BY <1>1 DEF ListEmpty
<1>3. elem' \in [Elems -> Cell]
  <2>1. Freed \in Cell
    BY DEF Freed, Cell, Pointer
  <2>2. elem \in [Elems -> Cell]
    BY DEF ListOf
  <2> QED
    BY <1>2, <2>1, <2>2
<1>4. Len(<<>>) = 0 /\ <<>> \in Seq(Elems) /\ 1..0 = {} /\ ToSet(<<>>) = {}
  BY DEF ToSet
<1>5. ListOf(<<>>)'
  BY <1>2, <1>3, <1>4, MaxSizeAssumption DEF ListOf, Chain, OnceEach, At
<1> QED
  BY <1>2, <1>5

(* A search moves the cursor only.                                         *)
LEMMA ListSearched ==
    ASSUME NEW q, ListOf(q), NEW wanted, ListFindItem(wanted)
    PROVE  ListOf(q)'
<1>1. findItem(wanted) \in alloc
  BY Finds, ListFacts DEF ListFindItem
<1> QED
  BY <1>1 DEF ListFindItem, ListOf

-----------------------------------------------------------------------------
(* The invariant                                                           *)

(* The items of the list.                                                  *)
LEMMA ItemsAre ==
    ASSUME NEW q, ListOf(q)
    PROVE  /\ ItemsOf(Forward) = [i \in 1..Len(q) |-> elem[q[i]].content]
           /\ ItemsOf(Forward) \in Seq(Contents) /\ Len(ItemsOf(Forward)) = Len(q)
           /\ Items = {elem[x].content : x \in alloc}
<1>0. /\ q \in Seq(Elems) /\ Len(q) \in Nat /\ Forward = q /\ DOMAIN q = 1..Len(q)
      /\ \A i \in 1..Len(q) : q[i] \in alloc
      /\ \A x \in alloc : \E i \in 1..Len(q) : q[i] = x
  BY ListFacts, SeqFacts
<1> DEFINE s == [i \in 1..Len(q) |-> elem[q[i]].content]
<1>1. ItemsOf(Forward) = s
  BY <1>0 DEF ItemsOf
<1>2. \A i \in 1..Len(q) : elem[q[i]].content \in Contents
  BY <1>0 DEF ListOf
<1>3. s \in Seq(Contents) /\ Len(s) = Len(q)
  BY <1>0, <1>2
<1>4. ToSet(s) = {elem[x].content : x \in alloc}
  <2>1. \A c : c \in ToSet(s) <=> \E i \in 1..Len(s) : s[i] = c
    <3> HIDE DEF s
    <3> QED
      BY <1>3, SeqFacts
  <2>2. \A i \in 1..Len(q) : s[i] = elem[q[i]].content
    OBVIOUS
  <2> HIDE DEF s
  <2> QED
    BY <1>0, <1>3, <2>1, <2>2
<1> QED
  BY <1>1, <1>3, <1>4 DEF Items

LEMMA InitLInv == Init => LInv
<1> SUFFICES ASSUME Init PROVE LInv
  OBVIOUS
<1>1. Freed \in Cell
  BY DEF Freed, Cell, Pointer
<1>2. Len(<<>>) = 0 /\ <<>> \in Seq(Elems) /\ 1..0 = {} /\ ToSet(<<>>) = {}
  BY DEF ToSet
<1>3. ListOf(<<>>)
  BY <1>1, <1>2, MaxSizeAssumption DEF Init, ListOf, Chain, OnceEach, At
<1>4. OneItemEach(alloc, elem)
  BY DEF Init, OneItemEach
<1> QED
  BY <1>3, <1>4 DEF LInv

LEMMA StepLInv == LInv /\ [Next]_vars => LInv'
<1> SUFFICES ASSUME LInv, [Next]_vars PROVE LInv'
  OBVIOUS
<1>1. PICK q : ListOf(q)
  BY DEF LInv
<1>2. OneItemEach(alloc, elem)
  BY DEF LInv
<1>3. Forward = q /\ \A x \in ToSet(q) : \E k \in 1..Len(q) : x = q[k]
  BY <1>1, ListFacts
<1>a. ASSUME NEW c \in Contents \ Items, NEW newel \in Elems \ alloc, elem'[newel].content = c,
             alloc' \subseteq alloc \cup {newel},
             \A x \in alloc : elem'[x].content = elem[x].content
      PROVE  OneItemEach(alloc', elem')
  <2>1. \A x \in alloc : elem[x].content # c
    BY <1>1, ItemsAre
  <2> QED
    BY <1>2, <1>a, <2>1 DEF OneItemEach
<1>b. ASSUME alloc' \subseteq alloc,
             \A x \in alloc' : elem'[x].content = elem[x].content
      PROVE  OneItemEach(alloc', elem')
  BY <1>2, <1>b DEF OneItemEach
<1>4. ASSUME NEW c \in Contents \ Items, NEW newel \in Elems \ alloc, ListAppend(c, newel)
      PROVE  LInv'
  <2>1. /\ ListOf(Append(q, newel))' /\ elem'[newel].content = c
        /\ \A x \in alloc : elem'[x].content = elem[x].content
    BY <1>1, <1>4, ListAppended
  <2>2. alloc' = alloc \cup {newel}
    BY <1>4 DEF ListAppend
  <2>3. OneItemEach(alloc', elem')
    BY <1>a, <2>1, <2>2
  <2> QED
    BY <2>1, <2>3 DEF LInv
<1>5. ASSUME NEW c \in Contents \ Items, NEW newel \in Elems \ alloc,
             NEW index \in ToSet(Forward), ListInsert(c, newel, index)
      PROVE  LInv'
  <2>0. PICK k \in 1..Len(q) : index = q[k]
    BY <1>3
  <2>1. /\ ListOf(InsertAt(q, k, newel))' /\ elem'[newel].content = c
        /\ \A x \in alloc : elem'[x].content = elem[x].content
    BY <1>1, <1>5, <2>0, ListInserted
  <2>2. alloc' = alloc \cup {newel}
    BY <1>5 DEF ListInsert
  <2>3. OneItemEach(alloc', elem')
    BY <1>a, <2>1, <2>2
  <2> QED
    BY <2>1, <2>3 DEF LInv
<1>6. ASSUME NEW wanted, ListFindItem(wanted) PROVE LInv'
  <2>1. ListOf(q)'
    BY <1>1, <1>6, ListSearched
  <2>2. OneItemEach(alloc', elem')
    BY <1>2, <1>6 DEF ListFindItem
  <2> QED
    BY <2>1, <2>2 DEF LInv
<1>7. ASSUME NEW wanted, ListUnlink(wanted) PROVE LInv'
  <2>1. PICK k \in 1..Len(q) :
            /\ ListOf(RemoveAt(q, k))' /\ alloc' \subseteq alloc
            /\ \A x \in alloc' : elem'[x].content = elem[x].content
    BY <1>1, <1>7, ListUnlinked
  <2> QED
    BY <1>b, <2>1 DEF LInv
<1>8. CASE ListDetachHead
  <2>1. /\ ListOf(RemoveAt(q, 1))' /\ alloc' \subseteq alloc
        /\ \A x \in alloc' : elem'[x].content = elem[x].content
    BY <1>1, <1>8, ListHeadDetached
  <2> QED
    BY <1>b, <2>1 DEF LInv
<1>9. CASE ListPopTail
  <2>1. /\ ListOf(RemoveAt(q, Len(q)))' /\ alloc' \subseteq alloc
        /\ \A x \in alloc' : elem'[x].content = elem[x].content
    BY <1>1, <1>9, ListTailPopped
  <2> QED
    BY <1>b, <2>1 DEF LInv
<1>10. CASE ListEmpty
  <2>1. ListOf(<<>>)' /\ alloc' = {}
    BY <1>1, <1>10, ListEmptied
  <2> QED
    BY <2>1 DEF LInv, OneItemEach
<1>11. CASE UNCHANGED vars
  <2>1. ListOf(q)'
    BY <1>1, <1>11 DEF vars, ListOf
  <2> QED
    BY <1>2, <1>11, <2>1 DEF vars, LInv
<1> QED
  BY <1>4, <1>5, <1>6, <1>7, <1>8, <1>9, <1>10, <1>11 DEF Next, Adding

(* The pointers of the cells link all allocated cells, each once, in the   *)
(* same order both ways, and no two of them hold the same item             *)
(* (LinkedList.c:65-371).                                                  *)
THEOREM ListInvariant == Spec => []LInv
<1> QED
  BY InitLInv, StepLInv, PTL DEF Spec

(* The pointers are never wild (LinkedList.c:65-371).                      *)
THEOREM ListTypes == Spec => []TypeOK
<1>1. LInv => TypeOK
  <2> SUFFICES ASSUME LInv PROVE TypeOK
    OBVIOUS
  <2>1. PICK q : ListOf(q)
    BY DEF LInv
  <2>2. Len(q) \in Nat /\ count = Len(q) /\ alloc \subseteq Elems
        /\ \A i \in 1..Len(q) : q[i] \in alloc
    BY <2>1, ListFacts
  <2>3. first = At(q, 1) /\ last = At(q, Len(q)) /\ current \in alloc \cup {NULL}
    BY <2>1 DEF ListOf, Chain
  <2>4. first \in Pointer /\ last \in Pointer /\ current \in Pointer
    BY <2>2, <2>3 DEF At, Pointer
  <2> QED
    BY <2>1, <2>2, <2>4 DEF TypeOK, ListOf, Cell
<1> QED
  BY <1>1, ListInvariant, PTL

(* No operation breaks a link, leaks an element or leaves the cursor on a  *)
(* freed one, however many cells there are (LinkedList.c:65-371).          *)
THEOREM ListStaysLinked == Spec => []WellLinked
<1>1. LInv => WellLinked
  <2> SUFFICES ASSUME LInv PROVE WellLinked
    OBVIOUS
  <2>1. PICK q : ListOf(q)
    BY DEF LInv
  <2>2. /\ q \in Seq(Elems) /\ Len(q) \in Nat /\ count = Len(q) /\ alloc = ToSet(q)
        /\ \A i, j \in 1..Len(q) : q[i] = q[j] => i = j
        /\ Forward = q /\ Backward = Reverse(q) /\ DOMAIN q = 1..Len(q)
    BY <2>1, ListFacts, SeqFacts
  <2>3. IsInjective(q)
    BY <2>2 DEF IsInjective
  <2>4. q = Reverse(Reverse(q))
    <3> DEFINE r == Reverse(q)
    <3>1. r \in Seq(Elems) /\ Len(r) = Len(q)
          /\ \A i \in 1..Len(q) : r[i] = q[(Len(q) - i) + 1]
      BY <2>2, SeqFacts DEF Reverse
    <3> HIDE DEF r
    <3>2. \A i \in 1..Len(q) : /\ (Len(q) - i) + 1 \in 1..Len(q)
                               /\ (Len(q) - ((Len(q) - i) + 1)) + 1 = i
      BY <2>2
    <3>3. \A i \in 1..Len(q) : r[(Len(q) - i) + 1] = q[i]
      BY <3>1, <3>2
    <3>4. Reverse(r) = [i \in 1..Len(q) |-> r[(Len(q) - i) + 1]]
      BY <3>1 DEF Reverse
    <3>5. q = [i \in 1..Len(q) |-> q[i]]
      BY <2>2
    <3> QED
      BY <3>3, <3>4, <3>5 DEF r
  <2>5. current \in alloc \cup {NULL}
    BY <2>1 DEF ListOf
  <2> QED
    BY <2>2, <2>3, <2>4, <2>5 DEF WellLinked
<1> QED
  BY <1>1, ListInvariant, PTL

-----------------------------------------------------------------------------
(* The abstract list                                                       *)

(* The items of the elements q.                                            *)
ItemsAlong(q, el) == [i \in 1..Len(q) |-> el[q[i]].content]

(* The item the cursor is on.                                              *)
CursorItem == IF current = NULL THEN NULL ELSE elem[current].content

(* The items after a step.                                                 *)
LEMMA ItemsAfter == \A q : ListOf(q)' => ItemsOf(Forward)' = ItemsAlong(q, elem')
<1>1. \A q : ListOf(q) => ItemsOf(Forward) = ItemsAlong(q, elem)
  BY ItemsAre DEF ItemsAlong
<1>2. (\A q : ListOf(q) => ItemsOf(Forward) = ItemsAlong(q, elem))'
  BY <1>1, PTL
<1> QED
  BY <1>2 DEF ItemsAlong

(* Facts about the items that the operations use.                          *)
LEMMA ItemFacts ==
    ASSUME NEW q, ListOf(q), OneItemEach(alloc, elem)
    PROVE  LET s == ItemsOf(Forward)
           IN  /\ s \in Seq(Contents) /\ Len(s) = Len(q)
               /\ \A i \in 1..Len(q) : s[i] = elem[q[i]].content /\ s[i] # NULL
               /\ \A i, j \in 1..Len(q) : s[i] = s[j] => i = j
               /\ \A i \in 1..Len(q) : CursorItem = s[i] <=> current = q[i]
<1> DEFINE s == ItemsOf(Forward)
<1>1. /\ Len(q) \in Nat /\ \A i \in 1..Len(q) : q[i] \in alloc /\ q[i] # NULL
      /\ \A i, j \in 1..Len(q) : q[i] = q[j] => i = j
      /\ NULL \notin Contents
  BY ListFacts
<1>2. s \in Seq(Contents) /\ Len(s) = Len(q) /\ s = [i \in 1..Len(q) |-> elem[q[i]].content]
  BY ItemsAre
<1>3. current \in alloc \cup {NULL} /\ \A x \in alloc : elem[x].content \in Contents
  BY DEF ListOf
<1> HIDE DEF s
<1>4. \A i \in 1..Len(q) : s[i] = elem[q[i]].content /\ s[i] # NULL
  BY <1>1, <1>2, <1>3
<1>5. \A i, j \in 1..Len(q) : s[i] = s[j] => i = j
  BY <1>1, <1>4 DEF OneItemEach
<1>6. \A i \in 1..Len(q) : CursorItem = s[i] <=> current = q[i]
  BY <1>1, <1>3, <1>4 DEF OneItemEach, CursorItem
<1> QED
  BY <1>2, <1>4, <1>5, <1>6 DEF s

(* An item that is in a sequence once is where it is.                      *)
LEMMA PlaceIs ==
    ASSUME NEW S, NEW s \in Seq(S), \A i, j \in 1..Len(s) : s[i] = s[j] => i = j,
           NEW k \in 1..Len(s), NEW c, c = s[k]
    PROVE  /\ {i \in 1..Len(s) : s[i] = c} = {k} /\ Min({k}) = k
           /\ RemoveFirst(s, c) = RemoveAt(s, k)
<1>1. {i \in 1..Len(s) : s[i] = c} = {k}
  OBVIOUS
<1>2. Min({k}) = k
  <2>1. {k} \in SUBSET Nat /\ {k} # {}
    BY SeqFacts
  <2> QED
    BY <2>1, MinOfNats
<1>3. RemoveFirst(s, c) = RemoveAt(s, k)
  BY <1>1, <1>2 DEF RemoveFirst, SelectInSeq
<1> QED
  BY <1>1, <1>2, <1>3

(* The cursor after a step that puts it on x.                              *)
LEMMA CursorAfter ==
    ASSUME current' \in alloc' \cup {NULL}, NULL \notin alloc',
           \A x \in alloc' : elem'[x].content = elem[x].content
    PROVE  CursorItem' = IF current' = NULL THEN NULL ELSE elem[current'].content
BY DEF CursorItem

(* Taking an element out takes its item out.                               *)
LEMMA ItemTakenOut ==
    ASSUME NEW q, ListOf(q), NEW k \in 1..Len(q), ListOf(RemoveAt(q, k))',
           alloc' = alloc \ {q[k]},
           \A x \in alloc' : elem'[x].content = elem[x].content
    PROVE  /\ ItemsOf(Forward)' = RemoveAt(ItemsOf(Forward), k)
           /\ Len(ItemsOf(Forward)') = Len(q) - 1
           /\ \A i \in 1..(Len(q) - 1) :
                ItemsOf(Forward)'[i] = IF i < k THEN ItemsOf(Forward)[i]
                                       ELSE ItemsOf(Forward)[i + 1]
           /\ ItemsOf(Forward)' \in Seq(Contents)
<1> DEFINE s == ItemsOf(Forward)
           r == RemoveAt(q, k)
           t == ItemsOf(Forward)'
           u == RemoveAt(s, k)
<1>1. /\ q \in Seq(Elems) /\ Len(q) \in Nat /\ alloc = ToSet(q)
      /\ \A i \in 1..Len(q) : q[i] \in alloc
      /\ \A i, j \in 1..Len(q) : q[i] = q[j] => i = j
  BY ListFacts
<1>2. s \in Seq(Contents) /\ Len(s) = Len(q) /\ s = [i \in 1..Len(q) |-> elem[q[i]].content]
  BY ItemsAre
<1>3. /\ r \in Seq(Elems) /\ Len(r) = Len(q) - 1
      /\ \A j \in 1..(Len(q) - 1) : r[j] = IF j < k THEN q[j] ELSE q[j + 1]
      /\ ToSet(r) = alloc \ {q[k]}
  BY <1>1, Removed
<1>4. t = ItemsAlong(r, elem')
  BY ItemsAfter
<1> HIDE DEF s, r, t
<1>5. /\ u \in Seq(Contents) /\ Len(u) = Len(q) - 1
      /\ \A j \in 1..(Len(q) - 1) : u[j] = IF j < k THEN s[j] ELSE s[j + 1]
  <2>1. k \in 1..Len(s)
    BY <1>2
  <2>2. /\ u \in Seq(Contents) /\ Len(u) = Len(s) - 1
        /\ \A j \in 1..(Len(s) - 1) : u[j] = IF j < k THEN s[j] ELSE s[j + 1]
    BY <1>2, <2>1, RemoveAtFacts
  <2> QED
    BY <1>2, <2>2
<1> HIDE DEF u
<1>6. ASSUME NEW i \in 1..(Len(q) - 1)
      PROVE  elem'[r[i]].content = u[i]
  <2>1. r[i] \in alloc'
    <3>1. r[i] \in ToSet(r)
      BY <1>3, SeqFacts
    <3> QED
      BY <1>3, <3>1
  <2>2. (i < k => i \in 1..Len(q)) /\ (~(i < k) => i + 1 \in 1..Len(q))
    BY <1>1
  <2> QED
    BY <1>2, <1>3, <1>5, <2>1, <2>2
<1>7. t = [i \in 1..(Len(q) - 1) |-> u[i]]
  BY <1>3, <1>4, <1>6 DEF ItemsAlong
<1>8. t = u
  <2>1. u = [i \in 1..Len(u) |-> u[i]]
    BY <1>5
  <2> QED
    BY <1>5, <1>7, <2>1
<1> QED
  BY <1>5, <1>8 DEF s, r, t, u

-----------------------------------------------------------------------------
(* Each operation does what the abstract list says                         *)

(* The operators on sequences are the same in ListADT.                     *)
LEMMA AbstractOperators ==
    /\ \A S : ADT!Min(S) = Min(S)
    /\ \A s, i, e : ADT!InsertAt(s, i, e) = InsertAt(s, i, e)
    /\ \A s, i : ADT!RemoveAt(s, i) = RemoveAt(s, i)
    /\ \A s, e : ADT!RemoveFirst(s, e) = RemoveFirst(s, e)
    /\ \A s : ADT!Front(s) = Front(s) /\ ADT!Last(s) = Last(s)
<1>1. \A S : ADT!Min(S) = Min(S)
  BY DEF ADT!Min, Min
<1>2. \A s, i, e : ADT!InsertAt(s, i, e) = InsertAt(s, i, e)
  BY DEF ADT!InsertAt, InsertAt
<1>3. \A s, i : ADT!RemoveAt(s, i) = RemoveAt(s, i)
  BY DEF ADT!RemoveAt, RemoveAt
<1>4. ASSUME NEW s, NEW e PROVE ADT!RemoveFirst(s, e) = RemoveFirst(s, e)
  <2>1. ADT!SelectInSeq(s, LAMBDA v : v = e) = SelectInSeq(s, LAMBDA v : v = e)
    BY <1>1 DEF ADT!SelectInSeq, SelectInSeq
  <2>2. ADT!RemoveFirst(s, e) = IF \E i \in 1..Len(s) : s[i] = e
                                THEN ADT!RemoveAt(s, ADT!SelectInSeq(s, LAMBDA v : v = e))
                                ELSE s
    BY DEF ADT!RemoveFirst
  <2>3. RemoveFirst(s, e) = IF \E i \in 1..Len(s) : s[i] = e
                            THEN RemoveAt(s, SelectInSeq(s, LAMBDA v : v = e)) ELSE s
    BY DEF RemoveFirst
  <2> QED
    BY <1>3, <2>1, <2>2, <2>3
<1>5. \A s : ADT!Front(s) = Front(s) /\ ADT!Last(s) = Last(s)
  BY DEF ADT!Front, Front, ADT!Last, Last
<1> QED
  BY <1>1, <1>2, <1>3, <1>4, <1>5

LEMMA AppendIsAdd ==
    ASSUME NEW q, ListOf(q), NEW c \in Contents, NEW newel \in Elems \ alloc,
           ListAppend(c, newel)
    PROVE  ADT!Add(c)
<1> DEFINE r == Append(q, newel)
           s == ItemsOf(Forward)
           t == ItemsOf(Forward)'
<1>1. /\ ListOf(r)' /\ elem'[newel].content = c
      /\ \A x \in alloc : elem'[x].content = elem[x].content
  BY ListAppended
<1>2. /\ q \in Seq(Elems) /\ Len(q) \in Nat /\ alloc \subseteq Elems /\ NULL \notin Elems
      /\ \A i \in 1..Len(q) : q[i] \in alloc
  BY ListFacts
<1>3. s \in Seq(Contents) /\ Len(s) = Len(q) /\ s = [i \in 1..Len(q) |-> elem[q[i]].content]
  BY ItemsAre
<1>4. /\ Len(r) = Len(q) + 1 /\ r[Len(q) + 1] = newel
      /\ \A i \in 1..Len(q) : r[i] = q[i]
  BY <1>2, AppendProperties
<1>5. t = ItemsAlong(r, elem')
  BY <1>1, ItemsAfter
<1>6. current' = current /\ alloc' = alloc \cup {newel} /\ current \in alloc \cup {NULL}
  BY DEF ListAppend, ListOf
<1> HIDE DEF r, s, t
<1>7. t = Append(s, c)
  <2>1. ASSUME NEW i \in 1..(Len(q) + 1)
        PROVE  elem'[r[i]].content = Append(s, c)[i]
    <3>1. i \in 1..Len(q) \/ i = Len(q) + 1
      BY <1>2
    <3>2. Append(s, c)[Len(q) + 1] = c /\ \A j \in 1..Len(q) : Append(s, c)[j] = s[j]
      BY <1>3, AppendProperties
    <3>3. CASE i \in 1..Len(q)
      BY <1>1, <1>2, <1>3, <1>4, <3>2, <3>3
    <3>4. CASE i = Len(q) + 1
      BY <1>1, <1>4, <3>2, <3>4
    <3> QED
      BY <3>1, <3>3, <3>4
  <2>2. t = [i \in 1..(Len(q) + 1) |-> Append(s, c)[i]]
    BY <1>4, <1>5, <2>1 DEF ItemsAlong
  <2> DEFINE a == Append(s, c)
  <2>3. a \in Seq(Contents) /\ Len(a) = Len(q) + 1
    BY <1>3, AppendProperties
  <2>4. a = [i \in 1..(Len(q) + 1) |-> a[i]]
    <3> HIDE DEF a
    <3> QED
      BY <2>3
  <2> QED
    BY <2>2, <2>4
<1>8. CursorItem' = CursorItem
  <2>1. current # NULL => elem'[current].content = elem[current].content
    BY <1>1, <1>6
  <2> QED
    BY <1>6, <2>1 DEF CursorItem
<1> QED
  BY <1>7, <1>8 DEF ADT!Add, CursorItem, s, t

LEMMA InsertIsInsertBefore ==
    ASSUME NEW q, ListOf(q), OneItemEach(alloc, elem), NEW c \in Contents,
           NEW newel \in Elems \ alloc, NEW k \in 1..Len(q), NEW index, index = q[k],
           ListInsert(c, newel, index)
    PROVE  ADT!InsertBefore(c, elem[index].content)
<1> DEFINE r == InsertAt(q, k, newel)
           s == ItemsOf(Forward)
           t == ItemsOf(Forward)'
           u == InsertAt(s, k, c)
<1>1. /\ ListOf(r)' /\ elem'[newel].content = c
      /\ \A x \in alloc : elem'[x].content = elem[x].content
  BY ListInserted
<1>2. /\ q \in Seq(Elems) /\ Len(q) \in Nat /\ alloc \subseteq Elems
      /\ \A i \in 1..Len(q) : q[i] \in alloc
  BY ListFacts
<1>3. /\ s \in Seq(Contents) /\ Len(s) = Len(q)
      /\ \A i \in 1..Len(q) : s[i] = elem[q[i]].content
      /\ \A i, j \in 1..Len(q) : s[i] = s[j] => i = j
  BY ItemFacts
<1>4. /\ Len(r) = Len(q) + 1
      /\ \A j \in 1..(Len(q) + 1) :
            r[j] = IF j < k THEN q[j] ELSE IF j = k THEN newel ELSE q[j - 1]
  <2>1. q \in Seq(Elems) /\ newel \in Elems
    BY <1>2
  <2> QED
    BY <2>1, InsertAtFacts
<1>5. t = ItemsAlong(r, elem')
  BY <1>1, ItemsAfter
<1>6. current' = current /\ current \in alloc \cup {NULL} /\ NULL \notin Elems
  BY ElemsAssumption DEF ListInsert, ListOf
<1> HIDE DEF r, s, t
<1>7. /\ u \in Seq(Contents) /\ Len(u) = Len(q) + 1
      /\ \A j \in 1..(Len(q) + 1) :
            u[j] = IF j < k THEN s[j] ELSE IF j = k THEN c ELSE s[j - 1]
  <2>1. k \in 1..Len(s)
    BY <1>3
  <2>2. /\ u \in Seq(Contents) /\ Len(u) = Len(s) + 1
        /\ \A j \in 1..(Len(s) + 1) :
            u[j] = IF j < k THEN s[j] ELSE IF j = k THEN c ELSE s[j - 1]
    BY <1>3, <2>1, InsertAtFacts
  <2> QED
    BY <1>3, <2>2
<1> HIDE DEF u
<1>8. t = u
  <2>1. ASSUME NEW i \in 1..(Len(q) + 1) PROVE elem'[r[i]].content = u[i]
    <3>1. (i < k => i \in 1..Len(q)) /\ (~(i < k) /\ i # k => i - 1 \in 1..Len(q))
      BY <1>2
    <3>2. CASE i < k
      BY <1>1, <1>2, <1>3, <1>4, <1>7, <3>1, <3>2
    <3>3. CASE i = k
      <4>1. ~(i < k)
        BY <1>2, <3>3
      <4> QED
        BY <1>1, <1>4, <1>7, <3>3, <4>1
    <3>4. CASE ~(i < k) /\ i # k
      <4>1. r[i] = q[i - 1] /\ u[i] = s[i - 1]
        BY <1>4, <1>7, <3>4
      <4> QED
        BY <1>1, <1>2, <1>3, <3>1, <3>4, <4>1
    <3> QED
      BY <3>2, <3>3, <3>4
  <2>2. t = [i \in 1..(Len(q) + 1) |-> u[i]]
    BY <1>4, <1>5, <2>1 DEF ItemsAlong
  <2>3. u = [i \in 1..(Len(q) + 1) |-> u[i]]
    BY <1>7
  <2> QED
    BY <2>2, <2>3
<1>9. CursorItem' = CursorItem
  <2>1. current # NULL => elem'[current].content = elem[current].content
    BY <1>1, <1>6
  <2> QED
    BY <1>6, <2>1 DEF CursorItem
<1>10. ADT!SelectInSeq(s, LAMBDA x : x = elem[index].content) = k
  <2> DEFINE d == elem[index].content
  <2>1. k \in 1..Len(s) /\ d = s[k]
    BY <1>3
  <2> HIDE DEF d
  <2>2. {i \in 1..Len(s) : s[i] = d} = {k} /\ Min({k}) = k
    BY <1>3, <2>1, PlaceIs
  <2> QED
    BY <2>2, AbstractOperators DEF ADT!SelectInSeq, d
<1>11. t = ADT!InsertAt(s, ADT!SelectInSeq(s, LAMBDA x : x = elem[index].content), c)
  BY <1>8, <1>10, AbstractOperators DEF u
<1> QED
  BY <1>9, <1>11 DEF ADT!InsertBefore, CursorItem, s, t

(* The abstract search finds the item of the element the search finds.     *)
LEMMA FoundIs ==
    ASSUME NEW q, ListOf(q), NEW wanted \in Wanted
    PROVE  /\ ADT!Found(wanted) = IF findItem(wanted) = NULL THEN NULL
                                  ELSE elem[findItem(wanted)].content
           /\ findItem(wanted) # NULL =>
                findItem(wanted) \in alloc /\ elem[findItem(wanted)].content \in Contents
<1> DEFINE I == Matches(q, wanted)
           s == ItemsOf(Forward)
<1>1. /\ findItem(wanted) = IF current # NULL /\ elem[current].content \in wanted
                            THEN current
                            ELSE IF I = {} THEN NULL ELSE q[Min(I)]
      /\ I # {} => Min(I) \in I
  BY Finds
<1>2. s \in Seq(Contents) /\ Len(s) = Len(q) /\ s = [i \in 1..Len(q) |-> elem[q[i]].content]
  BY ItemsAre
<1>3. NULL \notin wanted
  <2>1. wanted \subseteq Contents
    BY DEF Wanted
  <2> QED
    BY <2>1, ElemsAssumption
<1>4. /\ \A i \in 1..Len(q) : q[i] \in alloc /\ q[i] # NULL
      /\ \A x \in alloc : elem[x].content \in Contents /\ x # NULL
      /\ current \in alloc \cup {NULL}
      /\ Len(q) \in Nat
  BY ListFacts DEF ListOf
<1> HIDE DEF s
<1>5. {i \in 1..Len(s) : s[i] \in wanted} = I
  BY <1>2 DEF Matches
<1>6. ADT!SelectInSeq(s, LAMBDA c : c \in wanted) = IF I # {} THEN Min(I) ELSE 0
  <2> HIDE DEF I
  <2> QED
    BY <1>5, AbstractOperators DEF ADT!SelectInSeq
<1>7. \A i \in I : i \in 1..Len(q) /\ i # 0
  BY <1>4 DEF Matches
<1> HIDE DEF I
<1>8. ADT!Found(wanted) =
        IF CursorItem \in wanted THEN CursorItem
        ELSE IF ADT!SelectInSeq(s, LAMBDA c : c \in wanted) = 0 THEN NULL
             ELSE s[ADT!SelectInSeq(s, LAMBDA c : c \in wanted)]
  BY DEF ADT!Found, CursorItem, s
<1>9. CASE current # NULL /\ elem[current].content \in wanted
  BY <1>1, <1>4, <1>8, <1>9 DEF CursorItem
<1>10. CASE ~(current # NULL /\ elem[current].content \in wanted)
  <2>1. CursorItem \notin wanted
    BY <1>3, <1>10 DEF CursorItem
  <2>2. CASE I = {}
    BY <1>1, <1>6, <1>8, <1>10, <2>1, <2>2
  <2>3. CASE I # {}
    <3>1. Min(I) \in 1..Len(q) /\ Min(I) # 0
      BY <1>1, <1>7, <2>3
    <3>2. findItem(wanted) = q[Min(I)] /\ ADT!Found(wanted) = s[Min(I)]
      BY <1>1, <1>6, <1>8, <1>10, <2>1, <2>3, <3>1
    <3> QED
      BY <1>2, <1>4, <3>1, <3>2
  <2> QED
    BY <2>2, <2>3
<1> QED
  BY <1>9, <1>10

LEMMA SearchIsFind ==
    ASSUME NEW q, ListOf(q), NEW wanted \in Wanted, ListFindItem(wanted)
    PROVE  ADT!Find(wanted)
<1>1. /\ findItem(wanted) # NULL /\ current' = findItem(wanted) /\ elem' = elem
      /\ ListOf(q)'
  BY ListSearched DEF ListFindItem
<1>2. /\ ADT!Found(wanted) = elem[findItem(wanted)].content
      /\ elem[findItem(wanted)].content \in Contents /\ NULL \notin Contents
  BY <1>1, FoundIs, ElemsAssumption
<1>3. CursorItem' = ADT!Found(wanted) /\ ADT!Found(wanted) # NULL
  <2>1. CursorItem' = elem[findItem(wanted)].content
    BY <1>1 DEF CursorItem
  <2> QED
    BY <1>2, <2>1
<1>4. ItemsOf(Forward)' = ItemsOf(Forward)
  <2>1. ItemsOf(Forward)' = ItemsAlong(q, elem')
    BY <1>1, ItemsAfter
  <2>2. ItemsOf(Forward) = ItemsAlong(q, elem)
    BY ItemsAre DEF ItemsAlong
  <2> QED
    BY <1>1, <2>1, <2>2
<1> QED
  BY <1>3, <1>4 DEF ADT!Find, CursorItem

(* The item after that of element k.                                       *)
LEMMA SuccessorIs ==
    ASSUME NEW q, ListOf(q), OneItemEach(alloc, elem), NEW k \in 1..Len(q),
           NEW c, c = ItemsOf(Forward)[k]
    PROVE  ADT!Successor(c) = IF At(q, k + 1) = NULL THEN NULL
                              ELSE elem[At(q, k + 1)].content
<1> DEFINE s == ItemsOf(Forward)
<1>1. /\ s \in Seq(Contents) /\ Len(s) = Len(q)
      /\ \A i \in 1..Len(q) : s[i] = elem[q[i]].content
      /\ \A i, j \in 1..Len(q) : s[i] = s[j] => i = j
  BY ItemFacts
<1>2. Len(q) \in Nat /\ (At(q, k + 1) = NULL <=> k = Len(q))
  BY ListFacts, Neighbours
<1>3. ADT!Successor(c) = LET i == ADT!SelectInSeq(s, LAMBDA d : d = c)
                         IN  IF i < Len(s) THEN s[i + 1] ELSE NULL
  BY DEF ADT!Successor
<1>a. c = s[k]
  OBVIOUS
<1> HIDE DEF s
<1>4. ADT!SelectInSeq(s, LAMBDA d : d = c) = k
  <2>1. k \in 1..Len(s)
    BY <1>1
  <2>2. {i \in 1..Len(s) : s[i] = c} = {k} /\ Min({k}) = k
    BY <1>1, <1>a, <2>1, PlaceIs
  <2> QED
    BY <2>2, AbstractOperators DEF ADT!SelectInSeq
<1>5. ADT!Successor(c) = IF k < Len(s) THEN s[k + 1] ELSE NULL
  BY <1>3, <1>4
<1>6. CASE k = Len(q)
  BY <1>1, <1>2, <1>5, <1>6
<1>7. CASE k # Len(q)
  <2>1. k < Len(q) /\ k + 1 \in 1..Len(q)
    BY <1>2, <1>7
  <2>2. At(q, k + 1) = q[k + 1]
    BY <2>1 DEF At
  <2> QED
    BY <1>1, <1>2, <1>5, <1>7, <2>1, <2>2
<1> QED
  BY <1>6, <1>7

(* Where the cursor is after element k is taken out.                       *)
LEMMA CursorTakenOut ==
    ASSUME NEW q, ListOf(q), OneItemEach(alloc, elem), NEW k \in 1..Len(q),
           alloc' = alloc \ {q[k]},
           \A x \in alloc' : elem'[x].content = elem[x].content,
           NEW x \in (alloc \ {q[k]}) \cup {NULL},
           current' = IF current = q[k] THEN x ELSE current
    PROVE  CursorItem' = IF CursorItem = ItemsOf(Forward)[k]
                         THEN IF x = NULL THEN NULL ELSE elem[x].content
                         ELSE CursorItem
<1>1. CursorItem = ItemsOf(Forward)[k] <=> current = q[k]
  BY ItemFacts
<1>2. current \in alloc \cup {NULL} /\ NULL \notin alloc /\ q[k] \in alloc
  BY ListFacts DEF ListOf
<1>3. current' \in alloc' \cup {NULL} /\ NULL \notin alloc'
  BY <1>2
<1>4. CursorItem' = IF current' = NULL THEN NULL ELSE elem[current'].content
  BY <1>3, CursorAfter
<1> QED
  BY <1>1, <1>2, <1>4 DEF CursorItem

LEMMA UnlinkIsDrop ==
    ASSUME NEW q, ListOf(q), OneItemEach(alloc, elem), NEW wanted \in Wanted,
           ListUnlink(wanted)
    PROVE  ADT!Drop(wanted)
<1> DEFINE s == ItemsOf(Forward)
<1>1. PICK k \in 1..Len(q) :
        /\ findItem(wanted) = q[k] /\ ListOf(RemoveAt(q, k))' /\ alloc' = alloc \ {q[k]}
        /\ \A x \in alloc' : elem'[x].content = elem[x].content
  BY ListUnlinked
<1>2. /\ s \in Seq(Contents) /\ Len(s) = Len(q)
      /\ \A i \in 1..Len(q) : s[i] = elem[q[i]].content /\ s[i] # NULL
      /\ \A i, j \in 1..Len(q) : s[i] = s[j] => i = j
  BY ItemFacts
<1>3. ADT!Found(wanted) = s[k]
  <2>1. findItem(wanted) # NULL
    BY DEF ListUnlink
  <2> QED
    BY <1>1, <1>2, <2>1, FoundIs
<1>4. s' = RemoveAt(s, k)
  BY <1>1, ItemTakenOut
<1>5. CursorItem' = IF CursorItem = s[k] THEN ADT!Successor(s[k]) ELSE CursorItem
  <2> DEFINE x == At(q, k + 1)
  <2>1. elem[q[k]].next = x /\ x \in (alloc \ {q[k]}) \cup {NULL}
    BY Neighbours
  <2>2. ADT!Successor(s[k]) = IF x = NULL THEN NULL ELSE elem[x].content
    BY SuccessorIs
  <2> HIDE DEF x
  <2>3. current' = IF current = q[k] THEN x ELSE current
    BY <1>1, <2>1 DEF ListUnlink, cursorAfter
  <2>4. CursorItem' = IF CursorItem = s[k]
                      THEN IF x = NULL THEN NULL ELSE elem[x].content
                      ELSE CursorItem
    BY <1>1, <2>1, <2>3, CursorTakenOut
  <2> QED
    BY <2>2, <2>4
<1>6. RemoveAt(s, k) = ADT!RemoveFirst(s, s[k])
  <2> HIDE DEF s
  <2>1. k \in 1..Len(s)
    BY <1>2
  <2> DEFINE c == s[k]
  <2>2. c = s[k]
    OBVIOUS
  <2> HIDE DEF c
  <2>3. RemoveFirst(s, c) = RemoveAt(s, k)
    <3>1. s \in Seq(Contents) /\ \A i, j \in 1..Len(s) : s[i] = s[j] => i = j
      BY <1>2
    <3> QED
      BY <2>1, <2>2, <3>1, PlaceIs
  <2> QED
    BY <2>2, <2>3, AbstractOperators
<1>7. ADT!Found(wanted) # NULL
  BY <1>2, <1>3
<1> QED
  BY <1>3, <1>4, <1>5, <1>6, <1>7 DEF ADT!Drop, CursorItem

(* Without its first or last element a sequence is its tail or its front.  *)
LEMMA RemoveEnds ==
    ASSUME NEW S, NEW s \in Seq(S), s # <<>>
    PROVE  /\ RemoveAt(s, 1) = Tail(s) /\ RemoveAt(s, Len(s)) = Front(s)
           /\ Head(s) = s[1] /\ 1 \in 1..Len(s) /\ Len(s) \in 1..Len(s)
<1>1. 1 \in 1..Len(s) /\ Len(s) \in 1..Len(s) /\ Head(s) = s[1] /\ Len(s) \in Nat
  OBVIOUS
<1>2. RemoveAt(s, 1) = Tail(s)
  <2> DEFINE r == RemoveAt(s, 1)
             t == Tail(s)
  <2>1. /\ r \in Seq(S) /\ Len(r) = Len(s) - 1
        /\ \A j \in 1..(Len(s) - 1) : r[j] = IF j < 1 THEN s[j] ELSE s[j + 1]
    BY <1>1, RemoveAtFacts
  <2>2. /\ t \in Seq(S) /\ Len(t) = Len(s) - 1
        /\ \A j \in 1..(Len(s) - 1) : t[j] = s[j + 1]
    BY HeadTailProperties
  <2> HIDE DEF r, t
  <2>3. \A j \in 1..(Len(s) - 1) : r[j] = t[j]
    BY <1>1, <2>1, <2>2
  <2>4. r = t
    BY <2>1, <2>2, <2>3, SeqEqual
  <2> QED
    BY <2>4 DEF r, t
<1>3. RemoveAt(s, Len(s)) = Front(s)
  <2> DEFINE r == RemoveAt(s, Len(s))
             t == Front(s)
  <2>1. /\ r \in Seq(S) /\ Len(r) = Len(s) - 1
        /\ \A j \in 1..(Len(s) - 1) : r[j] = IF j < Len(s) THEN s[j] ELSE s[j + 1]
    BY <1>1, RemoveAtFacts
  <2>2. /\ t \in Seq(S) /\ Len(t) = Len(s) - 1
        /\ \A j \in 1..(Len(s) - 1) : t[j] = s[j]
    <3>1. \A j \in 1..(Len(s) - 1) : s[j] \in S
      BY <1>1, SeqFacts
    <3>2. 1 \in Int /\ Len(s) - 1 \in Int
      BY <1>1
    <3>3. /\ t \in Seq(S)
          /\ Len(t) = IF 1 <= Len(s) - 1 THEN (Len(s) - 1) - 1 + 1 ELSE 0
          /\ \A j \in 1..((Len(s) - 1) - 1 + 1) : t[j] = s[1 + j - 1]
      BY <3>1, <3>2, SubSeqProperties DEF Front
    <3> HIDE DEF t
    <3>4. \A j \in 1..(Len(s) - 1) : 1 + j - 1 = j
      BY <1>1
    <3>5. (Len(s) - 1) - 1 + 1 = Len(s) - 1
      BY <1>1
    <3>6. Len(t) = Len(s) - 1
      <4>1. CASE 1 <= Len(s) - 1
        BY <3>3, <3>5, <4>1
      <4>2. CASE ~(1 <= Len(s) - 1)
        <5>1. Len(t) = 0
          BY <3>3, <4>2
        <5>2. \A n \in Nat : n >= 1 /\ ~(1 <= n - 1) => n - 1 = 0
          OBVIOUS
        <5>3. Len(s) \in Nat /\ Len(s) >= 1
          BY <1>1
        <5>4. Len(s) - 1 = 0
          BY <4>2, <5>2, <5>3
        <5> QED
          BY <5>1, <5>4
      <4> QED
        BY <4>1, <4>2
    <3>7. \A j \in 1..(Len(s) - 1) : t[j] = s[1 + j - 1]
      BY <3>3, <3>5
    <3> QED
      BY <3>3, <3>4, <3>6, <3>7
  <2> HIDE DEF r, t
  <2>3. \A j \in 1..(Len(s) - 1) : r[j] = t[j]
    BY <1>1, <2>1, <2>2
  <2>4. r = t
    BY <2>1, <2>2, <2>3, SeqEqual
  <2> QED
    BY <2>4 DEF r, t
<1> QED
  BY <1>1, <1>2, <1>3

LEMMA DetachIsDropFirst ==
    ASSUME NEW q, ListOf(q), OneItemEach(alloc, elem), ListDetachHead
    PROVE  ADT!DropFirst
<1> DEFINE s == ItemsOf(Forward)
           k == 1
<1>1. /\ k \in 1..Len(q) /\ first = q[k] /\ ListOf(RemoveAt(q, k))'
      /\ alloc' = alloc \ {q[k]} /\ \A x \in alloc' : elem'[x].content = elem[x].content
  BY ListHeadDetached
<1>2. s \in Seq(Contents) /\ Len(s) = Len(q)
  BY ItemFacts
<1>3. s # <<>>
  BY <1>1, <1>2
<1>4. s' = RemoveAt(s, k)
  <2> HIDE DEF k
  <2> QED
    BY <1>1, ItemTakenOut
<1>5. RemoveAt(s, k) = Tail(s) /\ Head(s) = s[k]
  <2> HIDE DEF s
  <2> QED
    BY <1>2, <1>3, RemoveEnds
<1>6. CursorItem' = IF CursorItem = s[k] THEN ADT!Successor(s[k]) ELSE CursorItem
  <2> DEFINE x == At(q, k + 1)
  <2>a. current' = IF current = first THEN elem[first].next ELSE current
    BY DEF ListDetachHead
  <2> HIDE DEF k
  <2>1. elem[q[k]].next = x /\ x \in (alloc \ {q[k]}) \cup {NULL}
    BY <1>1, Neighbours
  <2>2. ADT!Successor(s[k]) = IF x = NULL THEN NULL ELSE elem[x].content
    BY <1>1, SuccessorIs
  <2> HIDE DEF x
  <2>3. current' = IF current = q[k] THEN x ELSE current
    BY <1>1, <2>1, <2>a
  <2>4. CursorItem' = IF CursorItem = s[k]
                      THEN IF x = NULL THEN NULL ELSE elem[x].content
                      ELSE CursorItem
    BY <1>1, <2>1, <2>3, CursorTakenOut
  <2> QED
    BY <2>2, <2>4
<1>7. s' = Tail(s)
  BY <1>4, <1>5
<1>8. CursorItem' = IF CursorItem = Head(s) THEN ADT!Successor(CursorItem) ELSE CursorItem
  <2> HIDE DEF s, k
  <2> QED
    BY <1>5, <1>6
<1> QED
  BY <1>3, <1>7, <1>8 DEF ADT!DropFirst, CursorItem

LEMMA PopIsDropLast ==
    ASSUME NEW q, ListOf(q), OneItemEach(alloc, elem), ListPopTail
    PROVE  ADT!DropLast
<1> DEFINE s == ItemsOf(Forward)
           k == Len(q)
<1>1. /\ k \in 1..Len(q) /\ last = q[k] /\ ListOf(RemoveAt(q, k))'
      /\ alloc' = alloc \ {q[k]} /\ \A x \in alloc' : elem'[x].content = elem[x].content
  BY ListTailPopped
<1>2. s \in Seq(Contents) /\ Len(s) = k /\ k \in Nat
      /\ \A i \in 1..k : s[i] = elem[q[i]].content
  BY ItemFacts, ListFacts
<1>3. s # <<>>
  BY <1>1, <1>2
<1>4. s' = RemoveAt(s, k)
  <2> HIDE DEF k
  <2> QED
    BY <1>1, ItemTakenOut
<1>5. RemoveAt(s, k) = Front(s)
  <2> HIDE DEF s
  <2> QED
    BY <1>2, <1>3, RemoveEnds
<1>6. CursorItem' = IF CursorItem = s[k]
                    THEN IF k = 1 THEN NULL ELSE s[k - 1]
                    ELSE CursorItem
  <2> DEFINE x == At(q, k - 1)
  <2>a. current' = IF current = last THEN elem[last].prev ELSE current
    BY DEF ListPopTail
  <2>1. /\ elem[q[k]].prev = x /\ x \in (alloc \ {q[k]}) \cup {NULL}
        /\ x = NULL <=> k = 1
    <3> HIDE DEF k
    <3> QED
      BY <1>1, Neighbours
  <2>2. x # NULL => x = q[k - 1] /\ k - 1 \in 1..k
    BY DEF At
  <2>3. (IF x = NULL THEN NULL ELSE elem[x].content) = IF k = 1 THEN NULL ELSE s[k - 1]
    <3> HIDE DEF x, s
    <3> QED
      BY <1>2, <2>1, <2>2
  <2> HIDE DEF x, k
  <2>4. current' = IF current = q[k] THEN x ELSE current
    BY <1>1, <2>1, <2>a
  <2>5. CursorItem' = IF CursorItem = s[k]
                      THEN IF x = NULL THEN NULL ELSE elem[x].content
                      ELSE CursorItem
    BY <1>1, <2>1, <2>4, CursorTakenOut
  <2> QED
    BY <2>3, <2>5
<1>7. s' = ADT!Front(s)
  BY <1>4, <1>5, AbstractOperators
<1>8. CursorItem' = IF CursorItem # ADT!Last(s) THEN CursorItem
                    ELSE IF Len(s) = 1 THEN NULL ELSE s[Len(s) - 1]
  <2> HIDE DEF s, k
  <2>1. ADT!Last(s) = s[k]
    BY <1>2, AbstractOperators DEF Last
  <2> QED
    BY <1>2, <1>6, <2>1
<1> QED
  BY <1>3, <1>7, <1>8 DEF ADT!DropLast, CursorItem

LEMMA EmptyIsClear ==
    ASSUME NEW q, ListOf(q), ListEmpty
    PROVE  ADT!Clear
<1>1. ListOf(<<>>)'
  BY ListEmptied
<1>2. ItemsOf(Forward)' = ItemsAlong(<<>>, elem')
  BY <1>1, ItemsAfter
<1>3. ItemsAlong(<<>>, elem') = <<>>
  BY DEF ItemsAlong
<1>4. CursorItem' = NULL
  BY DEF ListEmpty, CursorItem
<1> QED
  BY <1>2, <1>3, <1>4 DEF ADT!Clear, CursorItem

(* A step of the list is a step of the abstract list, ...                  *)
LEMMA OperationsAreAbstract == LInv => OperationsImplementADT
<1> SUFFICES ASSUME LInv PROVE OperationsImplementADT
  OBVIOUS
<1>1. PICK q : ListOf(q)
  BY DEF LInv
<1>2. OneItemEach(alloc, elem)
  BY DEF LInv
<1>3. ASSUME NEW c \in Contents, NEW newel \in Elems \ alloc
      PROVE  /\ ListAppend(c, newel) => ADT!Add(c)
             /\ \A index \in alloc :
                  ListInsert(c, newel, index) => ADT!InsertBefore(c, elem[index].content)
  <2>1. ListAppend(c, newel) => ADT!Add(c)
    BY <1>1, AppendIsAdd
  <2>2. ASSUME NEW index \in alloc, ListInsert(c, newel, index)
        PROVE  ADT!InsertBefore(c, elem[index].content)
    <3>1. PICK k \in 1..Len(q) : index = q[k]
      BY <1>1, ListFacts
    <3> QED
      BY <1>1, <1>2, <2>2, <3>1, InsertIsInsertBefore
  <2> QED
    BY <2>1, <2>2
<1>4. ASSUME NEW wanted \in Wanted
      PROVE  /\ ListFindItem(wanted) => ADT!Find(wanted)
             /\ ListUnlink(wanted) => ADT!Drop(wanted)
  BY <1>1, <1>2, SearchIsFind, UnlinkIsDrop
<1>5. ListDetachHead => ADT!DropFirst
  BY <1>1, <1>2, DetachIsDropFirst
<1>6. ListPopTail => ADT!DropLast
  BY <1>1, <1>2, PopIsDropLast
<1>7. ListEmpty => ADT!Clear
  BY <1>1, EmptyIsClear
<1> QED
  BY <1>3, <1>4, <1>5, <1>6, <1>7 DEF OperationsImplementADT

(* ... the one its operation stands for.                                   *)
LEMMA NextIsAbstract ==
    ASSUME LInv, Next
    PROVE  ADT!Next
<1>0. OperationsImplementADT
  BY OperationsAreAbstract
<1>1. PICK q : ListOf(q)
  BY DEF LInv
<1>2. Forward = q /\ alloc = ToSet(q)
  BY <1>1, ListFacts
<1>3. Items = ToSet(ItemsOf(Forward)) /\ Items = {elem[x].content : x \in alloc}
  BY <1>1, ItemsAre DEF Items
<1>t. \A s : ADT!ToSet(s) = ToSet(s)
  BY DEF ADT!ToSet, ToSet
<1>4. ASSUME NEW c \in Contents \ Items, NEW newel \in Elems \ alloc, ListAppend(c, newel)
      PROVE  ADT!Next
  <2>1. ADT!Add(c)
    BY <1>0, <1>4 DEF OperationsImplementADT
  <2> QED
    BY <1>3, <1>t, <2>1 DEF ADT!Next
<1>5. ASSUME NEW c \in Contents \ Items, NEW newel \in Elems \ alloc,
             NEW index \in ToSet(Forward), ListInsert(c, newel, index)
      PROVE  ADT!Next
  <2>1. index \in alloc
    BY <1>2
  <2> DEFINE d == elem[index].content
  <2>2. ADT!InsertBefore(c, d)
    BY <1>0, <1>5, <2>1 DEF OperationsImplementADT
  <2>3. d \in Items
    BY <1>3, <2>1
  <2> HIDE DEF d
  <2> QED
    BY <1>3, <1>t, <2>2, <2>3 DEF ADT!Next
<1>6. ASSUME NEW wanted \in Wanted, ListFindItem(wanted) \/ ListUnlink(wanted)
      PROVE  ADT!Next
  <2>1. ADT!Find(wanted) \/ ADT!Drop(wanted)
    BY <1>0, <1>6 DEF OperationsImplementADT
  <2>2. wanted \in ADT!Wanted
    BY DEF Wanted, ADT!Wanted
  <2> QED
    BY <2>1, <2>2 DEF ADT!Next
<1>7. CASE ListDetachHead \/ ListPopTail \/ ListEmpty
  <2>1. ADT!DropFirst \/ ADT!DropLast \/ ADT!Clear
    BY <1>0, <1>7 DEF OperationsImplementADT
  <2> QED
    BY <2>1 DEF ADT!Next
<1> QED
  BY <1>4, <1>5, <1>6, <1>7 DEF Next, Adding

(* The list with its pointers implements the abstract sequence of items    *)
(* with a cursor, operation by operation (LinkedList.c:65-371).            *)
THEOREM ListRefinesADT == Spec => ImplementsADT
<1>1. Init => ADT!Init
  <2> SUFFICES ASSUME Init PROVE ADT!Init
    OBVIOUS
  <2>1. Chain(<<>>, first, last, elem)
    BY DEF Init, Chain, OnceEach, At
  <2>2. Forward = <<>>
    BY <2>1, VisitsChain
  <2>3. ItemsOf(Forward) = <<>>
    BY <2>2 DEF ItemsOf
  <2> QED
    BY <2>3 DEF ADT!Init, Init
<1>2. LInv /\ [Next]_vars =>
        UNCHANGED vars \/ ([ADT!Next]_(ADT!listVars) /\ OperationsImplementADT)
  BY NextIsAbstract, OperationsAreAbstract
<1> QED
  BY <1>1, <1>2, ListInvariant, PTL DEF Spec, ImplementsADT
=============================================================================
