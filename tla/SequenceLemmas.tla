----------------------------- MODULE SequenceLemmas -----------------------------
(****************************************************************************)
(* Facts about sequences and sets of places that the proofs of several      *)
(* components cite: std::vector::erase, the first of the places a search    *)
(* finds, parts of a sequence, and messages one after the other.            *)
(****************************************************************************)
EXTENDS Integers, Sequences, SequencesExt, FiniteSetsExt, SequenceTheorems,
        WellFoundedInduction, TLAPS

\* A set of places that is not empty has a first one.
LEMMA FirstPlace ==
    ASSUME NEW S \in SUBSET Nat, S # {}
    PROVE  Min(S) \in S /\ \A a \in S : Min(S) <= a
<1>1. PICK m \in S : \A a \in S : ~ (<<a, m>> \in OpToRel(<, Nat))
  BY NatLessThanWellFounded, WFMin
<1>2. ASSUME NEW a \in S PROVE m <= a
  <2>1. <<a, m>> \in Nat \X Nat /\ <<a, m>>[1] = a /\ <<a, m>>[2] = m
    OBVIOUS
  <2>2. ~ (a < m)
    BY <1>1, <2>1, Zenon DEF OpToRel
  <2> QED
    BY <2>2
<1> QED
  BY <1>2 DEF Min

\* What is left of a sequence without its i-th element.
LEMMA WithoutOne ==
    ASSUME NEW S, NEW q \in Seq(S), NEW i \in 1 .. Len(q)
    PROVE  LET r == SubSeq(q, 1, i - 1) \o SubSeq(q, i + 1, Len(q))
           IN  /\ r \in Seq(S)
               /\ Len(r) = Len(q) - 1
               /\ \A j \in 1 .. Len(q) - 1 : r[j] = IF j < i THEN q[j] ELSE q[j + 1]
<1> DEFINE n == Len(q)
           l == SubSeq(q, 1, i - 1)
           m == SubSeq(q, i + 1, n)
<1>1. n \in Nat /\ i \in Int /\ i - 1 \in Int /\ i + 1 \in Int /\ 1 \in Int
  BY LenProperties
<1>2. \A j \in 1 .. n : q[j] \in S
  BY ElementOfSeq
<1>3. /\ l \in Seq(S)
      /\ Len(l) = i - 1
      /\ \A j \in 1 .. i - 1 : l[j] = q[j]
  <2>1. \A j \in 1 .. i - 1 : q[j] \in S
    BY <1>1, <1>2
  <2>2. /\ l \in Seq(S)
        /\ Len(l) = IF 1 <= i - 1 THEN (i - 1) - 1 + 1 ELSE 0
        /\ \A j \in 1 .. (i - 1) - 1 + 1 : l[j] = q[1 + j - 1]
    BY <1>1, <2>1, SubSeqProperties
  <2> HIDE DEF l
  <2> QED
    BY <1>1, <2>2
<1>4. /\ m \in Seq(S)
      /\ Len(m) = n - i
      /\ \A j \in 1 .. n - i : m[j] = q[i + j]
  <2>1. \A j \in i + 1 .. n : q[j] \in S
    BY <1>1, <1>2
  <2>2. /\ m \in Seq(S)
        /\ Len(m) = IF i + 1 <= n THEN n - (i + 1) + 1 ELSE 0
        /\ \A j \in 1 .. n - (i + 1) + 1 : m[j] = q[(i + 1) + j - 1]
    BY <1>1, <2>1, SubSeqProperties
  <2> HIDE DEF m
  <2> QED
    BY <1>1, <2>2
<1> HIDE DEF l, m
<1>5. /\ l \o m \in Seq(S)
      /\ Len(l \o m) = Len(l) + Len(m)
      /\ \A j \in 1 .. Len(l) + Len(m) : (l \o m)[j] = IF j <= Len(l) THEN l[j] ELSE m[j - Len(l)]
  BY <1>3, <1>4, ConcatProperties
<1>6. Len(l \o m) = n - 1
  BY <1>1, <1>3, <1>4, <1>5
<1>7. \A j \in 1 .. n - 1 : (l \o m)[j] = IF j < i THEN q[j] ELSE q[j + 1]
  BY <1>1, <1>3, <1>4, <1>5
<1> QED
  BY <1>5, <1>6, <1>7 DEF l, m

\* RemoveFirst takes out the first of the elements equal to e, and that one only.
LEMMA FirstRemoved ==
    ASSUME NEW S, NEW q \in Seq(S), NEW e \in ToSet(q)
    PROVE  LET r == RemoveFirst(q, e)
           IN  \E i \in 1 .. Len(q) :
                  /\ q[i] = e
                  /\ r \in Seq(S)
                  /\ Len(r) = Len(q) - 1
                  /\ \A j \in 1 .. Len(q) - 1 : r[j] = IF j < i THEN q[j] ELSE q[j + 1]
<1> DEFINE P == {j \in 1 .. Len(q) : q[j] = e}
           i == Min(P)
<1>1. DOMAIN q = 1 .. Len(q) /\ Len(q) \in Nat
  BY LenProperties
<1>2. P # {} /\ P \in SUBSET Nat
  BY <1>1 DEF ToSet
<1>3. i \in P
  BY <1>2, FirstPlace
<1>4. i \in 1 .. Len(q) /\ q[i] = e
  BY <1>3
<1>5. RemoveFirst(q, e) = SubSeq(q, 1, i - 1) \o SubSeq(q, i + 1, Len(q))
  <2>1. SelectInSeq(q, LAMBDA v : v = e) = i
    BY <1>2 DEF SelectInSeq
  <2> HIDE DEF i
  <2>2. \E j \in 1 .. Len(q) : q[j] = e
    BY <1>4
  <2> QED
    BY <2>1, <2>2 DEF RemoveFirst, RemoveAt
<1> HIDE DEF i
<1> QED
  BY <1>4, <1>5, WithoutOne

\* The elements that are not e stay.
LEMMA OthersStay ==
    ASSUME NEW S, NEW q \in Seq(S), NEW e \in ToSet(q), NEW x \in ToSet(q), x # e
    PROVE  x \in ToSet(RemoveFirst(q, e))
<1> DEFINE r == RemoveFirst(q, e)
<1>1. DOMAIN q = 1 .. Len(q) /\ Len(q) \in Nat
  BY LenProperties
<1>2. PICK i \in 1 .. Len(q) :
         /\ q[i] = e
         /\ r \in Seq(S)
         /\ Len(r) = Len(q) - 1
         /\ \A j \in 1 .. Len(q) - 1 : r[j] = IF j < i THEN q[j] ELSE q[j + 1]
  BY FirstRemoved
<1> HIDE DEF r
<1>3. DOMAIN r = 1 .. Len(q) - 1
  BY <1>2, LenProperties
<1>4. PICK k \in 1 .. Len(q) : q[k] = x
  BY <1>1 DEF ToSet
<1>5. k # i
  BY <1>2, <1>4
<1>6. CASE k < i
  <2>1. k \in 1 .. Len(q) - 1 /\ r[k] = x
    BY <1>1, <1>2, <1>4, <1>6
  <2> QED
    BY <1>3, <2>1 DEF ToSet, r
<1>7. CASE k > i
  <2>1. k - 1 \in 1 .. Len(q) - 1 /\ ~ (k - 1 < i) /\ (k - 1) + 1 = k
    BY <1>1, <1>7
  <2>2. r[k - 1] = x
    BY <1>2, <1>4, <2>1
  <2> QED
    BY <1>3, <2>1, <2>2 DEF ToSet, r
<1> QED
  BY <1>1, <1>5, <1>6, <1>7

--------------------------------------------------------------------------------
(* Slices. *)

\* The elements of a sequence from m+1 to n.
LEMMA Slice ==
    ASSUME NEW S, NEW s \in Seq(S), NEW m \in 0 .. Len(s), NEW n \in m .. Len(s)
    PROVE  /\ SubSeq(s, m + 1, n) \in Seq(S)
           /\ Len(SubSeq(s, m + 1, n)) = n - m
           /\ \A i \in 1 .. n - m : SubSeq(s, m + 1, n)[i] = s[m + i]
<1>1. Len(s) \in Nat
  BY LenProperties
<1>2. \A i \in m + 1 .. n : s[i] \in S
  BY <1>1, ElementOfSeq
<1>3. CASE m < n
  <2>1. /\ SubSeq(s, m + 1, n) \in Seq(S)
        /\ Len(SubSeq(s, m + 1, n)) = n - (m + 1) + 1
        /\ \A i \in 1 .. n - (m + 1) + 1 : SubSeq(s, m + 1, n)[i] = s[(m + 1) + i - 1]
    BY <1>1, <1>2, <1>3, SubSeqProperties, m + 1 \in Int, n \in Int
  <2> QED
    BY <1>1, <2>1
<1>4. CASE m = n
  <2>1. SubSeq(s, m + 1, n) = << >>
    BY <1>1, <1>4, SubSeqEmpty, m + 1 \in Int, n \in Int, n < m + 1
  <2> QED
    BY <1>1, <1>4, <2>1, EmptySeq
<1> QED
  BY <1>1, <1>3, <1>4

\* Two adjacent slices make one.
LEMMA AdjacentSlices ==
    ASSUME NEW S, NEW s \in Seq(S), NEW m \in Nat,
           NEW n \in m .. Len(s), NEW p \in n .. Len(s)
    PROVE  SubSeq(s, m + 1, n) \o SubSeq(s, n + 1, p) = SubSeq(s, m + 1, p)
<1>1. Len(s) \in Nat
  BY LenProperties
<1>2. m + 1 \in 1 .. Len(s) + 1 /\ n \in (m + 1) - 1 .. Len(s)
  BY <1>1
<1> QED
  BY <1>2, ConcatAdjacentSubSeq

\* The whole of a sequence is the sequence.
LEMMA WholeSlice ==
    ASSUME NEW S, NEW s \in Seq(S)
    PROVE  SubSeq(s, 1, Len(s)) = s
<1>1. Len(s) \in Nat
  BY LenProperties
<1>2. /\ SubSeq(s, 1, Len(s)) \in Seq(S)
      /\ Len(SubSeq(s, 1, Len(s))) = Len(s)
      /\ \A i \in 1 .. Len(s) : SubSeq(s, 1, Len(s))[i] = s[i]
  <2>1. 0 \in 0 .. Len(s) /\ Len(s) \in 0 .. Len(s) /\ 0 + 1 = 1
    BY <1>1
  <2>2. /\ SubSeq(s, 0 + 1, Len(s)) \in Seq(S)
        /\ Len(SubSeq(s, 0 + 1, Len(s))) = Len(s) - 0
        /\ \A i \in 1 .. Len(s) - 0 : SubSeq(s, 0 + 1, Len(s))[i] = s[0 + i]
    BY <2>1, Slice
  <2> QED
    BY <1>1, <2>1, <2>2
<1> QED
  BY <1>2, SeqEqual

\* One more element of a sequence.
LEMMA OneMore ==
    ASSUME NEW S, NEW s \in Seq(S), NEW k \in Nat, k < Len(s)
    PROVE  /\ SubSeq(s, 1, k) \in Seq(S)
           /\ Len(SubSeq(s, 1, k)) = k
           /\ s[k + 1] \in S
           /\ SubSeq(s, 1, k + 1) = Append(SubSeq(s, 1, k), s[k + 1])
<1> DEFINE a == SubSeq(s, 1, k)
           b == SubSeq(s, 1, k + 1)
<1>1. Len(s) \in Nat /\ 0 \in 0 .. Len(s) /\ k \in 0 .. Len(s) /\ k + 1 \in 0 .. Len(s)
      /\ k + 1 \in 1 .. Len(s) /\ 0 + 1 = 1
  BY LenProperties
<1>2. a \in Seq(S) /\ Len(a) = k /\ \A i \in 1 .. k : a[i] = s[i]
  <2>1. /\ SubSeq(s, 0 + 1, k) \in Seq(S)
        /\ Len(SubSeq(s, 0 + 1, k)) = k - 0
        /\ \A i \in 1 .. k - 0 : SubSeq(s, 0 + 1, k)[i] = s[0 + i]
    BY <1>1, Slice
  <2> QED
    BY <1>1, <2>1
<1>3. b \in Seq(S) /\ Len(b) = k + 1 /\ \A i \in 1 .. k + 1 : b[i] = s[i]
  <2>1. /\ SubSeq(s, 0 + 1, k + 1) \in Seq(S)
        /\ Len(SubSeq(s, 0 + 1, k + 1)) = (k + 1) - 0
        /\ \A i \in 1 .. (k + 1) - 0 : SubSeq(s, 0 + 1, k + 1)[i] = s[0 + i]
    BY <1>1, Slice
  <2> QED
    BY <1>1, <2>1
<1>4. s[k + 1] \in S
  BY <1>1, ElementOfSeq
<1> HIDE DEF a, b
<1>5. /\ Append(a, s[k + 1]) \in Seq(S)
      /\ Len(Append(a, s[k + 1])) = k + 1
      /\ \A i \in 1 .. k : Append(a, s[k + 1])[i] = a[i]
      /\ Append(a, s[k + 1])[k + 1] = s[k + 1]
  BY <1>2, <1>4, AppendProperties
<1>6. \A i \in 1 .. k + 1 : b[i] = Append(a, s[k + 1])[i]
  BY <1>1, <1>2, <1>3, <1>5
<1>7. b = Append(a, s[k + 1])
  BY <1>3, <1>5, <1>6, SeqEqual
<1> QED
  BY <1>2, <1>4, <1>7 DEF a, b

--------------------------------------------------------------------------------
(* The bytes of several messages, one after the other.  Each proof is by the *)
(* first place where the claim would fail.                                    *)

\* FlattenSeq is the last value of the function it is defined by.
LEMMA FlattenDefined ==
    ASSUME NEW S, NEW s \in Seq(Seq(S)), Len(s) # 0
    PROVE  \E f : /\ f = [i \in 1 .. Len(s) |-> IF i = 1 THEN s[i] ELSE f[i - 1] \o s[i]]
                  /\ FlattenSeq(s) = f[Len(s)]
<1> DEFINE F(n, f) == f = [i \in 1 .. n |-> IF i = 1 THEN s[i] ELSE f[i - 1] \o s[i]]
           bad == {n \in Nat : ~ \E f : F(n, f)}
<1>1. bad = {}
  <2> SUFFICES ASSUME bad # {} PROVE FALSE
    OBVIOUS
  <2> DEFINE m == Min(bad)
  <2>1. m \in bad /\ \A n \in bad : m <= n
    <3>1. bad \in SUBSET Nat
      OBVIOUS
    <3> HIDE DEF bad
    <3> QED
      BY <3>1, FirstPlace
  <2> HIDE DEF m
  <2>2. m # 0
    <3>1. F(0, << >>)
      OBVIOUS
    <3>2. 0 \notin bad
      BY <3>1
    <3> HIDE DEF bad, F
    <3> QED
      BY <2>1, <3>2
  <2>3. m \in Nat /\ m - 1 \in Nat
    BY <2>1, <2>2
  <2>4. PICK f : F(m - 1, f)
    <3>1. m - 1 \notin bad
      <4> HIDE DEF bad
      <4> QED
        BY <2>1, <2>3
    <3> QED
      BY <2>3, <3>1
  <2> DEFINE g == [i \in 1 .. m |-> IF i < m THEN f[i] ELSE IF i = 1 THEN s[i] ELSE f[i - 1] \o s[i]]
  <2>5. F(m, g)
    <3>1. ASSUME NEW i \in 1 .. m PROVE g[i] = IF i = 1 THEN s[i] ELSE g[i - 1] \o s[i]
      <4>1. CASE i = 1
        BY <2>3, <2>4, <4>1
      <4>2. CASE i # 1 /\ i < m
        <5>1. i \in 1 .. m - 1 /\ i - 1 \in 1 .. m /\ i - 1 < m
          BY <2>3, <4>2
        <5>2. g[i] = f[i] /\ g[i - 1] = f[i - 1]
          BY <4>2, <5>1
        <5>3. f[i] = f[i - 1] \o s[i]
          BY <2>4, <4>2, <5>1
        <5> QED
          BY <4>2, <5>2, <5>3
      <4>3. CASE i # 1 /\ i = m
        <5>1. i - 1 \in 1 .. m /\ i - 1 < m /\ ~ (i < m)
          BY <2>3, <4>3
        <5> QED
          BY <4>3, <5>1
      <4> QED
        BY <2>3, <4>1, <4>2, <4>3
    <3> HIDE DEF g
    <3>2. g = [i \in 1 .. m |-> g[i]]
      BY DEF g
    <3> QED
      BY <3>1, <3>2
  <2> QED
    BY <2>1, <2>5
<1>2. Len(s) \in Nat
  BY LenProperties
<1>3. \E f : F(Len(s), f)
  BY <1>1, <1>2
<1> DEFINE c == CHOOSE f : F(Len(s), f)
<1>4. F(Len(s), c)
  BY <1>3
<1>5. FlattenSeq(s) = c[Len(s)]
  BY DEF FlattenSeq
<1> QED
  BY <1>4, <1>5

\* The bytes of a sequence of messages, and of one more.
LEMMA FlattenAppend ==
    ASSUME NEW S, NEW s \in Seq(Seq(S)), NEW x \in Seq(S)
    PROVE  /\ FlattenSeq(s) \in Seq(S)
           /\ FlattenSeq(Append(s, x)) = FlattenSeq(s) \o x
<1> DEFINE t == Append(s, x)
           n == Len(s)
<1>1. /\ n \in Nat /\ t \in Seq(Seq(S)) /\ Len(t) = n + 1
      /\ \A i \in 1 .. n : t[i] = s[i] /\ s[i] \in Seq(S)
      /\ t[n + 1] = x
  BY AppendProperties, LenProperties, ElementOfSeq
<1>2. CASE n = 0
  <2>1. s = << >> /\ FlattenSeq(s) = << >>
    BY <1>2, EmptySeq DEF FlattenSeq
  <2> HIDE DEF t, n
  <2>2. PICK g : /\ g = [i \in 1 .. Len(t) |-> IF i = 1 THEN t[i] ELSE g[i - 1] \o t[i]]
                 /\ FlattenSeq(t) = g[Len(t)]
    <3>1. Len(t) # 0
      BY <1>1
    <3> QED
      BY <1>1, <3>1, FlattenDefined
  <2>3. FlattenSeq(t) = x
    BY <1>1, <1>2, <2>2
  <2>4. << >> \in Seq(S) /\ << >> \o x = x
    BY EmptySeq, ConcatEmptySeq
  <2> QED
    BY <2>1, <2>3, <2>4 DEF t
<1>3. CASE n # 0
  <2>1. PICK f : /\ f = [i \in 1 .. n |-> IF i = 1 THEN s[i] ELSE f[i - 1] \o s[i]]
                 /\ FlattenSeq(s) = f[n]
    BY <1>3, FlattenDefined
  <2>2. PICK g : /\ g = [i \in 1 .. n + 1 |-> IF i = 1 THEN t[i] ELSE g[i - 1] \o t[i]]
                 /\ FlattenSeq(t) = g[n + 1]
    <3>1. Len(t) # 0
      BY <1>1
    <3> HIDE DEF t
    <3>2. \E g : /\ g = [i \in 1 .. Len(t) |-> IF i = 1 THEN t[i] ELSE g[i - 1] \o t[i]]
                 /\ FlattenSeq(t) = g[Len(t)]
      BY <1>1, <3>1, FlattenDefined
    <3> QED
      BY <1>1, <3>2
  <2> HIDE DEF t, n
  <2>3. /\ \A i \in 1 .. n : f[i] = IF i = 1 THEN s[i] ELSE f[i - 1] \o s[i]
        /\ \A i \in 1 .. n + 1 : g[i] = IF i = 1 THEN t[i] ELSE g[i - 1] \o t[i]
    BY <2>1, <2>2
  <2> DEFINE bad == {i \in 1 .. n : ~ (f[i] = g[i] /\ f[i] \in Seq(S))}
  <2>4. bad = {}
    <3> SUFFICES ASSUME bad # {} PROVE FALSE
      OBVIOUS
    <3> DEFINE m == Min(bad)
    <3>1. m \in bad /\ \A i \in bad : m <= i
      <4>1. bad \in SUBSET Nat
        BY <1>1
      <4> HIDE DEF bad
      <4> QED
        BY <4>1, FirstPlace
    <3> HIDE DEF m
    <3>2. m \in 1 .. n /\ m \in 1 .. n + 1 /\ m \in Nat
      BY <1>1, <3>1
    <3>3. s[m] = t[m] /\ s[m] \in Seq(S)
      BY <1>1, <3>2
    <3>4. CASE m = 1
      BY <2>3, <3>1, <3>2, <3>3, <3>4
    <3>5. CASE m # 1
      <4>1. m - 1 \in 1 .. n /\ ~ (m <= m - 1)
        BY <1>1, <3>2, <3>5
      <4>2. f[m - 1] = g[m - 1] /\ f[m - 1] \in Seq(S)
        BY <3>1, <4>1
      <4>3. f[m] = f[m - 1] \o s[m] /\ g[m] = g[m - 1] \o t[m]
        BY <2>3, <3>2, <3>5
      <4>4. f[m] = g[m] /\ f[m] \in Seq(S)
        BY <3>3, <4>2, <4>3, ConcatProperties
      <4> QED
        BY <3>1, <4>4
    <3> QED
      BY <3>4, <3>5
  <2>5. n \in 1 .. n /\ n + 1 \in 1 .. n + 1 /\ n + 1 # 1 /\ (n + 1) - 1 = n
    BY <1>1, <1>3
  <2>6. f[n] = g[n] /\ f[n] \in Seq(S)
    BY <2>4, <2>5
  <2>7. g[n + 1] = g[n] \o x
    BY <1>1, <2>3, <2>5
  <2> QED
    BY <2>1, <2>2, <2>6, <2>7 DEF t
<1> QED
  BY <1>2, <1>3

\* The messages of a one after the other, where f[m] is the bytes of message m.
Joined(f, a) == FlattenSeq([i \in DOMAIN a |-> f[a[i]]])

\* They are a sequence of bytes.
LEMMA JoinedIsSeq ==
    ASSUME NEW P, NEW S, NEW f \in [P -> Seq(S)], NEW a \in Seq(P)
    PROVE  Joined(f, a) \in Seq(S)
<1> DEFINE ma == [i \in DOMAIN a |-> f[a[i]]]
<1>1. Len(a) \in Nat /\ DOMAIN a = 1 .. Len(a) /\ \A i \in 1 .. Len(a) : f[a[i]] \in Seq(S)
  BY LenProperties, ElementOfSeq
<1>2. ma \in Seq(Seq(S)) /\ << >> \in Seq(S)
  BY <1>1, EmptySeq
<1> HIDE DEF ma
<1> QED
  BY <1>2, FlattenAppend DEF Joined, ma

\* One more message adds its bytes.
LEMMA JoinedAppend ==
    ASSUME NEW P, NEW S, NEW f \in [P -> Seq(S)], NEW a \in Seq(P), NEW x \in P,
           NEW b, b = Append(a, x)
    PROVE  Joined(f, b) = Joined(f, a) \o f[x]
<1> DEFINE ma == [i \in DOMAIN a |-> f[a[i]]]
           mb == [i \in DOMAIN b |-> f[b[i]]]
<1>1. /\ Len(a) \in Nat /\ DOMAIN a = 1 .. Len(a) /\ \A i \in 1 .. Len(a) : a[i] \in P
      /\ f[x] \in Seq(S)
  BY LenProperties, ElementOfSeq
<1>2. /\ b \in Seq(P) /\ Len(b) = Len(a) + 1 /\ DOMAIN b = 1 .. Len(a) + 1
      /\ \A i \in 1 .. Len(a) : b[i] = a[i]
      /\ b[Len(a) + 1] = x
  BY AppendProperties, LenProperties
<1>3. ma \in Seq(Seq(S)) /\ Len(ma) = Len(a) /\ \A i \in 1 .. Len(a) : ma[i] = f[a[i]]
  <2>1. \A i \in 1 .. Len(a) : f[a[i]] \in Seq(S)
    BY <1>1
  <2> QED
    BY <1>1, <2>1, IsASeq
<1>4. mb \in Seq(Seq(S)) /\ Len(mb) = Len(a) + 1 /\ \A i \in 1 .. Len(a) + 1 : mb[i] = f[b[i]]
  <2>1. \A i \in 1 .. Len(a) + 1 : f[b[i]] \in Seq(S)
    BY <1>1, <1>2, ElementOfSeq
  <2> QED
    BY <1>1, <1>2, <2>1, IsASeq
<1> HIDE DEF ma, mb
<1>5. /\ Append(ma, f[x]) \in Seq(Seq(S))
      /\ Len(Append(ma, f[x])) = Len(a) + 1
      /\ \A i \in 1 .. Len(a) : Append(ma, f[x])[i] = ma[i]
      /\ Append(ma, f[x])[Len(a) + 1] = f[x]
  BY <1>1, <1>3, AppendProperties
<1>6. \A i \in 1 .. Len(a) + 1 : mb[i] = Append(ma, f[x])[i]
  BY <1>1, <1>2, <1>3, <1>4, <1>5
<1>7. mb = Append(ma, f[x])
  BY <1>4, <1>5, <1>6, SeqEqual
<1> QED
  BY <1>1, <1>3, <1>7, FlattenAppend DEF Joined, ma, mb

================================================================================
