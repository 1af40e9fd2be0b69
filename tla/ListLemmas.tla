----------------------------- MODULE ListLemmas -----------------------------
(***************************************************************************)
(* Facts about lists that hold no element twice, which the proofs about    *)
(* wait lists and run queues use, and about counting.                      *)
(***************************************************************************)
EXTENDS Integers, Sequences, Functions, FiniteSetTheorems,
        SequenceTheorems, TLAPS

\* Appending to a list adds one element to its range.
LEMMA RangeAppend ==
  ASSUME NEW S, NEW s \in Seq(S), NEW e \in S
  PROVE  /\ Append(s, e) \in Seq(S)
         /\ Range(Append(s, e)) = Range(s) \cup {e}
         /\ IsInjective(s) /\ e \notin Range(s) => IsInjective(Append(s, e))
<1>1. Append(s, e) \in Seq(S) /\ Len(Append(s, e)) = Len(s) + 1
  OBVIOUS
<1>2. \A i \in 1..Len(s) : Append(s, e)[i] = s[i]
  OBVIOUS
<1>3. Append(s, e)[Len(s) + 1] = e
  OBVIOUS
<1>4. DOMAIN Append(s, e) = 1..(Len(s) + 1) /\ DOMAIN s = 1..Len(s)
  OBVIOUS
<1>5. Len(s) \in Nat /\ 1..(Len(s) + 1) = (1..Len(s)) \cup {Len(s) + 1}
  OBVIOUS
<1>6. Range(Append(s, e)) = Range(s) \cup {e}
  BY <1>2, <1>3, <1>4, <1>5 DEF Range
<1>7. IsInjective(s) /\ e \notin Range(s) => IsInjective(Append(s, e))
  BY <1>2, <1>3, <1>4, <1>5 DEF Range, IsInjective
<1> QED BY <1>1, <1>6, <1>7

\* Popping the head of a list takes exactly that element out of its range,
\* when the list has no duplicates.
LEMMA RangeTail ==
  ASSUME NEW S, NEW s \in Seq(S), s # <<>>
  PROVE  /\ Head(s) \in S /\ Tail(s) \in Seq(S)
         /\ Len(Tail(s)) = Len(s) - 1
         /\ Range(s) = Range(Tail(s)) \cup {Head(s)}
         /\ IsInjective(s) => /\ IsInjective(Tail(s))
                              /\ Head(s) \notin Range(Tail(s))
<1>1. /\ Head(s) \in S /\ Head(s) = s[1]
      /\ Tail(s) \in Seq(S) /\ Len(Tail(s)) = Len(s) - 1
      /\ \A i \in 1..Len(Tail(s)) : Tail(s)[i] = s[i + 1]
  BY HeadTailProperties
<1>2. Len(s) \in Nat \ {0}
  BY EmptySeq, LenProperties
<1>3. DOMAIN s = 1..Len(s) /\ DOMAIN Tail(s) = 1..(Len(s) - 1)
  BY <1>1, LenProperties
<1>4. \A i \in 1..Len(s) : i = 1 \/ (i - 1 \in 1..(Len(s) - 1) /\ i = (i - 1) + 1)
  BY <1>2
<1>5. Range(s) = Range(Tail(s)) \cup {Head(s)}
  <2>1. ASSUME NEW x \in Range(s) PROVE x \in Range(Tail(s)) \cup {Head(s)}
    <3>1. PICK i \in 1..Len(s) : x = s[i]
      BY <1>3 DEF Range
    <3>2. CASE i = 1
      BY <3>1, <3>2, <1>1
    <3>3. CASE i # 1
      <4>1. i - 1 \in 1..(Len(s) - 1) /\ Tail(s)[i - 1] = s[i]
        BY <3>3, <1>1, <1>2
      <4> QED BY <4>1, <3>1, <1>3 DEF Range
    <3> QED BY <3>2, <3>3
  <2>2. ASSUME NEW x \in Range(Tail(s)) PROVE x \in Range(s)
    <3>1. PICK i \in 1..(Len(s) - 1) : x = Tail(s)[i]
      BY <1>3 DEF Range
    <3>2. i + 1 \in 1..Len(s) /\ x = s[i + 1]
      BY <3>1, <1>1, <1>2
    <3> QED BY <3>2, <1>3 DEF Range
  <2>3. Head(s) \in Range(s)
    BY <1>1, <1>2, <1>3 DEF Range
  <2> QED BY <2>1, <2>2, <2>3
<1>6. ASSUME IsInjective(s) PROVE IsInjective(Tail(s)) /\ Head(s) \notin Range(Tail(s))
  <2>1. \A i, j \in 1..Len(s) : s[i] = s[j] => i = j
    BY <1>6, <1>3 DEF IsInjective
  <2>2. \A i \in 1..(Len(s) - 1) : i + 1 \in 1..Len(s) /\ i + 1 # 1
    BY <1>2
  <2>3. \A i \in 1..(Len(s) - 1) : Tail(s)[i] = s[i + 1]
    BY <1>1
  <2>4. \A i, j \in 1..(Len(s) - 1) : i + 1 = j + 1 => i = j
    OBVIOUS
  <2>5. IsInjective(Tail(s))
    BY <2>1, <2>2, <2>3, <2>4, <1>3 DEF IsInjective
  <2>6. Head(s) \notin Range(Tail(s))
    BY <2>1, <2>2, <2>3, <1>1, <1>2, <1>3 DEF Range
  <2> QED BY <2>5, <2>6
<1> QED BY <1>1, <1>5, <1>6

\* The ranges of two lists joined.
LEMMA RangeConcat ==
  ASSUME NEW S, NEW s \in Seq(S), NEW r \in Seq(S)
  PROVE  s \o r \in Seq(S) /\ Range(s \o r) = Range(s) \cup Range(r)
BY RangeConcatenation

\* Joining two lists that have no element in common repeats none.
LEMMA InjectiveConcat ==
  ASSUME NEW S, NEW s \in Seq(S), NEW r \in Seq(S),
         IsInjective(s), IsInjective(r), Range(s) \cap Range(r) = {}
  PROVE  IsInjective(s \o r)
<1>1. /\ Len(s) \in Nat /\ DOMAIN s = 1..Len(s)
      /\ Len(r) \in Nat /\ DOMAIN r = 1..Len(r)
  BY LenProperties
<1>2. DOMAIN (s \o r) = 1..(Len(s) + Len(r))
  BY ConcatProperties, LenProperties
<1>3. ASSUME NEW i \in 1..(Len(s) + Len(r))
      PROVE  \/ i \in 1..Len(s) /\ (s \o r)[i] = s[i] /\ s[i] \in Range(s)
             \/ /\ i - Len(s) \in 1..Len(r)
                /\ (s \o r)[i] = r[i - Len(s)] /\ r[i - Len(s)] \in Range(r)
  <2>1. CASE i <= Len(s)
    <3>1. i \in 1..Len(s)
      BY <2>1, <1>1
    <3> QED BY SMTT(30), <3>1, <1>1, ConcatProperties DEF Range
  <2>2. CASE ~(i <= Len(s))
    <3>1. i - Len(s) \in 1..Len(r) /\ i \in Len(s) + 1 .. Len(s) + Len(r)
      BY <2>2, <1>1
    <3> QED BY <3>1, <1>1, ConcatProperties DEF Range
  <2> QED BY <2>1, <2>2
<1>4. ASSUME NEW i \in 1..(Len(s) + Len(r)), NEW j \in 1..(Len(s) + Len(r)),
             (s \o r)[i] = (s \o r)[j]
      PROVE  i = j
  <2>1. CASE i \in 1..Len(s) /\ j \in 1..Len(s) /\ s[i] = s[j]
    BY <2>1, <1>1 DEF IsInjective
  <2>2. CASE /\ i - Len(s) \in 1..Len(r) /\ j - Len(s) \in 1..Len(r)
             /\ r[i - Len(s)] = r[j - Len(s)]
    <3>1. i - Len(s) = j - Len(s)
      BY <2>2, <1>1 DEF IsInjective
    <3> QED BY <3>1, <1>1
  <2> QED BY <2>1, <2>2, <1>3, <1>4
<1> QED BY <1>2, <1>4 DEF IsInjective

\* Cutting a list without duplicates in two shares its elements out.
LEMMA RangeCut ==
  ASSUME NEW S, NEW s \in Seq(S), NEW h \in 0..Len(s)
  PROVE  LET a == SubSeq(s, 1, h)
             b == SubSeq(s, h + 1, Len(s))
         IN  /\ a \in Seq(S) /\ b \in Seq(S)
             /\ Range(a) \subseteq Range(s) /\ Range(b) \subseteq Range(s)
             /\ IsInjective(s) => /\ IsInjective(a) /\ IsInjective(b)
                                  /\ Range(a) \cap Range(b) = {}
<1> DEFINE a == SubSeq(s, 1, h)
           b == SubSeq(s, h + 1, Len(s))
<1>1. Len(s) \in Nat /\ DOMAIN s = 1..Len(s) /\ \A i \in 1..Len(s) : s[i] \in S
  BY LenProperties, ElementOfSeq
<1>2. /\ a \in Seq(S) /\ Len(a) = h
      /\ \A i \in 1..h : a[i] = s[i] /\ i \in 1..Len(s)
  <2>1. \A i \in 1..h : s[i] \in S /\ i \in 1..Len(s)
    BY <1>1
  <2>2. /\ a \in Seq(S) /\ Len(a) = IF 1 <= h THEN h - 1 + 1 ELSE 0
        /\ \A i \in 1..(h - 1 + 1) : a[i] = s[1 + i - 1]
    BY <2>1, <1>1, SubSeqProperties
  <2> QED BY <2>1, <2>2, <1>1
<1>3. /\ b \in Seq(S) /\ Len(b) = Len(s) - h
      /\ \A i \in 1..(Len(s) - h) : b[i] = s[h + i] /\ h + i \in 1..Len(s)
  <2>1. \A i \in h + 1 .. Len(s) : s[i] \in S
    BY <1>1
  <2>2. /\ b \in Seq(S)
        /\ Len(b) = IF h + 1 <= Len(s) THEN Len(s) - (h + 1) + 1 ELSE 0
        /\ \A i \in 1..(Len(s) - (h + 1) + 1) : b[i] = s[(h + 1) + i - 1]
    BY <2>1, <1>1, SubSeqProperties
  <2>3. /\ Len(s) - (h + 1) + 1 = Len(s) - h
        /\ ~(h + 1 <= Len(s)) => Len(s) - h = 0
        /\ \A i \in 1..(Len(s) - h) : (h + 1) + i - 1 = h + i /\ h + i \in 1..Len(s)
    <3> DEFINE n == Len(s)
    <3>1. n \in Nat /\ h \in 0..n
      BY <1>1
    <3> HIDE DEF n
    <3>2. /\ n - (h + 1) + 1 = n - h
          /\ ~(h + 1 <= n) => n - h = 0
          /\ \A i \in 1..(n - h) : (h + 1) + i - 1 = h + i /\ h + i \in 1..n
      BY <3>1
    <3> QED BY <3>2 DEF n
  <2>4. Len(b) = Len(s) - h
    BY <2>2, <2>3
  <2>5. \A i \in 1..(Len(s) - h) : b[i] = s[h + i] /\ h + i \in 1..Len(s)
    BY <2>2, <2>3
  <2> QED BY <2>2, <2>4, <2>5
<1> HIDE DEF a, b
<1>4. DOMAIN a = 1..h /\ DOMAIN b = 1..(Len(s) - h)
  BY <1>1, <1>2, <1>3, LenProperties
<1>5. Range(a) \subseteq Range(s) /\ Range(b) \subseteq Range(s)
  <2>1. ASSUME NEW x \in Range(a) PROVE x \in Range(s)
    <3>1. PICK i \in 1..h : x = a[i]
      BY <1>4 DEF Range
    <3> QED BY <3>1, <1>1, <1>2 DEF Range
  <2>2. ASSUME NEW x \in Range(b) PROVE x \in Range(s)
    <3>1. PICK i \in 1..(Len(s) - h) : x = b[i]
      BY <1>4 DEF Range
    <3>2. x = s[h + i] /\ h + i \in 1..Len(s)
      BY <3>1, <1>3
    <3> QED BY <3>2, <1>1 DEF Range
  <2> QED BY <2>1, <2>2
<1>6. ASSUME IsInjective(s)
      PROVE  IsInjective(a) /\ IsInjective(b) /\ Range(a) \cap Range(b) = {}
  <2>1. \A i, j \in 1..Len(s) : s[i] = s[j] => i = j
    BY <1>1, <1>6 DEF IsInjective
  <2>2. IsInjective(a)
    BY <2>1, <1>2, <1>4 DEF IsInjective
  <2>3. IsInjective(b)
    <3>1. ASSUME NEW i \in 1..(Len(s) - h), NEW j \in 1..(Len(s) - h), b[i] = b[j]
          PROVE  i = j
      <4>1. h + i = h + j
        BY <3>1, <2>1, <1>3
      <4> QED BY <4>1, <1>1
    <3> QED BY <3>1, <1>4 DEF IsInjective
  <2>4. ASSUME NEW x \in Range(a), x \in Range(b) PROVE FALSE
    <3>1. PICK i \in 1..h : x = a[i]
      BY <1>4 DEF Range
    <3>2. PICK j \in 1..(Len(s) - h) : x = b[j]
      BY <2>4, <1>4 DEF Range
    <3>3. x = s[i] /\ i \in 1..Len(s)
      BY <3>1, <1>2
    <3>4. x = s[h + j] /\ h + j \in 1..Len(s)
      BY <3>2, <1>3
    <3>5. i = h + j
      BY <3>3, <3>4, <2>1
    <3> QED BY <3>5, <1>1
  <2> QED BY <2>2, <2>3, <2>4
<1> QED BY <1>2, <1>3, <1>5, <1>6 DEF a, b

\* Taking the last element of a list without duplicates takes it out of its
\* range.
LEMMA RangeFront ==
  ASSUME NEW S, NEW s \in Seq(S), s # <<>>
  PROVE  LET e == s[Len(s)]
             f == SubSeq(s, 1, Len(s) - 1)
         IN  /\ e \in S /\ f \in Seq(S)
             /\ Range(s) = Range(f) \cup {e}
             /\ IsInjective(s) => IsInjective(f) /\ e \notin Range(f)
<1> DEFINE e == s[Len(s)]
           f == SubSeq(s, 1, Len(s) - 1)
<1>1. Len(s) \in Nat \ {0} /\ DOMAIN s = 1..Len(s) /\ \A i \in 1..Len(s) : s[i] \in S
  BY LenProperties, ElementOfSeq, EmptySeq
<1>2. Len(s) - 1 \in 0..Len(s) /\ Len(s) \in 1..Len(s)
  BY <1>1
<1>3. f \in Seq(S) /\ Range(f) \subseteq Range(s) /\ (IsInjective(s) => IsInjective(f))
  BY <1>2, RangeCut
<1>4. DOMAIN f = 1..(Len(s) - 1) /\ \A i \in 1..(Len(s) - 1) : f[i] = s[i]
  BY <1>1
<1>5. \A n \in Nat : /\ \A i \in 1..n : i = n \/ i \in 1..(n - 1)
                     /\ \A i \in 1..(n - 1) : i # n /\ i \in 1..n
  OBVIOUS
<1>6. /\ \A i \in 1..Len(s) : i = Len(s) \/ i \in 1..(Len(s) - 1)
      /\ \A i \in 1..(Len(s) - 1) : i # Len(s) /\ i \in 1..Len(s)
  BY <1>1, <1>5
<1>7. Range(s) = Range(f) \cup {e}
  BY <1>1, <1>2, <1>3, <1>4, <1>6 DEF Range
<1>8. IsInjective(s) => e \notin Range(f)
  BY <1>1, <1>2, <1>4, <1>6 DEF Range, IsInjective
<1> QED BY <1>1, <1>2, <1>3, <1>7, <1>8

\* What is left of a finite set, what joins it, and how many there are.
LEMMA CardinalitySteps ==
  ASSUME NEW A, NEW B, IsFiniteSet(A), IsFiniteSet(B)
  PROVE  /\ Cardinality(A) \in Nat /\ Cardinality(B) \in Nat
         /\ A \subseteq B => Cardinality(A) <= Cardinality(B)
         /\ \A x : A \ {x} \subseteq B => Cardinality(A) - 1 <= Cardinality(B)
         /\ \A x : x \notin A /\ A \cup {x} \subseteq B =>
                  Cardinality(A) + 1 <= Cardinality(B)
<1>1. Cardinality(A) \in Nat /\ Cardinality(B) \in Nat
  BY FS_CardinalityType
<1>2. \A S \in SUBSET B : Cardinality(S) <= Cardinality(B)
  BY FS_Subset
<1>3. A \subseteq B => Cardinality(A) <= Cardinality(B)
  BY <1>2
<1>4. ASSUME NEW x, A \ {x} \subseteq B
      PROVE  Cardinality(A) - 1 <= Cardinality(B)
  <2>1. Cardinality(A \ {x}) =
          IF x \in A THEN Cardinality(A) - 1 ELSE Cardinality(A)
    BY FS_RemoveElement
  <2>2. Cardinality(A \ {x}) <= Cardinality(B)
    BY <1>2, <1>4
  <2> QED BY <2>1, <2>2, <1>1
<1>5. ASSUME NEW x, x \notin A, A \cup {x} \subseteq B
      PROVE  Cardinality(A) + 1 <= Cardinality(B)
  <2>1. Cardinality(A \cup {x}) = Cardinality(A) + 1
    BY <1>5, FS_AddElement
  <2>2. Cardinality(A \cup {x}) <= Cardinality(B)
    BY <1>2, <1>5
  <2> QED BY <2>1, <2>2
<1> QED BY <1>1, <1>3, <1>4, <1>5

\* A set with one element at most.
LEMMA CountOfOne ==
  ASSUME NEW S, \A x, y \in S : x = y
  PROVE  Cardinality(S) = IF S = {} THEN 0 ELSE 1
<1>1. CASE S = {}
  BY <1>1, FS_EmptySet
<1>2. CASE S # {}
  <2>1. PICK x \in S : S = {x}
    BY <1>2
  <2> QED BY <2>1, FS_Singleton
<1> QED BY <1>1, <1>2


\* Appending to the second of two joined lists appends to the whole.
LEMMA AppendOfConcat ==
  ASSUME NEW S, NEW d \in Seq(S), NEW q \in Seq(S), NEW m \in S
  PROVE  d \o Append(q, m) = Append(d \o q, m)
<1>1. <<m>> \in Seq(S) /\ d \o q \in Seq(S)
  BY ConcatProperties
<1>2. Append(q, m) = q \o <<m>> /\ Append(d \o q, m) = (d \o q) \o <<m>>
  BY <1>1, AppendIsConcat
<1> QED BY <1>1, <1>2, ConcatAssociative

\* Moving the head of a list to the end of the list before it changes nothing
\* of the two joined.
LEMMA PopOfConcat ==
  ASSUME NEW S, NEW d \in Seq(S), NEW q \in Seq(S), q # <<>>
  PROVE  Append(d, Head(q)) \o Tail(q) = d \o q
<1>1. /\ Head(q) \in S /\ Head(q) = q[1] /\ Tail(q) \in Seq(S) /\ Len(Tail(q)) = Len(q) - 1
      /\ \A i \in 1..Len(Tail(q)) : Tail(q)[i] = q[i + 1]
      /\ Len(q) \in Nat \ {0}
  BY HeadTailProperties, EmptySeq
<1>2. <<Head(q)>> \in Seq(S) /\ Len(<<Head(q)>>) = 1 /\ <<Head(q)>>[1] = Head(q)
  BY <1>1
<1>3. <<Head(q)>> \o Tail(q) = q
  <2> DEFINE r == <<Head(q)>> \o Tail(q)
  <2>1. /\ r \in Seq(S) /\ Len(r) = 1 + Len(Tail(q))
        /\ \A i \in 1..1 + Len(Tail(q)) : r[i] = IF i <= 1 THEN <<Head(q)>>[i] ELSE Tail(q)[i - 1]
    BY <1>1, <1>2, ConcatProperties
  <2> HIDE DEF r
  <2>2. Len(r) = Len(q)
    BY <2>1, <1>1
  <2>3. ASSUME NEW i \in 1..Len(r) PROVE r[i] = q[i]
    <3>1. CASE i = 1
      BY <3>1, <2>1, <1>1, <1>2
    <3>2. CASE i # 1
      <4>1. i - 1 \in 1..Len(Tail(q)) /\ (i - 1) + 1 = i /\ ~(i <= 1)
        BY <3>2, <2>1, <1>1
      <4> QED BY <4>1, <2>1, <1>1
    <3> QED BY <3>1, <3>2
  <2>4. r = q
    BY <2>1, <2>2, <2>3, SeqEqual
  <2> QED BY <2>4 DEF r
<1>4. Append(d, Head(q)) = d \o <<Head(q)>>
  BY <1>1, AppendIsConcat
<1> QED BY <1>1, <1>2, <1>3, <1>4, ConcatAssociative
=============================================================================
