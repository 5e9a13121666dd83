------------------------------ MODULE SeqLemmas ------------------------------
(***************************************************************************)
(* What insertion into, removal from and reversal of a sequence return,    *)
(* stated element by element, and the least element of a set of naturals.  *)
(***************************************************************************)
EXTENDS Integers, SequencesExt, SequenceTheorems, WellFoundedInduction, TLAPS

\* InsertAt puts e at position n and moves the rest up.
LEMMA InsertAtFacts ==
  ASSUME NEW S, NEW s \in Seq(S), NEW e \in S, NEW n \in 1 .. Len(s) + 1
  PROVE  /\ InsertAt(s, n, e) \in Seq(S)
         /\ Len(InsertAt(s, n, e)) = Len(s) + 1
         /\ \A k \in 1 .. Len(s) + 1 :
              InsertAt(s, n, e)[k] = IF k < n THEN s[k] ELSE IF k = n THEN e ELSE s[k - 1]
<1> DEFINE a == SubSeq(s, 1, n - 1)
           b == SubSeq(s, n, Len(s))
           c == <<e>>
           d == a \o c
<1>0. Len(s) \in Nat /\ n \in Nat /\ n - 1 \in Nat /\ Len(s) - n + 1 \in Nat
  OBVIOUS
<1>1. /\ a \in Seq(S) /\ Len(a) = n - 1
      /\ \A k \in 1 .. n - 1 : a[k] = s[k]
  BY SubSeqProperties, \A k \in 1 .. n - 1 : s[k] \in S
<1>2. /\ b \in Seq(S) /\ Len(b) = Len(s) - n + 1
      /\ \A k \in 1 .. Len(s) - n + 1 : b[k] = s[n + k - 1]
  BY SubSeqProperties, \A k \in n .. Len(s) : s[k] \in S
<1>3. c \in Seq(S) /\ Len(c) = 1 /\ c[1] = e
  OBVIOUS
<1>5. InsertAt(s, n, e) = d \o b
  BY DEF InsertAt
<1> HIDE DEF a, b, c
<1>4. /\ d \in Seq(S) /\ Len(d) = Len(a) + Len(c)
      /\ \A k \in 1 .. Len(a) + Len(c) : d[k] = IF k <= Len(a) THEN a[k] ELSE c[k - Len(a)]
  BY <1>1, <1>3, ConcatProperties
<1> HIDE DEF d
<1>6. Len(d) = n /\ \A k \in 1 .. n : d[k] = IF k < n THEN s[k] ELSE e
  BY <1>0, <1>1, <1>3, <1>4
<1>7. /\ d \o b \in Seq(S) /\ Len(d \o b) = Len(d) + Len(b)
      /\ \A k \in 1 .. Len(d) + Len(b) : (d \o b)[k] = IF k <= Len(d) THEN d[k] ELSE b[k - Len(d)]
  <2>1. d \in Seq(S) /\ b \in Seq(S)
    BY <1>2, <1>4
  <2> QED BY <2>1, ConcatProperties
<1>8. Len(d \o b) = Len(s) + 1
  BY <1>0, <1>2, <1>6, <1>7
<1>9. ASSUME NEW k \in 1 .. Len(s) + 1
      PROVE  (d \o b)[k] = IF k < n THEN s[k] ELSE IF k = n THEN e ELSE s[k - 1]
  <2>1. (d \o b)[k] = IF k <= n THEN d[k] ELSE b[k - n]
    BY <1>0, <1>2, <1>6, <1>7
  <2>2. CASE k <= n
    BY <1>0, <1>6, <2>1, <2>2
  <2>3. CASE ~(k <= n)
    <3>1. k - n \in 1 .. Len(s) - n + 1 /\ n + (k - n) - 1 = k - 1
      BY <1>0, <2>3
    <3> QED BY <1>0, <1>2, <2>1, <2>3, <3>1
  <2> QED BY <2>2, <2>3
<1> QED BY <1>5, <1>7, <1>8, <1>9

\* RemoveAt takes position n out and moves the rest down.
LEMMA RemoveAtFacts ==
  ASSUME NEW S, NEW s \in Seq(S), NEW n \in 1 .. Len(s)
  PROVE  /\ RemoveAt(s, n) \in Seq(S)
         /\ Len(RemoveAt(s, n)) = Len(s) - 1
         /\ \A k \in 1 .. Len(s) - 1 :
              RemoveAt(s, n)[k] = IF k < n THEN s[k] ELSE s[k + 1]
<1> DEFINE a == SubSeq(s, 1, n - 1)
           b == SubSeq(s, n + 1, Len(s))
<1>0. Len(s) \in Nat /\ n \in Nat /\ n - 1 \in Nat /\ Len(s) - n \in Nat
  OBVIOUS
<1>1. /\ a \in Seq(S) /\ Len(a) = n - 1
      /\ \A k \in 1 .. n - 1 : a[k] = s[k]
  BY SubSeqProperties, \A k \in 1 .. n - 1 : s[k] \in S
<1>2. /\ b \in Seq(S) /\ Len(b) = Len(s) - n
      /\ \A k \in 1 .. Len(s) - n : b[k] = s[n + k]
  BY SubSeqProperties, \A k \in n + 1 .. Len(s) : s[k] \in S
<1>3. RemoveAt(s, n) = a \o b
  BY DEF RemoveAt
<1> HIDE DEF a, b
<1>4. /\ a \o b \in Seq(S) /\ Len(a \o b) = Len(a) + Len(b)
      /\ \A k \in 1 .. Len(a) + Len(b) : (a \o b)[k] = IF k <= Len(a) THEN a[k] ELSE b[k - Len(a)]
  BY <1>1, <1>2, ConcatProperties
<1>5. Len(a \o b) = Len(s) - 1
  BY <1>0, <1>1, <1>2, <1>4
<1>6. ASSUME NEW k \in 1 .. Len(s) - 1
      PROVE  (a \o b)[k] = IF k < n THEN s[k] ELSE s[k + 1]
  <2>1. (a \o b)[k] = IF k <= n - 1 THEN a[k] ELSE b[k - (n - 1)]
    BY <1>0, <1>1, <1>2, <1>4
  <2>2. CASE k < n
    BY <1>0, <1>1, <2>1, <2>2
  <2>3. CASE ~(k < n)
    <3>1. k - (n - 1) \in 1 .. Len(s) - n /\ n + (k - (n - 1)) = k + 1
      BY <1>0, <2>3
    <3> QED BY <1>0, <1>2, <2>1, <2>3, <3>1
  <2> QED BY <2>2, <2>3
<1> QED BY <1>3, <1>4, <1>5, <1>6

\* A set of naturals that is not empty has a least element.
LEMMA LeastNatural ==
  ASSUME NEW T, T \subseteq Nat, T # {}
  PROVE  \E m \in T : \A k \in T : m <= k
<1>1. PICK x \in T : \A y \in T : ~ (<<y, x>> \in OpToRel(<, Nat))
  BY WFMin, NatLessThanWellFounded
<1>2. \A y \in T : ~ (y < x)
  BY <1>1 DEF OpToRel
<1> QED BY <1>2
-----------------------------------------------------------------------------
\* The elements of s, and whether none occurs twice.
Elements(s) == {s[k] : k \in 1 .. Len(s)}
Distinct(s) == \A j, k \in 1 .. Len(s) : s[j] = s[k] => j = k

\* The empty sequence has no elements.
LEMMA EmptyElements == Elements(<<>>) = {} /\ Distinct(<<>>)
BY DEF Elements, Distinct

\* The head is an element, and so is every element of the tail.
LEMMA HeadTailElements ==
  ASSUME NEW S, NEW s \in Seq(S), s # <<>>
  PROVE  /\ 1 \in 1 .. Len(s) /\ Head(s) = s[1]
         /\ Head(s) \in Elements(s)
         /\ Tail(s) \in Seq(S)
         /\ Elements(Tail(s)) \subseteq Elements(s)
<1>1. 1 \in 1 .. Len(s) /\ Head(s) = s[1]
  OBVIOUS
<1>2. /\ Tail(s) \in Seq(S) /\ Len(Tail(s)) = Len(s) - 1
      /\ \A i \in 1 .. Len(Tail(s)) : Tail(s)[i] = s[i + 1]
  BY HeadTailProperties
<1>3. \A i \in 1 .. Len(Tail(s)) : i + 1 \in 1 .. Len(s)
  BY <1>2
<1> QED BY <1>1, <1>2, <1>3 DEF Elements

\* The elements of a sequence over S are in S.
LEMMA ElementsType ==
  ASSUME NEW S, NEW s \in Seq(S)
  PROVE  Elements(s) \subseteq S
BY DEF Elements

\* Append adds one element.
LEMMA AppendElements ==
  ASSUME NEW S, NEW s \in Seq(S), NEW e \in S
  PROVE  /\ Append(s, e) \in Seq(S) /\ Len(Append(s, e)) = Len(s) + 1
         /\ \A k \in 1 .. Len(s) + 1 : Append(s, e)[k] = IF k <= Len(s) THEN s[k] ELSE e
         /\ Elements(Append(s, e)) = Elements(s) \cup {e}
         /\ Distinct(s) /\ e \notin Elements(s) => Distinct(Append(s, e))
<1>1. /\ Append(s, e) \in Seq(S) /\ Len(Append(s, e)) = Len(s) + 1 /\ Len(s) \in Nat
      /\ \A k \in 1 .. Len(s) + 1 : Append(s, e)[k] = IF k <= Len(s) THEN s[k] ELSE e
  OBVIOUS
<1>2. Elements(Append(s, e)) = Elements(s) \cup {e}
  BY <1>1 DEF Elements
<1>3. Distinct(s) /\ e \notin Elements(s) => Distinct(Append(s, e))
  BY <1>1 DEF Elements, Distinct
<1> QED BY <1>1, <1>2, <1>3

\* An insertion adds one element and, when it is new, repeats none.
LEMMA InsertAtElements ==
  ASSUME NEW S, NEW s \in Seq(S), NEW e \in S, NEW n \in 1 .. Len(s) + 1
  PROVE  /\ Elements(InsertAt(s, n, e)) = Elements(s) \cup {e}
         /\ Distinct(s) /\ e \notin Elements(s) => Distinct(InsertAt(s, n, e))
<1> DEFINE r == InsertAt(s, n, e)
<1>1. /\ r \in Seq(S) /\ Len(r) = Len(s) + 1 /\ Len(s) \in Nat
      /\ \A k \in 1 .. Len(s) + 1 : r[k] = IF k < n THEN s[k] ELSE IF k = n THEN e ELSE s[k - 1]
  BY InsertAtFacts
<1> HIDE DEF r
<1>2. \A k \in 1 .. Len(s) : \E j \in 1 .. Len(r) : r[j] = s[k]
  <2> TAKE k \in 1 .. Len(s)
  <2>1. CASE k < n
    <3>1. k \in 1 .. Len(r) /\ r[k] = s[k]
      BY <1>1, <2>1
    <3> QED BY <3>1
  <2>2. CASE ~(k < n)
    <3>1. k + 1 \in 1 .. Len(s) + 1 /\ ~(k + 1 < n) /\ k + 1 # n /\ (k + 1) - 1 = k
      BY <1>1, <2>2
    <3> QED BY <1>1, <3>1
  <2> QED BY <2>1, <2>2
<1>3. n \in 1 .. Len(r) /\ r[n] = e
  BY <1>1
<1>4. \A k \in 1 .. Len(r) : r[k] = e \/ \E j \in 1 .. Len(s) : r[k] = s[j]
  <2> TAKE k \in 1 .. Len(r)
  <2>1. k < n \/ k = n \/ k > n
    BY <1>1
  <2>2. CASE k < n
    BY <1>1, <2>2
  <2>3. CASE k = n
    BY <1>3, <2>3
  <2>4. CASE k > n
    <3>1. k - 1 \in 1 .. Len(s) /\ r[k] = s[k - 1]
      BY <1>1, <2>4
    <3> QED BY <3>1
  <2> QED BY <2>1, <2>2, <2>3, <2>4
<1>5. Elements(r) = Elements(s) \cup {e}
  <2>1. ASSUME NEW x \in Elements(r) PROVE x \in Elements(s) \cup {e}
    BY <2>1, <1>4 DEF Elements
  <2>2. ASSUME NEW x \in Elements(s) PROVE x \in Elements(r)
    BY <2>2, <1>2 DEF Elements
  <2>3. e \in Elements(r)
    BY <1>3 DEF Elements
  <2> QED BY <2>1, <2>2, <2>3
<1>6. ASSUME Distinct(s), e \notin Elements(s)
      PROVE  Distinct(r)
  <2> SUFFICES ASSUME NEW j \in 1 .. Len(r), NEW k \in 1 .. Len(r), r[j] = r[k], j < k
               PROVE  FALSE
    <3>1. Len(r) \in Nat
      BY <1>1
    <3> QED BY <3>1 DEF Distinct
  <2>1. \A l \in 1 .. Len(s) : s[l] # e
    BY <1>6 DEF Elements
  <2>2. CASE k < n
    BY <1>1, <1>6, <2>2 DEF Distinct
  <2>3. CASE k = n
    BY <1>1, <2>1, <2>3
  <2>4. CASE k > n /\ j < n
    <3>1. j \in 1 .. Len(s) /\ k - 1 \in 1 .. Len(s) /\ j # k - 1
      BY <1>1, <2>4
    <3>2. r[j] = s[j] /\ r[k] = s[k - 1]
      BY <1>1, <2>4
    <3> QED BY <1>6, <3>1, <3>2 DEF Distinct
  <2>5. CASE k > n /\ j = n
    <3>1. k - 1 \in 1 .. Len(s) /\ r[k] = s[k - 1] /\ r[j] = e
      BY <1>1, <2>5
    <3> QED BY <2>1, <3>1
  <2>6. CASE k > n /\ j > n
    <3>1. j - 1 \in 1 .. Len(s) /\ k - 1 \in 1 .. Len(s) /\ j - 1 # k - 1
      BY <1>1, <2>6
    <3>2. r[j] = s[j - 1] /\ r[k] = s[k - 1]
      BY <1>1, <2>6
    <3> QED BY <1>6, <3>1, <3>2 DEF Distinct
  <2> QED BY <1>1, <2>2, <2>3, <2>4, <2>5, <2>6
<1> QED BY <1>5, <1>6 DEF r

\* A removal from a sequence of distinct elements takes one element away.
LEMMA RemoveAtElements ==
  ASSUME NEW S, NEW s \in Seq(S), NEW n \in 1 .. Len(s), Distinct(s)
  PROVE  /\ Elements(RemoveAt(s, n)) = Elements(s) \ {s[n]}
         /\ Distinct(RemoveAt(s, n))
<1> DEFINE r == RemoveAt(s, n)
<1>1. /\ r \in Seq(S) /\ Len(r) = Len(s) - 1 /\ Len(s) \in Nat
      /\ \A k \in 1 .. Len(s) - 1 : r[k] = IF k < n THEN s[k] ELSE s[k + 1]
  BY RemoveAtFacts
<1> HIDE DEF r
<1>2. \A k \in 1 .. Len(s) : k # n => \E j \in 1 .. Len(r) : r[j] = s[k]
  <2> SUFFICES ASSUME NEW k \in 1 .. Len(s), k # n
               PROVE  \E j \in 1 .. Len(r) : r[j] = s[k]
    OBVIOUS
  <2>1. CASE k < n
    BY <1>1, <2>1
  <2>2. CASE k > n
    <3>1. k - 1 \in 1 .. Len(s) - 1 /\ ~(k - 1 < n) /\ (k - 1) + 1 = k
      BY <1>1, <2>2
    <3> QED BY <1>1, <3>1
  <2> QED BY <1>1, <2>1, <2>2
<1>3. \A k \in 1 .. Len(r) : \E j \in 1 .. Len(s) : j # n /\ r[k] = s[j]
  <2> TAKE k \in 1 .. Len(r)
  <2>1. CASE k < n
    BY <1>1, <2>1
  <2>2. CASE ~(k < n)
    <3>1. k + 1 \in 1 .. Len(s) /\ k + 1 # n /\ r[k] = s[k + 1]
      BY <1>1, <2>2
    <3> QED BY <3>1
  <2> QED BY <2>1, <2>2
<1>4. Elements(r) = Elements(s) \ {s[n]}
  <2>1. \A x \in Elements(r) : x \in Elements(s) \ {s[n]}
    BY <1>3 DEF Elements, Distinct
  <2>2. \A x \in Elements(s) \ {s[n]} : x \in Elements(r)
    BY <1>2 DEF Elements
  <2> QED BY <2>1, <2>2
<1>5. Distinct(r)
  <2> SUFFICES ASSUME NEW j \in 1 .. Len(r), NEW k \in 1 .. Len(r), r[j] = r[k], j < k
               PROVE  FALSE
    BY <1>1 DEF Distinct
  <2> DEFINE up(l) == IF l < n THEN l ELSE l + 1
  <2>1. up(j) \in 1 .. Len(s) /\ up(k) \in 1 .. Len(s) /\ up(j) # up(k)
    BY <1>1
  <2>2. r[j] = s[up(j)] /\ r[k] = s[up(k)]
    BY <1>1
  <2> QED BY <2>1, <2>2 DEF Distinct
<1> QED BY <1>4, <1>5 DEF r

\* A removal takes nothing away but the element that was there.
LEMMA RemoveAtKeeps ==
  ASSUME NEW S, NEW s \in Seq(S), NEW n \in 1 .. Len(s)
  PROVE  /\ RemoveAt(s, n) \in Seq(S)
         /\ Elements(RemoveAt(s, n)) \subseteq Elements(s)
         /\ Elements(s) \subseteq Elements(RemoveAt(s, n)) \cup {s[n]}
<1> DEFINE r == RemoveAt(s, n)
<1>1. /\ r \in Seq(S) /\ Len(r) = Len(s) - 1 /\ Len(s) \in Nat
      /\ \A k \in 1 .. Len(s) - 1 : r[k] = IF k < n THEN s[k] ELSE s[k + 1]
  BY RemoveAtFacts
<1> HIDE DEF r
<1>2. \A k \in 1 .. Len(s) : k # n => \E j \in 1 .. Len(r) : r[j] = s[k]
  <2> SUFFICES ASSUME NEW k \in 1 .. Len(s), k # n
               PROVE  \E j \in 1 .. Len(r) : r[j] = s[k]
    OBVIOUS
  <2>1. CASE k < n
    BY <1>1, <2>1
  <2>2. CASE k > n
    <3>1. k - 1 \in 1 .. Len(s) - 1 /\ ~(k - 1 < n) /\ (k - 1) + 1 = k
      BY <1>1, <2>2
    <3> QED BY <1>1, <3>1
  <2> QED BY <1>1, <2>1, <2>2
<1>3. \A k \in 1 .. Len(r) : \E j \in 1 .. Len(s) : r[k] = s[j]
  BY <1>1
<1>4. Elements(r) \subseteq Elements(s)
  BY <1>3 DEF Elements
<1>5. Elements(s) \subseteq Elements(r) \cup {s[n]}
  BY <1>2 DEF Elements
<1> QED BY <1>1, <1>4, <1>5 DEF r

\* Reversal keeps the elements.
LEMMA ReverseElements ==
  ASSUME NEW S, NEW s \in Seq(S)
  PROVE  Reverse(s) \in Seq(S) /\ Elements(Reverse(s)) \subseteq Elements(s)
<1> DEFINE r == Reverse(s)
<1>1. \A k \in 1 .. Len(s) : (Len(s) - k) + 1 \in 1 .. Len(s)
  OBVIOUS
<1>2. r = [k \in 1 .. Len(s) |-> s[(Len(s) - k) + 1]]
  BY DEF Reverse
<1>3. r \in Seq(S) /\ Len(r) = Len(s)
  BY <1>1, <1>2
<1>4. \A k \in 1 .. Len(s) : r[k] = s[(Len(s) - k) + 1]
  BY <1>2
<1> HIDE DEF r
<1>5. Elements(r) \subseteq Elements(s)
  BY <1>1, <1>3, <1>4 DEF Elements
<1> QED BY <1>3, <1>5 DEF r
=============================================================================
