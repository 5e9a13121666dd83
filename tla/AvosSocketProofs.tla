--------------------------- MODULE AvosSocketProofs ---------------------------
(***************************************************************************)
(* The framing of AvosSocket, for headers and data of any length, any      *)
(* number of messages and of failing reads, and any cut into pieces: what  *)
(* packetReady announces is intact, and the socket implements a stream of  *)
(* messages.                                                               *)
(*                                                                         *)
(* Both rest on what is still to come, Rest, the partial message and the   *)
(* units behind it: wherever it begins, it goes on to the end of that      *)
(* message and then with the next ones.                                    *)
(***************************************************************************)
EXTENDS AvosSocket, SequenceTheorems, TLAPS

\* Concatenation, under a name that the provers leave alone.
Cat(s, t) == s \o t

Rest == Cat(Cat(part, socket), wire)

\* From the unit at i on: the rest of its message, and then the next message
\* if there is one.
Continuous(s, lengths) ==
    \A i \in 1 .. Len(s) :
        /\ s[i][1] \in 1 .. Len(lengths)
        /\ s[i][2] \in 1 .. HeaderLen + lengths[s[i][1]]
        /\ \A d \in 0 .. HeaderLen + lengths[s[i][1]] - s[i][2] :
               i + d <= Len(s) /\ s[i + d] = <<s[i][1], s[i][2] + d>>
        /\ IF i + HeaderLen + lengths[s[i][1]] - s[i][2] < Len(s)
           THEN s[i + HeaderLen + lengths[s[i][1]] - s[i][2] + 1] = <<s[i][1] + 1, 1>>
           ELSE s[i][1] = Len(lengths)

\* The units of one message.
Whole(new, n, length) ==
    /\ Len(new) = HeaderLen + length
    /\ \A k \in 1 .. HeaderLen + length : new[k] = <<n, k>>

Sorted(s) == \A i, j \in 1 .. Len(s) : i <= j => s[i][1] <= s[j][1]

\* After a header comes its data, or else the next message.
HeaderInv ==
    header_complete =>
        /\ sent[header] <= MaxDataLength
        /\ sent[header] > 0 => Rest # <<>> /\ Rest[1] = <<header, HeaderLen + 1>>
        /\ sent[header] = 0 =>
               /\ part = <<>>
               /\ IF Rest = <<>> THEN header = Len(sent) ELSE Rest[1] = <<header + 1, 1>>

\* What comes was not received yet, and without faults it is the next message.
OrderInv ==
    /\ Last \in 0 .. Len(sent) /\ \A i \in DOMAIN received : received[i].message \in 1 .. Len(sent)
    /\ header_complete => header > Last
    /\ ~header_complete /\ Rest # <<>> => Rest[1][1] > Last
    /\ ~Faulty => IF header_complete THEN header = Last + 1
                  ELSE IF Rest = <<>> THEN Last = Len(sent) ELSE Rest[1] = <<Last + 1, 1>>

IInv == TypeOK /\ Continuous(Rest, sent) /\ Sorted(Rest) /\ HeaderInv /\ OrderInv /\ Intact

-----------------------------------------------------------------------------
USE LengthAssumption, BoundAssumption DEF vars, statics

\* Sequences that are put together.
LEMMA Concat ==
    ASSUME NEW S, NEW s \in Seq(S), NEW t \in Seq(S)
    PROVE  /\ Cat(s, t) \in Seq(S) /\ Len(Cat(s, t)) = Len(s) + Len(t)
           /\ Len(s) \in Nat /\ Len(t) \in Nat
           /\ \A i \in 1 .. Len(s) : Cat(s, t)[i] = s[i]
           /\ \A i \in 1 .. Len(t) : Cat(s, t)[Len(s) + i] = t[i]
<1>1. /\ s \o t \in Seq(S) /\ Len(s \o t) = Len(s) + Len(t)
      /\ \A i \in 1 .. Len(s) + Len(t) : (s \o t)[i] = IF i <= Len(s) THEN s[i] ELSE t[i - Len(s)]
    BY ConcatProperties
<1>2. Len(s) \in Nat /\ Len(t) \in Nat
    BY LenProperties
<1>3. ASSUME NEW i \in 1 .. Len(t) PROVE (s \o t)[Len(s) + i] = t[i]
    <2>1. Len(s) + i \in 1 .. Len(s) + Len(t) /\ ~(Len(s) + i <= Len(s)) /\ (Len(s) + i) - Len(s) = i
        BY <1>2
    <2> QED BY <2>1, <1>1
<1>4. ASSUME NEW i \in 1 .. Len(s) PROVE (s \o t)[i] = s[i]
    BY <1>1, <1>2
<1> QED BY <1>1, <1>2, <1>3, <1>4 DEF Cat

\* A sequence is empty when it has no length, and then another one goes on.
LEMMA Empty ==
    ASSUME NEW S, NEW s \in Seq(S)
    PROVE  (s = <<>> <=> Len(s) = 0) /\ (s # <<>> <=> 1 \in 1 .. Len(s))
BY EmptySeq, LenProperties

\* Concatenation is associative,
LEMMA Associative ==
    ASSUME NEW S, NEW u \in Seq(S), NEW v \in Seq(S), NEW z \in Seq(S)
    PROVE  Cat(Cat(u, v), z) = Cat(u, Cat(v, z))
<1>1. (u \o v) \o z = u \o (v \o z)
    BY ConcatAssociative
<1> QED BY <1>1, Zenon DEF Cat

\* and can be regrouped.
LEMMA Regroup ==
    ASSUME NEW S, NEW p \in Seq(S), NEW x \in Seq(S), NEW y \in Seq(S), NEW w \in Seq(S)
    PROVE  /\ Cat(Cat(Cat(p, x), y), w) = Cat(Cat(p, Cat(x, y)), w)
           /\ Cat(Cat(p, x), Cat(y, w)) = Cat(Cat(p, Cat(x, y)), w)
<1>1. Cat(p, x) \in Seq(S)
    BY Concat
<1>2. Cat(Cat(p, x), y) = Cat(p, Cat(x, y))
    BY Associative
<1>3. Cat(Cat(Cat(p, x), y), w) = Cat(Cat(p, x), Cat(y, w))
    BY <1>1, Associative
<1> QED BY <1>2, <1>3

\* A sequence that is cut in two.
LEMMA Cut ==
    ASSUME NEW S, NEW s \in Seq(S), NEW a \in 0 .. Len(s)
    PROVE  /\ SubSeq(s, 1, a) \in Seq(S) /\ SubSeq(s, a + 1, Len(s)) \in Seq(S)
           /\ Len(SubSeq(s, 1, a)) = a
           /\ Cat(SubSeq(s, 1, a), SubSeq(s, a + 1, Len(s))) = s
<1> DEFINE x == SubSeq(s, 1, a)
           y == SubSeq(s, a + 1, Len(s))
<1>1. Len(s) \in Nat /\ \A i \in 1 .. Len(s) : s[i] \in S
    BY LenProperties, ElementOfSeq
<1>2. x \in Seq(S) /\ Len(x) = a
    <2>1. \A i \in 1 .. a : s[i] \in S
        BY <1>1
    <2>2. x \in Seq(S) /\ Len(x) = (IF 1 <= a THEN a - 1 + 1 ELSE 0)
        BY <2>1, SubSeqProperties
    <2> QED BY <2>2
<1>3. y \in Seq(S)
    <2>1. \A i \in a + 1 .. Len(s) : s[i] \in S
        BY <1>1
    <2> QED BY <2>1, <1>1, SubSeqProperties
<1>4. x \o y = s
    <2>1. 1 \in 1 .. Len(s) + 1 /\ a \in 1 - 1 .. Len(s) /\ Len(s) \in a .. Len(s)
        BY <1>1
    <2>2. x \o y = SubSeq(s, 1, Len(s))
        BY <2>1, ConcatAdjacentSubSeq
    <2> QED BY <2>2, SubSeqFull
<1> QED BY <1>2, <1>3, <1>4 DEF Cat

\* readBlock cuts what there is: the block, and what it leaves in the socket.
LEMMA Split ==
    ASSUME part \in Seq(Unit), socket \in Seq(Unit), wire \in Seq(Unit),
           NEW length \in Nat, Len(part) <= length, ReadBlock(length)
    PROVE  /\ Got(length) \in Seq(Unit) /\ socket' \in Seq(Unit)
           /\ Len(Got(length)) <= length
           /\ Cat(Got(length), Cat(socket', wire)) = Rest
           /\ Cat(Cat(Got(length), socket'), wire) = Rest
<1> DEFINE a == Available(length)
<1>1. a \in 0 .. Len(socket) /\ Len(part) + a <= length
    <2>1. Len(socket) \in Nat /\ Len(part) \in Nat
        BY LenProperties
    <2>2. a = IF length - Len(part) < Len(socket) THEN length - Len(part) ELSE Len(socket)
        BY DEF Available, Missing
    <2> HIDE DEF a
    <2> QED BY <2>1, <2>2
<1>2. Got(length) = Cat(part, SubSeq(socket, 1, a)) /\ socket' = SubSeq(socket, a + 1, Len(socket))
    BY DEF Got, ReadBlock, Cat
<1> HIDE DEF a
<1>3. PICK x \in Seq(Unit), y \in Seq(Unit) :
          /\ x = SubSeq(socket, 1, a) /\ y = SubSeq(socket, a + 1, Len(socket))
          /\ Len(x) = a /\ Cat(x, y) = socket
    <2>1. a \in 0 .. Len(socket)
        BY <1>1
    <2>2. /\ SubSeq(socket, 1, a) \in Seq(Unit) /\ SubSeq(socket, a + 1, Len(socket)) \in Seq(Unit)
          /\ Len(SubSeq(socket, 1, a)) = a
          /\ Cat(SubSeq(socket, 1, a), SubSeq(socket, a + 1, Len(socket))) = socket
        BY <2>1, Cut
    <2> QED BY <2>2
<1>4. /\ Cat(Cat(Cat(part, x), y), wire) = Cat(Cat(part, Cat(x, y)), wire)
      /\ Cat(Cat(part, x), Cat(y, wire)) = Cat(Cat(part, Cat(x, y)), wire)
    BY Regroup
<1>5. Cat(part, x) \in Seq(Unit) /\ Len(Cat(part, x)) = Len(part) + Len(x)
    BY Concat
<1>6. Got(length) = Cat(part, x) /\ socket' = y /\ Rest = Cat(Cat(part, Cat(x, y)), wire)
    BY <1>2, <1>3 DEF Rest
<1>7. Len(Got(length)) <= length
    BY <1>1, <1>3, <1>5, <1>6
<1>8. Got(length) \in Seq(Unit) /\ socket' \in Seq(Unit)
    BY <1>5, <1>6
<1>9. Cat(Got(length), Cat(socket', wire)) = Rest /\ Cat(Cat(Got(length), socket'), wire) = Rest
    BY <1>4, <1>6, Zenon
<1> QED BY <1>7, <1>8, <1>9

\* A suffix of what is to come is as good.
LEMMA Suffix ==
    ASSUME NEW s \in Seq(Unit), NEW t \in Seq(Unit), NEW lengths \in Seq(Lengths),
           Continuous(Cat(s, t), lengths), Sorted(Cat(s, t))
    PROVE  Continuous(t, lengths) /\ Sorted(t)
<1> DEFINE u == Cat(s, t)
           m == Len(s)
<1>1. /\ u \in Seq(Unit) /\ Len(u) = m + Len(t) /\ m \in Nat /\ Len(t) \in Nat
      /\ \A i \in 1 .. Len(t) : u[m + i] = t[i]
    <2>1. u \in Seq(Unit) /\ Len(u) = m + Len(t) /\ m \in Nat /\ Len(t) \in Nat
        BY Concat
    <2>2. ASSUME NEW i \in 1 .. Len(t) PROVE u[m + i] = t[i]
        BY Concat
    <2> QED BY <2>1, <2>2
<1> HIDE DEF u, m
<1>2. Continuous(u, lengths) /\ Sorted(u)
    BY DEF u
<1>3. Sorted(t)
    <2> SUFFICES ASSUME NEW i \in 1 .. Len(t), NEW j \in 1 .. Len(t), i <= j
                 PROVE  t[i][1] <= t[j][1]
        BY DEF Sorted
    <2>1. m + i \in 1 .. Len(u) /\ m + j \in 1 .. Len(u) /\ m + i <= m + j
        BY <1>1
    <2>2. u[m + i][1] <= u[m + j][1]
        BY <2>1, <1>2 DEF Sorted
    <2> QED BY <2>2, <1>1
<1>4. ASSUME NEW i \in 1 .. Len(t)
      PROVE /\ t[i][1] \in 1 .. Len(lengths)
            /\ t[i][2] \in 1 .. HeaderLen + lengths[t[i][1]]
            /\ \A d \in 0 .. HeaderLen + lengths[t[i][1]] - t[i][2] :
                   i + d <= Len(t) /\ t[i + d] = <<t[i][1], t[i][2] + d>>
            /\ IF i + HeaderLen + lengths[t[i][1]] - t[i][2] < Len(t)
               THEN t[i + HeaderLen + lengths[t[i][1]] - t[i][2] + 1] = <<t[i][1] + 1, 1>>
               ELSE t[i][1] = Len(lengths)
    <2> DEFINE n == t[i][1]
               k == t[i][2]
               more == HeaderLen + lengths[n] - k
    <2>1. m + i \in 1 .. Len(u) /\ u[m + i] = t[i]
        BY <1>1
    <2>2. /\ n \in 1 .. Len(lengths) /\ k \in 1 .. HeaderLen + lengths[n]
          /\ \A d \in 0 .. more : (m + i) + d <= Len(u) /\ u[(m + i) + d] = <<n, k + d>>
          /\ IF (m + i) + HeaderLen + lengths[n] - k < Len(u)
             THEN u[(m + i) + HeaderLen + lengths[n] - k + 1] = <<n + 1, 1>> ELSE n = Len(lengths)
        <3>1. PICK j \in 1 .. Len(u) : j = m + i /\ u[j][1] = n /\ u[j][2] = k
            BY <2>1
        <3> HIDE DEF n, k, more
        <3>2. /\ n \in 1 .. Len(lengths) /\ k \in 1 .. HeaderLen + lengths[n]
              /\ \A d \in 0 .. more : j + d <= Len(u) /\ u[j + d] = <<n, k + d>>
              /\ IF j + HeaderLen + lengths[n] - k < Len(u)
                 THEN u[j + HeaderLen + lengths[n] - k + 1] = <<n + 1, 1>> ELSE n = Len(lengths)
            BY <3>1, <1>2 DEF Continuous, more
        <3> QED BY <3>1, <3>2
    <2>3. lengths[n] \in Nat
        BY <2>2, ElementOfSeq
    <2> HIDE DEF n, k
    <2>4. more \in Nat
        <3>1. PICK len \in Nat : len = lengths[n]
            BY <2>3
        <3>2. k \in 1 .. HeaderLen + len
            BY <3>1, <2>2
        <3>3. HeaderLen + len - k \in Nat
            BY <3>2
        <3> QED BY <3>1, <3>3
    <2>5. ASSUME NEW d \in 0 .. more PROVE i + d <= Len(t) /\ t[i + d] = <<n, k + d>>
        <3>1. (m + i) + d <= Len(u) /\ u[(m + i) + d] = <<n, k + d>>
            BY <2>2
        <3>2. i + d \in 1 .. Len(t) /\ m + (i + d) = (m + i) + d
            <4>1. d \in Nat /\ i \in Nat /\ i >= 1 /\ m \in Nat /\ Len(t) \in Nat
                BY <2>4, <1>1
            <4>2. (m + i) + d <= m + Len(t)
                BY <3>1, <1>1
            <4> QED BY <4>1, <4>2
        <3>3. u[m + (i + d)] = t[i + d]
            BY <3>2, <1>1
        <3> QED BY <3>1, <3>2, <3>3
    <2>6. IF i + HeaderLen + lengths[n] - k < Len(t)
          THEN t[i + HeaderLen + lengths[n] - k + 1] = <<n + 1, 1>> ELSE n = Len(lengths)
        <3>1. /\ i + HeaderLen + lengths[n] - k = i + more
              /\ (m + i) + HeaderLen + lengths[n] - k = (m + i) + more
            <4>1. k \in Int /\ lengths[n] \in Int /\ i \in Int /\ m \in Int
                BY <2>2, <2>3, <1>1
            <4> QED BY <4>1
        <3>2. more \in Nat
            BY <2>4
        <3> HIDE DEF more
        <3>3. IF (m + i) + more < Len(u) THEN u[(m + i) + more + 1] = <<n + 1, 1>>
              ELSE n = Len(lengths)
            BY <3>1, <2>2
        <3>4. IF i + more < Len(t) THEN t[i + more + 1] = <<n + 1, 1>> ELSE n = Len(lengths)
            <4>1. CASE i + more < Len(t)
                <5>1. /\ i + more + 1 \in 1 .. Len(t) /\ (m + i) + more < Len(u)
                      /\ m + (i + more + 1) = (m + i) + more + 1
                    BY <4>1, <3>2, <1>1
                <5> QED BY <5>1, <4>1, <3>3, <1>1
            <4>2. CASE ~(i + more < Len(t))
                <5>1. ~((m + i) + more < Len(u))
                    BY <4>2, <3>2, <1>1
                <5> QED BY <5>1, <4>2, <3>3
            <4> QED BY <4>1, <4>2
        <3> QED BY <3>1, <3>4
    <2> QED BY <2>2, <2>5, <2>6 DEF n, k
<1> QED BY <1>3, <1>4 DEF Continuous

\* A block g starts with unit k of message n, stays within it, and r comes next.
Leads(g, r, lengths, n, k) ==
    /\ g \in Seq(Unit) /\ r \in Seq(Unit) /\ lengths \in Seq(Lengths)
    /\ Continuous(Cat(g, r), lengths)
    /\ g # <<>> /\ g[1] = <<n, k>> /\ Len(g) <= HeaderLen + lengths[n] - k + 1

\* A block that does not go beyond its message is a part of it, and what comes
\* next is the next part, or the next message.
LEMMA Block ==
    ASSUME NEW g, NEW r, NEW lengths, NEW n, NEW k, Leads(g, r, lengths, n, k)
    PROVE  /\ n \in 1 .. Len(lengths) /\ k \in Nat /\ lengths[n] \in Lengths
           /\ \A j \in 1 .. Len(g) : g[j] = <<n, k + j - 1>>
           /\ Len(g) <= HeaderLen + lengths[n] - k => r # <<>> /\ r[1] = <<n, k + Len(g)>>
           /\ Len(g) = HeaderLen + lengths[n] - k + 1
                => IF r = <<>> THEN n = Len(lengths) ELSE r[1] = <<n + 1, 1>>
<1> USE DEF Leads
<1> DEFINE u == Cat(g, r)
           more == HeaderLen + lengths[n] - k
<1>1. /\ u \in Seq(Unit) /\ Len(u) = Len(g) + Len(r) /\ Len(g) \in Nat /\ Len(r) \in Nat
      /\ \A i \in 1 .. Len(g) : u[i] = g[i]
      /\ \A i \in 1 .. Len(r) : u[Len(g) + i] = r[i]
    <2>1. u \in Seq(Unit) /\ Len(u) = Len(g) + Len(r) /\ Len(g) \in Nat /\ Len(r) \in Nat
        BY Concat
    <2>2. ASSUME NEW i \in 1 .. Len(g) PROVE u[i] = g[i]
        BY Concat
    <2>3. ASSUME NEW i \in 1 .. Len(r) PROVE u[Len(g) + i] = r[i]
        BY Concat
    <2> QED BY <2>1, <2>2, <2>3
<1>2. 1 \in 1 .. Len(g) /\ (r = <<>> <=> Len(r) = 0)
    BY Empty
<1>3. 1 \in 1 .. Len(u) /\ u[1][1] = n /\ u[1][2] = k
    BY <1>1, <1>2
<1>4. Continuous(u, lengths)
    OBVIOUS
<1> HIDE DEF u
<1>5. /\ n \in 1 .. Len(lengths) /\ k \in 1 .. HeaderLen + lengths[n]
      /\ \A d \in 0 .. HeaderLen + lengths[n] - k : 1 + d <= Len(u) /\ u[1 + d] = <<n, k + d>>
      /\ IF 1 + HeaderLen + lengths[n] - k < Len(u)
         THEN u[1 + HeaderLen + lengths[n] - k + 1] = <<n + 1, 1>> ELSE n = Len(lengths)
    BY <1>3, <1>4 DEF Continuous
<1>6. lengths[n] \in Lengths /\ lengths[n] \in Nat
    BY <1>5, ElementOfSeq
<1>7. k \in Nat /\ more \in Nat /\ HeaderLen + lengths[n] - k + 1 = more + 1
      /\ 1 + HeaderLen + lengths[n] - k = more + 1
    <2>1. PICK len \in Nat : len = lengths[n]
        BY <1>6
    <2>2. k \in 1 .. HeaderLen + len
        BY <2>1, <1>5
    <2>3. more = HeaderLen + len - k
        BY <2>1
    <2>4. k \in Nat /\ HeaderLen + len - k \in Nat /\ HeaderLen + len - k + 1 = more + 1
          /\ 1 + HeaderLen + len - k = more + 1
        BY <2>2, <2>3, LengthAssumption
    <2> QED BY <2>1, <2>3, <2>4
<1>8. /\ \A d \in 0 .. more : 1 + d <= Len(u) /\ u[1 + d] = <<n, k + d>>
      /\ IF more + 1 < Len(u) THEN u[(more + 1) + 1] = <<n + 1, 1>> ELSE n = Len(lengths)
      /\ Len(g) <= more + 1
    BY <1>5, <1>7
<1> HIDE DEF more
<1>9. ASSUME NEW j \in 1 .. Len(g) PROVE g[j] = <<n, k + j - 1>>
    <2>1. j - 1 \in 0 .. more /\ 1 + (j - 1) = j /\ k + (j - 1) = k + j - 1
        BY <1>1, <1>7, <1>8
    <2>2. u[1 + (j - 1)] = <<n, k + (j - 1)>>
        BY <2>1, <1>8
    <2> QED BY <2>1, <2>2, <1>1
<1>10. ASSUME Len(g) <= more PROVE r # <<>> /\ r[1] = <<n, k + Len(g)>>
    <2>1. Len(g) \in 0 .. more
        BY <1>1, <1>7, <1>10
    <2>2. 1 + Len(g) <= Len(u) /\ u[1 + Len(g)] = <<n, k + Len(g)>>
        BY <2>1, <1>8
    <2>3. 1 \in 1 .. Len(r) /\ Len(g) + 1 = 1 + Len(g)
        BY <2>2, <1>1
    <2> QED BY <2>2, <2>3, <1>1, <1>2
<1>11. ASSUME Len(g) = more + 1
       PROVE  IF r = <<>> THEN n = Len(lengths) ELSE r[1] = <<n + 1, 1>>
    <2>1. CASE r = <<>>
        <3>1. ~(more + 1 < Len(u))
            BY <2>1, <1>1, <1>2, <1>7, <1>11
        <3> QED BY <2>1, <3>1, <1>8
    <2>2. CASE r # <<>>
        <3>1. more + 1 < Len(u) /\ 1 \in 1 .. Len(r)
            BY <2>2, <1>1, <1>2, <1>7, <1>11
        <3>2. u[(more + 1) + 1] = <<n + 1, 1>>
            BY <3>1, <1>8
        <3> QED BY <2>2, <3>1, <3>2, <1>1, <1>11
    <2> QED BY <2>1, <2>2
<1> QED BY <1>5, <1>6, <1>7, <1>9, <1>10, <1>11 DEF more

\* The messages in what comes next are not earlier than those in a block before.
LEMMA Later ==
    ASSUME NEW g \in Seq(Unit), NEW r \in Seq(Unit), Sorted(Cat(g, r)), g # <<>>, r # <<>>
    PROVE  g[1][1] <= r[1][1]
<1>1. 1 \in 1 .. Len(g) /\ 1 \in 1 .. Len(r)
    BY Empty
<1>2. Len(g) \in Nat /\ Len(r) \in Nat /\ Len(Cat(g, r)) = Len(g) + Len(r)
    BY Concat
<1>3. Cat(g, r)[1] = g[1] /\ Cat(g, r)[Len(g) + 1] = r[1]
    BY <1>1, Concat
<1>4. 1 \in 1 .. Len(Cat(g, r)) /\ Len(g) + 1 \in 1 .. Len(Cat(g, r)) /\ 1 <= Len(g) + 1
    BY <1>1, <1>2
<1>5. Cat(g, r)[1][1] <= Cat(g, r)[Len(g) + 1][1]
    BY <1>4 DEF Sorted
<1> QED BY <1>3, <1>5

\* Of a block and what comes next, the block comes first.
LEMMA First ==
    ASSUME NEW g \in Seq(Unit), NEW r \in Seq(Unit), g # <<>>
    PROVE  Cat(g, r) # <<>> /\ Cat(g, r)[1] = g[1]
<1>1. 1 \in 1 .. Len(g)
    BY Empty
<1>2. /\ Cat(g, r) \in Seq(Unit) /\ Len(Cat(g, r)) = Len(g) + Len(r)
      /\ Len(g) \in Nat /\ Len(r) \in Nat
    BY Concat
<1>3. Cat(g, r)[1] = g[1]
    BY <1>1, Concat
<1> QED BY <1>1, <1>2, <1>3, Empty

\* When a partial message is gone, the socket comes first.
LEMMA Dropped ==
    ASSUME NEW s \in Seq(Unit), NEW w \in Seq(Unit)
    PROVE  Cat(s, w) \in Seq(Unit) /\ Cat(Cat(<<>>, s), w) = Cat(s, w)
<1>1. <<>> \o s = s
    BY ConcatEmptySeq
<1>2. Cat(<<>>, s) = s
    BY <1>1 DEF Cat
<1>3. Cat(s, w) \in Seq(Unit)
    BY Concat
<1> QED BY <1>2, <1>3

\* What is to come, taken apart behind the partial message.
LEMMA RestFacts ==
    ASSUME part \in Seq(Unit), socket \in Seq(Unit), wire \in Seq(Unit)
    PROVE  /\ Rest \in Seq(Unit) /\ Cat(socket, wire) \in Seq(Unit)
           /\ Rest = Cat(part, Cat(socket, wire))
<1>1. Cat(part, socket) \in Seq(Unit) /\ Cat(socket, wire) \in Seq(Unit)
    BY Concat
<1>2. Rest \in Seq(Unit)
    BY <1>1, Concat DEF Rest
<1>3. Cat(Cat(part, socket), wire) = Cat(part, Cat(socket, wire))
    BY Associative
<1> QED BY <1>1, <1>2, <1>3 DEF Rest

-----------------------------------------------------------------------------
\* The steps.

\* A step that only moves units along changes nothing else.
LEMMA SameRest ==
    ASSUME IInv, TypeOK', Rest' = Rest,
           UNCHANGED <<sent, header_complete, header, received, errors>>,
           header_complete /\ sent[header] = 0 => part' = part
    PROVE  IInv'
<1>1. Continuous(Rest, sent)' /\ Sorted(Rest)'
    BY DEF IInv, Continuous, Sorted
<1>2. HeaderInv'
    BY DEF IInv, HeaderInv
<1>3. OrderInv'
    BY DEF IInv, OrderInv, Last, Faulty
<1>4. Intact'
    BY DEF IInv, Intact, DataOf
<1> QED BY <1>1, <1>2, <1>3, <1>4 DEF IInv

\* Units arrive in the socket.
LEMMA ArriveStep == ASSUME IInv, NEW n \in 1 .. Len(wire), Arrive(n) PROVE IInv'
<1> USE DEF IInv
<1>1. part \in Seq(Unit) /\ socket \in Seq(Unit) /\ wire \in Seq(Unit)
    BY DEF TypeOK
<1>2. n \in 0 .. Len(wire)
    BY <1>1, LenProperties
<1>3. PICK a \in Seq(Unit), b \in Seq(Unit) :
          a = SubSeq(wire, 1, n) /\ b = SubSeq(wire, n + 1, Len(wire)) /\ Cat(a, b) = wire
    <2>1. /\ SubSeq(wire, 1, n) \in Seq(Unit) /\ SubSeq(wire, n + 1, Len(wire)) \in Seq(Unit)
          /\ Cat(SubSeq(wire, 1, n), SubSeq(wire, n + 1, Len(wire))) = wire
        BY <1>1, <1>2, Cut
    <2> QED BY <2>1
<1>4. socket' = Cat(socket, a) /\ wire' = b /\ part' = part
    BY <1>3 DEF Arrive, Cat
<1>5. Cat(Cat(part, socket), Cat(a, b)) = Cat(Cat(part, Cat(socket, a)), b)
    BY <1>1, Regroup
<1>6. Rest' = Rest
    BY <1>3, <1>4, <1>5 DEF Rest
<1>7. Cat(socket, a) \in Seq(Unit)
    BY <1>1, Concat
<1>8. TypeOK'
    BY <1>4, <1>7 DEF TypeOK, Arrive
<1> QED BY <1>6, <1>8, SameRest DEF Arrive

\* handleMsg begins.
LEMMA HandleMsgStep == ASSUME IInv, HandleMsg PROVE IInv'
<1>1. Rest' = Rest
    BY DEF HandleMsg, Rest
<1>2. TypeOK'
    BY DEF IInv, TypeOK, HandleMsg
<1> QED BY <1>1, <1>2, SameRest DEF HandleMsg

\* The units of a new message, behind what is to come.
LEMMA NewMessage ==
    ASSUME NEW s \in Seq(Unit), NEW lengths \in Seq(Lengths), NEW length \in Lengths,
           Continuous(s, lengths), Sorted(s),
           NEW new \in Seq(Unit), Whole(new, Len(lengths) + 1, length)
    PROVE  Continuous(Cat(s, new), Append(lengths, length)) /\ Sorted(Cat(s, new))
<1> DEFINE u == Cat(s, new)
           m == Len(s)
           all == HeaderLen + length
           last == Len(lengths) + 1
           longer == Append(lengths, length)
<1>1. /\ u \in Seq(Unit) /\ Len(u) = m + all /\ m \in Nat /\ all \in Nat /\ all > 0
      /\ \A i \in 1 .. m : u[i] = s[i]
      /\ \A k \in 1 .. all : u[m + k] = <<last, k>>
    <2>1. u \in Seq(Unit) /\ Len(u) = m + Len(new) /\ m \in Nat
        BY Concat
    <2>2. ASSUME NEW i \in 1 .. m PROVE u[i] = s[i]
        BY Concat
    <2>3. ASSUME NEW k \in 1 .. Len(new) PROVE u[m + k] = new[k]
        BY Concat
    <2>4. Len(new) = all /\ \A k \in 1 .. all : new[k] = <<last, k>>
        BY DEF Whole
    <2>5. length \in Nat /\ all \in Nat /\ all > 0
        OBVIOUS
    <2>6. ASSUME NEW k \in 1 .. all PROVE u[m + k] = <<last, k>>
        BY <2>3, <2>4
    <2> HIDE DEF u, m, all, last
    <2> QED BY <2>1, <2>2, <2>4, <2>5, <2>6
<1>2. /\ Len(longer) = last /\ last \in Nat /\ longer[last] = length /\ length \in Nat
      /\ \A n \in 1 .. Len(lengths) : longer[n] = lengths[n]
    BY AppendProperties, LenProperties
<1>3. ASSUME NEW i \in 1 .. Len(u)
      PROVE  \/ i \in 1 .. m /\ u[i] = s[i]
             \/ \E k \in 1 .. all : i = m + k /\ u[i] = <<last, k>>
    <2>1. CASE i <= m
        <3>1. i \in 1 .. m
            BY <2>1, <1>1
        <3> QED BY <3>1, <1>1
    <2>2. CASE i > m
        <3>1. i - m \in 1 .. all /\ i = m + (i - m)
            BY <2>2, <1>1
        <3> QED BY <3>1, <1>1
    <2> QED BY <2>1, <2>2, <1>1
<1>4. \A i \in 1 .. m : s[i][1] \in 1 .. Len(lengths)
    BY DEF Continuous
<1>5. m = Len(s) /\ all = HeaderLen + length /\ last = Len(lengths) + 1 /\ Len(lengths) \in Nat
    BY LenProperties
<1> HIDE DEF u, m, all, last, longer
<1>6. Sorted(u)
    <2> SUFFICES ASSUME NEW i \in 1 .. Len(u), NEW j \in 1 .. Len(u), i <= j
                 PROVE  u[i][1] <= u[j][1]
        BY DEF Sorted
    <2>1. CASE j \in 1 .. m
        <3>1. i \in 1 .. m
            BY <2>1, <1>1
        <3>2. s[i][1] <= s[j][1]
            BY <2>1, <3>1, <1>5 DEF Sorted
        <3> QED BY <2>1, <3>1, <3>2, <1>1
    <2>2. CASE ~(j \in 1 .. m)
        <3>1. u[j][1] = last
            BY <2>2, <1>3
        <3>2. u[i][1] \in 1 .. last
            <4>1. CASE i \in 1 .. m /\ u[i] = s[i]
                <5>1. u[i][1] \in 1 .. Len(lengths)
                    BY <4>1, <1>4
                <5> QED BY <5>1, <1>2 DEF last
            <4>2. CASE \E k \in 1 .. all : i = m + k /\ u[i] = <<last, k>>
                <5>1. u[i][1] = last /\ last > 0
                    BY <4>2, <1>2 DEF last
                <5> QED BY <5>1, <1>2
            <4> QED BY <4>1, <4>2, <1>3
        <3> QED BY <3>1, <3>2, <1>2
    <2> QED BY <2>1, <2>2
<1>7. ASSUME NEW i \in 1 .. Len(u)
      PROVE  /\ u[i][1] \in 1 .. Len(longer)
             /\ u[i][2] \in 1 .. HeaderLen + longer[u[i][1]]
             /\ \A d \in 0 .. HeaderLen + longer[u[i][1]] - u[i][2] :
                    i + d <= Len(u) /\ u[i + d] = <<u[i][1], u[i][2] + d>>
             /\ IF i + HeaderLen + longer[u[i][1]] - u[i][2] < Len(u)
                THEN u[i + HeaderLen + longer[u[i][1]] - u[i][2] + 1] = <<u[i][1] + 1, 1>>
                ELSE u[i][1] = Len(longer)
    <2>1. CASE i \in 1 .. m
        <3>1. PICK n, k : n = s[i][1] /\ k = s[i][2]
            OBVIOUS
        <3>2. /\ n \in 1 .. Len(lengths) /\ k \in 1 .. HeaderLen + lengths[n]
              /\ \A d \in 0 .. HeaderLen + lengths[n] - k : i + d <= Len(s) /\ s[i + d] = <<n, k + d>>
              /\ IF i + HeaderLen + lengths[n] - k < Len(s)
                 THEN s[i + HeaderLen + lengths[n] - k + 1] = <<n + 1, 1>> ELSE n = Len(lengths)
            BY <2>1, <3>1, <1>5 DEF Continuous
        <3>3. u[i][1] = n /\ u[i][2] = k /\ longer[n] = lengths[n] /\ lengths[n] \in Nat
            BY <2>1, <3>1, <3>2, <1>1, <1>2, ElementOfSeq
        <3>4. PICK more \in Nat : more = HeaderLen + lengths[n] - k
            <4>1. HeaderLen \in Nat /\ lengths[n] \in Nat /\ k \in 1 .. HeaderLen + lengths[n]
                BY <3>2, <3>3
            <4> DEFINE len == lengths[n]
            <4>2. HeaderLen \in Nat /\ len \in Nat /\ k \in 1 .. HeaderLen + len
                BY <4>1, Zenon
            <4> HIDE DEF len
            <4>3. HeaderLen + len - k \in Nat
                BY <4>2
            <4> QED BY <4>3 DEF len
        <3>5. /\ i + HeaderLen + lengths[n] - k = i + more
              /\ n \in 1 .. Len(longer)
            <4>1. i \in Int /\ k \in Int /\ lengths[n] \in Int /\ HeaderLen \in Int
                BY <2>1, <3>2, <3>3, <1>1
            <4>2. i + HeaderLen + lengths[n] - k = i + more
                <5>1. PICK len \in Int : len = lengths[n]
                    BY <4>1
                <5>2. i + HeaderLen + len - k = i + (HeaderLen + len - k)
                    BY <4>1
                <5> QED BY <5>1, <5>2, <3>4
            <4>3. n \in 1 .. last
                BY <3>2, <1>5
            <4> QED BY <4>2, <4>3, <1>2
        <3>6. \A d \in 0 .. more : i + d <= Len(s) /\ s[i + d] = <<n, k + d>>
            BY <3>2, <3>4
        <3>7. ASSUME NEW d \in 0 .. more PROVE i + d <= Len(u) /\ u[i + d] = <<n, k + d>>
            <4>1. i + d <= m /\ s[i + d] = <<n, k + d>>
                BY <3>6, <1>5
            <4>2. i + d \in 1 .. m
                BY <4>1, <2>1, <3>4, <1>1
            <4> QED BY <4>1, <4>2, <1>1
        <3>8. IF i + more < Len(u) THEN u[i + more + 1] = <<n + 1, 1>> ELSE n = Len(longer)
            <4>1. i + more <= m
                <5>1. more \in 0 .. more
                    BY <3>4
                <5>2. i + more <= Len(s)
                    BY <5>1, <3>6
                <5> QED BY <5>2, <1>5
            <4>2. CASE i + more < m
                <5>1. s[i + more + 1] = <<n + 1, 1>>
                    BY <4>2, <3>2, <3>5, <1>5
                <5>2. i + more + 1 \in 1 .. m /\ i + more < Len(u)
                    <6>1. i \in Nat /\ m \in Nat /\ all \in Nat /\ all > 0 /\ Len(u) = m + all
                        BY <2>1, <1>1
                    <6> QED BY <6>1, <4>2
                <5> QED BY <5>1, <5>2, <1>1
            <4>3. CASE i + more = m
                <5>1. n = Len(lengths)
                    BY <4>3, <3>2, <3>5, <1>5
                <5>2. 1 \in 1 .. all /\ i + more + 1 = m + 1 /\ i + more < Len(u)
                    BY <4>3, <1>1
                <5>3. u[m + 1] = <<last, 1>>
                    BY <5>2, <1>1
                <5> QED BY <5>1, <5>2, <5>3, <1>5
            <4>4. i + more \in Int
                BY <2>1, <3>4
            <4> QED BY <4>1, <4>2, <4>3, <4>4, <1>1
        <3> QED BY <3>2, <3>3, <3>4, <3>5, <3>7, <3>8
    <2>2. CASE ~(i \in 1 .. m)
        <3>1. PICK k \in 1 .. all : i = m + k /\ u[i] = <<last, k>>
            BY <2>2, <1>3
        <3>2. u[i][1] = last /\ u[i][2] = k /\ longer[last] = length
            BY <3>1, <1>2
        <3>3. PICK more \in Nat : more = HeaderLen + length - k
            <4>1. HeaderLen \in Nat /\ length \in Nat /\ k \in 1 .. HeaderLen + length
                BY <1>5, <1>2
            <4> QED BY <4>1
        <3>4. /\ i + HeaderLen + length - k = i + more /\ i + more = Len(u)
              /\ last \in 1 .. Len(longer)
            <4>1. /\ m \in Int /\ all \in Int /\ k \in Int /\ length \in Int /\ HeaderLen \in Int
                  /\ Len(u) = m + all /\ i = m + k
                BY <3>1, <1>1, <1>2
            <4>2. last \in 1 .. Len(longer)
                BY <1>2, <1>5
            <4> QED BY <4>1, <4>2, <3>3, <1>5
        <3>5. ASSUME NEW d \in 0 .. more PROVE i + d <= Len(u) /\ u[i + d] = <<last, k + d>>
            <4>1. k + d \in 1 .. all /\ i + d = m + (k + d)
                <5>1. m \in Int /\ all \in Int /\ length \in Int /\ HeaderLen \in Int
                    BY <1>1, <1>2
                <5> QED BY <5>1, <3>1, <3>3, <1>5
            <4>2. u[m + (k + d)] = <<last, k + d>>
                BY <4>1, <1>1
            <4>3. i + d <= Len(u)
                <5>1. m \in Nat /\ all \in Nat /\ Len(u) = m + all
                    BY <1>1
                <5> QED BY <5>1, <4>1
            <4> QED BY <4>1, <4>2, <4>3
        <3>6. k \in 1 .. HeaderLen + length
            BY <1>5
        <3>7. /\ \A d \in 0 .. HeaderLen + length - k :
                     i + d <= Len(u) /\ u[i + d] = <<last, k + d>>
              /\ ~(i + HeaderLen + length - k < Len(u)) /\ last = Len(longer)
            <4>1. \A d \in 0 .. more : i + d <= Len(u) /\ u[i + d] = <<last, k + d>>
                BY <3>5
            <4>2. ~(Len(u) < Len(u))
                <5>1. Len(u) \in Nat
                    BY <1>1
                <5> QED BY <5>1
            <4> QED BY <4>1, <4>2, <3>3, <3>4, <1>2
        <3> QED BY <3>2, <3>4, <3>6, <3>7
    <2> QED BY <2>1, <2>2
<1> QED BY <1>6, <1>7 DEF Continuous, u, longer

\* One more message is sent.
LEMMA Longer ==
    ASSUME NEW s \in Seq(Lengths), NEW length \in Lengths
    PROVE  /\ Append(s, length) \in Seq(Lengths) /\ Len(Append(s, length)) = Len(s) + 1
           /\ Len(s) \in Nat /\ Append(s, length)[Len(s) + 1] = length
           /\ \A n \in 1 .. Len(s) : Append(s, length)[n] = s[n]
BY AppendProperties, LenProperties

\* What is sent comes behind everything else.
LEMMA SendMsgStep == ASSUME IInv, NEW length \in Lengths, SendMsg(length) PROVE IInv'
<1> USE DEF IInv
<1>1. /\ part \in Seq(Unit) /\ socket \in Seq(Unit) /\ wire \in Seq(Unit) /\ sent \in Seq(Lengths)
      /\ Len(sent) < MaxSent /\ sent' = Append(sent, length)
      /\ UNCHANGED <<socket, ready, running, header_complete, header, part, room, received, errors>>
    BY DEF TypeOK, SendMsg
<1>2. PICK new \in Seq(Unit) : Whole(new, Len(sent) + 1, length) /\ wire' = Cat(wire, new)
    <2> DEFINE new == [k \in 1 .. HeaderLen + length |-> <<Len(sent) + 1, k>>]
    <2>1. Len(sent) + 1 \in 1 .. MaxSent /\ HeaderLen + length \in Nat
        BY <1>1, LenProperties
    <2>2. new \in [1 .. HeaderLen + length -> Unit]
        BY <2>1 DEF Unit
    <2>3. new \in Seq(Unit) /\ Len(new) = HeaderLen + length
        BY <2>1, <2>2
    <2>4. Whole(new, Len(sent) + 1, length)
        BY <2>3 DEF Whole
    <2>5. wire' = Cat(wire, new)
        BY DEF SendMsg, Cat
    <2> HIDE DEF new
    <2> QED BY <2>3, <2>4, <2>5
<1>3. Rest \in Seq(Unit) /\ Cat(part, socket) \in Seq(Unit)
    BY <1>1, RestFacts, Concat
<1>4. Rest' = Cat(Rest, new)
    <2>1. Cat(Cat(Cat(part, socket), wire), new) = Cat(Cat(part, socket), Cat(wire, new))
        BY <1>1, <1>3, Associative
    <2> QED BY <2>1, <1>1, <1>2 DEF Rest
<1>5. Continuous(Rest', sent') /\ Sorted(Rest')
    BY <1>1, <1>2, <1>3, <1>4, NewMessage
<1>6. /\ Len(sent) \in Nat /\ Len(sent') = Len(sent) + 1 /\ sent' \in Seq(Lengths)
      /\ \A n \in 1 .. Len(sent) : sent'[n] = sent[n]
    BY <1>1, Longer
<1>7. /\ Rest # <<>> => Rest' # <<>> /\ Rest'[1] = Rest[1]
      /\ Rest = <<>> => Rest' # <<>> /\ Rest'[1] = <<Len(sent) + 1, 1>>
    <2>1. new # <<>> /\ new[1] = <<Len(sent) + 1, 1>>
        <3>1. Len(new) > 0 /\ 1 \in 1 .. HeaderLen + length
            BY <1>2 DEF Whole
        <3>2. new # <<>>
            BY <3>1, Empty
        <3> QED BY <3>1, <3>2, <1>2 DEF Whole
    <2>2. ASSUME Rest = <<>> PROVE Rest' = new
        <3>1. <<>> \o new = new
            BY ConcatEmptySeq
        <3> QED BY <3>1, <2>2, <1>4 DEF Cat
    <2>3. Rest # <<>> => Cat(Rest, new) # <<>> /\ Cat(Rest, new)[1] = Rest[1]
        BY <1>3, First
    <2> QED BY <2>1, <2>2, <2>3, <1>4
<1>8. header \in 0 .. Len(sent) /\ (header_complete => header # 0)
    BY DEF TypeOK
<1>9. header_complete => header \in 1 .. Len(sent) /\ sent'[header] = sent[header]
    BY <1>6, <1>8
<1>10. TypeOK'
    <2>1. Len(sent') <= MaxSent /\ header \in 0 .. Len(sent')
        BY <1>1, <1>6, <1>8
    <2>2. wire' \in Seq(Unit)
        BY <1>1, <1>2, Concat
    <2>3. Len(part) < IF header_complete /\ sent'[header] > 0 THEN sent'[header] ELSE HeaderLen
        BY <1>9 DEF TypeOK
    <2> QED BY <1>1, <1>6, <1>8, <2>1, <2>2, <2>3 DEF TypeOK
<1>11. HeaderInv'
    <2> SUFFICES ASSUME header_complete'
                 PROVE  /\ sent'[header'] <= MaxDataLength
                        /\ sent'[header'] > 0 => Rest' # <<>> /\ Rest'[1] = <<header', HeaderLen + 1>>
                        /\ sent'[header'] = 0 =>
                               /\ part' = <<>>
                               /\ IF Rest' = <<>> THEN header' = Len(sent')
                                  ELSE Rest'[1] = <<header' + 1, 1>>
        BY DEF HeaderInv
    <2>1. /\ sent[header] <= MaxDataLength
          /\ sent[header] > 0 => Rest # <<>> /\ Rest[1] = <<header, HeaderLen + 1>>
          /\ sent[header] = 0 =>
                 /\ part = <<>>
                 /\ IF Rest = <<>> THEN header = Len(sent) ELSE Rest[1] = <<header + 1, 1>>
        BY <1>1 DEF HeaderInv
    <2> QED BY <2>1, <1>1, <1>7, <1>9
<1>12. OrderInv'
    <2>1. Last' = Last /\ Last \in 0 .. Len(sent')
        BY <1>1, <1>6 DEF Last, OrderInv
    <2>2. \A i \in DOMAIN received : received[i].message \in 1 .. Len(sent')
        BY <1>6 DEF OrderInv
    <2>3. header_complete => header > Last
        BY DEF OrderInv
    <2>4. ~header_complete /\ Rest' # <<>> => Rest'[1][1] > Last
        <3>1. CASE Rest = <<>>
            <4>1. Rest'[1][1] = Len(sent) + 1 /\ Last \in 0 .. Len(sent)
                BY <3>1, <1>7 DEF OrderInv
            <4> QED BY <4>1, <1>6
        <3>2. CASE Rest # <<>>
            BY <3>2, <1>7 DEF OrderInv
        <3> QED BY <3>1, <3>2
    <2>5. ~Faulty' => ~Faulty
        <3>1. DOMAIN sent = 1 .. Len(sent) /\ DOMAIN sent' = 1 .. Len(sent')
            BY <1>1, <1>6, LenProperties
        <3>2. \A n \in DOMAIN sent : n \in DOMAIN sent' /\ sent'[n] = sent[n]
            BY <3>1, <1>6
        <3> QED BY <3>2, <1>1 DEF Faulty
    <2>6. ASSUME ~Faulty' PROVE IF header_complete THEN header = Last + 1
                   ELSE IF Rest' = <<>> THEN Last = Len(sent') ELSE Rest'[1] = <<Last + 1, 1>>
        <3>1. IF header_complete THEN header = Last + 1
              ELSE IF Rest = <<>> THEN Last = Len(sent) ELSE Rest[1] = <<Last + 1, 1>>
            BY <2>5, <2>6 DEF OrderInv
        <3> QED BY <3>1, <1>7
    <2> QED BY <2>1, <2>2, <2>3, <2>4, <2>6, <1>1 DEF OrderInv
<1>13. Intact'
    <2> SUFFICES ASSUME NEW i \in DOMAIN received
                 PROVE  /\ received[i].data = DataOf(received[i].message)'
                        /\ sent'[received[i].message] <= MaxDataLength
        BY <1>1 DEF Intact
    <2>1. sent'[received[i].message] = sent[received[i].message]
        BY <1>6 DEF OrderInv
    <2> QED BY <2>1, <1>1 DEF Intact, DataOf
<1> QED BY <1>5, <1>10, <1>11, <1>12, <1>13

\* readBlock takes a block g, and r is what is to come then.
LEMMA Taken ==
    ASSUME IInv, NEW length \in Nat, Len(part) <= length, ReadBlock(length), UNCHANGED wire
    PROVE  \E g \in Seq(Unit), r \in Seq(Unit) :
              /\ g = Got(length) /\ Len(g) \in Nat /\ Len(g) <= length /\ socket' \in Seq(Unit)
              /\ Cat(g, r) = Rest /\ Continuous(r, sent) /\ Sorted(r)
              /\ part' = g => Rest' = Rest
              /\ part' = <<>> => Rest' = r
<1>1. part \in Seq(Unit) /\ socket \in Seq(Unit) /\ wire \in Seq(Unit) /\ sent \in Seq(Lengths)
    BY DEF IInv, TypeOK
<1>2. /\ Got(length) \in Seq(Unit) /\ socket' \in Seq(Unit) /\ Len(Got(length)) <= length
      /\ Cat(Got(length), Cat(socket', wire)) = Rest /\ Cat(Cat(Got(length), socket'), wire) = Rest
    BY <1>1, Split
<1>3. PICK g, r : g = Got(length) /\ r = Cat(socket', wire)
    OBVIOUS
<1>4. r \in Seq(Unit) /\ Cat(Cat(<<>>, socket'), wire) = r
    BY <1>1, <1>2, <1>3, Dropped
<1>5. Cat(g, r) = Rest /\ Continuous(Rest, sent) /\ Sorted(Rest)
    BY <1>2, <1>3 DEF IInv
<1>6. Continuous(r, sent) /\ Sorted(r)
    BY <1>1, <1>2, <1>3, <1>4, <1>5, Suffix
<1>7. Len(g) \in Nat
    BY <1>2, <1>3, LenProperties
<1>8. part' = g => Rest' = Rest
    BY <1>2, <1>3, Zenon DEF Rest
<1>9. part' = <<>> => Rest' = r
    BY <1>4, Zenon DEF Rest
<1> QED BY <1>2, <1>3, <1>4, <1>5, <1>6, <1>7, <1>8, <1>9

\* A header is read, as far as it is there.
LEMMA ReadHeaderStep == ASSUME IInv, ReadHeader PROVE IInv'
<1>1. /\ ~header_complete /\ ReadBlock(HeaderLen)
      /\ UNCHANGED <<sent, wire, ready, room, received, errors>>
    BY DEF ReadHeader
<1>2. /\ sent \in Seq(Lengths) /\ Len(part) <= HeaderLen /\ HeaderLen \in Nat /\ HeaderLen > 0
      /\ Continuous(Rest, sent) /\ OrderInv /\ Intact /\ part \in Seq(Unit)
    <2>1. part \in Seq(Unit) /\ Len(part) < HeaderLen
        BY <1>1 DEF IInv, TypeOK
    <2> QED BY <2>1, LenProperties DEF IInv, TypeOK
<1>3. PICK g \in Seq(Unit), r \in Seq(Unit) :
          /\ g = Got(HeaderLen) /\ Len(g) \in Nat /\ Len(g) <= HeaderLen /\ socket' \in Seq(Unit)
          /\ Cat(g, r) = Rest /\ Continuous(r, sent) /\ Sorted(r)
          /\ part' = g => Rest' = Rest
          /\ part' = <<>> => Rest' = r
    BY <1>1, <1>2, Taken
<1>4. CASE Len(g) < HeaderLen
    <2>1. part' = g /\ UNCHANGED <<header_complete, header>> /\ running' = FALSE
        <3>1. ~(Len(g) = HeaderLen)
            BY <1>2, <1>3, <1>4
        <3> QED BY <3>1, <1>3, <1>4 DEF ReadHeader
    <2>2. TypeOK'
        BY <1>1, <1>3, <1>4, <2>1 DEF IInv, TypeOK
    <2> QED BY <1>1, <1>3, <2>1, <2>2, SameRest
<1>5. CASE Len(g) = HeaderLen
    <2>1. part' = <<>> /\ Rest' = r
        BY <1>3, <1>5 DEF ReadHeader
    <2>2. PICK n, k : n = g[1][1] /\ k = g[1][2]
        OBVIOUS
    <2>3. g # <<>> /\ g[1] = <<n, k>> /\ 1 \in 1 .. Len(g)
        <3>1. g # <<>> /\ 1 \in 1 .. Len(g)
            BY <1>2, <1>3, <1>5, Empty
        <3>2. g[1] \in Unit
            BY <3>1, ElementOfSeq
        <3> QED BY <3>1, <3>2, <2>2 DEF Unit
    <2>4. Rest # <<>> /\ Rest[1] = <<n, k>>
        BY <1>3, <2>3, First
    <2>5. n > Last /\ Last \in 0 .. Len(sent) /\ (~Faulty => n = Last + 1 /\ k = 1)
        BY <1>1, <1>2, <2>4 DEF OrderInv
    <2>6. n \in 1 .. Len(sent) /\ Len(sent) \in Nat
        <3>1. Rest \in Seq(Unit)
            BY <1>3, Concat
        <3>2. 1 \in 1 .. Len(Rest)
            BY <3>1, <2>4, Empty
        <3>3. n \in 1 .. Len(sent)
            BY <3>2, <2>4, <1>2 DEF Continuous
        <3> QED BY <3>3, <1>2, LenProperties
    <2>7. sent[n] \in Nat
        BY <1>2, <2>6, ElementOfSeq
    <2>8. (Faulty' <=> Faulty) /\ Last' = Last
        BY <1>1 DEF Faulty, Last
    <2>9. Intact'
        BY <1>1, <1>2 DEF Intact, DataOf
    <2>10. CASE k = 1 /\ sent[n] <= MaxDataLength
        <3>1. header_complete' = TRUE /\ header' = n /\ UNCHANGED running
            BY <1>3, <1>5, <2>2, <2>10 DEF ReadHeader, Accepted
        <3>2. TypeOK'
            <4>1. Len(<<>>) = 0 /\ <<>> \in Seq(Unit)
                BY EmptySeq
            <4>2. n \in 0 .. Len(sent) /\ n # 0
                BY <2>6
            <4>3. 0 < IF sent[n] > 0 THEN sent[n] ELSE HeaderLen
                BY <2>7, <1>2
            <4> QED BY <1>1, <1>3, <2>1, <3>1, <4>1, <4>2, <4>3 DEF IInv, TypeOK
        <3>3. /\ sent[n] > 0 => r # <<>> /\ r[1] = <<n, HeaderLen + 1>>
              /\ sent[n] = 0 => IF r = <<>> THEN n = Len(sent) ELSE r[1] = <<n + 1, 1>>
            <4>1. /\ HeaderLen + sent[n] - 1 + 1 = HeaderLen + sent[n]
                  /\ Len(g) <= HeaderLen + sent[n] - k + 1 /\ k + Len(g) = HeaderLen + 1
                  /\ sent[n] > 0 => Len(g) <= HeaderLen + sent[n] - k
                  /\ sent[n] = 0 => Len(g) = HeaderLen + sent[n] - k + 1
                BY <1>2, <1>5, <2>7, <2>10
            <4>2. Continuous(Cat(g, r), sent) /\ sent \in Seq(Lengths)
                BY <1>2, <1>3
            <4>3. /\ Len(g) <= HeaderLen + sent[n] - k => r # <<>> /\ r[1] = <<n, k + Len(g)>>
                  /\ Len(g) = HeaderLen + sent[n] - k + 1
                        => IF r = <<>> THEN n = Len(sent) ELSE r[1] = <<n + 1, 1>>
                <5>1. Leads(g, r, sent, n, k)
                    BY <2>3, <4>1, <4>2, Zenon DEF Leads
                <5> QED BY <5>1, Block
            <4> QED BY <4>1, <4>3
        <3>4. HeaderInv'
            BY <1>1, <2>1, <2>10, <3>1, <3>3 DEF HeaderInv
        <3>5. OrderInv'
            BY <1>1, <1>2, <2>5, <2>8, <3>1 DEF OrderInv
        <3> QED BY <1>1, <1>3, <2>1, <2>9, <3>2, <3>4, <3>5 DEF IInv
    <2>11. CASE ~(k = 1 /\ sent[n] <= MaxDataLength)
        <3>1. header_complete' = FALSE /\ header' = header /\ running' = FALSE
            <4>1. ~Accepted(Got(HeaderLen))
                BY <1>3, <2>2, <2>11 DEF Accepted
            <4>2. header_complete' = header_complete /\ header' = header /\ running' = FALSE
                BY <4>1 DEF ReadHeader
            <4>3. header_complete = FALSE
                BY <1>1 DEF IInv, TypeOK
            <4> QED BY <4>2, <4>3
        <3>2. TypeOK'
            <4>1. Len(<<>>) = 0 /\ <<>> \in Seq(Unit) /\ 0 < HeaderLen
                BY <1>2, EmptySeq
            <4> QED BY <1>1, <1>3, <2>1, <3>1, <4>1 DEF IInv, TypeOK
        <3>3. Faulty
            <4>1. CASE k = 1
                <5>1. ~(sent[n] <= MaxDataLength)
                    BY <4>1, <2>11
                <5>2. sent[n] > MaxDataLength /\ n \in DOMAIN sent
                    BY <5>1, <2>6, <2>7, <1>2, LenProperties
                <5> QED BY <5>2 DEF Faulty
            <4>2. CASE k # 1
                BY <4>2, <2>5
            <4> QED BY <4>1, <4>2
        <3>4. Rest' # <<>> => Rest'[1][1] > Last
            <4> SUFFICES ASSUME r # <<>> PROVE r[1][1] > Last
                BY <2>1
            <4>1. Sorted(Cat(g, r))
                BY <1>3 DEF IInv
            <4>2. g[1][1] <= r[1][1]
                BY <2>3, <4>1, Later
            <4>3. r[1][1] \in Nat
                <5>1. r[1] \in Unit
                    BY Empty, ElementOfSeq
                <5> QED BY <5>1 DEF Unit
            <4> QED BY <2>2, <2>5, <2>6, <4>2, <4>3
        <3>5. OrderInv'
            BY <1>1, <1>2, <2>5, <2>8, <3>1, <3>3, <3>4 DEF OrderInv
        <3>6. HeaderInv'
            BY <3>1 DEF HeaderInv
        <3> QED BY <1>1, <1>3, <2>1, <2>9, <3>2, <3>5, <3>6 DEF IInv
    <2> QED BY <2>10, <2>11
<1> QED BY <1>2, <1>3, <1>4, <1>5

\* The data of a message is read, as far as it is there.
LEMMA ReadDataStep == ASSUME IInv, ReadData PROVE IInv'
<1>1. /\ header_complete /\ Fits /\ ReadBlock(sent[header])
      /\ UNCHANGED <<sent, wire, ready, header, errors>>
    BY DEF ReadData
<1>2. PICK length : length = sent[header]
    OBVIOUS
<1>3. /\ sent \in Seq(Lengths) /\ Len(sent) \in Nat /\ part \in Seq(Unit)
      /\ header \in 1 .. Len(sent) /\ length \in Nat /\ length \in Lengths /\ length <= MaxDataLength
      /\ length = 0 => part = <<>>
    <2>1. sent \in Seq(Lengths) /\ part \in Seq(Unit) /\ header \in 0 .. Len(sent) /\ header # 0
        BY <1>1 DEF IInv, TypeOK
    <2>2. Len(sent) \in Nat /\ header \in 1 .. Len(sent)
        BY <2>1, LenProperties
    <2>3. length \in Lengths
        BY <2>1, <2>2, <1>2, ElementOfSeq
    <2> QED BY <2>1, <2>2, <2>3, <1>1, <1>2 DEF IInv, HeaderInv
<1>4. Len(part) <= length
    <2>1. CASE length = 0
        BY <2>1, <1>3, Empty
    <2>2. CASE length > 0
        <3>1. Len(part) < length
            BY <2>2, <1>1, <1>2 DEF IInv, TypeOK
        <3> QED BY <3>1, <1>3, LenProperties
    <2> QED BY <2>1, <2>2, <1>3
<1>5. PICK g \in Seq(Unit), r \in Seq(Unit) :
          /\ g = Got(length) /\ Len(g) \in Nat /\ Len(g) <= length /\ socket' \in Seq(Unit)
          /\ Cat(g, r) = Rest /\ Continuous(r, sent) /\ Sorted(r)
          /\ part' = g => Rest' = Rest
          /\ part' = <<>> => Rest' = r
    BY <1>1, <1>2, <1>3, <1>4, Taken
<1>6. CASE Len(g) < length
    <2>1. /\ part' = g /\ UNCHANGED <<header_complete, received>> /\ running' = FALSE
          /\ room' = IF room = 0 THEN length ELSE room
        BY <1>2, <1>5, <1>6 DEF ReadData
    <2>2. TypeOK'
        <3>1. room' \in Lengths \cup {0}
            BY <2>1, <1>3 DEF IInv, TypeOK
        <3>2. length > 0
            BY <1>3, <1>5, <1>6
        <3> QED BY <1>1, <1>2, <1>3, <1>5, <1>6, <2>1, <3>1, <3>2 DEF IInv, TypeOK
    <2>3. length # 0
        BY <1>3, <1>5, <1>6
    <2> QED BY <1>1, <1>2, <1>5, <2>1, <2>2, <2>3, SameRest
<1>7. CASE Len(g) = length
    <2>1. /\ part' = <<>> /\ header_complete' = FALSE /\ room' = 0 /\ UNCHANGED running
          /\ received' = Append(received, [message |-> header, data |-> g])
        <3>1. ~(Len(g) < length)
            BY <1>3, <1>5, <1>7
        <3> QED BY <3>1, <1>2, <1>5 DEF ReadData
    <2>2. Rest' = r
        BY <1>5, <2>1
    <2>3. g = DataOf(header) /\ IF r = <<>> THEN header = Len(sent) ELSE r[1] = <<header + 1, 1>>
        <3>1. CASE length = 0
            <4>1. g = <<>> /\ DataOf(header) = <<>>
                BY <3>1, <1>2, <1>7, Empty DEF DataOf
            <4>2. Rest = r
                BY <4>1, <1>5, ConcatEmptySeq DEF Cat
            <4> QED BY <3>1, <4>1, <4>2, <1>1, <1>2 DEF IInv, HeaderInv
        <3>2. CASE length > 0
            <4>1. Rest[1] = <<header, HeaderLen + 1>>
                BY <3>2, <1>1, <1>2 DEF IInv, HeaderInv
            <4>2. g # <<>>
                BY <3>2, <1>7, Empty
            <4>3. g[1] = <<header, HeaderLen + 1>>
                BY <4>1, <4>2, <1>5, First
            <4>4. PICK k : k = HeaderLen + 1 /\ Len(g) <= HeaderLen + sent[header] - k + 1
                          /\ Len(g) = HeaderLen + sent[header] - k + 1
                BY <1>2, <1>3, <1>7
            <4>5. Continuous(Cat(g, r), sent) /\ sent \in Seq(Lengths)
                BY <1>3, <1>5 DEF IInv
            <4>6. /\ g[1] = <<header, k>> /\ Len(g) <= HeaderLen + sent[header] - k + 1
                  /\ Len(g) = HeaderLen + sent[header] - k + 1
                BY <4>3, <4>4
            <4>7. Leads(g, r, sent, header, k)
                BY <4>2, <4>5, <4>6, Zenon DEF Leads
            <4>8. \A j \in 1 .. Len(g) : g[j] = <<header, k + j - 1>>
                BY <4>7, Block
            <4>9. IF r = <<>> THEN header = Len(sent) ELSE r[1] = <<header + 1, 1>>
                BY <4>6, <4>7, Block
            <4>10. \A j \in 1 .. length : g[j] = <<header, HeaderLen + j>>
                <5> SUFFICES ASSUME NEW j \in 1 .. length PROVE g[j] = <<header, HeaderLen + j>>
                    OBVIOUS
                <5>1. g[j] = <<header, k + j - 1>>
                    BY <4>8, <1>7
                <5>2. k + j - 1 = HeaderLen + j
                    BY <4>4
                <5> QED BY <5>1, <5>2
            <4>11. g = DataOf(header)
                <5>1. g = [j \in 1 .. length |-> g[j]]
                    BY <1>7, LenProperties
                <5> QED BY <5>1, <4>10, <1>2 DEF DataOf
            <4> QED BY <4>9, <4>11
        <3> QED BY <3>1, <3>2, <1>3
    <2>4. /\ received \in Seq([message : 1 .. MaxSent, data : Seq(Unit)])
          /\ [message |-> header, data |-> g] \in [message : 1 .. MaxSent, data : Seq(Unit)]
        <3>1. header \in 1 .. MaxSent
            BY <1>3 DEF IInv, TypeOK
        <3> QED BY <3>1 DEF IInv, TypeOK
    <2>5. /\ received' \in Seq([message : 1 .. MaxSent, data : Seq(Unit)]) /\ received' # <<>>
          /\ Len(received') = Len(received) + 1 /\ Len(received) \in Nat
          /\ received'[Len(received) + 1] = [message |-> header, data |-> g]
          /\ \A i \in 1 .. Len(received) : received'[i] = received[i]
          /\ DOMAIN received = 1 .. Len(received) /\ DOMAIN received' = 1 .. Len(received) + 1
        BY <2>1, <2>4, AppendProperties, LenProperties
    <2>6. ASSUME NEW i \in DOMAIN received'
          PROVE  \/ received'[i].message = header /\ received'[i].data = g
                 \/ i \in DOMAIN received /\ received'[i] = received[i]
        BY <2>5
    <2>7. TypeOK'
        <3>1. Len(<<>>) = 0 /\ <<>> \in Seq(Unit) /\ 0 < HeaderLen
            BY EmptySeq
        <3> QED BY <1>1, <1>3, <1>5, <2>1, <2>5, <3>1 DEF IInv, TypeOK
    <2>8. Intact'
        <3> SUFFICES ASSUME NEW i \in DOMAIN received'
                     PROVE  /\ received'[i].data = DataOf(received'[i].message)
                            /\ sent[received'[i].message] <= MaxDataLength
            BY <1>1 DEF Intact, DataOf
        <3> QED BY <2>3, <2>6, <1>2, <1>3 DEF IInv, Intact
    <2>9. OrderInv'
        <3>1. Last' = header
            BY <2>5 DEF Last
        <3>2. \A i \in DOMAIN received' : received'[i].message \in 1 .. Len(sent)
            BY <2>6, <1>3 DEF IInv, OrderInv
        <3>3. Rest' # <<>> => Rest'[1][1] > header
            BY <2>2, <2>3, <1>3
        <3> QED BY <3>1, <3>2, <3>3, <1>1, <1>3, <2>1, <2>2, <2>3 DEF OrderInv
    <2>10. HeaderInv'
        BY <2>1 DEF HeaderInv
    <2> QED BY <1>1, <1>5, <2>2, <2>7, <2>8, <2>9, <2>10 DEF IInv
<1> QED BY <1>3, <1>5, <1>6, <1>7

\* A read fails, and what was read of the message is dropped.
LEMMA ReadErrorStep == ASSUME IInv, ReadError PROVE IInv'
<1>1. /\ running' = FALSE /\ part' = <<>> /\ header_complete' = FALSE
      /\ errors' = errors + 1 /\ errors < MaxErrors
      /\ room' = (IF header_complete /\ room = 0 THEN sent[header] ELSE room)
      /\ header_complete => sent[header] > 0
      /\ UNCHANGED <<sent, wire, socket, ready, header, received>>
    BY DEF ReadError
<1>2. /\ part \in Seq(Unit) /\ socket \in Seq(Unit) /\ wire \in Seq(Unit) /\ sent \in Seq(Lengths)
    BY DEF IInv, TypeOK
<1>3. PICK r \in Seq(Unit) : r = Cat(socket, wire) /\ Rest = Cat(part, r) /\ Rest' = r
    <2>1. Cat(socket, wire) \in Seq(Unit) /\ Cat(Cat(<<>>, socket), wire) = Cat(socket, wire)
        BY <1>2, Dropped
    <2>2. Rest = Cat(part, Cat(socket, wire))
        BY <1>2, RestFacts
    <2>3. Rest' = Cat(socket, wire)
        BY <2>1, <1>1 DEF Rest
    <2> QED BY <2>1, <2>2, <2>3
<1>4. Continuous(Rest', sent') /\ Sorted(Rest')
    <2>1. Continuous(Cat(part, r), sent) /\ Sorted(Cat(part, r))
        BY <1>3 DEF IInv
    <2>2. Continuous(r, sent) /\ Sorted(r)
        BY <2>1, <1>2, Suffix
    <2> QED BY <2>2, <1>1, <1>3
<1>5. TypeOK'
    <2>1. Len(<<>>) = 0 /\ <<>> \in Seq(Unit) /\ 0 < HeaderLen /\ errors' \in 0 .. MaxErrors
        BY <1>1, EmptySeq DEF IInv, TypeOK
    <2>2. room' \in Lengths \cup {0}
        <3>1. ASSUME header_complete PROVE sent[header] \in Lengths
            <4>1. header \in 1 .. Len(sent)
                BY <3>1, <1>2, LenProperties DEF IInv, TypeOK
            <4> QED BY <4>1, <1>2, ElementOfSeq
        <3> QED BY <3>1, <1>1 DEF IInv, TypeOK
    <2> QED BY <1>1, <2>1, <2>2 DEF IInv, TypeOK
<1>6. Rest # <<>> => Rest[1][1] > Last
    <2>1. CASE header_complete
        <3>1. Rest[1] = <<header, HeaderLen + 1>> /\ header > Last
            BY <2>1, <1>1 DEF IInv, HeaderInv, OrderInv
        <3> QED BY <3>1
    <2>2. CASE ~header_complete
        BY <2>2 DEF IInv, OrderInv
    <2> QED BY <2>1, <2>2
<1>7. Rest' # <<>> => Rest'[1][1] > Last
    <2> SUFFICES ASSUME r # <<>> PROVE r[1][1] > Last
        BY <1>3
    <2>1. CASE part = <<>>
        <3>1. Rest = r
            BY <2>1, <1>3, ConcatEmptySeq DEF Cat
        <3> QED BY <3>1, <1>6
    <2>2. CASE part # <<>>
        <3>1. Rest # <<>> /\ Rest[1] = part[1]
            BY <2>2, <1>2, <1>3, First
        <3>2. Sorted(Cat(part, r))
            BY <1>3 DEF IInv
        <3>3. part[1][1] <= r[1][1]
            BY <2>2, <3>2, <1>2, Later
        <3>4. r[1] \in Unit /\ part[1] \in Unit
            BY <2>2, <1>2, Empty, ElementOfSeq
        <3>5. r[1][1] \in Int /\ part[1][1] \in Int /\ Last \in Int
            BY <3>4 DEF Unit, IInv, OrderInv
        <3> QED BY <3>1, <3>3, <3>5, <1>6
    <2> QED BY <2>1, <2>2
<1>8. OrderInv'
    <2>1. Faulty' /\ Last' = Last
        BY <1>1 DEF Faulty, Last, IInv, TypeOK
    <2> QED BY <2>1, <1>1, <1>7 DEF IInv, OrderInv
<1>9. HeaderInv'
    BY <1>1 DEF HeaderInv
<1>10. Intact'
    BY <1>1 DEF IInv, Intact, DataOf
<1> QED BY <1>4, <1>5, <1>8, <1>9, <1>10 DEF IInv

\* Nothing was sent at the beginning.
LEMMA InitIInv == Init => IInv
<1> SUFFICES ASSUME Init PROVE IInv
    OBVIOUS
<1>1. Len(<<>>) = 0 /\ <<>> \in Seq(Unit)
    BY EmptySeq
<1>2. Rest = <<>>
    <2>1. <<>> \o <<>> = <<>>
        BY <1>1, ConcatEmptySeq
    <2> QED BY <2>1 DEF Init, Rest, Cat
<1>3. TypeOK
    <2>1. /\ <<>> \in Seq(Lengths) /\ <<>> \in Seq([message : 1 .. MaxSent, data : Seq(Unit)])
          /\ 0 <= MaxSent /\ 0 < HeaderLen /\ 0 \in 0 .. MaxErrors /\ 0 \in 0 .. 0
        BY EmptySeq
    <2> QED BY <1>1, <2>1 DEF Init, TypeOK
<1>4. Continuous(Rest, sent) /\ Sorted(Rest)
    BY <1>1, <1>2 DEF Continuous, Sorted
<1>5. HeaderInv /\ OrderInv /\ Intact
    BY <1>1, <1>2 DEF Init, HeaderInv, OrderInv, Intact, Last
<1> QED BY <1>3, <1>4, <1>5 DEF IInv

\* Every step keeps the invariant.
LEMMA NextIInv == IInv /\ [Next]_vars => IInv'
<1> SUFFICES ASSUME IInv, [Next]_vars PROVE IInv'
    OBVIOUS
<1>1. CASE \E length \in Lengths : SendMsg(length)
    BY <1>1, SendMsgStep
<1>2. CASE \E n \in 1 .. Len(wire) : Arrive(n)
    BY <1>2, ArriveStep
<1>3. CASE HandleMsg
    BY <1>3, HandleMsgStep
<1>4. CASE ReadHeader
    BY <1>4, ReadHeaderStep
<1>5. CASE ReadData
    BY <1>5, ReadDataStep
<1>6. CASE ReadError
    BY <1>6, ReadErrorStep
<1>7. CASE UNCHANGED vars
    <2>1. Rest' = Rest
        BY <1>7 DEF Rest
    <2>2. TypeOK'
        BY <1>7 DEF IInv, TypeOK
    <2> QED BY <1>7, <2>1, <2>2, SameRest
<1> QED BY <1>1, <1>2, <1>3, <1>4, <1>5, <1>6, <1>7 DEF Next

\* The invariant holds in every behaviour.
LEMMA Invariance == Spec => []IInv
BY InitIInv, NextIInv, PTL DEF Spec

\* The static variables of handleMsg keep their types: a partial header is
\* shorter than a header, and partial data is shorter than what its header says.
THEOREM StaticsTyped == Spec => []TypeOK
<1>1. IInv => TypeOK
    BY DEF IInv
<1> QED BY <1>1, Invariance, PTL

\* packetReady only ever announces messages that were sent, with their data,
\* whatever pieces arrive and wherever reads fail.
THEOREM OnlyWholeMessages == Spec => []Intact
<1>1. IInv => Intact
    BY DEF IInv
<1> QED BY <1>1, Invariance, PTL

-----------------------------------------------------------------------------
\* The messages after the a-th, up to the b-th.
From(a, b) == [i \in 1 .. b - a |-> a + i]

\* There are b - a of them.
LEMMA FromFacts ==
    ASSUME NEW b \in Nat, NEW a \in 0 .. b
    PROVE  /\ From(a, b) \in Seq(Nat) /\ Len(From(a, b)) = b - a /\ b - a \in Nat
           /\ \A i \in 1 .. b - a : From(a, b)[i] = a + i
<1>1. b - a \in Nat /\ a \in Nat
    OBVIOUS
<1> QED BY <1>1 DEF From

\* One more at the end.
LEMMA FromGrows ==
    ASSUME NEW b \in Nat, NEW a \in 0 .. b
    PROVE  From(a, b + 1) = Append(From(a, b), b + 1)
<1>1. b + 1 \in Nat /\ a \in 0 .. b + 1 /\ a \in Int
    OBVIOUS
<1>2. PICK s \in Seq(Nat) : s = From(a, b) /\ Len(s) = b - a /\ \A i \in 1 .. b - a : s[i] = a + i
    BY FromFacts
<1>3. PICK t \in Seq(Nat) : t = From(a, b + 1) /\ Len(t) = b + 1 - a
                            /\ \A i \in 1 .. b + 1 - a : t[i] = a + i
    <2>1. PICK e \in Nat : e = b + 1 /\ a \in 0 .. e
        BY <1>1
    <2>2. From(a, e) \in Seq(Nat) /\ Len(From(a, e)) = e - a
          /\ \A i \in 1 .. e - a : From(a, e)[i] = a + i
        BY <2>1, FromFacts
    <2> QED BY <2>1, <2>2
<1>4. PICK u \in Seq(Nat) : u = Append(s, b + 1)
    BY <1>1, AppendProperties
<1>5. Len(u) = Len(s) + 1 /\ u[Len(s) + 1] = b + 1 /\ \A i \in 1 .. Len(s) : u[i] = s[i]
    BY <1>1, <1>4, AppendProperties
<1>6. PICK n \in Nat : n = b - a /\ b + 1 - a = n + 1 /\ a + (n + 1) = b + 1
    BY <1>1
<1>7. ASSUME NEW i \in 1 .. n + 1 PROVE t[i] = u[i]
    <2>1. CASE i = n + 1
        BY <2>1, <1>2, <1>3, <1>5, <1>6
    <2>2. CASE i \in 1 .. n
        BY <2>2, <1>2, <1>3, <1>5, <1>6
    <2> QED BY <2>1, <2>2, <1>6
<1>8. Len(t) = n + 1 /\ Len(u) = n + 1
    BY <1>2, <1>3, <1>5, <1>6
<1>9. t = u
    BY <1>7, <1>8, SeqEqual
<1> QED BY <1>2, <1>3, <1>4, <1>9

\* A part of a sequence of numbers.
LEMMA PartFacts ==
    ASSUME NEW s, NEW e \in Int, NEW n \in Int, \A i \in e .. n : s[i] \in Nat
    PROVE  /\ SubSeq(s, e, n) \in Seq(Nat)
           /\ Len(SubSeq(s, e, n)) = (IF e <= n THEN n - e + 1 ELSE 0)
           /\ \A i \in 1 .. n - e + 1 : SubSeq(s, e, n)[i] = s[e + i - 1]
BY SubSeqProperties

\* Those before c are gone, and c.
LEMMA FromShrinks ==
    ASSUME NEW b \in Nat, NEW a \in 0 .. b, NEW c \in a + 1 .. b
    PROVE  /\ c - a \in 1 .. Len(From(a, b)) /\ From(a, b)[c - a] = c
           /\ From(c, b) = SubSeq(From(a, b), c - a + 1, Len(From(a, b)))
<1>1. a \in Int /\ b \in Int /\ c \in 0 .. b /\ a >= 0 /\ a + 1 <= c /\ c <= b
    OBVIOUS
<1>2. PICK d \in Nat, n \in Nat : d = c - a /\ n = b - a
    BY <1>1
<1>3. a + d = c /\ d \in 1 .. n /\ n - d = b - c /\ n - (d + 1) + 1 = b - c /\ b - c \in Nat
    BY <1>1, <1>2
<1>4. PICK s \in Seq(Nat) : s = From(a, b) /\ Len(s) = n /\ \A i \in 1 .. n : s[i] = a + i
    BY <1>2, FromFacts
<1>5. s[d] = c
    BY <1>3, <1>4
<1>6. PICK t \in Seq(Nat) : t = From(c, b) /\ Len(t) = b - c /\ \A i \in 1 .. b - c : t[i] = c + i
    BY <1>1, FromFacts
<1>7. \A i \in d + 1 .. n : s[i] \in Nat
    BY <1>3, <1>4, ElementOfSeq
<1>8. PICK u \in Seq(Nat) : /\ u = SubSeq(s, d + 1, n)
                           /\ Len(u) = b - c /\ \A i \in 1 .. b - c : u[i] = s[d + 1 + i - 1]
    <2>1. PICK e \in Int : e = d + 1
        OBVIOUS
    <2>2. n \in Int /\ \A i \in e .. n : s[i] \in Nat
        BY <1>7, <2>1
    <2>3. /\ SubSeq(s, e, n) \in Seq(Nat)
          /\ Len(SubSeq(s, e, n)) = (IF e <= n THEN n - e + 1 ELSE 0)
          /\ \A i \in 1 .. n - e + 1 : SubSeq(s, e, n)[i] = s[e + i - 1]
        BY <2>1, <2>2, PartFacts
    <2>4. n - e + 1 = b - c /\ (e <= n \/ b - c = 0)
        <3>1. n \in Int /\ d \in Int /\ d <= n /\ n - d = b - c
            BY <1>3
        <3>2. e <= n \/ n = d
            BY <3>1, <2>1
        <3> QED BY <3>1, <3>2, <2>1
    <2> QED BY <2>1, <2>3, <2>4
<1>9. ASSUME NEW i \in 1 .. b - c PROVE t[i] = u[i]
    <2>1. d + 1 + i - 1 = d + i /\ d + i \in 1 .. n /\ a + (d + i) = c + i
        <3>1. a \in Int /\ b \in Int /\ c \in Int /\ i \in Int /\ 1 <= i /\ i <= b - c
            BY <1>1
        <3>2. d \in Int /\ n \in Int /\ a + d = c /\ n - d = b - c /\ 1 <= d
            BY <1>3
        <3> QED BY <3>1, <3>2
    <2>2. s[d + i] = c + i
        BY <2>1, <1>4
    <2> QED BY <2>1, <2>2, <1>6, <1>8
<1>10. t = u
    BY <1>6, <1>8, <1>9, SeqEqual
<1> QED BY <1>2, <1>3, <1>4, <1>5, <1>6, <1>8, <1>10

\* What the stream of messages is, in terms of From.
LEMMA Hidden ==
    ASSUME UNCHANGED <<sent, received>>, Faulty' <=> Faulty
    PROVE  UNCHANGED Stream!vars
<1>1. Faulty' = Faulty
    BY Zenon
<1>2. Last' = Last
    BY DEF Last
<1> QED BY <1>1, <1>2 DEF Stream!vars

\* sendMsg adds a message to the stream.
LEMMA SendMsgSends ==
    ASSUME IInv, NEW length \in Lengths, SendMsg(length)
    PROVE  \E m \in 1 .. MaxSent : Stream!Send(m)
<1>1. /\ sent \in Seq(Lengths) /\ Len(sent) \in Nat /\ sent' = Append(sent, length)
      /\ received' = received /\ errors' = errors /\ Last \in 0 .. Len(sent)
    BY LenProperties DEF IInv, TypeOK, OrderInv, SendMsg
<1>2. /\ Len(sent') = Len(sent) + 1 /\ sent' \in Seq(Lengths)
      /\ \A n \in 1 .. Len(sent) : sent'[n] = sent[n]
    BY <1>1, Longer
<1>3. Last' = Last
    BY <1>1 DEF Last
<1>4. From(Last', Len(sent')) = Append(From(Last, Len(sent)), Len(sent) + 1)
    BY <1>1, <1>2, <1>3, FromGrows
<1>5. Faulty' \in {Faulty, TRUE}
    <2>1. DOMAIN sent = 1 .. Len(sent) /\ DOMAIN sent' = 1 .. Len(sent) + 1
        BY <1>1, <1>2, LenProperties
    <2>2. \A n \in DOMAIN sent : n \in DOMAIN sent' /\ sent'[n] = sent[n]
        BY <1>2, <2>1
    <2>3. Faulty => Faulty'
        BY <1>1, <2>2 DEF Faulty
    <2>4. Faulty' \in BOOLEAN /\ Faulty \in BOOLEAN
        BY DEF Faulty
    <2> QED BY <2>3, <2>4
<1>6. PICK m \in 1 .. MaxSent : m = Len(sent) + 1
    <2>1. Len(sent) < MaxSent
        BY DEF SendMsg
    <2> QED BY <2>1, <1>1
<1> QED BY <1>1, <1>4, <1>5, <1>6 DEF Stream!Send, From

\* packetReady takes its message from the stream; without faults it is the first.
LEMMA ReadDataReceives ==
    ASSUME IInv, ReadData, received' # received
    PROVE  \E n \in 1 .. Len(From(Last, Len(sent))) : Stream!Receive(n)
<1>1. /\ header_complete /\ UNCHANGED <<sent, errors>>
      /\ received' = Append(received, [message |-> header, data |-> Got(sent[header])])
    BY DEF ReadData
<1>2. PICK record : record = [message |-> header, data |-> Got(sent[header])]
    OBVIOUS
<1>3. /\ sent \in Seq(Lengths) /\ Len(sent) \in Nat /\ Last \in 0 .. Len(sent)
      /\ header \in Last + 1 .. Len(sent) /\ (~Faulty => header = Last + 1)
    <2>1. /\ sent \in Seq(Lengths) /\ header \in 0 .. Len(sent) /\ Last \in 0 .. Len(sent)
          /\ header > Last /\ (~Faulty => header = Last + 1)
        BY <1>1 DEF IInv, TypeOK, OrderInv
    <2>2. Len(sent) \in Nat
        BY <2>1, LenProperties
    <2>3. header \in Last + 1 .. Len(sent)
        <3>1. Last \in Int /\ header \in Int /\ header <= Len(sent)
            BY <2>1, <2>2
        <3> QED BY <3>1, <2>1, <2>2
    <2> QED BY <2>1, <2>2, <2>3
<1>4. /\ header - Last \in 1 .. Len(From(Last, Len(sent)))
      /\ From(Last, Len(sent))[header - Last] = header
      /\ From(header, Len(sent))
            = SubSeq(From(Last, Len(sent)), header - Last + 1, Len(From(Last, Len(sent))))
    BY <1>3, FromShrinks
<1>5. PICK n \in 1 .. Len(From(Last, Len(sent))) : n = header - Last
    BY <1>4
<1>6. n = 1 \/ Faulty
    BY <1>3, <1>5
<1>7. Faulty' = Faulty
    BY <1>1 DEF Faulty
<1>8. /\ received \in Seq([message : 1 .. MaxSent, data : Seq(Unit)]) /\ Len(received) \in Nat
      /\ received' = Append(received, record) /\ record.message = header
    BY <1>1, <1>2, LenProperties DEF IInv, TypeOK
<1>9. Last' = header
    BY <1>8 DEF Last
<1>10. [i \in DOMAIN received' |-> received'[i].message]
         = Append([i \in DOMAIN received |-> received[i].message], header)
    BY <1>8
<1> QED BY <1>1, <1>4, <1>5, <1>6, <1>7, <1>9, <1>10 DEF Stream!Receive, From

\* A step is a step of the stream or none.
LEMMA StepRefines == IInv /\ [Next]_vars => [Stream!Next]_(Stream!vars)
<1> SUFFICES ASSUME IInv, [Next]_vars PROVE Stream!Next \/ UNCHANGED Stream!vars
    OBVIOUS
<1>1. ASSUME NEW length \in Lengths, SendMsg(length) PROVE Stream!Next
    BY <1>1, SendMsgSends DEF Stream!Next
<1>2. ASSUME ReadData PROVE Stream!Next \/ UNCHANGED Stream!vars
    <2>1. CASE received' = received
        <3>1. UNCHANGED sent /\ (Faulty' <=> Faulty)
            <4>1. sent' = sent /\ errors' = errors
                BY <1>2 DEF ReadData
            <4> QED BY <4>1 DEF Faulty
        <3> QED BY <2>1, <3>1, Hidden
    <2>2. CASE received' # received
        BY <1>2, <2>2, ReadDataReceives DEF Stream!Next, From
    <2> QED BY <2>1, <2>2
<1>3. ASSUME ReadError PROVE Stream!Next
    <2>1. sent' = sent /\ received' = received /\ errors' = errors + 1 /\ errors \in Nat
        BY <1>3 DEF ReadError, IInv, TypeOK
    <2>2. Faulty' = TRUE /\ Last' = Last
        <3>1. errors' > 0
            BY <2>1
        <3> QED BY <2>1, <3>1 DEF Faulty, Last
    <2> QED BY <2>1, <2>2 DEF Stream!Next, Stream!Fail
<1>4. ASSUME \/ \E n \in 1 .. Len(wire) : Arrive(n)
             \/ HandleMsg \/ ReadHeader \/ UNCHANGED vars
      PROVE  UNCHANGED Stream!vars
    <2>1. UNCHANGED <<sent, received>> /\ (Faulty' <=> Faulty)
        BY <1>4 DEF Arrive, HandleMsg, ReadHeader, Faulty
    <2> QED BY <2>1, Hidden
<1> QED BY <1>1, <1>2, <1>3, <1>4 DEF Next

\* The stream is empty at the beginning.
LEMMA InitRefines == Init => Stream!Init
<1> SUFFICES ASSUME Init PROVE Stream!Init
    OBVIOUS
<1>1. sent = <<>> /\ received = <<>> /\ errors = 0 /\ Len(sent) = 0 /\ DOMAIN sent = {}
    BY DEF Init
<1>2. Last = 0 /\ Faulty = FALSE
    BY <1>1 DEF Last, Faulty
<1>3. /\ [i \in 1 .. Len(sent) - Last |-> Last + i] = <<>>
      /\ [i \in DOMAIN received |-> received[i].message] = <<>>
    BY <1>1, <1>2
<1> QED BY <1>2, <1>3 DEF Stream!Init

\* The socket promises a stream of messages: each is announced once and in the
\* order of sending, and none is skipped as long as no read failed and no length
\* was refused.
THEOREM SocketImplementsStream == Spec => ImplementsStream
<1>1. IInv /\ [Next]_vars => [Stream!Next]_(Stream!vars)
    BY StepRefines
<1> QED BY <1>1, InitRefines, Invariance, PTL DEF Spec, Stream!Spec, ImplementsStream

-----------------------------------------------------------------------------
\* What is received when nothing moves any more: the safety under AllReceived.

\* While no read failed and no length was refused, handleMsg leaves the socket empty
\* when it returns, and the messages come with the numbers 1, 2, 3, ...; a message
\* without data is announced before handleMsg returns.
DrainInv ==
    /\ header_complete /\ ~running => sent[header] > 0
    /\ ~Faulty =>
           /\ ~running /\ ~ready => socket = <<>>
           /\ \A i \in DOMAIN received : received[i].message = i

\* Nothing is on its way, no signal waits and handleMsg does not run.
Silent == wire = <<>> /\ ~ready /\ ~running

\* There is no part of a message left, and all messages were received in their order.
AllRead ==
    ~Faulty /\ Silent =>
        /\ part = <<>> /\ ~header_complete
        /\ [i \in DOMAIN received |-> received[i].message] = [i \in DOMAIN sent |-> i]

\* A block that is shorter than what was asked for is all that there was.
LEMMA Emptied ==
    ASSUME part \in Seq(Unit), socket \in Seq(Unit), NEW length \in Nat, ReadBlock(length),
           Len(part) <= length, Len(Got(length)) < length
    PROVE  socket' = <<>>
<1>1. Len(socket) \in Nat /\ Len(part) \in Nat
    BY LenProperties
<1>2. PICK a \in 0 .. Len(socket) :
          /\ a = Available(length)
          /\ a = IF length - Len(part) < Len(socket) THEN length - Len(part) ELSE Len(socket)
    BY <1>1 DEF Available, Missing
<1>3. SubSeq(socket, 1, a) \in Seq(Unit) /\ Len(SubSeq(socket, 1, a)) = a
    BY Cut
<1>4. Got(length) = Cat(part, SubSeq(socket, 1, a))
    BY <1>2 DEF Got, Cat
<1>5. Len(Got(length)) = Len(part) + a
    BY <1>3, <1>4, Concat
<1>6. a = Len(socket)
    BY <1>1, <1>2, <1>5
<1>7. socket' = SubSeq(socket, Len(socket) + 1, Len(socket))
    BY <1>2, <1>6 DEF ReadBlock
<1> QED BY <1>1, <1>7, SubSeqEmpty

\* A header is only refused when something went wrong.
LEMMA RefusedFaulty ==
    ASSUME IInv, ReadHeader, Len(Got(HeaderLen)) = HeaderLen, ~Accepted(Got(HeaderLen))
    PROVE  Faulty
<1> SUFFICES ASSUME ~Faulty PROVE FALSE
    OBVIOUS
<1>1. /\ ~header_complete /\ ReadBlock(HeaderLen) /\ wire' = wire
      /\ HeaderLen \in Nat \ {0} /\ sent \in Seq(Lengths)
      /\ part \in Seq(Unit) /\ Len(part) < HeaderLen
    BY DEF ReadHeader, IInv, TypeOK
<1>2. Len(part) <= HeaderLen
    BY <1>1, LenProperties
<1>3. PICK g \in Seq(Unit), r \in Seq(Unit) : g = Got(HeaderLen) /\ Cat(g, r) = Rest
    BY <1>1, <1>2, Taken
<1>4. g # <<>>
    BY <1>1, <1>3, Empty
<1>5. Rest # <<>> /\ Rest[1] = g[1]
    BY <1>3, <1>4, First
<1>6. g[1] = <<Last + 1, 1>>
    BY <1>1, <1>5 DEF IInv, OrderInv
<1>7. Last + 1 \in 1 .. Len(sent)
    <2>1. 1 \in 1 .. Len(Rest)
        BY <1>3, <1>5, Concat, Empty
    <2>2. Rest[1][1] \in 1 .. Len(sent)
        BY <2>1 DEF IInv, Continuous
    <2> QED BY <2>2, <1>5, <1>6
<1>8. sent[Last + 1] > MaxDataLength
    <2>1. sent[Last + 1] \in Nat
        BY <1>1, <1>7, ElementOfSeq
    <2>2. ~(sent[Last + 1] <= MaxDataLength)
        BY <1>3, <1>6 DEF Accepted
    <2> QED BY <2>1, <2>2
<1>9. Last + 1 \in DOMAIN sent
    BY <1>1, <1>7, LenProperties
<1> QED BY <1>8, <1>9 DEF Faulty

\* Every step keeps the socket drained.
LEMMA NextDrain == IInv /\ DrainInv /\ [Next]_vars => DrainInv'
<1> SUFFICES ASSUME IInv, DrainInv, [Next]_vars PROVE DrainInv'
    OBVIOUS
<1>1. /\ sent \in Seq(Lengths) /\ Len(sent) \in Nat /\ header \in 0 .. Len(sent)
      /\ header_complete => header \in 1 .. Len(sent) /\ sent[header] \in Nat
      /\ part \in Seq(Unit) /\ socket \in Seq(Unit)
    <2>1. sent \in Seq(Lengths) /\ header \in 0 .. Len(sent) /\ (header_complete => header # 0)
        BY DEF IInv, TypeOK
    <2>2. Len(sent) \in Nat
        BY <2>1, LenProperties
    <2>3. header_complete => header \in 1 .. Len(sent)
        BY <2>1, <2>2
    <2> QED BY <2>1, <2>2, <2>3, ElementOfSeq DEF IInv, TypeOK
<1>2. ASSUME NEW length \in Lengths, SendMsg(length) PROVE DrainInv'
    <2>1. /\ sent' = Append(sent, length)
          /\ UNCHANGED <<socket, ready, running, header_complete, header, received, errors>>
        BY <1>2 DEF SendMsg
    <2>2. \A n \in 1 .. Len(sent) : sent'[n] = sent[n]
        BY <1>1, <2>1, Longer
    <2>3. Faulty => Faulty'
        <3>1. DOMAIN sent = 1 .. Len(sent) /\ DOMAIN sent' = 1 .. Len(sent) + 1
            BY <1>1, <2>1, Longer, LenProperties
        <3>2. \A n \in DOMAIN sent : n \in DOMAIN sent' /\ sent'[n] = sent[n]
            BY <1>1, <2>2, <3>1
        <3> QED BY <2>1, <3>2 DEF Faulty
    <2> QED BY <1>1, <2>1, <2>2, <2>3 DEF DrainInv
<1>3. ASSUME NEW n \in 1 .. Len(wire), Arrive(n) PROVE DrainInv'
    BY <1>3 DEF Arrive, DrainInv, Faulty
<1>4. ASSUME HandleMsg PROVE DrainInv'
    BY <1>4 DEF HandleMsg, DrainInv, Faulty
<1>5. ASSUME ReadHeader PROVE DrainInv'
    <2>1. /\ running /\ UNCHANGED <<sent, received, errors>> /\ ReadBlock(HeaderLen)
          /\ HeaderLen \in Nat /\ Len(part) <= HeaderLen
        <3>1. ~header_complete
            BY <1>5 DEF ReadHeader
        <3>2. Len(part) < HeaderLen /\ Len(part) \in Nat /\ HeaderLen \in Nat
            BY <3>1, <1>1, LenProperties DEF IInv, TypeOK
        <3> QED BY <3>2, <1>5 DEF ReadHeader
    <2>2. Faulty' <=> Faulty
        BY <2>1 DEF Faulty
    <2>3. CASE Len(Got(HeaderLen)) = HeaderLen /\ Accepted(Got(HeaderLen))
        <3>1. running' = running
            BY <1>5, <2>3 DEF ReadHeader
        <3> QED BY <3>1, <2>1, <2>2 DEF DrainInv
    <2>4. CASE Len(Got(HeaderLen)) = HeaderLen /\ ~Accepted(Got(HeaderLen))
        <3>1. Faulty
            BY <1>5, <2>4, RefusedFaulty
        <3>2. header_complete' = FALSE
            BY <1>5, <2>4 DEF ReadHeader, IInv, TypeOK
        <3> QED BY <3>1, <3>2, <2>2 DEF DrainInv
    <2>5. CASE Len(Got(HeaderLen)) # HeaderLen
        <3>1. header_complete' = FALSE
            BY <1>5, <2>5 DEF ReadHeader, IInv, TypeOK
        <3>2. Len(Got(HeaderLen)) < HeaderLen
            <4>1. wire' = wire
                BY <1>5 DEF ReadHeader
            <4>2. Len(Got(HeaderLen)) \in Nat /\ Len(Got(HeaderLen)) <= HeaderLen
                BY <4>1, <2>1, Taken
            <4> QED BY <4>2, <2>1, <2>5
        <3>3. socket' = <<>>
            BY <1>1, <2>1, <3>2, Emptied
        <3> QED BY <3>1, <3>3, <2>1, <2>2 DEF DrainInv
    <2> QED BY <2>3, <2>4, <2>5
<1>6. ASSUME ReadData PROVE DrainInv'
    <2>1. /\ running /\ header_complete /\ UNCHANGED <<sent, header, errors>>
          /\ ReadBlock(sent[header]) /\ sent[header] \in Nat /\ header \in 1 .. Len(sent)
        BY <1>1, <1>6 DEF ReadData
    <2>2. Faulty' <=> Faulty
        BY <2>1 DEF Faulty
    <2>3. PICK length \in Nat : length = sent[header]
        BY <2>1
    <2>4. CASE Len(Got(length)) < length
        <3>1. header_complete' = header_complete /\ received' = received
            BY <1>6, <2>3, <2>4 DEF ReadData
        <3>2. length > 0 /\ Len(part) <= length
            <4>1. CASE length = 0
                <5>1. part = <<>> /\ wire' = wire
                    BY <4>1, <2>1, <2>3, <1>6 DEF IInv, HeaderInv, ReadData
                <5>2. Len(part) <= length
                    BY <5>1, <4>1, <1>1, Empty
                <5>3. Len(Got(length)) \in Nat
                    BY <5>1, <5>2, <2>1, <2>3, Taken
                <5> QED BY <5>3, <4>1, <2>4
            <4>2. CASE length > 0
                <5>1. Len(part) < length /\ Len(part) \in Nat
                    BY <4>2, <2>1, <2>3, <1>1, LenProperties DEF IInv, TypeOK
                <5> QED BY <5>1, <4>2
            <4> QED BY <4>1, <4>2
        <3>3. socket' = <<>>
            BY <1>1, <2>1, <2>3, <2>4, <3>2, Emptied
        <3> QED BY <3>1, <3>2, <3>3, <2>1, <2>2, <2>3 DEF DrainInv
    <2>5. CASE ~(Len(Got(length)) < length)
        <3>1. PICK record : /\ received' = Append(received, record) /\ record.message = header
                            /\ header_complete' = FALSE /\ running' = running
            <4>1. /\ received' = Append(received, [message |-> header, data |-> Got(length)])
                  /\ header_complete' = FALSE /\ running' = running
                BY <1>6, <2>3, <2>5 DEF ReadData
            <4> QED BY <4>1
        <3>2. received \in Seq([message : 1 .. MaxSent, data : Seq(Unit)]) /\ Len(received) \in Nat
            BY LenProperties DEF IInv, TypeOK
        <3>3. ASSUME ~Faulty, NEW i \in DOMAIN received' PROVE received'[i].message = i
            <4>1. /\ Len(received') = Len(received) + 1 /\ DOMAIN received' = 1 .. Len(received) + 1
                  /\ DOMAIN received = 1 .. Len(received)
                  /\ received'[Len(received) + 1] = record
                  /\ \A k \in 1 .. Len(received) : received'[k] = received[k]
                BY <3>1, <3>2
            <4>2. CASE i \in 1 .. Len(received)
                BY <4>1, <4>2, <3>3 DEF DrainInv
            <4>3. CASE i = Len(received) + 1
                <5>1. header = Last + 1
                    BY <2>1, <3>3 DEF IInv, OrderInv
                <5>2. Last = Len(received)
                    <6>1. CASE received = <<>>
                        BY <6>1 DEF Last
                    <6>2. CASE received # <<>>
                        <7>1. Len(received) \in DOMAIN received
                            BY <6>2, <3>2, <4>1
                        <7> QED BY <6>2, <7>1, <3>3 DEF DrainInv, Last
                    <6> QED BY <6>1, <6>2
                <5> QED BY <5>1, <5>2, <4>1, <4>3, <3>1
            <4> QED BY <3>2, <4>1, <4>2, <4>3
        <3> QED BY <3>1, <3>3, <2>1, <2>2 DEF DrainInv
    <2> QED BY <2>4, <2>5
<1>7. ASSUME ReadError PROVE DrainInv'
    <2>1. errors' > 0 /\ header_complete' = FALSE
        BY <1>7 DEF ReadError, IInv, TypeOK
    <2> QED BY <2>1 DEF DrainInv, Faulty
<1>8. ASSUME UNCHANGED vars PROVE DrainInv'
    BY <1>8 DEF DrainInv, Faulty
<1> QED BY <1>2, <1>3, <1>4, <1>5, <1>6, <1>7, <1>8 DEF Next

\* When nothing moves there is nothing left to come: a part of a message would be
\* followed by the other part.
LEMMA SilentRest == ASSUME IInv, DrainInv, ~Faulty, Silent PROVE Rest = <<>> /\ part = <<>>
<1>1. part \in Seq(Unit) /\ socket = <<>> /\ wire = <<>> /\ sent \in Seq(Lengths)
    BY DEF IInv, TypeOK, DrainInv, Silent
<1>2. Rest = part
    BY <1>1, ConcatEmptySeq DEF Rest, Cat
<1> SUFFICES ASSUME part # <<>> PROVE FALSE
    BY <1>2
<1>3. PICK n, k : /\ part[1] = <<n, k>>
                  /\ IF header_complete THEN n = header /\ k = HeaderLen + 1 ELSE k = 1
    <2>1. CASE header_complete
        <3>1. sent[header] > 0
            BY <2>1 DEF DrainInv, Silent
        <3>2. part[1] = <<header, HeaderLen + 1>>
            BY <2>1, <3>1, <1>2 DEF IInv, HeaderInv
        <3> QED BY <2>1, <3>2
    <2>2. CASE ~header_complete
        <3>1. part[1] = <<Last + 1, 1>>
            BY <2>2, <1>2 DEF IInv, OrderInv
        <3> QED BY <2>2, <3>1
    <2> QED BY <2>1, <2>2
<1>4. Len(part) \in Nat /\ 1 \in 1 .. Len(part)
    BY <1>1, Empty, LenProperties
<1>5. /\ n \in 1 .. Len(sent) /\ k \in 1 .. HeaderLen + sent[n]
      /\ \A d \in 0 .. HeaderLen + sent[n] - k : 1 + d <= Len(part)
    <2>1. Continuous(part, sent)
        BY <1>2 DEF IInv
    <2>2. part[1][1] = n /\ part[1][2] = k
        BY <1>3
    <2> QED BY <1>4, <2>1, <2>2 DEF Continuous
<1>6. sent[n] \in Nat /\ HeaderLen \in Nat /\ HeaderLen > 0
    <2>1. sent[n] \in Lengths
        BY <1>1, <1>5, ElementOfSeq
    <2>2. Lengths \subseteq Nat /\ HeaderLen \in Nat \ {0}
        BY LengthAssumption
    <2>3. HeaderLen > 0
        BY <2>2
    <2> QED BY <2>1, <2>2, <2>3
<1>7. 1 + (HeaderLen + sent[n] - k) <= Len(part)
    BY <1>5, <1>6
<1>8. CASE header_complete
    <2>1. sent[n] > 0 /\ k = HeaderLen + 1 /\ header = n
        BY <1>3, <1>8 DEF DrainInv, Silent
    <2>2. Len(part) < sent[n]
        BY <1>8, <2>1 DEF IInv, TypeOK
    <2> QED BY <1>4, <1>6, <1>7, <2>1, <2>2
<1>9. CASE ~header_complete
    <2>1. Len(part) < HeaderLen /\ k = 1
        BY <1>3, <1>9 DEF IInv, TypeOK
    <2> QED BY <1>4, <1>6, <1>7, <2>1
<1> QED BY <1>8, <1>9

\* Whoever sees a silent socket has received everything.
LEMMA SilentRead == ASSUME IInv, DrainInv PROVE AllRead
<1> SUFFICES ASSUME ~Faulty, Silent
             PROVE  /\ part = <<>> /\ ~header_complete
                    /\ [i \in DOMAIN received |-> received[i].message] = [i \in DOMAIN sent |-> i]
    BY DEF AllRead
<1>1. Rest = <<>> /\ part = <<>>
    BY SilentRest
<1>2. ~header_complete
    BY <1>1 DEF IInv, HeaderInv, DrainInv, Silent
<1>3. Last = Len(sent)
    BY <1>1, <1>2 DEF IInv, OrderInv
<1>4. received \in Seq([message : 1 .. MaxSent, data : Seq(Unit)]) /\ sent \in Seq(Lengths)
    BY DEF IInv, TypeOK
<1>5. DOMAIN received = 1 .. Len(received) /\ Len(received) \in Nat /\ DOMAIN sent = 1 .. Len(sent)
    BY <1>4, LenProperties
<1>6. Last = Len(received)
    <2>1. CASE received = <<>>
        BY <2>1 DEF Last
    <2>2. CASE received # <<>>
        <3>1. Len(received) \in DOMAIN received
            BY <2>2, <1>4, <1>5, Empty
        <3> QED BY <2>2, <3>1 DEF DrainInv, Last
    <2> QED BY <2>1, <2>2
<1>7. \A i \in DOMAIN received : received[i].message = i
    BY DEF DrainInv
<1> QED BY <1>1, <1>2, <1>3, <1>5, <1>6, <1>7

\* readyRead is emitted once for what arrived meanwhile: handleMsg that reads on until
\* the socket is empty leaves no message in it, of any length and in any pieces.  When
\* nothing is on its way, no signal waits and handleMsg has returned, every message was
\* received, unless a read failed or a length was refused.
THEOREM NothingLeftBehind == Spec => []AllRead
<1>1. Init => DrainInv
    BY DEF Init, DrainInv
<1>2. IInv /\ DrainInv => AllRead
    BY SilentRead
<1> QED BY <1>1, <1>2, Invariance, NextDrain, PTL DEF Spec
=============================================================================
