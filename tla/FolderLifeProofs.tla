--------------------------- MODULE FolderLifeProofs ---------------------------
(***************************************************************************)
(* The safety of FolderLife for any number of threads, calls, messages and *)
(* changes that camel finds.                                               *)
(*                                                                         *)
(* What a thread still owes is read off the labels that it is at and       *)
(* returns to: every one of them gives a reason, takes one, or releases    *)
(* folder_lock.  The count is the owners' reasons and the threads'.        *)
(***************************************************************************)
EXTENDS FolderLife, SequenceTheorems, FiniteSetTheorems, TLAPS

\* Where a thread goes when it has done its work: to its end, or to the end of an
\* item of the queue.
Free == <<"free">>
Item == Cons("unlock", Cons("served", Free))
Bottoms == {Free, Item}

\* What is left of refresh and set_flag, and of sync, after the reason.
Tells == Cons("post", Free)
SyncTells == Cons("post", Cons("unreason", Cons("unlock", Free)))

\* Where camel returns to, after a call or in its own thread.
CallRests ==
    {Cons("get_list", b) : b \in Bottoms}
    \cup {Item, Cons("unlock", Cons("reason", Tells)), Cons("reason", Cons("reason", SyncTells))}
Rests == CallRests \cup {Free}

\* A thread at a may return to q.
Fits(a, q) ==
    \/ a = "free" /\ q = <<>>
    \/ /\ a \in {"reason", "reason_set"}
       /\ \/ \E b \in Bottoms : q \in {Cons("camel", Cons("get_list", b)), Cons("get_each", b)}
          \/ q \in {Tells, Cons("reason", SyncTells), SyncTells,
                    Cons("launch_refresh", Free), Cons("launch_headers", Free)}
          \/ \E r \in Rests :
                q \in {Cons("changed_unlock", r), Cons("post", Cons("changed_restore", r))}
    \/ /\ a \in {"unreason", "unreason_set", "unreason_test", "unload"}
       /\ q \in {Free, Cons("unreason", Free)} \cup {Cons("unlock", b) : b \in Bottoms}
    \/ /\ a = "post"
       /\ \/ q \in {Free, Cons("unreason", Cons("unlock", Free))}
          \/ \E r \in Rests : q = Cons("changed_restore", r)
    \/ a \in {"launch_refresh", "launch_headers", "refresh", "sync", "served"} /\ q = Free
    \/ a = "set_flag" /\ q = Cons("reason", Tells)
    \/ a \in {"get_headers", "get_list", "get_each"} /\ q \in Bottoms
    \/ a = "unlock" /\ q \in Bottoms \cup {Cons("served", Free), Cons("reason", Tells)}
    \/ a = "refresh_item" /\ q = Item
    \/ a = "camel" /\ q \in CallRests
    \/ /\ a \in {"changed", "changed_try", "changed_unlock", "changed_kill", "changed_restore"}
       /\ q \in Rests

FrameInv == \A t \in Threads : Fits(pc[t], stack[t])

\* How many labels of a thread are in S.
Count(S, q) == Cardinality({i \in 1 .. Len(q) : q[i] \in S})
At(S, t) == Count(S, Cons(pc[t], stack[t]))
In(a, S) == IF a \in S THEN 1 ELSE 0

\* Types of where the threads are.
PlaceType == pc \in [Threads -> Labels] /\ stack \in [Threads -> Seq(Labels)]

\* Thread t goes to a and will return to q; the others stay where they are.
Place(t, a, q) ==
    /\ pc' = [pc EXCEPT ![t] = a]
    /\ stack' = [stack EXCEPT ![t] = q]
Stays(t) == \A u \in Threads \ {t} : pc'[u] = pc[u] /\ stack'[u] = stack[u]

-----------------------------------------------------------------------------
\* Sequences of labels.

\* Cons puts one element first.
LEMMA ConsFacts ==
    ASSUME NEW S, NEW q \in Seq(S), NEW a \in S
    PROVE  /\ Cons(a, q) \in Seq(S) /\ Len(Cons(a, q)) = Len(q) + 1 /\ Len(q) \in Nat
           /\ Cons(a, q)[1] = a /\ \A i \in 1 .. Len(q) : Cons(a, q)[i + 1] = q[i]
           /\ Cons(a, q) # <<>> /\ Head(Cons(a, q)) = a /\ Tail(Cons(a, q)) = q
<1> DEFINE z == <<a>> \o q
<1>1. <<a>> \in Seq(S) /\ Len(<<a>>) = 1 /\ <<a>>[1] = a
    OBVIOUS
<1>2. Len(q) \in Nat
    BY LenProperties
<1>3. /\ z \in Seq(S) /\ Len(z) = 1 + Len(q)
      /\ \A i \in 1 .. 1 + Len(q) : z[i] = IF i <= 1 THEN <<a>>[i] ELSE q[i - 1]
    BY <1>1, ConcatProperties
<1>4. z[1] = a
    BY <1>1, <1>2, <1>3
<1>5. ASSUME NEW i \in 1 .. Len(q) PROVE z[i + 1] = q[i]
    <2>1. i + 1 \in 1 .. 1 + Len(q) /\ ~(i + 1 <= 1) /\ (i + 1) - 1 = i
        BY <1>2
    <2> QED BY <2>1, <1>3
<1> HIDE DEF z
<1>6. z # <<>>
    BY <1>2, <1>3, EmptySeq
<1>7. /\ Head(z) = z[1] /\ Tail(z) \in Seq(S) /\ Len(Tail(z)) = Len(z) - 1
      /\ \A i \in 1 .. Len(Tail(z)) : Tail(z)[i] = z[i + 1]
    BY <1>3, <1>6, HeadTailProperties
<1>8. Len(Tail(z)) = Len(q)
    BY <1>2, <1>3, <1>7
<1>9. \A i \in 1 .. Len(q) : Tail(z)[i] = q[i]
    BY <1>5, <1>7, <1>8
<1>10. Tail(z) = q
    BY <1>7, <1>8, <1>9, SeqEqual
<1> QED BY <1>2, <1>3, <1>4, <1>5, <1>6, <1>7, <1>10 DEF Cons, z

\* A sequence is its head and its tail.
LEMMA ConsHeadTail ==
    ASSUME NEW S, NEW q \in Seq(S), q # <<>>
    PROVE  Head(q) \in S /\ Tail(q) \in Seq(S) /\ q = Cons(Head(q), Tail(q))
<1> DEFINE z == Cons(Head(q), Tail(q))
<1>1. Len(q) \in Nat /\ Len(q) # 0
    BY EmptySeq, LenProperties
<1>2. /\ Head(q) \in S /\ Tail(q) \in Seq(S) /\ Len(Tail(q)) = Len(q) - 1
      /\ \A i \in 1 .. Len(Tail(q)) : Tail(q)[i] = q[i + 1]
    BY HeadTailProperties
<1>3. Head(q) = q[1]
    OBVIOUS
<1>4. /\ z \in Seq(S) /\ Len(z) = Len(Tail(q)) + 1 /\ z[1] = Head(q)
      /\ \A i \in 1 .. Len(Tail(q)) : z[i + 1] = Tail(q)[i]
    <2> DEFINE h == Head(q)
               r == Tail(q)
    <2>1. h \in S /\ r \in Seq(S)
        BY <1>2
    <2> HIDE DEF h, r
    <2>2. /\ Cons(h, r) \in Seq(S) /\ Len(Cons(h, r)) = Len(r) + 1 /\ Cons(h, r)[1] = h
          /\ \A i \in 1 .. Len(r) : Cons(h, r)[i + 1] = r[i]
        BY <2>1, ConsFacts
    <2> QED BY <2>2 DEF h, r
<1> HIDE DEF z
<1>5. Len(z) = Len(q)
    BY <1>1, <1>2, <1>4
<1>6. ASSUME NEW i \in 1 .. Len(q) PROVE z[i] = q[i]
    <2>1. CASE i = 1
        BY <2>1, <1>3, <1>4
    <2>2. CASE i # 1
        <3> DEFINE k == i - 1
        <3>1. k \in 1 .. Len(Tail(q)) /\ i = k + 1
            BY <2>2, <1>1, <1>2
        <3> QED BY <3>1, <1>2, <1>4
    <2> QED BY <2>1, <2>2
<1>7. z = q
    BY <1>4, <1>5, <1>6, SeqEqual
<1> QED BY <1>2, <1>7 DEF z

\* The empty sequence has no labels.
LEMMA CountEmpty == ASSUME NEW S PROVE Count(S, <<>>) = 0
<1>1. {i \in 1 .. Len(<<>>) : <<>>[i] \in S} = {}
    <2>1. Len(<<>>) = 0
        OBVIOUS
    <2> QED BY <2>1
<1> QED BY <1>1, FS_EmptySet DEF Count

\* The first label counts, or not, and then the others.
LEMMA CountCons ==
    ASSUME NEW q \in Seq(Labels), NEW a \in Labels, NEW S
    PROVE  Count(S, q) \in Nat /\ Count(S, Cons(a, q)) = In(a, S) + Count(S, q)
<1> DEFINE z == Cons(a, q)
           D == {i \in 1 .. Len(q) : q[i] \in S}
           E == {i \in 1 .. Len(z) : z[i] \in S}
           G == {i \in 2 .. Len(z) : z[i] \in S}
           f == [i \in D |-> i + 1]
<1>1. /\ z \in Seq(Labels) /\ Len(z) = Len(q) + 1 /\ Len(q) \in Nat
      /\ z[1] = a /\ \A i \in 1 .. Len(q) : z[i + 1] = q[i]
    BY ConsFacts
<1> HIDE DEF z
<1>2. IsFiniteSet(D)
    <2>1. D \in SUBSET (1 .. Len(q)) /\ IsFiniteSet(1 .. Len(q))
        BY <1>1, FS_Interval
    <2> QED BY <2>1, FS_Subset
<1>3. ExistsBijection(D, G)
    <2>1. f \in [D -> G]
        <3> SUFFICES ASSUME NEW i \in D PROVE i + 1 \in G
            OBVIOUS
        <3> QED BY <1>1
    <2>2. \A i, j \in D : f[i] = f[j] => i = j
        OBVIOUS
    <2>3. ASSUME NEW k \in G PROVE \E i \in D : f[i] = k
        <3> DEFINE i == k - 1
        <3>1. i \in 1 .. Len(q) /\ k = i + 1
            BY <1>1
        <3>2. i \in D
            BY <3>1, <1>1
        <3> QED BY <3>1, <3>2
    <2>4. f \in Bijection(D, G)
        BY <2>1, <2>2, <2>3 DEF Bijection, Injection, Surjection, IsInjective
    <2> QED BY <2>4 DEF ExistsBijection
<1>4. IsFiniteSet(G) /\ Cardinality(G) = Cardinality(D) /\ Cardinality(D) \in Nat
    BY <1>2, <1>3, FS_Bijection, FS_CardinalityType
<1>5. E = IF a \in S THEN G \cup {1} ELSE G
    BY <1>1
<1>6. 1 \notin G
    BY <1>1
<1> HIDE DEF D, E, G
<1>7. Cardinality(G \cup {1}) = Cardinality(G) + 1
    BY <1>4, <1>6, FS_AddElement
<1>8. Cardinality(E) = In(a, S) + Cardinality(D)
    <2>1. CASE a \in S
        BY <2>1, <1>4, <1>5, <1>7 DEF In
    <2>2. CASE a \notin S
        BY <2>2, <1>4, <1>5 DEF In
    <2> QED BY <2>1, <2>2
<1> QED BY <1>4, <1>8 DEF Count, z, D, E

\* Cons in front of a concatenation.
LEMMA ConsConcat ==
    ASSUME NEW p \in Seq(Labels), NEW q \in Seq(Labels), NEW a \in Labels
    PROVE  Cons(a, p) \o q = Cons(a, p \o q) /\ p \o q \in Seq(Labels)
<1>1. <<a>> \in Seq(Labels)
    OBVIOUS
<1>2. (<<a>> \o p) \o q = <<a>> \o (p \o q)
    BY <1>1, ConcatAssociative
<1>3. p \o q \in Seq(Labels)
    BY ConcatProperties
<1> QED BY <1>2, <1>3 DEF Cons

\* The labels that a call pushes, one by one.
LEMMA PushHead ==
    ASSUME NEW p \in Seq(Labels), p # <<>>, NEW q \in Seq(Labels)
    PROVE  p \o q = Cons(Head(p), Tail(p) \o q)
<1> DEFINE a == Head(p)
           r == Tail(p)
<1>1. a \in Labels /\ r \in Seq(Labels) /\ p = Cons(a, r)
    BY ConsHeadTail
<1> HIDE DEF a, r
<1>2. Cons(a, r) \o q = Cons(a, r \o q)
    BY <1>1, ConsConcat
<1> QED BY <1>1, <1>2 DEF a, r

\* One label pushed, and two, three and four.
LEMMA PushOne == ASSUME NEW q, NEW a PROVE <<a>> \o q = Cons(a, q)
BY DEF Cons

\* Two labels pushed are two Cons.
LEMMA PushTwo ==
    ASSUME NEW q \in Seq(Labels), NEW a \in Labels, NEW b \in Labels
    PROVE  <<a, b>> \o q = Cons(a, Cons(b, q))
<1> DEFINE p == <<a, b>>
<1>1. Head(p) = a /\ Tail(p) = <<b>>
    OBVIOUS
<1>2. p \in Seq(Labels) /\ p # <<>>
    OBVIOUS
<1> HIDE DEF p
<1>3. p \o q = Cons(a, <<b>> \o q)
    BY <1>1, <1>2, PushHead
<1>4. <<b>> \o q = Cons(b, q)
    BY PushOne
<1> QED BY <1>3, <1>4 DEF p

\* Three labels pushed are three Cons.
LEMMA PushThree ==
    ASSUME NEW q \in Seq(Labels), NEW a \in Labels, NEW b \in Labels, NEW c \in Labels
    PROVE  <<a, b, c>> \o q = Cons(a, Cons(b, Cons(c, q)))
<1> DEFINE p == <<a, b, c>>
<1>1. Head(p) = a /\ Tail(p) = <<b, c>>
    OBVIOUS
<1>2. p \in Seq(Labels) /\ p # <<>>
    OBVIOUS
<1> HIDE DEF p
<1>3. p \o q = Cons(a, <<b, c>> \o q)
    BY <1>1, <1>2, PushHead
<1>4. <<b, c>> \o q = Cons(b, Cons(c, q))
    BY PushTwo
<1> QED BY <1>3, <1>4 DEF p

\* Four labels pushed are four Cons.
LEMMA PushFour ==
    ASSUME NEW q \in Seq(Labels), NEW a \in Labels, NEW b \in Labels, NEW c \in Labels,
           NEW d \in Labels
    PROVE  <<a, b, c, d>> \o q = Cons(a, Cons(b, Cons(c, Cons(d, q))))
<1> DEFINE p == <<a, b, c, d>>
<1>1. Head(p) = a /\ Tail(p) = <<b, c, d>>
    OBVIOUS
<1>2. p \in Seq(Labels) /\ p # <<>>
    OBVIOUS
<1> HIDE DEF p
<1>3. p \o q = Cons(a, <<b, c, d>> \o q)
    BY <1>1, <1>2, PushHead
<1>4. <<b, c, d>> \o q = Cons(b, Cons(c, Cons(d, q)))
    BY PushThree
<1> QED BY <1>3, <1>4 DEF p

-----------------------------------------------------------------------------
\* Steps of a thread, and what they do to its labels.

\* A number of labels is a natural, and counts the one at which the thread is.
LEMMA AtFacts ==
    ASSUME PlaceType, NEW t \in Threads, NEW S
    PROVE  /\ At(S, t) \in Nat /\ Count(S, stack[t]) \in Nat /\ In(pc[t], S) \in 0 .. 1
           /\ At(S, t) = In(pc[t], S) + Count(S, stack[t])
<1>1. pc[t] \in Labels /\ stack[t] \in Seq(Labels)
    BY DEF PlaceType
<1> QED BY <1>1, CountCons DEF At, In

\* A step to a place.
LEMMA PlaceFacts ==
    ASSUME PlaceType, NEW t \in Threads, NEW a \in Labels, NEW q \in Seq(Labels), Place(t, a, q)
    PROVE  /\ PlaceType' /\ Stays(t) /\ pc'[t] = a /\ stack'[t] = q
           /\ \A S : At(S, t)' = In(a, S) + Count(S, q) /\ Count(S, q) \in Nat
<1>1. PlaceType' /\ Stays(t) /\ pc'[t] = a /\ stack'[t] = q
    BY DEF PlaceType, Place, Stays
<1> QED BY <1>1, CountCons DEF At

\* A step to a label that keeps the stack.
LEMMA GotoFacts ==
    ASSUME PlaceType, NEW t \in Threads, NEW b \in Labels, Goto(t, b)
    PROVE  /\ PlaceType' /\ Stays(t) /\ pc'[t] = b /\ stack'[t] = stack[t]
           /\ \A S : At(S, t)' = At(S, t) - In(pc[t], S) + In(b, S)
<1>1. Place(t, b, stack[t]) /\ stack[t] \in Seq(Labels)
    BY DEF PlaceType, Place, Goto
<1>2. /\ PlaceType' /\ Stays(t) /\ pc'[t] = b /\ stack'[t] = stack[t]
      /\ \A S : At(S, t)' = In(b, S) + Count(S, stack[t])
    BY <1>1, PlaceFacts
<1>3. ASSUME NEW S PROVE At(S, t)' = At(S, t) - In(pc[t], S) + In(b, S)
    <2>1. /\ At(S, t) \in Nat /\ Count(S, stack[t]) \in Nat /\ In(pc[t], S) \in 0 .. 1
          /\ At(S, t) = In(pc[t], S) + Count(S, stack[t])
        BY AtFacts
    <2>2. In(b, S) \in 0 .. 1 /\ At(S, t)' = In(b, S) + Count(S, stack[t])
        BY <1>2 DEF In
    <2> QED BY <2>1, <2>2
<1> QED BY <1>2, <1>3

\* A step to the label on top of the stack.
LEMMA ReturnFacts ==
    ASSUME PlaceType, NEW t \in Threads, stack[t] # <<>>, Return(t)
    PROVE  /\ PlaceType' /\ Stays(t) /\ pc'[t] = Head(stack[t]) /\ stack'[t] = Tail(stack[t])
           /\ \A S : At(S, t)' = At(S, t) - In(pc[t], S)
<1>1. stack[t] \in Seq(Labels)
    BY DEF PlaceType
<1> DEFINE a == Head(stack[t])
           q == Tail(stack[t])
<1>2. a \in Labels /\ q \in Seq(Labels) /\ stack[t] = Cons(a, q)
    BY <1>1, ConsHeadTail
<1>3. Place(t, a, q)
    BY DEF Return, Place
<1> HIDE DEF a, q
<1>4. /\ PlaceType' /\ Stays(t) /\ pc'[t] = a /\ stack'[t] = q
      /\ \A S : At(S, t)' = In(a, S) + Count(S, q)
    BY <1>2, <1>3, PlaceFacts
<1>5. ASSUME NEW S PROVE At(S, t)' = At(S, t) - In(pc[t], S)
    <2>1. /\ At(S, t) \in Nat /\ Count(S, stack[t]) \in Nat /\ In(pc[t], S) \in 0 .. 1
          /\ At(S, t) = In(pc[t], S) + Count(S, stack[t])
        BY AtFacts
    <2>2. Count(S, stack[t]) = In(a, S) + Count(S, q)
        BY <1>2, CountCons
    <2> QED BY <2>1, <2>2, <1>4
<1> QED BY <1>4, <1>5 DEF a, q

\* A call of two labels, one after the other.
LEMMA CallTwo ==
    ASSUME PlaceType, NEW t \in Threads, NEW a \in Labels, NEW b \in Labels,
           Call(t, <<a, b>>)
    PROVE  /\ PlaceType' /\ Stays(t) /\ pc'[t] = a
           /\ stack'[t] = Cons(b, stack[t])
           /\ \A S : At(S, t)' =
                 At(S, t) - In(pc[t], S) + In(a, S) + In(b, S)
<1> DEFINE p == <<a, b>>
           s == stack[t]
           q == Cons(b, s)
<1>1. Head(p) = a /\ Tail(p) = <<b>>
    OBVIOUS
<1>2. s \in Seq(Labels)
    BY DEF PlaceType
<1> HIDE DEF s
<1>3. <<b>> \o s = q
    BY <1>2, PushOne
<1>4. Place(t, a, <<b>> \o s)
    <2>1. pc' = [pc EXCEPT ![t] = Head(p)] /\ stack' = [stack EXCEPT ![t] = Tail(p) \o s]
        BY DEF Call, p, s
    <2> HIDE DEF p
    <2> QED BY <1>1, <2>1 DEF Place
<1>5. q \in Seq(Labels) /\ \A S : Count(S, q) = In(b, S) + Count(S, s)
    BY <1>2, ConsFacts, CountCons
<1> HIDE DEF q
<1>6. /\ PlaceType' /\ Stays(t) /\ pc'[t] = a /\ stack'[t] = q
      /\ \A S : At(S, t)' = In(a, S) + Count(S, q)
    BY <1>3, <1>4, <1>5, PlaceFacts
<1>7. ASSUME NEW S
      PROVE  At(S, t)' = At(S, t) - In(pc[t], S) + In(a, S) + In(b, S)
    <2>1. /\ At(S, t) \in Nat /\ Count(S, s) \in Nat /\ In(pc[t], S) \in 0 .. 1
          /\ At(S, t) = In(pc[t], S) + Count(S, s)
        BY AtFacts DEF s
    <2>2. In(a, S) \in 0 .. 1 /\ In(b, S) \in 0 .. 1
        BY DEF In
    <2>4. Count(S, q) = In(b, S) + Count(S, s)
        BY <1>5
    <2> QED BY <2>1, <2>2, <2>4, <1>6
<1> QED BY <1>6, <1>7 DEF q, s

\* A call of three labels.
LEMMA CallThree ==
    ASSUME PlaceType, NEW t \in Threads, NEW a \in Labels, NEW b \in Labels, NEW c \in Labels,
           Call(t, <<a, b, c>>)
    PROVE  /\ PlaceType' /\ Stays(t) /\ pc'[t] = a
           /\ stack'[t] = Cons(b, Cons(c, stack[t]))
           /\ \A S : At(S, t)' =
                 At(S, t) - In(pc[t], S) + In(a, S) + In(b, S) + In(c, S)
<1> DEFINE p == <<a, b, c>>
           s == stack[t]
           qc == Cons(c, s)
           q == Cons(b, qc)
<1>1. Head(p) = a /\ Tail(p) = <<b, c>>
    OBVIOUS
<1>2. s \in Seq(Labels)
    BY DEF PlaceType
<1> HIDE DEF s
<1>3. <<b, c>> \o s = q
    BY <1>2, PushTwo
<1>4. Place(t, a, <<b, c>> \o s)
    <2>1. pc' = [pc EXCEPT ![t] = Head(p)] /\ stack' = [stack EXCEPT ![t] = Tail(p) \o s]
        BY DEF Call, p, s
    <2> HIDE DEF p
    <2> QED BY <1>1, <2>1 DEF Place
<1>5. qc \in Seq(Labels) /\ \A S : Count(S, qc) = In(c, S) + Count(S, s)
    BY <1>2, ConsFacts, CountCons
<1> HIDE DEF qc
<1>6. q \in Seq(Labels) /\ \A S : Count(S, q) = In(b, S) + Count(S, qc)
    BY <1>5, ConsFacts, CountCons
<1> HIDE DEF q
<1>7. /\ PlaceType' /\ Stays(t) /\ pc'[t] = a /\ stack'[t] = q
      /\ \A S : At(S, t)' = In(a, S) + Count(S, q)
    BY <1>3, <1>4, <1>6, PlaceFacts
<1>8. ASSUME NEW S
      PROVE  At(S, t)' = At(S, t) - In(pc[t], S) + In(a, S) + In(b, S) + In(c, S)
    <2>1. /\ At(S, t) \in Nat /\ Count(S, s) \in Nat /\ In(pc[t], S) \in 0 .. 1
          /\ At(S, t) = In(pc[t], S) + Count(S, s)
        BY AtFacts DEF s
    <2>2. In(a, S) \in 0 .. 1 /\ In(b, S) \in 0 .. 1 /\ In(c, S) \in 0 .. 1
        BY DEF In
    <2>4. Count(S, qc) = In(c, S) + Count(S, s) /\ Count(S, q) = In(b, S) + Count(S, qc)
        BY <1>5, <1>6
    <2> QED BY <2>1, <2>2, <2>4, <1>7
<1> QED BY <1>7, <1>8 DEF qc, q, s

\* A call of four labels.
LEMMA CallFour ==
    ASSUME PlaceType, NEW t \in Threads, NEW a \in Labels, NEW b \in Labels, NEW c \in Labels,
           NEW d \in Labels, Call(t, <<a, b, c, d>>)
    PROVE  /\ PlaceType' /\ Stays(t) /\ pc'[t] = a
           /\ stack'[t] = Cons(b, Cons(c, Cons(d, stack[t])))
           /\ \A S : At(S, t)' =
                 At(S, t) - In(pc[t], S) + In(a, S) + In(b, S) + In(c, S) + In(d, S)
<1> DEFINE p == <<a, b, c, d>>
           s == stack[t]
           qd == Cons(d, s)
           qc == Cons(c, qd)
           q == Cons(b, qc)
<1>1. Head(p) = a /\ Tail(p) = <<b, c, d>>
    OBVIOUS
<1>2. s \in Seq(Labels)
    BY DEF PlaceType
<1> HIDE DEF s
<1>3. <<b, c, d>> \o s = q
    BY <1>2, PushThree
<1>4. Place(t, a, <<b, c, d>> \o s)
    <2>1. pc' = [pc EXCEPT ![t] = Head(p)] /\ stack' = [stack EXCEPT ![t] = Tail(p) \o s]
        BY DEF Call, p, s
    <2> HIDE DEF p
    <2> QED BY <1>1, <2>1 DEF Place
<1>5. qd \in Seq(Labels) /\ \A S : Count(S, qd) = In(d, S) + Count(S, s)
    BY <1>2, ConsFacts, CountCons
<1> HIDE DEF qd
<1>6. qc \in Seq(Labels) /\ \A S : Count(S, qc) = In(c, S) + Count(S, qd)
    BY <1>5, ConsFacts, CountCons
<1> HIDE DEF qc
<1>7. q \in Seq(Labels) /\ \A S : Count(S, q) = In(b, S) + Count(S, qc)
    BY <1>6, ConsFacts, CountCons
<1> HIDE DEF q
<1>8. /\ PlaceType' /\ Stays(t) /\ pc'[t] = a /\ stack'[t] = q
      /\ \A S : At(S, t)' = In(a, S) + Count(S, q)
    BY <1>3, <1>4, <1>7, PlaceFacts
<1>9. ASSUME NEW S
      PROVE  At(S, t)' = At(S, t) - In(pc[t], S) + In(a, S) + In(b, S) + In(c, S) + In(d, S)
    <2>1. /\ At(S, t) \in Nat /\ Count(S, s) \in Nat /\ In(pc[t], S) \in 0 .. 1
          /\ At(S, t) = In(pc[t], S) + Count(S, s)
        BY AtFacts DEF s
    <2>2. In(a, S) \in 0 .. 1 /\ In(b, S) \in 0 .. 1 /\ In(c, S) \in 0 .. 1
        BY DEF In
    <2>3. In(d, S) \in 0 .. 1
        BY DEF In
    <2>4. Count(S, qd) = In(d, S) + Count(S, s) /\ Count(S, qc) = In(c, S) + Count(S, qd)
        BY <1>5, <1>6, <1>7
    <2>5. /\ Count(S, q) = In(b, S) + Count(S, qc)
        BY <1>5, <1>6, <1>7
    <2> QED BY <2>1, <2>2, <2>3, <2>4, <2>5, <1>8
<1> QED BY <1>8, <1>9 DEF qd, qc, q, s

\* A call of six labels.
LEMMA CallSix ==
    ASSUME PlaceType, NEW t \in Threads, NEW a \in Labels, NEW b \in Labels, NEW c \in Labels,
           NEW d \in Labels, NEW e \in Labels, NEW f \in Labels,
           Call(t, <<a, b, c, d, e, f>>)
    PROVE  /\ PlaceType' /\ Stays(t) /\ pc'[t] = a
           /\ stack'[t] = Cons(b, Cons(c, Cons(d, Cons(e, Cons(f, stack[t])))))
           /\ \A S : At(S, t)' =
                 At(S, t) - In(pc[t], S) + In(a, S) + In(b, S) + In(c, S) + In(d, S) + In(e, S)
                 + In(f, S)
<1> DEFINE p == <<a, b, c, d, e, f>>
           s == stack[t]
           qf == Cons(f, s)
           qe == Cons(e, qf)
           qd == Cons(d, qe)
           qc == Cons(c, qd)
           q == Cons(b, qc)
<1>1. Head(p) = a /\ Tail(p) = <<b, c, d, e, f>>
    OBVIOUS
<1>2. s \in Seq(Labels)
    BY DEF PlaceType
<1> HIDE DEF s
<1>3. <<b, c, d, e, f>> \o s = q
    <2> DEFINE w == <<b, c, d, e, f>>
    <2>1. Head(w) = b /\ Tail(w) = <<c, d, e, f>>
        OBVIOUS
    <2>2. w \in Seq(Labels) /\ w # <<>>
        OBVIOUS
    <2> HIDE DEF w
    <2>3. w \o s = Cons(b, <<c, d, e, f>> \o s)
        BY <1>2, <2>1, <2>2, PushHead
    <2>4. <<c, d, e, f>> \o s = qc
        BY <1>2, PushFour
    <2> QED BY <2>3, <2>4 DEF w
<1>4. Place(t, a, <<b, c, d, e, f>> \o s)
    <2>1. pc' = [pc EXCEPT ![t] = Head(p)] /\ stack' = [stack EXCEPT ![t] = Tail(p) \o s]
        BY DEF Call, p, s
    <2> HIDE DEF p
    <2> QED BY <1>1, <2>1 DEF Place
<1>5. qf \in Seq(Labels) /\ \A S : Count(S, qf) = In(f, S) + Count(S, s)
    BY <1>2, ConsFacts, CountCons
<1> HIDE DEF qf
<1>6. qe \in Seq(Labels) /\ \A S : Count(S, qe) = In(e, S) + Count(S, qf)
    BY <1>5, ConsFacts, CountCons
<1> HIDE DEF qe
<1>7. qd \in Seq(Labels) /\ \A S : Count(S, qd) = In(d, S) + Count(S, qe)
    BY <1>6, ConsFacts, CountCons
<1> HIDE DEF qd
<1>8. qc \in Seq(Labels) /\ \A S : Count(S, qc) = In(c, S) + Count(S, qd)
    BY <1>7, ConsFacts, CountCons
<1> HIDE DEF qc
<1>9. q \in Seq(Labels) /\ \A S : Count(S, q) = In(b, S) + Count(S, qc)
    BY <1>8, ConsFacts, CountCons
<1> HIDE DEF q
<1>10. /\ PlaceType' /\ Stays(t) /\ pc'[t] = a /\ stack'[t] = q
      /\ \A S : At(S, t)' = In(a, S) + Count(S, q)
    BY <1>3, <1>4, <1>9, PlaceFacts
<1>11. ASSUME NEW S
      PROVE  At(S, t)' = At(S, t) - In(pc[t], S) + In(a, S) + In(b, S) + In(c, S) + In(d, S)
                         + In(e, S)
                 + In(f, S)
    <2>1. /\ At(S, t) \in Nat /\ Count(S, s) \in Nat /\ In(pc[t], S) \in 0 .. 1
          /\ At(S, t) = In(pc[t], S) + Count(S, s)
        BY AtFacts DEF s
    <2>2. In(a, S) \in 0 .. 1 /\ In(b, S) \in 0 .. 1 /\ In(c, S) \in 0 .. 1
        BY DEF In
    <2>3. In(d, S) \in 0 .. 1 /\ In(e, S) \in 0 .. 1 /\ In(f, S) \in 0 .. 1
        BY DEF In
    <2>4. Count(S, qf) = In(f, S) + Count(S, s) /\ Count(S, qe) = In(e, S) + Count(S, qf)
        BY <1>5, <1>6, <1>7, <1>8, <1>9
    <2>5. /\ Count(S, qd) = In(d, S) + Count(S, qe)
          /\ Count(S, qc) = In(c, S) + Count(S, qd)
          /\ Count(S, q) = In(b, S) + Count(S, qc)
        BY <1>5, <1>6, <1>7, <1>8, <1>9
    <2> QED BY <2>1, <2>2, <2>3, <2>4, <2>5, <1>10
<1> QED BY <1>10, <1>11 DEF qf, qe, qd, qc, q, s

-----------------------------------------------------------------------------
\* Where threads return to.

\* A label in front of labels.
LEMMA Label ==
    ASSUME NEW a \in Labels, NEW q \in Seq(Labels)
    PROVE  /\ Cons(a, q) \in Seq(Labels) /\ Cons(a, q) # <<>>
           /\ Head(Cons(a, q)) = a /\ Tail(Cons(a, q)) = q
           /\ \A S : Count(S, Cons(a, q)) = In(a, S) + Count(S, q) /\ Count(S, q) \in Nat
<1>1. /\ Cons(a, q) \in Seq(Labels) /\ Cons(a, q) # <<>>
      /\ Head(Cons(a, q)) = a /\ Tail(Cons(a, q)) = q
    BY ConsFacts, Zenon
<1>2. ASSUME NEW S PROVE Count(S, q) \in Nat /\ Count(S, Cons(a, q)) = In(a, S) + Count(S, q)
    BY CountCons
<1> QED BY <1>1, <1>2, Zenon

\* The ends of the threads, and what is left after a reason.
LEMMA EndFacts ==
    /\ Free \in Seq(Labels) /\ Free # <<>> /\ Head(Free) = "free" /\ Tail(Free) = <<>>
    /\ Cons("served", Free) \in Seq(Labels) /\ Item \in Seq(Labels) /\ Tells \in Seq(Labels)
    /\ Cons("unlock", Free) \in Seq(Labels)
    /\ Cons("unreason", Cons("unlock", Free)) \in Seq(Labels) /\ SyncTells \in Seq(Labels)
    /\ Cons("reason", Tells) \in Seq(Labels) /\ Cons("reason", SyncTells) \in Seq(Labels)
    /\ Bottoms \subseteq Seq(Labels)
    /\ \A S : /\ Count(S, Free) = In("free", S)
              /\ Count(S, Item) = In("unlock", S) + (In("served", S) + In("free", S))
              /\ Count(S, Tells) = In("post", S) + In("free", S)
              /\ Count(S, SyncTells) =
                    In("post", S) + (In("unreason", S) + (In("unlock", S) + In("free", S)))
<1>1. {"free", "served", "unlock", "post", "unreason", "reason"} \subseteq Labels
    BY DEF Labels
<1>2. <<>> \in Seq(Labels) /\ Free = Cons("free", <<>>)
    <2>1. <<"free">> \o <<>> = <<"free">>
        OBVIOUS
    <2> QED BY <2>1 DEF Free, Cons
<1>3. /\ Free \in Seq(Labels) /\ Free # <<>> /\ Head(Free) = "free" /\ Tail(Free) = <<>>
      /\ \A S : Count(S, Free) = In("free", S)
    <2>1. \A S : Count(S, <<>>) = 0 /\ In("free", S) \in 0 .. 1
        BY CountEmpty DEF In
    <2> DEFINE e == <<>>
    <2>2. e \in Seq(Labels) /\ "free" \in Labels /\ Free = Cons("free", e)
        BY <1>1, <1>2
    <2> HIDE DEF e
    <2>3. /\ Free \in Seq(Labels) /\ Free # <<>> /\ Head(Free) = "free" /\ Tail(Free) = e
          /\ \A S : Count(S, Free) = In("free", S) + Count(S, e)
        BY <2>2, Label
    <2> QED BY <2>1, <2>3 DEF e
<1>4. /\ Cons("served", Free) \in Seq(Labels)
      /\ \A S : Count(S, Cons("served", Free)) = In("served", S) + In("free", S)
    BY <1>1, <1>3, Label
<1>5. /\ Item \in Seq(Labels)
      /\ \A S : Count(S, Item) = In("unlock", S) + (In("served", S) + In("free", S))
    BY <1>1, <1>4, Label DEF Item
<1>6. Tells \in Seq(Labels) /\ \A S : Count(S, Tells) = In("post", S) + In("free", S)
    BY <1>1, <1>3, Label DEF Tells
<1>7. /\ Cons("unlock", Free) \in Seq(Labels)
      /\ \A S : Count(S, Cons("unlock", Free)) = In("unlock", S) + In("free", S)
    BY <1>1, <1>3, Label
<1>8. /\ Cons("unreason", Cons("unlock", Free)) \in Seq(Labels)
      /\ \A S : Count(S, Cons("unreason", Cons("unlock", Free))) =
            In("unreason", S) + (In("unlock", S) + In("free", S))
    BY <1>1, <1>7, Label
<1>9. /\ SyncTells \in Seq(Labels)
      /\ \A S : Count(S, SyncTells) =
            In("post", S) + (In("unreason", S) + (In("unlock", S) + In("free", S)))
    BY <1>1, <1>8, Label DEF SyncTells
<1>10. Cons("reason", Tells) \in Seq(Labels) /\ Cons("reason", SyncTells) \in Seq(Labels)
    BY <1>1, <1>6, <1>9, Label
<1> QED BY <1>3, <1>4, <1>5, <1>6, <1>7, <1>8, <1>9, <1>10 DEF Bottoms

\* The labels that camel returns to.
LEMMA RestFacts ==
    ASSUME NEW r \in Rests
    PROVE  /\ r \in Seq(Labels)
           /\ \/ r = Free
              \/ r = Item
              \/ \E b \in Bottoms : r = Cons("get_list", b)
              \/ r = Cons("unlock", Cons("reason", Tells))
              \/ r = Cons("reason", Cons("reason", SyncTells))
<1>1. {"get_list", "unlock", "reason"} \subseteq Labels
    BY DEF Labels
<1>2. \/ r = Free
      \/ r = Item
      \/ \E b \in Bottoms : r = Cons("get_list", b)
      \/ r = Cons("unlock", Cons("reason", Tells))
      \/ r = Cons("reason", Cons("reason", SyncTells))
    BY DEF Rests, CallRests
<1>3. Cons("unlock", Cons("reason", Tells)) \in Seq(Labels)
    BY <1>1, EndFacts, Label
<1>4. Cons("reason", Cons("reason", SyncTells)) \in Seq(Labels)
    BY <1>1, EndFacts, Label
<1>5. \A b \in Bottoms : Cons("get_list", b) \in Seq(Labels)
    BY <1>1, EndFacts, Label
<1> QED BY <1>2, <1>3, <1>4, <1>5, EndFacts

\* A place to return to: a label and what it returns to.
Back(q) == q \in Seq(Labels) /\ q # <<>> /\ Fits(Head(q), Tail(q))

\* A label that fits in front of a place makes a place.
LEMMA BackCons ==
    ASSUME NEW a \in Labels, NEW q \in Seq(Labels), Fits(a, q)
    PROVE  Back(Cons(a, q))
BY Label DEF Back

\* The ends are places to return to.
LEMMA BackEnds ==
    /\ Back(Free) /\ Back(Item) /\ Back(Tells) /\ Back(SyncTells)
    /\ Back(Cons("served", Free)) /\ Back(Cons("unreason", Free))
    /\ Back(Cons("launch_refresh", Free)) /\ Back(Cons("launch_headers", Free))
    /\ Back(Cons("unreason", Cons("unlock", Free)))
    /\ Back(Cons("reason", Tells)) /\ Back(Cons("reason", SyncTells))
    /\ \A b \in Bottoms : Back(b) /\ Back(Cons("unlock", b))
<1>1. {"free", "served", "unlock", "post", "unreason", "reason", "launch_refresh",
       "launch_headers"} \subseteq Labels
    BY DEF Labels
<1>2. Back(Free)
    <2>1. Fits("free", <<>>)
        BY DEF Fits
    <2> QED BY <2>1, EndFacts DEF Back
<1>3. Back(Cons("served", Free)) /\ Back(Cons("unreason", Free))
    <2>1. Fits("served", Free) /\ Fits("unreason", Free)
        BY DEF Fits
    <2> QED BY <2>1, <1>1, EndFacts, BackCons
<1>4. Back(Cons("launch_refresh", Free)) /\ Back(Cons("launch_headers", Free))
    <2>1. Fits("launch_refresh", Free) /\ Fits("launch_headers", Free)
        BY DEF Fits
    <2> QED BY <2>1, <1>1, EndFacts, BackCons
<1>5. Back(Item)
    <2>1. Fits("unlock", Cons("served", Free))
        BY DEF Fits
    <2> QED BY <2>1, <1>1, EndFacts, BackCons DEF Item
<1>6. Back(Tells)
    <2>1. Fits("post", Free)
        BY DEF Fits
    <2> QED BY <2>1, <1>1, EndFacts, BackCons DEF Tells
<1>7. Back(SyncTells)
    <2>1. Fits("post", Cons("unreason", Cons("unlock", Free)))
        BY DEF Fits
    <2> QED BY <2>1, <1>1, EndFacts, BackCons DEF SyncTells
<1>8. Back(Cons("unreason", Cons("unlock", Free)))
    <2>1. Fits("unreason", Cons("unlock", Free))
        BY DEF Fits, Bottoms
    <2> QED BY <2>1, <1>1, EndFacts, BackCons
<1>9. Back(Cons("reason", Tells)) /\ Back(Cons("reason", SyncTells))
    <2>1. Fits("reason", Tells) /\ Fits("reason", SyncTells)
        BY DEF Fits
    <2> QED BY <2>1, <1>1, EndFacts, BackCons
<1>10. ASSUME NEW b \in Bottoms PROVE Back(b) /\ Back(Cons("unlock", b))
    <2>1. Fits("unlock", b)
        BY DEF Fits
    <2>2. b \in Seq(Labels)
        BY EndFacts
    <2> QED BY <2>1, <2>2, <1>1, <1>2, <1>5, BackCons DEF Bottoms
<1> QED BY <1>2, <1>3, <1>4, <1>5, <1>6, <1>7, <1>8, <1>9, <1>10

\* What camel and folder_changed return to are places.
LEMMA BackRests ==
    /\ \A b \in Bottoms : /\ Back(Cons("get_list", b)) /\ Back(Cons("get_each", b))
                          /\ Back(Cons("camel", Cons("get_list", b)))
    /\ \A r \in Rests :
           /\ Back(r) /\ Back(Cons("changed_unlock", r)) /\ Back(Cons("changed_restore", r))
           /\ Back(Cons("post", Cons("changed_restore", r)))
<1>1. {"get_list", "get_each", "camel", "unlock", "reason", "post", "changed_unlock",
       "changed_restore"} \subseteq Labels
    BY DEF Labels
<1>2. ASSUME NEW b \in Bottoms
      PROVE  /\ Back(Cons("get_list", b)) /\ Back(Cons("get_each", b))
             /\ Back(Cons("camel", Cons("get_list", b)))
    <2>1. b \in Seq(Labels)
        BY EndFacts
    <2>2. Fits("get_list", b) /\ Fits("get_each", b)
        BY DEF Fits
    <2>3. Cons("get_list", b) \in Seq(Labels)
        BY <2>1, <1>1, Label
    <2>4. Fits("camel", Cons("get_list", b))
        BY DEF Fits, CallRests
    <2> QED BY <2>1, <2>2, <2>3, <2>4, <1>1, BackCons
<1>3. ASSUME NEW r \in Rests
      PROVE  /\ Back(r) /\ Back(Cons("changed_unlock", r)) /\ Back(Cons("changed_restore", r))
             /\ Back(Cons("post", Cons("changed_restore", r)))
    <2>1. r \in Seq(Labels)
        BY RestFacts
    <2>2. Back(r)
        <3>1. Fits("unlock", Cons("reason", Tells))
            BY DEF Fits
        <3>2. Fits("reason", Cons("reason", SyncTells))
            BY DEF Fits
        <3>3. Back(Cons("unlock", Cons("reason", Tells)))
            BY <3>1, <1>1, EndFacts, BackCons
        <3>4. Back(Cons("reason", Cons("reason", SyncTells)))
            BY <3>2, <1>1, EndFacts, BackCons
        <3> QED BY <3>3, <3>4, <1>2, BackEnds, RestFacts
    <2>3. Fits("changed_unlock", r) /\ Fits("changed_restore", r)
        BY DEF Fits
    <2>4. Cons("changed_restore", r) \in Seq(Labels)
        BY <2>1, <1>1, Label
    <2>5. Fits("post", Cons("changed_restore", r))
        BY DEF Fits
    <2> QED BY <2>1, <2>2, <2>3, <2>4, <2>5, <1>1, BackCons
<1> QED BY <1>2, <1>3

\* A thread that is under way has a place to return to.
LEMMA FitFacts ==
    ASSUME NEW a, NEW q, Fits(a, q)
    PROVE  /\ a \in Labels /\ q \in Seq(Labels)
           /\ IF a = "free" THEN q = <<>> ELSE Back(q)
<1>1. a \in Labels
    BY DEF Fits, Labels
<1>2. CASE a = "free"
    <2>1. q = <<>>
        BY <1>2 DEF Fits
    <2> QED BY <2>1, <1>1, <1>2
<1>3. CASE a \in {"reason", "reason_set"}
    <2>1. \/ \E b \in Bottoms : q \in {Cons("camel", Cons("get_list", b)), Cons("get_each", b)}
          \/ q \in {Tells, Cons("reason", SyncTells), SyncTells,
                    Cons("launch_refresh", Free), Cons("launch_headers", Free)}
          \/ \E r \in Rests :
                q \in {Cons("changed_unlock", r), Cons("post", Cons("changed_restore", r))}
        BY <1>3 DEF Fits
    <2>2. Back(q)
        BY <2>1, BackEnds, BackRests
    <2> QED BY <2>2, <1>1, <1>3 DEF Back
<1>4. CASE a \in {"unreason", "unreason_set", "unreason_test", "unload"}
    <2>1. q \in {Free, Cons("unreason", Free)} \cup {Cons("unlock", b) : b \in Bottoms}
        BY <1>4 DEF Fits
    <2>2. Back(q)
        BY <2>1, BackEnds
    <2> QED BY <2>2, <1>1, <1>4 DEF Back
<1>5. CASE a = "post"
    <2>1. \/ q \in {Free, Cons("unreason", Cons("unlock", Free))}
          \/ \E r \in Rests : q = Cons("changed_restore", r)
        BY <1>5 DEF Fits
    <2>2. Back(q)
        BY <2>1, BackEnds, BackRests
    <2> QED BY <2>2, <1>1, <1>5 DEF Back
<1>6. CASE a \in {"launch_refresh", "launch_headers", "refresh", "sync", "served"}
    <2>1. q = Free
        BY <1>6 DEF Fits
    <2> QED BY <2>1, <1>1, <1>6, BackEnds DEF Back
<1>7. CASE a \in {"set_flag", "get_headers", "get_list", "get_each", "refresh_item"}
    <2>1. q = Cons("reason", Tells) \/ q = Item \/ q \in Bottoms
        BY <1>7 DEF Fits
    <2> QED BY <2>1, <1>1, <1>7, BackEnds DEF Back
<1>8. CASE a = "unlock"
    <2>1. q \in Bottoms \cup {Cons("served", Free), Cons("reason", Tells)}
        BY <1>8 DEF Fits
    <2> QED BY <2>1, <1>1, <1>8, BackEnds DEF Back
<1>9. CASE a \in {"camel", "changed", "changed_try", "changed_unlock", "changed_kill",
                  "changed_restore"}
    <2>1. q \in Rests
        BY <1>9 DEF Fits, Rests
    <2> QED BY <2>1, <1>1, <1>9, BackRests DEF Back
<1> QED BY <1>2, <1>3, <1>4, <1>5, <1>6, <1>7, <1>8, <1>9 DEF Fits

-----------------------------------------------------------------------------
\* Types, and where the threads are.

Base == TypeOK /\ FrameInv

\* Thread t goes to a place that fits.
Moves(t) == PlaceType' /\ Stays(t) /\ Fits(pc'[t], stack'[t])

\* Thread t goes from a to b, or returns from a.
Went(t, a, b) ==
    /\ Moves(t) /\ pc[t] = a /\ pc'[t] = b /\ stack'[t] = stack[t]
    /\ \A S : At(S, t)' = At(S, t) - In(a, S) + In(b, S)
Returned(t, a) ==
    /\ Moves(t) /\ pc[t] = a /\ pc'[t] = Head(stack[t]) /\ stack'[t] = Tail(stack[t])
    /\ \A S : At(S, t)' = At(S, t) - In(a, S)

\* Thread t goes from a to b, which is not the reason of a header of a change.
Called(t, a, b) ==
    /\ Moves(t) /\ pc[t] = a /\ pc'[t] = b
    /\ b = "reason" => Head(stack'[t]) # "changed_unlock"

\* Where a thread is, as the invariants say.
LEMMA BasePlace ==
    ASSUME Base, NEW t \in Threads
    PROVE  /\ PlaceType /\ Fits(pc[t], stack[t]) /\ pc[t] \in Labels /\ stack[t] \in Seq(Labels)
           /\ IF pc[t] = "free" THEN stack[t] = <<>> ELSE Back(stack[t])
<1>1. PlaceType /\ Fits(pc[t], stack[t])
    BY DEF Base, TypeOK, PlaceType, FrameInv
<1> QED BY <1>1, FitFacts

\* A thread that returns.
LEMMA ReturnMoves ==
    ASSUME Base, NEW t \in Threads, pc[t] # "free", Return(t)
    PROVE  Returned(t, pc[t])
<1>1. PlaceType /\ Back(stack[t])
    BY BasePlace
<1>2. stack[t] # <<>> /\ Fits(Head(stack[t]), Tail(stack[t]))
    BY <1>1 DEF Back
<1> QED BY <1>1, <1>2, ReturnFacts DEF Moves, Returned

\* A thread that goes on.
Next2(a, b) ==
    \/ a = "reason" /\ b = "reason_set"
    \/ a = "unreason" /\ b = "unreason_set"
    \/ a = "unreason_set" /\ b = "unreason_test"
    \/ a = "unreason_test" /\ b = "unload"
    \/ a = "get_list" /\ b = "get_each"
    \/ a = "refresh_item" /\ b = "camel"
    \/ a = "camel" /\ b = "changed"
    \/ a = "changed" /\ b = "changed_try"
    \/ a = "changed_try" /\ b = "changed_unlock"
    \/ a = "changed_unlock" /\ b = "changed_kill"

\* A thread that goes on returns to where it would have returned.
LEMMA FitGoto ==
    ASSUME NEW a, NEW b, NEW q, Fits(a, q), Next2(a, b)
    PROVE  b \in Labels /\ Fits(b, q)
<1>1. CASE a = "reason" /\ b = "reason_set"
    BY <1>1 DEF Fits, Labels
<1>2. CASE a \in {"unreason", "unreason_set", "unreason_test"}
    <2>1. b \in {"unreason_set", "unreason_test", "unload"}
        BY <1>2 DEF Next2
    <2>2. q \in {Free, Cons("unreason", Free)} \cup {Cons("unlock", b2) : b2 \in Bottoms}
        BY <1>2 DEF Fits
    <2> QED BY <2>1, <2>2 DEF Fits, Labels
<1>3. CASE a \in {"get_list", "refresh_item"}
    <2>1. CASE a = "get_list"
        BY <1>3, <2>1 DEF Fits, Next2, Labels
    <2>2. CASE a = "refresh_item"
        BY <1>3, <2>2 DEF Fits, Next2, CallRests, Labels
    <2> QED BY <1>3, <2>1, <2>2
<1>4. CASE a \in {"camel", "changed", "changed_try", "changed_unlock"}
    <2>1. b \in {"changed", "changed_try", "changed_unlock", "changed_kill"}
        BY <1>4 DEF Next2
    <2>2. q \in Rests
        BY <1>4 DEF Fits, Rests
    <2> QED BY <2>1, <2>2 DEF Fits, Labels
<1> QED BY <1>1, <1>2, <1>3, <1>4 DEF Next2

\* A step from a label to the next one leads to a place that fits.
LEMMA GotoMoves ==
    ASSUME Base, NEW t \in Threads, NEW b, Next2(pc[t], b), Goto(t, b)
    PROVE  Went(t, pc[t], b)
<1>1. PlaceType /\ b \in Labels /\ Fits(b, stack[t])
    BY BasePlace, FitGoto
<1>2. /\ PlaceType' /\ Stays(t) /\ pc'[t] = b /\ stack'[t] = stack[t]
      /\ \A S : At(S, t)' = At(S, t) - In(pc[t], S) + In(b, S)
    BY <1>1, GotoFacts
<1> QED BY <1>1, <1>2 DEF Moves, Went

\* The calls of a thread that is under way.
LEMMA HeadersMoves ==
    ASSUME Base, NEW t \in Threads, pc[t] = "get_headers",
           Call(t, <<"reason", "camel", "get_list">>)
    PROVE  /\ Called(t, "get_headers", "reason")
           /\ \A S : At(S, t)' =
                 At(S, t) - In("get_headers", S) + In("reason", S) + In("camel", S)
                 + In("get_list", S)
<1>1. PlaceType /\ stack[t] \in Bottoms
    BY BasePlace DEF Fits
<1>2. "reason" \in Labels /\ "camel" \in Labels /\ "get_list" \in Labels
    BY DEF Labels
<1>3. Fits("reason", Cons("camel", Cons("get_list", stack[t])))
    BY <1>1 DEF Fits
<1>4. /\ PlaceType' /\ Stays(t) /\ pc'[t] = "reason"
      /\ stack'[t] = Cons("camel", Cons("get_list", stack[t]))
      /\ \A S : At(S, t)' =
            At(S, t) - In(pc[t], S) + In("reason", S) + In("camel", S) + In("get_list", S)
    BY <1>1, <1>2, CallThree
<1>5. Head(stack'[t]) = "camel"
    <2> DEFINE q == Cons("get_list", stack[t])
    <2>1. q \in Seq(Labels)
        <3>1. stack[t] \in Seq(Labels)
            BY BasePlace
        <3> QED BY <3>1, <1>2, Label
    <2> HIDE DEF q
    <2>2. Head(Cons("camel", q)) = "camel"
        BY <2>1, <1>2, Label
    <2> QED BY <2>2, <1>4 DEF q
<1> QED BY <1>3, <1>4, <1>5 DEF Moves, Called

\* get_headers adds a header, or is done.
LEMMA EachMoves ==
    ASSUME Base, NEW t \in Threads, pc[t] = "get_each"
    PROVE  /\ Call(t, <<"unreason", "unlock">>) =>
                /\ Called(t, "get_each", "unreason")
                /\ \A S : At(S, t)' =
                      At(S, t) - In("get_each", S) + In("unreason", S) + In("unlock", S)
           /\ Call(t, <<"reason", "get_each">>) =>
                /\ Called(t, "get_each", "reason")
                /\ \A S : At(S, t)' =
                      At(S, t) - In("get_each", S) + In("reason", S) + In("get_each", S)
<1>1. PlaceType /\ stack[t] \in Bottoms
    BY BasePlace DEF Fits
<1>2. "reason" \in Labels /\ "unreason" \in Labels /\ "unlock" \in Labels /\ "get_each" \in Labels
    BY DEF Labels
<1>3. Fits("unreason", Cons("unlock", stack[t])) /\ Fits("reason", Cons("get_each", stack[t]))
    BY <1>1 DEF Fits
<1>4. ASSUME Call(t, <<"unreason", "unlock">>)
      PROVE  /\ Called(t, "get_each", "unreason")
             /\ \A S : At(S, t)' =
                   At(S, t) - In("get_each", S) + In("unreason", S) + In("unlock", S)
    <2>1. /\ PlaceType' /\ Stays(t) /\ pc'[t] = "unreason" /\ stack'[t] = Cons("unlock", stack[t])
          /\ \A S : At(S, t)' = At(S, t) - In(pc[t], S) + In("unreason", S) + In("unlock", S)
        BY <1>1, <1>2, <1>4, CallTwo
    <2> QED BY <2>1, <1>3 DEF Moves, Called
<1>5. ASSUME Call(t, <<"reason", "get_each">>)
      PROVE  /\ Called(t, "get_each", "reason")
             /\ \A S : At(S, t)' =
                   At(S, t) - In("get_each", S) + In("reason", S) + In("get_each", S)
    <2>1. /\ PlaceType' /\ Stays(t) /\ pc'[t] = "reason" /\ stack'[t] = Cons("get_each", stack[t])
          /\ \A S : At(S, t)' = At(S, t) - In(pc[t], S) + In("reason", S) + In("get_each", S)
        BY <1>1, <1>2, <1>5, CallTwo
    <2>2. Head(stack'[t]) = "get_each"
        <3> DEFINE q == stack[t]
        <3>1. q \in Seq(Labels)
            BY BasePlace
        <3> HIDE DEF q
        <3>2. Head(Cons("get_each", q)) = "get_each"
            BY <3>1, <1>2, Label
        <3> QED BY <3>2, <2>1 DEF q
    <2> QED BY <2>1, <2>2, <1>3 DEF Moves, Called
<1> QED BY <1>4, <1>5

\* refresh calls camel, releases the lock, and tells the observers.
LEMMA RefreshMoves ==
    ASSUME Base, NEW t \in Threads, pc[t] = "refresh",
           Call(t, <<"camel", "unlock", "reason", "post">>)
    PROVE  /\ Called(t, "refresh", "camel")
           /\ \A S : At(S, t)' = At(S, t) - In("refresh", S) + In("camel", S) + In("unlock", S)
                                 + In("reason", S) + In("post", S)
<1>1. PlaceType /\ stack[t] = Free
    BY BasePlace DEF Fits
<1>2. "camel" \in Labels /\ "unlock" \in Labels /\ "reason" \in Labels /\ "post" \in Labels
    BY DEF Labels
<1>3. Fits("camel", Cons("unlock", Cons("reason", Tells)))
    BY DEF Fits, CallRests
<1>4. /\ PlaceType' /\ Stays(t) /\ pc'[t] = "camel"
      /\ stack'[t] = Cons("unlock", Cons("reason", Cons("post", stack[t])))
      /\ \A S : At(S, t)' = At(S, t) - In(pc[t], S) + In("camel", S) + In("unlock", S)
                            + In("reason", S) + In("post", S)
    BY <1>1, <1>2, CallFour
<1> QED BY <1>1, <1>3, <1>4 DEF Moves, Called, Tells

\* sync calls camel and tells the observers before it releases the lock.
LEMMA SyncMoves ==
    ASSUME Base, NEW t \in Threads, pc[t] = "sync",
           Call(t, <<"camel", "reason", "reason", "post", "unreason", "unlock">>)
    PROVE  /\ Called(t, "sync", "camel")
           /\ \A S : At(S, t)' = At(S, t) - In("sync", S) + In("camel", S) + In("reason", S)
                                 + In("reason", S) + In("post", S) + In("unreason", S)
                                 + In("unlock", S)
<1>1. PlaceType /\ stack[t] = Free
    BY BasePlace DEF Fits
<1>2. /\ "camel" \in Labels /\ "unlock" \in Labels /\ "reason" \in Labels /\ "post" \in Labels
      /\ "unreason" \in Labels
    BY DEF Labels
<1>3. Fits("camel", Cons("reason", Cons("reason", SyncTells)))
    BY DEF Fits, CallRests
<1>4. /\ PlaceType' /\ Stays(t) /\ pc'[t] = "camel"
      /\ stack'[t] =
            Cons("reason", Cons("reason", Cons("post", Cons("unreason", Cons("unlock", stack[t])))))
      /\ \A S : At(S, t)' = At(S, t) - In(pc[t], S) + In("camel", S) + In("reason", S)
                            + In("reason", S) + In("post", S) + In("unreason", S)
                            + In("unlock", S)
    BY <1>1, <1>2, CallSix
<1> QED BY <1>1, <1>3, <1>4 DEF Moves, Called, SyncTells

\* folder_changed tells the observers and restores dont_fkill.
LEMMA KillMoves ==
    ASSUME Base, NEW t \in Threads, pc[t] = "changed_kill",
           Call(t, <<"reason", "post", "changed_restore">>)
    PROVE  /\ Called(t, "changed_kill", "reason")
           /\ \A S : At(S, t)' = At(S, t) - In("changed_kill", S) + In("reason", S)
                                 + In("post", S) + In("changed_restore", S)
<1>1. PlaceType /\ stack[t] \in Rests
    BY BasePlace DEF Fits
<1>2. "reason" \in Labels /\ "post" \in Labels /\ "changed_restore" \in Labels
    BY DEF Labels
<1>3. Fits("reason", Cons("post", Cons("changed_restore", stack[t])))
    BY <1>1 DEF Fits
<1>4. /\ PlaceType' /\ Stays(t) /\ pc'[t] = "reason"
      /\ stack'[t] = Cons("post", Cons("changed_restore", stack[t]))
      /\ \A S : At(S, t)' = At(S, t) - In(pc[t], S) + In("reason", S) + In("post", S)
                            + In("changed_restore", S)
    BY <1>1, <1>2, CallThree
<1>5. Head(stack'[t]) = "post"
    <2> DEFINE q == Cons("changed_restore", stack[t])
    <2>1. q \in Seq(Labels)
        <3>1. stack[t] \in Seq(Labels)
            BY BasePlace
        <3> QED BY <3>1, <1>2, Label
    <2> HIDE DEF q
    <2>2. Head(Cons("post", q)) = "post"
        BY <2>1, <1>2, Label
    <2> QED BY <2>2, <1>4 DEF q
<1> QED BY <1>3, <1>4, <1>5 DEF Moves, Called

\* folder_changed takes folder_lock, and then a reason for every header.
LEMMA RepeatedLabels ==
    ASSUME NEW a \in Labels
    PROVE  /\ [i \in 1 .. 0 |-> a] = <<>>
           /\ [i \in 1 .. 1 |-> a] = <<a>>
           /\ [i \in 1 .. 2 |-> a] = <<a, a>>
<1>1. [i \in 1 .. 0 |-> a] = <<>>
    OBVIOUS
<1>2. [i \in 1 .. 1 |-> a] = <<a>>
    <2> DEFINE f == [i \in 1 .. 1 |-> a]
    <2>1. f \in [1 .. 1 -> Labels] /\ \A i \in 1 .. 1 : f[i] = a
        OBVIOUS
    <2>2. f \in Seq(Labels) /\ Len(f) = 1
        BY <2>1, LenProperties, SeqDef
    <2>3. <<a>> \in Seq(Labels) /\ Len(<<a>>) = 1 /\ <<a>>[1] = a
        OBVIOUS
    <2> HIDE DEF f
    <2> QED BY <2>1, <2>2, <2>3, SeqEqual DEF f
<1>3. [i \in 1 .. 2 |-> a] = <<a, a>>
    <2> DEFINE f == [i \in 1 .. 2 |-> a]
    <2>1. f \in [1 .. 2 -> Labels] /\ f[1] = a /\ f[2] = a
        OBVIOUS
    <2>2. f \in Seq(Labels) /\ Len(f) = 2
        BY <2>1, LenProperties, SeqDef
    <2>3. <<a, a>> \in Seq(Labels) /\ Len(<<a, a>>) = 2 /\ <<a, a>>[1] = a /\ <<a, a>>[2] = a
        OBVIOUS
    <2> HIDE DEF f
    <2>4. \A i \in 1 .. Len(f) : i = 1 \/ i = 2
        BY <2>2
    <2>5. \A i \in 1 .. Len(f) : f[i] = <<a, a>>[i]
        BY <2>1, <2>3, <2>4
    <2> QED BY <2>2, <2>3, <2>5, SeqEqual DEF f
<1> QED BY <1>1, <1>2, <1>3

\* A call of labels that begin with a.
LEMMA CallCons ==
    ASSUME PlaceType, NEW t \in Threads, NEW a \in Labels, NEW r \in Seq(Labels),
           Call(t, Cons(a, r))
    PROVE  Place(t, a, r \o stack[t]) /\ r \o stack[t] \in Seq(Labels)
<1>1. Head(Cons(a, r)) = a /\ Tail(Cons(a, r)) = r
    BY Label
<1>2. stack[t] \in Seq(Labels)
    BY DEF PlaceType
<1>3. r \o stack[t] \in Seq(Labels)
    BY <1>2, ConcatProperties
<1> QED BY <1>1, <1>3 DEF Call, Place

\* The end is a label in front of nothing.
LEMMA FreeCons == Free = Cons("free", <<>>) /\ \A a : <<a>> \o Free = Cons(a, Free)
<1>1. <<"free">> \o <<>> = <<"free">>
    OBVIOUS
<1> QED BY <1>1 DEF Free, Cons

\* folder_changed has folder_lock.
LEMMA TryMoves ==
    ASSUME Base, NEW t \in Threads, pc[t] = "changed_try",
           Call(t, [n \in 1 .. hdr[t] |-> "reason"] \o <<"changed_unlock">>)
    PROVE  /\ Moves(t) /\ pc'[t] = IF hdr[t] = 0 THEN "changed_unlock" ELSE "reason"
           /\ \A S : At(S, t)' = At(S, t) - In("changed_try", S) + In("changed_unlock", S)
                                 + hdr[t] * In("reason", S)
<1>1. PlaceType /\ stack[t] \in Rests /\ stack[t] \in Seq(Labels)
    BY BasePlace DEF Fits
<1>2. "reason" \in Labels /\ "changed_unlock" \in Labels
    BY DEF Labels
<1>3. hdr[t] \in 0 .. 1
    BY DEF Base, TypeOK
<1>4. ASSUME NEW S
      PROVE  /\ At(S, t) \in Nat /\ Count(S, stack[t]) \in Nat
             /\ At(S, t) = In("changed_try", S) + Count(S, stack[t])
             /\ In("changed_try", S) \in 0 .. 1 /\ In("reason", S) \in 0 .. 1
             /\ In("changed_unlock", S) \in 0 .. 1
    BY <1>1, AtFacts DEF In
<1> DEFINE u == <<"changed_unlock">>
           s == stack[t]
<1>5. u \in Seq(Labels) /\ u = Cons("changed_unlock", <<>>) /\ <<>> \in Seq(Labels)
    <2>1. <<"changed_unlock">> \o <<>> = <<"changed_unlock">>
        OBVIOUS
    <2> QED BY <2>1, <1>2, EmptySeq DEF Cons
<1>6. CASE hdr[t] = 0
    <2>1. [n \in 1 .. hdr[t] |-> "reason"] \o u = u
        <3>1. [n \in 1 .. hdr[t] |-> "reason"] = <<>>
            BY <1>2, <1>6, RepeatedLabels
        <3> QED BY <3>1, <1>5, ConcatEmptySeq
    <2>2. Call(t, Cons("changed_unlock", <<>>))
        BY <2>1, <1>5
    <2> DEFINE e == <<>>
    <2>3. e \in Seq(Labels) /\ Call(t, Cons("changed_unlock", e)) /\ e \o s = s
        BY <2>2, <1>1, <1>5, ConcatEmptySeq
    <2> HIDE DEF e
    <2>4. Place(t, "changed_unlock", s)
        BY <2>3, <1>1, <1>2, CallCons
    <2>5. /\ Moves(t) /\ pc'[t] = "changed_unlock"
          /\ \A S : At(S, t)' = In("changed_unlock", S) + Count(S, s)
        <3>1. Fits("changed_unlock", s)
            BY <1>1 DEF Fits
        <3> QED BY <2>4, <3>1, <1>1, <1>2, PlaceFacts DEF Moves
    <2> HIDE DEF s
    <2>6. ASSUME NEW S
          PROVE  At(S, t)' = At(S, t) - In("changed_try", S) + In("changed_unlock", S)
                             + hdr[t] * In("reason", S)
        BY <2>5, <1>4, <1>6 DEF s
    <2> QED BY <2>5, <2>6, <1>6
<1>7. CASE hdr[t] = 1
    <2>1. [n \in 1 .. hdr[t] |-> "reason"] \o u = Cons("reason", u)
        <3>1. [n \in 1 .. hdr[t] |-> "reason"] = <<"reason">>
            BY <1>2, <1>7, RepeatedLabels
        <3> QED BY <3>1 DEF Cons
    <2>2. Call(t, Cons("reason", u)) /\ u \o s = Cons("changed_unlock", s)
        BY <2>1 DEF Cons
    <2> HIDE DEF u
    <2>3. Place(t, "reason", Cons("changed_unlock", s)) /\ Cons("changed_unlock", s) \in Seq(Labels)
        BY <2>2, <1>1, <1>2, <1>5, CallCons
    <2>4. /\ Moves(t) /\ pc'[t] = "reason"
          /\ \A S : At(S, t)' = In("reason", S) + Count(S, Cons("changed_unlock", s))
        <3>1. Fits("reason", Cons("changed_unlock", s))
            BY <1>1 DEF Fits
        <3> QED BY <2>3, <3>1, <1>1, <1>2, PlaceFacts DEF Moves
    <2>5. \A S : Count(S, Cons("changed_unlock", s)) = In("changed_unlock", S) + Count(S, s)
        BY <1>1, <1>2, Label
    <2> HIDE DEF s
    <2>6. ASSUME NEW S
          PROVE  At(S, t)' = At(S, t) - In("changed_try", S) + In("changed_unlock", S)
                             + hdr[t] * In("reason", S)
        BY <2>4, <2>5, <1>4, <1>7 DEF s
    <2> QED BY <2>4, <2>6, <1>7
<1> QED BY <1>3, <1>6, <1>7

\* A thread that begins something.
LEMMA BeginMoves ==
    ASSUME Base, NEW t \in Threads, pc[t] = "free", NEW a \in Labels, NEW r \in Seq(Labels),
           Fits(a, r), Call(t, Cons(a, r))
    PROVE  /\ Moves(t) /\ pc'[t] = a /\ stack'[t] = r
           /\ \A S : /\ At(S, t)' = In(a, S) + Count(S, r) /\ Count(S, r) \in Nat
                     /\ At(S, t) = In("free", S)
<1>1. PlaceType /\ stack[t] = <<>>
    BY BasePlace
<1>2. r \o stack[t] = r
    BY <1>1, ConcatEmptySeq
<1>3. Place(t, a, r)
    BY <1>1, <1>2, CallCons
<1>4. PlaceType' /\ Stays(t) /\ pc'[t] = a /\ stack'[t] = r
      /\ \A S : At(S, t)' = In(a, S) + Count(S, r) /\ Count(S, r) \in Nat
    BY <1>1, <1>3, PlaceFacts
<1>5. ASSUME NEW S PROVE At(S, t) = In("free", S)
    <2>1. Count(S, stack[t]) = 0 /\ In("free", S) \in 0 .. 1
        BY <1>1, CountEmpty DEF In
    <2> QED BY <2>1, <1>1, AtFacts
<1> QED BY <1>4, <1>5 DEF Moves

\* The calls of the application, and what the main loop, the worker and camel begin.
LEMMA CallFolderMoves ==
    ASSUME Base, NEW t \in Threads, CallFolder(t)
    PROVE  /\ pc[t] = "free"
           /\ \E a \in Labels, r \in Seq(Labels) :
                 /\ Fits(a, r) /\ Call(t, Cons(a, r))
                 /\ \/ a \in {"get_headers", "refresh", "sync"} /\ r = Free
                    \/ /\ a = "reason"
                       /\ r \in {Cons("launch_refresh", Free), Cons("launch_headers", Free)}
<1>1. {"get_headers", "refresh", "sync", "reason", "launch_refresh", "launch_headers"}
          \subseteq Labels
    BY DEF Labels
<1>2. \/ Begin(t, "get_headers", <<"get_headers">>)
      \/ Begin(t, "refresh", <<"refresh">>)
      \/ Begin(t, "sync", <<"sync">>)
      \/ Begin(t, "refresh_async", <<"reason", "launch_refresh">>)
      \/ Begin(t, "get_headers_async", <<"reason", "launch_headers">>)
    BY DEF CallFolder
<1>3. ASSUME NEW what, NEW a \in {"get_headers", "refresh", "sync"}, Begin(t, what, <<a>>)
      PROVE  pc[t] = "free" /\ Call(t, Cons(a, Free)) /\ Fits(a, Free)
    <2>1. <<a>> \o Free = Cons(a, Free)
        BY FreeCons
    <2>2. Fits(a, Free)
        BY DEF Fits, Bottoms
    <2> QED BY <1>3, <2>1, <2>2 DEF Begin, Free
<1>4. ASSUME NEW what, NEW b \in {"launch_refresh", "launch_headers"},
             Begin(t, what, <<"reason", b>>)
      PROVE  /\ pc[t] = "free" /\ Call(t, Cons("reason", Cons(b, Free)))
             /\ Fits("reason", Cons(b, Free))
             /\ Cons(b, Free) \in Seq(Labels)
    <2>1. <<"reason", b>> \o Free = Cons("reason", Cons(b, Free))
        <3>1. Free \in Seq(Labels) /\ "reason" \in Labels /\ b \in Labels
            BY <1>1, EndFacts
        <3> QED BY <3>1, PushTwo
    <2>2. Fits("reason", Cons(b, Free)) /\ Cons(b, Free) \in Seq(Labels)
        BY BackEnds DEF Fits, Back
    <2> QED BY <1>4, <2>1, <2>2 DEF Begin, Free
<1>5. CASE Begin(t, "get_headers", <<"get_headers">>)
    BY <1>1, <1>3, <1>5, EndFacts
<1>6. CASE Begin(t, "refresh", <<"refresh">>)
    BY <1>1, <1>3, <1>6, EndFacts
<1>7. CASE Begin(t, "sync", <<"sync">>)
    BY <1>1, <1>3, <1>7, EndFacts
<1>8. CASE Begin(t, "refresh_async", <<"reason", "launch_refresh">>)
    BY <1>1, <1>4, <1>8
<1>9. CASE Begin(t, "get_headers_async", <<"reason", "launch_headers">>)
    BY <1>1, <1>4, <1>9
<1> QED BY <1>2, <1>5, <1>6, <1>7, <1>8, <1>9

\* A thread that begins with two labels.
LEMMA BeginTwo ==
    ASSUME Base, NEW t \in Threads, pc[t] = "free", NEW a \in {"unreason", "changed"},
           Call(t, <<a, "free">>)
    PROVE  /\ Moves(t) /\ pc'[t] = a
           /\ \A S : At(S, t)' = In(a, S) + In("free", S) /\ At(S, t) = In("free", S)
<1>1. a \in Labels /\ "free" \in Labels /\ Fits(a, Free)
    BY DEF Labels, Fits, Rests
<1>2. PlaceType /\ stack[t] = <<>>
    BY BasePlace
<1>3. /\ PlaceType' /\ Stays(t) /\ pc'[t] = a /\ stack'[t] = Cons("free", stack[t])
      /\ \A S : At(S, t)' = At(S, t) - In(pc[t], S) + In(a, S) + In("free", S)
    BY <1>1, <1>2, CallTwo
<1>4. ASSUME NEW S PROVE At(S, t) = In("free", S) /\ At(S, t)' = In(a, S) + In("free", S)
    <2>1. Count(S, stack[t]) = 0 /\ In("free", S) \in 0 .. 1 /\ In(a, S) \in 0 .. 1
        BY <1>2, CountEmpty DEF In
    <2>2. At(S, t) = In("free", S)
        BY <2>1, <1>2, AtFacts
    <2> QED BY <2>1, <2>2, <1>3
<1> QED BY <1>1, <1>2, <1>3, <1>4, FreeCons DEF Moves

\* A call that sets a flag.
LEMMA FlagMoves ==
    ASSUME Base, NEW t \in Threads, FlagHeader(t)
    PROVE  /\ Moves(t) /\ pc[t] = "free" /\ pc'[t] = "set_flag"
           /\ \A S : /\ At(S, t)' = In("set_flag", S) + In("reason", S) + In("post", S)
                                    + In("free", S)
                     /\ At(S, t) = In("free", S)
<1>1. "set_flag" \in Labels /\ "reason" \in Labels /\ "post" \in Labels
    BY DEF Labels
<1>2. <<"set_flag", "reason", "post">> \o Free = Cons("set_flag", Cons("reason", Tells))
    <2>1. Free \in Seq(Labels)
        BY EndFacts
    <2> QED BY <2>1, <1>1, PushThree DEF Tells
<1>3. pc[t] = "free" /\ Call(t, Cons("set_flag", Cons("reason", Tells)))
    BY <1>2 DEF FlagHeader, Begin, Free
<1>4. Fits("set_flag", Cons("reason", Tells)) /\ Cons("reason", Tells) \in Seq(Labels)
    BY EndFacts DEF Fits
<1>5. \A S : Count(S, Cons("reason", Tells)) = In("reason", S) + (In("post", S) + In("free", S))
    BY <1>1, EndFacts, Label
<1>6. /\ Moves(t) /\ pc'[t] = "set_flag"
      /\ \A S : /\ At(S, t)' = In("set_flag", S) + Count(S, Cons("reason", Tells))
                /\ At(S, t) = In("free", S)
    BY <1>1, <1>3, <1>4, BeginMoves
<1>7. \A S : /\ In("set_flag", S) \in 0 .. 1 /\ In("reason", S) \in 0 .. 1
             /\ In("post", S) \in 0 .. 1 /\ In("free", S) \in 0 .. 1
    BY DEF In
<1>8. ASSUME NEW S
      PROVE  At(S, t)' = In("set_flag", S) + In("reason", S) + In("post", S) + In("free", S)
    BY <1>5, <1>6, <1>7
<1> QED BY <1>3, <1>6, <1>8

\* The worker with an item.
LEMMA ServeMoves ==
    ASSUME Base, Serve
    PROVE  \E item \in waiting :
              LET a == IF item = "refresh" THEN "refresh_item" ELSE "get_headers" IN
              /\ waiting' = waiting \ {item} /\ Moves(Worker)
              /\ pc[Worker] = "free" /\ pc'[Worker] = a
              /\ \A S : /\ At(S, Worker)' = In(a, S) + In("unlock", S) + In("served", S)
                                            + In("free", S)
                        /\ At(S, Worker) = In("free", S)
<1>1. /\ "unlock" \in Labels /\ "served" \in Labels /\ "free" \in Labels
      /\ "refresh_item" \in Labels /\ "get_headers" \in Labels
    BY DEF Labels
<1>2. PICK item \in waiting :
          /\ waiting' = waiting \ {item}
          /\ Call(Worker, <<IF item = "refresh" THEN "refresh_item" ELSE "get_headers",
                            "unlock", "served", "free">>)
    BY DEF Serve
<1> DEFINE a == IF item = "refresh" THEN "refresh_item" ELSE "get_headers"
<1>3. a \in {"refresh_item", "get_headers"} /\ a \in Labels
    BY <1>1
<1>4. Call(Worker, <<a, "unlock", "served", "free">>)
    BY <1>2
<1>5. Fits(a, Item)
    BY <1>3 DEF Fits, Bottoms
<1> HIDE DEF a
<1>6. Worker \in Threads /\ PlaceType /\ pc[Worker] = "free" /\ stack[Worker] = <<>>
    <2>1. Worker \in Threads /\ pc[Worker] = "free"
        BY DEF Threads, Serve
    <2> QED BY <2>1, BasePlace
<1>7. /\ PlaceType' /\ Stays(Worker) /\ pc'[Worker] = a
      /\ stack'[Worker] = Cons("unlock", Cons("served", Cons("free", stack[Worker])))
      /\ \A S : At(S, Worker)' = At(S, Worker) - In(pc[Worker], S) + In(a, S) + In("unlock", S)
                                 + In("served", S) + In("free", S)
    BY <1>1, <1>3, <1>4, <1>6, CallFour
<1>8. stack'[Worker] = Item
    BY <1>6, <1>7, FreeCons DEF Item
<1>9. ASSUME NEW S
      PROVE  /\ At(S, Worker) = In("free", S)
             /\ At(S, Worker)' = In(a, S) + In("unlock", S) + In("served", S) + In("free", S)
    <2>1. At(S, Worker) = In("free", S)
        <3>1. Count(S, stack[Worker]) = 0 /\ In("free", S) \in 0 .. 1
            BY <1>6, CountEmpty DEF In
        <3> QED BY <3>1, <1>6, AtFacts
    <2>2. /\ In(a, S) \in 0 .. 1 /\ In("unlock", S) \in 0 .. 1 /\ In("served", S) \in 0 .. 1
          /\ In("free", S) \in 0 .. 1
        BY DEF In
    <2>3. At(S, Worker)' = At(S, Worker) - In("free", S) + In(a, S) + In("unlock", S)
                           + In("served", S) + In("free", S)
        BY <1>6, <1>7
    <2> QED BY <2>1, <2>2, <2>3
<1>10. Moves(Worker)
    BY <1>5, <1>7, <1>8 DEF Moves
<1> QED BY <1>2, <1>6, <1>7, <1>9, <1>10 DEF a

\* A notification that the main loop tells gives back its reason, and those of the
\* headers that the observers do not keep.
LEMMA ChangeMoves ==
    ASSUME Base, NEW n \in 0 .. 1, RunChange(n)
    PROVE  \E kept \in 0 .. n :
              /\ headers' = headers + kept /\ Moves(Main) /\ pc[Main] = "free"
              /\ pc'[Main] = "unreason"
              /\ \A S : /\ At(S, Main)' = (n - kept + 1) * In("unreason", S) + In("free", S)
                        /\ At(S, Main) = In("free", S)
<1>1. "unreason" \in Labels
    BY DEF Labels
<1>2. PICK kept \in 0 .. n :
          /\ headers' = headers + kept
          /\ Call(Main, [i \in 1 .. n - kept + 1 |-> "unreason"] \o <<"free">>)
    BY DEF RunChange
<1>3. Main \in Threads /\ pc[Main] = "free"
    BY DEF Threads, Callers, RunChange
<1>4. \A S : In("unreason", S) \in 0 .. 1 /\ In("free", S) \in 0 .. 1
    BY DEF In
<1>5. CASE n - kept + 1 = 1
    <2>1. [i \in 1 .. n - kept + 1 |-> "unreason"] = <<"unreason">>
        BY <1>1, <1>5, RepeatedLabels
    <2>2. Call(Main, Cons("unreason", Free))
        BY <2>1, <1>2, FreeCons DEF Free
    <2>3. Fits("unreason", Free)
        BY DEF Fits
    <2>4. /\ Moves(Main) /\ pc'[Main] = "unreason"
          /\ \A S : /\ At(S, Main)' = In("unreason", S) + Count(S, Free)
                    /\ At(S, Main) = In("free", S)
        BY <2>2, <2>3, <1>1, <1>3, EndFacts, BeginMoves
    <2>5. ASSUME NEW S
          PROVE  At(S, Main)' = (n - kept + 1) * In("unreason", S) + In("free", S)
        <3>1. Count(S, Free) = In("free", S)
            BY EndFacts
        <3>2. (n - kept + 1) * In("unreason", S) = In("unreason", S)
            BY <1>4, <1>5
        <3> QED BY <3>1, <3>2, <2>4, <1>4
    <2> QED BY <2>4, <2>5, <1>2, <1>3
<1>6. CASE n - kept + 1 = 2
    <2>1. [i \in 1 .. n - kept + 1 |-> "unreason"] = <<"unreason", "unreason">>
        BY <1>1, <1>6, RepeatedLabels
    <2>2. <<"unreason", "unreason">> \o Free = Cons("unreason", Cons("unreason", Free))
        <3>1. Free \in Seq(Labels)
            BY EndFacts
        <3> QED BY <3>1, <1>1, PushTwo
    <2>3. Call(Main, Cons("unreason", Cons("unreason", Free)))
        BY <2>1, <2>2, <1>2 DEF Free
    <2>4. Fits("unreason", Cons("unreason", Free)) /\ Cons("unreason", Free) \in Seq(Labels)
        BY BackEnds DEF Fits, Back
    <2>5. /\ Moves(Main) /\ pc'[Main] = "unreason"
          /\ \A S : /\ At(S, Main)' = In("unreason", S) + Count(S, Cons("unreason", Free))
                    /\ At(S, Main) = In("free", S)
        BY <2>3, <2>4, <1>1, <1>3, BeginMoves
    <2>6. ASSUME NEW S
          PROVE  At(S, Main)' = (n - kept + 1) * In("unreason", S) + In("free", S)
        <3>1. Count(S, Cons("unreason", Free)) = In("unreason", S) + In("free", S)
            BY <1>1, EndFacts, Label
        <3>2. (n - kept + 1) * In("unreason", S) = In("unreason", S) + In("unreason", S)
            BY <1>4, <1>6
        <3> QED BY <3>1, <3>2, <2>5, <1>4
    <2> QED BY <2>5, <2>6, <1>2, <1>3
<1>7. n - kept + 1 = 1 \/ n - kept + 1 = 2
    OBVIOUS
<1> QED BY <1>5, <1>6, <1>7

\* Where the steps of the reasons lead.
LEMMA ReasonStepPlaces ==
    ASSUME Base, NEW t \in Threads
    PROVE  /\ Reason(t) => Went(t, "reason", "reason_set")
           /\ ReasonSet(t) => Returned(t, "reason_set")
           /\ Unreason(t) => Went(t, "unreason", "unreason_set")
           /\ UnreasonSet(t) => Went(t, "unreason_set", "unreason_test")
           /\ UnreasonTest(t) =>
                 \/ /\ Went(t, "unreason_test", "unload")
                    /\ UNCHANGED <<folder, reason_lock, spared, late>>
                 \/ /\ Returned(t, "unreason_test") /\ reason_lock' = {}
                    /\ \E count \in {tmp[t], reason_to_live} :
                          \/ count = 0 /\ ~push_cap /\ UnloadFolder(t)
                          \/ /\ count # 0 \/ ~folder \/ Keeps
                             /\ UNCHANGED <<folder, spared, late>>
           /\ Unload(t) => Returned(t, "unload")
<1>1. ASSUME Reason(t) PROVE Went(t, "reason", "reason_set")
    <2>1. pc[t] = "reason" /\ Next2(pc[t], "reason_set") /\ Goto(t, "reason_set")
        BY <1>1 DEF Reason, Next2
    <2> QED BY <2>1, GotoMoves
<1>2. ASSUME ReasonSet(t) PROVE Returned(t, "reason_set")
    BY <1>2, ReturnMoves DEF ReasonSet
<1>3. ASSUME Unreason(t) PROVE Went(t, "unreason", "unreason_set")
    <2>1. pc[t] = "unreason" /\ Next2(pc[t], "unreason_set") /\ Goto(t, "unreason_set")
        BY <1>3 DEF Unreason, Next2
    <2> QED BY <2>1, GotoMoves
<1>4. ASSUME UnreasonSet(t) PROVE Went(t, "unreason_set", "unreason_test")
    <2>1. pc[t] = "unreason_set" /\ Next2(pc[t], "unreason_test") /\ Goto(t, "unreason_test")
        BY <1>4 DEF UnreasonSet, Next2
    <2> QED BY <2>1, GotoMoves
<1>5. ASSUME UnreasonTest(t)
      PROVE  \/ /\ Went(t, "unreason_test", "unload")
                /\ UNCHANGED <<folder, reason_lock, spared, late>>
             \/ /\ Returned(t, "unreason_test") /\ reason_lock' = {}
                /\ \E count \in {tmp[t], reason_to_live} :
                      \/ count = 0 /\ ~push_cap /\ UnloadFolder(t)
                      \/ /\ count # 0 \/ ~folder \/ Keeps
                         /\ UNCHANGED <<folder, spared, late>>
    <2>1. pc[t] = "unreason_test" /\ Next2(pc[t], "unload")
        BY <1>5 DEF UnreasonTest, Next2
    <2>2. Goto(t, "unload") => Went(t, "unreason_test", "unload")
        BY <2>1, GotoMoves
    <2>3. Return(t) => Returned(t, "unreason_test")
        BY <2>1, ReturnMoves
    <2>4. PICK count \in {tmp[t], reason_to_live} :
              IF count = 0 /\ folder /\ ~Keeps /\ push_cap
              THEN Goto(t, "unload") /\ UNCHANGED <<folder, reason_lock, spared, late>>
              ELSE /\ IF count = 0 /\ folder /\ ~Keeps
                      THEN UnloadFolder(t)
                      ELSE UNCHANGED <<folder, spared, late>>
                   /\ reason_lock' = {}
                   /\ Return(t)
        BY <1>5 DEF UnreasonTest
    <2> QED BY <2>2, <2>3, <2>4
<1>6. ASSUME Unload(t) PROVE Returned(t, "unload")
    BY <1>6, ReturnMoves DEF Unload
<1> QED BY <1>1, <1>2, <1>3, <1>4, <1>5, <1>6

\* Where the calls that load the folder lead: on, with folder_lock and the folder,
\* or back.
LEMMA LoadStepPlaces ==
    ASSUME Base, NEW t \in Threads
    PROVE  /\ GetHeaders(t) =>
                 \/ /\ Called(t, "get_headers", "reason") /\ Lock(t) /\ Load
                    /\ \A S : At(S, t)' = At(S, t) - In("get_headers", S) + In("reason", S)
                                          + In("camel", S) + In("get_list", S)
                 \/ Returned(t, "get_headers") /\ LoadFails /\ UNCHANGED folder_lock
           /\ Refresh(t) =>
                 \/ /\ Called(t, "refresh", "camel") /\ Lock(t) /\ Load
                    /\ \A S : At(S, t)' = At(S, t) - In("refresh", S) + In("camel", S)
                                          + In("unlock", S) + In("reason", S) + In("post", S)
                 \/ Returned(t, "refresh") /\ LoadFails /\ UNCHANGED folder_lock
           /\ Sync(t) =>
                 \/ /\ Called(t, "sync", "camel") /\ Lock(t) /\ Load
                    /\ \A S : At(S, t)' = At(S, t) - In("sync", S) + In("camel", S)
                                          + In("reason", S) + In("reason", S) + In("post", S)
                                          + In("unreason", S) + In("unlock", S)
                 \/ Returned(t, "sync") /\ LoadFails /\ UNCHANGED folder_lock
           /\ RefreshItem(t) =>
                 \/ Went(t, "refresh_item", "camel") /\ Load
                 \/ Returned(t, "refresh_item") /\ LoadFails
<1>1. ASSUME GetHeaders(t)
      PROVE  \/ /\ Called(t, "get_headers", "reason") /\ Lock(t) /\ Load
                /\ \A S : At(S, t)' = At(S, t) - In("get_headers", S) + In("reason", S)
                                      + In("camel", S) + In("get_list", S)
             \/ Returned(t, "get_headers") /\ LoadFails /\ UNCHANGED folder_lock
    <2>1. pc[t] = "get_headers" /\ LockAndLoad(t, <<"reason", "camel", "get_list">>)
        BY <1>1 DEF GetHeaders
    <2> QED BY <2>1, HeadersMoves, ReturnMoves DEF LockAndLoad
<1>2. ASSUME Refresh(t)
      PROVE  \/ /\ Called(t, "refresh", "camel") /\ Lock(t) /\ Load
                /\ \A S : At(S, t)' = At(S, t) - In("refresh", S) + In("camel", S)
                                      + In("unlock", S) + In("reason", S) + In("post", S)
             \/ Returned(t, "refresh") /\ LoadFails /\ UNCHANGED folder_lock
    <2>1. pc[t] = "refresh" /\ LockAndLoad(t, <<"camel", "unlock", "reason", "post">>)
        BY <1>2 DEF Refresh
    <2> QED BY <2>1, RefreshMoves, ReturnMoves DEF LockAndLoad
<1>3. ASSUME Sync(t)
      PROVE  \/ /\ Called(t, "sync", "camel") /\ Lock(t) /\ Load
                /\ \A S : At(S, t)' = At(S, t) - In("sync", S) + In("camel", S)
                                      + In("reason", S) + In("reason", S) + In("post", S)
                                      + In("unreason", S) + In("unlock", S)
             \/ Returned(t, "sync") /\ LoadFails /\ UNCHANGED folder_lock
    <2>1. /\ pc[t] = "sync"
          /\ LockAndLoad(t, <<"camel", "reason", "reason", "post", "unreason", "unlock">>)
        BY <1>3 DEF Sync
    <2> QED BY <2>1, SyncMoves, ReturnMoves DEF LockAndLoad
<1>4. ASSUME RefreshItem(t)
      PROVE  \/ Went(t, "refresh_item", "camel") /\ Load
             \/ Returned(t, "refresh_item") /\ LoadFails
    <2>1. pc[t] = "refresh_item" /\ Next2(pc[t], "camel")
        BY <1>4 DEF RefreshItem, Next2
    <2> QED BY <2>1, <1>4, GotoMoves, ReturnMoves DEF RefreshItem
<1> QED BY <1>1, <1>2, <1>3, <1>4

\* Where the other steps of the calls lead.
LEMMA CallStepPlaces ==
    ASSUME Base, NEW t \in Threads
    PROVE  /\ GetList(t) => Went(t, "get_list", "get_each")
           /\ GetEach(t) =>
                 \/ /\ Called(t, "get_each", "unreason") /\ left[t] = 0
                    /\ UNCHANGED <<left, headers>>
                    /\ \A S : At(S, t)' = At(S, t) - In("get_each", S) + In("unreason", S)
                                          + In("unlock", S)
                 \/ /\ Called(t, "get_each", "reason") /\ left[t] # 0
                    /\ left' = [left EXCEPT ![t] = @ - 1] /\ headers' = headers + 1
                    /\ \A S : At(S, t)' = At(S, t) - In("get_each", S) + In("reason", S)
                                          + In("get_each", S)
           /\ CamelWorks(t) =>
                 \/ Returned(t, "camel") /\ UNCHANGED <<msgs, hdr, events>>
                 \/ Went(t, "camel", "changed") /\ Finds(t, "call")
           /\ Unlock(t) => Returned(t, "unlock")
           /\ Post(t) => Returned(t, "post")
           /\ SetFlag(t) => Returned(t, "set_flag")
           /\ Served(t) => Returned(t, "served")
           /\ LaunchRefresh(t) => Returned(t, "launch_refresh")
           /\ LaunchHeaders(t) => Returned(t, "launch_headers")
<1>1. ASSUME GetList(t) PROVE Went(t, "get_list", "get_each")
    <2>1. pc[t] = "get_list" /\ Next2(pc[t], "get_each") /\ Goto(t, "get_each")
        BY <1>1 DEF GetList, Next2
    <2> QED BY <2>1, GotoMoves
<1>2. ASSUME GetEach(t)
      PROVE  \/ /\ Called(t, "get_each", "unreason") /\ left[t] = 0
                /\ UNCHANGED <<left, headers>>
                /\ \A S : At(S, t)' = At(S, t) - In("get_each", S) + In("unreason", S)
                                      + In("unlock", S)
             \/ /\ Called(t, "get_each", "reason") /\ left[t] # 0
                /\ left' = [left EXCEPT ![t] = @ - 1] /\ headers' = headers + 1
                /\ \A S : At(S, t)' = At(S, t) - In("get_each", S) + In("reason", S)
                                      + In("get_each", S)
    <2>1. pc[t] = "get_each"
        BY <1>2 DEF GetEach
    <2> QED BY <2>1, <1>2, EachMoves DEF GetEach
<1>3. ASSUME CamelWorks(t)
      PROVE  \/ Returned(t, "camel") /\ UNCHANGED <<msgs, hdr, events>>
             \/ Went(t, "camel", "changed") /\ Finds(t, "call")
    <2>1. pc[t] = "camel" /\ Next2(pc[t], "changed")
        BY <1>3 DEF CamelWorks, Next2
    <2> QED BY <2>1, <1>3, GotoMoves, ReturnMoves DEF CamelWorks
<1>4. Unlock(t) => Returned(t, "unlock")
    BY ReturnMoves DEF Unlock
<1>5. Post(t) => Returned(t, "post")
    BY ReturnMoves DEF Post
<1>6. SetFlag(t) => Returned(t, "set_flag")
    BY ReturnMoves DEF SetFlag
<1>7. Served(t) => Returned(t, "served")
    BY ReturnMoves DEF Served
<1>8. LaunchRefresh(t) => Returned(t, "launch_refresh")
    BY ReturnMoves DEF LaunchRefresh, Launch
<1>9. LaunchHeaders(t) => Returned(t, "launch_headers")
    BY ReturnMoves DEF LaunchHeaders, Launch
<1> QED BY <1>1, <1>2, <1>3, <1>4, <1>5, <1>6, <1>7, <1>8, <1>9

\* Where the steps of folder_changed lead.
LEMMA ChangedStepPlaces ==
    ASSUME Base, NEW t \in Threads
    PROVE  /\ Changed(t) =>
                 \/ /\ Went(t, "changed", "changed_try") /\ old' = [old EXCEPT ![t] = dont_fkill]
                    /\ UNCHANGED <<hdr, missed>>
                 \/ /\ Returned(t, "changed") /\ hdr' = [hdr EXCEPT ![t] = 0] /\ missed' = TRUE
                    /\ UNCHANGED old
           /\ ChangedTry(t) =>
                 \/ /\ Moves(t) /\ pc[t] = "changed_try" /\ CanLock(t) /\ folder /\ Lock(t)
                    /\ pc'[t] = (IF hdr[t] = 0 THEN "changed_unlock" ELSE "reason")
                    /\ UNCHANGED <<old, hdr, missed>>
                    /\ \A S : At(S, t)' = At(S, t) - In("changed_try", S)
                                          + In("changed_unlock", S)
                                          + (IF hdr[t] = 0 THEN 0 ELSE In("reason", S))
                 \/ /\ Returned(t, "changed_try") /\ old' = [old EXCEPT ![t] = FALSE]
                    /\ hdr' = [hdr EXCEPT ![t] = 0] /\ missed' = TRUE /\ UNCHANGED folder_lock
           /\ ChangedUnlock(t) => Went(t, "changed_unlock", "changed_kill")
           /\ ChangedKill(t) =>
                 /\ Called(t, "changed_kill", "reason")
                 /\ \A S : At(S, t)' = At(S, t) - In("changed_kill", S) + In("reason", S)
                                       + In("post", S) + In("changed_restore", S)
           /\ ChangedRestore(t) => Returned(t, "changed_restore")
<1>1. ASSUME Changed(t)
      PROVE  \/ /\ Went(t, "changed", "changed_try") /\ old' = [old EXCEPT ![t] = dont_fkill]
                /\ UNCHANGED <<hdr, missed>>
             \/ /\ Returned(t, "changed") /\ hdr' = [hdr EXCEPT ![t] = 0] /\ missed' = TRUE
                /\ UNCHANGED old
    <2>1. pc[t] = "changed" /\ Next2(pc[t], "changed_try")
        BY <1>1 DEF Changed, Next2
    <2> QED BY <2>1, <1>1, GotoMoves, ReturnMoves DEF Changed
<1>2. ASSUME ChangedTry(t)
      PROVE  \/ /\ Moves(t) /\ pc[t] = "changed_try" /\ CanLock(t) /\ folder /\ Lock(t)
                /\ pc'[t] = (IF hdr[t] = 0 THEN "changed_unlock" ELSE "reason")
                /\ UNCHANGED <<old, hdr, missed>>
                /\ \A S : At(S, t)' = At(S, t) - In("changed_try", S)
                                      + In("changed_unlock", S)
                                      + (IF hdr[t] = 0 THEN 0 ELSE In("reason", S))
             \/ /\ Returned(t, "changed_try") /\ old' = [old EXCEPT ![t] = FALSE]
                /\ hdr' = [hdr EXCEPT ![t] = 0] /\ missed' = TRUE /\ UNCHANGED folder_lock
    <2>1. pc[t] = "changed_try"
        BY <1>2 DEF ChangedTry
    <2>2. \A S : hdr[t] * In("reason", S) = IF hdr[t] = 0 THEN 0 ELSE In("reason", S)
        <3>1. hdr[t] \in 0 .. 1 /\ \A S : In("reason", S) \in 0 .. 1
            BY DEF Base, TypeOK, In
        <3> QED BY <3>1
    <2> QED BY <2>1, <2>2, <1>2, TryMoves, ReturnMoves DEF ChangedTry
<1>3. ASSUME ChangedUnlock(t) PROVE Went(t, "changed_unlock", "changed_kill")
    <2>1. /\ pc[t] = "changed_unlock" /\ Next2(pc[t], "changed_kill")
          /\ Goto(t, "changed_kill")
        BY <1>3 DEF ChangedUnlock, Next2
    <2> QED BY <2>1, GotoMoves
<1>4. ASSUME ChangedKill(t)
      PROVE  /\ Called(t, "changed_kill", "reason")
             /\ \A S : At(S, t)' = At(S, t) - In("changed_kill", S) + In("reason", S)
                                   + In("post", S) + In("changed_restore", S)
    BY <1>4, KillMoves DEF ChangedKill
<1>5. ChangedRestore(t) => Returned(t, "changed_restore")
    BY ReturnMoves DEF ChangedRestore
<1> QED BY <1>1, <1>2, <1>3, <1>4, <1>5

\* Where the steps of the application, the main loop, the worker and camel lead.
LEMMA CallFolderPlaces ==
    ASSUME Base, NEW t \in Threads, CallFolder(t)
    PROVE  \/ \E a \in {"get_headers", "refresh", "sync"} :
                 /\ Called(t, "free", a)
                 /\ \A S : At(S, t) = In("free", S) /\ At(S, t)' = In(a, S) + In("free", S)
           \/ \E b \in {"launch_refresh", "launch_headers"} :
                 /\ Called(t, "free", "reason")
                 /\ \A S : /\ At(S, t) = In("free", S)
                           /\ At(S, t)' = In("reason", S) + In(b, S) + In("free", S)
<1>1. PICK a \in Labels, r \in Seq(Labels) :
          /\ Fits(a, r) /\ Call(t, Cons(a, r))
          /\ \/ a \in {"get_headers", "refresh", "sync"} /\ r = Free
             \/ a = "reason" /\ r \in {Cons("launch_refresh", Free), Cons("launch_headers", Free)}
    BY CallFolderMoves
<1>2. /\ Moves(t) /\ pc'[t] = a /\ stack'[t] = r /\ pc[t] = "free"
      /\ \A S : At(S, t)' = In(a, S) + Count(S, r) /\ At(S, t) = In("free", S)
    <2>1. pc[t] = "free"
        BY CallFolderMoves
    <2> QED BY <1>1, <2>1, BeginMoves
<1>3. CASE a \in {"get_headers", "refresh", "sync"} /\ r = Free
    <2>1. \A S : Count(S, r) = In("free", S)
        BY <1>3, EndFacts
    <2> QED BY <2>1, <1>2, <1>3 DEF Called
<1>4. ASSUME NEW b \in {"launch_refresh", "launch_headers"}, a = "reason", r = Cons(b, Free)
      PROVE  /\ Called(t, "free", "reason")
             /\ \A S : /\ At(S, t) = In("free", S)
                       /\ At(S, t)' = In("reason", S) + In(b, S) + In("free", S)
    <2>1. b \in Labels /\ Free \in Seq(Labels) /\ \A S : Count(S, Free) = In("free", S)
        BY EndFacts DEF Labels
    <2> DEFINE f == Free
    <2> HIDE DEF f
    <2>2. Head(Cons(b, f)) = b /\ \A S : Count(S, Cons(b, f)) = In(b, S) + Count(S, f)
        <3>1. b \in Labels /\ f \in Seq(Labels)
            BY <2>1 DEF f
        <3> QED BY <3>1, Label
    <2>4. Head(r) = b /\ \A S : Count(S, r) = In(b, S) + Count(S, Free)
        BY <2>2, <1>4 DEF f
    <2>3. ASSUME NEW S PROVE At(S, t)' = In("reason", S) + In(b, S) + In("free", S)
        <3>1. In("reason", S) \in 0 .. 1 /\ In(b, S) \in 0 .. 1 /\ In("free", S) \in 0 .. 1
            BY DEF In
        <3> QED BY <3>1, <2>1, <2>4, <1>2, <1>4
    <2> QED BY <2>4, <2>3, <1>2, <1>4 DEF Called
<1> QED BY <1>1, <1>3, <1>4

\* The steps of threads that were nowhere lead to the start of something.
LEMMA OutsidePlaces ==
    ASSUME Base
    PROVE  /\ \A t \in Threads : DropHeader(t) =>
                 /\ Called(t, "free", "unreason")
                 /\ \A S : At(S, t) = In("free", S) /\ At(S, t)' = In("unreason", S) + In("free", S)
           /\ \A t \in Threads : FlagHeader(t) =>
                 /\ Called(t, "free", "set_flag")
                 /\ \A S : /\ At(S, t) = In("free", S)
                           /\ At(S, t)' = In("set_flag", S) + In("reason", S) + In("post", S)
                                          + In("free", S)
           /\ RunDone =>
                 /\ Called(Main, "free", "unreason")
                 /\ \A S : /\ At(S, Main) = In("free", S)
                           /\ At(S, Main)' = In("unreason", S) + In("free", S)
           /\ Push =>
                 /\ Called(Camel, "free", "changed")
                 /\ \A S : /\ At(S, Camel) = In("free", S)
                           /\ At(S, Camel)' = In("changed", S) + In("free", S)
<1>1. Main \in Threads /\ Camel \in Threads
    BY DEF Threads, Callers
<1>2. ASSUME NEW t \in Threads, DropHeader(t)
      PROVE  /\ Called(t, "free", "unreason")
             /\ \A S : At(S, t) = In("free", S) /\ At(S, t)' = In("unreason", S) + In("free", S)
    <2>1. pc[t] = "free" /\ Call(t, <<"unreason", "free">>)
        BY <1>2 DEF DropHeader
    <2> QED BY <2>1, BeginTwo DEF Called
<1>3. ASSUME NEW t \in Threads, FlagHeader(t)
      PROVE  /\ Called(t, "free", "set_flag")
             /\ \A S : /\ At(S, t) = In("free", S)
                       /\ At(S, t)' = In("set_flag", S) + In("reason", S) + In("post", S)
                                      + In("free", S)
    BY <1>3, FlagMoves DEF Called
<1>4. ASSUME RunDone
      PROVE  /\ Called(Main, "free", "unreason")
             /\ \A S : /\ At(S, Main) = In("free", S)
                       /\ At(S, Main)' = In("unreason", S) + In("free", S)
    <2>1. pc[Main] = "free" /\ Call(Main, <<"unreason", "free">>)
        BY <1>4 DEF RunDone
    <2> QED BY <2>1, <1>1, BeginTwo DEF Called
<1>5. ASSUME Push
      PROVE  /\ Called(Camel, "free", "changed")
             /\ \A S : /\ At(S, Camel) = In("free", S)
                       /\ At(S, Camel)' = In("changed", S) + In("free", S)
    <2>1. pc[Camel] = "free" /\ Call(Camel, <<"changed", "free">>)
        BY <1>5 DEF Push
    <2> QED BY <2>1, <1>1, BeginTwo DEF Called
<1> QED BY <1>2, <1>3, <1>4, <1>5

\* Every step leads to a place that fits.
LEMMA NextMoves == ASSUME Base, Next PROVE \E t \in Threads : Moves(t)
<1>1. Callers \subseteq Threads /\ {Main, Worker, Camel} \subseteq Threads
    BY DEF Threads, Callers
<1>2. ASSUME NEW t \in Threads, ReasonStep(t) PROVE Moves(t)
    BY <1>2, ReasonStepPlaces DEF ReasonStep, Went, Returned
<1>3. ASSUME NEW t \in Threads, CallStep(t) PROVE Moves(t)
    BY <1>3, LoadStepPlaces, CallStepPlaces DEF CallStep, Went, Returned, Called
<1>4. ASSUME NEW t \in Threads, ChangedStep(t) PROVE Moves(t)
    BY <1>4, ChangedStepPlaces DEF ChangedStep, Went, Returned, Called
<1>5. ASSUME NEW t \in Callers, CallFolder(t) \/ DropHeader(t) \/ FlagHeader(t) PROVE Moves(t)
    BY <1>1, <1>5, CallFolderPlaces, OutsidePlaces DEF Called
<1>6. ASSUME RunSource PROVE Moves(Main)
    BY <1>6, ChangeMoves, OutsidePlaces DEF RunSource, Called
<1>7. Serve => Moves(Worker)
    BY ServeMoves
<1>8. Push => Moves(Camel)
    BY OutsidePlaces DEF Called
<1> QED BY <1>1, <1>2, <1>3, <1>4, <1>5, <1>6, <1>7, <1>8 DEF Next, ThreadStep

-----------------------------------------------------------------------------
\* Types of the data.

DataType ==
    /\ push_cap \in BOOLEAN /\ observed \in BOOLEAN /\ push \in BOOLEAN
    /\ folder \in BOOLEAN /\ msgs \in 0 .. MaxMsgs
    /\ reason_to_live \in Int
    /\ dont_fkill \in BOOLEAN /\ handle_changes \in BOOLEAN
    /\ folder_lock \in [Threads -> Int] /\ reason_lock \subseteq Threads
    /\ headers \in Nat /\ changes \in [0 .. 1 -> Nat] /\ done \in Nat
    /\ waiting \subseteq Items
    /\ tmp \in [Threads -> Int] /\ old \in [Threads -> BOOLEAN]
    /\ hdr \in [Threads -> 0 .. 1] /\ left \in [Threads -> 0 .. MaxMsgs]
    /\ calls \in 0 .. MaxCalls /\ events \in [{"push", "call"} -> 0 .. MaxEvents]
    /\ lost \in BOOLEAN /\ overlapped \in BOOLEAN /\ spared \in BOOLEAN
    /\ missed \in BOOLEAN /\ late \in BOOLEAN

\* folder_lock is held as often as the labels of the thread release it.
Unlocks == {"unlock", "changed_unlock", "get_list", "get_each"}
LockCount == \A t \in Threads : folder_lock[t] = At(Unlocks, t)

\* Types of the data and of the places give the types, and the reverse.
LEMMA TypeParts == TypeOK => DataType /\ PlaceType
BY DEF TypeOK, DataType, PlaceType

\* The types of the data and the places, and the count of the lock, make TypeOK.
LEMMA TypeWhole == ASSUME DataType, PlaceType, LockCount PROVE TypeOK
<1>1. \A t \in Threads : At(Unlocks, t) \in Nat
    BY AtFacts
<1>2. folder_lock \in [Threads -> Nat]
    BY <1>1 DEF DataType, LockCount
<1> QED BY <1>2 DEF TypeOK, DataType, PlaceType

USE DEF vars, kind, locks, flags, loop, locals, bounds, history

\* The steps keep the types of the data.
LEMMA ReasonStepData ==
    ASSUME DataType, PlaceType, NEW t \in Threads, ReasonStep(t)
    PROVE  DataType'
<1>1. CASE Reason(t)
    BY <1>1 DEF DataType, Reason
<1>2. CASE ReasonSet(t)
    BY <1>2 DEF DataType, ReasonSet
<1>3. CASE Unreason(t)
    BY <1>3 DEF DataType, Unreason
<1>4. CASE UnreasonSet(t)
    BY <1>4 DEF DataType, UnreasonSet
<1>5. CASE UnreasonTest(t)
    <2>1. folder' \in BOOLEAN /\ spared' \in BOOLEAN /\ late' \in BOOLEAN
        BY <1>5 DEF DataType, UnreasonTest, UnloadFolder
    <2>2. reason_lock' \subseteq Threads
        BY <1>5 DEF DataType, UnreasonTest
    <2> QED BY <2>1, <2>2, <1>5 DEF DataType, UnreasonTest
<1>6. CASE Unload(t)
    BY <1>6 DEF DataType, Unload, UnloadFolder
<1> QED BY <1>1, <1>2, <1>3, <1>4, <1>5, <1>6 DEF ReasonStep

\* Those of the calls: headers, notifications, items and what camel finds.
LEMMA CallStepData ==
    ASSUME DataType, PlaceType, BoundAssumption, NEW t \in Threads, CallStep(t)
    PROVE  DataType'
<1>1. CASE GetHeaders(t)
    <2>1. folder' \in BOOLEAN /\ push' \in BOOLEAN
        BY <1>1 DEF DataType, GetHeaders, LockAndLoad, Load, LoadFails
    <2>2. folder_lock' \in [Threads -> Int]
        BY <1>1 DEF DataType, GetHeaders, LockAndLoad, Lock
    <2> QED BY <2>1, <2>2, <1>1 DEF DataType, GetHeaders
<1>2. CASE GetList(t)
    BY <1>2 DEF DataType, GetList, BoundAssumption
<1>3. CASE GetEach(t)
    <2>1. left' \in [Threads -> 0 .. MaxMsgs] /\ headers' \in Nat
        <3>1. CASE left[t] = 0
            BY <1>3, <3>1 DEF DataType, GetEach
        <3>2. CASE left[t] # 0
            BY <1>3, <3>2 DEF DataType, GetEach, BoundAssumption
        <3> QED BY <3>1, <3>2
    <2> QED BY <2>1, <1>3 DEF DataType, GetEach
<1>4. CASE Refresh(t)
    <2>1. folder' \in BOOLEAN /\ push' \in BOOLEAN
        BY <1>4 DEF DataType, Refresh, LockAndLoad, Load, LoadFails
    <2>2. folder_lock' \in [Threads -> Int]
        BY <1>4 DEF DataType, Refresh, LockAndLoad, Lock
    <2> QED BY <2>1, <2>2, <1>4 DEF DataType, Refresh
<1>5. CASE Sync(t)
    <2>1. folder' \in BOOLEAN /\ push' \in BOOLEAN
        BY <1>5 DEF DataType, Sync, LockAndLoad, Load, LoadFails
    <2>2. folder_lock' \in [Threads -> Int]
        BY <1>5 DEF DataType, Sync, LockAndLoad, Lock
    <2> QED BY <2>1, <2>2, <1>5 DEF DataType, Sync
<1>6. CASE CamelWorks(t)
    <2>1. CASE UNCHANGED <<msgs, hdr, events>>
        BY <1>6, <2>1 DEF DataType, CamelWorks
    <2>2. CASE Finds(t, "call")
        <3>1. msgs' \in 0 .. MaxMsgs /\ hdr' \in [Threads -> 0 .. 1]
            BY <2>2 DEF DataType, Finds
        <3>2. events' \in [{"push", "call"} -> 0 .. MaxEvents]
            BY <2>2 DEF DataType, Finds, BoundAssumption
        <3> QED BY <3>1, <3>2, <1>6 DEF DataType, CamelWorks
    <2> QED BY <2>1, <2>2, <1>6 DEF CamelWorks
<1>7. CASE Unlock(t)
    BY <1>7 DEF DataType, Unlock, Release
<1>8. CASE Post(t)
    <2>1. changes' \in [0 .. 1 -> Nat] /\ hdr' \in [Threads -> 0 .. 1]
        BY <1>8 DEF DataType, Post
    <2> QED BY <2>1, <1>8 DEF DataType, Post
<1>9. CASE SetFlag(t)
    BY <1>9 DEF DataType, SetFlag
<1>10. CASE LaunchRefresh(t) \/ LaunchHeaders(t)
    <2>1. PICK item \in Items, withdrawn \in SUBSET Items : Launch(t, item, withdrawn)
        BY <1>10 DEF LaunchRefresh, LaunchHeaders, Items
    <2>2. Cardinality(waiting \cap withdrawn) \in Nat
        <3>1. IsFiniteSet(Items)
            <4>1. Items = {"refresh"} \cup {"headers"}
                BY DEF Items
            <4>2. IsFiniteSet({"refresh"}) /\ IsFiniteSet({"headers"})
                BY FS_Singleton
            <4> QED BY <4>1, <4>2, FS_Union
        <3> QED BY <3>1, FS_Subset, FS_CardinalityType DEF DataType
    <2>3. done' \in Nat /\ waiting' \subseteq Items
        BY <2>1, <2>2 DEF DataType, Launch
    <2> QED BY <2>1, <2>3 DEF DataType, Launch
<1>11. CASE RefreshItem(t)
    <2>1. folder' \in BOOLEAN /\ push' \in BOOLEAN
        BY <1>11 DEF DataType, RefreshItem, Load, LoadFails
    <2> QED BY <2>1, <1>11 DEF DataType, RefreshItem
<1>12. CASE Served(t)
    BY <1>12 DEF DataType, Served
<1> QED BY <1>1, <1>2, <1>3, <1>4, <1>5, <1>6, <1>7, <1>8, <1>9, <1>10, <1>11, <1>12 DEF CallStep

\* Those of folder_changed: what it saves, and the header it drops.
LEMMA ChangedStepData ==
    ASSUME DataType, PlaceType, NEW t \in Threads, ChangedStep(t)
    PROVE  DataType'
<1>1. CASE Changed(t)
    <2>1. old' \in [Threads -> BOOLEAN]
        BY <1>1 DEF DataType, Changed
    <2>2. hdr' \in [Threads -> 0 .. 1]
        BY <1>1 DEF DataType, Changed
    <2>3. missed' \in BOOLEAN
        BY <1>1 DEF DataType, Changed
    <2> QED BY <2>1, <2>2, <2>3, <1>1 DEF DataType, Changed
<1>2. CASE ChangedTry(t)
    <2>1. old' \in [Threads -> BOOLEAN]
        BY <1>2 DEF DataType, ChangedTry
    <2>2. hdr' \in [Threads -> 0 .. 1]
        <3>1. hdr' = hdr \/ hdr' = [hdr EXCEPT ![t] = 0]
            BY <1>2 DEF ChangedTry
        <3> QED BY <3>1 DEF DataType
    <2>4. missed' \in BOOLEAN
        <3>1. missed' = missed \/ missed' = TRUE
            BY <1>2 DEF ChangedTry
        <3> QED BY <3>1 DEF DataType
    <2>3. folder_lock' \in [Threads -> Int]
        BY <1>2 DEF DataType, ChangedTry, Lock
    <2>5. UNCHANGED <<kind, push, folder, msgs, reason_to_live, flags, reason_lock, loop, tmp, left,
                      bounds, lost, overlapped, spared, late>>
        BY <1>2, Zenon DEF ChangedTry
    <2> QED BY <2>1, <2>2, <2>3, <2>4, <2>5 DEF DataType
<1>3. CASE ChangedUnlock(t)
    BY <1>3 DEF DataType, ChangedUnlock, Release
<1>4. CASE ChangedKill(t)
    BY <1>4 DEF DataType, ChangedKill
<1>5. CASE ChangedRestore(t)
    BY <1>5 DEF DataType, ChangedRestore
<1> QED BY <1>1, <1>2, <1>3, <1>4, <1>5 DEF ChangedStep

\* Those of the application, the main loop, the worker and camel.
LEMMA OutsideData ==
    ASSUME DataType, PlaceType, BoundAssumption
    PROVE  /\ \A t \in Threads : CallFolder(t) \/ DropHeader(t) \/ FlagHeader(t) => DataType'
           /\ RunSource \/ Serve \/ Push => DataType'
<1>1. ASSUME NEW t \in Threads, CallFolder(t) PROVE DataType'
    <2>1. calls' \in 0 .. MaxCalls
        BY <1>1 DEF DataType, CallFolder, Begin, BoundAssumption
    <2>2. UNCHANGED <<kind, push, folder, msgs, reason_to_live, flags, locks, loop, locals, events,
                      history>>
        BY <1>1, Zenon DEF CallFolder
    <2> QED BY <2>1, <2>2 DEF DataType
<1>2. ASSUME NEW t \in Threads, DropHeader(t) PROVE DataType'
    BY <1>2 DEF DataType, DropHeader
<1>3. ASSUME NEW t \in Threads, FlagHeader(t) PROVE DataType'
    <2>1. calls' \in 0 .. MaxCalls
        BY <1>3 DEF DataType, FlagHeader, Begin, BoundAssumption
    <2> QED BY <2>1, <1>3 DEF DataType, FlagHeader
<1>4. ASSUME NEW n \in 0 .. 1, RunChange(n) PROVE DataType'
    <2>1. changes' \in [0 .. 1 -> Nat] /\ headers' \in Nat
        BY <1>4 DEF DataType, RunChange
    <2> QED BY <2>1, <1>4 DEF DataType, RunChange
<1>5. ASSUME RunDone PROVE DataType'
    BY <1>5 DEF DataType, RunDone
<1>6. ASSUME Serve PROVE DataType'
    <2>1. waiting' \subseteq Items
        BY <1>6 DEF DataType, Serve
    <2>2. folder_lock' \in [Threads -> Int]
        <3>1. Lock(Worker) /\ Worker \in Threads
            BY <1>6 DEF Serve, Threads
        <3> QED BY <3>1 DEF DataType, Lock
    <2> QED BY <2>1, <2>2, <1>6 DEF DataType, Serve
<1>7. ASSUME Push PROVE DataType'
    <2>1. Finds(Camel, "push")
        BY <1>7 DEF Push
    <2>2. msgs' \in 0 .. MaxMsgs /\ hdr' \in [Threads -> 0 .. 1]
        BY <2>1 DEF DataType, Finds
    <2>3. events' \in [{"push", "call"} -> 0 .. MaxEvents]
        BY <2>1 DEF DataType, Finds, BoundAssumption
    <2> QED BY <2>2, <2>3, <1>7 DEF DataType, Push
<1> QED BY <1>1, <1>2, <1>3, <1>4, <1>5, <1>6, <1>7 DEF RunSource

\* Every step keeps the types of the data.
LEMMA NextData == ASSUME DataType, PlaceType, BoundAssumption, Next PROVE DataType'
<1>1. Callers \subseteq Threads
    BY DEF Threads
<1> QED BY <1>1, ReasonStepData, CallStepData, ChangedStepData, OutsideData DEF Next, ThreadStep

-----------------------------------------------------------------------------
\* folder_lock.

\* The labels of the threads that stay.
LEMMA OthersStay ==
    ASSUME NEW t, Stays(t), NEW u \in Threads \ {t}
    PROVE  pc'[u] = pc[u] /\ stack'[u] = stack[u] /\ \A S : At(S, u)' = At(S, u)
BY DEF Stays, At

\* A thread that takes or releases folder_lock adds or removes a label that releases it.
LEMMA LockStep ==
    ASSUME Base, LockCount, NEW t \in Threads, Moves(t),
           \/ /\ folder_lock' = [folder_lock EXCEPT ![t] = @ + 1]
              /\ At(Unlocks, t)' = At(Unlocks, t) + 1
           \/ /\ folder_lock' = [folder_lock EXCEPT ![t] = @ - 1]
              /\ At(Unlocks, t)' = At(Unlocks, t) - 1
    PROVE  LockCount'
<1>1. folder_lock \in [Threads -> Nat]
    BY DEF Base, TypeOK
<1>2. \A u \in Threads \ {t} : At(Unlocks, u)' = At(Unlocks, u)
    BY OthersStay DEF Moves
<1> QED BY <1>1, <1>2 DEF LockCount

\* A thread that leaves folder_lock alone keeps the labels that release it.
LEMMA LockSame ==
    ASSUME Base, LockCount, NEW t \in Threads, Moves(t), UNCHANGED folder_lock,
           At(Unlocks, t)' = At(Unlocks, t)
    PROVE  LockCount'
BY OthersStay DEF Moves, LockCount

\* Which of the labels release folder_lock.
LEMMA UnlocksFacts ==
    /\ \A a \in {"free", "reason", "reason_set", "unreason", "unreason_set", "unreason_test",
                 "unload", "post", "launch_refresh", "launch_headers", "set_flag", "get_headers",
                 "refresh", "sync", "camel", "refresh_item", "served", "changed", "changed_try",
                 "changed_kill", "changed_restore"} : In(a, Unlocks) = 0
    /\ \A a \in Unlocks : In(a, Unlocks) = 1
BY DEF In, Unlocks

\* The steps of the reasons leave folder_lock alone.
LEMMA LockCountReason ==
    ASSUME Base, LockCount, NEW t \in Threads, ReasonStep(t)
    PROVE  LockCount'
<1>1. UNCHANGED folder_lock
    BY DEF ReasonStep, Reason, ReasonSet, Unreason, UnreasonSet, UnreasonTest, Unload
<1>2. \E a \in {"reason", "reason_set", "unreason", "unreason_set", "unreason_test", "unload"} :
          \/ Returned(t, a)
          \/ \E b \in {"reason_set", "unreason_set", "unreason_test", "unload"} : Went(t, a, b)
    BY ReasonStepPlaces DEF ReasonStep
<1>3. Moves(t) /\ At(Unlocks, t)' = At(Unlocks, t)
    <2>1. At(Unlocks, t) \in Nat
        BY BasePlace, AtFacts
    <2> QED BY <2>1, <1>2, UnlocksFacts DEF Went, Returned
<1> QED BY <1>1, <1>3, LockSame

\* A call takes folder_lock with a label that releases it, and releases it at one.
LEMMA LockCountCall ==
    ASSUME Base, LockCount, NEW t \in Threads, CallStep(t)
    PROVE  LockCount'
<1>1. At(Unlocks, t) \in Nat /\ folder_lock \in [Threads -> Nat]
    BY BasePlace, AtFacts DEF Base, TypeOK
<1>2. CASE GetHeaders(t) \/ Refresh(t) \/ Sync(t)
    <2>1. \/ /\ Moves(t) /\ Lock(t)
             /\ At(Unlocks, t)' = At(Unlocks, t) + 1
          \/ Moves(t) /\ UNCHANGED folder_lock /\ At(Unlocks, t)' = At(Unlocks, t)
        BY <1>1, <1>2, LoadStepPlaces, UnlocksFacts DEF Returned, Called, Unlocks
    <2>2. Lock(t) => folder_lock' = [folder_lock EXCEPT ![t] = @ + 1]
        BY DEF Lock
    <2> QED BY <2>1, <2>2, LockStep, LockSame
<1>3. CASE RefreshItem(t)
    <2>1. UNCHANGED folder_lock
        BY <1>3 DEF RefreshItem
    <2>2. Moves(t) /\ At(Unlocks, t)' = At(Unlocks, t)
        BY <1>1, <1>3, LoadStepPlaces, UnlocksFacts DEF Returned, Went
    <2> QED BY <2>1, <2>2, LockSame
<1>4. CASE Unlock(t)
    <2>1. folder_lock' = [folder_lock EXCEPT ![t] = @ - 1]
        BY <1>1, <1>4 DEF Unlock, Release
    <2>2. Moves(t) /\ At(Unlocks, t)' = At(Unlocks, t) - 1
        BY <1>1, <1>4, CallStepPlaces, UnlocksFacts DEF Returned, Unlocks
    <2> QED BY <2>1, <2>2, LockStep
<1>5. CASE GetList(t) \/ GetEach(t) \/ CamelWorks(t)
    <2>1. UNCHANGED folder_lock
        BY <1>5 DEF GetList, GetEach, CamelWorks
    <2>2. Moves(t) /\ At(Unlocks, t)' = At(Unlocks, t)
        BY <1>1, <1>5, CallStepPlaces, UnlocksFacts DEF Returned, Went, Called, Unlocks
    <2> QED BY <2>1, <2>2, LockSame
<1>6. CASE Post(t) \/ SetFlag(t) \/ Served(t) \/ LaunchRefresh(t) \/ LaunchHeaders(t)
    <2>1. UNCHANGED folder_lock
        BY <1>6 DEF Post, SetFlag, Served, LaunchRefresh, LaunchHeaders, Launch
    <2>2. Moves(t) /\ At(Unlocks, t)' = At(Unlocks, t)
        BY <1>1, <1>6, CallStepPlaces, UnlocksFacts DEF Returned
    <2> QED BY <2>1, <2>2, LockSame
<1> QED BY <1>2, <1>3, <1>4, <1>5, <1>6 DEF CallStep

\* So does folder_changed.
LEMMA LockCountChanged ==
    ASSUME Base, LockCount, NEW t \in Threads, ChangedStep(t)
    PROVE  LockCount'
<1>1. At(Unlocks, t) \in Nat /\ folder_lock \in [Threads -> Nat] /\ hdr[t] \in 0 .. 1
    BY BasePlace, AtFacts DEF Base, TypeOK
<1>2. CASE ChangedTry(t)
    <2>1. \/ Moves(t) /\ Lock(t) /\ At(Unlocks, t)' = At(Unlocks, t) + 1
          \/ Moves(t) /\ UNCHANGED folder_lock /\ At(Unlocks, t)' = At(Unlocks, t)
        <3>1. \/ /\ Moves(t) /\ Lock(t)
                 /\ At(Unlocks, t)' = At(Unlocks, t) - In("changed_try", Unlocks)
                                      + In("changed_unlock", Unlocks)
                                      + (IF hdr[t] = 0 THEN 0 ELSE In("reason", Unlocks))
              \/ Returned(t, "changed_try") /\ UNCHANGED folder_lock
            BY <1>2, ChangedStepPlaces
        <3> QED BY <3>1, <1>1, UnlocksFacts DEF Returned, Unlocks
    <2>2. Lock(t) => folder_lock' = [folder_lock EXCEPT ![t] = @ + 1]
        BY DEF Lock
    <2> QED BY <2>1, <2>2, LockStep, LockSame
<1>3. CASE ChangedUnlock(t)
    <2>1. folder_lock' = [folder_lock EXCEPT ![t] = @ - 1]
        BY <1>1, <1>3 DEF ChangedUnlock, Release
    <2>2. Moves(t) /\ At(Unlocks, t)' = At(Unlocks, t) - 1
        <3>1. Went(t, "changed_unlock", "changed_kill")
            BY <1>3, ChangedStepPlaces
        <3> QED BY <3>1, <1>1, UnlocksFacts DEF Went, Unlocks
    <2> QED BY <2>1, <2>2, LockStep
<1>4. CASE Changed(t) \/ ChangedKill(t) \/ ChangedRestore(t)
    <2>1. UNCHANGED folder_lock
        BY <1>4 DEF Changed, ChangedKill, ChangedRestore
    <2>2. Moves(t) /\ At(Unlocks, t)' = At(Unlocks, t)
        <3>1. \/ Went(t, "changed", "changed_try")
              \/ Returned(t, "changed") \/ Returned(t, "changed_restore")
              \/ /\ Called(t, "changed_kill", "reason")
                 /\ \A S : At(S, t)' = At(S, t) - In("changed_kill", S) + In("reason", S)
                                       + In("post", S) + In("changed_restore", S)
            BY <1>4, ChangedStepPlaces
        <3> QED BY <3>1, <1>1, UnlocksFacts DEF Went, Returned, Called
    <2> QED BY <2>1, <2>2, LockSame
<1> QED BY <1>2, <1>3, <1>4 DEF ChangedStep

\* The worker takes folder_lock for an item; the others leave it alone.
LEMMA LockCountOutside ==
    ASSUME Base, LockCount
    PROVE  /\ \A t \in Threads : CallFolder(t) \/ DropHeader(t) \/ FlagHeader(t) => LockCount'
           /\ RunSource \/ Serve \/ Push => LockCount'
<1>1. Main \in Threads /\ Worker \in Threads /\ Camel \in Threads
    BY DEF Threads, Callers
<1>2. ASSUME NEW t \in Threads, CallFolder(t) \/ DropHeader(t) \/ FlagHeader(t)
      PROVE  LockCount'
    <2>1. UNCHANGED folder_lock
        BY <1>2 DEF CallFolder, DropHeader, FlagHeader
    <2>2. Moves(t) /\ At(Unlocks, t)' = At(Unlocks, t)
        BY <1>2, CallFolderPlaces, OutsidePlaces, UnlocksFacts DEF Called
    <2> QED BY <2>1, <2>2, LockSame
<1>3. ASSUME NEW n \in 0 .. 1, RunChange(n) PROVE LockCount'
    <2>1. UNCHANGED folder_lock
        BY <1>3 DEF RunChange
    <2>2. PICK kept \in 0 .. n :
              /\ Moves(Main)
              /\ At(Unlocks, Main)' = (n - kept + 1) * In("unreason", Unlocks) + In("free", Unlocks)
              /\ At(Unlocks, Main) = In("free", Unlocks)
        BY <1>3, ChangeMoves
    <2>3. (n - kept + 1) * In("unreason", Unlocks) = 0
        BY UnlocksFacts
    <2> QED BY <2>1, <2>2, <2>3, <1>1, UnlocksFacts, LockSame
<1>4. ASSUME RunDone \/ Push PROVE LockCount'
    <2>1. UNCHANGED folder_lock
        BY <1>4 DEF RunDone, Push
    <2>2. \E t \in {Main, Camel} : Moves(t) /\ At(Unlocks, t)' = At(Unlocks, t)
        BY <1>4, OutsidePlaces, UnlocksFacts DEF Called
    <2> QED BY <2>1, <2>2, <1>1, LockSame
<1>5. ASSUME Serve PROVE LockCount'
    <2>1. folder_lock' = [folder_lock EXCEPT ![Worker] = @ + 1]
        BY <1>5 DEF Serve, Lock
    <2>2. PICK a \in {"refresh_item", "get_headers"} :
              /\ Moves(Worker)
              /\ \A S : /\ At(S, Worker)' = In(a, S) + In("unlock", S) + In("served", S)
                                            + In("free", S)
                        /\ At(S, Worker) = In("free", S)
        BY <1>5, ServeMoves
    <2>3. At(Unlocks, Worker)' = At(Unlocks, Worker) + 1
        BY <2>2, UnlocksFacts DEF Unlocks
    <2> QED BY <2>1, <2>2, <2>3, <1>1, LockStep
<1> QED BY <1>2, <1>3, <1>4, <1>5 DEF RunSource

\* Types, places and the count of folder_lock hold in every state.
BaseInv == Base /\ LockCount

\* At the start all threads are nowhere, without locks.
LEMMA BaseInit == ASSUME ThreadsAssumption, BoundAssumption, Init PROVE BaseInv
<1>1. PlaceType
    BY DEF Init, PlaceType, Labels
<1>4. DataType
    <2>6. observed \in BOOLEAN
        <3>1. push_cap \in BOOLEAN /\ (observed = FALSE \/ observed = push_cap)
            BY DEF Init
        <3> QED BY <3>1
    <2>1. /\ push_cap \in BOOLEAN /\ push \in BOOLEAN
          /\ folder \in BOOLEAN /\ dont_fkill \in BOOLEAN /\ handle_changes \in BOOLEAN
        BY DEF Init
    <2>7. msgs \in 0 .. MaxMsgs /\ reason_to_live \in Int
        BY DEF Init
    <2>2. /\ folder_lock \in [Threads -> Int] /\ reason_lock \subseteq Threads
          /\ headers \in Nat /\ changes \in [0 .. 1 -> Nat] /\ done \in Nat
          /\ waiting \subseteq Items
        BY DEF Init
    <2>3. /\ tmp \in [Threads -> Int] /\ old \in [Threads -> BOOLEAN]
          /\ hdr \in [Threads -> 0 .. 1] /\ left \in [Threads -> 0 .. MaxMsgs]
        BY DEF Init, BoundAssumption
    <2>4. calls \in 0 .. MaxCalls /\ events \in [{"push", "call"} -> 0 .. MaxEvents]
        BY DEF Init, BoundAssumption
    <2>5. /\ lost \in BOOLEAN /\ overlapped \in BOOLEAN /\ spared \in BOOLEAN
          /\ missed \in BOOLEAN /\ late \in BOOLEAN
        BY DEF Init
    <2> QED BY <2>1, <2>2, <2>3, <2>4, <2>5, <2>6, <2>7 DEF DataType
<1>2. FrameInv
    BY DEF Init, FrameInv, Fits
<1>3. LockCount
    <2>1. ASSUME NEW t \in Threads PROVE folder_lock[t] = At(Unlocks, t)
        <3>1. pc[t] = "free" /\ stack[t] = <<>> /\ folder_lock[t] = 0
            BY DEF Init
        <3>2. Count(Unlocks, stack[t]) = 0 /\ In(pc[t], Unlocks) = 0
            BY <3>1, CountEmpty, UnlocksFacts
        <3> QED BY <3>1, <3>2, <1>1, AtFacts
    <2> QED BY <2>1 DEF LockCount
<1> QED BY <1>1, <1>2, <1>3, <1>4, TypeWhole DEF BaseInv, Base

\* Types, places and the count of folder_lock are inductive.
LEMMA BaseStep == ASSUME BoundAssumption, BaseInv, [Next]_vars PROVE BaseInv'
<1>1. CASE Next
    <2>1. Base /\ LockCount /\ DataType /\ PlaceType
        BY TypeParts DEF BaseInv, Base
    <2>2. DataType'
        BY <1>1, <2>1, NextData
    <2>3. PICK t \in Threads : Moves(t)
        BY <1>1, <2>1, NextMoves
    <2>4. PlaceType' /\ FrameInv'
        BY <2>1, <2>3 DEF Moves, Stays, FrameInv, Base
    <2>5. LockCount'
        <3>1. Callers \subseteq Threads
            BY DEF Threads
        <3> QED BY <3>1, <1>1, <2>1, LockCountReason, LockCountCall, LockCountChanged,
                   LockCountOutside DEF Next, ThreadStep
    <2>6. TypeOK'
        <3>1. (DataType /\ PlaceType /\ LockCount => TypeOK)'
            BY TypeWhole, PTL
        <3> QED BY <3>1, <2>2, <2>4, <2>5
    <2> QED BY <2>4, <2>5, <2>6 DEF BaseInv, Base
<1>2. CASE UNCHANGED vars
    BY <1>2 DEF BaseInv, Base, TypeOK, FrameInv, LockCount, At
<1> QED BY <1>1, <1>2

\* Every variable has its type: folder_lock is never released by a thread that does
\* not hold it, headers are not given back twice, and the counts stay naturals.
THEOREM FolderTypeCorrect == Spec => []TypeOK
<1>1. Init => BaseInv
    BY BaseInit, ThreadsAssumption, BoundAssumption
<1>2. BaseInv /\ [Next]_vars => BaseInv'
    BY BaseStep, BoundAssumption
<1>3. BaseInv => TypeOK
    BY DEF BaseInv, Base
<1> QED BY <1>1, <1>2, <1>3, PTL DEF Spec

-----------------------------------------------------------------------------
\* What the labels of a thread promise.

Takes == {"reason", "reason_set"}
Gives ==
    {"unreason", "unreason_set", "get_list", "get_each", "post", "served", "launch_refresh",
     "launch_headers"}
Watch == {"changed_unlock", "changed_kill", "changed_restore"}
Begins == {"changed", "changed_try"}
Loaded == {"camel", "get_list", "changed_unlock"}

\* The labels of the ends and of the rests, one by one.
LEMMA BottomCounts ==
    ASSUME NEW b \in Bottoms
    PROVE  /\ b \in Seq(Labels) /\ Head(b) \in {"free", "unlock"}
           /\ \/ \A S : Count(S, b) = In("free", S)
              \/ \A S : Count(S, b) = In("unlock", S) + In("served", S) + In("free", S)
<1>1. \A S : In("unlock", S) \in 0 .. 1 /\ In("served", S) \in 0 .. 1 /\ In("free", S) \in 0 .. 1
    BY DEF In
<1>2. CASE b = Free
    BY <1>2, EndFacts
<1>3. CASE b = Item
    <2>1. \A S : Count(S, b) = In("unlock", S) + (In("served", S) + In("free", S))
        BY <1>3, EndFacts
    <2>2. Head(b) = "unlock"
        <3>1. Cons("served", Free) \in Seq(Labels) /\ "unlock" \in Labels
            BY EndFacts DEF Labels
        <3> QED BY <3>1, <1>3, Label DEF Item
    <2>3. \A S : Count(S, b) = In("unlock", S) + In("served", S) + In("free", S)
        BY <2>1, <1>1
    <2> QED BY <2>2, <2>3, <1>3, EndFacts
<1> QED BY <1>2, <1>3 DEF Bottoms

\* The labels that camel returns to, one by one.
LEMMA RestCounts ==
    ASSUME NEW r \in Rests
    PROVE  /\ r \in Seq(Labels)
           /\ \/ Head(r) \in {"free", "unlock", "get_list"}
              \/ Head(r) = "reason" /\ Head(Tail(r)) = "reason"
           /\ \/ \A S : Count(S, r) = In("free", S)
              \/ \A S : Count(S, r) = In("unlock", S) + In("served", S) + In("free", S)
              \/ \A S : Count(S, r) = In("get_list", S) + In("free", S)
              \/ \A S : Count(S, r) = In("get_list", S) + In("unlock", S) + In("served", S)
                                      + In("free", S)
              \/ \A S : Count(S, r) = In("unlock", S) + In("reason", S) + In("post", S)
                                      + In("free", S)
              \/ \A S : Count(S, r) = In("reason", S) + In("reason", S) + In("post", S)
                                      + In("unreason", S) + In("unlock", S) + In("free", S)
<1>1. {"get_list", "unlock", "reason"} \subseteq Labels
    BY DEF Labels
<1>2. \A S : /\ In("unlock", S) \in 0 .. 1 /\ In("served", S) \in 0 .. 1
             /\ In("free", S) \in 0 .. 1 /\ In("get_list", S) \in 0 .. 1
             /\ In("reason", S) \in 0 .. 1 /\ In("post", S) \in 0 .. 1
             /\ In("unreason", S) \in 0 .. 1
    BY DEF In
<1>3. r \in Seq(Labels)
    BY RestFacts
<1>4. CASE r \in Bottoms
    BY <1>4, BottomCounts
<1>5. ASSUME NEW b \in Bottoms, r = Cons("get_list", b)
      PROVE  /\ Head(r) = "get_list"
             /\ \/ \A S : Count(S, r) = In("get_list", S) + In("free", S)
                \/ \A S : Count(S, r) = In("get_list", S) + In("unlock", S) + In("served", S)
                                        + In("free", S)
    <2>1. b \in Seq(Labels)
        BY BottomCounts
    <2>5. /\ Head(Cons("get_list", b)) = "get_list"
          /\ \A S : Count(S, Cons("get_list", b)) = In("get_list", S) + Count(S, b)
        BY <2>1, <1>1, Label
    <2>2. Head(r) = "get_list" /\ \A S : Count(S, r) = In("get_list", S) + Count(S, b)
        BY <2>5, <1>5
    <2>3. CASE \A S : Count(S, b) = In("free", S)
        BY <2>2, <2>3
    <2>4. CASE \A S : Count(S, b) = In("unlock", S) + In("served", S) + In("free", S)
        <3>1. \A S : Count(S, r) = In("get_list", S) + In("unlock", S) + In("served", S)
                                   + In("free", S)
            BY <2>2, <2>4, <1>2
        <3> QED BY <3>1, <2>2
    <2> QED BY <2>3, <2>4, BottomCounts
<1>6. CASE r = Cons("unlock", Cons("reason", Tells))
    <2> DEFINE q == Cons("reason", Tells)
    <2>1. q \in Seq(Labels) /\ \A S : Count(S, q) = In("reason", S) + Count(S, Tells)
        BY <1>1, EndFacts, Label
    <2> HIDE DEF q
    <2>2. /\ Head(Cons("unlock", q)) = "unlock"
          /\ \A S : Count(S, Cons("unlock", q)) = In("unlock", S) + Count(S, q)
        BY <2>1, <1>1, Label
    <2>3. \A S : Count(S, Tells) = In("post", S) + In("free", S)
        BY EndFacts
    <2>4. \A S : Count(S, r) = In("unlock", S) + In("reason", S) + In("post", S) + In("free", S)
        BY <2>1, <2>2, <2>3, <1>2, <1>6 DEF q
    <2> QED BY <2>2, <2>4, <1>3, <1>6 DEF q
<1>7. CASE r = Cons("reason", Cons("reason", SyncTells))
    <2> DEFINE q == Cons("reason", SyncTells)
    <2>1. /\ q \in Seq(Labels) /\ Head(q) = "reason"
          /\ \A S : Count(S, q) = In("reason", S) + Count(S, SyncTells)
        BY <1>1, EndFacts, Label
    <2> HIDE DEF q
    <2>5. "reason" \in Labels
        BY <1>1
    <2>2. /\ Head(Cons("reason", q)) = "reason" /\ Tail(Cons("reason", q)) = q
          /\ \A S : Count(S, Cons("reason", q)) = In("reason", S) + Count(S, q)
        BY <2>1, <2>5, Label
    <2>3. \A S : Count(S, SyncTells) =
              In("post", S) + (In("unreason", S) + (In("unlock", S) + In("free", S)))
        BY EndFacts
    <2>4. \A S : Count(S, r) = In("reason", S) + In("reason", S) + In("post", S)
                               + In("unreason", S) + In("unlock", S) + In("free", S)
        BY <2>1, <2>2, <2>3, <1>2, <1>7 DEF q
    <2> QED BY <2>1, <2>2, <2>4, <1>3, <1>7 DEF q
<1> QED BY <1>3, <1>4, <1>5, <1>6, <1>7, RestFacts DEF Bottoms

\* Where a thread returns to.
LEMMA FitHeads ==
    ASSUME NEW a, NEW q, Fits(a, q), a # "free"
    PROVE  /\ Head(q) \in {"free", "unlock", "get_list", "get_each", "camel", "post", "reason",
                           "served", "unreason", "launch_refresh", "launch_headers",
                           "changed_unlock", "changed_restore"}
           /\ Head(q) = "changed_restore" => a = "post"
           /\ Head(q) = "reason" => Head(Tail(q)) # "changed_unlock"
           /\ Head(q) = "changed_unlock" => a \in Takes
           /\ Head(q) = "camel" => a \in Takes
<1>1. {"free", "unlock", "get_list", "get_each", "camel", "post", "reason", "served", "unreason",
       "launch_refresh", "launch_headers", "changed_unlock", "changed_restore"} \subseteq Labels
    BY DEF Labels
<1>2. /\ Head(Free) = "free" /\ Head(Tells) = "post" /\ Head(SyncTells) = "post"
      /\ Head(Cons("served", Free)) = "served" /\ Head(Cons("unreason", Free)) = "unreason"
      /\ Head(Cons("launch_refresh", Free)) = "launch_refresh"
      /\ Head(Cons("launch_headers", Free)) = "launch_headers"
      /\ Head(Cons("unreason", Cons("unlock", Free))) = "unreason"
      /\ Head(Cons("reason", Tells)) = "reason" /\ Tail(Cons("reason", Tells)) = Tells
      /\ Head(Cons("reason", SyncTells)) = "reason" /\ Tail(Cons("reason", SyncTells)) = SyncTells
    BY <1>1, EndFacts, Label DEF Tells, SyncTells
<1>3. ASSUME NEW b \in Bottoms
      PROVE  /\ Head(b) \in {"free", "unlock"} /\ Head(Cons("unlock", b)) = "unlock"
             /\ Head(Cons("get_each", b)) = "get_each"
             /\ Head(Cons("camel", Cons("get_list", b))) = "camel"
    <2>1. b \in Seq(Labels) /\ Cons("get_list", b) \in Seq(Labels)
        BY <1>1, BottomCounts, Label
    <2> DEFINE c == Cons("get_list", b)
    <2> HIDE DEF c
    <2>2. Head(Cons("camel", c)) = "camel"
        <3>1. c \in Seq(Labels)
            BY <2>1 DEF c
        <3> QED BY <3>1, <1>1, Label
    <2> QED BY <2>1, <2>2, <1>1, BottomCounts, Label DEF c
<1>4. ASSUME NEW r \in Rests
      PROVE  /\ Head(r) \in {"free", "unlock", "get_list", "reason"}
             /\ Head(r) = "reason" => Head(Tail(r)) # "changed_unlock"
             /\ Head(Cons("changed_unlock", r)) = "changed_unlock"
             /\ Head(Cons("changed_restore", r)) = "changed_restore"
             /\ Head(Cons("post", Cons("changed_restore", r))) = "post"
    <2>1. r \in Seq(Labels) /\ Cons("changed_restore", r) \in Seq(Labels)
        BY <1>1, RestCounts, Label
    <2> DEFINE c == Cons("changed_restore", r)
    <2> HIDE DEF c
    <2>2. Head(Cons("post", c)) = "post"
        <3>1. c \in Seq(Labels)
            BY <2>1 DEF c
        <3> QED BY <3>1, <1>1, Label
    <2>3. /\ Head(Cons("changed_unlock", r)) = "changed_unlock"
          /\ Head(Cons("changed_restore", r)) = "changed_restore"
        BY <2>1, <1>1, Label
    <2> QED BY <2>2, <2>3, RestCounts DEF c
<1>5. CASE a \in {"reason", "reason_set"}
    <2>1. \/ \E b \in Bottoms : q \in {Cons("camel", Cons("get_list", b)), Cons("get_each", b)}
          \/ q \in {Tells, Cons("reason", SyncTells), SyncTells,
                    Cons("launch_refresh", Free), Cons("launch_headers", Free)}
          \/ \E r \in Rests :
                q \in {Cons("changed_unlock", r), Cons("post", Cons("changed_restore", r))}
        BY <1>5 DEF Fits
    <2>2. CASE \E b \in Bottoms : q \in {Cons("camel", Cons("get_list", b)), Cons("get_each", b)}
        BY <2>2, <1>3, <1>5 DEF Takes
    <2>3. CASE q \in {Tells, Cons("reason", SyncTells), SyncTells,
                      Cons("launch_refresh", Free), Cons("launch_headers", Free)}
        BY <2>3, <1>2, <1>5 DEF Takes
    <2>4. CASE \E r \in Rests :
                  q \in {Cons("changed_unlock", r), Cons("post", Cons("changed_restore", r))}
        BY <2>4, <1>4, <1>5 DEF Takes
    <2> QED BY <2>1, <2>2, <2>3, <2>4
<1>6. CASE a \in {"unreason", "unreason_set", "unreason_test", "unload"}
    <2>1. \/ q = Free \/ q = Cons("unreason", Free)
          \/ \E b \in Bottoms : q = Cons("unlock", b)
        BY <1>6 DEF Fits
    <2>2. Head(q) \in {"free", "unreason", "unlock"}
        <3>1. CASE q = Free \/ q = Cons("unreason", Free)
            BY <3>1, <1>2
        <3>2. CASE \E b \in Bottoms : q = Cons("unlock", b)
            BY <3>2, <1>3
        <3> QED BY <2>1, <3>1, <3>2
    <2> QED BY <2>2
<1>7. CASE a = "post"
    <2>1. \/ q \in {Free, Cons("unreason", Cons("unlock", Free))}
          \/ \E r \in Rests : q = Cons("changed_restore", r)
        BY <1>7 DEF Fits
    <2> QED BY <2>1, <1>2, <1>4, <1>7
<1>8. CASE a \in {"launch_refresh", "launch_headers", "refresh", "sync", "served"}
    BY <1>2, <1>8 DEF Fits
<1>9. CASE a \in {"set_flag", "get_headers", "get_list", "get_each", "refresh_item"}
    <2>1. q = Cons("reason", Tells) \/ q \in Bottoms
        BY <1>9 DEF Fits, Bottoms
    <2>2. CASE q = Cons("reason", Tells)
        BY <2>2, <1>2
    <2>3. CASE q \in Bottoms
        BY <2>3, <1>3
    <2> QED BY <2>1, <2>2, <2>3
<1>10. CASE a = "unlock"
    <2>1. q \in Bottoms \/ q = Cons("served", Free) \/ q = Cons("reason", Tells)
        BY <1>10 DEF Fits
    <2>2. CASE q \in Bottoms
        BY <2>2, <1>3
    <2>3. CASE q = Cons("served", Free)
        BY <2>3, <1>2
    <2>4. CASE q = Cons("reason", Tells)
        BY <2>4, <1>2
    <2> QED BY <2>1, <2>2, <2>3, <2>4
<1>11. CASE a \in {"camel", "changed", "changed_try", "changed_unlock", "changed_kill",
                   "changed_restore"}
    <2>1. q \in Rests
        BY <1>11 DEF Fits, Rests
    <2> QED BY <2>1, <1>4
<1> QED BY <1>5, <1>6, <1>7, <1>8, <1>9, <1>10, <1>11 DEF Fits

\* The promises of the ends and of the rests.
LEMMA BottomSums ==
    ASSUME NEW b \in Bottoms
    PROVE  /\ Count(Begins, b) = 0 /\ Count(Watch, b) = 0 /\ Count(Loaded, b) = 0
           /\ Count(Takes, b) = 0 /\ Count(Gives, b) \in Nat /\ Count({"get_each"}, b) = 0
           /\ Count({"changed_restore"}, b) = 0
<1>1. \/ \A S : Count(S, b) = In("free", S)
      \/ \A S : Count(S, b) = In("unlock", S) + In("served", S) + In("free", S)
    BY BottomCounts
<1> QED BY <1>1 DEF In, Begins, Watch, Loaded, Takes, Gives

\* The promises of what camel and folder_changed return to.
LEMMA RestSums ==
    ASSUME NEW r \in Rests
    PROVE  /\ Count(Begins, r) = 0 /\ Count(Watch, r) = 0 /\ Count({"changed_restore"}, r) = 0
           /\ Count(Takes, r) \in Nat /\ Count(Gives, r) \in Nat /\ Count(Unlocks, r) \in Nat
           /\ Count(Takes, r) <= Count(Gives, r) /\ Count(Loaded, r) <= Count(Unlocks, r)
<1>1. \/ \A S : Count(S, r) = In("free", S)
      \/ \A S : Count(S, r) = In("unlock", S) + In("served", S) + In("free", S)
      \/ \A S : Count(S, r) = In("get_list", S) + In("free", S)
      \/ \A S : Count(S, r) = In("get_list", S) + In("unlock", S) + In("served", S) + In("free", S)
      \/ \A S : Count(S, r) = In("unlock", S) + In("reason", S) + In("post", S) + In("free", S)
      \/ \A S : Count(S, r) = In("reason", S) + In("reason", S) + In("post", S)
                              + In("unreason", S) + In("unlock", S) + In("free", S)
    BY RestCounts
<1>2. /\ Count(Begins, r) = 0 /\ Count(Watch, r) = 0 /\ Count({"changed_restore"}, r) = 0
    BY <1>1 DEF In, Begins, Watch
<1>3. /\ Count(Takes, r) \in Nat /\ Count(Gives, r) \in Nat /\ Count(Takes, r) <= Count(Gives, r)
    BY <1>1 DEF In, Takes, Gives
<1>4. Count(Unlocks, r) \in Nat /\ Count(Loaded, r) <= Count(Unlocks, r)
    BY <1>1 DEF In, Unlocks, Loaded
<1> QED BY <1>2, <1>3, <1>4


\* Camel has folder_lock in a call.
LEMMA CallSums == ASSUME NEW r \in CallRests PROVE r \in Rests /\ Count(Unlocks, r) > 0
<1>1. r \in Rests /\ {"get_list", "unlock", "reason"} \subseteq Labels
    BY DEF Rests, Labels
<1>6. "unlock" \in Labels /\ "reason" \in Labels /\ In("unlock", Unlocks) = 1
    BY <1>1 DEF In, Unlocks
<1>2. CASE r = Item
    <2>1. Count(Unlocks, Item) =
              In("unlock", Unlocks) + (In("served", Unlocks) + In("free", Unlocks))
        BY EndFacts
    <2> QED BY <2>1, <1>1, <1>2 DEF In, Unlocks
<1>3. ASSUME NEW b \in Bottoms, r = Cons("get_list", b) PROVE Count(Unlocks, r) > 0
    <2>1. b \in Seq(Labels)
        BY BottomCounts
    <2>2. Count(Unlocks, Cons("get_list", b)) = In("get_list", Unlocks) + Count(Unlocks, b)
        BY <2>1, <1>1, Label
    <2>3. Count(Unlocks, b) \in Nat
        BY <2>1, <1>1, Label
    <2> QED BY <2>2, <2>3, <1>3 DEF In, Unlocks
<1>4. CASE r = Cons("unlock", Cons("reason", Tells))
    <2> DEFINE q == Cons("reason", Tells)
    <2>1. q \in Seq(Labels)
        BY EndFacts
    <2> HIDE DEF q
    <2>2. /\ Count(Unlocks, Cons("unlock", q)) = In("unlock", Unlocks) + Count(Unlocks, q)
          /\ Count(Unlocks, q) \in Nat
        BY <2>1, <1>6, Label
    <2> QED BY <2>2, <1>1, <1>4, <1>6 DEF q
<1>5. CASE r = Cons("reason", Cons("reason", SyncTells))
    <2> DEFINE q == Cons("reason", SyncTells)
    <2>1. q \in Seq(Labels) /\ Count(Unlocks, q) = In("reason", Unlocks) + Count(Unlocks, SyncTells)
        BY <1>1, EndFacts, Label
    <2> HIDE DEF q
    <2>2. Count(Unlocks, Cons("reason", q)) = In("reason", Unlocks) + Count(Unlocks, q)
        BY <2>1, <1>6, Label
    <2>4. /\ In("reason", Unlocks) = 0 /\ In("post", Unlocks) = 0 /\ In("unreason", Unlocks) = 0
          /\ In("unlock", Unlocks) = 1 /\ In("free", Unlocks) = 0
        BY UnlocksFacts DEF Unlocks
    <2>3. Count(Unlocks, SyncTells) =
              In("post", Unlocks) + (In("unreason", Unlocks) + (In("unlock", Unlocks)
                                                                + In("free", Unlocks)))
        BY EndFacts
    <2> QED BY <2>1, <2>2, <2>3, <2>4, <1>1, <1>5 DEF q
<1> QED BY <1>1, <1>2, <1>3, <1>4, <1>5 DEF CallRests

\* What a thread at a that returns to q promises: a change begins at a only; what takes
\* folder_lock down has no call or change behind it; a thread gives the reasons that it
\* takes, but for the one that the header of a change has; and camel and the list of the
\* headers are reached with folder_lock.
Sums(a, q) ==
    /\ Count(Begins, q) = 0
    /\ a \in {"camel"} \cup Begins \cup Watch =>
           Count(Watch, q) = 0 /\ Count({"changed_restore"}, q) = 0
    /\ a \in {"unreason", "unreason_set", "unreason_test", "unload"} =>
           Count(Loaded, q) = 0 /\ Count({"get_each"}, q) = 0 /\ Count(Watch, q) = 0
    /\ a \in Takes /\ Head(q) = "changed_unlock" => Count(Watch, q) > 0
    /\ In(a, Takes) + Count(Takes, q) <=
           In(a, Gives) + Count(Gives, q)
           + (IF a \in Takes /\ Head(q) = "changed_unlock" THEN 1 ELSE 0)
    /\ In(a, Loaded) + Count(Loaded, q) > 0 => In(a, Unlocks) + Count(Unlocks, q) > 0

\* The labels of a thread promise that.
LEMMA SumsOfTakes == ASSUME NEW a \in Takes, NEW q, Fits(a, q) PROVE Sums(a, q)
<1>1. {"get_list", "get_each", "camel", "post", "reason", "launch_refresh", "launch_headers",
       "changed_unlock", "changed_restore"} \subseteq Labels
    BY DEF Labels
<1>2. /\ In(a, Takes) = 1 /\ In(a, Gives) = 0 /\ In(a, Loaded) = 0 /\ In(a, Unlocks) = 0
      /\ a \notin {"camel"} \cup Begins \cup Watch
      /\ a \notin {"unreason", "unreason_set", "unreason_test", "unload"}
    BY DEF In, Takes, Gives, Loaded, Unlocks, Begins, Watch
<1>9. \A S : Count(S, q) \in Nat
    <2>1. q \in Seq(Labels)
        BY FitFacts
    <2> QED BY <2>1, <1>1, Label
<1>3. ASSUME NEW b \in Bottoms, q = Cons("camel", Cons("get_list", b)) PROVE Sums(a, q)
    <2> DEFINE c == Cons("get_list", b)
    <2>1. b \in Seq(Labels)
        BY BottomCounts
    <2>2. c \in Seq(Labels) /\ \A S : Count(S, c) = In("get_list", S) + Count(S, b)
        BY <2>1, <1>1, Label
    <2> HIDE DEF c
    <2>3. \A S : Count(S, Cons("camel", c)) = In("camel", S) + Count(S, c)
        BY <2>2, <1>1, Label
    <2>4. \A S : Count(S, b) \in Nat
        BY <2>1, <1>1, Label
    <2>5. Head(Cons("camel", c)) = "camel"
        BY <2>2, <1>1, Label
    <2>6. /\ Count(Begins, q) = 0 /\ Count(Takes, q) = 0 /\ Count(Gives, q) >= 1
          /\ Count(Unlocks, q) > 0
        BY <2>2, <2>3, <2>4, <1>3, BottomSums DEF c, In, Begins, Takes, Gives, Unlocks
    <2>7. Count(Gives, q) \in Nat /\ Count(Unlocks, q) \in Nat
        BY <1>9
    <2> QED BY <2>5, <2>6, <2>7, <1>2, <1>3 DEF c, Sums
<1>4. ASSUME NEW b \in Bottoms, q = Cons("get_each", b) PROVE Sums(a, q)
    <2>1. b \in Seq(Labels)
        BY BottomCounts
    <2>2. /\ Head(Cons("get_each", b)) = "get_each"
          /\ \A S : Count(S, Cons("get_each", b)) = In("get_each", S) + Count(S, b)
        BY <2>1, <1>1, Label
    <2>4. \A S : Count(S, b) \in Nat
        BY <2>1, <1>1, Label
    <2>6. /\ Count(Begins, q) = 0 /\ Count(Takes, q) = 0 /\ Count(Gives, q) >= 1
          /\ Count(Unlocks, q) > 0
        BY <2>2, <2>4, <1>4, BottomSums DEF In, Begins, Takes, Gives, Unlocks
    <2>7. Count(Gives, q) \in Nat /\ Count(Unlocks, q) \in Nat
        BY <1>9
    <2> QED BY <2>2, <2>6, <2>7, <1>2, <1>4 DEF Sums
<1>5. CASE q \in {Tells, Cons("reason", SyncTells), SyncTells,
                  Cons("launch_refresh", Free), Cons("launch_headers", Free)}
    <2>1. \/ \A S : Count(S, q) = In("post", S) + In("free", S)
          \/ \A S : Count(S, q) = In("reason", S) + (In("post", S) + (In("unreason", S)
                                                      + (In("unlock", S) + In("free", S))))
          \/ \A S : Count(S, q) =
                In("post", S) + (In("unreason", S) + (In("unlock", S) + In("free", S)))
          \/ \A S : Count(S, q) = In("launch_refresh", S) + In("free", S)
          \/ \A S : Count(S, q) = In("launch_headers", S) + In("free", S)
        <3>1. \A S : Count(S, Cons("reason", SyncTells)) = In("reason", S) + Count(S, SyncTells)
            BY <1>1, EndFacts, Label
        <3>2. \A S : Count(S, Cons("launch_refresh", Free)) =
                      In("launch_refresh", S) + Count(S, Free)
            BY <1>1, EndFacts, Label
        <3>3. \A S : Count(S, Cons("launch_headers", Free)) =
                      In("launch_headers", S) + Count(S, Free)
            BY <1>1, EndFacts, Label
        <3> QED BY <3>1, <3>2, <3>3, <1>5, EndFacts
    <2>2. /\ Count(Begins, q) = 0 /\ Count(Takes, q) + 1 <= Count(Gives, q)
          /\ Count(Loaded, q) = 0
        BY <2>1 DEF In, Begins, Takes, Gives, Loaded
    <2>3. Count(Watch, q) = 0 /\ Head(q) # "changed_unlock"
        <3>1. Head(q) \in {"post", "reason", "launch_refresh", "launch_headers"}
            <4>1. /\ Head(Tells) = "post" /\ Head(SyncTells) = "post"
                  /\ Head(Cons("reason", SyncTells)) = "reason"
                  /\ Head(Cons("launch_refresh", Free)) = "launch_refresh"
                  /\ Head(Cons("launch_headers", Free)) = "launch_headers"
                BY <1>1, EndFacts, Label DEF Tells, SyncTells
            <4> QED BY <4>1, <1>5
        <3> QED BY <3>1, <2>1 DEF In, Watch
    <2>7. Count(Gives, q) \in Nat /\ Count(Takes, q) \in Nat
        BY <1>9
    <2> QED BY <2>2, <2>3, <2>7, <1>2 DEF Sums
<1>6. ASSUME NEW r \in Rests, q = Cons("changed_unlock", r) PROVE Sums(a, q)
    <2>1. r \in Seq(Labels)
        BY RestCounts
    <2>2. /\ Head(Cons("changed_unlock", r)) = "changed_unlock"
          /\ \A S : Count(S, Cons("changed_unlock", r)) = In("changed_unlock", S) + Count(S, r)
        BY <2>1, <1>1, Label
    <2>3. /\ Count(Begins, q) = 0 /\ Count(Watch, q) = 1 /\ Count(Takes, q) <= Count(Gives, q)
          /\ Count(Takes, q) \in Nat /\ Count(Gives, q) \in Nat
        BY <2>2, <1>6, RestSums DEF In, Begins, Watch, Takes, Gives
    <2>4. Count(Unlocks, q) > 0
        BY <2>2, <1>6, RestSums DEF In, Unlocks
    <2>7. Count(Gives, q) \in Nat /\ Count(Takes, q) \in Nat /\ Count(Unlocks, q) \in Nat
        BY <1>9
    <2> QED BY <2>2, <2>3, <2>4, <2>7, <1>2, <1>6 DEF Sums
<1>7. ASSUME NEW r \in Rests, q = Cons("post", Cons("changed_restore", r)) PROVE Sums(a, q)
    <2> DEFINE c == Cons("changed_restore", r)
    <2>1. r \in Seq(Labels)
        BY RestCounts
    <2>2. c \in Seq(Labels) /\ \A S : Count(S, c) = In("changed_restore", S) + Count(S, r)
        BY <2>1, <1>1, Label
    <2> HIDE DEF c
    <2>3. /\ Head(Cons("post", c)) = "post"
          /\ \A S : Count(S, Cons("post", c)) = In("post", S) + Count(S, c)
        BY <2>2, <1>1, Label
    <2>4. /\ Count(Begins, q) = 0 /\ Count(Takes, q) + 1 <= Count(Gives, q)
          /\ Count(Takes, q) \in Nat /\ Count(Gives, q) \in Nat
        BY <2>2, <2>3, <1>7, RestSums DEF c, In, Begins, Takes, Gives
    <2>6. Count(Loaded, q) \in Nat /\ Count(Unlocks, q) \in Nat
        BY <1>9
    <2>5. Count(Loaded, q) <= Count(Unlocks, q)
        <3>1. /\ In("post", Loaded) = 0 /\ In("changed_restore", Loaded) = 0
              /\ In("post", Unlocks) = 0 /\ In("changed_restore", Unlocks) = 0
            BY DEF In, Loaded, Unlocks
        <3>2. \A S : Count(S, r) \in Nat
            BY <2>1, <1>1, Label
        <3>3. Count(Loaded, q) = Count(Loaded, r) /\ Count(Unlocks, q) = Count(Unlocks, r)
            BY <2>2, <2>3, <3>1, <3>2, <1>7 DEF c
        <3> QED BY <3>3, RestSums
    <2> QED BY <2>3, <2>4, <2>5, <2>6, <1>2, <1>7 DEF c, Sums
<1>8. \/ \E b \in Bottoms : q \in {Cons("camel", Cons("get_list", b)), Cons("get_each", b)}
      \/ q \in {Tells, Cons("reason", SyncTells), SyncTells,
                Cons("launch_refresh", Free), Cons("launch_headers", Free)}
      \/ \E r \in Rests :
            q \in {Cons("changed_unlock", r), Cons("post", Cons("changed_restore", r))}
    BY DEF Fits, Takes
<1> QED BY <1>3, <1>4, <1>5, <1>6, <1>7, <1>8

\* A thread that gives a reason back has neither camel, headers nor a change behind it.
LEMMA SumsOfUnreasons ==
    ASSUME NEW a \in {"unreason", "unreason_set", "unreason_test", "unload"}, NEW q, Fits(a, q)
    PROVE  Sums(a, q)
<1>1. "unreason" \in Labels /\ "unlock" \in Labels /\ "free" \in Labels
    BY DEF Labels
<1>2. /\ In(a, Takes) = 0 /\ In(a, Gives) \in 0 .. 1 /\ In(a, Loaded) = 0 /\ a \notin Takes
      /\ a \notin {"camel"} \cup Begins \cup Watch
    BY DEF In, Takes, Gives, Loaded, Begins, Watch
<1>3. \A S : Count(S, q) \in Nat
    <2>1. q \in Seq(Labels)
        BY FitFacts
    <2> QED BY <2>1, <1>1, Label
<1>4. /\ Count(Begins, q) = 0 /\ Count(Watch, q) = 0 /\ Count(Loaded, q) = 0
      /\ Count({"get_each"}, q) = 0 /\ Count(Takes, q) = 0
    <2>1. CASE q = Free
        BY <2>1, EndFacts DEF In, Begins, Watch, Loaded, Takes
    <2>2. CASE q = Cons("unreason", Free)
        <3>1. \A S : Count(S, Cons("unreason", Free)) = In("unreason", S) + In("free", S)
            BY <1>1, EndFacts, Label
        <3> QED BY <3>1, <2>2 DEF In, Begins, Watch, Loaded, Takes
    <2>3. ASSUME NEW b \in Bottoms, q = Cons("unlock", b)
          PROVE  /\ Count(Begins, q) = 0 /\ Count(Watch, q) = 0 /\ Count(Loaded, q) = 0
                 /\ Count({"get_each"}, q) = 0 /\ Count(Takes, q) = 0
        <3>1. b \in Seq(Labels)
            BY BottomCounts
        <3>2. \A S : Count(S, Cons("unlock", b)) = In("unlock", S) + Count(S, b)
            BY <3>1, <1>1, Label
        <3> QED BY <3>2, <2>3, BottomSums DEF In, Begins, Watch, Loaded, Takes
    <2>4. q \in {Free, Cons("unreason", Free)} \cup {Cons("unlock", b) : b \in Bottoms}
        BY DEF Fits
    <2> QED BY <2>1, <2>2, <2>3, <2>4
<1>5. Count(Gives, q) \in Nat
    BY <1>3
<1> QED BY <1>2, <1>4, <1>5 DEF Sums

\* A thread in camel or folder_changed has no other change behind it.
LEMMA SumsOfChanges ==
    ASSUME NEW a \in {"camel"} \cup Begins \cup Watch, NEW q, Fits(a, q)
    PROVE  Sums(a, q)
<1>1. q \in Rests /\ (a = "camel" => q \in CallRests)
    BY DEF Fits, Rests, Begins, Watch
<1>2. /\ In(a, Takes) = 0 /\ In(a, Gives) = 0 /\ a \notin Takes
      /\ a \notin {"unreason", "unreason_set", "unreason_test", "unload"}
      /\ In(a, Unlocks) \in 0 .. 1
      /\ a # "camel" => In(a, Loaded) = In(a, Unlocks)
    BY DEF In, Takes, Gives, Loaded, Begins, Watch, Unlocks
<1>3. /\ Count(Begins, q) = 0 /\ Count(Watch, q) = 0 /\ Count({"changed_restore"}, q) = 0
      /\ Count(Takes, q) \in Nat /\ Count(Gives, q) \in Nat /\ Count(Unlocks, q) \in Nat
      /\ Count(Takes, q) <= Count(Gives, q) /\ Count(Loaded, q) <= Count(Unlocks, q)
    BY <1>1, RestSums
<1>4. Count(Loaded, q) \in Nat
    <2>1. q \in Seq(Labels) /\ "free" \in Labels
        BY FitFacts DEF Labels
    <2> QED BY <2>1, Label
<1>5. In(a, Loaded) + Count(Loaded, q) > 0 => In(a, Unlocks) + Count(Unlocks, q) > 0
    <2>1. CASE a = "camel"
        BY <2>1, <1>1, <1>2, <1>3, CallSums
    <2>2. CASE a # "camel"
        BY <2>2, <1>2, <1>3, <1>4
    <2> QED BY <2>1, <2>2
<1> QED BY <1>2, <1>3, <1>5 DEF Sums

\* A thread in a call gives the reasons that it takes.
LEMMA SumsOfCalls ==
    ASSUME NEW a \in {"free", "post", "launch_refresh", "launch_headers", "refresh", "sync",
                      "served", "set_flag", "get_headers", "get_list", "get_each", "unlock",
                      "refresh_item"}, NEW q, Fits(a, q)
    PROVE  Sums(a, q)
<1>1. {"free", "unreason", "unlock", "changed_restore", "served", "reason"} \subseteq Labels
    BY DEF Labels
<1>2. /\ In(a, Takes) = 0 /\ a \notin Takes /\ In(a, Gives) \in 0 .. 1
      /\ a \notin {"camel"} \cup Begins \cup Watch
      /\ a \notin {"unreason", "unreason_set", "unreason_test", "unload"}
      /\ In(a, Unlocks) \in 0 .. 1 /\ In(a, Loaded) <= In(a, Unlocks) /\ In(a, Loaded) \in 0 .. 1
      /\ a = "set_flag" => In(a, Gives) = 0
    BY DEF In, Takes, Gives, Loaded, Begins, Watch, Unlocks
<1>3. \A S : Count(S, q) \in Nat
    <2>1. q \in Seq(Labels) /\ "free" \in Labels
        BY FitFacts DEF Labels
    <2> QED BY <2>1, Label
<1>4. /\ Count(Begins, q) = 0 /\ Count(Takes, q) <= Count(Gives, q)
      /\ Count(Loaded, q) <= Count(Unlocks, q)
    <2>1. CASE q = <<>>
        BY <2>1, CountEmpty
    <2>2. ASSUME q \in {Free, Cons("unreason", Cons("unlock", Free)), Cons("served", Free),
                        Cons("reason", Tells)}
          PROVE  /\ Count(Begins, q) = 0 /\ Count(Takes, q) <= Count(Gives, q)
                 /\ Count(Loaded, q) <= Count(Unlocks, q)
        <3>1. \A S : Count(S, Cons("unreason", Cons("unlock", Free))) =
                         In("unreason", S) + Count(S, Cons("unlock", Free))
            BY <1>1, EndFacts, Label
        <3>2. \A S : Count(S, Cons("unlock", Free)) = In("unlock", S) + Count(S, Free)
            BY <1>1, EndFacts, Label
        <3>3. \A S : Count(S, Cons("served", Free)) = In("served", S) + Count(S, Free)
            BY <1>1, EndFacts, Label
        <3>4. \A S : Count(S, Cons("reason", Tells)) = In("reason", S) + Count(S, Tells)
            BY <1>1, EndFacts, Label
        <3>5. \A S : /\ Count(S, Free) = In("free", S)
                     /\ Count(S, Tells) = In("post", S) + In("free", S)
            BY EndFacts
        <3>6. \/ \A S : Count(S, q) = In("free", S)
              \/ \A S : Count(S, q) = In("unreason", S) + (In("unlock", S) + In("free", S))
              \/ \A S : Count(S, q) = In("served", S) + In("free", S)
              \/ \A S : Count(S, q) = In("reason", S) + (In("post", S) + In("free", S))
            BY <3>1, <3>2, <3>3, <3>4, <3>5, <2>2
        <3> QED BY <3>6 DEF In, Begins, Takes, Gives, Loaded, Unlocks
    <2>3. ASSUME q \in Bottoms
          PROVE  /\ Count(Begins, q) = 0 /\ Count(Takes, q) <= Count(Gives, q)
                 /\ Count(Loaded, q) <= Count(Unlocks, q)
        <3>1. Count(Unlocks, q) \in Nat
            BY <1>3
        <3> QED BY <3>1, <2>3, BottomSums
    <2>4. ASSUME NEW r \in Rests, q = Cons("changed_restore", r)
          PROVE  /\ Count(Begins, q) = 0 /\ Count(Takes, q) <= Count(Gives, q)
                 /\ Count(Loaded, q) <= Count(Unlocks, q)
        <3>1. r \in Seq(Labels)
            BY RestCounts
        <3>2. \A S : /\ Count(S, Cons("changed_restore", r)) =
                      In("changed_restore", S) + Count(S, r)
                     /\ Count(S, r) \in Nat
            BY <3>1, <1>1, Label
        <3>3. /\ In("changed_restore", Begins) = 0 /\ In("changed_restore", Takes) = 0
              /\ In("changed_restore", Gives) = 0 /\ In("changed_restore", Loaded) = 0
              /\ In("changed_restore", Unlocks) = 0
            BY DEF In, Begins, Takes, Gives, Loaded, Unlocks
        <3>4. /\ Count(Begins, q) = Count(Begins, r) /\ Count(Takes, q) = Count(Takes, r)
              /\ Count(Gives, q) = Count(Gives, r) /\ Count(Loaded, q) = Count(Loaded, r)
              /\ Count(Unlocks, q) = Count(Unlocks, r)
            BY <3>2, <3>3, <2>4
        <3> QED BY <3>4, RestSums
    <2>5. \/ q = <<>> \/ q \in Bottoms
          \/ q \in {Free, Cons("unreason", Cons("unlock", Free)), Cons("served", Free),
                    Cons("reason", Tells)}
          \/ \E r \in Rests : q = Cons("changed_restore", r)
        BY DEF Fits, Bottoms
    <2> QED BY <2>1, <2>2, <2>3, <2>4, <2>5
<1>5. /\ Count(Takes, q) \in Nat /\ Count(Gives, q) \in Nat
      /\ Count(Loaded, q) \in Nat /\ Count(Unlocks, q) \in Nat
    BY <1>3
<1> QED BY <1>2, <1>4, <1>5 DEF Sums

\* What the labels of a thread in a state promise.
LEMMA ThreadSums ==
    ASSUME Base, NEW t \in Threads
    PROVE  /\ Sums(pc[t], stack[t]) /\ PlaceType /\ pc[t] \in Labels
           /\ \A S : /\ At(S, t) \in Nat /\ Count(S, stack[t]) \in Nat
                     /\ In(pc[t], S) \in 0 .. 1 /\ At(S, t) = In(pc[t], S) + Count(S, stack[t])
<1>1. Fits(pc[t], stack[t]) /\ PlaceType /\ pc[t] \in Labels
    BY BasePlace
<1>2. Sums(pc[t], stack[t])
    <2>1. \/ pc[t] \in Takes
          \/ pc[t] \in {"unreason", "unreason_set", "unreason_test", "unload"}
          \/ pc[t] \in {"camel"} \cup Begins \cup Watch
          \/ pc[t] \in {"free", "post", "launch_refresh", "launch_headers", "refresh", "sync",
                        "served", "set_flag", "get_headers", "get_list", "get_each", "unlock",
                        "refresh_item"}
        <3> DEFINE a == pc[t]
        <3>1. a \in Labels
            BY <1>1
        <3> HIDE DEF a
        <3>2. \/ a \in Takes
              \/ a \in {"unreason", "unreason_set", "unreason_test", "unload"}
              \/ a \in {"camel"} \cup Begins \cup Watch
              \/ a \in {"free", "post", "launch_refresh", "launch_headers", "refresh", "sync",
                        "served", "set_flag", "get_headers", "get_list", "get_each", "unlock",
                        "refresh_item"}
            BY <3>1 DEF Labels, Takes, Begins, Watch
        <3> QED BY <3>2 DEF a
    <2> QED BY <2>1, <1>1, SumsOfTakes, SumsOfUnreasons, SumsOfChanges, SumsOfCalls
<1> QED BY <1>1, <1>2, AtFacts

-----------------------------------------------------------------------------
\* Threads that wait for each other.

\* One thread at a time holds folder_lock, and one reason_lock.
Mutex == \A t, u \in Threads : folder_lock[t] > 0 /\ folder_lock[u] > 0 => t = u
Holds == {"unreason_set", "unreason_test", "unload"}
ReasonLockInv ==
    /\ \A t \in Threads : t \in reason_lock <=> pc[t] \in Holds
    /\ \A t, u \in reason_lock : t = u

\* folder_lock changes when a thread takes or releases it.
LEMMA LockChanges ==
    ASSUME Next
    PROVE  UNCHANGED folder_lock \/ \E t \in Threads : Lock(t) \/ Release(t)
<1>1. ASSUME NEW t \in Threads, ReasonStep(t) PROVE UNCHANGED folder_lock
    BY <1>1 DEF ReasonStep, Reason, ReasonSet, Unreason, UnreasonSet, UnreasonTest, Unload
<1>2. ASSUME NEW t \in Threads, CallStep(t) PROVE UNCHANGED folder_lock \/ Lock(t) \/ Release(t)
    <2>1. CASE GetHeaders(t) \/ Refresh(t) \/ Sync(t)
        BY <2>1 DEF GetHeaders, Refresh, Sync, LockAndLoad
    <2>2. CASE Unlock(t) \/ GetList(t) \/ GetEach(t) \/ CamelWorks(t) \/ RefreshItem(t)
        BY <2>2 DEF Unlock, GetList, GetEach, CamelWorks, RefreshItem
    <2>3. CASE Post(t) \/ SetFlag(t) \/ Served(t) \/ LaunchRefresh(t) \/ LaunchHeaders(t)
        BY <2>3 DEF Post, SetFlag, Served, LaunchRefresh, LaunchHeaders, Launch
    <2> QED BY <2>1, <2>2, <2>3, <1>2 DEF CallStep
<1>3. ASSUME NEW t \in Threads, ChangedStep(t)
      PROVE  UNCHANGED folder_lock \/ Lock(t) \/ Release(t)
    BY <1>3 DEF ChangedStep, Changed, ChangedTry, ChangedUnlock, ChangedKill, ChangedRestore
<1>4. ASSUME NEW t \in Callers, CallFolder(t) \/ DropHeader(t) \/ FlagHeader(t)
      PROVE  UNCHANGED folder_lock
    BY <1>4 DEF CallFolder, DropHeader, FlagHeader
<1>5. RunSource \/ Push => UNCHANGED folder_lock
    BY DEF RunSource, RunChange, RunDone, Push
<1>6. Serve => Lock(Worker) /\ Worker \in Threads
    BY DEF Serve, Threads
<1> QED BY <1>1, <1>2, <1>3, <1>4, <1>5, <1>6 DEF Next, ThreadStep

\* folder_lock is only taken when nobody else holds it.
LEMMA MutexStep == ASSUME TypeOK, TypeOK', Mutex, [Next]_vars PROVE Mutex'
<1>1. folder_lock \in [Threads -> Nat] /\ folder_lock' \in [Threads -> Nat]
    BY DEF TypeOK
<1>2. ASSUME NEW t \in Threads, Lock(t) PROVE Mutex'
    BY <1>1, <1>2 DEF Mutex, Lock, CanLock
<1>3. ASSUME NEW t \in Threads, Release(t) PROVE Mutex'
    <2>1. \A u \in Threads : folder_lock'[u] > 0 => folder_lock[u] > 0
        BY <1>1, <1>3 DEF Release
    <2> QED BY <2>1 DEF Mutex
<1>4. CASE UNCHANGED folder_lock
    BY <1>4 DEF Mutex
<1> QED BY <1>2, <1>3, <1>4, LockChanges

\* A step that leaves reason_lock alone, and one that releases it.
LEMMA HoldSame ==
    ASSUME ReasonLockInv, NEW t \in Threads, Moves(t), UNCHANGED reason_lock,
           pc[t] \in Holds <=> pc'[t] \in Holds
    PROVE  ReasonLockInv'
BY OthersStay DEF Moves, ReasonLockInv

\* Only its holder releases reason_lock.
LEMMA HoldDrop ==
    ASSUME Base, ReasonLockInv, NEW t \in Threads, pc[t] \in Holds, Returned(t, pc[t]),
           reason_lock' = {}
    PROVE  ReasonLockInv'
<1>1. pc'[t] \notin Holds
    <2>1. Fits(pc[t], stack[t]) /\ pc[t] # "free" /\ pc'[t] = Head(stack[t])
        BY BasePlace DEF Holds, Returned
    <2> QED BY <2>1, FitHeads DEF Holds
<1>2. \A u \in Threads \ {t} : pc[u] \notin Holds /\ pc'[u] = pc[u]
    BY OthersStay DEF Returned, Moves, ReasonLockInv
<1> QED BY <1>1, <1>2 DEF ReasonLockInv

\* A thread that returns does not come to hold reason_lock.
LEMMA ReturnedFree ==
    ASSUME Base, NEW t \in Threads, NEW a, a # "free", Returned(t, a)
    PROVE  pc'[t] \notin Holds /\ pc[t] = a /\ Moves(t)
<1>1. Fits(pc[t], stack[t]) /\ pc[t] = a /\ pc'[t] = Head(stack[t]) /\ Moves(t)
    BY BasePlace DEF Returned
<1> QED BY <1>1, FitHeads DEF Holds

\* reason_lock goes with the labels from the count down to the end of the unload;
LEMMA ReasonLockReason ==
    ASSUME Base, ReasonLockInv, NEW t \in Threads, ReasonStep(t)
    PROVE  ReasonLockInv'
<1>1. CASE Reason(t)
    <2>1. UNCHANGED reason_lock /\ Went(t, "reason", "reason_set")
        BY <1>1, ReasonStepPlaces DEF Reason
    <2> QED BY <2>1, HoldSame DEF Went, Holds
<1>2. CASE ReasonSet(t)
    <2>1. UNCHANGED reason_lock /\ Returned(t, "reason_set")
        BY <1>2, ReasonStepPlaces DEF ReasonSet
    <2> QED BY <2>1, ReturnedFree, HoldSame DEF Holds
<1>3. CASE Unreason(t)
    <2>1. reason_lock = {} /\ reason_lock' = {t} /\ Went(t, "unreason", "unreason_set")
        BY <1>3, ReasonStepPlaces DEF Unreason
    <2>2. pc'[t] \in Holds /\ \A u \in Threads \ {t} : pc[u] \notin Holds /\ pc'[u] = pc[u]
        BY <2>1, OthersStay DEF Went, Moves, Holds, ReasonLockInv
    <2> QED BY <2>1, <2>2 DEF ReasonLockInv
<1>4. CASE UnreasonSet(t)
    <2>1. UNCHANGED reason_lock /\ Went(t, "unreason_set", "unreason_test")
        BY <1>4, ReasonStepPlaces DEF UnreasonSet
    <2> QED BY <2>1, HoldSame DEF Went, Holds
<1>5. CASE UnreasonTest(t)
    <2>1. CASE Went(t, "unreason_test", "unload") /\ UNCHANGED reason_lock
        BY <2>1, HoldSame DEF Went, Holds
    <2>2. CASE Returned(t, "unreason_test") /\ reason_lock' = {}
        BY <2>2, HoldDrop DEF Returned, Holds
    <2> QED BY <2>1, <2>2, <1>5, ReasonStepPlaces
<1>6. CASE Unload(t)
    <2>1. reason_lock' = {} /\ Returned(t, "unload")
        BY <1>6, ReasonStepPlaces DEF Unload
    <2> QED BY <2>1, HoldDrop DEF Returned, Holds
<1> QED BY <1>1, <1>2, <1>3, <1>4, <1>5, <1>6 DEF ReasonStep

\* the calls,
LEMMA ReasonLockCall ==
    ASSUME Base, ReasonLockInv, NEW t \in Threads, CallStep(t)
    PROVE  ReasonLockInv'
<1>1. UNCHANGED reason_lock
    <2>1. CASE GetHeaders(t) \/ Refresh(t) \/ Sync(t) \/ Unlock(t) \/ GetList(t) \/ GetEach(t)
        BY <2>1 DEF GetHeaders, Refresh, Sync, Unlock, GetList, GetEach
    <2>2. CASE CamelWorks(t) \/ RefreshItem(t) \/ Post(t) \/ SetFlag(t) \/ Served(t)
               \/ LaunchRefresh(t) \/ LaunchHeaders(t)
        BY <2>2 DEF CamelWorks, RefreshItem, Post, SetFlag, Served, LaunchRefresh, LaunchHeaders,
                    Launch
    <2> QED BY <2>1, <2>2 DEF CallStep
<1>2. Moves(t) /\ pc[t] \notin Holds /\ pc'[t] \notin Holds
    <2>1. CASE GetHeaders(t) \/ Refresh(t) \/ Sync(t) \/ RefreshItem(t)
        BY <2>1, LoadStepPlaces, ReturnedFree DEF Called, Went, Holds
    <2>2. CASE GetList(t) \/ GetEach(t) \/ CamelWorks(t)
        BY <2>2, CallStepPlaces, ReturnedFree DEF Called, Went, Holds
    <2>3. CASE Unlock(t) \/ Post(t) \/ SetFlag(t) \/ Served(t) \/ LaunchRefresh(t)
               \/ LaunchHeaders(t)
        BY <2>3, CallStepPlaces, ReturnedFree DEF Holds
    <2> QED BY <2>1, <2>2, <2>3 DEF CallStep
<1> QED BY <1>1, <1>2, HoldSame

\* folder_changed,
LEMMA ReasonLockChanged ==
    ASSUME Base, ReasonLockInv, NEW t \in Threads, ChangedStep(t)
    PROVE  ReasonLockInv'
<1>1. UNCHANGED reason_lock
    BY DEF ChangedStep, Changed, ChangedTry, ChangedUnlock, ChangedKill, ChangedRestore
<1>2. Moves(t) /\ pc[t] \notin Holds /\ pc'[t] \notin Holds
    <2>1. \/ Went(t, "changed", "changed_try") \/ Returned(t, "changed")
          \/ /\ Moves(t) /\ pc[t] = "changed_try"
             /\ pc'[t] = (IF hdr[t] = 0 THEN "changed_unlock" ELSE "reason")
          \/ Returned(t, "changed_try")
          \/ Went(t, "changed_unlock", "changed_kill") \/ Called(t, "changed_kill", "reason")
          \/ Returned(t, "changed_restore")
        BY ChangedStepPlaces DEF ChangedStep
    <2> QED BY <2>1, ReturnedFree DEF Called, Went, Holds
<1> QED BY <1>1, <1>2, HoldSame

\* and all other steps leave it alone.
LEMMA ReasonLockStep == ASSUME Base, ReasonLockInv, [Next]_vars PROVE ReasonLockInv'
<1>1. Callers \subseteq Threads /\ {Main, Worker, Camel} \subseteq Threads
    BY DEF Threads, Callers
<1>2. ASSUME NEW t \in Threads, CallFolder(t) \/ DropHeader(t) \/ FlagHeader(t)
      PROVE  ReasonLockInv'
    <2>1. UNCHANGED reason_lock
        BY <1>2 DEF CallFolder, DropHeader, FlagHeader
    <2>2. Moves(t) /\ pc[t] \notin Holds /\ pc'[t] \notin Holds
        BY <1>2, CallFolderPlaces, OutsidePlaces DEF Called, Holds
    <2> QED BY <2>1, <2>2, HoldSame
<1>3. ASSUME RunSource \/ Serve \/ Push PROVE ReasonLockInv'
    <2>1. UNCHANGED reason_lock
        BY <1>3 DEF RunSource, RunChange, RunDone, Serve, Push
    <2>2. \E t \in {Main, Worker, Camel} : Moves(t) /\ pc[t] \notin Holds /\ pc'[t] \notin Holds
        <3>1. CASE RunSource
            BY <3>1, ChangeMoves, OutsidePlaces DEF RunSource, Called, Holds
        <3>2. CASE Serve
            BY <3>2, ServeMoves DEF Holds
        <3>3. CASE Push
            BY <3>3, OutsidePlaces DEF Called, Holds
        <3> QED BY <1>3, <3>1, <3>2, <3>3
    <2> QED BY <2>1, <2>2, <1>1, HoldSame
<1>4. CASE UNCHANGED vars
    BY <1>4 DEF ReasonLockInv
<1> QED BY <1>1, <1>2, <1>3, <1>4, ReasonLockReason, ReasonLockCall, ReasonLockChanged
        DEF Next, ThreadStep

LockInv == BaseInv /\ Mutex /\ ReasonLockInv

\* At the start nobody holds a lock.
LEMMA LockInit == ASSUME ThreadsAssumption, BoundAssumption, Init PROVE LockInv
<1>1. BaseInv
    BY BaseInit
<1>2. /\ \A t \in Threads : folder_lock[t] = 0 /\ pc[t] = "free"
      /\ reason_lock = {}
    BY DEF Init
<1> QED BY <1>1, <1>2 DEF LockInv, Mutex, ReasonLockInv, Holds

\* The invariant of the locks is inductive.
LEMMA LockInvStep == ASSUME BoundAssumption, LockInv, [Next]_vars PROVE LockInv'
<1>1. BaseInv'
    BY BaseStep DEF LockInv
<1> QED BY <1>1, MutexStep, ReasonLockStep DEF LockInv, BaseInv, Base

\* Who holds folder_lock is under way; when it cannot go on it wants reason_lock, and
\* who holds that wants folder_lock.
LEMMA LockInterlocks == ASSUME LockInv PROVE OnlyInterlock
<1> SUFFICES ASSUME NEW t0 \in Threads, Blocked(t0), ~Interlock,
                    \A t \in Threads : pc[t] # "free" => Blocked(t)
             PROVE  FALSE
    BY DEF OnlyInterlock
<1>1. folder_lock \in [Threads -> Nat] /\ reason_lock \subseteq Threads
    BY DEF LockInv, BaseInv, Base, TypeOK
<1>2. ASSUME NEW u \in Threads, folder_lock[u] > 0 PROVE pc[u] = "unreason" /\ reason_lock # {}
    <2>1. pc[u] # "free"
        <3>1. Base /\ At(Unlocks, u) > 0
            BY <1>2 DEF LockInv, BaseInv, LockCount
        <3>2. SUFFICES ASSUME pc[u] = "free" PROVE FALSE
            OBVIOUS
        <3>3. Count(Unlocks, stack[u]) = 0 /\ In(pc[u], Unlocks) = 0
            BY <3>1, <3>2, BasePlace, CountEmpty, UnlocksFacts
        <3> QED BY <3>1, <3>3, BasePlace, AtFacts
    <2>2. CanLock(u)
        BY <1>1, <1>2 DEF CanLock, LockInv, Mutex
    <2> QED BY <2>1, <2>2 DEF Blocked
<1>3. ASSUME NEW w \in reason_lock PROVE pc[w] = "unload" /\ ~CanLock(w)
    <2>1. w \in Threads /\ pc[w] \in Holds
        BY <1>1 DEF LockInv, ReasonLockInv
    <2> QED BY <2>1 DEF Blocked, WantsFolderLock, Holds
<1>4. ASSUME NEW t \in Threads, ~CanLock(t)
      PROVE  \E u \in Threads : u # t /\ folder_lock[u] > 0
    BY <1>1, <1>4 DEF CanLock
<1>5. reason_lock # {}
    BY <1>2, <1>4 DEF Blocked
<1>6. PICK w \in reason_lock : TRUE
    BY <1>5
<1>7. PICK u \in Threads : u # w /\ folder_lock[u] > 0
    BY <1>1, <1>3, <1>4
<1> QED BY <1>1, <1>2, <1>3, <1>7 DEF Interlock

\* The threads that work with the folder never all wait for each other, but in the
\* interlock of the two locks: one holds reason_lock and wants folder_lock to unload
\* the folder, another one holds folder_lock and gives a reason back.
THEOREM FolderOnlyInterlock == Spec => []OnlyInterlock
<1>1. Init => LockInv
    BY LockInit, ThreadsAssumption, BoundAssumption
<1>2. LockInv /\ [Next]_vars => LockInv'
    BY LockInvStep, BoundAssumption
<1>3. LockInv => OnlyInterlock
    BY LockInterlocks
<1> QED BY <1>1, <1>2, <1>3, PTL DEF Spec

-----------------------------------------------------------------------------
\* The folder stays loaded.

\* A thread that reached camel, or the list of the headers, or takes the reason of the
\* header of a change, has the folder.
LoadInv == push_cap => \A t \in Threads : At(Loaded, t) > 0 => folder

\* Which labels are reached with the folder.
LEMMA LoadedFacts ==
    /\ \A a \in {"free", "reason", "reason_set", "unreason", "unreason_set", "unreason_test",
                 "unload", "post", "launch_refresh", "launch_headers", "set_flag", "get_headers",
                 "get_each", "unlock", "refresh", "sync", "refresh_item", "served", "changed",
                 "changed_try", "changed_kill", "changed_restore"} : In(a, Loaded) = 0
    /\ \A a \in Loaded : In(a, Loaded) = 1
BY DEF In, Loaded

\* The folder stays, or is loaded, and the thread does not come to need it.
LEMMA LoadKeep ==
    ASSUME LoadInv, NEW t \in Threads, Moves(t), UNCHANGED push_cap,
           push_cap => (folder' = folder \/ folder'),
           At(Loaded, t)' > 0 => At(Loaded, t) > 0 \/ folder'
    PROVE  LoadInv'
<1>1. \A u \in Threads \ {t} : At(Loaded, u)' = At(Loaded, u)
    BY OthersStay DEF Moves
<1> QED BY <1>1 DEF LoadInv

\* With push e-mail, who unloads the folder waits for folder_lock.
LEMMA LoadUnload ==
    ASSUME LockInv, LoadInv, NEW t \in Threads, Unload(t)
    PROVE  LoadInv'
<1>1. Base /\ LockCount /\ folder_lock \in [Threads -> Nat]
    BY DEF LockInv, BaseInv, Base, TypeOK
<1>2. Returned(t, "unload") /\ Moves(t)
    BY <1>1, ReasonStepPlaces DEF Returned
<1>3. At(Loaded, t)' = 0
    <2>1. At(Loaded, t) = 0
        BY <1>1, <1>2, ThreadSums, LoadedFacts DEF Sums, Returned
    <2> QED BY <2>1, <1>2, LoadedFacts DEF Returned
<1>4. ASSUME NEW u \in Threads \ {t} PROVE At(Loaded, u)' = 0
    <2>1. folder_lock[u] = 0
        BY DEF Unload, CanLock
    <2>2. At(Unlocks, u) = 0
        BY <2>1, <1>1 DEF LockCount
    <2>3. At(Loaded, u) = 0
        BY <2>2, <1>1, ThreadSums DEF Sums
    <2> QED BY <2>3, <1>2, OthersStay DEF Moves
<1> QED BY <1>3, <1>4 DEF LoadInv

\* The steps keep that: those of the reasons,
LEMMA LoadReason ==
    ASSUME LockInv, LoadInv, NEW t \in Threads, ReasonStep(t)
    PROVE  LoadInv'
<1>1. Base /\ At(Loaded, t) \in Nat
    BY ThreadSums DEF LockInv, BaseInv
<1>2. CASE Reason(t) \/ ReasonSet(t) \/ Unreason(t) \/ UnreasonSet(t)
    <2>1. UNCHANGED <<push_cap, folder>>
        BY <1>2 DEF Reason, ReasonSet, Unreason, UnreasonSet
    <2>2. Moves(t) /\ At(Loaded, t)' = At(Loaded, t)
        BY <1>1, <1>2, ReasonStepPlaces, LoadedFacts DEF Went, Returned
    <2> QED BY <2>1, <2>2, LoadKeep
<1>3. CASE UnreasonTest(t)
    <2>1. UNCHANGED push_cap
        BY <1>3 DEF UnreasonTest
    <2>2. Moves(t) /\ At(Loaded, t)' = At(Loaded, t) /\ (push_cap => folder' = folder)
        BY <1>1, <1>3, ReasonStepPlaces, LoadedFacts DEF Went, Returned
    <2> QED BY <2>1, <2>2, LoadKeep
<1> QED BY <1>2, <1>3, LoadUnload DEF ReasonStep

\* those of the calls, which load the folder first,
LEMMA LoadCall ==
    ASSUME LockInv, LoadInv, NEW t \in Threads, CallStep(t)
    PROVE  LoadInv'
<1>1. Base /\ At(Loaded, t) \in Nat
    BY ThreadSums DEF LockInv, BaseInv
<1>2. CASE GetHeaders(t) \/ Refresh(t) \/ Sync(t) \/ RefreshItem(t)
    <2>1. UNCHANGED push_cap
        BY <1>2 DEF GetHeaders, Refresh, Sync, RefreshItem
    <2>2. Moves(t) /\ (folder' \/ (folder' = folder /\ At(Loaded, t)' = At(Loaded, t)))
        <3>1. \/ Moves(t) /\ Load
              \/ /\ LoadFails
                 /\ \E a \in {"get_headers", "refresh", "sync", "refresh_item"} : Returned(t, a)
            BY <1>1, <1>2, LoadStepPlaces DEF Called, Went
        <3>2. \A a \in {"get_headers", "refresh", "sync", "refresh_item"} :
                  Returned(t, a) => Moves(t) /\ At(Loaded, t)' = At(Loaded, t)
            BY <1>1, LoadedFacts DEF Returned
        <3> QED BY <3>1, <3>2 DEF Load, LoadFails
    <2> QED BY <2>1, <2>2, LoadKeep
<1>3. CASE GetList(t) \/ GetEach(t) \/ CamelWorks(t)
    <2>1. UNCHANGED <<push_cap, folder>>
        BY <1>3 DEF GetList, GetEach, CamelWorks
    <2>2. Moves(t) /\ (At(Loaded, t)' > 0 => At(Loaded, t) > 0)
        BY <1>1, <1>3, CallStepPlaces, LoadedFacts DEF Went, Returned, Called, Loaded
    <2> QED BY <2>1, <2>2, LoadKeep
<1>4. CASE Unlock(t) \/ Post(t) \/ SetFlag(t) \/ Served(t) \/ LaunchRefresh(t)
           \/ LaunchHeaders(t)
    <2>1. UNCHANGED <<push_cap, folder>>
        BY <1>4 DEF Unlock, Post, SetFlag, Served, LaunchRefresh, LaunchHeaders, Launch
    <2>2. Moves(t) /\ At(Loaded, t)' = At(Loaded, t)
        BY <1>1, <1>4, CallStepPlaces, LoadedFacts DEF Returned
    <2> QED BY <2>1, <2>2, LoadKeep
<1> QED BY <1>2, <1>3, <1>4 DEF CallStep

\* those of folder_changed, which looks at it under folder_lock,
LEMMA LoadChanged ==
    ASSUME LockInv, LoadInv, NEW t \in Threads, ChangedStep(t)
    PROVE  LoadInv'
<1>1. Base /\ At(Loaded, t) \in Nat
    BY ThreadSums DEF LockInv, BaseInv
<1>2. UNCHANGED <<push_cap, folder>>
    BY DEF ChangedStep, Changed, ChangedTry, ChangedUnlock, ChangedKill, ChangedRestore
<1>3. CASE ChangedTry(t)
    <2>1. Moves(t) /\ (folder \/ Returned(t, "changed_try"))
        BY <1>1, <1>3, ChangedStepPlaces DEF Returned
    <2>2. Returned(t, "changed_try") => At(Loaded, t)' = At(Loaded, t)
        BY <1>1, LoadedFacts DEF Returned
    <2> QED BY <2>1, <2>2, <1>2, LoadKeep
<1>4. CASE Changed(t) \/ ChangedUnlock(t) \/ ChangedKill(t) \/ ChangedRestore(t)
    <2>1. \/ Went(t, "changed", "changed_try") \/ Returned(t, "changed")
          \/ Went(t, "changed_unlock", "changed_kill") \/ Returned(t, "changed_restore")
          \/ /\ Called(t, "changed_kill", "reason")
             /\ \A S : At(S, t)' = At(S, t) - In("changed_kill", S) + In("reason", S)
                                   + In("post", S) + In("changed_restore", S)
        BY <1>1, <1>4, ChangedStepPlaces
    <2>2. Moves(t) /\ (At(Loaded, t)' > 0 => At(Loaded, t) > 0)
        BY <2>1, <1>1, LoadedFacts DEF Went, Returned, Called, Loaded
    <2> QED BY <2>2, <1>2, LoadKeep
<1> QED BY <1>3, <1>4 DEF ChangedStep

\* and the others.
LEMMA LoadInvStep == ASSUME LockInv, LoadInv, [Next]_vars PROVE LoadInv'
<1>1. Callers \subseteq Threads /\ {Main, Worker, Camel} \subseteq Threads /\ Base
    BY DEF Threads, Callers, LockInv, BaseInv
<1>2. ASSUME NEW t \in Threads, CallFolder(t) \/ DropHeader(t) \/ FlagHeader(t)
      PROVE  LoadInv'
    <2>1. UNCHANGED <<push_cap, folder>>
        BY <1>2 DEF CallFolder, DropHeader, FlagHeader
    <2>2. Moves(t) /\ At(Loaded, t)' = At(Loaded, t)
        BY <1>1, <1>2, CallFolderPlaces, OutsidePlaces, LoadedFacts DEF Called
    <2> QED BY <2>1, <2>2, LoadKeep
<1>3. ASSUME RunSource \/ Serve \/ Push PROVE LoadInv'
    <2>1. UNCHANGED <<push_cap, folder>>
        BY <1>3 DEF RunSource, RunChange, RunDone, Serve, Push
    <2>2. \E t \in {Main, Worker, Camel} : Moves(t) /\ At(Loaded, t)' = At(Loaded, t)
        <3>1. ASSUME NEW n \in 0 .. 1, RunChange(n)
              PROVE  Moves(Main) /\ At(Loaded, Main)' = At(Loaded, Main)
            <4>1. PICK kept \in 0 .. n :
                      /\ Moves(Main)
                      /\ At(Loaded, Main)' =
                            (n - kept + 1) * In("unreason", Loaded) + In("free", Loaded)
                      /\ At(Loaded, Main) = In("free", Loaded)
                BY <1>1, <3>1, ChangeMoves
            <4>2. (n - kept + 1) * In("unreason", Loaded) = 0
                BY LoadedFacts
            <4> QED BY <4>1, <4>2, LoadedFacts
        <3>2. CASE RunDone
            BY <1>1, <3>2, OutsidePlaces, LoadedFacts DEF Called
        <3>3. CASE Serve
            BY <1>1, <3>3, ServeMoves, LoadedFacts
        <3>4. CASE Push
            BY <1>1, <3>4, OutsidePlaces, LoadedFacts DEF Called
        <3> QED BY <1>3, <3>1, <3>2, <3>3, <3>4 DEF RunSource
    <2> QED BY <2>1, <2>2, <1>1, LoadKeep
<1>4. CASE UNCHANGED vars
    BY <1>4 DEF LoadInv, At
<1> QED BY <1>1, <1>2, <1>3, <1>4, LoadReason, LoadCall, LoadChanged DEF Next, ThreadStep

\* A thread that is nowhere has no labels but its end.
LEMMA FreeAt ==
    ASSUME PlaceType, NEW t \in Threads, pc[t] = "free", stack[t] = <<>>
    PROVE  \A S : At(S, t) = In("free", S)
<1>1. ASSUME NEW S PROVE At(S, t) = In("free", S)
    <2>1. Count(S, stack[t]) = 0 /\ In("free", S) \in 0 .. 1
        BY CountEmpty DEF In
    <2> QED BY <2>1, AtFacts
<1> QED BY <1>1

\* A thread that works with the folder has one of these labels.
LEMMA LoadStays == ASSUME LockInv, LoadInv PROVE FolderStays
<1> SUFFICES ASSUME push_cap, NEW t \in Threads,
                    \/ pc[t] \in {"camel", "get_list"}
                    \/ pc[t] = "reason" /\ Head(stack[t]) = "changed_unlock"
             PROVE  At(Loaded, t) > 0
    BY DEF FolderStays, LoadInv
<1>1. /\ Base /\ Count(Loaded, stack[t]) \in Nat /\ In(pc[t], Loaded) \in 0 .. 1
      /\ At(Loaded, t) = In(pc[t], Loaded) + Count(Loaded, stack[t])
    BY ThreadSums DEF LockInv, BaseInv
<1>2. CASE pc[t] \in {"camel", "get_list"}
    BY <1>1, <1>2, LoadedFacts DEF Loaded
<1>3. CASE pc[t] = "reason" /\ Head(stack[t]) = "changed_unlock"
    <2> DEFINE h == Head(stack[t])
               r == Tail(stack[t])
    <2>1. h \in Labels /\ r \in Seq(Labels) /\ stack[t] = Cons(h, r)
        BY <1>1, <1>3, BasePlace, ConsHeadTail DEF Back
    <2> HIDE DEF h, r
    <2>2. Count(Loaded, Cons(h, r)) = In(h, Loaded) + Count(Loaded, r) /\ Count(Loaded, r) \in Nat
        BY <2>1, Label
    <2>3. In(h, Loaded) = 1
        BY <1>3, LoadedFacts DEF h, Loaded
    <2> QED BY <2>1, <2>2, <2>3, <1>1
<1> QED BY <1>2, <1>3

\* A folder with push e-mail is not unloaded under a thread that refreshes it, lists its
\* headers, or tells a change.
THEOREM FolderStaysLoaded == Spec => []FolderStays
<1>1. Init => LockInv /\ LoadInv
    <2>1. ASSUME Init PROVE LoadInv
        <3>1. ASSUME NEW t \in Threads PROVE At(Loaded, t) = 0
            <4>1. PlaceType /\ pc[t] = "free" /\ stack[t] = <<>>
                BY <2>1, BaseInit, ThreadsAssumption, BoundAssumption, TypeParts
                   DEF Init, BaseInv, Base
            <4> QED BY <4>1, FreeAt, LoadedFacts
        <3> QED BY <3>1 DEF LoadInv
    <2> QED BY <2>1, LockInit, ThreadsAssumption, BoundAssumption
<1>2. LockInv /\ LoadInv /\ [Next]_vars => LockInv' /\ LoadInv'
    BY LockInvStep, LoadInvStep, BoundAssumption
<1>3. LockInv /\ LoadInv => FolderStays
    BY LoadStays
<1> QED BY <1>1, <1>2, <1>3, PTL DEF Spec

-----------------------------------------------------------------------------
\* dont_fkill.

Restore == {"changed_restore"}

\* Who will restore dont_fkill saved that it was not set, and dont_fkill is set only
\* while somebody will: as long as no folder_changed saved that of another one.
KillInv ==
    ~overlapped =>
        /\ \A t \in Threads : At(Restore, t) > 0 => ~old[t]
        /\ dont_fkill => \E t \in Threads : At(Restore, t) > 0

\* Only one label restores dont_fkill.
LEMMA RestoreFacts ==
    /\ \A a \in {"free", "reason", "reason_set", "unreason", "unreason_set", "unreason_test",
                 "unload", "post", "launch_refresh", "launch_headers", "set_flag", "get_headers",
                 "get_list", "get_each", "unlock", "refresh", "sync", "camel", "refresh_item",
                 "served", "changed", "changed_try", "changed_unlock", "changed_kill"} :
           In(a, Restore) = 0
    /\ In("changed_restore", Restore) = 1
BY DEF In, Restore

\* A step that leaves dont_fkill and what was saved of it alone.
LEMMA KillSame ==
    ASSUME KillInv, NEW t \in Threads, Moves(t), UNCHANGED <<overlapped, old, dont_fkill>>,
           At(Restore, t)' = At(Restore, t)
    PROVE  KillInv'
<1>1. \A u \in Threads : At(Restore, u)' = At(Restore, u)
    BY OthersStay DEF Moves
<1> QED BY <1>1 DEF KillInv

\* A step that saves it, or drops what was saved, of a thread that has not set it.
LEMMA KillOther ==
    ASSUME KillInv, NEW t \in Threads, Moves(t), UNCHANGED <<overlapped, dont_fkill>>,
           \A u \in Threads \ {t} : old'[u] = old[u],
           At(Restore, t) = 0, At(Restore, t)' = 0
    PROVE  KillInv'
<1>1. \A u \in Threads \ {t} : At(Restore, u)' = At(Restore, u)
    BY OthersStay DEF Moves
<1> QED BY <1>1 DEF KillInv

\* The steps keep that: those of the reasons,
LEMMA KillReason ==
    ASSUME Base, KillInv, NEW t \in Threads, ReasonStep(t)
    PROVE  KillInv'
<1>1. UNCHANGED <<overlapped, old, dont_fkill>>
    BY DEF ReasonStep, Reason, ReasonSet, Unreason, UnreasonSet, UnreasonTest, Unload
<1>2. At(Restore, t) \in Nat
    BY ThreadSums
<1>3. \E a \in {"reason", "reason_set", "unreason", "unreason_set", "unreason_test", "unload"} :
          \/ Returned(t, a)
          \/ \E b \in {"reason_set", "unreason_set", "unreason_test", "unload"} : Went(t, a, b)
    BY ReasonStepPlaces DEF ReasonStep
<1>4. Moves(t) /\ At(Restore, t)' = At(Restore, t)
    BY <1>2, <1>3, RestoreFacts DEF Went, Returned
<1> QED BY <1>1, <1>4, KillSame

\* those of the calls,
LEMMA KillCall ==
    ASSUME Base, KillInv, NEW t \in Threads, CallStep(t)
    PROVE  KillInv'
<1>1. At(Restore, t) \in Nat
    BY ThreadSums
<1>2. CASE GetHeaders(t) \/ Refresh(t) \/ Sync(t) \/ RefreshItem(t)
    <2>1. UNCHANGED <<overlapped, old, dont_fkill>>
        BY <1>2 DEF GetHeaders, Refresh, Sync, RefreshItem
    <2>2. Moves(t) /\ At(Restore, t)' = At(Restore, t)
        <3>1. CASE GetHeaders(t)
            BY <3>1, <1>1, LoadStepPlaces, RestoreFacts DEF Returned, Called
        <3>2. CASE Refresh(t)
            BY <3>2, <1>1, LoadStepPlaces, RestoreFacts DEF Returned, Called
        <3>3. CASE Sync(t)
            BY <3>3, <1>1, LoadStepPlaces, RestoreFacts DEF Returned, Called
        <3>4. CASE RefreshItem(t)
            BY <3>4, <1>1, LoadStepPlaces, RestoreFacts DEF Returned, Went
        <3> QED BY <1>2, <3>1, <3>2, <3>3, <3>4
    <2> QED BY <2>1, <2>2, KillSame
<1>3. CASE GetList(t) \/ GetEach(t) \/ CamelWorks(t)
    <2>1. UNCHANGED <<overlapped, old, dont_fkill>>
        BY <1>3 DEF GetList, GetEach, CamelWorks
    <2>2. Moves(t) /\ At(Restore, t)' = At(Restore, t)
        BY <1>1, <1>3, CallStepPlaces, RestoreFacts DEF Went, Returned, Called
    <2> QED BY <2>1, <2>2, KillSame
<1>4. CASE Unlock(t) \/ Post(t) \/ SetFlag(t) \/ Served(t) \/ LaunchRefresh(t)
           \/ LaunchHeaders(t)
    <2>1. UNCHANGED <<overlapped, old, dont_fkill>>
        BY <1>4 DEF Unlock, Post, SetFlag, Served, LaunchRefresh, LaunchHeaders, Launch
    <2>2. Moves(t) /\ At(Restore, t)' = At(Restore, t)
        BY <1>1, <1>4, CallStepPlaces, RestoreFacts DEF Returned
    <2> QED BY <2>1, <2>2, KillSame
<1> QED BY <1>2, <1>3, <1>4 DEF CallStep

\* those of folder_changed, which set and restore it,
LEMMA KillChanged ==
    ASSUME Base, KillInv, NEW t \in Threads, ChangedStep(t)
    PROVE  KillInv'
<1>1. /\ At(Restore, t) \in Nat /\ old \in [Threads -> BOOLEAN]
      /\ pc[t] \in Begins \cup Watch => At(Restore, t) = In(pc[t], Restore)
    <2>1. old \in [Threads -> BOOLEAN]
        BY DEF Base, TypeOK
    <2>2. pc[t] \in Begins \cup Watch => Count(Restore, stack[t]) = 0
        BY ThreadSums DEF Sums, Restore
    <2>3. /\ At(Restore, t) \in Nat /\ In(pc[t], Restore) \in 0 .. 1
          /\ At(Restore, t) = In(pc[t], Restore) + Count(Restore, stack[t])
        BY ThreadSums
    <2> QED BY <2>1, <2>2, <2>3
<1>2. CASE Changed(t)
    <2>1. UNCHANGED <<overlapped, dont_fkill>> /\ \A u \in Threads \ {t} : old'[u] = old[u]
        BY <1>1, <1>2 DEF Changed
    <2>2. Went(t, "changed", "changed_try") \/ Returned(t, "changed")
        BY <1>2, ChangedStepPlaces
    <2>3. Moves(t) /\ At(Restore, t) = 0 /\ At(Restore, t)' = 0
        BY <2>2, <1>1, RestoreFacts DEF Went, Returned, Begins
    <2> QED BY <2>1, <2>3, KillOther
<1>3. CASE ChangedTry(t)
    <2>1. UNCHANGED <<overlapped, dont_fkill>> /\ \A u \in Threads \ {t} : old'[u] = old[u]
        <3>1. old' = old \/ old' = [old EXCEPT ![t] = FALSE]
            BY <1>3 DEF ChangedTry
        <3> QED BY <3>1, <1>1, <1>3 DEF ChangedTry
    <2>2. \/ /\ Moves(t) /\ pc[t] = "changed_try"
             /\ At(Restore, t)' = At(Restore, t) - In("changed_try", Restore)
                                  + In("changed_unlock", Restore)
                                  + (IF hdr[t] = 0 THEN 0 ELSE In("reason", Restore))
          \/ Returned(t, "changed_try")
        BY <1>3, ChangedStepPlaces
    <2>3. Moves(t) /\ At(Restore, t) = 0 /\ At(Restore, t)' = 0
        BY <2>2, <1>1, RestoreFacts DEF Returned, Begins
    <2> QED BY <2>1, <2>3, KillOther
<1>4. CASE ChangedUnlock(t)
    <2>1. UNCHANGED <<overlapped, old, dont_fkill>> /\ Went(t, "changed_unlock", "changed_kill")
        BY <1>4, ChangedStepPlaces DEF ChangedUnlock
    <2> QED BY <2>1, <1>1, RestoreFacts, KillSame DEF Went
<1>5. CASE ChangedKill(t)
    <2>1. overlapped' = (overlapped \/ old[t]) /\ dont_fkill' = TRUE /\ UNCHANGED old
        BY <1>5 DEF ChangedKill
    <2>2. /\ Moves(t)
          /\ At(Restore, t)' = At(Restore, t) - In("changed_kill", Restore) + In("reason", Restore)
                               + In("post", Restore) + In("changed_restore", Restore)
        BY <1>5, ChangedStepPlaces DEF Called
    <2>3. At(Restore, t)' > 0 /\ \A u \in Threads \ {t} : At(Restore, u)' = At(Restore, u)
        BY <2>2, <1>1, RestoreFacts, OthersStay DEF Moves
    <2> QED BY <2>1, <2>3 DEF KillInv
<1>6. CASE ChangedRestore(t)
    <2>1. /\ UNCHANGED overlapped /\ dont_fkill' = old[t]
          /\ \A u \in Threads \ {t} : old'[u] = old[u]
        BY <1>1, <1>6 DEF ChangedRestore
    <2>2. Returned(t, "changed_restore")
        BY <1>6, ChangedStepPlaces
    <2>3. /\ At(Restore, t) > 0 /\ At(Restore, t)' = 0
          /\ \A u \in Threads \ {t} : At(Restore, u)' = At(Restore, u)
        BY <2>2, <1>1, RestoreFacts, OthersStay DEF Moves, Returned, Watch
    <2> QED BY <2>1, <2>3 DEF KillInv
<1> QED BY <1>2, <1>3, <1>4, <1>5, <1>6 DEF ChangedStep

\* and the others.
LEMMA KillInvStep == ASSUME Base, KillInv, [Next]_vars PROVE KillInv'
<1>1. Callers \subseteq Threads /\ {Main, Worker, Camel} \subseteq Threads
    BY DEF Threads, Callers
<1>2. ASSUME NEW t \in Threads, CallFolder(t) \/ DropHeader(t) \/ FlagHeader(t)
      PROVE  KillInv'
    <2>1. UNCHANGED <<overlapped, old, dont_fkill>>
        BY <1>2 DEF CallFolder, DropHeader, FlagHeader
    <2>2. Moves(t) /\ At(Restore, t)' = At(Restore, t)
        BY <1>2, CallFolderPlaces, OutsidePlaces, RestoreFacts DEF Called
    <2> QED BY <2>1, <2>2, KillSame
<1>3. ASSUME RunSource \/ Serve \/ Push PROVE KillInv'
    <2>1. UNCHANGED <<overlapped, old, dont_fkill>>
        BY <1>3 DEF RunSource, RunChange, RunDone, Serve, Push
    <2>2. \E t \in {Main, Worker, Camel} : Moves(t) /\ At(Restore, t)' = At(Restore, t)
        <3>1. ASSUME NEW n \in 0 .. 1, RunChange(n)
              PROVE  Moves(Main) /\ At(Restore, Main)' = At(Restore, Main)
            <4>1. PICK kept \in 0 .. n :
                      /\ Moves(Main)
                      /\ At(Restore, Main)' =
                            (n - kept + 1) * In("unreason", Restore) + In("free", Restore)
                      /\ At(Restore, Main) = In("free", Restore)
                BY <3>1, ChangeMoves
            <4>2. (n - kept + 1) * In("unreason", Restore) = 0
                BY RestoreFacts
            <4> QED BY <4>1, <4>2, RestoreFacts
        <3>2. CASE RunDone
            BY <3>2, OutsidePlaces, RestoreFacts DEF Called
        <3>3. CASE Serve
            BY <3>3, ServeMoves, RestoreFacts
        <3>4. CASE Push
            BY <3>4, OutsidePlaces, RestoreFacts DEF Called
        <3> QED BY <1>3, <3>1, <3>2, <3>3, <3>4 DEF RunSource
    <2> QED BY <2>1, <2>2, <1>1, KillSame
<1>4. CASE UNCHANGED vars
    BY <1>4 DEF KillInv, At
<1> QED BY <1>1, <1>2, <1>3, <1>4, KillReason, KillCall, KillChanged DEF Next, ThreadStep

\* A thread with a label is at it or returns to it.
LEMMA KillRestored == ASSUME Base, KillInv PROVE FkillRestored
<1> SUFFICES ASSUME NEW t \in Threads, At(Restore, t) > 0, pc[t] # "changed_restore"
             PROVE  "changed_restore" \in Range(stack[t])
    BY DEF FkillRestored, KillInv
<1>1. Count(Restore, stack[t]) > 0
    <2>1. In(pc[t], Restore) = 0
        BY DEF In, Restore
    <2> QED BY <2>1, ThreadSums
<1>2. {i \in 1 .. Len(stack[t]) : stack[t][i] \in Restore} # {}
    <2>1. {i \in 1 .. Len(stack[t]) : stack[t][i] \in Restore} = {} =>
              Count(Restore, stack[t]) = 0
        BY FS_EmptySet, Zenon DEF Count
    <2> QED BY <2>1, <1>1
<1>3. PICK i \in 1 .. Len(stack[t]) : stack[t][i] = "changed_restore"
    BY <1>2 DEF Restore
<1>4. i \in DOMAIN stack[t]
    <2>1. stack[t] \in Seq(Labels)
        BY BasePlace
    <2> QED BY <2>1, LenProperties
<1> QED BY <1>3, <1>4 DEF Range

\* dont_fkill is not left behind: unless two folder_changed overlapped, somebody will
\* restore it.
THEOREM FolderFkillRestored == Spec => []FkillRestored
<1>1. Init => BaseInv /\ KillInv
    <2>1. ASSUME Init PROVE KillInv
        <3>1. ASSUME NEW t \in Threads PROVE At(Restore, t) = 0
            <4>1. PlaceType /\ pc[t] = "free" /\ stack[t] = <<>>
                BY <2>1, BaseInit, ThreadsAssumption, BoundAssumption, TypeParts
                   DEF Init, BaseInv, Base
            <4> QED BY <4>1, FreeAt, RestoreFacts
        <3>2. dont_fkill = FALSE
            BY <2>1 DEF Init
        <3> QED BY <3>1, <3>2 DEF KillInv
    <2> QED BY <2>1, BaseInit, ThreadsAssumption, BoundAssumption
<1>2. BaseInv /\ KillInv /\ [Next]_vars => BaseInv' /\ KillInv'
    BY BaseStep, KillInvStep, BoundAssumption DEF BaseInv
<1>3. BaseInv /\ KillInv => FkillRestored
    BY KillRestored DEF BaseInv
<1> QED BY <1>1, <1>2, <1>3, PTL DEF Spec

-----------------------------------------------------------------------------
\* The local variables.

Each == {"get_each"}

\* A thread has a header only in folder_changed, and until it has posted it; it takes the
\* reason of a header only when it has one; and it has messages left only in get_headers.
LocalsOf(t) ==
    /\ hdr[t] # 0 => At(Watch, t) + At(Begins, t) > 0
    /\ pc[t] = "changed_restore" => hdr[t] = 0
    /\ pc[t] \in Takes /\ Head(stack[t]) = "changed_unlock" => hdr[t] = 1
    /\ left[t] # 0 => At(Each, t) > 0
LocalsInv == \A t \in Threads : LocalsOf(t)

\* Which labels watch a change, begin one, or are where get_headers adds headers.
LEMMA LocalFacts ==
    /\ \A a \in {"free", "reason", "reason_set", "unreason", "unreason_set", "unreason_test",
                 "unload", "post", "launch_refresh", "launch_headers", "set_flag", "get_headers",
                 "get_list", "unlock", "refresh", "sync", "camel", "refresh_item", "served"} :
           In(a, Watch) = 0 /\ In(a, Begins) = 0 /\ In(a, Each) = 0
    /\ \A a \in Watch : In(a, Watch) = 1 /\ In(a, Begins) = 0 /\ In(a, Each) = 0
    /\ \A a \in Begins : In(a, Watch) = 0 /\ In(a, Begins) = 1 /\ In(a, Each) = 0
    /\ In("get_each", Watch) = 0 /\ In("get_each", Begins) = 0 /\ In("get_each", Each) = 1
BY DEF In, Watch, Begins, Each

\* The locals of the other threads stay.
LEMMA LocalsKeep ==
    ASSUME LocalsInv, NEW t \in Threads, Moves(t), LocalsOf(t)',
           \A u \in Threads \ {t} : hdr'[u] = hdr[u] /\ left'[u] = left[u]
    PROVE  LocalsInv'
<1> SUFFICES ASSUME NEW u \in Threads PROVE LocalsOf(u)'
    BY DEF LocalsInv
<1>1. CASE u = t
    BY <1>1
<1>2. CASE u # t
    <2>1. /\ pc'[u] = pc[u] /\ stack'[u] = stack[u]
          /\ At(Watch, u)' = At(Watch, u) /\ At(Begins, u)' = At(Begins, u)
          /\ At(Each, u)' = At(Each, u)
        BY <1>2, OthersStay DEF Moves
    <2> QED BY <2>1, <1>2 DEF LocalsInv, LocalsOf
<1> QED BY <1>1, <1>2

\* A thread that goes on with its locals.
LEMMA LocalsWent ==
    ASSUME LocalsInv, NEW t \in Threads, NEW a, NEW b, Went(t, a, b), b # "changed_restore",
           b \in Takes => a \in Takes, UNCHANGED <<hdr, left>>,
           In(b, Watch) + In(b, Begins) = In(a, Watch) + In(a, Begins), In(b, Each) = In(a, Each),
           At(Watch, t) \in Nat, At(Begins, t) \in Nat, At(Each, t) \in Nat
    PROVE  LocalsInv'
<1>1. /\ At(Watch, t)' = At(Watch, t) - In(a, Watch) + In(b, Watch)
      /\ At(Begins, t)' = At(Begins, t) - In(a, Begins) + In(b, Begins)
      /\ At(Each, t)' = At(Each, t) - In(a, Each) + In(b, Each)
      /\ pc[t] = a /\ pc'[t] = b /\ stack'[t] = stack[t] /\ Moves(t)
    BY DEF Went
<1>2. /\ In(a, Watch) \in Int /\ In(a, Begins) \in Int /\ In(a, Each) \in Int
      /\ In(b, Watch) \in Int /\ In(b, Begins) \in Int /\ In(b, Each) \in Int
    BY DEF In
<1>3. LocalsOf(t)'
    BY <1>1, <1>2 DEF LocalsInv, LocalsOf
<1> QED BY <1>1, <1>3, LocalsKeep

\* A thread that returns, from a label where it has no header, or with its header posted.
LEMMA LocalsReturned ==
    ASSUME Base, LocalsInv, NEW t \in Threads, NEW a \in Labels \ {"free", "get_each"},
           Returned(t, a),
           hdr' = hdr \/ hdr' = [hdr EXCEPT ![t] = 0], UNCHANGED left,
           a \in Watch \cup Begins => hdr'[t] = 0, a = "post" => hdr'[t] = 0
    PROVE  LocalsInv'
<1>1. /\ At(Watch, t)' = At(Watch, t) - In(a, Watch)
      /\ At(Begins, t)' = At(Begins, t) - In(a, Begins)
      /\ At(Each, t)' = At(Each, t) - In(a, Each)
      /\ pc[t] = a /\ pc'[t] = Head(stack[t]) /\ stack'[t] = Tail(stack[t]) /\ Moves(t)
    BY DEF Returned
<1>2. /\ Head(stack[t]) = "changed_restore" => a = "post"
      /\ Head(stack[t]) = "reason" => Head(Tail(stack[t])) # "changed_unlock"
      /\ Head(stack[t]) # "reason_set"
    BY <1>1, FitHeads DEF Base, FrameInv
<1>3. hdr \in [Threads -> 0 .. 1] /\ (hdr'[t] = hdr[t] \/ hdr'[t] = 0)
    <2>1. hdr \in [Threads -> 0 .. 1]
        BY DEF Base, TypeOK
    <2> QED BY <2>1
<1>4. /\ At(Watch, t) \in Nat /\ At(Begins, t) \in Nat /\ At(Each, t) \in Nat
    BY ThreadSums
<1>5. In(a, Each) = 0 /\ (a \notin Watch \cup Begins => In(a, Watch) = 0 /\ In(a, Begins) = 0)
    BY DEF In, Each
<1>6. LocalsOf(t)'
    <2>1. LocalsOf(t)
        BY DEF LocalsInv
    <2>2. hdr'[t] # 0 => At(Watch, t)' + At(Begins, t)' > 0
        BY <2>1, <1>1, <1>3, <1>4, <1>5 DEF LocalsOf
    <2>3. pc'[t] = "changed_restore" => hdr'[t] = 0
        BY <1>1, <1>2
    <2>4. ~(pc'[t] \in Takes /\ Head(stack'[t]) = "changed_unlock")
        BY <1>1, <1>2 DEF Takes
    <2>5. left'[t] # 0 => At(Each, t)' > 0
        BY <2>1, <1>1, <1>4, <1>5 DEF LocalsOf
    <2> QED BY <2>2, <2>3, <2>4, <2>5 DEF LocalsOf
<1>7. \A u \in Threads \ {t} : hdr'[u] = hdr[u]
    BY <1>3
<1> QED BY <1>1, <1>6, <1>7, LocalsKeep

\* A thread that begins something has no header, and no messages left.
LEMMA LocalsCalled ==
    ASSUME LocalsInv, NEW t \in Threads, NEW b \in Labels, Called(t, "free", b),
           b \notin {"changed_restore", "reason_set"}, UNCHANGED left,
           \/ UNCHANGED hdr
           \/ At(Begins, t)' > 0 /\ b \notin Takes /\ \A u \in Threads \ {t} : hdr'[u] = hdr[u],
           At(Watch, t) = 0, At(Begins, t) = 0, At(Each, t) = 0,
           At(Watch, t)' \in Nat, At(Begins, t)' \in Nat
    PROVE  LocalsInv'
<1>1. hdr[t] = 0 /\ left[t] = 0
    BY DEF LocalsInv, LocalsOf
<1>2. LocalsOf(t)'
    <2>1. hdr'[t] # 0 => At(Watch, t)' + At(Begins, t)' > 0
        BY <1>1
    <2>2. /\ pc'[t] = b /\ (b = "reason" => Head(stack'[t]) # "changed_unlock")
        BY DEF Called
    <2>3. ~(pc'[t] \in Takes /\ Head(stack'[t]) = "changed_unlock")
        BY <2>2 DEF Takes
    <2> QED BY <2>1, <2>2, <2>3, <1>1 DEF LocalsOf
<1> QED BY <1>2, LocalsKeep DEF Called

\* The steps keep that: those of the reasons, of the calls and of folder_changed.
LEMMA LocalsReason ==
    ASSUME Base, LocalsInv, NEW t \in Threads, ReasonStep(t)
    PROVE  LocalsInv'
<1>1. UNCHANGED <<hdr, left>>
    BY DEF ReasonStep, Reason, ReasonSet, Unreason, UnreasonSet, UnreasonTest, Unload
<1>2. /\ At(Watch, t) \in Nat /\ At(Begins, t) \in Nat /\ At(Each, t) \in Nat
    BY ThreadSums
<1>3. \/ Went(t, "reason", "reason_set") \/ Went(t, "unreason", "unreason_set")
      \/ Went(t, "unreason_set", "unreason_test") \/ Went(t, "unreason_test", "unload")
      \/ Returned(t, "reason_set") \/ Returned(t, "unreason_test") \/ Returned(t, "unload")
    BY ReasonStepPlaces DEF ReasonStep
<1>4. ASSUME NEW a \in {"reason", "unreason", "unreason_set", "unreason_test"},
             NEW b \in {"reason_set", "unreason_set", "unreason_test", "unload"},
             Went(t, a, b), b = "reason_set" => a = "reason"
      PROVE  LocalsInv'
    BY <1>1, <1>2, <1>4, LocalFacts, LocalsWent DEF Takes
<1>5. ASSUME NEW a \in {"reason_set", "unreason_test", "unload"}, Returned(t, a)
      PROVE  LocalsInv'
    <2>1. a \in Labels \ {"free", "get_each"} /\ a \notin Watch \cup Begins /\ a # "post"
        BY DEF Labels, Watch, Begins
    <2> QED BY <2>1, <1>1, <1>5, LocalsReturned
<1> QED BY <1>3, <1>4, <1>5

\* Those of the calls: get_headers has messages left, post has posted its header.
LEMMA LocalsCall ==
    ASSUME Base, LocalsInv, NEW t \in Threads, CallStep(t)
    PROVE  LocalsInv'
<1>1. /\ At(Watch, t) \in Nat /\ At(Begins, t) \in Nat /\ At(Each, t) \in Nat
      /\ hdr \in [Threads -> 0 .. 1] /\ left \in [Threads -> 0 .. MaxMsgs] /\ LocalsOf(t)
    <2>1. hdr \in [Threads -> 0 .. 1] /\ left \in [Threads -> 0 .. MaxMsgs]
        BY DEF Base, TypeOK
    <2> QED BY <2>1, ThreadSums DEF LocalsInv
<1>2. ASSUME NEW a \in {"get_headers", "refresh", "sync", "refresh_item", "camel", "unlock", "post",
                        "set_flag", "served", "launch_refresh", "launch_headers"},
             Returned(t, a), UNCHANGED left,
             hdr' = hdr \/ hdr' = [hdr EXCEPT ![t] = 0], a = "post" => hdr'[t] = 0
      PROVE  LocalsInv'
    <2>1. a \in Labels \ {"free", "get_each"} /\ a \notin Watch \cup Begins
        BY DEF Labels, Watch, Begins
    <2> QED BY <2>1, <1>2, LocalsReturned
<1>3. ASSUME NEW a \in {"get_headers", "refresh", "sync"}, NEW b \in {"reason", "camel"},
             Called(t, a, b), UNCHANGED <<hdr, left>>,
             At(Watch, t)' = At(Watch, t), At(Begins, t)' = At(Begins, t),
             At(Each, t)' = At(Each, t)
      PROVE  LocalsInv'
    <2>1. /\ Moves(t) /\ pc'[t] = b /\ (b = "reason" => Head(stack'[t]) # "changed_unlock")
        BY <1>3 DEF Called
    <2>2. LocalsOf(t)'
        BY <2>1, <1>1, <1>3 DEF LocalsOf, Takes
    <2> QED BY <2>1, <2>2, <1>3, LocalsKeep
<1>4. CASE GetHeaders(t) \/ Refresh(t) \/ Sync(t)
    <2>1. UNCHANGED <<hdr, left>>
        BY <1>4 DEF GetHeaders, Refresh, Sync
    <2>2. CASE GetHeaders(t)
        BY <2>2, <2>1, <1>1, <1>2, <1>3, LoadStepPlaces, LocalFacts
    <2>3. CASE Refresh(t)
        BY <2>3, <2>1, <1>1, <1>2, <1>3, LoadStepPlaces, LocalFacts
    <2>4. CASE Sync(t)
        BY <2>4, <2>1, <1>1, <1>2, <1>3, LoadStepPlaces, LocalFacts
    <2> QED BY <1>4, <2>2, <2>3, <2>4
<1>5. CASE RefreshItem(t)
    <2>1. UNCHANGED <<hdr, left>>
        BY <1>5 DEF RefreshItem
    <2>2. Went(t, "refresh_item", "camel") \/ Returned(t, "refresh_item")
        BY <1>5, LoadStepPlaces
    <2> QED BY <2>1, <2>2, <1>1, <1>2, LocalFacts, LocalsWent DEF Takes
<1>6. CASE GetList(t)
    <2>1. Went(t, "get_list", "get_each") /\ UNCHANGED hdr
        BY <1>6, CallStepPlaces DEF GetList
    <2>2. \A u \in Threads \ {t} : left'[u] = left[u]
        BY <1>6, <1>1 DEF GetList
    <2>3. /\ Moves(t) /\ pc'[t] = "get_each"
          /\ At(Watch, t)' = At(Watch, t) /\ At(Begins, t)' = At(Begins, t)
          /\ At(Each, t)' = At(Each, t) + 1
        BY <2>1, <1>1, LocalFacts DEF Went
    <2>4. LocalsOf(t)'
        BY <2>1, <2>3, <1>1 DEF LocalsOf, Takes
    <2> QED BY <2>1, <2>2, <2>3, <2>4, LocalsKeep
<1>7. CASE GetEach(t)
    <2>1. UNCHANGED hdr /\ \A u \in Threads \ {t} : left'[u] = left[u]
        <3>1. left' = left \/ left' = [left EXCEPT ![t] = @ - 1]
            BY <1>7 DEF GetEach
        <3> QED BY <3>1, <1>1, <1>7 DEF GetEach
    <2>2. \/ Called(t, "get_each", "unreason") /\ left'[t] = 0
          \/ Called(t, "get_each", "reason") /\ At(Each, t)' = At(Each, t)
        BY <1>7, <1>1, CallStepPlaces, LocalFacts
    <2>3. At(Watch, t)' = At(Watch, t) /\ At(Begins, t)' = At(Begins, t)
        BY <1>7, <1>1, CallStepPlaces, LocalFacts
    <2>4. At(Each, t) > 0
        <3>1. pc[t] = "get_each"
            BY <1>7 DEF GetEach
        <3> QED BY <3>1, ThreadSums, LocalFacts
    <2>5. LocalsOf(t)' /\ Moves(t)
        BY <2>1, <2>2, <2>3, <2>4, <1>1 DEF LocalsOf, Takes, Called
    <2> QED BY <2>1, <2>5, LocalsKeep
<1>8. CASE CamelWorks(t)
    <2>1. UNCHANGED left
        BY <1>8 DEF CamelWorks
    <2>2. CASE Returned(t, "camel") /\ UNCHANGED hdr
        BY <2>1, <2>2, <1>2
    <2>3. CASE Went(t, "camel", "changed") /\ Finds(t, "call")
        <3>1. \A u \in Threads \ {t} : hdr'[u] = hdr[u]
            <4>1. hdr' = hdr \/ hdr' = [hdr EXCEPT ![t] = 1]
                BY <2>3 DEF Finds
            <4> QED BY <4>1, <1>1
        <3>2. /\ Moves(t) /\ pc'[t] = "changed" /\ At(Watch, t)' \in Nat
              /\ At(Begins, t)' = At(Begins, t) + 1 /\ At(Each, t)' = At(Each, t)
            BY <2>3, <1>1, LocalFacts DEF Went, Begins
        <3>3. LocalsOf(t)'
            BY <3>2, <2>1, <1>1 DEF LocalsOf, Takes
        <3> QED BY <3>1, <3>2, <3>3, <2>1, LocalsKeep
    <2> QED BY <1>8, <2>2, <2>3, CallStepPlaces
<1>9. CASE Unlock(t) \/ SetFlag(t) \/ Served(t) \/ LaunchRefresh(t) \/ LaunchHeaders(t)
    <2>1. UNCHANGED <<hdr, left>>
        BY <1>9 DEF Unlock, SetFlag, Served, LaunchRefresh, LaunchHeaders, Launch
    <2>2. \/ Returned(t, "unlock") \/ Returned(t, "set_flag") \/ Returned(t, "served")
          \/ Returned(t, "launch_refresh") \/ Returned(t, "launch_headers")
        BY <1>9, CallStepPlaces
    <2> QED BY <2>1, <2>2, <1>2
<1>10. CASE Post(t)
    <2>1. hdr' = [hdr EXCEPT ![t] = 0] /\ UNCHANGED left
        BY <1>10 DEF Post
    <2> QED BY <2>1, <1>1, <1>10, <1>2, CallStepPlaces
<1> QED BY <1>4, <1>5, <1>6, <1>7, <1>8, <1>9, <1>10 DEF CallStep

\* Those of folder_changed, which takes a reason for a header that it has.
LEMMA LocalsChanged ==
    ASSUME Base, LocalsInv, NEW t \in Threads, ChangedStep(t)
    PROVE  LocalsInv'
<1>1. /\ At(Watch, t) \in Nat /\ At(Begins, t) \in Nat /\ At(Each, t) \in Nat
      /\ hdr \in [Threads -> 0 .. 1] /\ LocalsOf(t)
    <2>1. hdr \in [Threads -> 0 .. 1]
        BY DEF Base, TypeOK
    <2> QED BY <2>1, ThreadSums DEF LocalsInv
<1>2. UNCHANGED left
    BY DEF ChangedStep, Changed, ChangedTry, ChangedUnlock, ChangedKill, ChangedRestore
<1>3. ASSUME NEW a \in {"changed", "changed_try", "changed_restore"}, Returned(t, a),
             hdr' = hdr \/ hdr' = [hdr EXCEPT ![t] = 0], hdr'[t] = 0
      PROVE  LocalsInv'
    <2>1. a \in Labels \ {"free", "get_each"} /\ a # "post"
        BY DEF Labels
    <2> QED BY <2>1, <1>2, <1>3, LocalsReturned
<1>4. CASE Changed(t)
    <2>1. CASE Went(t, "changed", "changed_try") /\ UNCHANGED hdr
        BY <2>1, <1>1, <1>2, LocalFacts, LocalsWent DEF Takes, Begins
    <2>2. CASE Returned(t, "changed") /\ hdr' = [hdr EXCEPT ![t] = 0]
        BY <2>2, <1>1, <1>3
    <2> QED BY <2>1, <2>2, <1>4, ChangedStepPlaces
<1>5. CASE ChangedTry(t)
    <2>1. CASE /\ Moves(t) /\ pc[t] = "changed_try" /\ UNCHANGED hdr
               /\ pc'[t] = (IF hdr[t] = 0 THEN "changed_unlock" ELSE "reason")
               /\ \A S : At(S, t)' = At(S, t) - In("changed_try", S) + In("changed_unlock", S)
                                     + (IF hdr[t] = 0 THEN 0 ELSE In("reason", S))
        <3>1. At(Watch, t)' + At(Begins, t)' > 0 /\ At(Each, t)' = At(Each, t)
            <4>1. /\ At(Watch, t)' = At(Watch, t) + 1 /\ At(Each, t)' = At(Each, t)
                  /\ At(Begins, t)' = At(Begins, t) - 1
                BY <2>1, <1>1, LocalFacts DEF Watch, Begins
            <4>2. At(Begins, t) > 0
                BY <2>1, ThreadSums, LocalFacts DEF Begins
            <4> QED BY <4>1, <4>2, <1>1
        <3>2. LocalsOf(t)'
            BY <3>1, <2>1, <1>1, <1>2 DEF LocalsOf, Takes
        <3> QED BY <3>2, <2>1, <1>2, LocalsKeep
    <2>2. CASE Returned(t, "changed_try") /\ hdr' = [hdr EXCEPT ![t] = 0]
        BY <2>2, <1>1, <1>3
    <2> QED BY <2>1, <2>2, <1>5, ChangedStepPlaces
<1>6. CASE ChangedUnlock(t)
    <2>1. Went(t, "changed_unlock", "changed_kill") /\ UNCHANGED hdr
        BY <1>6, ChangedStepPlaces DEF ChangedUnlock
    <2> QED BY <2>1, <1>1, <1>2, LocalFacts, LocalsWent DEF Takes, Watch
<1>7. CASE ChangedKill(t)
    <2>1. UNCHANGED hdr
        BY <1>7 DEF ChangedKill
    <2>2. /\ Called(t, "changed_kill", "reason")
          /\ \A S : At(S, t)' = At(S, t) - In("changed_kill", S) + In("reason", S)
                                + In("post", S) + In("changed_restore", S)
        BY <1>7, ChangedStepPlaces
    <2>3. /\ At(Watch, t)' = At(Watch, t) /\ At(Begins, t)' = At(Begins, t)
          /\ At(Each, t)' = At(Each, t)
        BY <2>2, <1>1, LocalFacts DEF Watch
    <2>4. LocalsOf(t)' /\ Moves(t)
        BY <2>1, <2>2, <2>3, <1>1, <1>2 DEF LocalsOf, Takes, Called
    <2> QED BY <2>1, <2>4, <1>2, LocalsKeep
<1>8. CASE ChangedRestore(t)
    <2>1. UNCHANGED hdr /\ pc[t] = "changed_restore"
        BY <1>8 DEF ChangedRestore
    <2> QED BY <2>1, <1>1, <1>3, <1>8, ChangedStepPlaces DEF LocalsOf
<1> QED BY <1>4, <1>5, <1>6, <1>7, <1>8 DEF ChangedStep

\* And those of threads that were nowhere.
LEMMA LocalsInvStep == ASSUME Base, LocalsInv, [Next]_vars PROVE LocalsInv'
<1>1. Callers \subseteq Threads /\ {Main, Worker, Camel} \subseteq Threads
    BY DEF Threads, Callers
<1>2. ASSUME NEW t \in Threads, CallFolder(t) \/ DropHeader(t) \/ FlagHeader(t)
      PROVE  LocalsInv'
    <2>1. UNCHANGED <<hdr, left>>
        BY <1>2 DEF CallFolder, DropHeader, FlagHeader
    <2>2. \E b \in Labels \ {"changed_restore", "reason_set"} :
              /\ Called(t, "free", b) /\ At(Watch, t) = 0 /\ At(Begins, t) = 0 /\ At(Each, t) = 0
              /\ At(Watch, t)' = 0 /\ At(Begins, t)' = 0
        <3>1. /\ "reason" \in Labels /\ "unreason" \in Labels /\ "set_flag" \in Labels
              /\ {"get_headers", "refresh", "sync"} \subseteq Labels
            BY DEF Labels
        <3>2. CASE CallFolder(t)
            BY <3>1, <3>2, CallFolderPlaces, LocalFacts
        <3>3. CASE DropHeader(t)
            BY <3>1, <3>3, OutsidePlaces, LocalFacts
        <3>4. CASE FlagHeader(t)
            BY <3>1, <3>4, OutsidePlaces, LocalFacts
        <3> QED BY <1>2, <3>2, <3>3, <3>4
    <2> QED BY <2>1, <2>2, LocalsCalled
<1>3. CASE RunSource
    <2>1. UNCHANGED <<hdr, left>>
        BY <1>3 DEF RunSource, RunChange, RunDone
    <2>2. /\ Called(Main, "free", "unreason")
          /\ At(Watch, Main) = 0 /\ At(Begins, Main) = 0 /\ At(Each, Main) = 0
          /\ At(Watch, Main)' = 0 /\ At(Begins, Main)' = 0
        <3>1. ASSUME NEW n \in 0 .. 1, RunChange(n)
              PROVE  /\ Called(Main, "free", "unreason")
                     /\ At(Watch, Main) = 0 /\ At(Begins, Main) = 0 /\ At(Each, Main) = 0
                     /\ At(Watch, Main)' = 0 /\ At(Begins, Main)' = 0
            <4>1. PICK kept \in 0 .. n :
                      /\ Moves(Main) /\ pc[Main] = "free" /\ pc'[Main] = "unreason"
                      /\ \A S : /\ At(S, Main)' = (n - kept + 1) * In("unreason", S) + In("free", S)
                                /\ At(S, Main) = In("free", S)
                BY <3>1, ChangeMoves
            <4>2. \A S : In("unreason", S) = 0 => (n - kept + 1) * In("unreason", S) = 0
                OBVIOUS
            <4> QED BY <4>1, <4>2, LocalFacts DEF Called
        <3>2. CASE RunDone
            BY <3>2, OutsidePlaces, LocalFacts
        <3> QED BY <1>3, <3>1, <3>2 DEF RunSource
    <2>3. "unreason" \in Labels
        BY DEF Labels
    <2> QED BY <2>1, <2>2, <2>3, <1>1, LocalsCalled
<1>4. CASE Serve
    <2>1. UNCHANGED <<hdr, left>>
        BY <1>4 DEF Serve
    <2>2. \E b \in {"refresh_item", "get_headers"} :
              /\ Called(Worker, "free", b)
              /\ At(Watch, Worker) = 0 /\ At(Begins, Worker) = 0 /\ At(Each, Worker) = 0
              /\ At(Watch, Worker)' = 0 /\ At(Begins, Worker)' = 0
        BY <1>4, ServeMoves, LocalFacts DEF Called
    <2>3. "refresh_item" \in Labels /\ "get_headers" \in Labels
        BY DEF Labels
    <2> QED BY <2>1, <2>2, <2>3, <1>1, LocalsCalled
<1>5. CASE Push
    <2>1. UNCHANGED left /\ \A u \in Threads \ {Camel} : hdr'[u] = hdr[u]
        <3>1. hdr' = hdr \/ hdr' = [hdr EXCEPT ![Camel] = 1]
            BY <1>5 DEF Push, Finds
        <3>2. hdr \in [Threads -> 0 .. 1]
            BY DEF Base, TypeOK
        <3> QED BY <3>1, <3>2, <1>5 DEF Push
    <2>2. /\ Called(Camel, "free", "changed")
          /\ At(Watch, Camel) = 0 /\ At(Begins, Camel) = 0 /\ At(Each, Camel) = 0
          /\ At(Watch, Camel)' = 0 /\ At(Begins, Camel)' = 1
        BY <1>5, OutsidePlaces, LocalFacts DEF Begins
    <2>3. "changed" \in Labels /\ "changed" \notin Takes
        BY DEF Labels, Takes
    <2> QED BY <2>1, <2>2, <2>3, <1>1, LocalsCalled
<1>6. CASE UNCHANGED vars
    BY <1>6 DEF LocalsInv, LocalsOf, At
<1> QED BY <1>1, <1>2, <1>3, <1>4, <1>5, <1>6, LocalsReason, LocalsCall, LocalsChanged
        DEF Next, ThreadStep

-----------------------------------------------------------------------------
\* What the threads hold.

\* The reasons that thread t has taken and will give back or hand on: its labels give
\* them, but for those that its other labels still take, and the one of the header of a
\* change that it tells.
Held(t) == At(Gives, t) - At(Takes, t) + IF At(Watch, t) > 0 THEN hdr[t] ELSE 0
HeldBy == [t \in Threads |-> Held(t)]

\* One element for each reason.
Units(f) == {p \in Threads \X Nat : 1 <= p[2] /\ p[2] <= f[p[1]]}
HeldUnits == Units(HeldBy)

\* A thread adds or removes its own.
LEMMA UnitsChange ==
    ASSUME NEW f \in [Threads -> Nat], NEW g \in [Threads -> Nat], NEW t \in Threads,
           \A u \in Threads \ {t} : g[u] = f[u], IsFiniteSet(Units(f))
    PROVE  /\ IsFiniteSet(Units(g))
           /\ Cardinality(Units(g)) = Cardinality(Units(f)) + g[t] - f[t]
<1> DEFINE R == {p \in (Threads \ {t}) \X Nat : 1 <= p[2] /\ p[2] <= f[p[1]]}
<1>1. ASSUME NEW h \in [Threads -> Nat], \A u \in Threads \ {t} : h[u] = f[u]
      PROVE  /\ Units(h) = R \cup ({t} \X (1 .. h[t]))
             /\ R \cap ({t} \X (1 .. h[t])) = {}
    <2>1. ASSUME NEW p PROVE p \in Units(h) <=> p \in R \cup ({t} \X (1 .. h[t]))
        <3>1. CASE \E x \in Threads, y \in Nat : p = <<x, y>>
            <4>1. PICK x \in Threads, y \in Nat : p = <<x, y>>
                BY <3>1
            <4>2. p \in Units(h) <=> 1 <= y /\ y <= h[x]
                BY <4>1 DEF Units
            <4>3. p \in R <=> x # t /\ 1 <= y /\ y <= f[x]
                BY <4>1
            <4>4. p \in {t} \X (1 .. h[t]) <=> x = t /\ 1 <= y /\ y <= h[t]
                BY <4>1, <1>1
            <4> QED BY <4>2, <4>3, <4>4, <1>1
        <3>2. CASE ~\E x \in Threads, y \in Nat : p = <<x, y>>
            <4>1. p \notin Units(h) /\ p \notin R
                BY <3>2 DEF Units
            <4>2. p \notin {t} \X (1 .. h[t])
                BY <3>2, <1>1
            <4> QED BY <4>1, <4>2
        <3> QED BY <3>1, <3>2
    <2>2. R \cap ({t} \X (1 .. h[t])) = {}
        OBVIOUS
    <2> QED BY <2>1, <2>2
<1>2. ASSUME NEW n \in Nat
      PROVE  IsFiniteSet({t} \X (1 .. n)) /\ Cardinality({t} \X (1 .. n)) = n
    <2>1. IsFiniteSet({t}) /\ Cardinality({t}) = 1
        BY FS_Singleton
    <2>2. IsFiniteSet(1 .. n) /\ Cardinality(1 .. n) = n
        <3>1. 1 \in Int /\ n \in Int
            OBVIOUS
        <3>2. /\ IsFiniteSet(1 .. n)
              /\ Cardinality(1 .. n) = IF 1 > n THEN 0 ELSE n - 1 + 1
            BY <3>1, FS_Interval, Zenon
        <3> QED BY <3>2
    <2>3. /\ IsFiniteSet({t} \X (1 .. n))
          /\ Cardinality({t} \X (1 .. n)) = Cardinality({t}) * Cardinality(1 .. n)
        BY <2>1, <2>2, FS_Product
    <2> QED BY <2>1, <2>2, <2>3
<1>3. IsFiniteSet(R)
    <2>1. R \subseteq Units(f)
        BY <1>1
    <2> QED BY <2>1, FS_Subset
<1> HIDE DEF R
<1>4. ASSUME NEW h \in [Threads -> Nat], \A u \in Threads \ {t} : h[u] = f[u]
      PROVE  IsFiniteSet(Units(h)) /\ Cardinality(Units(h)) = Cardinality(R) + h[t]
    <2>1. h[t] \in Nat
        OBVIOUS
    <2>2. IsFiniteSet({t} \X (1 .. h[t])) /\ Cardinality({t} \X (1 .. h[t])) = h[t]
        BY <2>1, <1>2
    <2>3. /\ IsFiniteSet(R \cup ({t} \X (1 .. h[t])))
          /\ Cardinality(R \cup ({t} \X (1 .. h[t]))) =
                Cardinality(R) + Cardinality({t} \X (1 .. h[t]))
                - Cardinality(R \cap ({t} \X (1 .. h[t])))
        BY <2>2, <1>3, FS_Union
    <2>4. Cardinality({}) = 0 /\ Cardinality(R) \in Nat
        BY <1>3, FS_EmptySet, FS_CardinalityType
    <2>5. Units(h) = R \cup ({t} \X (1 .. h[t])) /\ R \cap ({t} \X (1 .. h[t])) = {}
        BY <1>1, <1>4
    <2>6. Cardinality(R \cap ({t} \X (1 .. h[t]))) = 0
        BY <2>4, <2>5, Zenon
    <2>7. Cardinality(R \cup ({t} \X (1 .. h[t]))) = Cardinality(R) + h[t]
        BY <2>1, <2>2, <2>3, <2>4, <2>6
    <2> QED BY <2>3, <2>5, <2>7, Zenon
<1>5. Cardinality(R) \in Nat /\ f[t] \in Nat /\ g[t] \in Nat
    BY <1>3, FS_CardinalityType
<1> QED BY <1>4, <1>5

\* A thread never holds less than nothing.
LEMMA HeldNat == ASSUME Base, LocalsInv PROVE HeldBy \in [Threads -> Nat]
<1> SUFFICES ASSUME NEW t \in Threads PROVE Held(t) \in Nat
    BY DEF HeldBy
<1>1. /\ At(Gives, t) \in Nat /\ At(Takes, t) \in Nat /\ At(Watch, t) \in Nat
      /\ hdr[t] \in 0 .. 1
    <2>1. hdr[t] \in 0 .. 1
        BY DEF Base, TypeOK
    <2> QED BY <2>1, ThreadSums
<1>2. At(Takes, t) <=
          At(Gives, t) + (IF pc[t] \in Takes /\ Head(stack[t]) = "changed_unlock" THEN 1 ELSE 0)
    <2>1. /\ At(Takes, t) = In(pc[t], Takes) + Count(Takes, stack[t])
          /\ At(Gives, t) = In(pc[t], Gives) + Count(Gives, stack[t])
        BY ThreadSums
    <2>2. In(pc[t], Takes) + Count(Takes, stack[t]) <=
              In(pc[t], Gives) + Count(Gives, stack[t])
              + (IF pc[t] \in Takes /\ Head(stack[t]) = "changed_unlock" THEN 1 ELSE 0)
        BY ThreadSums DEF Sums
    <2> QED BY <2>1, <2>2
<1>3. pc[t] \in Takes /\ Head(stack[t]) = "changed_unlock" => At(Watch, t) > 0 /\ hdr[t] = 1
    <2>1. pc[t] \in Takes /\ Head(stack[t]) = "changed_unlock" => Count(Watch, stack[t]) > 0
        BY ThreadSums DEF Sums
    <2>2. /\ At(Watch, t) = In(pc[t], Watch) + Count(Watch, stack[t])
          /\ In(pc[t], Watch) \in 0 .. 1 /\ Count(Watch, stack[t]) \in Nat
        BY ThreadSums
    <2> QED BY <2>1, <2>2 DEF LocalsInv, LocalsOf
<1> QED BY <1>1, <1>2, <1>3 DEF Held

\* The count is the reasons of the owners and those of the threads.
CountInv ==
    IsFiniteSet(HeldUnits) /\ (lost \/ reason_to_live = Owners + Cardinality(HeldUnits))

\* A step of a thread that moves as many reasons as it counts.
LEMMA CountKeep ==
    ASSUME Base, LocalsInv, Base', LocalsInv', CountInv, NEW t \in Threads, Moves(t),
           \A u \in Threads \ {t} : hdr'[u] = hdr[u], Owners \in Int, Owners' \in Int,
           \/ lost'
           \/ ~lost /\ reason_to_live' - Owners' = reason_to_live - Owners + Held(t)' - Held(t)
    PROVE  CountInv'
<1>1. HeldBy \in [Threads -> Nat]
    BY HeldNat
<1>2. HeldBy' \in [Threads -> Nat]
    <2>1. (Base /\ LocalsInv => HeldBy \in [Threads -> Nat])'
        BY HeldNat, PTL
    <2> QED BY <2>1
<1>3. /\ HeldBy[t] = Held(t) /\ HeldBy'[t] = Held(t)'
      /\ \A u \in Threads \ {t} : HeldBy'[u] = HeldBy[u]
    <2>1. \A u \in Threads \ {t} : Held(u)' = Held(u)
        BY OthersStay DEF Moves, Held
    <2> QED BY <2>1 DEF HeldBy
<1>4. /\ IsFiniteSet(Units(HeldBy'))
      /\ Cardinality(Units(HeldBy')) = Cardinality(Units(HeldBy)) + HeldBy'[t] - HeldBy[t]
    BY <1>1, <1>2, <1>3, UnitsChange DEF CountInv, HeldUnits
<1>5. HeldUnits' = Units(HeldBy') /\ Cardinality(HeldUnits) \in Nat
    BY FS_CardinalityType DEF HeldUnits, Units, CountInv
<1>6. reason_to_live \in Int /\ reason_to_live' \in Int /\ HeldBy[t] \in Nat /\ HeldBy'[t] \in Nat
    BY <1>1, <1>2 DEF Base, TypeOK
<1> QED BY <1>3, <1>4, <1>5, <1>6 DEF CountInv, HeldUnits

\* What every label is worth.
LEMMA WorthFacts ==
    /\ \A a \in {"free", "unreason_test", "unload", "set_flag", "get_headers", "unlock", "refresh",
                 "sync", "camel", "refresh_item", "changed", "changed_try"} :
           In(a, Gives) = 0 /\ In(a, Takes) = 0 /\ In(a, Watch) = 0
    /\ \A a \in Takes : In(a, Gives) = 0 /\ In(a, Takes) = 1 /\ In(a, Watch) = 0
    /\ \A a \in Gives : In(a, Gives) = 1 /\ In(a, Takes) = 0 /\ In(a, Watch) = 0
    /\ \A a \in Watch : In(a, Gives) = 0 /\ In(a, Takes) = 0 /\ In(a, Watch) = 1
    /\ "reason" \in Takes /\ "reason_set" \in Takes
    /\ {"unreason", "unreason_set", "get_list", "get_each", "post", "served", "launch_refresh",
        "launch_headers"} \subseteq Gives
    /\ {"changed_unlock", "changed_kill", "changed_restore"} \subseteq Watch
BY DEF In, Gives, Takes, Watch

\* The owners' reasons are a number.
LEMMA OwnersNat ==
    ASSUME TypeOK
    PROVE  Owners \in Nat /\ IsFiniteSet(waiting) /\ Cardinality(waiting) \in Nat
<1>1. IsFiniteSet(Items)
    <2>1. IsFiniteSet({"refresh"})
        BY FS_Singleton
    <2>2. Items = {"refresh"} \cup {"headers"}
        BY DEF Items
    <2> QED BY <2>1, <2>2, FS_AddElement
<1>2. IsFiniteSet(waiting) /\ Cardinality(waiting) \in Nat
    BY <1>1, FS_Subset, FS_CardinalityType DEF TypeOK
<1>3. changes[0] \in Nat /\ changes[1] \in Nat /\ headers \in Nat /\ done \in Nat
    BY DEF TypeOK
<1> QED BY <1>2, <1>3 DEF Owners

\* The numbers of the labels that give and take are naturals.
WorthNat ==
    \A u \in Threads : At(Gives, u) \in Nat /\ At(Takes, u) \in Nat /\ At(Watch, u) \in Nat
\* They are.
LEMMA WorthNats == ASSUME Base PROVE WorthNat
BY ThreadSums DEF WorthNat

\* A step of a thread whose labels lose or gain d reasons, as the count or the owners gain
\* or lose them.
LEMMA CountMoves ==
    ASSUME Base, LocalsInv, Base', LocalsInv', CountInv, ~lost, NEW t \in Threads, NEW d \in Int,
           Moves(t), \A u \in Threads \ {t} : hdr'[u] = hdr[u],
           At(Gives, t)' - At(Takes, t)' = At(Gives, t) - At(Takes, t) + d,
           \/ At(Watch, t)' = At(Watch, t) /\ hdr'[t] = hdr[t]
           \/ At(Watch, t)' = 0 /\ At(Watch, t) = 0
           \/ hdr'[t] = 0 /\ hdr[t] = 0,
           \/ lost'
           \/ reason_to_live' - Owners' = reason_to_live - Owners + d
    PROVE  CountInv'
<1>1. Owners \in Int /\ Owners' \in Int
    <2>1. Owners \in Nat
        BY OwnersNat DEF Base
    <2>2. (TypeOK => Owners \in Nat)'
        BY OwnersNat, PTL
    <2> QED BY <2>1, <2>2 DEF Base
<1>2. /\ At(Gives, t) \in Nat /\ At(Takes, t) \in Nat /\ At(Watch, t) \in Nat
      /\ At(Gives, t)' \in Nat /\ At(Takes, t)' \in Nat /\ At(Watch, t)' \in Nat
    <2>1. (Base => WorthNat)'
        BY WorthNats, PTL
    <2> QED BY <2>1, WorthNats DEF WorthNat
<1>3. hdr[t] \in 0 .. 1 /\ hdr'[t] \in 0 .. 1
    BY DEF Base, TypeOK
<1>4. Held(t)' = Held(t) + d /\ Held(t) \in Int
    <2>1. Held(t) \in Int
        BY <1>2, <1>3 DEF Held
    <2>2. CASE At(Watch, t)' = At(Watch, t) /\ hdr'[t] = hdr[t]
        BY <2>1, <2>2, <1>2, <1>3 DEF Held
    <2>3. CASE At(Watch, t)' = 0 /\ At(Watch, t) = 0
        BY <2>1, <2>3, <1>2, <1>3 DEF Held
    <2>4. CASE hdr'[t] = 0 /\ hdr[t] = 0
        BY <2>1, <2>4, <1>2, <1>3 DEF Held
    <2> QED BY <2>1, <2>2, <2>3, <2>4
<1>5. \/ lost'
      \/ ~lost /\ reason_to_live' - Owners' = reason_to_live - Owners + Held(t)' - Held(t)
    BY <1>4
<1> QED BY <1>1, <1>5, CountKeep

\* The steps keep the count: those of the reasons,
LEMMA CountReason ==
    ASSUME Base, LocalsInv, Base', LocalsInv', CountInv, ~lost, NEW t \in Threads, ReasonStep(t)
    PROVE  CountInv'
<1>1. UNCHANGED <<hdr, Owners>>
    BY DEF ReasonStep, Reason, ReasonSet, Unreason, UnreasonSet, UnreasonTest, Unload, Owners
<1>2. /\ At(Gives, t) \in Nat /\ At(Takes, t) \in Nat /\ At(Watch, t) \in Nat
      /\ reason_to_live \in Int /\ tmp[t] \in Int /\ Owners \in Nat
    <2>1. reason_to_live \in Int /\ tmp[t] \in Int
        BY DEF Base, TypeOK
    <2> QED BY <2>1, ThreadSums, OwnersNat DEF Base
<1>3. CASE Reason(t) \/ Unreason(t) \/ UnreasonTest(t) \/ Unload(t)
    <2>1. UNCHANGED reason_to_live
        BY <1>3 DEF Reason, Unreason, UnreasonTest, Unload
    <2>2. /\ Moves(t) /\ At(Watch, t)' = At(Watch, t)
          /\ At(Gives, t)' - At(Takes, t)' = At(Gives, t) - At(Takes, t)
        BY <1>2, <1>3, ReasonStepPlaces, WorthFacts DEF Went, Returned
    <2> QED BY <2>1, <2>2, <1>1, <1>2, CountMoves
<1>4. CASE ReasonSet(t)
    <2>1. lost' \/ reason_to_live' = reason_to_live + 1
        BY <1>4, <1>2 DEF ReasonSet
    <2>2. /\ Moves(t) /\ At(Watch, t)' = At(Watch, t)
          /\ At(Gives, t)' - At(Takes, t)' = At(Gives, t) - At(Takes, t) + 1
        BY <1>2, <1>4, ReasonStepPlaces, WorthFacts DEF Returned
    <2> QED BY <2>1, <2>2, <1>1, <1>2, CountMoves
<1>5. CASE UnreasonSet(t)
    <2>1. lost' \/ reason_to_live' = reason_to_live - 1
        BY <1>5, <1>2 DEF UnreasonSet
    <2>2. lost' \/ reason_to_live' - Owners' = reason_to_live - Owners + (-1)
        BY <2>1, <1>1, <1>2
    <2>3. /\ Moves(t) /\ At(Watch, t)' = At(Watch, t)
          /\ At(Gives, t)' - At(Takes, t)' = At(Gives, t) - At(Takes, t) + (-1)
        BY <1>2, <1>5, ReasonStepPlaces, WorthFacts DEF Went
    <2> QED BY <2>2, <2>3, <1>1, CountMoves
<1> QED BY <1>3, <1>4, <1>5 DEF ReasonStep

\* those of the calls,
LEMMA CountCall ==
    ASSUME Base, LocalsInv, Base', LocalsInv', CountInv, ~lost, NEW t \in Threads, CallStep(t)
    PROVE  CountInv'
<1>1. /\ At(Gives, t) \in Nat /\ At(Takes, t) \in Nat /\ At(Watch, t) \in Nat
      /\ reason_to_live \in Int /\ Owners \in Nat /\ hdr \in [Threads -> 0 .. 1]
    <2>1. reason_to_live \in Int /\ hdr \in [Threads -> 0 .. 1]
        BY DEF Base, TypeOK
    <2> QED BY <2>1, ThreadSums, OwnersNat DEF Base
<1>2. UNCHANGED reason_to_live
    BY DEF CallStep, GetHeaders, GetList, GetEach, Refresh, Sync, CamelWorks, Unlock, Post,
           LaunchRefresh, LaunchHeaders, Launch, SetFlag, RefreshItem, Served
<1>3. CASE GetHeaders(t) \/ GetList(t) \/ Refresh(t) \/ Sync(t) \/ Unlock(t) \/ SetFlag(t)
           \/ RefreshItem(t)
    <2>1. UNCHANGED <<hdr, Owners>>
        BY <1>3 DEF GetHeaders, GetList, Refresh, Sync, Unlock, SetFlag, RefreshItem, Owners
    <2>2. /\ Moves(t) /\ At(Watch, t)' = At(Watch, t)
          /\ At(Gives, t)' - At(Takes, t)' = At(Gives, t) - At(Takes, t) + 0
        <3>1. CASE GetHeaders(t)
            BY <3>1, <1>1, LoadStepPlaces, WorthFacts DEF Returned, Called
        <3>2. CASE Refresh(t)
            BY <3>2, <1>1, LoadStepPlaces, WorthFacts DEF Returned, Called
        <3>3. CASE Sync(t)
            BY <3>3, <1>1, LoadStepPlaces, WorthFacts DEF Returned, Called
        <3>4. CASE RefreshItem(t)
            BY <3>4, <1>1, LoadStepPlaces, WorthFacts DEF Returned, Went
        <3>5. CASE GetList(t) \/ Unlock(t) \/ SetFlag(t)
            BY <3>5, <1>1, CallStepPlaces, WorthFacts DEF Returned, Went
        <3> QED BY <1>3, <3>1, <3>2, <3>3, <3>4, <3>5
    <2> QED BY <2>1, <2>2, <1>1, <1>2, CountMoves
<1>4. CASE GetEach(t)
    <2>1. UNCHANGED hdr /\ UNCHANGED <<changes, done, waiting>>
        BY <1>4 DEF GetEach
    <2>2. Moves(t) /\ At(Watch, t)' = At(Watch, t)
        BY <1>4, <1>1, CallStepPlaces, WorthFacts DEF Called
    <2>3. \/ /\ UNCHANGED headers
             /\ At(Gives, t)' - At(Takes, t)' = At(Gives, t) - At(Takes, t)
          \/ /\ headers' = headers + 1
             /\ At(Gives, t)' - At(Takes, t)' = At(Gives, t) - At(Takes, t) - 1
        BY <1>4, <1>1, CallStepPlaces, WorthFacts
    <2>4. CASE /\ UNCHANGED headers
               /\ At(Gives, t)' - At(Takes, t)' = At(Gives, t) - At(Takes, t)
        <3>1. Owners' = Owners
            BY <2>1, <2>4 DEF Owners
        <3> QED BY <3>1, <2>1, <2>2, <2>4, <1>1, <1>2, CountMoves
    <2>5. CASE /\ headers' = headers + 1
               /\ At(Gives, t)' - At(Takes, t)' = At(Gives, t) - At(Takes, t) - 1
        <3>1. Owners' = Owners + 1
            <4>1. headers \in Nat /\ changes[0] \in Nat /\ changes[1] \in Nat /\ done \in Nat
                BY DEF Base, TypeOK
            <4>2. Cardinality(waiting) \in Nat
                BY OwnersNat DEF Base
            <4> DEFINE c == Cardinality(waiting)
                       a == changes[0]
                       b == changes[1]
            <4>3. Owners = headers + a + 2 * b + done + c
                BY Zenon DEF Owners
            <4>4. Owners' = headers' + a + 2 * b + done + c
                BY <2>1, <2>5 DEF Owners
            <4> HIDE DEF a, b, c
            <4>5. a \in Nat /\ b \in Nat /\ c \in Nat
                BY <4>1, <4>2 DEF a, b, c
            <4> QED BY <4>1, <4>3, <4>4, <4>5, <2>5
        <3>2. reason_to_live' - Owners' = reason_to_live - Owners + (-1)
            BY <3>1, <1>1, <1>2
        <3>3. At(Gives, t)' - At(Takes, t)' = At(Gives, t) - At(Takes, t) + (-1)
            BY <2>5, <1>1
        <3> QED BY <3>2, <3>3, <2>1, <2>2, CountMoves
    <2> QED BY <2>3, <2>4, <2>5
<1>5. CASE CamelWorks(t)
    <2>1. Owners' = Owners /\ \A u \in Threads \ {t} : hdr'[u] = hdr[u]
        <3>1. hdr' = hdr \/ hdr' = [hdr EXCEPT ![t] = 1]
            BY <1>5 DEF CamelWorks, Finds
        <3> QED BY <3>1, <1>1, <1>5 DEF CamelWorks, Owners
    <2>2. At(Watch, t) = 0
        <3>1. pc[t] = "camel"
            BY <1>5 DEF CamelWorks
        <3> QED BY <3>1, ThreadSums, WorthFacts DEF Sums
    <2>3. /\ Moves(t) /\ At(Watch, t)' = 0
          /\ At(Gives, t)' - At(Takes, t)' = At(Gives, t) - At(Takes, t)
        BY <1>5, <2>2, <1>1, CallStepPlaces, WorthFacts DEF Returned, Went
    <2> QED BY <2>1, <2>2, <2>3, <1>1, <1>2, CountMoves
<1>6. CASE Post(t)
    <2>1. /\ changes' = [changes EXCEPT ![hdr[t]] = @ + 1] /\ hdr' = [hdr EXCEPT ![t] = 0]
          /\ UNCHANGED <<headers, done, waiting>> /\ pc[t] = "post"
        BY <1>6 DEF Post
    <2>2. Owners' = Owners + 1 + hdr[t]
        <3>1. headers \in Nat /\ changes \in [0 .. 1 -> Nat] /\ done \in Nat
            BY DEF Base, TypeOK
        <3>2. Cardinality(waiting) \in Nat
            BY OwnersNat DEF Base
        <3>3. \/ hdr[t] = 0 /\ changes'[0] = changes[0] + 1 /\ changes'[1] = changes[1]
              \/ hdr[t] = 1 /\ changes'[1] = changes[1] + 1 /\ changes'[0] = changes[0]
            BY <2>1, <3>1, <1>1
        <3>4. changes[0] \in Nat /\ changes[1] \in Nat
            BY <3>1
        <3> QED BY <2>1, <3>1, <3>2, <3>3, <3>4 DEF Owners
    <2>3. /\ Moves(t) /\ At(Watch, t)' = At(Watch, t)
          /\ At(Gives, t)' - At(Takes, t)' = At(Gives, t) - At(Takes, t) - 1
        BY <1>6, <1>1, CallStepPlaces, WorthFacts DEF Returned
    <2>4. hdr'[t] = 0 /\ hdr[t] \in 0 .. 1 /\ \A u \in Threads \ {t} : hdr'[u] = hdr[u]
        BY <2>1, <1>1
    <2>5. At(Watch, t) = 0 => hdr[t] = 0
        <3>1. At(Begins, t) = 0
            BY <2>1, ThreadSums, LocalFacts DEF Sums
        <3> QED BY <3>1 DEF LocalsInv, LocalsOf
    <2>6. Held(t)' = Held(t) - 1 - hdr[t] /\ Held(t) \in Int
        BY <2>3, <2>4, <2>5, <1>1 DEF Held
    <2>7. Owners' \in Int /\ ~lost
                /\ reason_to_live' - Owners' = reason_to_live - Owners + Held(t)' - Held(t)
        BY <2>2, <2>4, <2>6, <1>1, <1>2
    <2> QED BY <2>3, <2>4, <2>7, <1>1, CountKeep
<1>7. CASE LaunchRefresh(t) \/ LaunchHeaders(t)
    <2>1. PICK item \in Items, withdrawn \in SUBSET Items :
              /\ item \in withdrawn
              /\ waiting' = (waiting \ withdrawn) \cup {item}
              /\ done' = done + Cardinality(waiting \cap withdrawn)
        BY <1>7 DEF LaunchRefresh, LaunchHeaders, Launch, Items
    <2>2. UNCHANGED <<headers, changes, hdr>>
        BY <1>7 DEF LaunchRefresh, LaunchHeaders, Launch
    <2>3. Owners' = Owners + 1
        <3>1. IsFiniteSet(waiting) /\ Cardinality(waiting) \in Nat
            BY OwnersNat DEF Base
        <3>2. /\ IsFiniteSet(waiting \ withdrawn)
              /\ Cardinality(waiting \ withdrawn) =
                    Cardinality(waiting) - Cardinality(waiting \cap withdrawn)
            BY <3>1, FS_Difference
        <3>3. item \notin waiting \ withdrawn
            BY <2>1
        <3>4. Cardinality(waiting') = Cardinality(waiting \ withdrawn) + 1
            BY <3>2, <3>3, <2>1, FS_AddElement
        <3>5. Cardinality(waiting \cap withdrawn) \in Nat
            BY <3>1, FS_Intersection, FS_CardinalityType
        <3>6. headers \in Nat /\ changes[0] \in Nat /\ changes[1] \in Nat /\ done \in Nat
            BY DEF Base, TypeOK
        <3> QED BY <2>1, <2>2, <3>1, <3>2, <3>4, <3>5, <3>6 DEF Owners
    <2>4. /\ Moves(t) /\ At(Watch, t)' = At(Watch, t)
          /\ At(Gives, t)' - At(Takes, t)' = At(Gives, t) - At(Takes, t) + (-1)
        BY <1>7, <1>1, CallStepPlaces, WorthFacts DEF Returned
    <2>5. reason_to_live' - Owners' = reason_to_live - Owners + (-1)
        BY <2>3, <1>1, <1>2
    <2> QED BY <2>2, <2>4, <2>5, CountMoves
<1>8. CASE Served(t)
    <2>1. UNCHANGED <<headers, changes, waiting, hdr>> /\ done' = done + 1
        BY <1>8 DEF Served
    <2>2. Owners' = Owners + 1
        <3>1. headers \in Nat /\ changes[0] \in Nat /\ changes[1] \in Nat /\ done \in Nat
            BY DEF Base, TypeOK
        <3>2. Cardinality(waiting) \in Nat
            BY OwnersNat DEF Base
        <3> QED BY <2>1, <3>1, <3>2 DEF Owners
    <2>3. /\ Moves(t) /\ At(Watch, t)' = At(Watch, t)
          /\ At(Gives, t)' - At(Takes, t)' = At(Gives, t) - At(Takes, t) + (-1)
        BY <1>8, <1>1, CallStepPlaces, WorthFacts DEF Returned
    <2>4. reason_to_live' - Owners' = reason_to_live - Owners + (-1)
        BY <2>2, <1>1, <1>2
    <2> QED BY <2>1, <2>3, <2>4, CountMoves
<1> QED BY <1>3, <1>4, <1>5, <1>6, <1>7, <1>8 DEF CallStep

\* those of folder_changed,
LEMMA CountChanged ==
    ASSUME Base, LocalsInv, Base', LocalsInv', CountInv, ~lost, NEW t \in Threads, ChangedStep(t)
    PROVE  CountInv'
<1>1. /\ At(Gives, t) \in Nat /\ At(Takes, t) \in Nat /\ At(Watch, t) \in Nat
      /\ reason_to_live \in Int /\ Owners \in Nat /\ hdr \in [Threads -> 0 .. 1]
    <2>1. reason_to_live \in Int /\ hdr \in [Threads -> 0 .. 1]
        BY DEF Base, TypeOK
    <2> QED BY <2>1, ThreadSums, OwnersNat DEF Base
<1>2. UNCHANGED <<reason_to_live, Owners>>
    BY DEF ChangedStep, Changed, ChangedTry, ChangedUnlock, ChangedKill, ChangedRestore, Owners
<1>3. CASE Changed(t) \/ ChangedTry(t)
    <2>1. At(Watch, t) = 0
        <3>1. pc[t] \in Begins
            BY <1>3 DEF Changed, ChangedTry, Begins
        <3> QED BY <3>1, ThreadSums, WorthFacts DEF Sums, Begins
    <2>2. \A u \in Threads \ {t} : hdr'[u] = hdr[u]
        <3>1. hdr' = hdr \/ hdr' = [hdr EXCEPT ![t] = 0]
            BY <1>3 DEF Changed, ChangedTry
        <3> QED BY <3>1, <1>1
    <2>3. CASE Went(t, "changed", "changed_try")
        <3>1. /\ Moves(t) /\ At(Watch, t)' = 0
              /\ At(Gives, t)' - At(Takes, t)' = At(Gives, t) - At(Takes, t)
            BY <2>3, <2>1, <1>1, WorthFacts DEF Went
        <3> QED BY <3>1, <2>1, <2>2, <1>1, <1>2, CountMoves
    <2>4. CASE Returned(t, "changed") \/ Returned(t, "changed_try")
        <3>1. /\ Moves(t) /\ At(Watch, t)' = 0
              /\ At(Gives, t)' - At(Takes, t)' = At(Gives, t) - At(Takes, t)
            BY <2>4, <2>1, <1>1, WorthFacts DEF Returned
        <3> QED BY <3>1, <2>1, <2>2, <1>1, <1>2, CountMoves
    <2>5. CASE /\ Moves(t) /\ UNCHANGED hdr
               /\ \A S : At(S, t)' = At(S, t) - In("changed_try", S) + In("changed_unlock", S)
                                     + (IF hdr[t] = 0 THEN 0 ELSE In("reason", S))
        <3>1. /\ At(Watch, t)' = 1 /\ At(Gives, t)' = At(Gives, t)
              /\ At(Takes, t)' = At(Takes, t) + hdr[t]
            BY <2>5, <2>1, <1>1, WorthFacts
        <3>2. Held(t)' = Held(t) /\ Held(t) \in Int
            BY <3>1, <2>1, <2>5, <1>1 DEF Held
        <3>3. ~lost /\ reason_to_live' - Owners' = reason_to_live - Owners + Held(t)' - Held(t)
            BY <3>2, <1>1, <1>2
        <3> QED BY <3>3, <2>2, <2>5, <1>1, <1>2, CountKeep
    <2> QED BY <1>3, <2>3, <2>4, <2>5, ChangedStepPlaces
<1>4. CASE ChangedUnlock(t) \/ ChangedKill(t)
    <2>1. UNCHANGED hdr
        BY <1>4 DEF ChangedUnlock, ChangedKill
    <2>2. /\ Moves(t) /\ At(Watch, t)' = At(Watch, t)
          /\ At(Gives, t)' - At(Takes, t)' = At(Gives, t) - At(Takes, t)
        <3>1. CASE Went(t, "changed_unlock", "changed_kill")
            BY <3>1, <1>1, WorthFacts DEF Went
        <3>2. CASE /\ Called(t, "changed_kill", "reason")
                   /\ \A S : At(S, t)' = At(S, t) - In("changed_kill", S) + In("reason", S)
                                         + In("post", S) + In("changed_restore", S)
            BY <3>2, <1>1, WorthFacts DEF Called
        <3> QED BY <1>4, <3>1, <3>2, ChangedStepPlaces
    <2> QED BY <2>1, <2>2, <1>1, <1>2, CountMoves
<1>5. CASE ChangedRestore(t)
    <2>1. UNCHANGED hdr /\ hdr[t] = 0
        BY <1>5 DEF ChangedRestore, LocalsInv, LocalsOf
    <2>2. Moves(t) /\ At(Gives, t)' - At(Takes, t)' = At(Gives, t) - At(Takes, t)
        <3>1. Returned(t, "changed_restore")
            BY <1>5, ChangedStepPlaces
        <3> QED BY <3>1, <1>1, WorthFacts DEF Returned
    <2> QED BY <2>1, <2>2, <1>1, <1>2, CountMoves
<1> QED BY <1>3, <1>4, <1>5 DEF ChangedStep

\* and those of the application, the main loop, the worker and camel.
LEMMA CountOutside ==
    ASSUME Base, LocalsInv, Base', LocalsInv', CountInv, ~lost
    PROVE  /\ \A t \in Callers : CallFolder(t) \/ DropHeader(t) \/ FlagHeader(t) => CountInv'
           /\ RunSource \/ Serve \/ Push => CountInv'
<1>1. Callers \subseteq Threads /\ {Main, Worker, Camel} \subseteq Threads
    BY DEF Threads, Callers
<1>2. /\ reason_to_live \in Int /\ Owners \in Nat /\ hdr \in [Threads -> 0 .. 1]
      /\ headers \in Nat /\ changes \in [0 .. 1 -> Nat] /\ done \in Nat
      /\ changes[0] \in Nat /\ changes[1] \in Nat
      /\ IsFiniteSet(waiting) /\ Cardinality(waiting) \in Nat
    <2>1. /\ reason_to_live \in Int /\ hdr \in [Threads -> 0 .. 1]
          /\ headers \in Nat /\ changes \in [0 .. 1 -> Nat] /\ done \in Nat
        BY DEF Base, TypeOK
    <2>2. Owners \in Nat /\ IsFiniteSet(waiting) /\ Cardinality(waiting) \in Nat
        BY OwnersNat DEF Base
    <2> QED BY <2>1, <2>2
<1>3. ASSUME NEW t \in Threads, CallFolder(t) \/ DropHeader(t) \/ FlagHeader(t)
      PROVE  CountInv'
    <2>1. UNCHANGED <<hdr, reason_to_live, changes, done, waiting>>
        BY <1>3 DEF CallFolder, DropHeader, FlagHeader
    <2>2. CASE CallFolder(t)
        <3>1. Owners' = Owners
            BY <2>1, <2>2 DEF CallFolder, Owners
        <3>2. /\ Moves(t) /\ At(Watch, t) = 0 /\ At(Watch, t)' = 0
              /\ At(Gives, t)' - At(Takes, t)' = At(Gives, t) - At(Takes, t) + 0
            BY <2>2, CallFolderPlaces, WorthFacts DEF Called
        <3> QED BY <3>1, <3>2, <2>1, <1>2, CountMoves
    <2>3. CASE DropHeader(t)
        <3>1. headers' = headers - 1 /\ headers > 0
            BY <2>3 DEF DropHeader
        <3>2. reason_to_live' - Owners' = reason_to_live - Owners + 1
            BY <3>1, <2>1, <1>2 DEF Owners
        <3>3. /\ Moves(t) /\ At(Watch, t) = 0 /\ At(Watch, t)' = 0
              /\ At(Gives, t)' - At(Takes, t)' = At(Gives, t) - At(Takes, t) + 1
            BY <2>3, OutsidePlaces, WorthFacts DEF Called
        <3> QED BY <3>2, <3>3, <2>1, <1>2, CountMoves
    <2>4. CASE FlagHeader(t)
        <3>1. Owners' = Owners
            BY <2>1, <2>4 DEF FlagHeader, Owners
        <3>2. /\ Moves(t) /\ At(Watch, t) = 0 /\ At(Watch, t)' = 0
              /\ At(Gives, t)' - At(Takes, t)' = At(Gives, t) - At(Takes, t) + 0
            BY <2>4, OutsidePlaces, WorthFacts DEF Called
        <3> QED BY <3>1, <3>2, <2>1, <1>2, CountMoves
    <2> QED BY <1>3, <2>2, <2>3, <2>4
<1>4. ASSUME NEW n \in 0 .. 1, RunChange(n) PROVE CountInv'
    <2>1. /\ UNCHANGED <<hdr, reason_to_live, done, waiting>>
          /\ changes' = [changes EXCEPT ![n] = @ - 1] /\ changes[n] > 0
        BY <1>4 DEF RunChange
    <2>2. PICK kept \in 0 .. n :
              /\ headers' = headers + kept /\ Moves(Main)
              /\ \A S : /\ At(S, Main)' = (n - kept + 1) * In("unreason", S) + In("free", S)
                        /\ At(S, Main) = In("free", S)
        BY <1>4, ChangeMoves
    <2>3. Owners' = Owners - 1 - n + kept
        <3>1. \/ n = 0 /\ changes'[0] = changes[0] - 1 /\ changes'[1] = changes[1]
              \/ n = 1 /\ changes'[1] = changes[1] - 1 /\ changes'[0] = changes[0]
            BY <2>1, <1>2
        <3> QED BY <3>1, <2>1, <2>2, <1>2 DEF Owners
    <2>4. /\ At(Watch, Main) = 0 /\ At(Watch, Main)' = 0
          /\ At(Gives, Main)' - At(Takes, Main)' =
                At(Gives, Main) - At(Takes, Main) + (n - kept + 1)
        <3>1. n - kept + 1 \in Nat /\ (n - kept + 1) * 0 = 0 /\ (n - kept + 1) * 1 = n - kept + 1
            OBVIOUS
        <3>2. /\ At(Watch, Main)' = (n - kept + 1) * 0 + 0
              /\ At(Gives, Main)' = (n - kept + 1) * 1 + 0
              /\ At(Takes, Main)' = (n - kept + 1) * 0 + 0
              /\ At(Watch, Main) = 0 /\ At(Gives, Main) = 0 /\ At(Takes, Main) = 0
            <4>1. /\ In("unreason", Watch) = 0 /\ In("unreason", Gives) = 1
                  /\ In("unreason", Takes) = 0 /\ In("free", Watch) = 0
                  /\ In("free", Gives) = 0 /\ In("free", Takes) = 0
                BY WorthFacts
            <4> QED BY <4>1, <2>2
        <3> QED BY <3>1, <3>2
    <2>5. reason_to_live' - Owners' = reason_to_live - Owners + (n - kept + 1)
        BY <2>1, <2>3, <1>2
    <2>6. n - kept + 1 \in Int /\ Main \in Threads
        BY <1>1
    <2> QED BY <2>1, <2>2, <2>4, <2>5, <2>6, CountMoves
<1>5. CASE RunDone
    <2>1. UNCHANGED <<hdr, reason_to_live, headers, changes, waiting>> /\ done' = done - 1
        BY <1>5 DEF RunDone
    <2>2. reason_to_live' - Owners' = reason_to_live - Owners + 1
        BY <2>1, <1>2 DEF Owners
    <2>3. /\ Moves(Main) /\ At(Watch, Main) = 0 /\ At(Watch, Main)' = 0
          /\ At(Gives, Main)' - At(Takes, Main)' = At(Gives, Main) - At(Takes, Main) + 1
        BY <1>5, OutsidePlaces, WorthFacts DEF Called
    <2> QED BY <2>1, <2>2, <2>3, <1>1, <1>2, CountMoves
<1>6. CASE Serve
    <2>1. UNCHANGED <<hdr, reason_to_live, headers, changes, done>>
        BY <1>6 DEF Serve
    <2>2. PICK item \in waiting :
              LET a == IF item = "refresh" THEN "refresh_item" ELSE "get_headers" IN
              /\ waiting' = waiting \ {item} /\ Moves(Worker)
              /\ \A S : /\ At(S, Worker)' = In(a, S) + In("unlock", S) + In("served", S)
                                            + In("free", S)
                        /\ At(S, Worker) = In("free", S)
        BY <1>6, ServeMoves
    <2>3. Owners' = Owners - 1
        <3>1. Cardinality(waiting') = Cardinality(waiting) - 1
            BY <2>2, <1>2, FS_RemoveElement
        <3> QED BY <3>1, <2>1, <1>2 DEF Owners
    <2>4. /\ Moves(Worker) /\ At(Watch, Worker) = 0 /\ At(Watch, Worker)' = 0
          /\ At(Gives, Worker)' - At(Takes, Worker)' = At(Gives, Worker) - At(Takes, Worker) + 1
        BY <2>2, WorthFacts
    <2>5. reason_to_live' - Owners' = reason_to_live - Owners + 1
        BY <2>1, <2>3, <1>2
    <2> QED BY <2>1, <2>4, <2>5, <1>1, CountMoves
<1>7. CASE Push
    <2>1. Owners' = Owners /\ UNCHANGED reason_to_live
        BY <1>7 DEF Push, Owners
    <2>2. \A u \in Threads \ {Camel} : hdr'[u] = hdr[u]
        <3>1. hdr' = hdr \/ hdr' = [hdr EXCEPT ![Camel] = 1]
            BY <1>7 DEF Push, Finds
        <3> QED BY <3>1, <1>2
    <2>3. /\ Moves(Camel) /\ At(Watch, Camel) = 0 /\ At(Watch, Camel)' = 0
          /\ At(Gives, Camel)' - At(Takes, Camel)' = At(Gives, Camel) - At(Takes, Camel) + 0
        BY <1>7, OutsidePlaces, WorthFacts DEF Called
    <2> QED BY <2>1, <2>2, <2>3, <1>1, <1>2, CountMoves
<1> QED BY <1>1, <1>3, <1>4, <1>5, <1>6, <1>7 DEF RunSource

\* Every step moves as many reasons as it counts.
LEMMA CountStep ==
    ASSUME Base, LocalsInv, Base', LocalsInv', CountInv, [Next]_vars
    PROVE  CountInv'
<1>1. CASE Next
    <2>1. ~lost
        BY <1>1 DEF Next
    <2> QED BY <1>1, <2>1, CountReason, CountCall, CountChanged, CountOutside
            DEF Next, ThreadStep
<1>2. CASE UNCHANGED vars
    <2>1. Owners' = Owners
        BY <1>2 DEF Owners
    <2>2. HeldUnits' = HeldUnits
        BY <1>2 DEF HeldUnits, Units, HeldBy, Held, At
    <2> QED BY <1>2, <2>1, <2>2 DEF CountInv
<1> QED BY <1>1, <1>2

\* Everything that is known of the threads, and the count.
ThreadInv == LockInv /\ LocalsInv /\ CountInv

\* At the start nobody holds a reason.
LEMMA ThreadInit == ASSUME ThreadsAssumption, BoundAssumption, Init PROVE ThreadInv
<1>1. LockInv
    BY LockInit
<1>2. ASSUME NEW t \in Threads
      PROVE  hdr[t] = 0 /\ left[t] = 0 /\ pc[t] = "free" /\ \A S : At(S, t) = In("free", S)
    <2>1. hdr[t] = 0 /\ left[t] = 0 /\ pc[t] = "free" /\ stack[t] = <<>>
        BY DEF Init
    <2>2. PlaceType
        BY <1>1, TypeParts DEF LockInv, BaseInv, Base
    <2> QED BY <2>1, <2>2, FreeAt
<1>3. LocalsInv
    BY <1>2 DEF LocalsInv, LocalsOf, Takes
<1>4. HeldUnits = {}
    <2>1. ASSUME NEW t \in Threads PROVE Held(t) = 0
        BY <1>2, WorthFacts DEF Held
    <2> QED BY <2>1 DEF HeldUnits, Units, HeldBy
<1>5. Owners = 0 /\ reason_to_live = 0
    <2>1. Cardinality({}) = 0
        BY FS_EmptySet
    <2> QED BY <2>1 DEF Owners, Init
<1> QED BY <1>1, <1>3, <1>4, <1>5, FS_EmptySet DEF ThreadInv, CountInv

\* The invariant of the threads is inductive.
LEMMA ThreadInvStep == ASSUME BoundAssumption, ThreadInv, [Next]_vars PROVE ThreadInv'
<1>1. LockInv'
    BY LockInvStep DEF ThreadInv
<1>2. LocalsInv'
    BY LocalsInvStep DEF ThreadInv, LockInv, BaseInv
<1>3. CountInv'
    BY <1>1, <1>2, CountStep DEF ThreadInv, LockInv, BaseInv
<1> QED BY <1>1, <1>2, <1>3 DEF ThreadInv

\* Threads that are nowhere hold nothing.
LEMMA CountQuiet == ASSUME ThreadInv PROVE ReasonCounted
<1> SUFFICES ASSUME ~lost, \A t \in Threads : pc[t] = "free" PROVE reason_to_live = Owners
    BY DEF ReasonCounted
<1>1. HeldUnits = {}
    <2>1. ASSUME NEW t \in Threads PROVE Held(t) = 0
        <3>1. pc[t] = "free" /\ stack[t] = <<>> /\ PlaceType
            BY BasePlace DEF ThreadInv, LockInv, BaseInv
        <3> QED BY <3>1, FreeAt, WorthFacts DEF Held
    <2> QED BY <2>1 DEF HeldUnits, Units, HeldBy
<1>2. Owners \in Nat /\ reason_to_live \in Int
    BY OwnersNat DEF ThreadInv, LockInv, BaseInv, Base, TypeOK
<1> QED BY <1>1, <1>2, FS_EmptySet DEF ThreadInv, CountInv

\* Every call, withdrawn call, header and notification gives back exactly the reasons
\* that it took, on every path: only a lost update can make the count wrong.
THEOREM FolderReasonCounted == Spec => []ReasonCounted
<1>1. Init => ThreadInv
    BY ThreadInit, ThreadsAssumption, BoundAssumption
<1>2. ThreadInv /\ [Next]_vars => ThreadInv'
    BY ThreadInvStep, BoundAssumption
<1>3. ThreadInv => ReasonCounted
    BY CountQuiet
<1> QED BY <1>1, <1>2, <1>3, PTL DEF Spec

-----------------------------------------------------------------------------
\* The folder is unloaded.

Coming ==
    {"reason", "reason_set", "unload", "changed", "changed_try", "changed_unlock", "changed_kill",
     "served"}

\* Thread t will count up or leave an owner that counts, or it found the count zero.
Comes(t) == At(Coming, t) > 0 \/ (pc[t] = "unreason_test" /\ tmp[t] = 0)

\* A folder that is loaded has a reason, or gets one, or somebody is about to unload it.
QuietInv ==
    folder =>
        \/ Keeps \/ lost \/ spared \/ missed \/ reason_to_live # 0
        \/ \E t \in Threads : Comes(t)

\* Which labels come to a reason.
LEMMA ComingFacts ==
    /\ \A a \in {"free", "unreason", "unreason_set", "unreason_test", "post", "launch_refresh",
                 "launch_headers", "set_flag", "get_headers", "get_list", "get_each", "unlock",
                 "refresh", "sync", "camel", "refresh_item", "changed_restore"} :
           In(a, Coming) = 0
    /\ \A a \in Coming : In(a, Coming) = 1
    /\ {"reason", "reason_set", "unload", "changed", "changed_try", "changed_unlock",
        "changed_kill", "served"} \subseteq Coming
BY DEF In, Coming

\* A step after which somebody comes, or the folder has a reason, or is gone.
LEMMA QuietDone ==
    ASSUME NEW t \in Threads,
           \/ Comes(t)' \/ ~folder' \/ lost' \/ spared' \/ missed' \/ reason_to_live' # 0
    PROVE  QuietInv'
BY DEF QuietInv

\* A step that leaves the folder and the count alone, of a thread that comes if it did.
LEMMA QuietSame ==
    ASSUME QuietInv, NEW t \in Threads, Moves(t),
           Comes(t) => Comes(t)', \A u \in Threads \ {t} : tmp'[u] = tmp[u],
           UNCHANGED <<folder, push_cap, push, msgs, lost, spared, missed, reason_to_live>>
    PROVE  QuietInv'
<1>1. \A u \in Threads \ {t} : Comes(u)' = Comes(u)
    BY OthersStay DEF Moves, Comes
<1>2. Keeps' = Keeps
    BY DEF Keeps
<1> QED BY <1>1, <1>2 DEF QuietInv

\* The count is not below zero.
LEMMA CountNat == ASSUME ThreadInv, ~lost PROVE reason_to_live \in Nat /\ reason_to_live >= Owners
<1>1. Cardinality(HeldUnits) \in Nat
    BY FS_CardinalityType DEF ThreadInv, CountInv
<1>2. Owners \in Nat
    BY OwnersNat DEF ThreadInv, LockInv, BaseInv, Base
<1> QED BY <1>1, <1>2 DEF ThreadInv, CountInv

\* The steps of the reasons keep that,
LEMMA QuietReason ==
    ASSUME ThreadInv, QuietInv, ~lost, NEW t \in Threads, ReasonStep(t)
    PROVE  QuietInv'
<1>1. /\ Base /\ tmp \in [Threads -> Int] /\ reason_to_live \in Nat
      /\ At(Coming, t) \in Nat /\ In(pc[t], Coming) \in 0 .. 1
      /\ At(Coming, t) >= In(pc[t], Coming)
    <2>1. Base
        BY DEF ThreadInv, LockInv, BaseInv
    <2>2. /\ At(Coming, t) \in Nat /\ In(pc[t], Coming) \in 0 .. 1
          /\ At(Coming, t) >= In(pc[t], Coming)
        BY <2>1, ThreadSums
    <2> QED BY <2>1, <2>2, CountNat DEF Base, TypeOK
<1>2. CASE Reason(t)
    <2>1. Went(t, "reason", "reason_set")
        BY <1>1, <1>2, ReasonStepPlaces
    <2>2. At(Coming, t)' > 0
        BY <2>1, <1>1, ComingFacts DEF Went
    <2> QED BY <2>2, QuietDone DEF Comes
<1>3. CASE ReasonSet(t)
    <2>1. lost' \/ reason_to_live' # 0
        <3>1. lost' \/ reason_to_live = tmp[t]
            BY <1>3 DEF ReasonSet
        <3>2. reason_to_live' = tmp[t] + 1
            BY <1>3 DEF ReasonSet
        <3> QED BY <3>1, <3>2, <1>1
    <2> QED BY <2>1, QuietDone
<1>4. CASE Unreason(t)
    <2>1. Went(t, "unreason", "unreason_set")
        BY <1>1, <1>4, ReasonStepPlaces
    <2>2. At(Coming, t)' = At(Coming, t) /\ pc[t] # "unreason_test" /\ Moves(t)
        BY <2>1, <1>1, ComingFacts DEF Went
    <2>3. /\ UNCHANGED <<folder, push_cap, push, msgs, lost, spared, missed, reason_to_live>>
          /\ \A u \in Threads \ {t} : tmp'[u] = tmp[u]
        BY <1>1, <1>4 DEF Unreason
    <2> QED BY <2>2, <2>3, QuietSame DEF Comes
<1>5. CASE UnreasonSet(t)
    <2>1. pc'[t] = "unreason_test"
        BY <1>1, <1>5, ReasonStepPlaces DEF Went
    <2>2. tmp'[t] = tmp[t] - 1 /\ reason_to_live' = tmp[t] - 1
        BY <1>1, <1>5 DEF UnreasonSet
    <2> QED BY <2>1, <2>2, QuietDone DEF Comes
<1>6. CASE UnreasonTest(t)
    <2>1. /\ UNCHANGED <<push_cap, push, msgs, lost, missed, reason_to_live>>
          /\ \A u \in Threads \ {t} : tmp'[u] = tmp[u]
        BY <1>1, <1>6 DEF UnreasonTest
    <2>2. CASE Went(t, "unreason_test", "unload")
        <3>1. At(Coming, t)' > 0
            BY <2>2, <1>1, ComingFacts DEF Went
        <3> QED BY <3>1, QuietDone DEF Comes
    <2>3. CASE UnloadFolder(t)
        BY <2>3, QuietDone DEF UnloadFolder
    <2>4. CASE /\ Returned(t, "unreason_test")
               /\ \E count \in {tmp[t], reason_to_live} : count # 0 \/ ~folder \/ Keeps
               /\ UNCHANGED <<folder, spared, late>>
        <3>1. At(Coming, t)' = At(Coming, t) /\ Moves(t)
            BY <2>4, <1>1, ComingFacts DEF Returned
        <3>2. CASE ~folder \/ reason_to_live # 0
            BY <3>2, <2>1, <2>4, QuietDone
        <3>3. CASE Keeps
            BY <3>3, <2>1, <2>4 DEF Keeps, QuietInv
        <3>4. CASE tmp[t] # 0
            <4>1. Comes(t) => Comes(t)'
                BY <3>1, <3>4 DEF Comes
            <4> QED BY <4>1, <3>1, <2>1, <2>4, QuietSame
        <3> QED BY <2>4, <3>2, <3>3, <3>4
    <2> QED BY <1>1, <1>6, <2>2, <2>3, <2>4, ReasonStepPlaces
<1>7. CASE Unload(t)
    BY <1>7, QuietDone DEF Unload, UnloadFolder
<1> QED BY <1>2, <1>3, <1>4, <1>5, <1>6, <1>7 DEF ReasonStep

\* those of the calls,
LEMMA QuietCall ==
    ASSUME ThreadInv, ThreadInv', QuietInv, ~lost, NEW t \in Threads, CallStep(t)
    PROVE  QuietInv'
<1>1. /\ Base /\ At(Coming, t) \in Nat
      /\ At(Coming, t) = In(pc[t], Coming) + Count(Coming, stack[t])
      /\ pc[t] # "unreason_test"
    <2>1. Base
        BY DEF ThreadInv, LockInv, BaseInv
    <2>2. pc[t] # "unreason_test"
        BY DEF CallStep, GetHeaders, GetList, GetEach, Refresh, Sync, CamelWorks, Unlock, Post,
               LaunchRefresh, LaunchHeaders, SetFlag, RefreshItem, Served
    <2> QED BY <2>1, <2>2, ThreadSums
<1>2. CASE GetHeaders(t) \/ Refresh(t) \/ Sync(t)
    <2>1. CASE GetHeaders(t)
        <3>1. At(Coming, t)' > 0 \/ LoadFails
            BY <2>1, <1>1, LoadStepPlaces, ComingFacts
        <3> QED BY <3>1, QuietDone DEF Comes, LoadFails
    <2>2. CASE Refresh(t)
        <3>1. At(Coming, t)' > 0 \/ LoadFails
            BY <2>2, <1>1, LoadStepPlaces, ComingFacts
        <3> QED BY <3>1, QuietDone DEF Comes, LoadFails
    <2>3. CASE Sync(t)
        <3>1. At(Coming, t)' > 0 \/ LoadFails
            BY <2>3, <1>1, LoadStepPlaces, ComingFacts
        <3> QED BY <3>1, QuietDone DEF Comes, LoadFails
    <2> QED BY <1>2, <2>1, <2>2, <2>3
<1>3. CASE RefreshItem(t)
    <2>1. CASE Went(t, "refresh_item", "camel")
        <3>1. stack[t] = Item
            BY <2>1, <1>1 DEF Base, FrameInv, Fits, Went
        <3>2. At(Coming, t) = 1
            BY <3>1, <2>1, <1>1, EndFacts, ComingFacts DEF Went
        <3>3. At(Coming, t)' > 0
            BY <3>2, <2>1, ComingFacts DEF Went
        <3> QED BY <3>3, QuietDone DEF Comes
    <2>2. CASE LoadFails
        BY <2>2, QuietDone DEF LoadFails
    <2> QED BY <1>1, <1>3, <2>1, <2>2, LoadStepPlaces
<1>4. CASE GetList(t) \/ Unlock(t) \/ Post(t) \/ SetFlag(t) \/ LaunchRefresh(t)
           \/ LaunchHeaders(t)
    <2>1. UNCHANGED <<tmp, folder, push_cap, push, msgs, lost, spared, missed, reason_to_live>>
        BY <1>4 DEF GetList, Unlock, Post, SetFlag, LaunchRefresh, LaunchHeaders, Launch
    <2>2. Moves(t) /\ At(Coming, t)' = At(Coming, t)
        BY <1>1, <1>4, CallStepPlaces, ComingFacts DEF Went, Returned
    <2> QED BY <2>1, <2>2, <1>1, QuietSame DEF Comes
<1>5. CASE GetEach(t)
    <2>1. UNCHANGED <<tmp, folder, push_cap, push, msgs, lost, spared, missed, reason_to_live>>
        BY <1>5 DEF GetEach
    <2>2. Moves(t) /\ (At(Coming, t)' = At(Coming, t) \/ At(Coming, t)' > 0)
        BY <1>1, <1>5, CallStepPlaces, ComingFacts DEF Called
    <2> QED BY <2>1, <2>2, <1>1, QuietSame DEF Comes
<1>6. CASE CamelWorks(t)
    <2>1. CASE Returned(t, "camel") /\ UNCHANGED msgs
        <3>1. UNCHANGED <<tmp, folder, push_cap, push, msgs, lost, spared, missed, reason_to_live>>
            BY <2>1, <1>6 DEF CamelWorks
        <3>2. Moves(t) /\ At(Coming, t)' = At(Coming, t)
            BY <2>1, <1>1, ComingFacts DEF Returned
        <3> QED BY <3>1, <3>2, <1>1, QuietSame DEF Comes
    <2>2. CASE Went(t, "camel", "changed")
        <3>1. At(Coming, t)' > 0
            BY <2>2, <1>1, ComingFacts DEF Went
        <3> QED BY <3>1, QuietDone DEF Comes
    <2> QED BY <1>1, <1>6, <2>1, <2>2, CallStepPlaces
<1>7. CASE Served(t)
    <2>1. done' = done + 1 /\ done \in Nat
        BY <1>1, <1>7 DEF Served, Base, TypeOK
    <2>2. Base'
        BY DEF ThreadInv, LockInv, BaseInv
    <2>3. Owners' > 0
        <3>1. /\ headers' \in Nat /\ changes'[0] \in Nat /\ changes'[1] \in Nat
              /\ Cardinality(waiting') \in Nat
            <4>1. (TypeOK => Owners \in Nat /\ IsFiniteSet(waiting)
                             /\ Cardinality(waiting) \in Nat)'
                BY OwnersNat, PTL
            <4>2. TypeOK'
                BY <2>2, Zenon DEF Base
            <4>3. headers' \in Nat /\ changes' \in [0 .. 1 -> Nat]
                BY <4>2, Zenon DEF TypeOK
            <4> QED BY <4>1, <4>2, <4>3
        <3> QED BY <3>1, <2>1 DEF Owners
    <2>4. lost' \/ (reason_to_live \in Nat /\ reason_to_live >= Owners)'
        <3>1. (ThreadInv /\ ~lost => reason_to_live \in Nat /\ reason_to_live >= Owners)'
            BY CountNat, PTL
        <3> QED BY <3>1
    <2>5. Owners' \in Nat
        <3>1. (TypeOK => Owners \in Nat /\ IsFiniteSet(waiting) /\ Cardinality(waiting) \in Nat)'
            BY OwnersNat, PTL
        <3> QED BY <3>1, <2>2 DEF Base
    <2>6. lost' \/ reason_to_live' # 0
        BY <2>3, <2>4, <2>5
    <2> QED BY <2>6, QuietDone
<1> QED BY <1>2, <1>3, <1>4, <1>5, <1>6, <1>7 DEF CallStep

\* those of folder_changed,
LEMMA QuietChanged ==
    ASSUME ThreadInv, QuietInv, NEW t \in Threads, ChangedStep(t)
    PROVE  QuietInv'
<1>1. Base /\ At(Coming, t) \in Nat /\ At(Coming, t) >= In(pc[t], Coming)
    <2>1. Base
        BY DEF ThreadInv, LockInv, BaseInv
    <2> QED BY <2>1, ThreadSums
<1>2. CASE At(Coming, t)' > 0 \/ missed'
    BY <1>2, QuietDone DEF Comes
<1>3. CASE Changed(t)
    <2>1. At(Coming, t)' > 0 \/ missed'
        <3>1. Went(t, "changed", "changed_try") \/ missed'
            BY <1>1, <1>3, ChangedStepPlaces
        <3>2. Went(t, "changed", "changed_try") => At(Coming, t)' > 0
            BY <1>1, ComingFacts DEF Went
        <3> QED BY <3>1, <3>2
    <2> QED BY <2>1, <1>2
<1>4. CASE ChangedTry(t)
    <2>1. At(Coming, t)' > 0 \/ missed'
        <3>1. \/ missed'
              \/ /\ pc[t] = "changed_try"
                 /\ \A S : At(S, t)' = At(S, t) - In("changed_try", S) + In("changed_unlock", S)
                                       + (IF hdr[t] = 0 THEN 0 ELSE In("reason", S))
            BY <1>1, <1>4, ChangedStepPlaces
        <3>2. CASE /\ pc[t] = "changed_try"
                   /\ \A S : At(S, t)' = At(S, t) - In("changed_try", S) + In("changed_unlock", S)
                                         + (IF hdr[t] = 0 THEN 0 ELSE In("reason", S))
            BY <3>2, <1>1, ComingFacts
        <3> QED BY <3>1, <3>2
    <2> QED BY <2>1, <1>2
<1>5. CASE ChangedUnlock(t)
    <2>1. Went(t, "changed_unlock", "changed_kill")
        BY <1>1, <1>5, ChangedStepPlaces
    <2>2. At(Coming, t)' > 0
        BY <2>1, <1>1, ComingFacts DEF Went
    <2> QED BY <2>2, <1>2
<1>6. CASE ChangedKill(t)
    <2>1. pc[t] = "changed_kill"
        BY <1>6 DEF ChangedKill
    <2>2. At(Coming, t)' > 0
        <3>1. \A S : At(S, t)' = At(S, t) - In("changed_kill", S) + In("reason", S)
                                + In("post", S) + In("changed_restore", S)
            BY <1>1, <1>6, ChangedStepPlaces
        <3> QED BY <3>1, <2>1, <1>1, ComingFacts
    <2> QED BY <2>2, <1>2
<1>7. CASE ChangedRestore(t)
    <2>1. UNCHANGED <<tmp, folder, push_cap, push, msgs, lost, spared, missed, reason_to_live>>
        BY <1>7 DEF ChangedRestore
    <2>2. Returned(t, "changed_restore")
        BY <1>1, <1>7, ChangedStepPlaces
    <2>3. Moves(t) /\ At(Coming, t)' = At(Coming, t) /\ pc[t] # "unreason_test"
        BY <2>2, <1>1, ComingFacts DEF Returned
    <2> QED BY <2>1, <2>3, QuietSame DEF Comes
<1> QED BY <1>3, <1>4, <1>5, <1>6, <1>7 DEF ChangedStep

\* and those of the application, the main loop, the worker and camel.
LEMMA QuietOutside ==
    ASSUME ThreadInv, QuietInv
    PROVE  /\ \A t \in Callers : CallFolder(t) \/ DropHeader(t) \/ FlagHeader(t) => QuietInv'
           /\ RunSource \/ Serve \/ Push => QuietInv'
<1>1. Callers \subseteq Threads /\ {Main, Worker, Camel} \subseteq Threads /\ Base
    BY DEF Threads, Callers, ThreadInv, LockInv, BaseInv
<1>2. ASSUME NEW t \in Threads, CallFolder(t) \/ DropHeader(t) \/ FlagHeader(t)
      PROVE  QuietInv'
    <2>1. UNCHANGED <<tmp, folder, push_cap, push, msgs, lost, spared, missed, reason_to_live>>
        BY <1>2 DEF CallFolder, DropHeader, FlagHeader
    <2>2. /\ Moves(t) /\ pc[t] = "free"
          /\ At(Coming, t)' > 0 \/ (At(Coming, t) = 0 /\ At(Coming, t)' = 0)
        <3>1. CASE CallFolder(t)
            BY <1>1, <3>1, CallFolderPlaces, ComingFacts DEF Called
        <3>2. CASE DropHeader(t) \/ FlagHeader(t)
            BY <1>1, <3>2, OutsidePlaces, ComingFacts DEF Called
        <3> QED BY <1>2, <3>1, <3>2
    <2> QED BY <2>1, <2>2, QuietSame DEF Comes
<1>3. CASE RunSource
    <2>1. UNCHANGED <<tmp, folder, push_cap, push, msgs, lost, spared, missed, reason_to_live>>
        BY <1>3 DEF RunSource, RunChange, RunDone
    <2>2. Moves(Main) /\ pc[Main] = "free" /\ At(Coming, Main) = 0
        <3>1. ASSUME NEW n \in 0 .. 1, RunChange(n)
              PROVE  Moves(Main) /\ pc[Main] = "free" /\ At(Coming, Main) = 0
            BY <1>1, <3>1, ChangeMoves, ComingFacts
        <3>2. CASE RunDone
            BY <1>1, <3>2, OutsidePlaces, ComingFacts DEF Called
        <3> QED BY <1>3, <3>1, <3>2 DEF RunSource
    <2> QED BY <2>1, <2>2, <1>1, QuietSame DEF Comes
<1>4. CASE Serve
    <2>1. At(Coming, Worker)' > 0
        BY <1>1, <1>4, ServeMoves, ComingFacts
    <2> QED BY <2>1, <1>1, QuietDone DEF Comes
<1>5. CASE Push
    <2>1. At(Coming, Camel)' > 0
        BY <1>1, <1>5, OutsidePlaces, ComingFacts
    <2> QED BY <2>1, <1>1, QuietDone DEF Comes
<1> QED BY <1>1, <1>2, <1>3, <1>4, <1>5

\* All steps keep that.
LEMMA QuietStep == ASSUME ThreadInv, ThreadInv', QuietInv, [Next]_vars PROVE QuietInv'
<1>1. CASE Next
    <2>1. ~lost
        BY <1>1 DEF Next
    <2> QED BY <1>1, <2>1, QuietReason, QuietCall, QuietChanged, QuietOutside
            DEF Next, ThreadStep
<1>2. CASE UNCHANGED vars
    BY <1>2 DEF QuietInv, Comes, Keeps, At
<1> QED BY <1>1, <1>2

\* When all is quiet nobody comes.
LEMMA QuietUnloaded == ASSUME ThreadInv, QuietInv PROVE UnloadedWhenQuiet
<1> SUFFICES ASSUME Quiet, headers = 0, folder, ~lost PROVE Keeps \/ spared \/ missed
    BY DEF UnloadedWhenQuiet
<1>1. ASSUME NEW t \in Threads PROVE ~Comes(t)
    <2>1. pc[t] = "free" /\ stack[t] = <<>> /\ PlaceType
        BY BasePlace DEF ThreadInv, LockInv, BaseInv, Quiet
    <2>2. At(Coming, t) = 0
        BY <2>1, FreeAt, ComingFacts
    <2> QED BY <2>1, <2>2 DEF Comes
<1>2. reason_to_live = 0
    <2>1. reason_to_live = Owners
        BY CountQuiet DEF ReasonCounted, Quiet
    <2>2. Cardinality({}) = 0
        BY FS_EmptySet
    <2> QED BY <2>1, <2>2 DEF Owners, Quiet
<1> QED BY <1>1, <1>2 DEF QuietInv

\* When nothing is left to do and nobody has a reason, the folder is unloaded, unless it
\* is empty and waits for push e-mail, an update of the count was lost, an unload was
\* spared or a change was missed.
THEOREM FolderUnloadedWhenQuiet == Spec => []UnloadedWhenQuiet
<1>1. Init => ThreadInv /\ QuietInv
    BY ThreadInit, ThreadsAssumption, BoundAssumption DEF Init, QuietInv
<1>2. ThreadInv /\ QuietInv /\ [Next]_vars => ThreadInv' /\ QuietInv'
    BY ThreadInvStep, QuietStep, BoundAssumption
<1>3. ThreadInv /\ QuietInv => UnloadedWhenQuiet
    BY QuietUnloaded
<1> QED BY <1>1, <1>2, <1>3, PTL DEF Spec

-----------------------------------------------------------------------------
\* The headers keep their folder.

\* Thread t has headers to add, or tells a new one.
Needs(t) == left[t] > 0 \/ (hdr[t] > 0 /\ At(Watch, t) > 0)

\* Headers of the application, headers in notifications, and those of a thread.
HeadInv ==
    headers > 0 \/ changes[1] > 0 \/ (\E t \in Threads : Needs(t)) => folder \/ lost \/ late

\* A step after which the folder is loaded, or it does not matter.
LEMMA HeadDone == ASSUME folder' \/ lost' \/ late' PROVE HeadInv'
BY DEF HeadInv

\* A step that brings no headers.
LEMMA HeadSame ==
    ASSUME HeadInv, NEW t \in Threads, Moves(t), UNCHANGED <<folder, late>>, lost => lost',
           \A u \in Threads \ {t} : left'[u] = left[u] /\ hdr'[u] = hdr[u],
           headers' > 0 \/ changes'[1] > 0 \/ Needs(t)' =>
               headers > 0 \/ changes[1] > 0 \/ Needs(t)
    PROVE  HeadInv'
<1>1. \A u \in Threads \ {t} : Needs(u)' = Needs(u)
    BY OthersStay DEF Moves, Needs
<1> QED BY <1>1 DEF HeadInv

\* A thread that is to add headers has folder_lock.
LEMMA EachUnlocks ==
    ASSUME Base, NEW t \in Threads
    PROVE  At(Each, t) <= At(Unlocks, t)
<1> DEFINE q == Cons(pc[t], stack[t])
<1>1. q \in Seq(Labels)
    BY BasePlace, Label
<1>2. IsFiniteSet({i \in 1 .. Len(q) : q[i] \in Unlocks})
    <2>1. Len(q) \in Nat
        BY <1>1, LenProperties
    <2>2. IsFiniteSet(1 .. Len(q))
        BY <2>1, FS_Interval
    <2>3. {i \in 1 .. Len(q) : q[i] \in Unlocks} \subseteq 1 .. Len(q)
        OBVIOUS
    <2> QED BY <2>2, <2>3, FS_Subset
<1>3. {i \in 1 .. Len(q) : q[i] \in Each} \subseteq {i \in 1 .. Len(q) : q[i] \in Unlocks}
    BY DEF Each, Unlocks
<1>4. Cardinality({i \in 1 .. Len(q) : q[i] \in Each}) <=
          Cardinality({i \in 1 .. Len(q) : q[i] \in Unlocks})
    BY <1>2, <1>3, FS_Subset
<1> QED BY <1>4 DEF At, Count

\* Without owners the application has no headers.
LEMMA OwnersZero == ASSUME TypeOK, Owners = 0 PROVE headers = 0 /\ changes[1] = 0
<1>1. headers \in Nat /\ changes[0] \in Nat /\ changes[1] \in Nat /\ done \in Nat
    BY DEF TypeOK
<1>2. Cardinality(waiting) \in Nat
    BY OwnersNat
<1> DEFINE others == changes[0] + done + Cardinality(waiting)
           new == changes[1]
<1>3. others \in Nat /\ new \in Nat /\ headers \in Nat
    BY <1>1, <1>2
<1>4. headers + 2 * new + others = 0
    BY <1>1, <1>2 DEF Owners
<1> HIDE DEF others, new
<1>5. headers = 0 /\ new = 0
    BY <1>3, <1>4
<1> QED BY <1>5 DEF new

\* Who unloads the folder when its count is zero and nobody else holds folder_lock unloads
\* it under no header: a thread that adds headers or takes the reason of one holds
\* folder_lock, and one that has taken it is counted.
LEMMA HeadUnload ==
    ASSUME ThreadInv, HeadInv, ~lost, NEW t \in Threads, pc[t] \in {"unreason_test", "unload"},
           Moves(t), UnloadFolder(t), UNCHANGED <<left, hdr, headers, changes>>,
           At(Watch, t)' = At(Watch, t)
    PROVE  HeadInv'
<1>1. Base /\ LockCount /\ LocalsInv
    BY DEF ThreadInv, LockInv, BaseInv
<1> SUFFICES ASSUME ~late', ~folder'
             PROVE  headers = 0 /\ changes[1] = 0 /\ \A u \in Threads : ~Needs(u)
    <2>1. headers \in Nat /\ changes[1] \in Nat
        BY <1>1 DEF Base, TypeOK
    <2>2. ASSUME headers = 0, changes[1] = 0, \A u \in Threads : ~Needs(u)
          PROVE  HeadInv'
        <3>1. ASSUME NEW u \in Threads PROVE ~Needs(u)'
            <4>1. At(Watch, u)' = At(Watch, u)
                BY OthersStay DEF Moves
            <4> QED BY <4>1, <2>2 DEF Needs
        <3> QED BY <3>1, <2>1, <2>2 DEF HeadInv
    <2> QED BY <2>1, <2>2, HeadDone
<1>2. reason_to_live = 0 /\ CanLock(t)
    BY DEF UnloadFolder
<1>3. Owners = 0 /\ Cardinality(HeldUnits) = 0
    <2>1. Cardinality(HeldUnits) \in Nat
        BY FS_CardinalityType DEF ThreadInv, CountInv
    <2>2. Owners \in Nat
        BY <1>1, OwnersNat DEF Base
    <2> QED BY <1>2, <2>1, <2>2 DEF ThreadInv, CountInv
<1>4. headers = 0 /\ changes[1] = 0
    BY <1>1, <1>3, OwnersZero DEF Base
<1>5. ASSUME NEW u \in Threads PROVE Held(u) = 0
    <2>1. Held(u) \in Nat /\ HeldBy[u] = Held(u)
        BY <1>1, HeldNat DEF HeldBy
    <2>2. HeldUnits = {}
        BY <1>3, FS_EmptySet DEF ThreadInv, CountInv
    <2>3. ASSUME Held(u) > 0 PROVE FALSE
        <3>1. <<u, 1>> \in HeldUnits
            BY <2>1, <2>3 DEF HeldUnits, Units
        <3> QED BY <3>1, <2>2
    <2> QED BY <2>1, <2>3
<1>6. ASSUME NEW u \in Threads, Needs(u) PROVE FALSE
    <2>1. /\ \A S : /\ At(S, u) \in Nat /\ Count(S, stack[u]) \in Nat /\ In(pc[u], S) \in 0 .. 1
                    /\ At(S, u) = In(pc[u], S) + Count(S, stack[u])
          /\ Sums(pc[u], stack[u]) /\ stack[u] \in Seq(Labels)
          /\ hdr[u] \in 0 .. 1 /\ left[u] \in Nat
        <3>1. hdr[u] \in 0 .. 1 /\ left[u] \in 0 .. MaxMsgs
            BY <1>1 DEF Base, TypeOK
        <3>2. /\ \A S : /\ At(S, u) \in Nat /\ Count(S, stack[u]) \in Nat
                        /\ In(pc[u], S) \in 0 .. 1
                        /\ At(S, u) = In(pc[u], S) + Count(S, stack[u])
              /\ Sums(pc[u], stack[u])
            BY <1>1, ThreadSums
        <3> QED BY <3>1, <3>2, <1>1, BasePlace
    <2>2. u # t
        <3>1. /\ Count(Each, stack[t]) = 0 /\ Count(Watch, stack[t]) = 0
              /\ In(pc[t], Each) = 0 /\ In(pc[t], Watch) = 0
            BY <1>1, ThreadSums, LocalFacts DEF Sums, Each
        <3>2. At(Each, t) = 0 /\ At(Watch, t) = 0
            BY <3>1, <1>1, ThreadSums
        <3>3. ~Needs(t)
            BY <3>2, <1>1 DEF Needs, LocalsInv, LocalsOf
        <3> QED BY <3>3, <1>6
    <2>3. folder_lock[u] = 0 /\ At(Unlocks, u) = 0
        BY <2>2, <1>1, <1>2 DEF CanLock, LockCount
    <2>4. CASE left[u] > 0
        <3>1. At(Each, u) > 0
            BY <2>4, <1>1 DEF LocalsInv, LocalsOf
        <3>2. At(Each, u) <= At(Unlocks, u)
            BY <1>1, EachUnlocks
        <3> QED BY <3>1, <3>2, <2>1, <2>3
    <2>5. CASE hdr[u] > 0 /\ At(Watch, u) > 0
        <3>1. ~(pc[u] \in Takes /\ Head(stack[u]) = "changed_unlock")
            <4>1. ASSUME stack[u] # <<>>, Head(stack[u]) = "changed_unlock" PROVE FALSE
                <5>1. stack[u] = Cons("changed_unlock", Tail(stack[u]))
                      /\ Tail(stack[u]) \in Seq(Labels) /\ "changed_unlock" \in Labels
                    BY <4>1, <2>1, ConsHeadTail
                <5>2. Count(Unlocks, stack[u]) =
                          In("changed_unlock", Unlocks) + Count(Unlocks, Tail(stack[u]))
                      /\ Count(Unlocks, Tail(stack[u])) \in Nat
                    BY <5>1, CountCons
                <5> QED BY <5>2, <2>1, <2>3, UnlocksFacts DEF Unlocks
            <4>2. pc[u] \in Takes => stack[u] # <<>>
                BY <1>1, BasePlace DEF Takes, Back
            <4> QED BY <4>1, <4>2
        <3>2. At(Takes, u) <= At(Gives, u)
            BY <3>1, <2>1 DEF Sums
        <3>3. Held(u) > 0
            BY <3>2, <2>5, <2>1 DEF Held
        <3> QED BY <3>3, <1>5
    <2> QED BY <1>6, <2>4, <2>5 DEF Needs
<1> QED BY <1>4, <1>6

\* The steps keep that: those of the reasons,
LEMMA HeadReason ==
    ASSUME ThreadInv, HeadInv, ~lost, NEW t \in Threads, ReasonStep(t)
    PROVE  HeadInv'
<1>1. /\ Base /\ At(Watch, t) \in Nat
    <2>1. Base
        BY DEF ThreadInv, LockInv, BaseInv
    <2> QED BY <2>1, ThreadSums
<1>2. UNCHANGED <<left, hdr, headers, changes>>
    BY DEF ReasonStep, Reason, ReasonSet, Unreason, UnreasonSet, UnreasonTest, Unload
<1>3. Moves(t) /\ At(Watch, t)' = At(Watch, t)
    <2>1. CASE Reason(t) \/ ReasonSet(t)
        BY <2>1, <1>1, ReasonStepPlaces, LocalFacts DEF Went, Returned
    <2>2. CASE Unreason(t) \/ UnreasonSet(t)
        BY <2>2, <1>1, ReasonStepPlaces, LocalFacts DEF Went
    <2>3. CASE UnreasonTest(t) \/ Unload(t)
        BY <2>3, <1>1, ReasonStepPlaces, LocalFacts DEF Went, Returned
    <2> QED BY <2>1, <2>2, <2>3 DEF ReasonStep
<1>4. CASE UNCHANGED <<folder, late>>
    BY <1>2, <1>3, <1>4, HeadSame DEF Needs
<1>5. CASE UnloadFolder(t) /\ pc[t] \in {"unreason_test", "unload"}
    BY <1>2, <1>3, <1>5, HeadUnload
<1>6. CASE Reason(t) \/ ReasonSet(t) \/ Unreason(t) \/ UnreasonSet(t)
    BY <1>4, <1>6 DEF Reason, ReasonSet, Unreason, UnreasonSet
<1>7. CASE UnreasonTest(t)
    BY <1>4, <1>5, <1>7 DEF UnreasonTest
<1>8. CASE Unload(t)
    BY <1>5, <1>8 DEF Unload
<1> QED BY <1>6, <1>7, <1>8 DEF ReasonStep

\* those of the calls,
LEMMA HeadCall ==
    ASSUME ThreadInv, HeadInv, NEW t \in Threads, CallStep(t)
    PROVE  HeadInv'
<1>1. /\ Base /\ At(Watch, t) \in Nat /\ LocalsOf(t) /\ headers \in Nat
      /\ hdr \in [Threads -> 0 .. 1] /\ left \in [Threads -> 0 .. MaxMsgs]
      /\ changes \in [0 .. 1 -> Nat]
    <2>1. Base /\ LocalsOf(t)
        BY DEF ThreadInv, LockInv, BaseInv, LocalsInv
    <2> QED BY <2>1, ThreadSums DEF Base, TypeOK
<1>2. UNCHANGED <<lost, late>>
    BY DEF CallStep, GetHeaders, GetList, GetEach, Refresh, Sync, CamelWorks, Unlock, Post,
           LaunchRefresh, LaunchHeaders, Launch, SetFlag, RefreshItem, Served
<1>3. CASE GetHeaders(t) \/ Refresh(t) \/ Sync(t) \/ RefreshItem(t)
    <2>1. UNCHANGED <<left, hdr, headers, changes>>
        BY <1>3 DEF GetHeaders, Refresh, Sync, RefreshItem
    <2>2. folder' \/ LoadFails
        BY <1>3 DEF GetHeaders, Refresh, Sync, RefreshItem, LockAndLoad, Load
    <2>3. CASE LoadFails
        <3>1. Moves(t) /\ At(Watch, t)' = At(Watch, t)
            <4>1. CASE GetHeaders(t)
                BY <4>1, <1>1, LoadStepPlaces, LocalFacts DEF Returned, Called
            <4>2. CASE Refresh(t)
                BY <4>2, <1>1, LoadStepPlaces, LocalFacts DEF Returned, Called
            <4>3. CASE Sync(t)
                BY <4>3, <1>1, LoadStepPlaces, LocalFacts DEF Returned, Called
            <4>4. CASE RefreshItem(t)
                BY <4>4, <1>1, LoadStepPlaces, LocalFacts DEF Returned, Went
            <4> QED BY <1>3, <4>1, <4>2, <4>3, <4>4
        <3> QED BY <3>1, <2>1, <2>3, <1>2, HeadSame DEF LoadFails, Needs
    <2> QED BY <2>2, <2>3, HeadDone
<1>4. CASE GetList(t)
    <2>1. folder' \/ left'[t] = 0
        BY <1>1, <1>4 DEF GetList
    <2>2. /\ UNCHANGED <<hdr, headers, changes, folder>>
          /\ \A u \in Threads \ {t} : left'[u] = left[u]
        BY <1>1, <1>4 DEF GetList
    <2>3. Moves(t) /\ At(Watch, t)' = At(Watch, t)
        BY <1>1, <1>4, CallStepPlaces, LocalFacts DEF Went
    <2>4. CASE left'[t] = 0
        BY <2>2, <2>3, <2>4, <1>2, HeadSame DEF Needs
    <2> QED BY <2>1, <2>4, HeadDone
<1>5. CASE GetEach(t)
    <2>1. UNCHANGED <<hdr, changes, folder>>
        BY <1>5 DEF GetEach
    <2>2. Moves(t) /\ At(Watch, t)' = At(Watch, t)
        BY <1>1, <1>5, CallStepPlaces, LocalFacts DEF Called
    <2>3. CASE UNCHANGED <<left, headers>>
        BY <2>1, <2>2, <2>3, <1>2, HeadSame DEF Needs
    <2>4. CASE left[t] # 0 /\ left' = [left EXCEPT ![t] = @ - 1]
        <3>1. left[t] > 0 /\ \A u \in Threads \ {t} : left'[u] = left[u]
            BY <2>4, <1>1
        <3> QED BY <3>1, <2>1, <2>2, <1>2, HeadSame DEF Needs
    <2> QED BY <1>1, <1>5, <2>3, <2>4, CallStepPlaces
<1>6. CASE CamelWorks(t)
    <2>1. UNCHANGED <<left, headers, changes, folder>>
        BY <1>6 DEF CamelWorks
    <2>2. \A u \in Threads \ {t} : hdr'[u] = hdr[u]
        <3>1. hdr' = hdr \/ hdr' = [hdr EXCEPT ![t] = 1]
            BY <1>6 DEF CamelWorks, Finds
        <3> QED BY <3>1, <1>1
    <2>3. At(Watch, t) = 0
        <3>1. pc[t] = "camel"
            BY <1>6 DEF CamelWorks
        <3> QED BY <3>1, <1>1, ThreadSums, LocalFacts DEF Sums
    <2>4. Moves(t) /\ At(Watch, t)' = 0
        <3>1. Returned(t, "camel") \/ Went(t, "camel", "changed")
            BY <1>1, <1>6, CallStepPlaces
        <3> QED BY <3>1, <2>3, LocalFacts DEF Returned, Went, Begins
    <2> QED BY <2>1, <2>2, <2>4, <1>2, HeadSame DEF Needs
<1>7. CASE Post(t)
    <2>1. /\ changes' = [changes EXCEPT ![hdr[t]] = @ + 1] /\ hdr' = [hdr EXCEPT ![t] = 0]
          /\ UNCHANGED <<left, headers, folder>> /\ pc[t] = "post"
        BY <1>7 DEF Post
    <2>2. Moves(t)
        BY <1>1, <1>7, CallStepPlaces DEF Returned
    <2>3. hdr'[t] = 0 /\ \A u \in Threads \ {t} : hdr'[u] = hdr[u]
        BY <2>1, <1>1
    <2>4. changes'[1] > 0 => changes[1] > 0 \/ Needs(t)
        <3>1. hdr[t] # 0 => At(Watch, t) > 0
            <4>1. At(Begins, t) = 0
                BY <2>1, <1>1, ThreadSums, LocalFacts DEF Sums
            <4> QED BY <4>1, <1>1 DEF LocalsOf
        <3>2. hdr[t] = 0 => changes'[1] = changes[1]
            BY <2>1, <1>1
        <3>3. hdr[t] \in 0 .. 1
            BY <1>1
        <3> QED BY <3>1, <3>2, <3>3 DEF Needs
    <2> QED BY <2>1, <2>2, <2>3, <2>4, <1>2, HeadSame DEF Needs
<1>8. CASE Unlock(t) \/ LaunchRefresh(t) \/ LaunchHeaders(t) \/ SetFlag(t) \/ Served(t)
    <2>1. UNCHANGED <<left, hdr, headers, changes, folder>>
        BY <1>8 DEF Unlock, LaunchRefresh, LaunchHeaders, Launch, SetFlag, Served
    <2>2. Moves(t) /\ At(Watch, t)' = At(Watch, t)
        BY <1>1, <1>8, CallStepPlaces, LocalFacts DEF Returned
    <2> QED BY <2>1, <2>2, <1>2, HeadSame DEF Needs
<1> QED BY <1>3, <1>4, <1>5, <1>6, <1>7, <1>8 DEF CallStep

\* those of folder_changed,
LEMMA HeadChanged ==
    ASSUME ThreadInv, HeadInv, NEW t \in Threads, ChangedStep(t)
    PROVE  HeadInv'
<1>1. Base /\ At(Watch, t) \in Nat /\ hdr \in [Threads -> 0 .. 1]
    <2>1. Base
        BY DEF ThreadInv, LockInv, BaseInv
    <2> QED BY <2>1, ThreadSums DEF Base, TypeOK
<1>2. UNCHANGED <<left, headers, changes, folder, lost, late>>
    BY DEF ChangedStep, Changed, ChangedTry, ChangedUnlock, ChangedKill, ChangedRestore
<1>3. CASE Changed(t) \/ ChangedTry(t)
    <2>1. At(Watch, t) = 0
        <3>1. pc[t] \in Begins
            BY <1>3 DEF Changed, ChangedTry, Begins
        <3> QED BY <3>1, <1>1, ThreadSums, LocalFacts DEF Sums
    <2>2. \A u \in Threads \ {t} : hdr'[u] = hdr[u]
        <3>1. hdr' = hdr \/ hdr' = [hdr EXCEPT ![t] = 0]
            BY <1>3 DEF Changed, ChangedTry
        <3> QED BY <3>1, <1>1
    <2>3. CASE \/ Went(t, "changed", "changed_try")
               \/ Returned(t, "changed") \/ Returned(t, "changed_try")
        <3>1. Moves(t) /\ At(Watch, t)' = 0
            BY <2>1, <2>3, LocalFacts DEF Went, Returned, Begins
        <3> QED BY <3>1, <2>2, <1>2, HeadSame DEF Needs
    <2>4. CASE folder
        BY <2>4, <1>2, HeadDone
    <2> QED BY <1>1, <1>3, <2>3, <2>4, ChangedStepPlaces
<1>4. CASE ChangedUnlock(t) \/ ChangedKill(t)
    <2>1. UNCHANGED hdr /\ pc[t] \in Watch
        BY <1>4 DEF ChangedUnlock, ChangedKill, Watch
    <2>2. At(Watch, t) > 0
        BY <2>1, <1>1, ThreadSums, LocalFacts
    <2>3. Moves(t)
        BY <1>1, <1>4, ChangedStepPlaces DEF Went, Called
    <2> QED BY <2>1, <2>2, <2>3, <1>2, HeadSame DEF Needs
<1>5. CASE ChangedRestore(t)
    <2>1. UNCHANGED hdr /\ hdr[t] = 0
        BY <1>5 DEF ChangedRestore, ThreadInv, LocalsInv, LocalsOf
    <2>2. Moves(t)
        BY <1>1, <1>5, ChangedStepPlaces DEF Returned
    <2> QED BY <2>1, <2>2, <1>2, HeadSame DEF Needs
<1> QED BY <1>3, <1>4, <1>5 DEF ChangedStep

\* and those of the application, the main loop, the worker and camel.
LEMMA HeadOutside ==
    ASSUME ThreadInv, HeadInv
    PROVE  /\ \A t \in Callers : CallFolder(t) \/ DropHeader(t) \/ FlagHeader(t) => HeadInv'
           /\ RunSource \/ Serve \/ Push => HeadInv'
<1>1. /\ Callers \subseteq Threads /\ {Main, Worker, Camel} \subseteq Threads /\ Base
      /\ headers \in Nat /\ hdr \in [Threads -> 0 .. 1] /\ changes \in [0 .. 1 -> Nat]
    BY DEF Threads, Callers, ThreadInv, LockInv, BaseInv, Base, TypeOK
<1>2. ASSUME NEW t \in Threads, CallFolder(t) \/ DropHeader(t) \/ FlagHeader(t)
      PROVE  HeadInv'
    <2>1. UNCHANGED <<left, hdr, changes, folder, lost, late>> /\ headers' <= headers
        BY <1>1, <1>2 DEF CallFolder, DropHeader, FlagHeader
    <2>2. Moves(t) /\ At(Watch, t)' = 0
        <3>1. CASE CallFolder(t)
            BY <1>1, <3>1, CallFolderPlaces, LocalFacts DEF Called
        <3>2. CASE DropHeader(t) \/ FlagHeader(t)
            BY <1>1, <3>2, OutsidePlaces, LocalFacts DEF Called
        <3> QED BY <1>2, <3>1, <3>2
    <2>3. headers' > 0 => headers > 0
        <3>1. headers' = headers \/ (headers > 0 /\ headers' = headers - 1)
            BY <1>2 DEF CallFolder, DropHeader, FlagHeader
        <3> QED BY <3>1, <1>1
    <2> QED BY <2>1, <2>2, <2>3, HeadSame DEF Needs
<1>3. ASSUME NEW n \in 0 .. 1, RunChange(n) PROVE HeadInv'
    <2>1. /\ UNCHANGED <<left, hdr, folder, lost, late>>
          /\ changes' = [changes EXCEPT ![n] = @ - 1] /\ changes[n] > 0
        BY <1>3 DEF RunChange
    <2>2. PICK kept \in 0 .. n :
              /\ headers' = headers + kept /\ Moves(Main)
              /\ \A S : /\ At(S, Main)' = (n - kept + 1) * In("unreason", S) + In("free", S)
                        /\ At(S, Main) = In("free", S)
        BY <1>1, <1>3, ChangeMoves
    <2>3. At(Watch, Main)' = 0 /\ At(Watch, Main) = 0
        <3>1. (n - kept + 1) * 0 = 0
            OBVIOUS
        <3>2. In("unreason", Watch) = 0 /\ In("free", Watch) = 0
            BY LocalFacts
        <3> QED BY <3>1, <3>2, <2>2
    <2>4. headers' > 0 => headers > 0 \/ changes[1] > 0
        <3>1. CASE n = 0
            BY <3>1, <2>2, <1>1
        <3>2. CASE n = 1
            BY <3>2, <2>1
        <3> QED BY <3>1, <3>2
    <2>5. changes'[1] > 0 => changes[1] > 0
        <3>1. CASE n = 0
            BY <3>1, <2>1, <1>1
        <3>2. CASE n = 1
            BY <3>2, <2>1
        <3> QED BY <3>1, <3>2
    <2> QED BY <2>1, <2>2, <2>3, <2>4, <2>5, <1>1, HeadSame DEF Needs
<1>4. CASE RunDone
    <2>1. UNCHANGED <<left, hdr, headers, changes, folder, lost, late>>
        BY <1>4 DEF RunDone
    <2>2. Moves(Main) /\ At(Watch, Main)' = 0
        BY <1>1, <1>4, OutsidePlaces, LocalFacts DEF Called
    <2> QED BY <2>1, <2>2, <1>1, HeadSame DEF Needs
<1>5. CASE Serve
    <2>1. UNCHANGED <<left, hdr, headers, changes, folder, lost, late>>
        BY <1>5 DEF Serve
    <2>2. Moves(Worker) /\ At(Watch, Worker)' = 0
        BY <1>1, <1>5, ServeMoves, LocalFacts
    <2> QED BY <2>1, <2>2, <1>1, HeadSame DEF Needs
<1>6. CASE Push
    BY <1>6, HeadDone DEF Push
<1> QED BY <1>1, <1>2, <1>3, <1>4, <1>5, <1>6 DEF RunSource

\* All steps keep that.
LEMMA HeadStep == ASSUME ThreadInv, HeadInv, [Next]_vars PROVE HeadInv'
<1>1. CASE Next
    <2>1. ~lost
        BY <1>1 DEF Next
    <2> QED BY <1>1, <2>1, HeadReason, HeadCall, HeadChanged, HeadOutside DEF Next, ThreadStep
<1>2. CASE UNCHANGED vars
    BY <1>2 DEF HeadInv, Needs, At
<1> QED BY <1>1, <1>2

\* The headers of the application keep their folder: it is unloaded under them only when an
\* update of the count was lost, or somebody took the first reason, or folder_lock, between
\* the count at zero and the unload.
THEOREM FolderHeadersHaveFolder == Spec => []HeadersHaveFolder
<1>1. Init => ThreadInv /\ HeadInv
    <2>1. Init => HeadInv
        BY DEF Init, HeadInv, Needs
    <2> QED BY <2>1, ThreadInit, ThreadsAssumption, BoundAssumption
<1>2. ThreadInv /\ HeadInv /\ [Next]_vars => ThreadInv' /\ HeadInv'
    BY ThreadInvStep, HeadStep, BoundAssumption
<1>3. HeadInv => HeadersHaveFolder
    BY DEF HeadInv, HeadersHaveFolder
<1> QED BY <1>1, <1>2, <1>3, PTL DEF Spec

===============================================================================
