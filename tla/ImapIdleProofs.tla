---------------------------- MODULE ImapIdleProofs ----------------------------
(***************************************************************************)
(* ImapIdle for any number of threads and calls: every thread releases     *)
(* what it took, there is one idle thread, what it knows of IDLE, and who  *)
(* can keep the threads from going on.                                     *)
(*                                                                         *)
(* The functions of the code call each other without a bound, so a thread  *)
(* is described by its stack: every label on it stands for the locks that  *)
(* the function which returns to it holds, and what a thread holds is the  *)
(* sum of them.                                                            *)
(***************************************************************************)
EXTENDS ImapIdle, SequenceTheorems, TLAPS

Labels == CallerLabels \cup IdlerLabels

\* The labels of functions, and those at which a thread is in no function.
\* The idle thread does not start IDLE.
StartLabels ==
    {"start", "start_idle", "start_prefix", "start_t", "start_join", "start_new", "start_wait"}
Deep == CallerLabels \ (StartLabels \cup {"free"})
Starts(t) == IF t = Idler THEN {} ELSE StartLabels
Inner(t) == Deep \cup Starts(t)
Bottom(t) == IF t = Idler THEN IdlerLabels ELSE {"free"}

\* Where functions return to.
Returns ==
    {"start", "start_new", "stop_end", "store_stop", "down_close", "cmd_again", "cmd_write",
     "cmd_end", "process", "fetched", "free", "clear", "unlock", "next"}

\* The locks a function holds at a label.
Owns(a) ==
    IF a \in {"cmd_open", "cmd_again", "cmd_write", "cmd_read", "cmd_end"} THEN {"connect"}
    ELSE IF a \in {"store_stop_prefix", "start_prefix", "die_prefix"} THEN {"idle"}
    ELSE IF a \in {"store_stop_done", "start_t"} THEN {"idle", "prefix"}
    ELSE IF a \in {"stop_join", "stop_idle", "stop_end"} THEN {"t"}
    ELSE IF a = "stop_prefix" THEN {"idle", "t"}
    ELSE IF a \in {"start_join", "start_new", "start_wait"} THEN {"idle", "prefix", "t"}
    ELSE {}

Own(l, a) == IF l \in Owns(a) THEN 1 ELSE 0

Push(s, a) == <<a>> \o s

\* How often a lock is held, under a name that hides the numbers from the
\* provers while they look at sequences of them.
Count == Nat

\* The functions of s hold lock l v times together: h[k] times from the k-th on.
Below(l, s, v) ==
    \E h \in Seq(Count) :
        /\ Len(h) = Len(s) + 1 /\ h[1] = v /\ h[Len(h)] = 0
        /\ \A k \in 1 .. Len(s) : h[k] = h[k + 1] + Own(l, s[k])
        /\ \A j, k \in 1 .. Len(h) : j <= k => h[j] >= h[k]

\* A thread at a with stack s holds lock l n times.
Balance(l, a, s, n) == \E v \in Nat : Below(l, s, v) /\ n = v + Own(l, a)

\* A thread is in no function, or returns to where it is in none in the end.  IDLE
\* is started from there only.
StackOK(t, a, s) ==
    \/ s = <<>> /\ a \in Bottom(t)
    \/ /\ s # <<>> /\ a \in Inner(t) /\ s[Len(s)] \in Bottom(t)
       /\ a \in Starts(t) => Len(s) = 1
       /\ \A k \in 1 .. Len(s) : s[k] \in Returns
       /\ \A k \in 1 .. Len(s) - 1 : s[k] \in Deep \/ (k = Len(s) - 1 /\ s[k] \in Starts(t))

Base(a, s) == IF s = <<>> THEN a ELSE s[Len(s)]

-----------------------------------------------------------------------------
\* Sequences.

\* The first of a sequence and the others.
LEMMA PushFacts ==
    ASSUME NEW S, NEW s \in Seq(S), NEW a \in S
    PROVE  /\ Push(s, a) \in Seq(S) /\ Len(Push(s, a)) = Len(s) + 1 /\ Len(s) \in Nat
           /\ Push(s, a)[1] = a
           /\ \A i \in 1 .. Len(s) : Push(s, a)[i + 1] = s[i]
           /\ Push(s, a) # <<>>
<1>1. <<a>> \in Seq(S) /\ Len(<<a>>) = 1 /\ <<a>>[1] = a
    OBVIOUS
<1>2. Len(s) \in Nat
    BY LenProperties
<1>3. /\ <<a>> \o s \in Seq(S) /\ Len(<<a>> \o s) = 1 + Len(s)
      /\ \A i \in 1 .. 1 + Len(s) : (<<a>> \o s)[i] = IF i <= 1 THEN <<a>>[i] ELSE s[i - 1]
    BY <1>1, ConcatProperties
<1>4. (<<a>> \o s)[1] = a
    BY <1>1, <1>2, <1>3
<1>5. ASSUME NEW i \in 1 .. Len(s) PROVE (<<a>> \o s)[i + 1] = s[i]
    <2>1. i + 1 \in 1 .. 1 + Len(s) /\ ~(i + 1 <= 1) /\ (i + 1) - 1 = i
        BY <1>2
    <2> QED BY <2>1, <1>3
<1>6. <<a>> \o s # <<>>
    BY <1>2, <1>3, EmptySeq
<1> QED BY <1>2, <1>3, <1>4, <1>5, <1>6 DEF Push

\* What is left when the first of a sequence is taken.
LEMMA PopFacts ==
    ASSUME NEW S, NEW s \in Seq(S), s # <<>>
    PROVE  /\ Head(s) \in S /\ Head(s) = s[1] /\ Tail(s) \in Seq(S)
           /\ Len(s) \in Nat /\ Len(s) >= 1 /\ Len(Tail(s)) = Len(s) - 1
           /\ \A i \in 1 .. Len(s) - 1 : Tail(s)[i] = s[i + 1]
           /\ Tail(s) = <<>> <=> Len(s) = 1
<1>1. Len(s) \in Nat \ {0}
    BY EmptySeq
<1>2. /\ Head(s) \in S /\ Tail(s) \in Seq(S) /\ Len(Tail(s)) = Len(s) - 1
      /\ \A i \in 1 .. Len(Tail(s)) : Tail(s)[i] = s[i + 1]
    BY HeadTailProperties
<1>3. Head(s) = s[1]
    BY <1>1
<1>4. Tail(s) = <<>> <=> Len(Tail(s)) = 0
    BY <1>2, EmptySeq
<1> QED BY <1>1, <1>2, <1>3, <1>4

-----------------------------------------------------------------------------
\* What a thread holds.

\* A thread in no function holds nothing.
LEMMA BelowEmpty == ASSUME NEW l PROVE Below(l, <<>>, 0) /\ \A v : Below(l, <<>>, v) => v = 0
<1>1. Len(<<>>) = 0
    OBVIOUS
<1>2. <<0>> \in Seq(Count) /\ Len(<<0>>) = 1 /\ <<0>>[1] = 0
    BY DEF Count
<1>3. Below(l, <<>>, 0)
    <2> DEFINE h == <<0>>
    <2>1. h \in Seq(Count) /\ Len(h) = 1 /\ h[1] = 0
        BY <1>2
    <2> HIDE DEF h
    <2>2. \A j, k \in 1 .. Len(h) : j <= k => h[j] >= h[k]
        BY <2>1
    <2>3. \A k \in 1 .. Len(<<>>) : h[k] = h[k + 1] + Own(l, <<>>[k])
        BY <1>1
    <2> QED BY <1>1, <2>1, <2>2, <2>3 DEF Below
<1>4. ASSUME NEW v, Below(l, <<>>, v) PROVE v = 0
    BY <1>1, <1>4 DEF Below
<1> QED BY <1>3, <1>4

\* A function that is called while its caller is at a.
LEMMA BelowPush ==
    ASSUME NEW l, NEW s \in Seq(Labels), NEW a \in Labels, NEW v \in Nat, Below(l, s, v)
    PROVE  Below(l, Push(s, a), v + Own(l, a))
<1>1. PICK h \in Seq(Count) :
          /\ Len(h) = Len(s) + 1 /\ h[1] = v /\ h[Len(h)] = 0
          /\ \A k \in 1 .. Len(s) : h[k] = h[k + 1] + Own(l, s[k])
          /\ \A j, k \in 1 .. Len(h) : j <= k => h[j] >= h[k]
    BY DEF Below
<1> DEFINE g == Push(h, v + Own(l, a))
           z == Push(s, a)
<1>2. Own(l, a) \in {0, 1} /\ v + Own(l, a) \in Nat
    BY DEF Own
<1>3. /\ z \in Seq(Labels) /\ Len(z) = Len(s) + 1 /\ Len(s) \in Nat /\ z[1] = a
      /\ \A i \in 1 .. Len(s) : z[i + 1] = s[i]
    BY PushFacts
<1>4. /\ g \in Seq(Count) /\ Len(g) = Len(h) + 1 /\ g[1] = v + Own(l, a)
      /\ \A i \in 1 .. Len(h) : g[i + 1] = h[i]
    <2> DEFINE x == v + Own(l, a)
    <2>1. x \in Count
        BY <1>2 DEF Count
    <2> HIDE DEF x
    <2>2. /\ Push(h, x) \in Seq(Count) /\ Len(Push(h, x)) = Len(h) + 1 /\ Push(h, x)[1] = x
          /\ \A i \in 1 .. Len(h) : Push(h, x)[i + 1] = h[i]
        BY <2>1, PushFacts
    <2> QED BY <2>2 DEF x
<1>5. \A i \in 1 .. Len(h) : h[i] \in Nat
    BY ElementOfSeq DEF Count
<1> HIDE DEF g, z
<1>6. Len(g) = Len(z) + 1 /\ g[Len(g)] = 0
    <2>1. Len(h) \in 1 .. Len(h) /\ Len(g) = Len(h) + 1 /\ Len(g) = Len(z) + 1
        BY <1>1, <1>3, <1>4
    <2> QED BY <2>1, <1>1, <1>4
<1>7. ASSUME NEW k \in 1 .. Len(z) PROVE g[k] = g[k + 1] + Own(l, z[k])
    <2>1. CASE k = 1
        BY <2>1, <1>1, <1>3, <1>4
    <2>2. CASE k # 1
        <3> DEFINE i == k - 1
        <3>1. i \in 1 .. Len(s) /\ i \in 1 .. Len(h) /\ i + 1 \in 1 .. Len(h) /\ k = i + 1
            BY <2>2, <1>1, <1>3
        <3>2. g[i + 1] = h[i] /\ g[i + 1 + 1] = h[i + 1] /\ z[i + 1] = s[i]
            BY <3>1, <1>3, <1>4
        <3> QED BY <3>1, <3>2, <1>1
    <2> QED BY <2>1, <2>2
<1>8. ASSUME NEW j \in 1 .. Len(g), NEW k \in 1 .. Len(g), j <= k PROVE g[j] >= g[k]
    <2>1. CASE j = 1 /\ k = 1
        BY <2>1, <1>2, <1>4
    <2>2. CASE k # 1
        <3> DEFINE m == k - 1
        <3>1. m \in 1 .. Len(h) /\ k = m + 1 /\ 1 \in 1 .. Len(h) /\ 1 <= m
            BY <2>2, <1>4, <1>1, <1>3
        <3>2. g[k] = h[m] /\ h[m] \in Nat
            BY <3>1, <1>4, <1>5
        <3>3. CASE j = 1
            <4>1. h[1] >= h[m] /\ h[1] = v
                BY <3>1, <1>1
            <4>2. g[j] = v + Own(l, a) /\ g[k] = h[m]
                BY <3>2, <3>3, <1>4
            <4> QED BY <4>1, <4>2, <3>2, <1>2
        <3>4. CASE j # 1
            <4> DEFINE n == j - 1
            <4>1. n \in 1 .. Len(h) /\ j = n + 1 /\ n <= m
                BY <1>8, <3>1, <3>4, <1>4, <1>1, <1>3
            <4> QED BY <4>1, <3>1, <3>2, <1>1, <1>4
        <3> QED BY <3>3, <3>4
    <2> QED BY <2>1, <2>2, <1>8
<1> QED BY <1>4, <1>6, <1>7, <1>8 DEF Below, g, z

\* A function that returns.
LEMMA BelowPop ==
    ASSUME NEW l, NEW s \in Seq(Labels), s # <<>>, NEW v \in Nat, Below(l, s, v)
    PROVE  \E u \in Nat : Below(l, Tail(s), u) /\ v = u + Own(l, Head(s))
<1>1. PICK h \in Seq(Count) :
          /\ Len(h) = Len(s) + 1 /\ h[1] = v /\ h[Len(h)] = 0
          /\ \A k \in 1 .. Len(s) : h[k] = h[k + 1] + Own(l, s[k])
          /\ \A j, k \in 1 .. Len(h) : j <= k => h[j] >= h[k]
    BY DEF Below
<1> DEFINE g == Tail(h)
           z == Tail(s)
<1>2. /\ Head(s) = s[1] /\ Len(s) \in Nat /\ Len(s) >= 1 /\ Len(z) = Len(s) - 1
      /\ \A i \in 1 .. Len(s) - 1 : z[i] = s[i + 1]
    BY PopFacts
<1>3. h # <<>>
    BY <1>1, <1>2
<1>4. /\ g \in Seq(Count) /\ Len(g) = Len(h) - 1
      /\ \A i \in 1 .. Len(h) - 1 : g[i] = h[i + 1]
    BY <1>3, PopFacts
<1>5. \A i \in 1 .. Len(h) : h[i] \in Nat
    BY ElementOfSeq DEF Count
<1> HIDE DEF g, z
<1>6. Len(g) = Len(z) + 1 /\ g[1] = h[2] /\ g[Len(g)] = 0
    <2>1. 1 \in 1 .. Len(h) - 1 /\ Len(h) - 1 \in 1 .. Len(h) - 1 /\ Len(g) = Len(h) - 1
          /\ Len(h) - 1 + 1 = Len(h) /\ Len(g) = Len(z) + 1
        BY <1>1, <1>2, <1>4
    <2>2. g[1] = h[1 + 1] /\ g[Len(h) - 1] = h[Len(h) - 1 + 1]
        BY <2>1, <1>4
    <2> QED BY <2>1, <2>2, <1>1
<1>7. h[2] \in Nat /\ v = h[2] + Own(l, Head(s))
    BY <1>1, <1>2, <1>5
<1>8. ASSUME NEW k \in 1 .. Len(z) PROVE g[k] = g[k + 1] + Own(l, z[k])
    <2>1. k \in 1 .. Len(h) - 1 /\ k + 1 \in 1 .. Len(h) - 1 /\ k \in 1 .. Len(s) - 1
          /\ k + 1 \in 1 .. Len(s)
        BY <1>1, <1>2
    <2>2. g[k] = h[k + 1] /\ g[k + 1] = h[k + 1 + 1] /\ z[k] = s[k + 1]
        BY <2>1, <1>2, <1>4
    <2> QED BY <2>1, <2>2, <1>1
<1>9. ASSUME NEW j \in 1 .. Len(g), NEW k \in 1 .. Len(g), j <= k PROVE g[j] >= g[k]
    <2>1. j + 1 \in 1 .. Len(h) /\ k + 1 \in 1 .. Len(h) /\ j + 1 <= k + 1
        BY <1>9, <1>1, <1>2, <1>4
    <2>2. g[j] = h[j + 1] /\ g[k] = h[k + 1]
        BY <1>1, <1>2, <1>4
    <2> QED BY <2>1, <2>2, <1>1
<1>10. Below(l, z, h[2])
    BY <1>4, <1>6, <1>8, <1>9 DEF Below
<1> QED BY <1>7, <1>10 DEF z

\* A function on the stack holds its locks.
LEMMA BelowIn ==
    ASSUME NEW l, NEW s \in Seq(Labels), NEW v \in Nat, Below(l, s, v), NEW k \in 1 .. Len(s),
           l \in Owns(s[k])
    PROVE  v >= 1
<1>1. PICK h \in Seq(Count) :
          /\ Len(h) = Len(s) + 1 /\ h[1] = v
          /\ \A i \in 1 .. Len(s) : h[i] = h[i + 1] + Own(l, s[i])
          /\ \A i, j \in 1 .. Len(h) : i <= j => h[i] >= h[j]
    BY DEF Below
<1>2. Len(s) \in Nat
    BY LenProperties
<1>3. k \in 1 .. Len(h) /\ k + 1 \in 1 .. Len(h) /\ 1 \in 1 .. Len(h)
    BY <1>1, <1>2
<1>4. h[k + 1] \in Nat /\ h[k] = h[k + 1] + 1
    BY <1>1, <1>3, ElementOfSeq DEF Own, Count
<1>5. h[1] >= h[k]
    BY <1>1, <1>3
<1> QED BY <1>1, <1>4, <1>5

-----------------------------------------------------------------------------
\* Goto, Call and Return of a thread at a with stack s.

\* A label holds a lock once or not at all.
LEMMA OwnNat == ASSUME NEW l, NEW a PROVE Own(l, a) \in {0, 1}
BY DEF Own

\* A label of the same function, in which the function holds other locks.
LEMMA BalanceGoto ==
    ASSUME NEW l, NEW s \in Seq(Labels), NEW a, NEW b, NEW n, Balance(l, a, s, n)
    PROVE  Balance(l, b, s, n + Own(l, b) - Own(l, a)) /\ n \in Nat /\ n >= Own(l, a)
<1>1. PICK v \in Nat : Below(l, s, v) /\ n = v + Own(l, a)
    BY DEF Balance
<1>2. n + Own(l, b) - Own(l, a) = v + Own(l, b) /\ n \in Nat /\ n >= Own(l, a)
    BY <1>1, OwnNat
<1> QED BY <1>1, <1>2 DEF Balance

\* A call, whose function begins without locks.
LEMMA BalanceCall ==
    ASSUME NEW l, NEW s \in Seq(Labels), NEW a \in Labels, NEW b, Owns(b) = {}, NEW n,
           Balance(l, a, s, n)
    PROVE  Balance(l, b, Push(s, a), n)
<1>1. PICK v \in Nat : Below(l, s, v) /\ n = v + Own(l, a)
    BY DEF Balance
<1>2. n \in Nat /\ Own(l, b) = 0 /\ n = n + Own(l, b)
    BY <1>1, OwnNat DEF Own
<1>3. Below(l, Push(s, a), n)
    BY <1>1, BelowPush
<1> QED BY <1>2, <1>3 DEF Balance

\* A function that returns has released its locks.
LEMMA BalanceReturn ==
    ASSUME NEW l, NEW s \in Seq(Labels), s # <<>>, NEW a, NEW n, Balance(l, a, s, n)
    PROVE  Balance(l, Head(s), Tail(s), n - Own(l, a)) /\ n \in Nat /\ n >= Own(l, a)
<1>1. PICK v \in Nat : Below(l, s, v) /\ n = v + Own(l, a)
    BY DEF Balance
<1>2. PICK u \in Nat : Below(l, Tail(s), u) /\ v = u + Own(l, Head(s))
    BY <1>1, BelowPop
<1>3. n - Own(l, a) = u + Own(l, Head(s)) /\ n \in Nat /\ n >= Own(l, a)
    BY <1>1, <1>2, OwnNat
<1> QED BY <1>2, <1>3 DEF Balance

\* The labels of a thread.
LEMMA LabelFacts ==
    ASSUME NEW t
    PROVE  /\ Inner(t) \subseteq Labels /\ Bottom(t) \subseteq Labels /\ Returns \subseteq Labels
           /\ Inner(t) \cap Bottom(t) = {} /\ Deep \cap Starts(t) = {}
           /\ Deep \subseteq Inner(t) /\ Starts(t) \subseteq Inner(t)
<1>1. Deep \subseteq Labels /\ StartLabels \subseteq Labels /\ Returns \subseteq Labels
    BY DEF Deep, StartLabels, Returns, Labels, CallerLabels, IdlerLabels
<1>2. Deep \cap IdlerLabels = {} /\ Deep \cap StartLabels = {}
    BY DEF Deep, StartLabels, CallerLabels, IdlerLabels
<1>3. /\ "free" \notin Deep /\ "free" \notin StartLabels
      /\ {"free"} \subseteq Labels /\ IdlerLabels \subseteq Labels
    BY DEF Deep, StartLabels, CallerLabels, Labels
<1> QED BY <1>1, <1>2, <1>3 DEF Inner, Bottom, Starts

\* Labels of one function, or of none.
Kin(t, a, b) ==
    \/ a \in Deep /\ b \in Deep
    \/ a \in Starts(t) /\ b \in Starts(t)
    \/ a \in Bottom(t) /\ b \in Bottom(t)

\* A thread that goes on in its function keeps its stack in order.
LEMMA StackGoto ==
    ASSUME NEW t, NEW a, NEW s, StackOK(t, a, s), NEW b, Kin(t, a, b)
    PROVE  StackOK(t, b, s) /\ Base(b, s) = IF a \in Bottom(t) THEN b ELSE Base(a, s)
<1>1. CASE a \in Bottom(t) /\ b \in Bottom(t)
    BY <1>1, LabelFacts DEF StackOK, Base
<1>2. CASE (a \in Deep /\ b \in Deep) \/ (a \in Starts(t) /\ b \in Starts(t))
    BY <1>2, LabelFacts DEF StackOK, Base
<1> QED BY <1>1, <1>2 DEF Kin

\* A function b is called, which returns to a.
MayCall(t, b, s) == b \in Deep \/ (b \in Starts(t) /\ s = <<>>)

\* A call keeps the stack in order, and where the thread returns to in the end.
LEMMA StackCall ==
    ASSUME NEW t, NEW a \in Returns, NEW s \in Seq(Labels), StackOK(t, a, s), NEW b,
           MayCall(t, b, s)
    PROVE  /\ StackOK(t, b, Push(s, a)) /\ Base(b, Push(s, a)) = Base(a, s)
           /\ Push(s, a) \in Seq(Labels)
<1> DEFINE z == Push(s, a)
<1>1. a \in Labels /\ b \in Inner(t)
    BY LabelFacts DEF MayCall
<1>2. /\ z \in Seq(Labels) /\ Len(z) = Len(s) + 1 /\ Len(s) \in Nat /\ z[1] = a /\ z # <<>>
      /\ \A i \in 1 .. Len(s) : z[i + 1] = s[i]
    BY <1>1, PushFacts
<1> HIDE DEF z
<1>3. CASE s = <<>>
    <2>1. Len(s) = 0
        BY <1>3
    <2>2. Len(z) = 1 /\ z[Len(z)] = a /\ \A k \in 1 .. Len(z) - 1 : FALSE
        BY <2>1, <1>2
    <2>3. \A k \in 1 .. Len(z) : z[k] \in Returns
        BY <2>2
    <2> QED BY <2>2, <2>3, <1>1, <1>2, <1>3 DEF StackOK, Base, z
<1>4. CASE s # <<>>
    <2>1. Len(s) \in 1 .. Len(s)
        BY <1>4, EmptySeq
    <2>2. z[Len(z)] = s[Len(s)] /\ b \in Deep /\ b \notin Starts(t)
        BY <2>1, <1>2, <1>4, LabelFacts DEF MayCall
    <2>3. /\ a \in Inner(t) /\ s[Len(s)] \in Bottom(t)
          /\ a \in Starts(t) => Len(s) = 1
          /\ \A k \in 1 .. Len(s) : s[k] \in Returns
          /\ \A k \in 1 .. Len(s) - 1 : s[k] \in Deep \/ (k = Len(s) - 1 /\ s[k] \in Starts(t))
        BY <1>4 DEF StackOK
    <2>4. ASSUME NEW k \in 1 .. Len(z) - 1
          PROVE  z[k] \in Deep \/ (k = Len(z) - 1 /\ z[k] \in Starts(t))
        <3>1. CASE k = 1
            BY <3>1, <1>2, <2>3 DEF Inner
        <3>2. CASE k # 1
            <4> DEFINE i == k - 1
            <4>1. i \in 1 .. Len(s) - 1 /\ i \in 1 .. Len(s) /\ k = i + 1
                BY <3>2, <1>2
            <4>2. z[k] = s[i] /\ (i = Len(s) - 1 <=> k = Len(z) - 1)
                BY <4>1, <1>2
            <4> QED BY <4>1, <4>2, <2>3
        <3> QED BY <3>1, <3>2
    <2>5. ASSUME NEW k \in 1 .. Len(z) PROVE z[k] \in Returns
        <3>1. CASE k = 1
            BY <3>1, <1>2
        <3>2. CASE k # 1
            <4> DEFINE i == k - 1
            <4>1. i \in 1 .. Len(s) /\ k = i + 1
                BY <3>2, <1>2
            <4> QED BY <4>1, <1>2, <2>3
        <3> QED BY <3>1, <3>2
    <2> QED BY <2>2, <2>3, <2>4, <2>5, <1>1, <1>2, <1>4 DEF StackOK, Base, z
<1> QED BY <1>3, <1>4

\* So does a return.
LEMMA StackReturn ==
    ASSUME NEW t, NEW a \in Inner(t), NEW s \in Seq(Labels), StackOK(t, a, s)
    PROVE  /\ s # <<>> /\ StackOK(t, Head(s), Tail(s)) /\ Base(Head(s), Tail(s)) = Base(a, s)
           /\ Tail(s) \in Seq(Labels) /\ Head(s) \in Returns
<1> DEFINE z == Tail(s)
<1>1. /\ s # <<>> /\ s[Len(s)] \in Bottom(t) /\ \A k \in 1 .. Len(s) : s[k] \in Returns
      /\ \A k \in 1 .. Len(s) - 1 : s[k] \in Deep \/ (k = Len(s) - 1 /\ s[k] \in Starts(t))
    BY LabelFacts DEF StackOK
<1>2. /\ Head(s) = s[1] /\ z \in Seq(Labels) /\ Len(s) \in Nat /\ Len(s) >= 1 /\ Len(z) = Len(s) - 1
      /\ \A i \in 1 .. Len(s) - 1 : z[i] = s[i + 1]
      /\ z = <<>> <=> Len(s) = 1
    BY <1>1, PopFacts
<1>3. Head(s) \in Returns
    <2>1. 1 \in 1 .. Len(s)
        BY <1>2
    <2>2. s[1] \in Returns
        BY <2>1, <1>1
    <2> QED BY <2>2, <1>2
<1> HIDE DEF z
<1>4. CASE Len(s) = 1
    <2>1. z = <<>> /\ Head(s) \in Bottom(t) /\ Base(Head(s), z) = s[Len(s)]
        BY <1>1, <1>2, <1>4 DEF Base
    <2>2. Base(a, s) = s[Len(s)]
        BY <1>1 DEF Base
    <2> QED BY <2>1, <2>2, <1>1, <1>2, <1>3 DEF StackOK, z
<1>5. CASE Len(s) # 1
    <2>1. 1 \in 1 .. Len(s) - 1 /\ Len(s) - 1 \in 1 .. Len(s) - 1
        BY <1>2, <1>5
    <2>2. z[Len(z)] = s[Len(s)] /\ z # <<>>
        BY <2>1, <1>2, <1>5
    <2>3. Head(s) \in Deep \/ (Len(z) = 1 /\ Head(s) \in Starts(t))
        BY <2>1, <1>1, <1>2
    <2>4. Head(s) \in Inner(t) /\ (Head(s) \in Starts(t) => Len(z) = 1)
        BY <2>3, LabelFacts
    <2>5. ASSUME NEW k \in 1 .. Len(z) - 1
          PROVE  z[k] \in Deep \/ (k = Len(z) - 1 /\ z[k] \in Starts(t))
        <3>1. k \in 1 .. Len(s) - 1 /\ k + 1 \in 1 .. Len(s) - 1
              /\ (k + 1 = Len(s) - 1 <=> k = Len(z) - 1)
            BY <1>2
        <3> QED BY <3>1, <1>1, <1>2
    <2>6. ASSUME NEW k \in 1 .. Len(z) PROVE z[k] \in Returns
        <3>1. k \in 1 .. Len(s) - 1 /\ k + 1 \in 1 .. Len(s)
            BY <1>2
        <3> QED BY <3>1, <1>1, <1>2
    <2> QED BY <2>2, <2>4, <2>5, <2>6, <1>1, <1>3 DEF StackOK, Base, z
<1> QED BY <1>2, <1>4, <1>5 DEF z

-----------------------------------------------------------------------------
\* The control of all threads.

\* Where the idle thread is when all functions it is in have returned.
Place == Base(pc[Idler], stack[Idler])

\* idle_lock is also held between its trylock and its release.
Extra(l, t) == IF l = "idle" /\ t = Idler /\ idle.locked THEN 1 ELSE 0
TryLabels == {"write_idle", "write_done", "read_done", "unlock"}

ControlInv ==
    /\ pc \in [Threads -> Labels] /\ stack \in [Threads -> Seq(Labels)]
    /\ held \in [Locks -> [Threads -> Nat]]
    /\ idle.locked \in BOOLEAN
    /\ \A t \in Threads : StackOK(t, pc[t], stack[t])
    /\ \A l \in Locks, t \in Threads : Balance(l, pc[t], stack[t], held[l][t] - Extra(l, t))
    /\ \A l \in Locks : \A t, u \in Threads : t # u => held[l][t] = 0 \/ held[l][u] = 0
    /\ idle.locked => Place \in TryLabels

\* A step of t to a label b.
HeldTo(t, b) ==
    /\ held' \in [Locks -> [Threads -> Int]]
    /\ \A l \in Locks :
           /\ held'[l][t] - Extra(l, t)' = held[l][t] - Extra(l, t) + Own(l, b) - Own(l, pc[t])
           /\ held'[l][t] > held[l][t] => CanLock(l, t)
           /\ \A u \in Threads \ {t} : held'[l][u] = held[l][u]

LockedKept(t) ==
    /\ idle.locked' \in BOOLEAN
    /\ t # Idler => idle.locked' = idle.locked
    /\ idle.locked' => Place' \in TryLabels

\* The idle thread is a thread.
LEMMA IdlerFacts == Idler \in Threads
BY DEF Threads

\* A step of one thread that keeps its own stack and locks in order keeps all.
LEMMA ControlStep ==
    ASSUME ControlInv, NEW t \in Threads, NEW a \in Labels, NEW s \in Seq(Labels),
           pc' = [pc EXCEPT ![t] = a], stack' = [stack EXCEPT ![t] = s], StackOK(t, a, s),
           held' \in [Locks -> [Threads -> Int]],
           \A l \in Locks :
               /\ Balance(l, a, s, held'[l][t] - Extra(l, t)')
               /\ held'[l][t] > held[l][t] => CanLock(l, t)
               /\ \A u \in Threads \ {t} : held'[l][u] = held[l][u],
           LockedKept(t)
    PROVE  ControlInv'
<1> USE DEF ControlInv
<1>1. pc' \in [Threads -> Labels] /\ stack' \in [Threads -> Seq(Labels)]
    OBVIOUS
<1>2. /\ pc'[t] = a /\ stack'[t] = s
      /\ \A u \in Threads \ {t} : pc'[u] = pc[u] /\ stack'[u] = stack[u]
    OBVIOUS
<1>3. \A u \in Threads : StackOK(u, pc'[u], stack'[u])
    <2> TAKE u \in Threads
    <2>1. CASE u = t
        BY <2>1, <1>2
    <2>2. CASE u # t
        BY <2>2, <1>2
    <2> QED BY <2>1, <2>2
<1>4. ASSUME NEW l \in Locks, NEW u \in Threads
      PROVE  Balance(l, pc'[u], stack'[u], held'[l][u] - Extra(l, u)')
    <2>1. CASE u = t
        BY <2>1, <1>2
    <2>2. CASE u # t
        <3>1. Extra(l, u)' = Extra(l, u)
            BY <2>2 DEF Extra, LockedKept
        <3>2. pc'[u] = pc[u] /\ stack'[u] = stack[u] /\ held'[l][u] = held[l][u]
            BY <2>2, <1>2
        <3> QED BY <3>1, <3>2
    <2> QED BY <2>1, <2>2
<1>5. ASSUME NEW l \in Locks, NEW u \in Threads PROVE held'[l][u] \in Nat
    <2>1. held'[l][u] - Extra(l, u)' \in Nat
        BY <1>4, BalanceGoto, <1>1
    <2>2. Extra(l, u)' \in {0, 1} /\ held'[l][u] \in Int
        BY DEF Extra
    <2> QED BY <2>1, <2>2
<1>6. held' \in [Locks -> [Threads -> Nat]]
    BY <1>5
<1>7. ASSUME NEW l \in Locks, NEW u \in Threads, NEW w \in Threads, u # w
      PROVE  held'[l][u] = 0 \/ held'[l][w] = 0
    <2>1. CASE u # t /\ w # t
        BY <2>1, <1>7
    <2>2. ASSUME NEW x \in Threads, x # t PROVE held'[l][t] = 0 \/ held'[l][x] = 0
        <3>1. held'[l][x] = held[l][x] /\ held[l][t] \in Nat /\ held'[l][t] \in Nat
            BY <2>2, <1>5
        <3>2. CASE held'[l][t] > held[l][t]
            BY <3>1, <3>2, <2>2 DEF CanLock
        <3>3. CASE ~(held'[l][t] > held[l][t])
            BY <3>1, <3>3, <2>2
        <3> QED BY <3>2, <3>3
    <2> QED BY <2>1, <2>2, <1>7
<1>8. idle.locked' \in BOOLEAN /\ (idle.locked' => Place' \in TryLabels)
    BY DEF LockedKept
<1> QED BY <1>1, <1>3, <1>4, <1>6, <1>7, <1>8

\* A step that leaves the locks alone leads to a label that owns the same.
LEMMA HeldSame ==
    ASSUME ControlInv, NEW t \in Threads, NEW b, UNCHANGED held, idle.locked' = idle.locked,
           Owns(b) = Owns(pc[t])
    PROVE  HeldTo(t, b)
<1>1. \A l \in Locks : Extra(l, t)' = Extra(l, t) /\ Own(l, b) = Own(l, pc[t])
    BY DEF Extra, Own
<1>2. \A l \in Locks : Extra(l, t) \in {0, 1} /\ Own(l, b) \in {0, 1}
    BY DEF Extra, Own
<1>3. held \in [Locks -> [Threads -> Nat]] /\ held' = held
    BY Zenon DEF ControlInv
<1>4. ASSUME NEW l \in Locks
      PROVE  /\ held'[l][t] - Extra(l, t)' =
                    held[l][t] - Extra(l, t) + Own(l, b) - Own(l, pc[t])
             /\ held'[l][t] > held[l][t] => CanLock(l, t)
             /\ \A u \in Threads \ {t} : held'[l][u] = held[l][u]
    <2>1. held'[l] = held[l] /\ held[l][t] \in Nat
        BY <1>3
    <2> QED BY <1>1, <1>2, <2>1
<1>5. held' \in [Locks -> [Threads -> Int]]
    BY <1>3
<1> QED BY <1>4, <1>5, Zenon DEF HeldTo

\* A step that takes a lock leads to a label that owns it.
LEMMA HeldLock ==
    ASSUME ControlInv, NEW t \in Threads, NEW b, NEW l \in Locks, Lock(l, t),
           idle.locked' = idle.locked, Owns(b) = Owns(pc[t]) \cup {l}, l \notin Owns(pc[t])
    PROVE  HeldTo(t, b)
<1>1. ASSUME NEW k \in Locks
      PROVE  /\ Extra(k, t)' = Extra(k, t) /\ Extra(k, t) \in {0, 1} /\ Own(k, pc[t]) \in {0, 1}
             /\ Own(k, b) = Own(k, pc[t]) + (IF k = l THEN 1 ELSE 0)
    BY DEF Extra, Own
<1>2. held \in [Locks -> [Threads -> Nat]]
    BY DEF ControlInv
<1>3. /\ held' \in [Locks -> [Threads -> Int]]
      /\ \A k \in Locks : \A u \in Threads :
             held'[k][u] = IF k = l /\ u = t THEN held[k][u] + 1 ELSE held[k][u]
    BY <1>2 DEF Lock, Locked
<1>4. CanLock(l, t)
    BY DEF Lock
<1> QED BY <1>1, <1>2, <1>3, <1>4 DEF HeldTo

\* A step that releases a lock leads to a label without it.
LEMMA HeldUnlock ==
    ASSUME ControlInv, NEW t \in Threads, NEW b, NEW l \in Locks, held' = Unlocked(held, l, t),
           idle.locked' = idle.locked, Owns(pc[t]) = Owns(b) \cup {l}, l \notin Owns(b)
    PROVE  HeldTo(t, b)
<1>1. ASSUME NEW k \in Locks
      PROVE  /\ Extra(k, t)' = Extra(k, t) /\ Extra(k, t) \in {0, 1} /\ Own(k, b) \in {0, 1}
             /\ Own(k, pc[t]) = Own(k, b) + (IF k = l THEN 1 ELSE 0)
    BY DEF Extra, Own
<1>2. held \in [Locks -> [Threads -> Nat]]
    BY DEF ControlInv
<1>3. /\ held' \in [Locks -> [Threads -> Int]]
      /\ \A k \in Locks : \A u \in Threads :
             held'[k][u] = IF k = l /\ u = t THEN held[k][u] - 1 ELSE held[k][u]
    BY <1>2 DEF Unlocked
<1> QED BY <1>1, <1>2, <1>3 DEF HeldTo

\* And so does one that releases some locks together.
LEMMA HeldUnlockAll ==
    ASSUME ControlInv, NEW t \in Threads, NEW b, held' = UnlockedAll(held, Owns(pc[t]), t),
           idle.locked' = idle.locked, Owns(b) = {}
    PROVE  HeldTo(t, b)
<1>1. ASSUME NEW k \in Locks
      PROVE  /\ Extra(k, t)' = Extra(k, t) /\ Extra(k, t) \in {0, 1} /\ Own(k, b) = 0
             /\ Own(k, pc[t]) = IF k \in Owns(pc[t]) THEN 1 ELSE 0
    BY DEF Extra, Own
<1>2. held \in [Locks -> [Threads -> Nat]]
    BY DEF ControlInv
<1>3. /\ held' \in [Locks -> [Threads -> Int]]
      /\ \A k \in Locks : \A u \in Threads :
             held'[k][u] = IF k \in Owns(pc[t]) /\ u = t THEN held[k][u] - 1 ELSE held[k][u]
    <2> DEFINE ls == Owns(pc[t])
    <2>1. held' = [k \in Locks |-> IF k \in ls THEN [held[k] EXCEPT ![t] = @ - 1] ELSE held[k]]
        BY DEF UnlockedAll
    <2> HIDE DEF ls
    <2>2. \A k \in Locks : held'[k] = IF k \in ls THEN [held[k] EXCEPT ![t] = @ - 1] ELSE held[k]
        BY <2>1
    <2>3. ASSUME NEW k \in Locks PROVE held'[k] \in [Threads -> Int]
        <3>1. held[k] \in [Threads -> Nat]
            BY <1>2
        <3>2. [held[k] EXCEPT ![t] = @ - 1] \in [Threads -> Int]
            BY <3>1
        <3>3. held[k] \in [Threads -> Int]
            BY <3>1
        <3> QED BY <3>2, <3>3, <2>2
    <2>4. held' \in [Locks -> [Threads -> Int]]
        BY <2>1, <2>3
    <2>5. \A k \in Locks : \A u \in Threads :
              held'[k][u] = IF k \in ls /\ u = t THEN held[k][u] - 1 ELSE held[k][u]
        BY <2>2, <1>2
    <2> QED BY <2>4, <2>5 DEF ls
<1> QED BY <1>1, <1>2, <1>3 DEF HeldTo

-----------------------------------------------------------------------------
\* The steps of a thread from its label to b, from where it calls functions.

SameKind(t, b) == Kin(t, pc[t], b)

Moved(t, b) == IF t = Idler THEN Base(b, stack[t]) ELSE Place

LockedTo(t, b) ==
    /\ idle.locked' \in BOOLEAN
    /\ t # Idler => idle.locked' = idle.locked
    /\ idle.locked' => Moved(t, b) \in TryLabels

\* The stacks of the others stay.
LEMMA PlaceStep ==
    ASSUME ControlInv, NEW t \in Threads, NEW a, NEW s, NEW b,
           pc' = [pc EXCEPT ![t] = a], stack' = [stack EXCEPT ![t] = s],
           Base(a, s) = Base(b, stack[t]), LockedTo(t, b)
    PROVE  Place' = Moved(t, b) /\ LockedKept(t)
<1>1. Place' = Base(pc'[Idler], stack'[Idler])
    BY DEF Place
<1>2. pc \in [Threads -> Labels] /\ stack \in [Threads -> Seq(Labels)]
    BY DEF ControlInv
<1>3. CASE t = Idler
    BY <1>1, <1>2, <1>3, IdlerFacts DEF Moved, LockedTo, LockedKept
<1>4. CASE t # Idler
    <2>1. pc'[Idler] = pc[Idler] /\ stack'[Idler] = stack[Idler]
        BY <1>2, <1>4, IdlerFacts
    <2> QED BY <2>1, <1>1, <1>4 DEF Moved, LockedTo, LockedKept, Place
<1> QED BY <1>3, <1>4

\* What a step to b makes of what the thread holds.
LEMMA HeldFacts ==
    ASSUME ControlInv, NEW t \in Threads, NEW b, HeldTo(t, b), SameKind(t, b), NEW l \in Locks
    PROVE  /\ Balance(l, b, stack[t], held'[l][t] - Extra(l, t)')
           /\ b \in Labels /\ StackOK(t, b, stack[t])
<1>1. Balance(l, pc[t], stack[t], held[l][t] - Extra(l, t)) /\ stack[t] \in Seq(Labels)
    BY DEF ControlInv
<1>2. held'[l][t] - Extra(l, t)' = held[l][t] - Extra(l, t) + Own(l, b) - Own(l, pc[t])
    BY DEF HeldTo
<1>3. Balance(l, b, stack[t], held[l][t] - Extra(l, t) + Own(l, b) - Own(l, pc[t]))
    BY <1>1, BalanceGoto
<1>4. b \in Labels /\ StackOK(t, b, stack[t])
    BY StackGoto, LabelFacts DEF SameKind, Kin, ControlInv
<1> QED BY <1>2, <1>3, <1>4, Zenon

\* Going on in a function keeps control in order.
LEMMA GotoControl ==
    ASSUME ControlInv, NEW t \in Threads, NEW b, Goto(t, b), SameKind(t, b), HeldTo(t, b),
           LockedTo(t, b)
    PROVE  /\ ControlInv' /\ Place' = Moved(t, b)
           /\ pc' = [pc EXCEPT ![t] = b] /\ stack' = stack
<1> DEFINE s == stack[t]
<1>1. pc' = [pc EXCEPT ![t] = b] /\ stack' = stack /\ stack \in [Threads -> Seq(Labels)]
    BY DEF Goto, ControlInv
<1>2. s \in Seq(Labels) /\ stack' = [stack EXCEPT ![t] = s]
    BY <1>1
<1>3. \A l \in Locks : Balance(l, b, s, held'[l][t] - Extra(l, t)')
    BY HeldFacts
<1>4. b \in Labels /\ StackOK(t, b, s)
    BY HeldFacts DEF Locks
<1>5. Place' = Moved(t, b) /\ LockedKept(t)
    BY <1>1, <1>2, PlaceStep
<1>6. ControlInv'
    BY <1>1, <1>2, <1>3, <1>4, <1>5, ControlStep DEF HeldTo
<1> QED BY <1>1, <1>5, <1>6

\* Up to three functions are called one after the other, the last of which returns to b.
LEMMA Call2Control ==
    ASSUME ControlInv, NEW t \in Threads, NEW b \in Returns, NEW a, MayCall(t, a, stack[t]),
           Call(t, <<a, b>>), Owns(a) = {},
           SameKind(t, b), HeldTo(t, b), LockedTo(t, b)
    PROVE  /\ ControlInv' /\ Place' = Moved(t, b)
           /\ pc' = [pc EXCEPT ![t] = a] /\ stack' = [stack EXCEPT ![t] = Push(@, b)]
<1> DEFINE s == stack[t]
           z == Push(s, b)
<1>1. s \in Seq(Labels) /\ a \in Labels
    BY LabelFacts DEF ControlInv, MayCall
<1>2. /\ b \in Labels /\ StackOK(t, b, s)
      /\ \A l \in Locks : Balance(l, b, s, held'[l][t] - Extra(l, t)')
    BY HeldFacts DEF Locks
<1>3. pc' = [pc EXCEPT ![t] = a] /\ stack' = [stack EXCEPT ![t] = Push(@, b)]
    <2>1. Head(<<a, b>>) = a /\ Tail(<<a, b>>) = <<b>>
        OBVIOUS
    <2> QED BY <2>1, Zenon DEF Call, Push
<1>4. stack' = [stack EXCEPT ![t] = z]
    BY <1>3
<1>5. StackOK(t, a, z) /\ Base(a, z) = Base(b, s) /\ z \in Seq(Labels)
    BY <1>1, <1>2, StackCall DEF MayCall
<1>6. \A l \in Locks : Balance(l, a, z, held'[l][t] - Extra(l, t)')
    BY <1>1, <1>2, BalanceCall
<1> HIDE DEF z
<1>7. Place' = Moved(t, b) /\ LockedKept(t)
    BY <1>3, <1>4, <1>5, PlaceStep
<1>8. ControlInv'
    BY <1>1, <1>3, <1>4, <1>5, <1>6, <1>7, ControlStep DEF HeldTo
<1> QED BY <1>3, <1>7, <1>8

\* A call of two functions, one after the other.
LEMMA Call3Control ==
    ASSUME ControlInv, NEW t \in Threads, NEW b \in Returns, NEW a \in Deep, NEW c \in Returns,
           MayCall(t, c, stack[t]), Call(t, <<a, c, b>>), Owns(a) = {}, Owns(c) = {},
           SameKind(t, b), HeldTo(t, b), LockedTo(t, b)
    PROVE  /\ ControlInv' /\ Place' = Moved(t, b)
           /\ pc' = [pc EXCEPT ![t] = a] /\ stack' = [stack EXCEPT ![t] = Push(Push(@, b), c)]
<1> DEFINE s == stack[t]
           y == Push(s, b)
           z == Push(y, c)
<1>1. s \in Seq(Labels) /\ a \in Labels /\ c \in Labels
    BY LabelFacts DEF ControlInv, MayCall
<1>2. /\ b \in Labels /\ StackOK(t, b, s)
      /\ \A l \in Locks : Balance(l, b, s, held'[l][t] - Extra(l, t)')
    BY HeldFacts DEF Locks
<1>3. StackOK(t, c, y) /\ Base(c, y) = Base(b, s) /\ y \in Seq(Labels)
    BY <1>1, <1>2, StackCall
<1>4. \A l \in Locks : Balance(l, c, y, held'[l][t] - Extra(l, t)')
    BY <1>1, <1>2, BalanceCall
<1>5. pc' = [pc EXCEPT ![t] = a] /\ stack' = [stack EXCEPT ![t] = z]
    <2>1. Head(<<a, c, b>>) = a /\ Tail(<<a, c, b>>) = <<c, b>> /\ <<c, b>> = <<c>> \o <<b>>
        OBVIOUS
    <2>2. <<c>> \in Seq(Labels) /\ <<b>> \in Seq(Labels)
        BY <1>1, <1>2
    <2>3. <<c, b>> \o s = <<c>> \o (<<b>> \o s)
        BY <2>1, <2>2, <1>1, ConcatAssociative
    <2>4. stack' = [stack EXCEPT ![t] = <<c, b>> \o @] /\ pc' = [pc EXCEPT ![t] = a]
        BY <2>1, Zenon DEF Call
    <2> QED BY <2>3, <2>4, Zenon DEF Push
<1> HIDE DEF y
<1>6. StackOK(t, a, z) /\ Base(a, z) = Base(b, s) /\ z \in Seq(Labels)
    <2>1. MayCall(t, a, y)
        BY DEF MayCall
    <2> QED BY <2>1, <1>1, <1>3, StackCall
<1>7. \A l \in Locks : Balance(l, a, z, held'[l][t] - Extra(l, t)')
    BY <1>1, <1>3, <1>4, BalanceCall
<1>8. pc' = [pc EXCEPT ![t] = a] /\ stack' = [stack EXCEPT ![t] = Push(Push(@, b), c)]
    BY <1>5, Zenon DEF y
<1> HIDE DEF z
<1>9. Place' = Moved(t, b) /\ LockedKept(t)
    BY <1>5, <1>6, PlaceStep
<1>10. ControlInv'
    BY <1>1, <1>5, <1>6, <1>7, <1>9, ControlStep DEF HeldTo
<1> QED BY <1>8, <1>9, <1>10

\* A call of three functions, one after the other.
LEMMA Call4Control ==
    ASSUME ControlInv, NEW t \in Threads, NEW b \in Returns, NEW a \in Deep,
           NEW c \in Deep \cap Returns, NEW d \in Deep \cap Returns,
           Call(t, <<a, d, c, b>>), Owns(a) = {}, Owns(c) = {}, Owns(d) = {},
           SameKind(t, b), HeldTo(t, b), LockedTo(t, b)
    PROVE  /\ ControlInv' /\ Place' = Moved(t, b)
           /\ pc' = [pc EXCEPT ![t] = a]
           /\ stack' = [stack EXCEPT ![t] = Push(Push(Push(@, b), c), d)]
<1> DEFINE s == stack[t]
           x == Push(s, b)
           y == Push(x, c)
           z == Push(y, d)
<1>1. s \in Seq(Labels) /\ a \in Labels /\ c \in Labels /\ d \in Labels
    BY LabelFacts DEF ControlInv, MayCall
<1>2. /\ b \in Labels /\ StackOK(t, b, s)
      /\ \A l \in Locks : Balance(l, b, s, held'[l][t] - Extra(l, t)')
    BY HeldFacts DEF Locks
<1>3. StackOK(t, c, x) /\ Base(c, x) = Base(b, s) /\ x \in Seq(Labels)
    <2>1. MayCall(t, c, s)
        BY DEF MayCall
    <2> QED BY <2>1, <1>1, <1>2, StackCall
<1>4. \A l \in Locks : Balance(l, c, x, held'[l][t] - Extra(l, t)')
    BY <1>1, <1>2, BalanceCall
<1>5. pc' = [pc EXCEPT ![t] = a] /\ stack' = [stack EXCEPT ![t] = z]
    <2>1. /\ Head(<<a, d, c, b>>) = a /\ Tail(<<a, d, c, b>>) = <<d, c, b>>
          /\ <<d, c, b>> = <<d>> \o <<c, b>> /\ <<c, b>> = <<c>> \o <<b>>
        OBVIOUS
    <2>2. <<d>> \in Seq(Labels) /\ <<c>> \in Seq(Labels) /\ <<b>> \in Seq(Labels)
          /\ <<c, b>> \in Seq(Labels)
        BY <1>1, <1>2
    <2>3. <<c, b>> \o s = <<c>> \o (<<b>> \o s)
        <3>1. (<<c>> \o <<b>>) \o s = <<c>> \o (<<b>> \o s)
            BY <2>2, <1>1, ConcatAssociative
        <3> QED BY <3>1, <2>1, Zenon
    <2>4. <<d, c, b>> \o s = <<d>> \o (<<c, b>> \o s)
        <3>1. (<<d>> \o <<c, b>>) \o s = <<d>> \o (<<c, b>> \o s)
            BY <2>2, <1>1, ConcatAssociative
        <3> QED BY <3>1, <2>1, Zenon
    <2>5. stack' = [stack EXCEPT ![t] = <<d, c, b>> \o @] /\ pc' = [pc EXCEPT ![t] = a]
        BY <2>1, Zenon DEF Call
    <2>6. <<d, c, b>> \o s = z
        BY <2>3, <2>4, Zenon DEF Push
    <2> QED BY <2>5, <2>6, Zenon
<1> HIDE DEF x
<1>6. StackOK(t, d, y) /\ Base(d, y) = Base(b, s) /\ y \in Seq(Labels)
    <2>1. MayCall(t, d, x)
        BY DEF MayCall
    <2> QED BY <2>1, <1>1, <1>3, StackCall
<1>7. \A l \in Locks : Balance(l, d, y, held'[l][t] - Extra(l, t)')
    BY <1>1, <1>3, <1>4, BalanceCall
<1>8. pc' = [pc EXCEPT ![t] = a] /\ stack' = [stack EXCEPT ![t] = Push(Push(Push(@, b), c), d)]
    BY <1>5, Zenon DEF x
<1> HIDE DEF y
<1>9. StackOK(t, a, z) /\ Base(a, z) = Base(b, s) /\ z \in Seq(Labels)
    <2>1. MayCall(t, a, y)
        BY DEF MayCall
    <2> QED BY <2>1, <1>1, <1>6, StackCall
<1>10. \A l \in Locks : Balance(l, a, z, held'[l][t] - Extra(l, t)')
    BY <1>1, <1>6, <1>7, BalanceCall
<1> HIDE DEF z
<1>11. Place' = Moved(t, b) /\ LockedKept(t)
    BY <1>5, <1>9, PlaceStep
<1>12. ControlInv'
    BY <1>1, <1>5, <1>9, <1>10, <1>11, ControlStep DEF HeldTo
<1> QED BY <1>8, <1>11, <1>12

\* A function returns without locks.
LEMMA ReturnControl ==
    ASSUME ControlInv, NEW t \in Threads, pc[t] \in Inner(t), Return(t), HeldTo(t, "free"),
           idle.locked' = idle.locked
    PROVE  /\ ControlInv' /\ Place' = Place
           /\ pc' = [pc EXCEPT ![t] = Head(stack[t])]
           /\ stack' = [stack EXCEPT ![t] = Tail(stack[t])]
           /\ stack[t] # <<>> /\ pc'[t] \in Returns
<1> DEFINE s == stack[t]
           a == Head(s)
           z == Tail(s)
<1>1. s \in Seq(Labels) /\ StackOK(t, pc[t], s)
    BY DEF ControlInv
<1>2. /\ s # <<>> /\ StackOK(t, a, z) /\ Base(a, z) = Base(pc[t], s)
      /\ z \in Seq(Labels) /\ a \in Returns
    BY <1>1, StackReturn
<1>3. a \in Labels
    BY <1>1, <1>2, PopFacts
<1>4. ASSUME NEW l \in Locks
      PROVE  Balance(l, a, z, held'[l][t] - Extra(l, t)')
    <2>1. Balance(l, pc[t], s, held[l][t] - Extra(l, t))
        BY DEF ControlInv
    <2>2. Balance(l, a, z, held[l][t] - Extra(l, t) - Own(l, pc[t]))
        BY <2>1, <1>1, <1>2, BalanceReturn
    <2>3. Balance(l, pc[t], s, held[l][t] - Extra(l, t)) => held[l][t] - Extra(l, t) \in Nat
        BY <1>1, BalanceGoto
    <2>4. Own(l, "free") = 0 /\ Own(l, pc[t]) \in {0, 1}
        BY DEF Own, Owns
    <2>5. held'[l][t] - Extra(l, t)' = held[l][t] - Extra(l, t) + Own(l, "free") - Own(l, pc[t])
        BY DEF HeldTo
    <2>6. held'[l][t] - Extra(l, t)' = held[l][t] - Extra(l, t) - Own(l, pc[t])
        BY <2>1, <2>3, <2>4, <2>5
    <2> QED BY <2>2, <2>6, Zenon
<1>5. pc' = [pc EXCEPT ![t] = a] /\ stack' = [stack EXCEPT ![t] = z]
    BY DEF Return
<1>6. LockedTo(t, pc[t]) /\ Moved(t, pc[t]) = Place
    BY DEF LockedTo, Moved, Place, ControlInv
<1> HIDE DEF a, z
<1>7. Place' = Place /\ LockedKept(t)
    BY <1>2, <1>5, <1>6, PlaceStep
<1>8. ControlInv'
    BY <1>1, <1>2, <1>3, <1>4, <1>5, <1>7, ControlStep DEF HeldTo
<1>9. pc'[t] \in Returns
    BY <1>2, <1>5 DEF ControlInv
<1> QED BY <1>2, <1>5, <1>7, <1>8, <1>9 DEF a, z

-----------------------------------------------------------------------------
\* The steps of the functions.

\* A thread in a function: only the idle thread has a place, and it stays there.
LEMMA InFunction ==
    ASSUME ControlInv, NEW t \in Threads, pc[t] \in Deep \cup StartLabels
    PROVE  /\ pc[t] \in Inner(t) /\ stack[t] # <<>> /\ pc[t] \notin Bottom(t)
           /\ pc[t] \in StartLabels => t # Idler /\ pc[t] \in Starts(t)
           /\ idle.locked' = idle.locked => \A b : LockedTo(t, b) /\ Moved(t, b) = Place
<1>1. StackOK(t, pc[t], stack[t]) /\ idle.locked \in BOOLEAN /\ (idle.locked => Place \in TryLabels)
    BY DEF ControlInv
<1>2. pc[t] \notin {"free"} /\ pc[t] \notin IdlerLabels
    BY DEF Deep, StartLabels, CallerLabels, IdlerLabels
<1>3. pc[t] \notin Bottom(t)
    BY <1>2 DEF Bottom
<1>4. pc[t] \in Inner(t) /\ stack[t] # <<>>
    BY <1>1, <1>3 DEF StackOK
<1>5. pc[t] \in StartLabels => t # Idler /\ pc[t] \in Starts(t)
    BY <1>4 DEF Inner, Starts, Deep
<1>6. \A b : Moved(t, b) = Place
    BY <1>4 DEF Moved, Base, Place
<1> QED BY <1>1, <1>3, <1>4, <1>5, <1>6 DEF LockedTo

\* The thread goes on in the same function.
LEMMA FunctionGoto ==
    ASSUME ControlInv, NEW t \in Threads, NEW b, Goto(t, b), HeldTo(t, b),
           idle.locked' = idle.locked,
           \/ pc[t] \in Deep /\ b \in Deep
           \/ pc[t] \in StartLabels /\ b \in StartLabels
    PROVE  ControlInv' /\ Place' = Place
<1>1. LockedTo(t, b) /\ Moved(t, b) = Place
    BY InFunction
<1>2. SameKind(t, b)
    BY InFunction DEF SameKind, Kin, Starts
<1> QED BY <1>1, <1>2, GotoControl

\* It calls others and returns to b.
LEMMA FunctionCall2 ==
    ASSUME ControlInv, NEW t \in Threads, NEW b \in Returns, NEW a \in Deep, Call(t, <<a, b>>),
           Owns(a) = {}, HeldTo(t, b), idle.locked' = idle.locked,
           \/ pc[t] \in Deep /\ b \in Deep
           \/ pc[t] \in StartLabels /\ b \in StartLabels
    PROVE  ControlInv' /\ Place' = Place
<1>1. LockedTo(t, b) /\ Moved(t, b) = Place
    BY InFunction
<1>2. SameKind(t, b)
    BY InFunction DEF SameKind, Kin, Starts
<1>3. MayCall(t, a, stack[t])
    BY DEF MayCall
<1> QED BY <1>1, <1>2, <1>3, Call2Control

\* It calls two functions.
LEMMA FunctionCall3 ==
    ASSUME ControlInv, NEW t \in Threads, NEW b \in Deep \cap Returns, NEW a \in Deep,
           NEW c \in Deep \cap Returns, Call(t, <<a, c, b>>), Owns(a) = {}, Owns(c) = {},
           HeldTo(t, b), idle.locked' = idle.locked, pc[t] \in Deep
    PROVE  ControlInv' /\ Place' = Place
<1>1. LockedTo(t, b) /\ Moved(t, b) = Place
    BY InFunction
<1>2. SameKind(t, b)
    BY DEF SameKind, Kin
<1>3. MayCall(t, c, stack[t])
    BY DEF MayCall
<1> QED BY <1>1, <1>2, <1>3, Call3Control

\* It calls three functions.
LEMMA FunctionCall4 ==
    ASSUME ControlInv, NEW t \in Threads, NEW b \in Deep \cap Returns, NEW a \in Deep,
           NEW c \in Deep \cap Returns, NEW d \in Deep \cap Returns, Call(t, <<a, d, c, b>>),
           Owns(a) = {}, Owns(c) = {}, Owns(d) = {},
           HeldTo(t, b), idle.locked' = idle.locked, pc[t] \in Deep
    PROVE  ControlInv' /\ Place' = Place
<1>1. LockedTo(t, b) /\ Moved(t, b) = Place
    BY InFunction
<1>2. SameKind(t, b)
    BY DEF SameKind, Kin
<1> QED BY <1>1, <1>2, Call4Control

\* It returns.
LEMMA FunctionReturn ==
    ASSUME ControlInv, NEW t \in Threads, pc[t] \in Deep \cup StartLabels, Return(t),
           HeldTo(t, "free"), idle.locked' = idle.locked
    PROVE  ControlInv' /\ Place' = Place
BY InFunction, ReturnControl

\* Stopping IDLE.
LEMMA StopControl ==
    ASSUME ControlInv, NEW t \in Threads, StopStep(t)
    PROVE  ControlInv' /\ Place' = Place
<1> USE DEF Deep, StartLabels, CallerLabels, Owns, Locks, Returns
<1>1. CASE StoreStop(t)
    <2>1. CASE current_folder
        <3>1. HeldTo(t, "stop")
            BY <1>1, <2>1, HeldSame DEF StoreStop
        <3> QED BY <1>1, <2>1, <3>1, FunctionGoto DEF StoreStop
    <2>2. CASE ~current_folder
        <3>1. HeldTo(t, "store_stop_prefix")
            BY <1>1, <2>2, HeldLock DEF StoreStop
        <3> QED BY <1>1, <2>2, <3>1, FunctionGoto DEF StoreStop
    <2> QED BY <2>1, <2>2
<1>2. CASE StoreStopPrefix(t)
    <2>1. HeldTo(t, "store_stop_done")
        BY <1>2, HeldLock DEF StoreStopPrefix
    <2> QED BY <1>2, <2>1, FunctionGoto DEF StoreStopPrefix
<1>3. CASE StoreStopDone(t)
    <2>1. HeldTo(t, "free")
        BY <1>3, HeldUnlockAll DEF StoreStopDone
    <2> QED BY <1>3, <2>1, FunctionReturn DEF StoreStopDone
<1>4. CASE Stop(t)
    <2>1. HeldTo(t, "stop_t") /\ HeldTo(t, "free")
        BY <1>4, HeldSame DEF Stop
    <2> QED BY <1>4, <2>1, FunctionGoto, FunctionReturn DEF Stop
<1>5. CASE StopT(t)
    <2>1. HeldTo(t, "stop_join") /\ HeldTo(t, "stop_end")
        BY <1>5, HeldLock DEF StopT
    <2> QED BY <1>5, <2>1, FunctionGoto DEF StopT
<1>6. CASE StopJoin(t)
    <2>1. idle.locked' = idle.locked
        BY <1>6 DEF StopJoin, Join
    <2>2. HeldTo(t, "stop_idle")
        BY <1>6, <2>1, HeldSame DEF StopJoin
    <2> QED BY <1>6, <2>1, <2>2, FunctionGoto DEF StopJoin, Join
<1>7. CASE StopIdleLock(t)
    <2>1. HeldTo(t, "stop_prefix")
        BY <1>7, HeldLock DEF StopIdleLock
    <2> QED BY <1>7, <2>1, FunctionGoto DEF StopIdleLock
<1>8. CASE StopPrefix(t)
    <2>1. HeldTo(t, "stop_end")
        BY <1>8, HeldUnlock DEF StopPrefix
    <2> QED BY <1>8, <2>1, FunctionGoto, FunctionCall2 DEF StopPrefix
<1>9. CASE StopEnd(t)
    <2>1. HeldTo(t, "free")
        BY <1>9, HeldUnlock DEF StopEnd
    <2> QED BY <1>9, <2>1, FunctionReturn DEF StopEnd
<1> QED BY <1>1, <1>2, <1>3, <1>4, <1>5, <1>6, <1>7, <1>8, <1>9 DEF StopStep

\* A thread that returns to no function from its place is at it.
LEMMA AtPlace ==
    ASSUME ControlInv
    PROVE  /\ Place \in Bottom(Idler)
           /\ Place \notin Returns => stack[Idler] = <<>> /\ pc[Idler] = Place
           /\ pc[Idler] \in Bottom(Idler) => stack[Idler] = <<>> /\ Place = pc[Idler]
           /\ stack[Idler] = <<>> => Place = pc[Idler]
<1>1. stack[Idler] \in Seq(Labels) /\ StackOK(Idler, pc[Idler], stack[Idler])
    BY IdlerFacts DEF ControlInv
<1>2. stack[Idler] # <<>> => stack[Idler][Len(stack[Idler])] \in Returns
    <2>1. stack[Idler] # <<>> => Len(stack[Idler]) \in 1 .. Len(stack[Idler])
        BY <1>1, EmptySeq
    <2> QED BY <2>1, <1>1 DEF StackOK
<1>3. pc[Idler] \in Bottom(Idler) => stack[Idler] = <<>>
    BY <1>1, LabelFacts DEF StackOK
<1> QED BY <1>1, <1>2, <1>3 DEF Place, Base, StackOK

\* The creation of the idle thread.
LEMMA CreateControl ==
    ASSUME ControlInv, NEW t \in Threads, StartNew(t), ~in_idle, Place = "dead"
    PROVE  ControlInv' /\ Place' = "new"
<1> USE DEF ControlInv
<1>1. /\ pc[t] = "start_new" /\ idle' = NewThread /\ UNCHANGED <<stack, held>>
      /\ pc' = [pc EXCEPT ![t] = "start_wait", ![Idler] = "new"]
    BY DEF StartNew
<1>2. t # Idler /\ stack[t] # <<>> /\ pc[t] \in Starts(t)
    BY <1>1, InFunction DEF StartLabels
<1>3. stack[Idler] = <<>> /\ pc[Idler] = "dead"
    BY AtPlace DEF Returns
<1>4. /\ pc'[t] = "start_wait" /\ pc'[Idler] = "new"
      /\ \A u \in Threads : u # t /\ u # Idler => pc'[u] = pc[u]
      /\ pc' \in [Threads -> Labels]
    BY <1>1, <1>2, IdlerFacts DEF Labels, CallerLabels, IdlerLabels
<1>5. \A u \in Threads : StackOK(u, pc'[u], stack'[u])
    <2> TAKE u \in Threads
    <2>1. CASE u = t
        <3>1. Kin(t, pc[t], "start_wait")
            BY <1>2 DEF Kin, Starts, StartLabels
        <3>2. StackOK(t, "start_wait", stack[t])
            BY <3>1, StackGoto
        <3> QED BY <3>2, <2>1, <1>1, <1>4
    <2>2. CASE u = Idler
        BY <2>2, <1>1, <1>3, <1>4 DEF StackOK, Bottom, IdlerLabels
    <2>3. CASE u # t /\ u # Idler
        BY <2>3, <1>1, <1>4
    <2> QED BY <2>1, <2>2, <2>3
<1>6. ~idle.locked /\ ~idle.locked' /\ idle.locked' \in BOOLEAN
    BY <1>1 DEF TryLabels, NewThread
<1>7. ASSUME NEW l \in Locks, NEW u \in Threads
      PROVE  Balance(l, pc'[u], stack'[u], held'[l][u] - Extra(l, u)')
    <2>1. Extra(l, u)' = Extra(l, u)
        BY <1>6 DEF Extra
    <2>2. Balance(l, pc[u], stack[u], held[l][u] - Extra(l, u))
        OBVIOUS
    <2>3. Own(l, pc'[u]) = Own(l, pc[u])
        <3>1. CASE u = t
            BY <3>1, <1>1, <1>4 DEF Own, Owns
        <3>2. CASE u = Idler
            BY <3>2, <1>3, <1>4 DEF Own, Owns
        <3>3. CASE u # t /\ u # Idler
            BY <3>3, <1>4
        <3> QED BY <3>1, <3>2, <3>3
    <2>4. Balance(l, pc'[u], stack[u], held[l][u] - Extra(l, u))
        BY <2>2, <2>3 DEF Balance
    <2> QED BY <2>1, <2>4, <1>1
<1>8. Place' = "new"
    BY <1>1, <1>3, <1>4 DEF Place, Base
<1>9. /\ pc' \in [Threads -> Labels] /\ stack' \in [Threads -> Seq(Labels)]
      /\ held' \in [Locks -> [Threads -> Nat]]
    BY <1>1, <1>4 DEF Labels, IdlerLabels, CallerLabels
<1>10. \A l \in Locks : \A u, v \in Threads : u # v => held'[l][u] = 0 \/ held'[l][v] = 0
    BY <1>1
<1>11. \A u \in Threads : StackOK(u, pc'[u], stack'[u])
    BY <1>5, Zenon
<1>12. idle.locked' => Place' \in TryLabels
    BY <1>6
<1> QED BY <1>6, <1>7, <1>8, <1>9, <1>10, <1>11, <1>12, Zenon DEF ControlInv

\* Starting IDLE, where no second idle thread is created.
LEMMA StartControl ==
    ASSUME ControlInv, NEW t \in Threads, StartStep(t),
           pc[t] = "start_new" => in_idle \/ Place = "dead"
    PROVE  ControlInv' /\ Place' = IF StartNew(t) /\ ~in_idle THEN "new" ELSE Place
<1> USE DEF Deep, StartLabels, CallerLabels, Owns, Locks, Returns
<1>1. CASE Start(t)
    <2>1. HeldTo(t, "start_idle") /\ HeldTo(t, "free")
        BY <1>1, HeldSame DEF Start
    <2>2. ~StartNew(t)
        BY <1>1 DEF Start, StartNew
    <2> QED BY <1>1, <2>1, <2>2, FunctionGoto, FunctionReturn DEF Start
<1>2. CASE StartIdleLock(t)
    <2>1. HeldTo(t, "start_prefix")
        BY <1>2, HeldLock DEF StartIdleLock
    <2>2. ~StartNew(t)
        BY <1>2 DEF StartIdleLock, StartNew
    <2> QED BY <1>2, <2>1, <2>2, FunctionGoto DEF StartIdleLock
<1>3. CASE StartPrefix(t)
    <2>1. current_folder /\ ~idle_prefix => HeldTo(t, "start_t")
        <3>1. current_folder /\ ~idle_prefix => Lock("prefix", t)
            BY <1>3 DEF StartPrefix, Lock
        <3>2. pc[t] = "start_prefix" /\ idle' = idle
            BY <1>3 DEF StartPrefix
        <3> QED BY <3>1, <3>2, HeldLock
    <2>2. ~(current_folder /\ ~idle_prefix) => HeldTo(t, "free")
        BY <1>3, HeldUnlock DEF StartPrefix
    <2>3. ~StartNew(t)
        BY <1>3 DEF StartPrefix, StartNew
    <2> QED BY <1>3, <2>1, <2>2, <2>3, FunctionGoto, FunctionReturn DEF StartPrefix
<1>4. CASE StartT(t)
    <2>1. HeldTo(t, "start_join") /\ HeldTo(t, "start_new")
        BY <1>4, HeldLock DEF StartT
    <2>2. ~StartNew(t)
        BY <1>4 DEF StartT, StartNew
    <2> QED BY <1>4, <2>1, <2>2, FunctionGoto DEF StartT
<1>5. CASE StartJoin(t)
    <2>1. idle.locked' = idle.locked
        BY <1>5 DEF StartJoin
    <2>2. HeldTo(t, "start_new")
        BY <1>5, <2>1, HeldSame DEF StartJoin
    <2>3. ~StartNew(t)
        BY <1>5 DEF StartJoin, StartNew
    <2> QED BY <1>5, <2>1, <2>2, <2>3, FunctionGoto, FunctionCall2 DEF StartJoin
<1>6. CASE StartNew(t) /\ in_idle
    <2>1. HeldTo(t, "free")
        BY <1>6, HeldUnlockAll DEF StartNew, StartLocks
    <2> QED BY <1>6, <2>1, FunctionReturn DEF StartNew
<1>7. CASE StartNew(t) /\ ~in_idle
    BY <1>7, CreateControl DEF StartNew
<1>8. CASE StartWait(t)
    <2>1. HeldTo(t, "free")
        BY <1>8, HeldUnlockAll DEF StartWait, StartLocks
    <2>2. ~StartNew(t)
        BY <1>8 DEF StartWait, StartNew
    <2> QED BY <1>8, <2>1, <2>2, FunctionReturn DEF StartWait
<1> QED BY <1>1, <1>2, <1>3, <1>4, <1>5, <1>6, <1>7, <1>8 DEF StartStep

\* Commands.
LEMMA CmdControl ==
    ASSUME ControlInv, NEW t \in Threads, CmdStep(t)
    PROVE  ControlInv' /\ Place' = Place
<1> USE DEF Deep, StartLabels, CallerLabels, Owns, Locks, Returns
<1>1. CASE CmdLock(t)
    <2>1. HeldTo(t, "cmd_open")
        BY <1>1, HeldLock DEF CmdLock
    <2> QED BY <1>1, <2>1, FunctionGoto DEF CmdLock
<1>2. CASE CmdOpen(t)
    <2>1. HeldTo(t, "cmd_write") /\ HeldTo(t, "cmd_end") /\ HeldTo(t, "cmd_again")
        BY <1>2, HeldSame DEF CmdOpen
    <2> QED BY <1>2, <2>1, FunctionGoto, FunctionCall2 DEF CmdOpen
<1>3. CASE CmdAgain(t)
    <2>1. HeldTo(t, "cmd_open")
        BY <1>3, HeldSame DEF CmdAgain
    <2> QED BY <1>3, <2>1, FunctionGoto DEF CmdAgain
<1>4. CASE CmdWrite(t)
    <2>1. HeldTo(t, "cmd_read") /\ HeldTo(t, "cmd_end")
        BY <1>4, HeldSame DEF CmdWrite
    <2> QED BY <1>4, <2>1, FunctionGoto DEF CmdWrite
<1>5. CASE CmdRead(t)
    <2>1. HeldTo(t, "cmd_end")
        BY <1>5, HeldSame DEF CmdRead
    <2> QED BY <1>5, <2>1, FunctionGoto, FunctionCall2, FunctionCall3 DEF CmdRead
<1>6. CASE CmdEnd(t)
    <2>1. HeldTo(t, "free")
        BY <1>6, HeldUnlock DEF CmdEnd
    <2> QED BY <1>6, <2>1, FunctionReturn DEF CmdEnd
<1>7. CASE Process(t)
    <2>1. HeldTo(t, "fetched") /\ HeldTo(t, "free")
        BY <1>7, HeldSame DEF Process
    <2> QED BY <1>7, <2>1, FunctionCall2, FunctionReturn DEF Process
<1>8. CASE Fetched(t)
    <2>1. HeldTo(t, "free")
        BY <1>8, HeldSame DEF Fetched
    <2> QED BY <1>8, <2>1, FunctionReturn DEF Fetched
<1> QED BY <1>1, <1>2, <1>3, <1>4, <1>5, <1>6, <1>7, <1>8 DEF CmdStep

\* Disconnecting.
LEMMA DownControl ==
    ASSUME ControlInv, NEW t \in Threads, DownStep(t)
    PROVE  ControlInv' /\ Place' = Place
<1> USE DEF Deep, StartLabels, CallerLabels, Owns, Locks, Returns
<1>1. CASE Die(t)
    <2>1. HeldTo(t, "die_prefix")
        BY <1>1, HeldLock DEF Die
    <2> QED BY <1>1, <2>1, FunctionGoto DEF Die
<1>2. CASE DiePrefix(t)
    <2>1. HeldTo(t, "free")
        BY <1>2, HeldUnlock DEF DiePrefix
    <2> QED BY <1>2, <2>1, FunctionReturn DEF DiePrefix
<1>3. CASE Down(t)
    <2>1. HeldTo(t, "cmd_end")
        BY <1>3, HeldLock DEF Down
    <2> QED BY <1>3, <2>1, FunctionGoto, FunctionCall4 DEF Down
<1>4. CASE DownClose(t)
    <2>1. HeldTo(t, "free")
        BY <1>4, HeldSame DEF DownClose
    <2> QED BY <1>4, <2>1, FunctionReturn DEF DownClose
<1> QED BY <1>1, <1>2, <1>3, <1>4 DEF DownStep

-----------------------------------------------------------------------------
\* The steps of the idle thread in its own function, which holds no lock there but
\* the one it tries.

\* The idle thread holds no lock but what it has tried.
LEMMA IdlerOwns == \A a \in IdlerLabels : Owns(a) = {}
BY DEF IdlerLabels, Owns

\* It goes on.
LEMMA IdleGoto ==
    ASSUME ControlInv, pc[Idler] \in IdlerLabels, NEW b \in IdlerLabels, Goto(Idler, b),
           HeldTo(Idler, b), idle.locked' \in BOOLEAN, idle.locked' => b \in TryLabels
    PROVE  ControlInv' /\ Place' = b /\ pc'[Idler] = b /\ stack'[Idler] = <<>>
<1>1. stack[Idler] = <<>>
    BY AtPlace DEF Bottom
<1>2. Moved(Idler, b) = b
    BY <1>1 DEF Moved, Base
<1>3. LockedTo(Idler, b)
    BY <1>2 DEF LockedTo
<1>4. SameKind(Idler, b)
    BY DEF SameKind, Kin, Bottom
<1>5. ControlInv' /\ Place' = b /\ pc' = [pc EXCEPT ![Idler] = b] /\ stack' = stack
    BY <1>2, <1>3, <1>4, IdlerFacts, GotoControl
<1>6. pc'[Idler] = b
    BY <1>5, IdlerFacts DEF ControlInv
<1> QED BY <1>1, <1>5, <1>6

\* It calls a function and returns to b.
LEMMA IdleCall ==
    ASSUME ControlInv, pc[Idler] \in IdlerLabels, NEW b \in IdlerLabels \cap Returns,
           NEW a \in Deep, Owns(a) = {}, HeldTo(Idler, b), idle.locked' \in BOOLEAN,
           idle.locked' => b \in TryLabels,
           \/ Call(Idler, <<a, b>>)
           \/ \E c, d \in Deep \cap Returns : /\ Call(Idler, <<a, d, c, b>>)
                                             /\ Owns(c) = {} /\ Owns(d) = {}
    PROVE  ControlInv' /\ Place' = b /\ pc'[Idler] = a
<1>1. stack[Idler] = <<>>
    BY AtPlace DEF Bottom
<1>2. Moved(Idler, b) = b
    BY <1>1 DEF Moved, Base
<1>3. LockedTo(Idler, b)
    BY <1>2 DEF LockedTo
<1>4. SameKind(Idler, b)
    BY DEF SameKind, Kin, Bottom
<1>5. ControlInv' /\ Place' = b /\ pc' = [pc EXCEPT ![Idler] = a]
    <2>1. CASE Call(Idler, <<a, b>>)
        <3>1. MayCall(Idler, a, stack[Idler])
            BY DEF MayCall
        <3> QED BY <3>1, <2>1, <1>2, <1>3, <1>4, IdlerFacts, Call2Control
    <2>2. CASE \E c, d \in Deep \cap Returns : /\ Call(Idler, <<a, d, c, b>>)
                                              /\ Owns(c) = {} /\ Owns(d) = {}
        BY <2>2, <1>2, <1>3, <1>4, IdlerFacts, Call4Control
    <2> QED BY <2>1, <2>2
<1>6. pc'[Idler] = a
    BY <1>5, IdlerFacts DEF ControlInv
<1> QED BY <1>5, <1>6

\* The lock that is tried.
LEMMA TryFacts ==
    ASSUME ControlInv, pc[Idler] \in IdlerLabels, pc[Idler] \notin TryLabels, NEW b \in TryLabels,
           TryIdleLock(b)
    PROVE  HeldTo(Idler, b) /\ idle.locked' \in BOOLEAN
<1>1. ~idle.locked /\ held \in [Locks -> [Threads -> Nat]]
    BY AtPlace DEF ControlInv, Bottom
<1>2. idle.locked' = CanLock("idle", Idler) /\ idle.locked' \in BOOLEAN
    BY DEF TryIdleLock, CanLock
<1>3. \A l \in Locks : /\ Own(l, b) = 0 /\ Own(l, pc[Idler]) = 0 /\ Extra(l, Idler) = 0
                       /\ Extra(l, Idler)' = IF l = "idle" /\ CanLock("idle", Idler) THEN 1 ELSE 0
    BY <1>1, <1>2, IdlerOwns DEF Own, Extra, TryLabels, IdlerLabels
<1>4. /\ held' \in [Locks -> [Threads -> Int]]
      /\ \A l \in Locks : \A u \in Threads :
             held'[l][u] = IF l = "idle" /\ u = Idler /\ CanLock("idle", Idler)
                           THEN held[l][u] + 1 ELSE held[l][u]
    BY <1>1, IdlerFacts DEF TryIdleLock, Locked, Locks
<1>5. ASSUME NEW l \in Locks, NEW u \in Threads PROVE held[l][u] \in Nat
    BY <1>1
<1>6. ASSUME NEW l \in Locks
      PROVE  /\ held'[l][Idler] - Extra(l, Idler)'
                    = held[l][Idler] - Extra(l, Idler) + Own(l, b) - Own(l, pc[Idler])
             /\ held'[l][Idler] > held[l][Idler] => CanLock(l, Idler)
             /\ \A u \in Threads \ {Idler} : held'[l][u] = held[l][u]
    <2>1. held[l][Idler] \in Nat
        BY <1>5, IdlerFacts
    <2>2. held'[l][Idler] = held[l][Idler] + Extra(l, Idler)'
        BY <2>1, <1>3, <1>4, IdlerFacts
    <2>3. Extra(l, Idler)' \in {0, 1} /\ (Extra(l, Idler)' = 1 => CanLock(l, Idler))
        BY <1>3
    <2>4. \A u \in Threads \ {Idler} : held'[l][u] = held[l][u]
        BY <1>4
    <2>5. Extra(l, Idler) = 0 /\ Own(l, b) = 0 /\ Own(l, pc[Idler]) = 0
        BY <1>3
    <2> HIDE DEF CanLock, Extra, Own
    <2>6. held'[l][Idler] > held[l][Idler] => CanLock(l, Idler)
        BY <2>1, <2>2, <2>3
    <2>7. held'[l][Idler] - Extra(l, Idler)'
              = held[l][Idler] - Extra(l, Idler) + Own(l, b) - Own(l, pc[Idler])
        BY <2>1, <2>2, <2>3, <2>5
    <2> QED BY <2>4, <2>6, <2>7
<1> QED BY <1>2, <1>4, <1>6 DEF HeldTo

\* What the idle thread releases is what it took.
LEMMA ReleaseFacts ==
    ASSUME ControlInv, pc[Idler] \in IdlerLabels, NEW b \in IdlerLabels,
           held' = ReleaseIdle, idle.locked' = FALSE
    PROVE  HeldTo(Idler, b)
<1>1. held \in [Locks -> [Threads -> Nat]]
    BY DEF ControlInv
<1>2. \A l \in Locks : /\ Own(l, b) = 0 /\ Own(l, pc[Idler]) = 0 /\ Extra(l, Idler)' = 0
                       /\ Extra(l, Idler) = IF l = "idle" /\ idle.locked THEN 1 ELSE 0
    BY IdlerOwns DEF Own, Extra
<1>3. /\ held' \in [Locks -> [Threads -> Int]]
      /\ \A l \in Locks : \A u \in Threads :
             held'[l][u] = IF l = "idle" /\ u = Idler /\ idle.locked
                           THEN held[l][u] - 1 ELSE held[l][u]
    BY <1>1, IdlerFacts DEF ReleaseIdle, Unlocked, Locks
<1>4. ASSUME NEW l \in Locks, NEW u \in Threads PROVE held[l][u] \in Nat
    BY <1>1
<1>5. ASSUME NEW l \in Locks
      PROVE  /\ held'[l][Idler] - Extra(l, Idler)'
                    = held[l][Idler] - Extra(l, Idler) + Own(l, b) - Own(l, pc[Idler])
             /\ ~(held'[l][Idler] > held[l][Idler])
             /\ \A u \in Threads \ {Idler} : held'[l][u] = held[l][u]
    BY <1>2, <1>3, <1>4, IdlerFacts
<1> QED BY <1>3, <1>5 DEF HeldTo

\* Where the idle thread is after a step: at its label, or where it returns to.
IdlePlace ==
    IF pc'[Idler] \in IdlerLabels THEN pc'[Idler]
    ELSE IF pc[Idler] = "cont" THEN "clear" ELSE IF pc[Idler] = "after" THEN "next" ELSE "unlock"

\* The steps of the idle thread.
LEMMA IdleControl ==
    ASSUME ControlInv, idle \in [my_cont : BOOLEAN, first : BOOLEAN, had_cond : BOOLEAN,
                                 senddone : BOOLEAN, locked : BOOLEAN, retval : Responses],
           IdleStep
    PROVE  /\ ControlInv' /\ Place' = IdlePlace /\ pc[Idler] = Place /\ stack[Idler] = <<>>
           /\ pc'[Idler] \in IdlerLabels => stack'[Idler] = <<>>
<1> USE DEF IdlerLabels, TryLabels, Owns
<1>0. pc[Idler] \in IdlerLabels
    BY DEF IdleStep, New, Loop, Begin, IdleRealStart, Tell, Body, Cont, Clear, EndBody, WriteDONE,
           ReadDONE, Unlock, After, NextRound, Pause, End
<1>a. /\ pc[Idler] = Place /\ stack[Idler] = <<>>
      /\ pc[Idler] \notin TryLabels => idle.locked = FALSE
    BY <1>0, AtPlace DEF Bottom, ControlInv
<1>1. CASE New
    <2>1. idle.locked' = idle.locked
        BY <1>1 DEF New
    <2>2. HeldTo(Idler, "loop") /\ HeldTo(Idler, "dead")
        BY <1>1, <2>1, HeldSame, IdlerFacts DEF New
    <2> QED BY <1>1, <1>a, <2>1, <2>2, IdleGoto DEF New, IdlePlace
<1>2. CASE Loop
    <2>1. idle.locked' = idle.locked
        BY <1>2 DEF Loop
    <2>2. HeldTo(Idler, "end") /\ HeldTo(Idler, "begin") /\ HeldTo(Idler, "tell")
        BY <1>2, <2>1, HeldSame, IdlerFacts DEF Loop
    <2> QED BY <1>2, <1>a, <2>1, <2>2, IdleGoto DEF Loop, IdlePlace
<1>3. CASE Begin
    <2>1. CASE idle_kill
        <3>1. idle.locked' = idle.locked
            BY <1>3, <2>1 DEF Begin
        <3>2. HeldTo(Idler, "tell")
            BY <1>3, <2>1, <3>1, HeldSame, IdlerFacts DEF Begin
        <3> QED BY <1>3, <1>a, <2>1, <3>1, <3>2, IdleGoto DEF Begin, IdlePlace
    <2>2. CASE ~idle_kill
        <3>1. TryIdleLock("write_idle") /\ pc[Idler] = "begin"
            BY <1>3, <2>2 DEF Begin
        <3>2. HeldTo(Idler, "write_idle") /\ idle.locked' \in BOOLEAN
            BY <3>1, TryFacts
        <3> QED BY <1>a, <3>1, <3>2, IdleGoto DEF TryIdleLock, IdlePlace
    <2> QED BY <2>1, <2>2
<1>4. CASE IdleRealStart
    <2>1. idle.locked' = FALSE
        BY <1>4 DEF IdleRealStart
    <2>2. HeldTo(Idler, "tell")
        BY <1>4, <2>1, ReleaseFacts DEF IdleRealStart
    <2> QED BY <1>4, <1>a, <2>1, <2>2, IdleGoto DEF IdleRealStart, IdlePlace
<1>5. CASE Tell
    <2>1. idle.locked' = idle.locked
        BY <1>5 DEF Tell
    <2>2. HeldTo(Idler, "body")
        BY <1>5, <2>1, HeldSame, IdlerFacts DEF Tell
    <2> QED BY <1>5, <1>a, <2>1, <2>2, IdleGoto DEF Tell, IdlePlace
<1>6. CASE Body
    <2>1. HeldTo(Idler, "cont") /\ idle' = idle
        BY <1>6, HeldSame, IdlerFacts DEF Body
    <2> QED BY <1>6, <1>a, <2>1, IdleGoto DEF Body, IdlePlace
<1>7. CASE Cont
    <2>1. idle.locked' = idle.locked
        BY <1>7 DEF Cont
    <2>2. HeldTo(Idler, "clear") /\ HeldTo(Idler, "end_body")
        BY <1>7, <2>1, HeldSame, IdlerFacts DEF Cont
    <2>3. "process" \in Deep /\ "clear" \in Returns /\ "process" \notin IdlerLabels
        BY DEF Deep, CallerLabels, StartLabels, Returns
    <2>4. CASE Goto(Idler, "end_body")
        BY <1>7, <1>a, <2>1, <2>2, <2>4, IdleGoto DEF Cont, IdlePlace
    <2>5. CASE Call(Idler, <<"process", "clear">>)
        BY <1>7, <1>a, <2>1, <2>2, <2>3, <2>5, IdleCall DEF Cont, IdlePlace
    <2> QED BY <1>7, <2>4, <2>5 DEF Cont
<1>8. CASE Clear
    <2>1. idle.locked' = idle.locked
        BY <1>8 DEF Clear
    <2>2. HeldTo(Idler, "end_body")
        BY <1>8, <2>1, HeldSame, IdlerFacts DEF Clear
    <2> QED BY <1>8, <1>a, <2>1, <2>2, IdleGoto DEF Clear, IdlePlace
<1>9. CASE EndBody
    <2>1. CASE UNCHANGED <<idle, held>>
        <3>1. HeldTo(Idler, "pause") /\ HeldTo(Idler, "next")
            BY <1>9, <2>1, HeldSame, IdlerFacts DEF EndBody
        <3>2. CASE Goto(Idler, "pause")
            BY <1>9, <1>a, <2>1, <3>1, <3>2, IdleGoto DEF EndBody, IdlePlace
        <3>3. CASE Goto(Idler, "next")
            BY <1>9, <1>a, <2>1, <3>1, <3>3, IdleGoto DEF EndBody, IdlePlace
        <3>4. CASE TryIdleLock("write_done")
            <4>1. HeldTo(Idler, "write_done") /\ idle.locked' \in BOOLEAN
                BY <1>9, <3>4, TryFacts DEF EndBody
            <4> QED BY <1>9, <1>a, <3>4, <4>1, IdleGoto DEF TryIdleLock, IdlePlace, EndBody
        <3> QED BY <1>9, <3>2, <3>3, <3>4 DEF EndBody
    <2>2. CASE TryIdleLock("write_done")
        <3>1. HeldTo(Idler, "write_done") /\ idle.locked' \in BOOLEAN
            BY <1>9, <2>2, TryFacts DEF EndBody
        <3> QED BY <1>9, <1>a, <2>2, <3>1, IdleGoto DEF TryIdleLock, IdlePlace, EndBody
    <2> QED BY <1>9, <2>1, <2>2 DEF EndBody
<1>10. CASE WriteDONE
    <2>1. idle.locked' = idle.locked
        BY <1>10 DEF WriteDONE, ReadOn
    <2>2. HeldTo(Idler, "unlock") /\ HeldTo(Idler, "read_done")
        BY <1>10, <2>1, HeldSame, IdlerFacts DEF WriteDONE
    <2>3. idle.locked \in BOOLEAN
        OBVIOUS
    <2> QED BY <1>10, <1>a, <2>1, <2>2, <2>3, IdleGoto DEF WriteDONE, IdlePlace
<1>11. CASE ReadDONE
    <2>1. idle.locked' = idle.locked
        BY <1>11 DEF ReadDONE, ReadOn
    <2>2. HeldTo(Idler, "unlock")
        BY <1>11, <2>1, HeldSame, IdlerFacts DEF ReadDONE
    <2>3. idle.locked \in BOOLEAN
        OBVIOUS
    <2>4. /\ "die" \in Deep /\ "unlock" \in Returns /\ "die" \notin IdlerLabels
          /\ "store_stop" \in Deep \cap Returns /\ "down_close" \in Deep \cap Returns
        BY DEF Deep, CallerLabels, StartLabels, Returns
    <2>5. CASE Goto(Idler, "unlock")
        BY <1>11, <1>a, <2>1, <2>2, <2>3, <2>5, IdleGoto DEF ReadDONE, IdlePlace
    <2>6. CASE Call(Idler, <<"die", "store_stop", "down_close", "unlock">>)
        <3>1. \E c, d \in Deep \cap Returns : /\ Call(Idler, <<"die", d, c, "unlock">>)
                                               /\ Owns(c) = {} /\ Owns(d) = {}
            BY <2>4, <2>6
        <3>2. Owns("die") = {} /\ "unlock" \in IdlerLabels \cap Returns
            BY <2>4
        <3>3. idle.locked' \in BOOLEAN /\ (idle.locked' => "unlock" \in TryLabels)
            BY <2>1, <2>3
        <3> HIDE DEF IdlerLabels, TryLabels, Owns
        <3>4. ControlInv' /\ Place' = "unlock" /\ pc'[Idler] = "die"
            BY <1>0, <2>2, <2>4, <3>1, <3>2, <3>3, IdleCall, Zenon
        <3>5. pc[Idler] = "read_done"
            BY <1>11 DEF ReadDONE
        <3> QED BY <1>a, <2>4, <3>4, <3>5 DEF IdlePlace
    <2> QED BY <1>11, <2>5, <2>6 DEF ReadDONE
<1>12. CASE Unlock
    <2>1. idle.locked' = FALSE
        BY <1>12 DEF Unlock
    <2>2. HeldTo(Idler, "after")
        BY <1>12, <2>1, ReleaseFacts DEF Unlock
    <2> QED BY <1>12, <1>a, <2>1, <2>2, IdleGoto DEF Unlock, IdlePlace
<1>13. CASE After
    <2>1. idle.locked' = idle.locked
        BY <1>13 DEF After
    <2>2. HeldTo(Idler, "next")
        BY <1>13, <2>1, HeldSame, IdlerFacts DEF After
    <2>3. "process" \in Deep /\ "next" \in Returns /\ "process" \notin IdlerLabels
        BY DEF Deep, CallerLabels, StartLabels, Returns
    <2>4. CASE Goto(Idler, "next")
        BY <1>13, <1>a, <2>1, <2>2, <2>4, IdleGoto DEF After, IdlePlace
    <2>5. CASE Call(Idler, <<"process", "next">>)
        BY <1>13, <1>a, <2>1, <2>2, <2>3, <2>5, IdleCall DEF After, IdlePlace
    <2> QED BY <1>13, <2>4, <2>5 DEF After
<1>14. CASE NextRound
    <2>1. idle.locked' = idle.locked
        BY <1>14 DEF NextRound
    <2>2. HeldTo(Idler, "pause")
        BY <1>14, <2>1, HeldSame, IdlerFacts DEF NextRound
    <2> QED BY <1>14, <1>a, <2>1, <2>2, IdleGoto DEF NextRound, IdlePlace
<1>15. CASE Pause
    <2>1. HeldTo(Idler, "loop") /\ idle' = idle
        BY <1>15, HeldSame, IdlerFacts DEF Pause
    <2> QED BY <1>15, <1>a, <2>1, IdleGoto DEF Pause, IdlePlace
<1>16. CASE End
    <2>1. idle.locked' = idle.locked
        BY <1>16 DEF End
    <2>2. HeldTo(Idler, "dead")
        BY <1>16, <2>1, HeldSame, IdlerFacts DEF End
    <2> QED BY <1>16, <1>a, <2>1, <2>2, IdleGoto DEF End, IdlePlace
<1> QED BY <1>1, <1>2, <1>3, <1>4, <1>5, <1>6, <1>7, <1>8, <1>9, <1>10, <1>11, <1>12, <1>13,
           <1>14, <1>15, <1>16 DEF IdleStep

-----------------------------------------------------------------------------
\* What callers begin, and steps that nobody takes part in.

\* What callers begin.
LEMMA BeginControl ==
    ASSUME ControlInv, NEW t \in Callers, Work(t) \/ Disconnect(t) \/ SetPushEmail(t)
    PROVE  ControlInv' /\ Place' = Place
<1> USE DEF Returns, Owns, Deep, StartLabels, CallerLabels
<1>1. t \in Threads /\ t # Idler /\ pc[t] = "free"
    BY CallersAssumption DEF Threads, Work, Disconnect, SetPushEmail, CanCall
<1>2. Bottom(t) = {"free"} /\ Starts(t) = StartLabels
    BY <1>1 DEF Bottom, Starts
<1>3. stack[t] = <<>>
    BY <1>1, <1>2, LabelFacts DEF ControlInv, StackOK
<1>4. idle' = idle
    BY DEF Work, Disconnect, SetPushEmail
<1>5. SameKind(t, "free") /\ LockedTo(t, "free") /\ Moved(t, "free") = Place
    BY <1>1, <1>2, <1>4 DEF SameKind, Kin, LockedTo, Moved, ControlInv
<1>6. HeldTo(t, "free")
    <2>1. held' = held
        BY DEF Work, Disconnect, SetPushEmail
    <2> QED BY <2>1, <1>1, <1>4, HeldSame
<1>7. CASE Work(t)
    <2>1. MayCall(t, "start", stack[t])
        BY <1>2, <1>3 DEF MayCall
    <2> QED BY <2>1, <1>1, <1>5, <1>6, <1>7, Call3Control DEF Work
<1>8. CASE Disconnect(t)
    <2>1. MayCall(t, "down", stack[t])
        BY DEF MayCall
    <2> QED BY <2>1, <1>1, <1>5, <1>6, <1>8, Call2Control DEF Disconnect
<1>9. CASE SetPushEmail(t)
    <2>1. MayCall(t, "start", stack[t]) /\ MayCall(t, "stop", stack[t])
        BY <1>2, <1>3 DEF MayCall
    <2> QED BY <2>1, <1>1, <1>5, <1>6, <1>9, Call2Control DEF SetPushEmail
<1> QED BY <1>7, <1>8, <1>9

\* The device and the server.
LEMMA NobodyControl ==
    ASSUME ControlInv, UNCHANGED <<pc, stack, held, idle>>
    PROVE  ControlInv' /\ Place' = Place
<1>1. Place' = Place
    BY DEF Place, Base
<1>2. \A l, t : Extra(l, t)' = Extra(l, t)
    BY DEF Extra
<1> QED BY <1>1, <1>2 DEF ControlInv

-----------------------------------------------------------------------------
\* The labels a thread comes to.

On(t) == {stack[t][k] : k \in 1 .. Len(stack[t])}

\* Thread t comes to a label of A or returns, and may have put labels of B on its
\* stack.
Moves(t, A, B) ==
    /\ \A u \in Threads \ {t} : pc'[u] = pc[u] /\ stack'[u] = stack[u]
    /\ pc'[t] \in A \/ (pc'[t] \in On(t) /\ pc'[t] \in Returns)
    /\ On(t)' \subseteq On(t) \cup B

\* A step does not put on a stack what it does not call for.
LEMMA MovesOn ==
    ASSUME NEW t \in Threads, NEW A, NEW B, NEW a, Moves(t, A, B), a \notin B
    PROVE  \A u \in Threads : a \in On(u)' => a \in On(u)
<1> TAKE u \in Threads
<1>1. CASE u = t
    BY <1>1 DEF Moves
<1>2. CASE u # t
    <2>1. stack'[u] = stack[u]
        BY <1>2 DEF Moves
    <2> QED BY <2>1 DEF On
<1> QED BY <1>1, <1>2

\* Going on moves one thread and leaves its stack.
LEMMA GotoMoves ==
    ASSUME ControlInv, NEW t \in Threads, NEW b, Goto(t, b)
    PROVE  Moves(t, {b}, {}) /\ pc'[t] = b
BY DEF ControlInv, Goto, Moves, On

\* A call adds labels to one stack.
LEMMA CallMoves ==
    ASSUME ControlInv, NEW t \in Threads, NEW a, NEW q \in Seq(Labels), NEW B,
           \A k \in 1 .. Len(q) : q[k] \in B,
           pc' = [pc EXCEPT ![t] = a], stack' = [stack EXCEPT ![t] = q \o @]
    PROVE  Moves(t, {a}, B) /\ pc'[t] = a
<1> DEFINE s == stack[t]
           z == q \o s
<1>1. s \in Seq(Labels) /\ Len(s) \in Nat /\ Len(q) \in Nat
    BY LenProperties DEF ControlInv
<1>2. /\ Len(z) = Len(q) + Len(s)
      /\ \A i \in 1 .. Len(q) + Len(s) : z[i] = IF i <= Len(q) THEN q[i] ELSE s[i - Len(q)]
    BY <1>1, ConcatProperties
<1>3. /\ pc'[t] = a /\ stack'[t] = z
      /\ \A u \in Threads \ {t} : pc'[u] = pc[u] /\ stack'[u] = stack[u]
    BY DEF ControlInv
<1> HIDE DEF z
<1>4. ASSUME NEW i \in 1 .. Len(z) PROVE z[i] \in On(t) \cup B
    <2>1. CASE i <= Len(q)
        BY <2>1, <1>1, <1>2
    <2>2. CASE ~(i <= Len(q))
        <3>1. i - Len(q) \in 1 .. Len(s) /\ z[i] = s[i - Len(q)]
            BY <2>2, <1>1, <1>2
        <3> QED BY <3>1 DEF On
    <2> QED BY <2>1, <2>2
<1> QED BY <1>3, <1>4 DEF Moves, On

\* A call of one function.
LEMMA Call2Moves ==
    ASSUME ControlInv, NEW t \in Threads, NEW a, NEW b \in Labels, Call(t, <<a, b>>)
    PROVE  Moves(t, {a}, {b}) /\ pc'[t] = a
<1> DEFINE q == <<b>>
<1>1. Head(<<a, b>>) = a /\ Tail(<<a, b>>) = q
    OBVIOUS
<1>2. q \in Seq(Labels) /\ \A k \in 1 .. Len(q) : q[k] \in {b}
    OBVIOUS
<1>3. pc' = [pc EXCEPT ![t] = a] /\ stack' = [stack EXCEPT ![t] = q \o @]
    BY <1>1, Zenon DEF Call
<1> HIDE DEF q
<1> QED BY <1>2, <1>3, CallMoves

\* A call of two functions.
LEMMA Call3Moves ==
    ASSUME ControlInv, NEW t \in Threads, NEW a, NEW b \in Labels, NEW c \in Labels,
           Call(t, <<a, c, b>>)
    PROVE  Moves(t, {a}, {b, c}) /\ pc'[t] = a
<1> DEFINE q == <<c, b>>
<1>1. Head(<<a, c, b>>) = a /\ Tail(<<a, c, b>>) = q
    OBVIOUS
<1>2. q \in Seq(Labels) /\ \A k \in 1 .. Len(q) : q[k] \in {b, c}
    OBVIOUS
<1>3. pc' = [pc EXCEPT ![t] = a] /\ stack' = [stack EXCEPT ![t] = q \o @]
    BY <1>1, Zenon DEF Call
<1> HIDE DEF q
<1> QED BY <1>2, <1>3, CallMoves

\* A call of three functions.
LEMMA Call4Moves ==
    ASSUME ControlInv, NEW t \in Threads, NEW a, NEW b \in Labels, NEW c \in Labels,
           NEW d \in Labels, Call(t, <<a, d, c, b>>)
    PROVE  Moves(t, {a}, {b, c, d}) /\ pc'[t] = a
<1> DEFINE q == <<d, c, b>>
<1>1. Head(<<a, d, c, b>>) = a /\ Tail(<<a, d, c, b>>) = q
    OBVIOUS
<1>2. q \in Seq(Labels) /\ \A k \in 1 .. Len(q) : q[k] \in {b, c, d}
    OBVIOUS
<1>3. pc' = [pc EXCEPT ![t] = a] /\ stack' = [stack EXCEPT ![t] = q \o @]
    BY <1>1, Zenon DEF Call
<1> HIDE DEF q
<1> QED BY <1>2, <1>3, CallMoves

\* A return goes to a label of the stack.
LEMMA ReturnMoves ==
    ASSUME ControlInv, NEW t \in Threads, pc[t] \in Deep \cup StartLabels, Return(t)
    PROVE  Moves(t, {}, {})
<1> DEFINE s == stack[t]
           z == Tail(s)
<1>1. s \in Seq(Labels) /\ s # <<>> /\ StackOK(t, pc[t], s)
    BY InFunction DEF ControlInv
<1>2. /\ Head(s) = s[1] /\ Len(s) \in Nat /\ Len(s) >= 1 /\ Len(z) = Len(s) - 1
      /\ \A i \in 1 .. Len(s) - 1 : z[i] = s[i + 1]
    BY <1>1, PopFacts
<1>3. /\ pc'[t] = Head(s) /\ stack'[t] = z
      /\ \A u \in Threads \ {t} : pc'[u] = pc[u] /\ stack'[u] = stack[u]
    BY DEF ControlInv, Return
<1>4. 1 \in 1 .. Len(s)
    BY <1>2
<1>5. Head(s) \in On(t) /\ Head(s) \in Returns
    BY <1>1, <1>2, <1>4 DEF On, StackOK
<1> HIDE DEF z
<1>6. ASSUME NEW i \in 1 .. Len(z) PROVE z[i] \in On(t)
    <2>1. i \in 1 .. Len(s) - 1 /\ i + 1 \in 1 .. Len(s)
        BY <1>2
    <2> QED BY <2>1, <1>2 DEF On
<1> QED BY <1>3, <1>5, <1>6 DEF Moves, On

-----------------------------------------------------------------------------
\* The life of the idle thread.

\* in_idle and idle_thread tell the creator of a thread whether there is one; a
\* joined thread stays dead while its joiner goes on; and a creator waits for
\* the thread that it created.
LifeInv ==
    /\ ~idle_thread => Place = "dead"
    /\ \A t \in Threads : pc[t] = "start_new" => in_idle \/ Place = "dead"
    /\ \A t \in Threads : "start_new" \in On(t) => Place = "dead"
    /\ \A t \in Threads : pc[t] \in {"stop_idle", "stop_prefix"} => Place = "dead"
    /\ (in_idle /\ Place = "dead") \/ Place = "new" =>
           ~idle.had_cond /\ \E t \in Callers : pc[t] = "start_wait"

\* A lock that is owned by two threads is owned by one.
LEMMA Alone ==
    ASSUME ControlInv, NEW t \in Threads, NEW u \in Threads, NEW a \in On(t) \cup {pc[t]},
           NEW b \in On(u) \cup {pc[u]}, NEW l \in Locks, l \in Owns(a), l \in Owns(b)
    PROVE  t = u
<1>1. ASSUME NEW w \in Threads, NEW c \in On(w) \cup {pc[w]}, l \in Owns(c)
      PROVE  held[l][w] \in Nat /\ held[l][w] # 0
    <2> DEFINE s == stack[w]
               n == held[l][w] - Extra(l, w)
    <2>1. s \in Seq(Labels) /\ held[l][w] \in Nat /\ Balance(l, pc[w], s, n)
        BY DEF ControlInv
    <2>2. Extra(l, w) \in {0, 1}
        BY DEF Extra
    <2>3. PICK v \in Nat : Below(l, s, v) /\ n = v + Own(l, pc[w])
        BY <2>1 DEF Balance
    <2>4. CASE c = pc[w]
        <3>1. Own(l, pc[w]) = 1
            BY <2>4, <1>1 DEF Own
        <3> QED BY <3>1, <2>1, <2>2, <2>3
    <2>5. CASE c \in On(w)
        <3>1. PICK k \in 1 .. Len(s) : s[k] = c
            BY <2>5 DEF On
        <3>2. v >= 1
            BY <3>1, <2>1, <2>3, <1>1, BelowIn
        <3>3. Own(l, pc[w]) \in {0, 1}
            BY OwnNat
        <3> QED BY <3>2, <3>3, <2>1, <2>2, <2>3
    <2> QED BY <2>4, <2>5
<1>2. held[l][t] # 0 /\ held[l][u] # 0
    BY <1>1
<1> QED BY <1>2 DEF ControlInv

\* start_new is not on the stack of a thread that starts IDLE, or of the idle thread.
LEMMA StartStack ==
    ASSUME ControlInv, NEW t \in Threads, "start_new" \in On(t)
    PROVE  t # Idler /\ pc[t] \notin StartLabels
<1> DEFINE s == stack[t]
<1>1. PICK k \in 1 .. Len(s) : s[k] = "start_new"
    BY DEF On
<1>2. s \in Seq(Labels) /\ StackOK(t, pc[t], s) /\ Len(s) \in Nat
    BY LenProperties DEF ControlInv
<1>3. s # <<>>
    BY <1>1, <1>2
<1>4. "start_new" \notin Bottom(t) /\ "start_new" \notin Deep
    BY DEF Bottom, IdlerLabels, Deep, StartLabels
<1>5. k # Len(s)
    BY <1>1, <1>2, <1>3, <1>4 DEF StackOK
<1>6. k \in 1 .. Len(s) - 1 /\ Len(s) # 1
    <2> DEFINE n == Len(s)
    <2>1. k \in 1 .. n /\ n \in Nat /\ k # n
        BY <1>1, <1>2, <1>5
    <2> HIDE DEF n
    <2>2. k \in 1 .. n - 1 /\ n # 1
        BY <2>1
    <2> QED BY <2>2 DEF n
<1>7. "start_new" \in Starts(t) /\ pc[t] \notin Starts(t)
    BY <1>1, <1>2, <1>3, <1>4, <1>6 DEF StackOK
<1>8. t # Idler
    BY <1>7 DEF Starts
<1> QED BY <1>7, <1>8 DEF Starts

\* A step that has nothing to do with the life of the thread.
Quiet(t) ==
    /\ Moves(t, Labels \ {"start_new", "stop_idle", "stop_prefix"}, Labels \ {"start_new"})
    /\ UNCHANGED <<in_idle, idle_thread>> /\ idle.had_cond' = idle.had_cond
    /\ Place' = Place /\ pc[t] # "start_wait"

\* A quiet step keeps the life of the idle thread.
LEMMA QuietLife ==
    ASSUME ControlInv, LifeInv, NEW t \in Threads, Quiet(t)
    PROVE  LifeInv'
<1>1. \A u \in Threads : "start_new" \in On(u)' => "start_new" \in On(u)
    BY MovesOn DEF Quiet
<1> USE DEF LifeInv, Quiet, Moves
<1>2. \A u \in Threads : pc'[u] = "start_new" => (pc[u] = "start_new" \/ Place = "dead")
    OBVIOUS
<1>3. \A u \in Threads : pc'[u] \in {"stop_idle", "stop_prefix"} => Place = "dead"
    BY DEF Returns
<1>4. \A u \in Callers : pc[u] = "start_wait" => pc'[u] = "start_wait"
    BY DEF Threads
<1> QED BY <1>1, <1>2, <1>3, <1>4

\* Stopping IDLE: in_idle is only cleared while nobody creates a thread, and
\* idle_thread after the thread was joined.
LEMMA StopLife ==
    ASSUME ControlInv, LifeInv, NEW t \in Threads, StopStep(t)
    PROVE  LifeInv'
<1> USE DEF Deep, StartLabels, CallerLabels, Labels, Returns
<1>0. Place' = Place
    BY StopControl
<1>1. CASE StoreStop(t)
    <2>1. Quiet(t)
        BY <1>0, <1>1, GotoMoves DEF StoreStop, Quiet, flags, Moves
    <2> QED BY <2>1, QuietLife
<1>2. CASE StoreStopPrefix(t)
    <2>1. Quiet(t)
        BY <1>0, <1>2, GotoMoves DEF StoreStopPrefix, Quiet, Moves
    <2> QED BY <2>1, QuietLife
<1>3. CASE StoreStopDone(t)
    <2>1. Moves(t, {}, {}) /\ pc[t] = "store_stop_done"
        BY <1>3, ReturnMoves DEF StoreStopDone
    <2>2. /\ UNCHANGED <<idle_thread, idle>> /\ (in_idle' => in_idle)
          /\ \A u \in Threads : pc[u] # "start_new"
        <3>1. ASSUME NEW u \in Threads, pc[u] = "start_new" PROVE FALSE
            <4>1. t = u
                BY <2>1, <3>1, Alone DEF Owns, Locks
            <4> QED BY <4>1, <2>1, <3>1
        <3> QED BY <3>1, <1>3 DEF StoreStopDone
    <2>3. ASSUME NEW u \in Threads, pc'[u] = "start_new" PROVE in_idle' \/ Place' = "dead"
        <3>1. CASE u = t
            BY <3>1, <2>1, <2>3, <1>0 DEF Moves, LifeInv
        <3>2. CASE u # t
            BY <3>2, <2>1, <2>2, <2>3 DEF Moves
        <3> QED BY <3>1, <3>2
    <2>4. \A u \in Threads : "start_new" \in On(u)' => "start_new" \in On(u)
        BY <2>1, MovesOn
    <2>5. \A u \in Threads : pc'[u] \in {"stop_idle", "stop_prefix"} => Place = "dead"
        BY <2>1 DEF Moves, LifeInv
    <2>6. \A u \in Callers : pc[u] = "start_wait" => pc'[u] = "start_wait"
        BY <2>1 DEF Moves, Threads
    <2> QED BY <1>0, <2>2, <2>3, <2>4, <2>5, <2>6 DEF LifeInv
<1>4. CASE Stop(t)
    <2>1. Quiet(t)
        BY <1>0, <1>4, GotoMoves, ReturnMoves DEF Stop, Quiet, Moves
    <2> QED BY <2>1, QuietLife
<1>5. CASE StopT(t)
    <2>1. Quiet(t)
        BY <1>0, <1>5, GotoMoves DEF StopT, Quiet, Moves
    <2> QED BY <2>1, QuietLife
<1>6. CASE StopJoin(t)
    <2>1. Moves(t, {"stop_idle"}, {}) /\ pc'[t] = "stop_idle" /\ pc[t] = "stop_join"
        BY <1>6, GotoMoves DEF StopJoin, Join
    <2>2. Place = "dead"
        BY <1>6, AtPlace DEF StopJoin, Join, Bottom, IdlerLabels
    <2>3. UNCHANGED <<in_idle, idle_thread>> /\ idle.had_cond' = idle.had_cond
        BY <1>6 DEF StopJoin, Join, flags
    <2>4. \A u \in Callers : pc[u] = "start_wait" => pc'[u] = "start_wait"
        BY <2>1 DEF Moves, Threads
    <2> QED BY <1>0, <2>2, <2>3, <2>4 DEF LifeInv
<1>7. CASE StopIdleLock(t)
    <2>1. Moves(t, {"stop_prefix"}, {}) /\ pc[t] = "stop_idle" /\ pc'[t] = "stop_prefix"
        BY <1>7, GotoMoves DEF StopIdleLock
    <2>2. Place = "dead"
        BY <2>1 DEF LifeInv
    <2>3. UNCHANGED <<in_idle, idle_thread, idle>>
        BY <1>7 DEF StopIdleLock, flags
    <2>4. \A u \in Callers : pc[u] = "start_wait" => pc'[u] = "start_wait"
        BY <2>1 DEF Moves, Threads
    <2> QED BY <1>0, <2>2, <2>3, <2>4 DEF LifeInv
<1>8. CASE StopPrefix(t)
    <2>1. Place = "dead" /\ in_idle' = FALSE
        BY <1>8 DEF StopPrefix, LifeInv
    <2> QED BY <1>0, <2>1 DEF LifeInv
<1>9. CASE StopEnd(t)
    <2>1. Quiet(t)
        BY <1>0, <1>9, ReturnMoves DEF StopEnd, Quiet, Moves
    <2> QED BY <2>1, QuietLife
<1> QED BY <1>1, <1>2, <1>3, <1>4, <1>5, <1>6, <1>7, <1>8, <1>9 DEF StopStep

\* Starting IDLE: a thread is created where there is none, and locks keep others
\* from relying on the joined one.
LEMMA StartLife ==
    ASSUME ControlInv, LifeInv, NEW t \in Threads, StartStep(t)
    PROVE  LifeInv'
<1> USE DEF Deep, StartLabels, CallerLabels, Labels, Returns
<1>0. pc[t] = "start_new" => in_idle \/ Place = "dead"
    BY DEF LifeInv
<1>a. Place' = IF StartNew(t) /\ ~in_idle THEN "new" ELSE Place
    BY <1>0, StartControl
<1>1. CASE Start(t)
    <2>1. Quiet(t)
        BY <1>a, <1>1, GotoMoves, ReturnMoves DEF Start, StartNew, Quiet, Moves, flags
    <2> QED BY <2>1, QuietLife
<1>2. CASE StartIdleLock(t)
    <2>1. Quiet(t)
        BY <1>a, <1>2, GotoMoves DEF StartIdleLock, StartNew, Quiet, Moves, flags
    <2> QED BY <2>1, QuietLife
<1>3. CASE StartPrefix(t)
    <2>1. Quiet(t)
        BY <1>a, <1>3, GotoMoves, ReturnMoves DEF StartPrefix, StartNew, Quiet, Moves, flags
    <2> QED BY <2>1, QuietLife
<1>4. CASE StartT(t)
    <2>1. t # Idler /\ pc[t] = "start_t"
        BY <1>4, InFunction DEF StartT
    <2>2. Moves(t, {"start_join", "start_new"}, {}) /\ UNCHANGED <<in_idle, idle_thread, idle>>
        BY <1>4, GotoMoves DEF StartT, Moves
    <2>3. pc'[t] = "start_new" => in_idle \/ ~idle_thread
        <3>1. CASE ~in_idle /\ idle_thread
            <4>1. pc'[t] = "start_join"
                BY <1>4, <2>1, <3>1, GotoMoves DEF StartT
            <4> QED BY <4>1
        <3>2. CASE ~(~in_idle /\ idle_thread)
            BY <3>2
        <3> QED BY <3>1, <3>2
    <2>4. Place' = Place
        BY <1>a, <2>1 DEF StartNew
    <2>5. \A u \in Threads : "start_new" \in On(u)' => "start_new" \in On(u)
        BY <2>2, MovesOn
    <2>6. \A u \in Threads : pc'[u] = "start_new" => in_idle' \/ Place' = "dead"
        BY <2>2, <2>3, <2>4 DEF Moves, LifeInv
    <2>7. \A u \in Threads : pc'[u] \in {"stop_idle", "stop_prefix"} => Place = "dead"
        BY <2>2 DEF Moves, LifeInv
    <2>8. \A u \in Callers : pc[u] = "start_wait" => pc'[u] = "start_wait"
        BY <2>1, <2>2 DEF Moves, Threads
    <2> QED BY <2>2, <2>4, <2>5, <2>6, <2>7, <2>8 DEF LifeInv
<1>5. CASE StartJoin(t)
    <2>1. pc[t] = "start_join" /\ pc[Idler] = "dead"
        BY <1>5 DEF StartJoin
    <2>2. Place = "dead" /\ Place' = Place
        BY <1>a, <2>1, AtPlace DEF StartNew, Bottom, IdlerLabels
    <2>3. UNCHANGED in_idle /\ idle.had_cond' = idle.had_cond
        BY <1>5 DEF StartJoin
    <2>4. \A u \in Callers : pc[u] = "start_wait" => pc'[u] = "start_wait"
        BY <1>5, <2>1, GotoMoves, Call2Moves DEF StartJoin, Moves, Threads
    <2> QED BY <2>2, <2>3, <2>4 DEF LifeInv
<1>6. CASE StartNew(t) /\ in_idle
    <2>1. Quiet(t)
        BY <1>a, <1>6, ReturnMoves DEF StartNew, Quiet, Moves, flags
    <2> QED BY <2>1, QuietLife
<1>7. CASE StartNew(t) /\ ~in_idle
    <2>1. /\ pc[t] = "start_new" /\ in_idle' = TRUE /\ idle_thread' = TRUE /\ stack' = stack
          /\ pc' = [pc EXCEPT ![t] = "start_wait", ![Idler] = "new"] /\ idle'.had_cond = FALSE
        BY <1>7 DEF StartNew, NewThread
    <2>2. t # Idler
        BY <2>1, InFunction
    <2>3. \A u \in Threads : "start_new" \notin On(u)'
        <3> SUFFICES ASSUME NEW u \in Threads, "start_new" \in On(u)' PROVE FALSE
            OBVIOUS
        <3>1. "start_new" \in On(u)
            BY <2>1 DEF On
        <3>2. t = u
            BY <2>1, <3>1, Alone DEF Owns, Locks
        <3> QED BY <2>1, <3>1, <3>2, StartStack
    <2>4. \A u \in Threads : pc'[u] \notin {"stop_idle", "stop_prefix"}
        <3> SUFFICES ASSUME NEW u \in Threads, pc'[u] \in {"stop_idle", "stop_prefix"} PROVE FALSE
            OBVIOUS
        <3>1. u # t /\ pc[u] = pc'[u]
            BY <2>1, IdlerFacts DEF ControlInv
        <3>2. t = u
            BY <2>1, <3>1, Alone DEF Owns, Locks
        <3> QED BY <3>1, <3>2
    <2>5. t \in Callers /\ pc'[t] = "start_wait"
        BY <2>1, <2>2 DEF Threads, ControlInv
    <2> QED BY <1>a, <1>7, <2>1, <2>3, <2>4, <2>5 DEF LifeInv
<1>8. CASE StartWait(t)
    <2>1. pc[t] = "start_wait" /\ idle.had_cond /\ UNCHANGED <<idle, in_idle, idle_thread>>
        BY <1>8 DEF StartWait, flags
    <2>2. Place' = Place /\ Moves(t, {}, {})
        BY <1>8, <1>a, <2>1, ReturnMoves DEF StartNew, StartWait
    <2>3. \A u \in Threads : "start_new" \in On(u)' => "start_new" \in On(u)
        BY <2>2, MovesOn
    <2>4. \A u \in Threads : pc'[u] = "start_new" => in_idle' \/ Place' = "dead"
        BY <2>1, <2>2 DEF Moves, LifeInv
    <2>5. \A u \in Threads : pc'[u] \in {"stop_idle", "stop_prefix"} => Place = "dead"
        BY <2>2 DEF Moves, LifeInv
    <2> QED BY <2>1, <2>2, <2>3, <2>4, <2>5 DEF LifeInv
<1> QED BY <1>1, <1>2, <1>3, <1>4, <1>5, <1>6, <1>7, <1>8 DEF StartStep

\* The steps of commands and of disconnecting leave the life of the idle thread alone.
LEMMA WorkMoves ==
    ASSUME ControlInv, NEW t \in Threads, CmdStep(t) \/ DownStep(t)
    PROVE  /\ Moves(t, {"cmd", "cmd_open", "cmd_write", "cmd_read", "cmd_end", "store_stop", "stop",
                        "die", "die_prefix", "down"},
                    {"cmd_again", "cmd_write", "cmd_end", "process", "fetched", "store_stop",
                     "down_close"})
           /\ UNCHANGED <<in_idle, idle_thread, idle>> /\ pc[t] # "start_wait"
           /\ (idle_kill => idle_kill') /\ (~idle_cont => ~idle_cont') /\ Place' = Place
<1> DEFINE A == {"cmd", "cmd_open", "cmd_write", "cmd_read", "cmd_end", "store_stop", "stop",
                 "die", "die_prefix", "down"}
           B == {"cmd_again", "cmd_write", "cmd_end", "process", "fetched", "store_stop",
                 "down_close"}
<1> USE DEF Deep, CallerLabels, Labels
<1>1. Place' = Place
    BY CmdControl, DownControl
<1>2. CASE CmdStep(t)
    <2>1. /\ UNCHANGED <<flags, idle>> /\ pc[t] \in Deep \ {"start_wait"}
        BY <1>2 DEF CmdStep, CmdLock, CmdOpen, CmdAgain, CmdWrite, CmdRead, CmdEnd, Process,
               Fetched, StartLabels
    <2>2. \/ Return(t) \/ \E b \in A : Goto(t, b)
          \/ Call(t, <<"store_stop", "cmd_write">>) \/ Call(t, <<"die", "cmd_again">>)
          \/ Call(t, <<"down", "cmd_end">>) \/ Call(t, <<"cmd", "fetched">>)
          \/ Call(t, <<"stop", "process", "cmd_end">>)
        BY <1>2 DEF CmdStep, CmdLock, CmdOpen, CmdAgain, CmdWrite, CmdRead, CmdEnd, Process, Fetched
    <2>3. CASE Return(t) \/ \E b \in A : Goto(t, b)
        <3>1. Moves(t, A, {})
            BY <2>1, <2>3, ReturnMoves, GotoMoves DEF Moves
        <3> QED BY <1>1, <2>1, <3>1 DEF Moves, flags
    <2>4. CASE \/ Call(t, <<"store_stop", "cmd_write">>) \/ Call(t, <<"die", "cmd_again">>)
               \/ Call(t, <<"down", "cmd_end">>) \/ Call(t, <<"cmd", "fetched">>)
        <3>1. \/ Moves(t, {"store_stop"}, {"cmd_write"}) \/ Moves(t, {"die"}, {"cmd_again"})
              \/ Moves(t, {"down"}, {"cmd_end"}) \/ Moves(t, {"cmd"}, {"fetched"})
            BY <2>4, Call2Moves
        <3> QED BY <1>1, <2>1, <3>1 DEF Moves, flags
    <2>5. CASE Call(t, <<"stop", "process", "cmd_end">>)
        <3>1. Moves(t, {"stop"}, {"cmd_end", "process"})
            BY <2>5, Call3Moves
        <3> QED BY <1>1, <2>1, <3>1 DEF Moves, flags
    <2> QED BY <2>2, <2>3, <2>4, <2>5
<1>3. CASE DownStep(t)
    <2>1. /\ UNCHANGED <<in_idle, idle_thread, idle>> /\ pc[t] \in Deep \ {"start_wait"}
          /\ (idle_kill => idle_kill') /\ (~idle_cont => ~idle_cont')
        BY <1>3 DEF DownStep, Die, DiePrefix, Down, DownClose, StartLabels, flags
    <2>2. \/ Return(t) \/ \E b \in A : Goto(t, b)
          \/ Call(t, <<"die", "store_stop", "down_close", "cmd_end">>)
        BY <1>3 DEF DownStep, Die, DiePrefix, Down, DownClose
    <2>3. CASE Return(t) \/ \E b \in A : Goto(t, b)
        <3>1. Moves(t, A, {})
            BY <2>1, <2>3, ReturnMoves, GotoMoves DEF Moves
        <3> QED BY <1>1, <2>1, <3>1 DEF Moves
    <2>4. CASE Call(t, <<"die", "store_stop", "down_close", "cmd_end">>)
        <3>1. Moves(t, {"die"}, {"cmd_end", "down_close", "store_stop"})
            BY <2>4, Call4Moves
        <3> QED BY <1>1, <2>1, <3>1 DEF Moves
    <2> QED BY <2>2, <2>3, <2>4
<1> QED BY <1>2, <1>3

\* Commands and disconnecting.
LEMMA WorkLife ==
    ASSUME ControlInv, LifeInv, NEW t \in Threads, CmdStep(t) \/ DownStep(t)
    PROVE  LifeInv'
<1>1. Quiet(t)
    BY WorkMoves DEF Quiet, Moves, Labels, CallerLabels
<1> QED BY <1>1, QuietLife

\* What callers begin leaves it alone too.
LEMMA BeginMoves ==
    ASSUME ControlInv, NEW t \in Callers, Work(t) \/ Disconnect(t) \/ SetPushEmail(t)
    PROVE  /\ Moves(t, {"cmd", "down", "start", "stop"}, {"free", "start"})
           /\ UNCHANGED <<flags, idle>> /\ pc[t] # "start_wait" /\ Place' = Place
           /\ t \in Threads /\ t # Idler
<1> USE DEF CallerLabels, Labels
<1>1. Place' = Place /\ t \in Threads /\ t # Idler
    BY BeginControl, CallersAssumption DEF Threads
<1>2. pc[t] = "free" /\ UNCHANGED <<flags, idle>>
    BY DEF Work, Disconnect, SetPushEmail, CanCall
<1>3. CASE Work(t)
    <2>1. Moves(t, {"cmd"}, {"free", "start"})
        BY <1>1, <1>3, Call3Moves DEF Work
    <2> QED BY <1>1, <1>2, <2>1 DEF Moves
<1>4. CASE Disconnect(t)
    <2>1. Moves(t, {"down"}, {"free"})
        BY <1>1, <1>4, Call2Moves DEF Disconnect
    <2> QED BY <1>1, <1>2, <2>1 DEF Moves
<1>5. CASE SetPushEmail(t)
    <2>1. Moves(t, {"start"}, {"free"}) \/ Moves(t, {"stop"}, {"free"})
        BY <1>1, <1>5, Call2Moves DEF SetPushEmail
    <2> QED BY <1>1, <1>2, <2>1 DEF Moves
<1> QED BY <1>3, <1>4, <1>5

\* What callers begin.
LEMMA BeginLife ==
    ASSUME ControlInv, LifeInv, NEW t \in Callers, Work(t) \/ Disconnect(t) \/ SetPushEmail(t)
    PROVE  LifeInv'
<1>1. t \in Threads /\ Quiet(t)
    BY BeginMoves DEF Quiet, Moves, Labels, CallerLabels, flags
<1> QED BY <1>1, QuietLife

\* The device and the server.
LEMMA NobodyLife ==
    ASSUME ControlInv, LifeInv, UNCHANGED <<pc, stack, held, idle, in_idle, idle_thread>>
    PROVE  LifeInv'
<1>1. Place' = Place /\ \A t : On(t)' = On(t)
    BY NobodyControl DEF On
<1> QED BY <1>1 DEF LifeInv

\* The labels of the idle thread.
LEMMA IdleMoves ==
    ASSUME ControlInv, IdleStep
    PROVE  /\ Moves(Idler, IdlerLabels \cup {"process", "die"},
                    {"clear", "next", "store_stop", "down_close", "unlock"})
           /\ pc'[Idler] \in IdlerLabels \cup {"process", "die"}
           /\ pc[Idler] # "dead" /\ pc'[Idler] # "new"
<1> USE DEF New, Loop, Begin, IdleRealStart, Tell, Body, Cont, Clear, EndBody, WriteDONE,
            ReadDONE, Unlock, After, NextRound, Pause, End
<1>1. \/ \E b \in IdlerLabels : Goto(Idler, b)
      \/ Call(Idler, <<"process", "clear">>)
      \/ Call(Idler, <<"process", "next">>)
      \/ Call(Idler, <<"die", "store_stop", "down_close", "unlock">>)
    BY DEF IdleStep, TryIdleLock, IdlerLabels
<1>2. "clear" \in Labels /\ "next" \in Labels /\ "store_stop" \in Labels
      /\ "down_close" \in Labels /\ "unlock" \in Labels
    BY DEF Labels, CallerLabels, IdlerLabels
<1>3. CASE \E b \in IdlerLabels : Goto(Idler, b)
    <2>1. PICK b \in IdlerLabels : Moves(Idler, {b}, {}) /\ pc'[Idler] = b
        BY <1>3, IdlerFacts, GotoMoves
    <2>2. pc[Idler] # "dead" /\ pc'[Idler] # "new"
        BY IdlerFacts DEF IdleStep, TryIdleLock, Goto, Call, ControlInv
    <2> QED BY <2>1, <2>2 DEF Moves
<1>4. CASE Call(Idler, <<"process", "clear">>) \/ Call(Idler, <<"process", "next">>)
    <2>1. \/ Moves(Idler, {"process"}, {"clear"}) /\ pc'[Idler] = "process"
          \/ Moves(Idler, {"process"}, {"next"}) /\ pc'[Idler] = "process"
        BY <1>2, <1>4, IdlerFacts, Call2Moves
    <2>2. pc[Idler] # "dead"
        BY DEF IdleStep
    <2> QED BY <2>1, <2>2 DEF Moves
<1>5. CASE Call(Idler, <<"die", "store_stop", "down_close", "unlock">>)
    <2>1. Moves(Idler, {"die"}, {"unlock", "down_close", "store_stop"}) /\ pc'[Idler] = "die"
        BY <1>2, <1>5, IdlerFacts, Call4Moves
    <2>2. pc[Idler] # "dead"
        BY DEF IdleStep
    <2> QED BY <2>1, <2>2 DEF Moves
<1> QED BY <1>1, <1>3, <1>4, <1>5

\* The idle thread: it ends with in_idle cleared, or before it told its creator.
LEMMA IdleLife ==
    ASSUME ControlInv, LifeInv, IdleStep,
           idle \in [my_cont : BOOLEAN, first : BOOLEAN, had_cond : BOOLEAN,
                     senddone : BOOLEAN, locked : BOOLEAN, retval : Responses]
    PROVE  LifeInv'
<1> USE DEF New, Loop, Begin, IdleRealStart, Tell, Body, Cont, Clear, EndBody, WriteDONE,
            ReadDONE, Unlock, After, NextRound, Pause, End
<1>1. /\ ControlInv' /\ Place' = IdlePlace /\ pc[Idler] = Place /\ stack[Idler] = <<>>
    BY IdleControl
<1>2. /\ \A u \in Threads : u # Idler => pc'[u] = pc[u] /\ stack'[u] = stack[u]
      /\ pc'[Idler] \in IdlerLabels \cup {"process", "die"}
      /\ pc[Idler] # "dead" /\ pc'[Idler] # "new"
    BY IdleMoves DEF Moves
<1>3. "start_new" \notin On(Idler)'
    <2> DEFINE s == stack'[Idler]
    <2>1. s \in Seq(Labels) /\ StackOK(Idler, pc'[Idler], s)
        BY <1>1, IdlerFacts DEF ControlInv
    <2> HIDE DEF s
    <2>2. Len(s) \in Nat /\ "start_new" \notin Bottom(Idler) /\ "start_new" \notin Deep
          /\ Starts(Idler) = {}
        BY <2>1, LenProperties DEF Bottom, IdlerLabels, Deep, StartLabels, Starts
    <2>3. ASSUME NEW k \in 1 .. Len(s), s[k] = "start_new" PROVE FALSE
        <3>1. s # <<>>
            BY <2>3
        <3>2. k # Len(s)
            BY <2>1, <2>2, <2>3, <3>1 DEF StackOK
        <3>3. k \in 1 .. Len(s) - 1
            BY <2>2, <3>2
        <3> QED BY <2>1, <2>2, <2>3, <3>1, <3>3 DEF StackOK
    <2> QED BY <2>3 DEF On, s
<1>4. \A u \in Callers : u \in Threads /\ u # Idler
    BY CallersAssumption DEF Threads
<1>6. Place # "dead" /\ Place' # "new"
    BY <1>1, <1>2 DEF IdlePlace
<1>7. \A u \in Threads : u # Idler => "start_new" \notin On(u)'
    BY <1>2, <1>6 DEF LifeInv, On
<1>8. \A u \in Threads : pc'[u] \notin {"stop_idle", "stop_prefix"}
    BY <1>2, <1>6 DEF LifeInv, IdlerLabels
<1>9. /\ idle_thread' = idle_thread
      /\ in_idle' = in_idle \/ (in_idle' = FALSE /\ Place' = "dead")
    BY <1>1, IdlerFacts DEF IdleStep, flags, IdlePlace, Goto, ControlInv, IdlerLabels
<1>10. \A u \in Threads : pc'[u] = "start_new" => in_idle' \/ Place' = "dead"
    BY <1>2, <1>6, <1>9 DEF LifeInv, IdlerLabels
<1>11. in_idle' /\ Place' = "dead" => ~idle.had_cond' /\ \E u \in Callers : pc'[u] = "start_wait"
    <2>1. ASSUME in_idle', Place' = "dead" PROVE New
        <3>1. pc'[Idler] = "dead"
            BY <1>1, <1>2, <2>1 DEF IdlePlace
        <3>2. ~End
            BY <2>1
        <3>3. ~Cont /\ ~EndBody /\ ~ReadDONE /\ ~After
            BY <3>1, IdlerFacts DEF TryIdleLock, Goto, Call, ControlInv
        <3>4. ~Loop /\ ~Begin /\ ~IdleRealStart /\ ~Tell /\ ~Body /\ ~Clear
            BY <3>1, IdlerFacts DEF TryIdleLock, Goto, ControlInv
        <3>5. ~WriteDONE /\ ~Unlock /\ ~NextRound /\ ~Pause
            BY <3>1, IdlerFacts DEF Goto, ControlInv
        <3> HIDE DEF New, Loop, Begin, IdleRealStart, Tell, Body, Cont, Clear, EndBody, WriteDONE,
                     ReadDONE, Unlock, After, NextRound, Pause, End
        <3> QED BY <3>2, <3>3, <3>4, <3>5 DEF IdleStep
    <2>2. ASSUME New, Place' = "dead" PROVE idle' = idle /\ Place = "new"
        BY <1>1, <2>2, IdlerFacts DEF Goto, IdlePlace, ControlInv, IdlerLabels
    <2> QED BY <2>1, <2>2, <1>2, <1>4 DEF LifeInv
<1> QED BY <1>3, <1>6, <1>7, <1>8, <1>9, <1>10, <1>11 DEF LifeInv

-----------------------------------------------------------------------------
\* The types of the other variables.

IdleType == [my_cont : BOOLEAN, first : BOOLEAN, had_cond : BOOLEAN,
             senddone : BOOLEAN, locked : BOOLEAN, retval : Responses]

FlagsOK ==
    /\ online \in BOOLEAN /\ connected \in BOOLEAN
    /\ current_folder \in BOOLEAN /\ do_push_email \in BOOLEAN
    /\ idle_cont \in BOOLEAN /\ idle_kill \in BOOLEAN /\ in_idle \in BOOLEAN
    /\ idle_thread \in BOOLEAN /\ idle_prefix \in BOOLEAN
    /\ dontdistridlehack \in BOOLEAN
LinesOK == server \in {"command", "done"} /\ answers \in Nat /\ wire \subseteq Lines
LocalsOK == resp \in [Threads -> Responses] /\ idle \in IdleType
BoundsOK == calls \in 0 .. MaxCalls /\ news \in 0 .. MaxNews

DataOK == FlagsOK /\ LinesOK /\ LocalsOK /\ BoundsOK

\* Stopping IDLE keeps the types of the fields of the store.
LEMMA StopFlags ==
    ASSUME FlagsOK, NEW t \in Threads, StopStep(t)
    PROVE  FlagsOK'
<1> USE DEF FlagsOK, flags, mode
<1>1. CASE StoreStop(t)
    BY <1>1 DEF StoreStop
<1>2. CASE StoreStopPrefix(t)
    BY <1>2 DEF StoreStopPrefix
<1>3. CASE StoreStopDone(t)
    BY <1>3 DEF StoreStopDone
<1>4. CASE Stop(t)
    BY <1>4 DEF Stop
<1>5. CASE StopT(t)
    BY <1>5 DEF StopT
<1>6. CASE StopJoin(t)
    BY <1>6 DEF StopJoin
<1>7. CASE StopIdleLock(t)
    BY <1>7 DEF StopIdleLock
<1>8. CASE StopPrefix(t)
    BY <1>8 DEF StopPrefix
<1>9. CASE StopEnd(t)
    BY <1>9 DEF StopEnd
<1> QED BY <1>1, <1>2, <1>3, <1>4, <1>5, <1>6, <1>7, <1>8, <1>9 DEF StopStep

\* So does starting IDLE.
LEMMA StartFlags ==
    ASSUME FlagsOK, NEW t \in Threads, StartStep(t)
    PROVE  FlagsOK'
<1> USE DEF FlagsOK, flags, mode
<1>1. CASE Start(t)
    BY <1>1 DEF Start
<1>2. CASE StartIdleLock(t)
    BY <1>2 DEF StartIdleLock
<1>3. CASE StartPrefix(t)
    BY <1>3 DEF StartPrefix
<1>4. CASE StartT(t)
    BY <1>4 DEF StartT
<1>5. CASE StartJoin(t)
    BY <1>5 DEF StartJoin
<1>6. CASE StartNew(t)
    BY <1>6 DEF StartNew
<1>7. CASE StartWait(t)
    BY <1>7 DEF StartWait
<1> QED BY <1>1, <1>2, <1>3, <1>4, <1>5, <1>6, <1>7 DEF StartStep

\* So do commands.
LEMMA CmdFlags ==
    ASSUME FlagsOK, NEW t \in Threads, CmdStep(t)
    PROVE  FlagsOK'
<1> USE DEF FlagsOK, flags, mode
<1>1. CASE CmdLock(t)
    BY <1>1 DEF CmdLock
<1>2. CASE CmdOpen(t)
    BY <1>2 DEF CmdOpen
<1>3. CASE CmdAgain(t)
    BY <1>3 DEF CmdAgain
<1>4. CASE CmdWrite(t)
    BY <1>4 DEF CmdWrite
<1>5. CASE CmdRead(t)
    BY <1>5 DEF CmdRead
<1>6. CASE CmdEnd(t)
    BY <1>6 DEF CmdEnd
<1>7. CASE Process(t)
    BY <1>7 DEF Process
<1>8. CASE Fetched(t)
    BY <1>8 DEF Fetched
<1> QED BY <1>1, <1>2, <1>3, <1>4, <1>5, <1>6, <1>7, <1>8 DEF CmdStep

\* So does disconnecting.
LEMMA DownFlags ==
    ASSUME FlagsOK, NEW t \in Threads, DownStep(t)
    PROVE  FlagsOK'
<1> USE DEF FlagsOK, flags, mode
<1>1. CASE Die(t)
    BY <1>1 DEF Die
<1>2. CASE DiePrefix(t)
    BY <1>2 DEF DiePrefix
<1>3. CASE Down(t)
    BY <1>3 DEF Down
<1>4. CASE DownClose(t)
    BY <1>4 DEF DownClose
<1> QED BY <1>1, <1>2, <1>3, <1>4 DEF DownStep

\* And so do the rounds of the idle thread.
LEMMA IdleFlags ==
    ASSUME FlagsOK, IdleStep
    PROVE  FlagsOK'
<1> USE DEF FlagsOK, flags, mode
<1>1. CASE New
    BY <1>1 DEF New
<1>2. CASE Loop
    BY <1>2 DEF Loop
<1>3. CASE Begin
    BY <1>3 DEF Begin
<1>4. CASE IdleRealStart
    BY <1>4 DEF IdleRealStart
<1>5. CASE Tell
    BY <1>5 DEF Tell
<1>6. CASE Body
    BY <1>6 DEF Body
<1>7. CASE Cont
    BY <1>7 DEF Cont
<1>8. CASE Clear
    BY <1>8 DEF Clear
<1>9. CASE EndBody
    BY <1>9 DEF EndBody
<1>10. CASE WriteDONE
    BY <1>10 DEF WriteDONE
<1>11. CASE ReadDONE
    BY <1>11 DEF ReadDONE
<1>12. CASE Unlock
    BY <1>12 DEF Unlock
<1>13. CASE After
    BY <1>13 DEF After
<1>14. CASE NextRound
    BY <1>14 DEF NextRound
<1>15. CASE Pause
    BY <1>15 DEF Pause
<1>16. CASE End
    BY <1>16 DEF End
<1> QED BY <1>1, <1>2, <1>3, <1>4, <1>5, <1>6, <1>7, <1>8, <1>9, <1>10, <1>11, <1>12, <1>13,
           <1>14, <1>15, <1>16 DEF IdleStep

\* The functions keep the type of the connection.
LEMMA ThreadLines ==
    ASSUME LinesOK, BoundsOK, NEW t \in Threads, ThreadStep(t)
    PROVE  LinesOK' /\ BoundsOK'
<1> USE DEF LinesOK, BoundsOK, lines, bounds
<1>1. CASE StopStep(t)
    BY <1>1 DEF StopStep, StoreStop, StoreStopPrefix, StoreStopDone, Stop, StopT, StopJoin,
           StopIdleLock, StopPrefix, StopEnd
<1>2. CASE StartStep(t)
    BY <1>2 DEF StartStep, Start, StartIdleLock, StartPrefix, StartT, StartJoin, StartNew,
           StartWait
<1>3. CASE CmdStep(t)
    BY <1>3 DEF CmdStep, CmdLock, CmdOpen, CmdAgain, CmdWrite, CmdRead, CmdEnd, Process,
           Fetched, WriteLine
<1>4. CASE DownStep(t)
    BY <1>4 DEF DownStep, Die, DiePrefix, Down, DownClose
<1> QED BY <1>1, <1>2, <1>3, <1>4 DEF ThreadStep

\* So do the rounds of the idle thread.
LEMMA IdleLines ==
    ASSUME LinesOK, BoundsOK, IdleStep
    PROVE  LinesOK' /\ BoundsOK'
<1> USE DEF LinesOK, BoundsOK, lines, bounds
<1> QED BY DEF IdleStep, New, Loop, Begin, IdleRealStart, Tell, Body, Cont, Clear, EndBody,
           WriteDONE, ReadDONE, Unlock, After, NextRound, Pause, End, WriteLine, WriteIDLE,
           ReadOn, ReadLines, TryIdleLock

\* The functions keep the type of the responses and of the result of the thread.
LEMMA ThreadLocals ==
    ASSUME LocalsOK, NEW t \in Threads, ThreadStep(t)
    PROVE  LocalsOK'
<1> USE DEF LocalsOK
<1>1. CASE StopStep(t)
    <2>1. CASE UNCHANGED <<resp, idle>>
        BY <2>1
    <2>2. CASE StopJoin(t)
        BY <2>2 DEF StopJoin, Join, IdleType, Responses
    <2> QED BY <1>1, <2>1, <2>2 DEF StopStep, StoreStop, StoreStopPrefix, StoreStopDone, Stop,
           StopT, StopIdleLock, StopPrefix, StopEnd
<1>2. CASE StartStep(t)
    <2>1. CASE UNCHANGED <<resp, idle>>
        BY <2>1
    <2>2. CASE StartJoin(t)
        BY <2>2 DEF StartJoin, IdleType, Responses
    <2>3. CASE StartNew(t)
        <3>1. NewThread \in IdleType
            BY DEF NewThread, IdleType, Responses
        <3>2. idle' = idle \/ idle' = NewThread
            BY <2>3 DEF StartNew
        <3> QED BY <2>3, <3>1, <3>2 DEF StartNew
    <2> QED BY <1>2, <2>1, <2>2, <2>3 DEF StartStep, Start, StartIdleLock, StartPrefix, StartT,
           StartWait
<1>3. CASE CmdStep(t)
    <2>1. CASE UNCHANGED <<resp, idle>>
        BY <2>1
    <2>2. CASE CmdRead(t)
        <3>1. idle' = idle /\ (resp' = resp \/ resp' = [resp EXCEPT ![t] = "exists"])
            BY <2>2 DEF CmdRead
        <3> QED BY <3>1 DEF Responses, Lines
    <2>3. CASE Process(t)
        BY <2>3 DEF Process, Responses
    <2> QED BY <1>3, <2>1, <2>2, <2>3 DEF CmdStep, CmdLock, CmdOpen, CmdAgain, CmdWrite,
           CmdEnd, Fetched
<1>4. CASE DownStep(t)
    <2>1. CASE UNCHANGED <<resp, idle>>
        BY <2>1
    <2> QED BY <1>4, <2>1 DEF DownStep, Die, DiePrefix, Down, DownClose
<1> QED BY <1>1, <1>2, <1>3, <1>4 DEF ThreadStep

\* So do the rounds of the idle thread.
LEMMA IdleLocals ==
    ASSUME FlagsOK, LinesOK, LocalsOK, IdleStep
    PROVE  LocalsOK'
<1> USE DEF LocalsOK
<1>1. Merged(resp[Idler], wire) \in Responses /\ resp[Idler] \in Responses
    BY IdlerFacts DEF Merged, Responses, Lines
<1>2. ReadLines => resp' \in [Threads -> Responses]
    BY <1>1 DEF ReadLines
<1>3. ReadOn => resp' \in [Threads -> Responses] /\ idle' \in IdleType
    <2>1. ReadOn => resp' \in [Threads -> Responses]
        BY <1>2 DEF ReadOn
    <2>2. resp' \in [Threads -> Responses] => resp'[Idler] \in Responses
        BY IdlerFacts
    <2> QED BY <2>1, <2>2 DEF ReadOn, IdleType
<1>4. \A b : TryIdleLock(b) => idle' \in IdleType
    BY DEF TryIdleLock, CanLock, IdleType
<1>5. CASE New
    <2>1. idle_cont \in BOOLEAN
        BY DEF FlagsOK
    <2>2. [idle EXCEPT !.my_cont = idle_cont] \in IdleType
        BY <2>1 DEF IdleType
    <2> QED BY <1>5, <2>2 DEF New
<1>6. CASE Loop
    BY <1>6 DEF Loop, IdleType, Responses
<1>7. CASE Begin
    <2>1. [idle EXCEPT !.first = FALSE] \in IdleType
        BY DEF IdleType
    <2> QED BY <1>4, <1>7, <2>1 DEF Begin
<1>8. CASE IdleRealStart
    BY <1>8 DEF IdleRealStart, IdleType
<1>9. CASE Tell
    BY <1>9 DEF Tell, IdleType
<1>10. CASE Body
    BY <1>2, <1>10 DEF Body
<1>11. CASE Cont
    <2>1. [idle EXCEPT !.senddone = TRUE, !.retval = resp[Idler]] \in IdleType
        BY <1>1 DEF IdleType
    <2> QED BY <1>11, <2>1 DEF Cont
<1>12. CASE Clear
    BY <1>12 DEF Clear, IdleType, Responses
<1>13. CASE EndBody
    BY <1>4, <1>13 DEF EndBody
<1>14. CASE WriteDONE
    BY <1>3, <1>14 DEF WriteDONE
<1>15. CASE ReadDONE
    BY <1>3, <1>15 DEF ReadDONE
<1>16. CASE Unlock
    BY <1>16 DEF Unlock, IdleType
<1>17. CASE After
    BY <1>17 DEF After, IdleType, Responses
<1>18. CASE NextRound
    BY <1>18 DEF NextRound, IdleType
<1>19. CASE Pause
    BY <1>19 DEF Pause
<1>20. CASE End
    BY <1>20 DEF End, IdleType
<1> QED BY <1>5, <1>6, <1>7, <1>8, <1>9, <1>10, <1>11, <1>12, <1>13, <1>14, <1>15, <1>16, <1>17,
           <1>18, <1>19, <1>20 DEF IdleStep

\* The functions keep all types.
LEMMA ThreadData ==
    ASSUME DataOK, NEW t \in Threads, ThreadStep(t)
    PROVE  DataOK'
<1>1. FlagsOK'
    BY StopFlags, StartFlags, CmdFlags, DownFlags DEF DataOK, ThreadStep
<1> QED BY <1>1, ThreadLines, ThreadLocals DEF DataOK

\* So do the rounds of the idle thread.
LEMMA IdleData ==
    ASSUME DataOK, IdleStep
    PROVE  DataOK'
BY IdleFlags, IdleLines, IdleLocals DEF DataOK

\* What callers begin, and what happens without a thread.
LEMMA OtherData ==
    ASSUME DataOK,
           \/ \E t \in Callers : Work(t) \/ Disconnect(t) \/ SetPushEmail(t)
           \/ Offline
           \/ \E line \in Lines : Say(line)
    PROVE  DataOK'
<1> USE DEF flags, mode, lines, bounds
<1>1. ASSUME NEW t \in Callers, Work(t) \/ Disconnect(t) \/ SetPushEmail(t) PROVE DataOK'
    <2>1. FlagsOK'
        <3>1. CASE Work(t) \/ Disconnect(t)
            BY <3>1 DEF DataOK, FlagsOK, Work, Disconnect
        <3>2. CASE SetPushEmail(t)
            BY <3>2 DEF DataOK, FlagsOK, SetPushEmail
        <3> QED BY <1>1, <3>1, <3>2
    <2>2. LinesOK' /\ LocalsOK'
        BY <1>1 DEF DataOK, LinesOK, LocalsOK, Work, Disconnect, SetPushEmail
    <2>3. BoundsOK'
        BY <1>1, BoundAssumption DEF DataOK, BoundsOK, Work, Disconnect, SetPushEmail, CanCall
    <2> QED BY <2>1, <2>2, <2>3 DEF DataOK
<1>2. CASE Offline
    <2>1. FlagsOK'
        BY <1>2 DEF DataOK, FlagsOK, Offline
    <2>2. LinesOK' /\ LocalsOK'
        BY <1>2 DEF DataOK, LinesOK, LocalsOK, Offline
    <2>3. BoundsOK'
        BY <1>2, BoundAssumption DEF DataOK, BoundsOK, Offline
    <2> QED BY <2>1, <2>2, <2>3 DEF DataOK
<1>3. ASSUME NEW line \in Lines, Say(line) PROVE DataOK'
    <2>1. FlagsOK'
        BY <1>3 DEF DataOK, FlagsOK, Say
    <2>2. LinesOK' /\ LocalsOK'
        BY <1>3 DEF DataOK, LinesOK, LocalsOK, Say
    <2>3. BoundsOK'
        BY <1>3, BoundAssumption DEF DataOK, BoundsOK, Say
    <2> QED BY <2>1, <2>2, <2>3 DEF DataOK
<1> QED BY <1>1, <1>2, <1>3

-----------------------------------------------------------------------------
\* The inductive invariant of the safety properties.

IdleInv == DataOK /\ ControlInv /\ LifeInv

\* The invariant holds at the start.
LEMMA InitIdle == Init => IdleInv
<1> SUFFICES ASSUME Init PROVE IdleInv
    OBVIOUS
<1> USE DEF Init
<1>1. DataOK
    <2>1. FlagsOK
        BY DEF FlagsOK
    <2>2. LinesOK
        BY DEF LinesOK
    <2>3. LocalsOK
        BY DEF LocalsOK, Responses, IdleType
    <2>4. BoundsOK
        BY BoundAssumption DEF BoundsOK
    <2> QED BY <2>1, <2>2, <2>3, <2>4 DEF DataOK
<1>2. stack = [t \in Threads |-> <<>>] /\ Idler \in Threads
    BY IdlerFacts
<1>3. Place = "dead" /\ \A t \in Threads : pc[t] = IF t = Idler THEN "dead" ELSE "free"
    BY <1>2 DEF Place, Base
<1>4. ControlInv
    <2>1. pc \in [Threads -> Labels] /\ stack \in [Threads -> Seq(Labels)]
        BY <1>2 DEF Labels, CallerLabels, IdlerLabels
    <2>2. held \in [Locks -> [Threads -> Nat]] /\ \A l \in Locks, t \in Threads : held[l][t] = 0
        OBVIOUS
    <2>3. idle.locked = FALSE
        OBVIOUS
    <2>4. \A t \in Threads : StackOK(t, pc[t], stack[t])
        BY <1>2, <1>3 DEF StackOK, Bottom, IdlerLabels
    <2>5. ASSUME NEW l \in Locks, NEW t \in Threads
          PROVE  Balance(l, pc[t], stack[t], held[l][t] - Extra(l, t))
        <3>1. Extra(l, t) = 0 /\ Own(l, pc[t]) = 0 /\ held[l][t] = 0
            BY <2>2, <2>3, <1>3 DEF Extra, Own, Owns
        <3>2. Below(l, stack[t], 0)
            BY <1>2, BelowEmpty
        <3> QED BY <3>1, <3>2 DEF Balance
    <2> QED BY <2>1, <2>2, <2>3, <2>4, <2>5 DEF ControlInv
<1>5. LifeInv
    <2>1. \A t \in Threads : On(t) = {}
        BY <1>2 DEF On
    <2> QED BY <1>3, <2>1 DEF LifeInv
<1> QED BY <1>1, <1>4, <1>5 DEF IdleInv

\* Every step keeps the invariant.
LEMMA NextIdle == IdleInv /\ [Next]_vars => IdleInv'
<1> SUFFICES ASSUME IdleInv, [Next]_vars PROVE IdleInv'
    OBVIOUS
<1> USE DEF IdleInv
<1>1. ASSUME NEW t \in Threads, ThreadStep(t) PROVE IdleInv'
    <2>1. DataOK'
        BY <1>1, ThreadData
    <2>2. pc[t] = "start_new" => in_idle \/ Place = "dead"
        BY DEF LifeInv
    <2> QED BY <1>1, <2>1, <2>2, StopControl, StartControl, CmdControl, DownControl,
               StopLife, StartLife, WorkLife DEF ThreadStep
<1>2. CASE IdleStep
    BY <1>2, IdleData, IdleControl, IdleLife DEF DataOK, LocalsOK, IdleType
<1>3. ASSUME NEW t \in Callers, Work(t) \/ Disconnect(t) \/ SetPushEmail(t) PROVE IdleInv'
    BY <1>3, OtherData, BeginControl, BeginLife
<1>4. CASE Offline
    <2>1. UNCHANGED <<pc, stack, held, idle, in_idle, idle_thread>>
        BY <1>4 DEF Offline, flags
    <2> QED BY <1>4, <2>1, OtherData, NobodyControl, NobodyLife
<1>5. ASSUME NEW line \in Lines, Say(line) PROVE IdleInv'
    <2>1. UNCHANGED <<pc, stack, held, idle, in_idle, idle_thread>>
        BY <1>5 DEF Say, flags
    <2> QED BY <1>5, <2>1, OtherData, NobodyControl, NobodyLife
<1>6. CASE UNCHANGED vars
    <2>1. UNCHANGED <<pc, stack, held, idle, in_idle, idle_thread>>
        BY <1>6 DEF vars, flags
    <2>2. DataOK'
        BY <1>6 DEF vars, DataOK, FlagsOK, LinesOK, LocalsOK, BoundsOK, flags, mode, lines, bounds
    <2> QED BY <2>1, <2>2, NobodyControl, NobodyLife
<1> QED BY <1>1, <1>2, <1>3, <1>4, <1>5, <1>6 DEF Next

\* The flags, the lines, the program counters and the stacks have their types.
THEOREM IdleTypeCorrect == Spec => []TypeOK
<1>1. IdleInv => TypeOK
    BY DEF IdleInv, DataOK, FlagsOK, LinesOK, LocalsOK, BoundsOK, IdleType, ControlInv, Labels,
           TypeOK
<1> QED BY <1>1, InitIdle, NextIdle, PTL DEF Spec

\* A thread that has returned from all functions of the store, and an idle thread
\* that has ended, have released all four locks as often as they took them.
THEOREM EveryLockGivenBack == Spec => []LocksGivenBack
<1>1. IdleInv => LocksGivenBack
    <2> SUFFICES ASSUME IdleInv, NEW t \in Threads, pc[t] \in {"free", "dead"}, NEW l \in Locks
                 PROVE  held[l][t] = 0
        BY DEF LocksGivenBack
    <2>1. StackOK(t, pc[t], stack[t]) /\ held[l][t] \in Nat
          /\ Balance(l, pc[t], stack[t], held[l][t] - Extra(l, t))
        BY DEF IdleInv, ControlInv
    <2>2. pc[t] \notin Inner(t) /\ Own(l, pc[t]) = 0
        BY DEF Inner, Deep, Starts, StartLabels, CallerLabels, Own, Owns
    <2>3. stack[t] = <<>>
        BY <2>1, <2>2 DEF StackOK
    <2>4. Extra(l, t) = 0
        <3>1. CASE t = Idler
            <4>1. Place = pc[Idler]
                BY <2>3, <3>1 DEF Place, Base
            <4> QED BY <3>1, <4>1 DEF IdleInv, ControlInv, TryLabels, Extra
        <3>2. CASE t # Idler
            BY <3>2 DEF Extra
        <3> QED BY <3>1, <3>2
    <2>5. PICK v \in Nat : Below(l, stack[t], v) /\ held[l][t] - Extra(l, t) = v + Own(l, pc[t])
        BY <2>1 DEF Balance
    <2>6. v = 0
        BY <2>3, <2>5, BelowEmpty
    <2> QED BY <2>1, <2>2, <2>4, <2>5, <2>6
<1> QED BY <1>1, InitIdle, NextIdle, PTL DEF Spec

\* start_idle finds in_idle set only while an idle thread is there, or while the
\* creator of one that ended early waits.
THEOREM InIdleTellsOfThread == Spec => []InIdleHasThread
<1>1. IdleInv => InIdleHasThread
    BY AtPlace DEF IdleInv, LifeInv, InIdleHasThread, Bottom, IdlerLabels
<1> QED BY <1>1, InitIdle, NextIdle, PTL DEF Spec

\* No idle thread is created while another one is there: it has been joined, or
\* has cleared in_idle and ended.
THEOREM OneIdlerAtATime == Spec => OneIdler
<1>1. ASSUME IdleInv, [Next]_vars, pc'[Idler] = "new", pc[Idler] # "new"
      PROVE  pc[Idler] = "dead"
    <2> USE DEF IdleInv
    <2>1. pc'[Idler] # pc[Idler]
        BY <1>1
    <2>2. PICK t \in Threads : ThreadStep(t)
        <3>1. ~IdleStep
            BY <1>1, IdleMoves
        <3>2. \A t \in Callers : ~Work(t) /\ ~Disconnect(t) /\ ~SetPushEmail(t)
            <4>1. ASSUME NEW t \in Callers, NEW q, Call(t, q) PROVE pc'[Idler] = pc[Idler]
                BY <1>1, <4>1, IdlerFacts, CallersAssumption DEF Call, ControlInv
            <4> QED BY <2>1, <4>1 DEF Work, Disconnect, SetPushEmail
        <3>3. ~Offline /\ \A line \in Lines : ~Say(line)
            BY <2>1 DEF Offline, Say
        <3>4. ~UNCHANGED vars
            BY <2>1 DEF vars
        <3> QED BY <1>1, <3>1, <3>2, <3>3, <3>4 DEF Next
    <2>3. Place' = "new"
        <3>1. ControlInv'
            BY <1>1, NextIdle
        <3>2. "new" \in Bottom(Idler) /\ StackOK(Idler, pc'[Idler], stack'[Idler])
            BY <3>1, IdlerFacts DEF Bottom, IdlerLabels, ControlInv
        <3>3. stack'[Idler] = <<>>
            BY <1>1, <3>2, LabelFacts DEF StackOK
        <3> QED BY <1>1, <3>3 DEF Place, Base
    <2>4. Place # "new"
        BY <1>1, AtPlace DEF Returns
    <2>5. pc[t] = "start_new" => in_idle \/ Place = "dead"
        BY <1>1 DEF LifeInv
    <2>6. StartNew(t) /\ ~in_idle
        BY <1>1, <2>2, <2>3, <2>4, <2>5, StopControl, StartControl, CmdControl, DownControl
           DEF ThreadStep
    <2>7. Place = "dead"
        BY <2>5, <2>6 DEF StartNew
    <2> QED BY <1>1, <2>7, AtPlace DEF Returns
<1>2. IdleInv /\ [Next]_vars => [pc'[Idler] = "new" => pc[Idler] \in {"dead", "new"}]_vars
    BY <1>1
<1> QED BY <1>2, InitIdle, NextIdle, PTL DEF Spec, OneIdler

-----------------------------------------------------------------------------
\* Who stopped the idle thread.

\* in_idle is cleared under a thread only after it was told to end, and who goes on
\* without joining it has found that.
KillInv ==
    /\ \A t \in Threads : pc[t] = "store_stop_done" => idle_kill
    /\ Place # "dead" /\ ~in_idle => idle_kill
    /\ \A t \in Threads \ {Idler} :
           pc[t] = "stop_end" \/ "stop_end" \in On(t) => Place = "dead" \/ idle_kill
    /\ pc[Idler] \in {"stop_t", "stop_end"} => ~idle_cont
    /\ "stop_end" \notin On(Idler)

\* A step that has nothing to do with it.
Calm(t) ==
    /\ Moves(t, Labels \ {"store_stop_done", "stop_t", "stop_end"}, Labels \ {"stop_end"})
    /\ (idle_kill => idle_kill') /\ (~idle_cont => ~idle_cont')
    /\ in_idle' = in_idle /\ Place' = Place

\* A step that neither stops nor creates the idle thread.
LEMMA CalmKill ==
    ASSUME ControlInv, KillInv, NEW t \in Threads, Calm(t)
    PROVE  KillInv'
<1>1. \A u \in Threads : "stop_end" \in On(u)' => "stop_end" \in On(u)
    BY MovesOn DEF Calm
<1> USE DEF KillInv, Calm, Moves
<1>2. \A u \in Threads : pc'[u] = "stop_end" => pc[u] = "stop_end" \/ "stop_end" \in On(u)
    OBVIOUS
<1>3. \A u \in Threads : pc'[u] = "store_stop_done" => pc[u] = "store_stop_done"
    BY DEF Returns
<1>4. \A u \in Threads : pc'[u] = "stop_t" => pc[u] = "stop_t"
    BY DEF Returns
<1>5. "stop_end" \notin On(Idler)' /\ (pc'[Idler] \in {"stop_t", "stop_end"} => ~idle_cont')
    BY <1>1, <1>2, <1>4, IdlerFacts
<1> QED BY <1>1, <1>2, <1>3, <1>5

\* Stopping IDLE (camel_imap_store_stop_idle, camel_imap_folder_stop_idle).
LEMMA StopKill ==
    ASSUME ControlInv, LifeInv, KillInv, NEW t \in Threads, StopStep(t)
    PROVE  KillInv'
<1> USE DEF Deep, StartLabels, CallerLabels, Labels, Returns
<1>0. Place' = Place
    BY StopControl
<1>1. CASE StoreStop(t)
    <2>1. Calm(t)
        BY <1>0, <1>1, GotoMoves DEF StoreStop, Calm, flags, Moves
    <2> QED BY <2>1, CalmKill
<1>2. CASE StoreStopPrefix(t)
    <2>1. Moves(t, {"store_stop_done"}, {}) /\ pc'[t] = "store_stop_done"
        BY <1>2, GotoMoves DEF StoreStopPrefix
    <2>2. idle_kill' = TRUE /\ idle_cont' = FALSE
        BY <1>2 DEF StoreStopPrefix
    <2>3. "stop_end" \notin On(Idler)'
        BY <2>1, MovesOn, IdlerFacts DEF KillInv
    <2> QED BY <2>2, <2>3 DEF KillInv
<1>3. CASE StoreStopDone(t)
    <2>1. Moves(t, {}, {}) /\ pc[t] = "store_stop_done"
        BY <1>3, ReturnMoves DEF StoreStopDone
    <2>2. idle_kill' = idle_kill /\ idle_kill /\ idle_cont' = idle_cont
        BY <1>3, <2>1 DEF StoreStopDone, KillInv
    <2>3. "stop_end" \notin On(Idler)'
        BY <2>1, MovesOn, IdlerFacts DEF KillInv
    <2>4. pc'[Idler] \in {"stop_t", "stop_end"} => ~idle_cont'
        BY <2>1, <2>2, IdlerFacts DEF Moves, KillInv
    <2> QED BY <2>2, <2>3, <2>4 DEF KillInv
<1>4. CASE Stop(t)
    <2>1. Moves(t, {"stop_t"}, {})
        BY <1>4, GotoMoves, ReturnMoves DEF Stop, Moves
    <2>2. idle_cont' = FALSE /\ UNCHANGED <<idle_kill, in_idle>>
        BY <1>4 DEF Stop
    <2>3. \A u \in Threads : "stop_end" \in On(u)' => "stop_end" \in On(u)
        BY <2>1, MovesOn
    <2>4. \A u \in Threads : pc'[u] = "stop_end" => pc[u] = "stop_end" \/ "stop_end" \in On(u)
        BY <2>1 DEF Moves
    <2>5. \A u \in Threads : pc'[u] = "store_stop_done" => pc[u] = "store_stop_done"
        BY <2>1 DEF Moves
    <2> QED BY <1>0, <2>2, <2>3, <2>4, <2>5, IdlerFacts DEF KillInv
<1>5. CASE StopT(t)
    <2>1. pc[t] = "stop_t" /\ UNCHANGED <<idle_kill, in_idle>> /\ (~idle_cont => ~idle_cont')
        BY <1>5 DEF StopT
    <2>2. Moves(t, {"stop_join", "stop_end"}, {})
        BY <1>5, GotoMoves DEF StopT, Moves
    <2>3. t # Idler /\ pc'[t] = "stop_end" => Place = "dead" \/ idle_kill
        <3>1. CASE t # Idler /\ in_idle /\ idle_thread
            <4>1. pc'[t] = "stop_join"
                BY <1>5, <3>1, GotoMoves DEF StopT
            <4> QED BY <4>1
        <3>2. CASE ~(in_idle /\ idle_thread)
            BY <3>2 DEF LifeInv, KillInv
        <3> QED BY <3>1, <3>2
    <2>4. t = Idler => ~idle_cont'
        BY <2>1 DEF KillInv
    <2>5. \A u \in Threads : "stop_end" \in On(u)' => "stop_end" \in On(u)
        BY <2>2, MovesOn
    <2>6. \A u \in Threads \ {t} : pc'[u] = pc[u]
        BY <2>2 DEF Moves
    <2>7. pc'[t] # "store_stop_done"
        BY <2>2 DEF Moves
    <2>8. \A u \in Threads \ {Idler} :
              pc'[u] = "stop_end" \/ "stop_end" \in On(u)' => Place' = "dead" \/ idle_kill'
        BY <1>0, <2>1, <2>3, <2>5, <2>6 DEF KillInv
    <2> QED BY <1>0, <2>1, <2>4, <2>5, <2>6, <2>7, <2>8, IdlerFacts DEF KillInv
<1>6. CASE StopJoin(t)
    <2>1. Calm(t)
        BY <1>0, <1>6, GotoMoves DEF StopJoin, Join, Calm, flags, Moves
    <2> QED BY <2>1, CalmKill
<1>7. CASE StopIdleLock(t)
    <2>1. Calm(t)
        BY <1>0, <1>7, GotoMoves DEF StopIdleLock, Calm, flags, Moves
    <2> QED BY <2>1, CalmKill
<1>8. CASE StopPrefix(t)
    <2>1. pc[t] = "stop_prefix" /\ UNCHANGED <<idle_kill, idle_cont>>
        BY <1>8 DEF StopPrefix
    <2>2. Place' = "dead" /\ Place = "dead"
        BY <1>0, <2>1 DEF LifeInv
    <2>3. t # Idler
        BY <2>1, <2>2, AtPlace
    <2>4. Moves(t, {"stop_end", "process"}, {"stop_end"})
        BY <1>8, GotoMoves, Call2Moves DEF StopPrefix, Moves
    <2>5. pc'[Idler] = pc[Idler] /\ On(Idler)' = On(Idler)
        BY <2>3, <2>4, IdlerFacts DEF Moves, On
    <2>6. \A u \in Threads : pc'[u] = "store_stop_done" => pc[u] = "store_stop_done"
        BY <2>4 DEF Moves
    <2> QED BY <2>1, <2>2, <2>5, <2>6 DEF KillInv
<1>9. CASE StopEnd(t)
    <2>1. Calm(t)
        BY <1>0, <1>9, ReturnMoves DEF StopEnd, Calm, Moves
    <2> QED BY <2>1, CalmKill
<1> QED BY <1>1, <1>2, <1>3, <1>4, <1>5, <1>6, <1>7, <1>8, <1>9 DEF StopStep

\* Starting IDLE (camel_imap_folder_start_idle).
LEMMA StartKill ==
    ASSUME ControlInv, LifeInv, KillInv, NEW t \in Threads, StartStep(t)
    PROVE  KillInv'
<1> USE DEF Deep, StartLabels, CallerLabels, Labels, Returns
<1>0. pc[t] = "start_new" => in_idle \/ Place = "dead"
    BY DEF LifeInv
<1>a. Place' = IF StartNew(t) /\ ~in_idle THEN "new" ELSE Place
    BY <1>0, StartControl
<1>1. CASE Start(t)
    <2>1. Calm(t)
        BY <1>a, <1>1, GotoMoves, ReturnMoves DEF Start, StartNew, Calm, Moves, flags
    <2> QED BY <2>1, CalmKill
<1>2. CASE StartIdleLock(t)
    <2>1. Calm(t)
        BY <1>a, <1>2, GotoMoves DEF StartIdleLock, StartNew, Calm, Moves, flags
    <2> QED BY <2>1, CalmKill
<1>3. CASE StartPrefix(t)
    <2>1. Calm(t)
        BY <1>a, <1>3, GotoMoves, ReturnMoves DEF StartPrefix, StartNew, Calm, Moves, flags
    <2> QED BY <2>1, CalmKill
<1>4. CASE StartT(t)
    <2>1. Calm(t)
        BY <1>a, <1>4, GotoMoves DEF StartT, StartNew, Calm, Moves
    <2> QED BY <2>1, CalmKill
<1>5. CASE StartJoin(t)
    <2>1. Calm(t)
        BY <1>a, <1>5, GotoMoves, Call2Moves DEF StartJoin, StartNew, Calm, Moves
    <2> QED BY <2>1, CalmKill
<1>6. CASE StartNew(t) /\ in_idle
    <2>1. Calm(t)
        BY <1>a, <1>6, ReturnMoves DEF StartNew, Calm, Moves, flags
    <2> QED BY <2>1, CalmKill
<1>7. CASE StartNew(t) /\ ~in_idle
    <2>1. /\ pc[t] = "start_new" /\ in_idle' = TRUE /\ stack' = stack
          /\ pc' = [pc EXCEPT ![t] = "start_wait", ![Idler] = "new"]
        BY <1>7 DEF StartNew
    <2>2. \A u \in Threads : /\ On(u)' = On(u)
                             /\ (pc'[u] = pc[u] /\ u # t) \/ pc'[u] \in {"start_wait", "new"}
        BY <2>1, IdlerFacts DEF On, ControlInv
    <2>3. ASSUME NEW u \in Threads, NEW a \in On(u) \cup {pc[u]},
                 a \in {"stop_end", "store_stop_done"}
          PROVE  t = u
        <3>1. CASE a = "stop_end"
            BY <2>1, <2>3, <3>1, Alone DEF Owns, Locks
        <3>2. CASE a = "store_stop_done"
            BY <2>1, <2>3, <3>2, Alone DEF Owns, Locks
        <3> QED BY <2>3, <3>1, <3>2
    <2>4. "stop_end" \notin On(t)
        <3> DEFINE s == stack[t]
        <3>1. StackOK(t, pc[t], s) /\ s \in Seq(Labels) /\ pc[t] \in Starts(t) /\ t # Idler
            BY <2>1, InFunction DEF ControlInv
        <3>2. pc[t] \notin Bottom(t) /\ Bottom(t) = {"free"}
            BY <2>1, <3>1 DEF Bottom
        <3>3. Len(s) = 1 /\ s[Len(s)] = "free"
            BY <3>1, <3>2 DEF StackOK
        <3> HIDE DEF s
        <3>4. \A k \in 1 .. Len(s) : s[k] # "stop_end"
            BY <3>3
        <3> QED BY <3>4 DEF On, s
    <2>5. \A u \in Threads : "stop_end" \notin On(u)'
        BY <2>2, <2>3, <2>4
    <2>6. \A u \in Threads : pc'[u] \notin {"stop_end", "store_stop_done"}
        BY <2>2, <2>3
    <2>7. pc'[Idler] = "new"
        BY <2>1, InFunction, IdlerFacts DEF ControlInv
    <2> QED BY <2>1, <2>5, <2>6, <2>7, IdlerFacts DEF KillInv
<1>8. CASE StartWait(t)
    <2>1. Calm(t)
        BY <1>a, <1>8, ReturnMoves DEF StartWait, StartNew, Calm, Moves, flags
    <2> QED BY <2>1, CalmKill
<1> QED BY <1>1, <1>2, <1>3, <1>4, <1>5, <1>6, <1>7, <1>8 DEF StartStep

\* Commands, disconnecting and what callers begin.
LEMMA OtherKill ==
    ASSUME ControlInv, KillInv,
           \/ \E t \in Threads : CmdStep(t) \/ DownStep(t)
           \/ \E t \in Callers : Work(t) \/ Disconnect(t) \/ SetPushEmail(t)
    PROVE  KillInv'
<1>1. ASSUME NEW t \in Threads, CmdStep(t) \/ DownStep(t) PROVE KillInv'
    <2>1. Calm(t)
        BY <1>1, WorkMoves DEF Calm, Moves, Labels, CallerLabels
    <2> QED BY <2>1, CalmKill
<1>2. ASSUME NEW t \in Callers, Work(t) \/ Disconnect(t) \/ SetPushEmail(t) PROVE KillInv'
    <2>1. t \in Threads /\ Calm(t)
        BY <1>2, BeginMoves DEF Calm, Moves, Labels, CallerLabels, flags
    <2> QED BY <2>1, CalmKill
<1> QED BY <1>1, <1>2

\* The rounds of the idle thread.
LEMMA IdleKill ==
    ASSUME ControlInv, LifeInv, KillInv, IdleStep, idle \in IdleType
    PROVE  KillInv'
<1>1. pc[Idler] = Place /\ Place' = IdlePlace
    BY IdleControl DEF IdleType
<1>2. /\ Moves(Idler, IdlerLabels \cup {"process", "die"},
               {"clear", "next", "store_stop", "down_close", "unlock"})
      /\ pc'[Idler] \in IdlerLabels \cup {"process", "die"} /\ pc[Idler] # "dead"
    BY IdleMoves
<1>3. \A u \in Threads \ {Idler} : pc'[u] = pc[u] /\ On(u)' = On(u)
    BY <1>2 DEF Moves, On
<1>4. "stop_end" \notin On(Idler)'
    BY <1>2 DEF Moves, KillInv
<1>5. pc'[Idler] \notin {"store_stop_done", "stop_t", "stop_end"}
    BY <1>2 DEF IdlerLabels
<1>6. /\ idle_kill' = idle_kill
      /\ in_idle' = in_idle \/ Place' = "dead"
    BY <1>1, IdlerFacts DEF IdleStep, New, Loop, Begin, IdleRealStart, Tell, Body, Cont, Clear,
           EndBody, WriteDONE, ReadDONE, Unlock, After, NextRound, Pause, End, flags, IdlePlace,
           Goto, ControlInv, IdlerLabels
<1> QED BY <1>1, <1>2, <1>3, <1>4, <1>5, <1>6 DEF KillInv

-----------------------------------------------------------------------------
\* What the idle thread knows of IDLE.

\* IDLE has ended.
Ended == server = "command" \/ ~connected

\* Or the thread does not go on.
Over == Ended \/ idle_kill \/ ~idle_cont

\* The rounds of the thread after it told its creator.
Rounds == {"body", "cont", "clear", "end_body", "write_done", "read_done", "unlock", "after",
           "next", "pause"}

\* idle_prefix is only missing when IDLE is over, so the thread ends IDLE before it
\* wants to start it again (first).
DoneInv ==
    /\ Place \in Rounds => idle.had_cond
    /\ Place \in {"new", "loop"} /\ ~idle.had_cond => idle.first
    /\ Place \notin {"dead", "new"} /\ (idle.had_cond \/ Place = "tell") => idle_prefix \/ Over
    /\ Place \in {"read_done", "unlock", "after", "next"} => Over
    /\ idle.first /\ (idle.had_cond \/ Place = "tell")
           /\ Place \notin {"begin", "write_idle", "dead", "new", "end"} => Over
    /\ Place \in {"begin", "write_idle"} /\ idle.had_cond => Ended

\* The other threads end IDLE, stop the idle thread, or do not touch either.
LEMMA KeptDone ==
    ASSUME DoneInv, Place' = Place, idle.had_cond' = idle.had_cond, idle.first' = idle.first,
           Ended => Ended', Over => Over', idle_prefix => idle_prefix' \/ Over' \/ Place = "dead"
    PROVE  DoneInv'
BY DEF DoneInv

\* Stopping IDLE: idle_prefix goes with a DONE, or when the thread is told to end.
LEMMA StopDone ==
    ASSUME ControlInv, KillInv, DoneInv, idle \in IdleType, NEW t \in Threads, StopStep(t)
    PROVE  DoneInv'
<1>0. Place' = Place
    BY StopControl
<1>1. /\ idle.had_cond' = idle.had_cond /\ idle.first' = idle.first /\ connected' = connected
      /\ server' = server \/ server' = "command"
    <2>1. CASE StopJoin(t)
        BY <2>1 DEF StopJoin, Join, IdleType, mode, lines
    <2>2. CASE ~StopJoin(t)
        <3>1. idle' = idle /\ connected' = connected
            BY <2>2 DEF StopStep, StoreStop, StoreStopPrefix, StoreStopDone, Stop, StopT,
                   StopIdleLock, StopPrefix, StopEnd, mode
        <3>2. server' = server \/ server' = "command"
            BY <2>2 DEF StopStep, StoreStop, StoreStopPrefix, StoreStopDone, Stop, StopT,
                   StopIdleLock, StopPrefix, StopEnd, lines
        <3> QED BY <3>1, <3>2
    <2> QED BY <2>1, <2>2
<1>2. (idle_kill => idle_kill') /\ (~idle_cont => ~idle_cont')
    BY DEF StopStep, StoreStop, StoreStopPrefix, StoreStopDone, Stop, StopT, StopJoin,
           StopIdleLock, StopPrefix, StopEnd, flags
<1>3. (Ended => Ended') /\ (Over => Over')
    BY <1>1, <1>2 DEF Ended, Over
<1>4. idle_prefix => idle_prefix' \/ Over' \/ Place = "dead"
    <2>1. CASE StoreStopDone(t)
        BY <2>1 DEF StoreStopDone, Over, Ended
    <2>2. CASE StopEnd(t)
        <3>1. pc[t] = "stop_end"
            BY <2>2 DEF StopEnd
        <3>2. Place = "dead" \/ idle_kill \/ ~idle_cont
            BY <3>1 DEF KillInv
        <3> QED BY <1>2, <3>2 DEF Over
    <2>3. CASE ~StoreStopDone(t) /\ ~StopEnd(t)
        BY <2>3 DEF StopStep, StoreStop, StoreStopPrefix, Stop, StopT, StopJoin, StopIdleLock,
               StopPrefix, flags
    <2> QED BY <2>1, <2>2, <2>3
<1> QED BY <1>0, <1>1, <1>3, <1>4, KeptDone

\* Starting IDLE.
LEMMA StartDone ==
    ASSUME ControlInv, LifeInv, DoneInv, idle \in IdleType, NEW t \in Threads, StartStep(t)
    PROVE  DoneInv'
<1>0. pc[t] = "start_new" => in_idle \/ Place = "dead"
    BY DEF LifeInv
<1>1. Place' = IF StartNew(t) /\ ~in_idle THEN "new" ELSE Place
    BY <1>0, StartControl
<1>2. CASE StartNew(t) /\ ~in_idle
    <2>1. Place' = "new" /\ idle.first' = TRUE /\ idle.had_cond' = FALSE
        BY <1>1, <1>2 DEF StartNew, NewThread
    <2> QED BY <2>1 DEF DoneInv, Rounds
<1>3. CASE ~(StartNew(t) /\ ~in_idle)
    <2>1. /\ idle.had_cond' = idle.had_cond /\ idle.first' = idle.first
          /\ UNCHANGED <<server, connected, idle_kill, idle_prefix>> /\ (~idle_cont => ~idle_cont')
        <3>1. CASE StartJoin(t)
            BY <3>1 DEF StartJoin, IdleType, mode, lines
        <3>2. CASE ~StartJoin(t)
            BY <1>3, <3>2 DEF StartStep, Start, StartIdleLock, StartPrefix, StartT, StartNew,
                   StartWait, mode, lines, flags
        <3> QED BY <3>1, <3>2
    <2> QED BY <1>1, <1>3, <2>1, KeptDone DEF Over, Ended
<1> QED BY <1>2, <1>3

\* Commands and disconnecting: what they write ends IDLE.
LEMMA WorkDone ==
    ASSUME ControlInv, DoneInv, NEW t \in Threads, CmdStep(t) \/ DownStep(t)
    PROVE  DoneInv'
<1>1. /\ Place' = Place /\ idle' = idle
      /\ (idle_kill => idle_kill') /\ (~idle_cont => ~idle_cont')
    BY WorkMoves
<1>2. \/ connected' = connected /\ (server' = server \/ server' = "command")
      \/ server' = "command"
    <2>1. CASE CmdStep(t)
        BY <2>1 DEF CmdStep, CmdLock, CmdOpen, CmdAgain, CmdWrite, WriteLine, CmdRead,
               CmdEnd, Process, Fetched, mode, lines
    <2>2. CASE DownStep(t)
        BY <2>2 DEF DownStep, Die, DiePrefix, Down, DownClose, mode, lines
    <2> QED BY <2>1, <2>2
<1>3. idle_prefix => idle_prefix' \/ idle_kill'
    <2>1. CASE CmdStep(t)
        BY <2>1 DEF CmdStep, CmdLock, CmdOpen, CmdAgain, CmdWrite, CmdRead, CmdEnd, Process,
               Fetched, flags
    <2>2. CASE DownStep(t)
        BY <2>2 DEF DownStep, Die, DiePrefix, Down, DownClose, flags
    <2> QED BY <2>1, <2>2
<1> QED BY <1>1, <1>2, <1>3, KeptDone DEF Over, Ended

\* What callers begin, and what happens without a thread.
LEMMA OtherDone ==
    ASSUME ControlInv, DoneInv,
           \/ \E t \in Callers : Work(t) \/ Disconnect(t) \/ SetPushEmail(t)
           \/ Offline
           \/ \E line \in Lines : Say(line)
           \/ UNCHANGED vars
    PROVE  DoneInv'
<1>1. UNCHANGED <<flags, server, connected, idle>>
    BY DEF Work, Disconnect, SetPushEmail, Offline, Say, vars, mode, lines
<1>2. Place' = Place
    <2>1. CASE \E t \in Callers : Work(t) \/ Disconnect(t) \/ SetPushEmail(t)
        BY <2>1, BeginControl
    <2>2. CASE UNCHANGED <<pc, stack>>
        BY <2>2 DEF Place, Base
    <2> QED BY <2>1, <2>2 DEF Offline, Say, vars
<1> QED BY <1>1, <1>2, KeptDone DEF flags, Over, Ended

\* The idle thread itself.
LEMMA IdleDone ==
    ASSUME ControlInv, LifeInv, DoneInv, IdleStep, idle \in IdleType
    PROVE  DoneInv'
<1> USE DEF DoneInv, IdlerLabels, Over, Ended, Rounds, IdleType, flags, mode, lines
<1>0. pc[Idler] = Place /\ Place' = IdlePlace
    BY IdleControl
<1>a. ASSUME NEW b \in IdlerLabels, Goto(Idler, b) PROVE Place' = b
    BY <1>0, <1>a, GotoMoves, IdlerFacts DEF IdlePlace
<1>b. \A q : Call(Idler, q) => Place' \in {pc'[Idler], "clear", "next", "unlock"}
    BY <1>0 DEF IdlePlace
<1>1. CASE New
    BY <1>0, <1>1, <1>a DEF New, LifeInv
<1>2. CASE Loop
    BY <1>0, <1>2, <1>a DEF Loop
<1>3. CASE Begin
    BY <1>0, <1>3, <1>a DEF Begin, TryIdleLock
<1>4. CASE IdleRealStart
    BY <1>0, <1>4, <1>a DEF IdleRealStart
<1>5. CASE Tell
    BY <1>0, <1>5, <1>a DEF Tell
<1>6. CASE Body
    BY <1>0, <1>6, <1>a DEF Body
<1>7. CASE Cont
    <2>1. Place' \in {"clear", "end_body"}
        <3>1. CASE Goto(Idler, "end_body")
            BY <1>a, <3>1
        <3>2. CASE Call(Idler, <<"process", "clear">>)
            <4>1. pc'[Idler] = "process"
                BY <3>2, IdlerFacts, Call2Moves DEF Labels
            <4> QED BY <1>0, <1>7, <4>1 DEF IdlePlace, Cont
        <3> QED BY <1>7, <3>1, <3>2 DEF Cont
    <2> QED BY <1>0, <1>7, <2>1 DEF Cont
<1>8. CASE Clear
    BY <1>0, <1>8, <1>a DEF Clear
<1>9. CASE EndBody
    BY <1>0, <1>9, <1>a DEF EndBody, TryIdleLock
<1>10. CASE WriteDONE
    BY <1>0, <1>10, <1>a DEF WriteDONE, WriteLine, ReadOn
<1>11. CASE ReadDONE
    <2>1. Place' = "unlock"
        <3>1. CASE Goto(Idler, "unlock")
            BY <1>a, <3>1
        <3>2. CASE Call(Idler, <<"die", "store_stop", "down_close", "unlock">>)
            <4>1. pc'[Idler] = "die"
                BY <3>2, IdlerFacts, Call4Moves DEF Labels, CallerLabels
            <4> QED BY <1>0, <1>11, <4>1 DEF IdlePlace, ReadDONE
        <3> QED BY <1>11, <3>1, <3>2 DEF ReadDONE
    <2> QED BY <1>0, <1>11, <2>1 DEF ReadDONE, ReadOn
<1>12. CASE Unlock
    BY <1>0, <1>12, <1>a DEF Unlock
<1>13. CASE After
    <2>1. Place' = "next"
        <3>1. CASE Goto(Idler, "next")
            BY <1>a, <3>1
        <3>2. CASE Call(Idler, <<"process", "next">>)
            <4>1. pc'[Idler] = "process"
                BY <3>2, IdlerFacts, Call2Moves DEF Labels
            <4> QED BY <1>0, <1>13, <4>1 DEF IdlePlace, After
        <3> QED BY <1>13, <3>1, <3>2 DEF After
    <2> QED BY <1>0, <1>13, <2>1 DEF After
<1>14. CASE NextRound
    BY <1>0, <1>14, <1>a DEF NextRound
<1>15. CASE Pause
    BY <1>0, <1>15, <1>a DEF Pause
<1>16. CASE End
    BY <1>0, <1>16, <1>a DEF End
<1> QED BY <1>1, <1>2, <1>3, <1>4, <1>5, <1>6, <1>7, <1>8, <1>9, <1>10, <1>11, <1>12, <1>13,
           <1>14, <1>15, <1>16 DEF IdleStep

RestartInv == IdleInv /\ KillInv /\ DoneInv

\* The invariant holds at the start.
LEMMA InitRestart == Init => RestartInv
<1> SUFFICES ASSUME Init PROVE RestartInv
    OBVIOUS
<1>1. IdleInv
    BY InitIdle
<1>2. Place = "dead"
    BY IdlerFacts DEF Init, Place, Base
<1>3. KillInv
    <2>1. \A t \in Threads : pc[t] \in {"free", "dead"} /\ On(t) = {}
        BY DEF Init, On
    <2> QED BY <1>2, <2>1, IdlerFacts DEF KillInv
<1>4. DoneInv
    BY <1>2 DEF DoneInv, Rounds
<1> QED BY <1>1, <1>3, <1>4 DEF RestartInv

\* Every step keeps the invariant.
LEMMA NextRestart == RestartInv /\ [Next]_vars => RestartInv'
<1> SUFFICES ASSUME RestartInv, [Next]_vars PROVE RestartInv'
    OBVIOUS
<1>1. /\ IdleInv /\ KillInv /\ DoneInv /\ ControlInv /\ LifeInv /\ IdleInv'
      /\ idle \in IdleType
    BY NextIdle DEF RestartInv, IdleInv, DataOK, LocalsOK
<1>2. KillInv' /\ DoneInv'
    <2>1. ASSUME NEW t \in Threads, StopStep(t) PROVE KillInv' /\ DoneInv'
        BY <1>1, <2>1, StopKill, StopDone
    <2>2. ASSUME NEW t \in Threads, StartStep(t) PROVE KillInv' /\ DoneInv'
        BY <1>1, <2>2, StartKill, StartDone
    <2>3. ASSUME NEW t \in Threads, CmdStep(t) \/ DownStep(t) PROVE KillInv' /\ DoneInv'
        BY <1>1, <2>3, OtherKill, WorkDone
    <2>4. ASSUME NEW t \in Callers, Work(t) \/ Disconnect(t) \/ SetPushEmail(t)
          PROVE  KillInv' /\ DoneInv'
        BY <1>1, <2>4, OtherKill, OtherDone
    <2>5. CASE IdleStep
        BY <1>1, <2>5, IdleKill, IdleDone
    <2>6. CASE Offline \/ (\E line \in Lines : Say(line)) \/ UNCHANGED vars
        <3>1. DoneInv'
            BY <1>1, <2>6, OtherDone
        <3>2. UNCHANGED <<pc, stack, flags>>
            BY <2>6 DEF Offline, Say, vars
        <3>3. KillInv'
            BY <1>1, <3>2 DEF KillInv, Place, Base, On, flags
        <3> QED BY <3>1, <3>3
    <2> QED BY <2>1, <2>2, <2>3, <2>4, <2>5, <2>6 DEF Next, ThreadStep
<1> QED BY <1>1, <1>2 DEF RestartInv

\* A thread that idles on writes IDLE only when the server waits for a command: it, or
\* whoever stopped it, ended the last IDLE with DONE (idle_real_start, idle_real_done).
THEOREM RestartAfterDONE == Spec => RestartsAfterDONE
<1>1. ASSUME RestartInv, pc[Idler] = "write_idle", connected, idle.had_cond
      PROVE  server = "command"
    <2>1. Place = "write_idle"
        BY <1>1, AtPlace, IdlerFacts DEF RestartInv, IdleInv, Bottom, IdlerLabels
    <2> QED BY <1>1, <2>1 DEF RestartInv, DoneInv, Ended
<1>2. RestartInv /\ [Next]_vars
          => [pc[Idler] = "write_idle" /\ pc'[Idler] = "tell" /\ connected /\ idle.had_cond
              => server = "command"]_vars
    BY <1>1
<1> QED BY <1>2, InitRestart, NextRestart, PTL DEF Spec, RestartsAfterDONE

-----------------------------------------------------------------------------
\* What the idle thread has read about new messages.

\* A thread goes on, calls or returns.
Turns(t) ==
    \/ \E b : Goto(t, b)
    \/ \E q \in Seq(Labels) : q # <<>> /\ Call(t, q)
    \/ Return(t)

\* Whoever has called twice or more returns to the same label in the end.
Low(s) == s[Len(s) - 1]

\* A step of a thread with two or more labels to return to keeps the one before the
\* last, or is the return to it.
LEMMA TurnsLow ==
    ASSUME ControlInv, NEW t \in Threads, Turns(t), Len(stack[t]) >= 2
    PROVE  \/ Len(stack'[t]) >= 2 /\ Low(stack'[t]) = Low(stack[t])
           \/ Len(stack'[t]) = 1 /\ pc'[t] = Low(stack[t])
<1> DEFINE s == stack[t]
<1>1. s \in Seq(Labels) /\ Len(s) \in Nat /\ s # <<>>
    BY LenProperties, EmptySeq DEF ControlInv
<1>2. CASE \E b : Goto(t, b)
    BY <1>2 DEF Goto
<1>3. CASE \E q \in Seq(Labels) : q # <<>> /\ Call(t, q)
    <2>1. PICK q \in Seq(Labels) : q # <<>> /\ Call(t, q)
        BY <1>3
    <2> DEFINE r == Tail(q)
    <2>2. r \in Seq(Labels) /\ Len(r) \in Nat
        BY <2>1, HeadTailProperties, LenProperties
    <2>3. stack'[t] = r \o s
        BY <2>1 DEF Call, ControlInv
    <2> HIDE DEF r, s
    <2>4. /\ Len(r \o s) = Len(r) + Len(s)
          /\ \A i \in 1 .. Len(r) + Len(s) :
                 (r \o s)[i] = IF i <= Len(r) THEN r[i] ELSE s[i - Len(r)]
        BY <1>1, <2>2, ConcatProperties
    <2>5. Len(s) >= 2
        BY DEF s
    <2> DEFINE i == Len(r) + Len(s) - 1
    <2>6. i \in 1 .. Len(r) + Len(s) /\ ~(i <= Len(r)) /\ i - Len(r) = Len(s) - 1
        BY <1>1, <2>2, <2>5
    <2>7. (r \o s)[i] = s[Len(s) - 1]
        BY <2>4, <2>6
    <2> QED BY <1>1, <2>2, <2>3, <2>4, <2>5, <2>7 DEF Low, s
<1>4. CASE Return(t)
    <2>1. pc'[t] = Head(s) /\ stack'[t] = Tail(s)
        BY <1>4 DEF Return, ControlInv
    <2>2. /\ Head(s) = s[1] /\ Len(Tail(s)) = Len(s) - 1
          /\ \A i \in 1 .. Len(s) - 1 : Tail(s)[i] = s[i + 1]
        BY <1>1, PopFacts
    <2>3. CASE Len(s) = 2
        BY <2>1, <2>2, <2>3 DEF Low
    <2>4. CASE Len(s) > 2
        <3> DEFINE z == Tail(s)
        <3>1. Len(s) - 2 \in 1 .. Len(s) - 1 /\ (Len(s) - 2) + 1 = Len(s) - 1
            BY <1>1, <2>4
        <3>2. z[Len(s) - 2] = s[Len(s) - 1]
            BY <2>2, <3>1
        <3>3. Len(z) = Len(s) - 1 /\ stack'[t] = z
            BY <2>1, <2>2
        <3> HIDE DEF z, s
        <3>4. Len(z) - 1 = Len(s) - 2 /\ Len(z) >= 2
            BY <1>1, <2>4, <3>3
        <3>5. Low(z) = Low(s)
            BY <3>2, <3>4 DEF Low
        <3>6. Low(s) = Low(stack[t])
            BY DEF s
        <3> QED BY <3>3, <3>4, <3>5, <3>6
    <2>5. \A n \in Nat : n >= 2 => n = 2 \/ n > 2
        OBVIOUS
    <2> QED BY <1>1, <2>3, <2>4, <2>5
<1> QED BY <1>2, <1>3, <1>4 DEF Turns

\* Every step of a function is one of these, except the creation of a thread.
LEMMA ThreadTurns ==
    ASSUME NEW t \in Threads, ThreadStep(t), ~(StartNew(t) /\ ~in_idle)
    PROVE  Turns(t)
<1>a. ASSUME NEW a \in Labels, NEW b \in Labels, Call(t, <<a, b>>) PROVE Turns(t)
    <2>1. <<a, b>> \in Seq(Labels) /\ <<a, b>> # <<>>
        OBVIOUS
    <2> QED BY <1>a, <2>1, Zenon DEF Turns
<1>b. ASSUME NEW a \in Labels, NEW b \in Labels, NEW c \in Labels, Call(t, <<a, b, c>>)
      PROVE  Turns(t)
    <2>1. <<a, b, c>> \in Seq(Labels) /\ <<a, b, c>> # <<>>
        OBVIOUS
    <2> QED BY <1>b, <2>1, Zenon DEF Turns
<1>c. ASSUME NEW a \in Labels, NEW b \in Labels, NEW c \in Labels, NEW d \in Labels,
             Call(t, <<a, b, c, d>>)
      PROVE  Turns(t)
    <2>1. <<a, b, c, d>> \in Seq(Labels) /\ <<a, b, c, d>> # <<>>
        OBVIOUS
    <2> QED BY <1>c, <2>1, Zenon DEF Turns
<1>d. (\E b : Goto(t, b)) \/ Return(t) => Turns(t)
    BY DEF Turns
<1> HIDE DEF Turns
<1> USE DEF Labels, CallerLabels
<1>1. CASE StopStep(t)
    BY <1>1, <1>a, <1>d
       DEF StopStep, StoreStop, StoreStopPrefix, StoreStopDone, Stop, StopT, StopJoin, Join,
           StopIdleLock, StopPrefix, StopEnd
<1>2. CASE StartStep(t)
    BY <1>2, <1>a, <1>d
       DEF StartStep, Start, StartIdleLock, StartPrefix, StartT, StartJoin, StartNew, StartWait
<1>3. CASE CmdStep(t)
    BY <1>3, <1>a, <1>b, <1>d
       DEF CmdStep, CmdLock, CmdOpen, CmdAgain, CmdWrite, CmdRead, CmdEnd, Process, Fetched
<1>4. CASE DownStep(t)
    BY <1>4, <1>c, <1>d DEF DownStep, Die, DiePrefix, Down, DownClose
<1> QED BY <1>1, <1>2, <1>3, <1>4 DEF ThreadStep

\* The function that handles a response of the idle thread: it has the response, or
\* has taken it and fetches the headers.
Handling(a, s, r) ==
    /\ Len(s) = 1 => a = "process" \/ (a = "fetched" /\ r = "none")
    /\ Len(s) >= 2 => Low(s) = "fetched" /\ r = "none"

\* What was read is handled, is the result, or the thread is being stopped.
NewsInv ==
    /\ pc[Idler] \in {"end_body", "write_done", "next", "pause", "loop"} /\ resp[Idler] = "exists"
           => idle.retval = "exists" \/ ~idle_cont
    /\ pc[Idler] \in {"clear", "end", "dead", "new"} => resp[Idler] = "none"
    /\ Place \in {"clear", "next"} => Handling(pc[Idler], stack[Idler], resp[Idler])

\* A thread that handles a response handles it to the end.
LEMMA HandlingOn ==
    ASSUME ControlInv, ControlInv', NewsInv, resp \in [Threads -> Responses],
           Place \in {"clear", "next"}, ThreadStep(Idler), pc[Idler] \in Deep
    PROVE  /\ Handling(pc[Idler], stack[Idler], resp[Idler])'
           /\ stack'[Idler] = <<>> => resp'[Idler] = "none"
<1> DEFINE s == stack[Idler]
<1>1. s \in Seq(Labels) /\ Len(s) \in Nat /\ Len(s) >= 1 /\ s # <<>>
    BY IdlerFacts, InFunction, LenProperties, EmptySeq DEF ControlInv
<1>2. Handling(pc[Idler], s, resp[Idler])
    BY DEF NewsInv
<1>3. ~StartNew(Idler)
    BY DEF StartNew, Deep, StartLabels
<1>4. Turns(Idler)
    BY <1>3, ThreadTurns, IdlerFacts
<1>5. CASE Len(s) >= 2
    <2>1. resp[Idler] = "none" /\ Low(s) = "fetched"
        BY <1>2, <1>5 DEF Handling
    <2>2. resp'[Idler] = "none"
        <3>1. CASE CmdRead(Idler)
            <4>1. Len(s) - 1 \in DOMAIN s
                BY <1>1, <1>5
            <4>2. "fetched" \in ToSet(s)
                BY <2>1, <4>1 DEF Low, ToSet
            <4> QED BY <2>1, <3>1, <4>2 DEF CmdRead
        <3>2. CASE Process(Idler)
            BY <3>2, IdlerFacts DEF Process
        <3>3. CASE ~CmdRead(Idler) /\ ~Process(Idler)
            <4>1. ~StopJoin(Idler) /\ ~StartJoin(Idler)
                BY DEF StopJoin, StartJoin, Join
            <4>2. resp' = resp
                BY <3>3, <4>1 DEF ThreadStep, StopStep, StoreStop, StoreStopPrefix, StoreStopDone,
                   Stop, StopT, StopIdleLock, StopPrefix, StopEnd, StartStep, Start, StartIdleLock,
                   StartPrefix, StartT, StartNew, StartWait, CmdStep, CmdLock, CmdOpen, CmdAgain,
                   CmdWrite, CmdEnd, Fetched, DownStep, Die, DiePrefix, Down, DownClose
            <4> QED BY <2>1, <4>2
        <3> QED BY <3>1, <3>2, <3>3
    <2>3. \/ Len(stack'[Idler]) >= 2 /\ Low(stack'[Idler]) = "fetched"
          \/ Len(stack'[Idler]) = 1 /\ pc'[Idler] = "fetched"
        BY <1>4, <1>5, <2>1, TurnsLow, IdlerFacts
    <2> DEFINE z == stack'[Idler]
    <2>4. z \in Seq(Labels)
        BY IdlerFacts DEF ControlInv
    <2> HIDE DEF z
    <2>5. Len(z) \in Nat /\ (z = <<>> => Len(z) = 0)
        BY <2>4, LenProperties, EmptySeq
    <2>6. (Len(z) >= 2 /\ Low(z) = "fetched") \/ (Len(z) = 1 /\ pc'[Idler] = "fetched")
        BY <2>3 DEF z
    <2>7. Handling(pc'[Idler], z, resp'[Idler])
        <3>1. \A n \in Nat : ~(n = 1 /\ n >= 2)
            OBVIOUS
        <3>2. ~(Len(z) = 1 /\ Len(z) >= 2)
            BY <2>5, <3>1
        <3> QED BY <2>2, <2>6, <3>2, Zenon DEF Handling
    <2>8. z # <<>>
        BY <2>5, <2>6
    <2> QED BY <2>7, <2>8 DEF z
<1>6. CASE Len(s) = 1
    <2>1. pc[Idler] = "process" \/ (pc[Idler] = "fetched" /\ resp[Idler] = "none")
        BY <1>2, <1>6 DEF Handling
    <2>2. Process(Idler) \/ Fetched(Idler)
        BY <2>1 DEF ThreadStep, StopStep, StoreStop, StoreStopPrefix, StoreStopDone,
           Stop, StopT, StopJoin, StopIdleLock, StopPrefix, StopEnd, StartStep, Start,
           StartIdleLock, StartPrefix, StartT, StartJoin, StartNew, StartWait, CmdStep, CmdLock,
           CmdOpen, CmdAgain, CmdWrite, CmdRead, CmdEnd, DownStep, Die, DiePrefix, Down, DownClose
    <2>3. resp'[Idler] = "none"
        BY <2>1, <2>2, IdlerFacts DEF Process, Fetched
    <2>4. CASE Return(Idler)
        <3>1. stack'[Idler] = <<>>
            BY <1>1, <1>6, <2>4, IdlerFacts, PopFacts DEF Return, ControlInv
        <3> QED BY <2>3, <3>1 DEF Handling
    <2>5. CASE Call(Idler, <<"cmd", "fetched">>)
        <3>1. Tail(<<"cmd", "fetched">>) = <<"fetched">>
            OBVIOUS
        <3>2. stack'[Idler] = Push(s, "fetched")
            BY <2>5, <3>1, IdlerFacts, Zenon DEF Call, ControlInv, Push
        <3>3. /\ Len(Push(s, "fetched")) = Len(s) + 1 /\ Push(s, "fetched")[1] = "fetched"
              /\ Push(s, "fetched") # <<>>
            <4>1. "fetched" \in Labels
                BY DEF Labels, CallerLabels
            <4>2. s \in Seq(Labels)
                BY <1>1
            <4> HIDE DEF s
            <4> QED BY <4>1, <4>2, PushFacts
        <3>4. Len(stack'[Idler]) = 2 /\ Low(stack'[Idler]) = "fetched"
            <4>1. /\ Len(stack'[Idler]) = Len(s) + 1 /\ stack'[Idler][1] = "fetched"
                  /\ Len(s) + 1 = 2 /\ 2 - 1 = 1
                BY <1>6, <3>2, <3>3
            <4> QED BY <4>1 DEF Low
        <3>5. stack'[Idler] # <<>>
            BY <3>2, <3>3
        <3> QED BY <2>3, <3>4 DEF Handling
    <2> QED BY <2>2, <2>4, <2>5 DEF Process, Fetched
<1>7. \A n \in Nat : n >= 1 => n = 1 \/ n >= 2
    OBVIOUS
<1> QED BY <1>1, <1>5, <1>6, <1>7

\* The idle thread handles a response.
LEMMA IdlerNews ==
    ASSUME IdleInv, IdleInv', NewsInv, ThreadStep(Idler)
    PROVE  NewsInv'
<1>1. /\ ControlInv /\ ControlInv' /\ LifeInv /\ Idler \in Threads
      /\ resp \in [Threads -> Responses] /\ idle \in IdleType
    BY IdlerFacts DEF IdleInv, DataOK, LocalsOK
<1>2. pc[Idler] \in Deep \cup StartLabels
    BY DEF ThreadStep, StopStep, StoreStop, StoreStopPrefix, StoreStopDone, Stop, StopT, StopJoin,
           Join, StopIdleLock, StopPrefix, StopEnd, StartStep, Start, StartIdleLock, StartPrefix,
           StartT, StartJoin, StartNew, StartWait, CmdStep, CmdLock, CmdOpen, CmdAgain, CmdWrite,
           CmdRead, CmdEnd, Process, Fetched, DownStep, Die, DiePrefix, Down, DownClose, Deep,
           StartLabels, CallerLabels
<1>3. pc[Idler] \in Deep /\ stack[Idler] # <<>>
    BY <1>1, <1>2, InFunction
<1>4. ~StartStep(Idler)
    BY <1>3 DEF StartStep, Start, StartIdleLock, StartPrefix, StartT, StartJoin, StartNew,
       StartWait, Deep, StartLabels
<1>5. Place' = Place
    BY <1>1, <1>4, StopControl, CmdControl, DownControl DEF ThreadStep
<1>6. Place \in Returns
    BY <1>1, <1>3, AtPlace
<1>7. pc'[Idler] \in IdlerLabels => stack'[Idler] = <<>> /\ pc'[Idler] = Place
    <2>1. StackOK(Idler, pc'[Idler], stack'[Idler])
        BY <1>1 DEF ControlInv
    <2>2. pc'[Idler] \in IdlerLabels => stack'[Idler] = <<>>
        BY <2>1, LabelFacts DEF StackOK, Bottom
    <2> QED BY <1>5, <2>2 DEF Place, Base
<1>8. CASE Place \in {"clear", "next"}
    <2>1. /\ Handling(pc[Idler], stack[Idler], resp[Idler])'
          /\ stack'[Idler] = <<>> => resp'[Idler] = "none"
        BY <1>1, <1>3, <1>8, HandlingOn
    <2>2. pc'[Idler] \in IdlerLabels => resp'[Idler] = "none"
        BY <1>7, <2>1
    <2> QED BY <2>1, <2>2 DEF NewsInv, IdlerLabels
<1>9. CASE Place \notin {"clear", "next"}
    BY <1>5, <1>6, <1>7, <1>9 DEF NewsInv, IdlerLabels, Returns
<1> QED BY <1>8, <1>9

\* The other threads do not change what the idle thread has, until it is dead.
LEMMA OthersNews ==
    ASSUME IdleInv, NewsInv, NEW t \in Threads, t # Idler, ThreadStep(t)
    PROVE  NewsInv'
<1>1. /\ ControlInv /\ LifeInv /\ Idler \in Threads
      /\ resp \in [Threads -> Responses] /\ idle \in IdleType
    BY IdlerFacts DEF IdleInv, DataOK, LocalsOK
<1>2. resp'[Idler] = resp[Idler]
    BY <1>1 DEF ThreadStep, StopStep, StoreStop, StoreStopPrefix, StoreStopDone, Stop, StopT,
       StopJoin, Join, StopIdleLock, StopPrefix, StopEnd, StartStep, Start, StartIdleLock,
       StartPrefix, StartT, StartJoin, StartNew, StartWait, CmdStep, CmdLock, CmdOpen, CmdAgain,
       CmdWrite, CmdRead, CmdEnd, Process, Fetched, DownStep, Die, DiePrefix, Down, DownClose
<1>3. CASE StartNew(t) /\ ~in_idle
    <2>1. Place = "dead" /\ pc'[Idler] = "new" /\ stack' = stack
        BY <1>1, <1>3 DEF StartNew, LifeInv, ControlInv
    <2>2. stack[Idler] = <<>> /\ pc[Idler] = "dead"
        BY <1>1, <2>1, AtPlace DEF Returns
    <2>3. Place' = "new"
        BY <2>1, <2>2 DEF Place, Base
    <2> QED BY <1>2, <2>1, <2>2, <2>3 DEF NewsInv
<1>4. CASE ~(StartNew(t) /\ ~in_idle)
    <2>1. pc'[Idler] = pc[Idler] /\ stack'[Idler] = stack[Idler]
        <3>1. Turns(t)
            BY <1>4, ThreadTurns
        <3>2. ASSUME NEW q, Call(t, q)
              PROVE  pc'[Idler] = pc[Idler] /\ stack'[Idler] = stack[Idler]
            BY <1>1, <3>2 DEF Call, ControlInv
        <3>3. ASSUME NEW b, Goto(t, b)
              PROVE  pc'[Idler] = pc[Idler] /\ stack'[Idler] = stack[Idler]
            BY <1>1, <3>3 DEF Goto, ControlInv
        <3>4. ASSUME Return(t)
              PROVE  pc'[Idler] = pc[Idler] /\ stack'[Idler] = stack[Idler]
            BY <1>1, <3>4 DEF Return, ControlInv
        <3> QED BY <3>1, <3>2, <3>3, <3>4 DEF Turns
    <2>2. Place' = Place
        BY <2>1 DEF Place, Base
    <2>3. idle.retval' = idle.retval \/ pc[Idler] = "dead"
        BY <1>4 DEF ThreadStep, StopStep, StoreStop, StoreStopPrefix, StoreStopDone, Stop, StopT,
           StopJoin, Join, StopIdleLock, StopPrefix, StopEnd, StartStep, Start, StartIdleLock,
           StartPrefix, StartT, StartJoin, StartNew, StartWait, CmdStep, CmdLock, CmdOpen,
           CmdAgain, CmdWrite, CmdRead, CmdEnd, Process, Fetched, DownStep, Die, DiePrefix, Down,
           DownClose
    <2>4. ~idle_cont => ~idle_cont'
        BY <1>4 DEF ThreadStep, StopStep, StoreStop, StoreStopPrefix, StoreStopDone, Stop, StopT,
           StopJoin, Join, StopIdleLock, StopPrefix, StopEnd, StartStep, Start, StartIdleLock,
           StartPrefix, StartT, StartJoin, StartNew, StartWait, CmdStep, CmdLock, CmdOpen,
           CmdAgain, CmdWrite, CmdRead, CmdEnd, Process, Fetched, DownStep, Die, DiePrefix, Down,
           DownClose, flags
    <2> QED BY <1>2, <2>1, <2>2, <2>3, <2>4 DEF NewsInv
<1> QED BY <1>3, <1>4

\* The rounds of the idle thread.
LEMMA RoundNews ==
    ASSUME IdleInv, IdleInv', NewsInv, IdleStep
    PROVE  NewsInv'
<1>1. /\ ControlInv /\ Idler \in Threads /\ resp \in [Threads -> Responses] /\ idle \in IdleType
      /\ ControlInv'
    BY IdlerFacts DEF IdleInv, DataOK, LocalsOK
<1>2. /\ pc[Idler] = Place /\ Place' = IdlePlace /\ stack[Idler] = <<>>
      /\ pc'[Idler] \in IdlerLabels => stack'[Idler] = <<>>
    BY <1>1, IdleControl DEF IdleType
<1>3. stack'[Idler] = <<>> => Handling(pc[Idler], stack[Idler], resp[Idler])'
    <2>1. Len(<<>>) = 0
        OBVIOUS
    <2>2. ~(0 = 1) /\ ~(0 >= 2)
        OBVIOUS
    <2> QED BY <2>1, <2>2 DEF Handling
<1>4. ASSUME NEW b \in IdlerLabels, Goto(Idler, b)
      PROVE  pc'[Idler] = b /\ Handling(pc[Idler], stack[Idler], resp[Idler])'
    BY <1>1, <1>2, <1>3, <1>4 DEF Goto, ControlInv
<1>5. ASSUME NEW b \in Labels, Call(Idler, <<"process", b>>)
      PROVE  pc'[Idler] = "process" /\ Handling(pc[Idler], stack[Idler], resp[Idler])'
    <2>1. Tail(<<"process", b>>) = <<b>> /\ Head(<<"process", b>>) = "process"
        OBVIOUS
    <2>2. pc'[Idler] = "process" /\ stack'[Idler] = Push(<<>>, b)
        BY <1>1, <1>2, <1>5, <2>1, Zenon DEF Call, ControlInv, Push
    <2>3. Len(Push(<<>>, b)) = 1
        <3>1. <<>> \in Seq(Labels) /\ Len(<<>>) = 0
            OBVIOUS
        <3> DEFINE e == <<>>
        <3>2. e \in Seq(Labels) /\ Len(e) = 0
            BY <3>1
        <3> HIDE DEF e
        <3>3. Len(Push(e, b)) = Len(e) + 1
            BY <3>2, PushFacts
        <3>4. Len(Push(e, b)) = 1
            BY <3>2, <3>3
        <3> QED BY <3>4 DEF e
    <2>4. ~(1 >= 2)
        OBVIOUS
    <2> QED BY <2>2, <2>3, <2>4 DEF Handling
<1>6. NewsInv'
    <2> USE <1>4, <1>5 DEF NewsInv, IdlerLabels, Labels, CallerLabels, IdleType
    <2>1. CASE New \/ Begin \/ IdleRealStart \/ Tell \/ Body
        BY <1>1, <2>1 DEF New, Begin, IdleRealStart, Tell, Body, TryIdleLock
    <2>11. CASE Loop
        BY <1>1, <2>11 DEF Loop
    <2>2. CASE Cont
        BY <1>1, <2>2 DEF Cont, flags
    <2>3. CASE Clear
        BY <1>1, <2>3 DEF Clear, flags
    <2>4. CASE EndBody
        BY <1>1, <2>4 DEF EndBody, TryIdleLock, flags
    <2>5. CASE WriteDONE
        BY <1>1, <2>5 DEF WriteDONE, flags
    <2>6. CASE ReadDONE
        <3>1. pc'[Idler] \in {"unlock", "die"} /\ pc[Idler] = "read_done"
            <4>1. Call(Idler, <<"die", "store_stop", "down_close", "unlock">>) => pc'[Idler] = "die"
                <5>1. {"store_stop", "down_close", "unlock"} \subseteq Labels
                    OBVIOUS
                <5> HIDE DEF NewsInv, IdlerLabels, Labels, CallerLabels, IdleType
                <5> QED BY <1>1, <5>1, IdlerFacts, Call4Moves
            <4> QED BY <2>6, <4>1 DEF ReadDONE
        <3>2. Place' = "unlock"
            BY <1>2, <3>1 DEF IdlePlace
        <3> QED BY <3>1, <3>2
    <2>7. CASE Unlock
        BY <1>1, <2>7 DEF Unlock
    <2>8. CASE After
        BY <1>1, <2>8 DEF After, flags
    <2>9. CASE NextRound \/ Pause
        BY <1>1, <2>9 DEF NextRound, Pause, flags
    <2>10. CASE End
        BY <1>1, <2>10 DEF End
    <2> QED BY <2>1, <2>2, <2>3, <2>4, <2>5, <2>6, <2>7, <2>8, <2>9, <2>10,
           <2>11 DEF IdleStep
<1> QED BY <1>6

\* Nothing has been read at the start.
LEMMA InitNews == Init => NewsInv
<1> SUFFICES ASSUME Init PROVE NewsInv
    OBVIOUS
<1>1. pc[Idler] = "dead" /\ Place = "dead" /\ resp[Idler] = "none"
    BY IdlerFacts DEF Init, Place, Base
<1> QED BY <1>1 DEF NewsInv

\* Every step keeps what was read.
LEMMA NextNews == IdleInv /\ NewsInv /\ [Next]_vars => NewsInv'
<1> SUFFICES ASSUME IdleInv, NewsInv, [Next]_vars PROVE NewsInv'
    OBVIOUS
<1>1. IdleInv' /\ ControlInv /\ Idler \in Threads
    BY NextIdle, IdlerFacts DEF IdleInv
<1>2. ASSUME NEW t \in Threads, ThreadStep(t) PROVE NewsInv'
    BY <1>1, <1>2, IdlerNews, OthersNews
<1>3. CASE IdleStep
    BY <1>1, <1>3, RoundNews
<1>4. ASSUME NEW t \in Callers, Work(t) \/ Disconnect(t) \/ SetPushEmail(t) PROVE NewsInv'
    <2>1. ASSUME NEW q, Call(t, q) PROVE pc'[Idler] = pc[Idler] /\ stack'[Idler] = stack[Idler]
        BY <1>1, <2>1, CallersAssumption DEF Call, ControlInv
    <2>2. UNCHANGED <<resp, idle, idle_cont, stack[Idler], pc[Idler]>>
        BY <1>4, <2>1 DEF Work, Disconnect, SetPushEmail, flags
    <2> QED BY <2>2 DEF NewsInv, Place, Base
<1>5. CASE Offline \/ (\E line \in Lines : Say(line)) \/ UNCHANGED vars
    <2>1. UNCHANGED <<resp, idle, idle_cont, stack, pc>>
        BY <1>5 DEF Offline, Say, flags, vars
    <2> QED BY <2>1 DEF NewsInv, Place, Base
<1> QED BY <1>2, <1>3, <1>4, <1>5 DEF Next

\* A response about new messages that the idle thread has read is handled or becomes its
\* result, unless the thread is being stopped (idle_thread, camel_imap_folder_stop_idle).
THEOREM NewsOfTheServerKept == Spec => NewsKept
<1>1. NewsInv /\ [Next]_vars
          => [resp[Idler] = "exists" /\ resp'[Idler] = "none" /\ pc[Idler] = "loop"
              => idle.retval = "exists" \/ ~idle_cont]_vars
    BY DEF NewsInv
<1> QED BY <1>1, InitIdle, NextIdle, InitNews, NextNews, PTL DEF Spec, NewsKept


-----------------------------------------------------------------------------
\* Who can stop the threads for good.

\* The threads that are in a call, or idle.
Unfinished == {t \in Threads : pc[t] \notin {"free", "dead"}}

\* A thread waits for a lock that another one holds, for the idle thread to end, or for
\* the one it created to tell it that it runs.
Blocked(t) ==
    \/ \E l \in Wanted(t) : ~CanLock(l, t)
    \/ pc[t] \in {"stop_join", "start_join"} /\ pc[Idler] # "dead"
    \/ pc[t] = "start_wait" /\ ~idle.had_cond

OnlyCirclesStop ==
    Unfinished # {} => Circle \/ Forgotten \/ \E t \in Unfinished : ~Blocked(t)

\* in_idle stays set for a creator that waits, until it is told.
ToldInv == \A t \in Threads : pc[t] = "start_wait" => in_idle \/ idle.had_cond

\* A step that neither lets a creator wait nor clears in_idle.
LEMMA ToldKept ==
    ASSUME ToldInv, \A u \in Threads : pc'[u] = "start_wait" => pc[u] = "start_wait",
           in_idle => in_idle' \/ idle.had_cond', idle.had_cond => idle.had_cond'
    PROVE  ToldInv'
BY DEF ToldInv

\* Stopping IDLE clears in_idle under idle_lock, which a creator holds while it waits.
LEMMA StopTold ==
    ASSUME ControlInv, ToldInv, idle \in IdleType, NEW t \in Threads, StopStep(t)
    PROVE  ToldInv'
<1> USE DEF Deep, StartLabels, CallerLabels, Labels, Returns
<1>1. Moves(t, Deep, Labels)
    <2>1. \/ Return(t) \/ \E b \in Deep : Goto(t, b)
          \/ Call(t, <<"process", "stop_end">>)
        BY DEF StopStep, StoreStop, StoreStopPrefix, StoreStopDone, Stop, StopT, StopJoin, Join,
               StopIdleLock, StopPrefix, StopEnd
    <2>2. CASE Return(t) \/ \E b \in Deep : Goto(t, b)
        <3>1. pc[t] \in Deep
            BY DEF StopStep, StoreStop, StoreStopPrefix, StoreStopDone, Stop, StopT, StopJoin,
                   StopIdleLock, StopPrefix, StopEnd
        <3> QED BY <2>2, <3>1, ReturnMoves, GotoMoves DEF Moves
    <2>3. CASE Call(t, <<"process", "stop_end">>)
        <3>1. Moves(t, {"process"}, {"stop_end"})
            BY <2>3, Call2Moves
        <3> QED BY <3>1 DEF Moves
    <2> QED BY <2>1, <2>2, <2>3
<1>2. \A u \in Threads : pc'[u] = "start_wait" => pc[u] = "start_wait"
    BY <1>1 DEF Moves
<1>3. idle'.had_cond = idle.had_cond
    <2>1. idle' = idle \/ idle' = [idle EXCEPT !.retval = "none"]
        BY DEF StopStep, StoreStop, StoreStopPrefix, StoreStopDone, Stop, StopT, StopJoin, Join,
               StopIdleLock, StopPrefix, StopEnd
    <2> QED BY <2>1 DEF IdleType
<1>4. CASE pc[t] \in {"store_stop_done", "stop_prefix"}
    <2>1. ASSUME NEW u \in Threads, pc[u] = "start_wait" PROVE FALSE
        <3>1. t = u
            BY <1>4, <2>1, Alone DEF Owns, Locks
        <3> QED BY <1>4, <2>1, <3>1
    <2> QED BY <1>2, <2>1 DEF ToldInv
<1>5. CASE pc[t] \notin {"store_stop_done", "stop_prefix"}
    <2>1. in_idle' = in_idle
        BY <1>5 DEF StopStep, StoreStop, StoreStopPrefix, StoreStopDone, Stop, StopT, StopJoin,
                    StopIdleLock, StopPrefix, StopEnd, flags
    <2> QED BY <1>2, <1>3, <2>1, ToldKept
<1> QED BY <1>4, <1>5

\* A creator sets in_idle before it waits.
LEMMA StartTold ==
    ASSUME ControlInv, ToldInv, idle \in IdleType, NEW t \in Threads, StartStep(t)
    PROVE  ToldInv'
<1> USE DEF Deep, StartLabels, CallerLabels, Labels, Returns
<1>1. CASE StartNew(t) /\ ~in_idle
    BY <1>1 DEF StartNew, ToldInv
<1>2. CASE ~StartNew(t) \/ in_idle
    <2> DEFINE A == {"start_idle", "start_prefix", "start_t", "start_join", "start_new", "process"}
    <2>1. /\ \/ Return(t) \/ \E b \in A : Goto(t, b)
             \/ Call(t, <<"process", "start_new">>)
          /\ in_idle' = in_idle /\ pc[t] \in StartLabels
          /\ idle' = idle \/ idle' = [idle EXCEPT !.retval = "none"]
        BY <1>2 DEF StartStep, Start, StartIdleLock, StartPrefix, StartT, StartJoin, StartNew,
                    StartWait, flags
    <2>2. Moves(t, A, Labels)
        <3>1. CASE Return(t) \/ \E b \in A : Goto(t, b)
            BY <2>1, <3>1, ReturnMoves, GotoMoves DEF Moves
        <3>2. CASE Call(t, <<"process", "start_new">>)
            <4>1. Moves(t, {"process"}, {"start_new"})
                BY <3>2, Call2Moves
            <4> QED BY <4>1 DEF Moves
        <3> QED BY <2>1, <3>1, <3>2
    <2>3. \A u \in Threads : pc'[u] = "start_wait" => pc[u] = "start_wait"
        BY <2>2 DEF Moves
    <2>4. idle'.had_cond = idle.had_cond
        BY <2>1 DEF IdleType
    <2> QED BY <2>1, <2>3, <2>4, ToldKept
<1> QED BY <1>1, <1>2

\* The idle thread clears in_idle when it ends, and then tells its creator.
LEMMA IdleTold ==
    ASSUME ControlInv, ToldInv, idle \in IdleType, IdleStep
    PROVE  ToldInv'
<1>1. \A u \in Threads : pc'[u] = "start_wait" => pc[u] = "start_wait"
    BY IdleMoves DEF Moves, IdlerLabels
<1>2. /\ idle.had_cond => idle'.had_cond
      /\ in_idle => in_idle' \/ idle'.had_cond
    <2> USE DEF IdleType, flags
    <2>1. CASE New
        BY <2>1 DEF New
    <2>2. CASE Loop
        BY <2>2 DEF Loop
    <2>3. CASE Begin
        BY <2>3 DEF Begin, TryIdleLock
    <2>4. CASE IdleRealStart
        BY <2>4 DEF IdleRealStart
    <2>5. CASE Tell
        BY <2>5 DEF Tell
    <2>6. CASE Body
        BY <2>6 DEF Body
    <2>7. CASE Cont
        BY <2>7 DEF Cont
    <2>8. CASE Clear
        BY <2>8 DEF Clear
    <2>9. CASE EndBody
        BY <2>9 DEF EndBody, TryIdleLock
    <2>10. CASE WriteDONE
        BY <2>10 DEF WriteDONE, ReadOn
    <2>11. CASE ReadDONE
        BY <2>11 DEF ReadDONE, ReadOn
    <2>12. CASE Unlock
        BY <2>12 DEF Unlock
    <2>13. CASE After
        BY <2>13 DEF After
    <2>14. CASE NextRound
        BY <2>14 DEF NextRound
    <2>15. CASE Pause
        BY <2>15 DEF Pause
    <2>16. CASE End
        BY <2>16 DEF End
    <2> QED BY <2>1, <2>2, <2>3, <2>4, <2>5, <2>6, <2>7, <2>8, <2>9, <2>10, <2>11, <2>12, <2>13,
               <2>14, <2>15, <2>16 DEF IdleStep
<1> QED BY <1>1, <1>2, ToldKept

\* Every step keeps in_idle set for a creator that waits.
LEMMA NextTold ==
    ASSUME IdleInv, ToldInv, [Next]_vars
    PROVE  ToldInv'
<1>1. ControlInv /\ idle \in IdleType
    BY DEF IdleInv, DataOK, LocalsOK
<1>2. ASSUME NEW t \in Threads, StopStep(t) PROVE ToldInv'
    BY <1>1, <1>2, StopTold
<1>3. ASSUME NEW t \in Threads, StartStep(t) PROVE ToldInv'
    BY <1>1, <1>3, StartTold
<1>4. ASSUME NEW t \in Threads, CmdStep(t) \/ DownStep(t) PROVE ToldInv'
    <2>1. \A u \in Threads : pc'[u] = "start_wait" => pc[u] = "start_wait"
        BY <1>1, <1>4, WorkMoves DEF Moves, Returns
    <2> QED BY <1>1, <1>4, <2>1, WorkMoves, ToldKept
<1>5. ASSUME NEW t \in Callers, Work(t) \/ Disconnect(t) \/ SetPushEmail(t) PROVE ToldInv'
    <2>1. \A u \in Threads : pc'[u] = "start_wait" => pc[u] = "start_wait"
        BY <1>1, <1>5, BeginMoves DEF Moves, Returns
    <2> QED BY <1>1, <1>5, <2>1, BeginMoves, ToldKept DEF flags
<1>6. CASE IdleStep
    BY <1>1, <1>6, IdleTold
<1>7. CASE Offline \/ (\E line \in Lines : Say(line)) \/ UNCHANGED vars
    BY <1>7, ToldKept DEF Offline, Say, vars, flags
<1> QED BY <1>2, <1>3, <1>4, <1>5, <1>6, <1>7 DEF Next, ThreadStep

\* If everyone is blocked, everyone waits for one who is.
LEMMA BlockedCircle ==
    ASSUME IdleInv, LocksGivenBack, ToldInv, Unfinished # {},
           \A t \in Unfinished : Blocked(t), ~Forgotten
    PROVE  Circle
<1>1. ASSUME NEW t \in Unfinished PROVE WaitsFor(t) \cap Unfinished # {}
    <2>1. t \in Threads /\ Blocked(t)
        BY DEF Unfinished
    <2>2. ASSUME NEW l \in Wanted(t), ~CanLock(l, t) PROVE WaitsFor(t) \cap Unfinished # {}
        <3>1. l \in Locks
            BY DEF Wanted, Locks
        <3>2. PICK u \in Threads \ {t} : held[l][u] # 0
            BY <2>2 DEF CanLock
        <3>3. held[l][u] \in Nat
            BY <3>1 DEF IdleInv, ControlInv
        <3>4. u \in WaitsFor(t)
            BY <3>2, <3>3 DEF WaitsFor
        <3>5. u \in Unfinished
            BY <3>1, <3>2 DEF LocksGivenBack, Unfinished
        <3> QED BY <3>4, <3>5
    <2>3. CASE pc[t] \in {"stop_join", "start_join", "start_wait"} /\ pc[Idler] # "dead"
        <3>1. Idler \in WaitsFor(t)
            BY <2>3 DEF WaitsFor
        <3>2. pc[Idler] # "free"
            BY IdlerFacts DEF IdleInv, ControlInv, StackOK, Bottom, IdlerLabels, Inner, Deep, Starts
        <3> QED BY <2>3, <3>1, <3>2, IdlerFacts DEF Unfinished
    <2>4. CASE pc[t] = "start_wait" /\ ~idle.had_cond /\ pc[Idler] = "dead"
        <3>1. in_idle
            BY <2>1, <2>4 DEF ToldInv
        <3>2. t \in Callers
            BY <2>1, <2>4 DEF Threads
        <3> QED BY <2>4, <3>1, <3>2 DEF Forgotten
    <2> QED BY <2>1, <2>2, <2>3, <2>4 DEF Blocked
<1>2. Unfinished \in SUBSET Threads
    BY DEF Unfinished
<1> QED BY <1>1, <1>2 DEF Circle

\* If calls are going on, or the idle thread runs, then one of the threads waits for
\* nobody, unless some wait for each other in a circle or a creator has been forgotten: no
\* release of a lock is missing, and in_idle is not cleared under a creator that waits.
THEOREM OnlyACircleStopsAll == Spec => []OnlyCirclesStop
<1>1. Init => ToldInv
    BY DEF Init, ToldInv
<1>2. IdleInv /\ ToldInv /\ [Next]_vars => ToldInv'
    BY NextTold
<1>3. IdleInv /\ LocksGivenBack /\ ToldInv => OnlyCirclesStop
    BY BlockedCircle DEF OnlyCirclesStop
<1> QED BY <1>1, <1>2, <1>3, EveryLockGivenBack, InitIdle, NextIdle, PTL DEF Spec
===============================================================================
