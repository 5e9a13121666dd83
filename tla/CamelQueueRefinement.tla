------------------------- MODULE CamelQueueRefinement -------------------------
(***************************************************************************)
(* TnyCamelQueue implements TaskQueue where g_cond_wait returns only when  *)
(* it is signalled: every step of the code is one step of the abstract     *)
(* queue or invisible to it.  Serving in order needs one more invariant,   *)
(* OrderInv: the list is the priority items and then the others, each in   *)
(* the order of their launch.                                              *)
(***************************************************************************)
EXTENDS CamelQueueProofs

USE ItemAssumption DEF vars, queueVars, refVars, threadVars, itemVars, loopVars, opVars, orderVars

OrderInv ==
  /\ \A a, b \in 1 .. Len(list) : a < b /\ IsPriority(list[b]) => IsPriority(list[a])
  /\ \A a, b \in 1 .. Len(list) : a < b /\ (IsPriority(list[a]) <=> IsPriority(list[b]))
                                   => ticket[list[a]] < ticket[list[b]]
  /\ \A i \in Item : ticket[i] <= clock

\* An element of the list: a listed item that was launched.
LEMMA ElementFacts ==
  ASSUME IInv, NEW a \in 1 .. Len(list)
  PROVE  list[a] \in Item /\ list[a] \in Listed /\ ticket[list[a]] > 0
<1>1. list[a] \in Listed
  BY DEF Listed
<1> QED BY <1>1, ListedFacts DEF IInv, ListInv

\* A step that leaves list, ticket and clock alone keeps the order.
LEMMA OrderUnchanged ==
  ASSUME OrderInv, UNCHANGED <<list, ticket, clock>> PROVE OrderInv'
BY DEF OrderInv, IsPriority

\* The empty list is in order.
LEMMA OrderEmpty ==
  ASSUME OrderInv, list' = <<>>, UNCHANGED <<ticket, clock>> PROVE OrderInv'
BY DEF OrderInv

\* A launch keeps the order: the new item has the highest ticket and comes
\* last of its class.
LEMMA OrderLaunch ==
  ASSUME IInv, OrderInv, NEW i \in Item, Launch(i) PROVE OrderInv'
<1>1. i \notin Listed
  BY DEF IInv, ListInv, Launch
<1>2. /\ clock \in Nat /\ clock' = clock + 1 /\ ticket'[i] = clock + 1
      /\ \A j \in Item : j # i => ticket'[j] = ticket[j]
      /\ \A j \in Item : ticket[j] \in Nat /\ ticket[j] <= clock
      /\ list \in Seq(Item) /\ Len(list) \in Nat
  BY DEF IInv, TypeOK, Launch, OrderInv
<1>3. \A j \in Item : ticket'[j] <= clock'
  BY <1>2
<1>4. \A a \in 1 .. Len(list) : list[a] \in Item /\ list[a] # i
  BY <1>1, ElementFacts
<1>5. CASE IsPriority(i)
  <2> DEFINE n == LeadingPriority + 1
  <2>1. /\ LeadingPriority \in 0 .. Len(list)
        /\ \A k \in 1 .. LeadingPriority : IsPriority(list[k])
        /\ LeadingPriority < Len(list) => ~IsPriority(list[LeadingPriority + 1])
    BY LeadingPriorityFacts DEF IInv
  <2>2. n \in 1 .. Len(list) + 1 /\ \A k \in 1 .. Len(list) : k < n => IsPriority(list[k])
    BY <1>2, <2>1
  <2>3. \A k \in 1 .. Len(list) : k >= n => ~IsPriority(list[k])
    <3> SUFFICES ASSUME NEW k \in 1 .. Len(list), k >= n, IsPriority(list[k]) PROVE FALSE
      OBVIOUS
    <3>1. n \in 1 .. Len(list) /\ ~IsPriority(list[n])
      BY <1>2, <2>1
    <3>2. CASE k = n
      BY <3>1, <3>2
    <3>3. CASE k > n
      BY <3>1, <3>3 DEF OrderInv
    <3> QED BY <1>2, <2>1, <3>2, <3>3
  <2>4. list' = InsertAt(list, n, i)
    BY <1>5 DEF Launch, Insert
  <2> HIDE DEF n
  <2>5. /\ Len(list') = Len(list) + 1
        /\ \A k \in 1 .. Len(list) + 1 :
             list'[k] = IF k < n THEN list[k] ELSE IF k = n THEN i ELSE list[k - 1]
    <3>1. list \in Seq(Item) /\ n \in 1 .. Len(list) + 1
      BY <1>2, <2>2
    <3> DEFINE z == InsertAt(list, n, i)
    <3>2. /\ Len(z) = Len(list) + 1
          /\ \A k \in 1 .. Len(list) + 1 :
               z[k] = IF k < n THEN list[k] ELSE IF k = n THEN i ELSE list[k - 1]
      BY <3>1, InsertAtFacts
    <3>3. list' = z
      BY <2>4
    <3> HIDE DEF z
    <3> QED BY <3>2, <3>3
  <2>6. ASSUME NEW a \in 1 .. Len(list'), NEW b \in 1 .. Len(list'), a < b
        PROVE  /\ IsPriority(list'[b]) => IsPriority(list'[a])
               /\ (IsPriority(list'[a]) <=> IsPriority(list'[b]))
                    => ticket'[list'[a]] < ticket'[list'[b]]
    <3>1. CASE b < n
      <4>1. a \in 1 .. Len(list) /\ b \in 1 .. Len(list) /\ list'[a] = list[a] /\ list'[b] = list[b]
        BY <1>2, <2>2, <2>5, <2>6, <3>1
      <4> QED BY <1>2, <1>4, <2>6, <4>1 DEF OrderInv
    <3>2. CASE b = n
      <4>1. a \in 1 .. Len(list) /\ a < n /\ list'[a] = list[a] /\ list'[b] = i
        BY <1>2, <2>2, <2>5, <2>6, <3>2
      <4>2. ticket[list[a]] < clock + 1
        BY <1>2, <1>4, <4>1
      <4> QED BY <1>2, <1>4, <2>2, <4>1, <4>2
    <3>3. CASE b > n
      <4>1. b - 1 \in 1 .. Len(list) /\ b - 1 >= n /\ list'[b] = list[b - 1]
        BY <1>2, <2>2, <2>5, <2>6, <3>3
      <4>2. ~IsPriority(list'[b])
        BY <2>3, <4>1
      <4>3. CASE a <= n
        <5>1. a < n => a \in 1 .. Len(list) /\ list'[a] = list[a]
          BY <1>2, <2>2, <2>5
        <5>2. a = n => list'[a] = i
          BY <1>2, <2>2, <2>5
        <5>3. IsPriority(list'[a])
          BY <1>5, <2>2, <4>3, <5>1, <5>2
        <5> QED BY <4>2, <5>3
      <4>4. CASE a > n
        <5>1. a - 1 \in 1 .. Len(list) /\ a - 1 < b - 1 /\ list'[a] = list[a - 1]
          BY <1>2, <2>2, <2>5, <2>6, <4>4
        <5>2. PICK j \in 1 .. Len(list), k \in 1 .. Len(list) :
                j < k /\ list'[a] = list[j] /\ list'[b] = list[k]
          BY <4>1, <5>1
        <5>3. (IsPriority(list[j]) <=> IsPriority(list[k])) => ticket[list[j]] < ticket[list[k]]
          BY <5>2 DEF OrderInv
        <5>4. ticket'[list[j]] = ticket[list[j]] /\ ticket'[list[k]] = ticket[list[k]]
          BY <1>2, <1>4
        <5> QED BY <4>2, <5>2, <5>3, <5>4
      <4> QED BY <1>2, <2>2, <2>5, <4>3, <4>4
    <3>4. b < n \/ b = n \/ b > n
      <4>1. b \in Int /\ n \in Int
        BY <1>2, <2>2, <2>5
      <4> QED BY <4>1
    <3> QED BY <3>1, <3>2, <3>3, <3>4
  <2> QED BY <1>3, <2>6 DEF OrderInv, IsPriority
<1>6. CASE ~IsPriority(i)
  <2>1. list' = Append(list, i)
    BY <1>6 DEF Launch, Insert
  <2>2. /\ Len(list') = Len(list) + 1
        /\ \A k \in 1 .. Len(list) + 1 : list'[k] = IF k <= Len(list) THEN list[k] ELSE i
    BY <1>2, <2>1, AppendElements
  <2>3. ASSUME NEW a \in 1 .. Len(list'), NEW b \in 1 .. Len(list'), a < b
        PROVE  /\ IsPriority(list'[b]) => IsPriority(list'[a])
               /\ (IsPriority(list'[a]) <=> IsPriority(list'[b]))
                    => ticket'[list'[a]] < ticket'[list'[b]]
    <3>1. a \in 1 .. Len(list) /\ list'[a] = list[a]
      BY <1>2, <2>2, <2>3
    <3>2. CASE b <= Len(list)
      <4>1. b \in 1 .. Len(list) /\ list'[b] = list[b]
        BY <1>2, <2>2, <3>2
      <4> QED BY <1>2, <1>4, <2>3, <3>1, <4>1 DEF OrderInv
    <3>3. CASE b > Len(list)
      <4>1. list'[b] = i
        BY <1>2, <2>2, <3>3
      <4>2. ticket[list[a]] < clock + 1
        BY <1>2, <1>4, <3>1
      <4> QED BY <1>2, <1>4, <1>6, <3>1, <4>1, <4>2
    <3> QED BY <1>2, <2>2, <3>2, <3>3
  <2> QED BY <1>3, <2>3 DEF OrderInv, IsPriority
<1> QED BY <1>5, <1>6

\* Unlinking an item keeps the order of the others.
LEMMA OrderDrop ==
  ASSUME IInv, OrderInv, NEW t \in Thread, Drop(t) PROVE OrderInv'
<1>1. UNCHANGED <<ticket, clock>>
  BY DEF Drop, orderVars
<1>2. CASE first[t] = None
  BY <1>1, <1>2, OrderUnchanged DEF Drop
<1>3. CASE first[t] # None
  <2> DEFINE n == CHOOSE k \in 1 .. Len(list) : list[k] = first[t]
  <2>1. first[t] \in Listed
    BY <1>3, StagedFacts DEF Drop, Staged
  <2>2. n \in 1 .. Len(list) /\ list \in Seq(Item) /\ Len(list) \in Nat
    <3>1. list \in Seq(Item)
      BY DEF IInv, TypeOK
    <3>2. n \in 1 .. Len(list)
      BY <2>1 DEF Listed
    <3> QED BY <3>1, <3>2
  <2>3. list' = RemoveAt(list, n)
    BY <1>3 DEF Drop, DeleteLink
  <2> HIDE DEF n
  <2>4. /\ Len(list') = Len(list) - 1
        /\ \A k \in 1 .. Len(list) - 1 : list'[k] = IF k < n THEN list[k] ELSE list[k + 1]
    BY <2>2, <2>3, RemoveAtFacts
  <2> DEFINE up(k) == IF k < n THEN k ELSE k + 1
  <2>5. \A k \in 1 .. Len(list') : up(k) \in 1 .. Len(list) /\ list'[k] = list[up(k)]
    BY <2>2, <2>4
  <2>6. \A a, b \in 1 .. Len(list') : a < b => up(a) < up(b)
    BY <2>2, <2>4
  <2> HIDE DEF up
  <2>7. ASSUME NEW a \in 1 .. Len(list'), NEW b \in 1 .. Len(list'), a < b
        PROVE  /\ IsPriority(list'[b]) => IsPriority(list'[a])
               /\ (IsPriority(list'[a]) <=> IsPriority(list'[b]))
                    => ticket[list'[a]] < ticket[list'[b]]
    <3>1. /\ up(a) \in 1 .. Len(list) /\ list'[a] = list[up(a)]
          /\ up(b) \in 1 .. Len(list) /\ list'[b] = list[up(b)] /\ up(a) < up(b)
      BY <2>5, <2>6, <2>7
    <3> QED BY <3>1 DEF OrderInv
  <2> QED BY <1>1, <2>7 DEF OrderInv, IsPriority
<1> QED BY <1>2, <1>3

\* Every step keeps the order.
LEMMA NextOrderInv == IInv /\ OrderInv /\ [Next]_vars => OrderInv'
<1> SUFFICES ASSUME IInv, OrderInv, [Next]_vars PROVE OrderInv'
  OBVIOUS
<1>1. ASSUME NEW i \in Item, Launch(i) PROVE OrderInv'
  BY <1>1, OrderLaunch
<1>2. ASSUME NEW t \in Thread, Drop(t) PROVE OrderInv'
  BY <1>2, OrderDrop
<1>3. ASSUME OwnerUnref \/ \E t \in Thread : Exit(t) PROVE OrderInv'
  <2>1. UNCHANGED <<ticket, clock>> /\ (list' = <<>> \/ list' = list)
    BY <1>3 DEF OwnerUnref, Exit, Unref, orderVars
  <2> QED BY <2>1, OrderEmpty, OrderUnchanged
<1>4. ASSUME NEW mask \in Masks, RemoveItems(mask) \/ CancelRemoveItems(mask) PROVE OrderInv'
  BY <1>4, OrderUnchanged DEF RemoveItems, CancelRemoveItems
<1>5. ASSUME AccountFinalized \/ MainLoop \/ UNCHANGED vars PROVE OrderInv'
  BY <1>5, OrderUnchanged DEF AccountFinalized, MainLoop, PerformCallback, PerformDestroyer
<1>6. ASSUME NEW t \in Thread, Loop(t) \/ Pick(t) \/ Begin(t) \/ Work(t) \/ End(t) PROVE OrderInv'
  BY <1>6, OrderUnchanged DEF Loop, Pick, Begin, Work, End
<1>7. ASSUME NEW t \in Thread,
             Notify(t) \/ AwaitCallback(t) \/ Sleep(t) \/ SpuriousWake(t) \/ Wake(t)
      PROVE  OrderInv'
  BY <1>7, OrderUnchanged DEF Notify, AwaitCallback, Sleep, SpuriousWake, Wake
<1> QED BY <1>1, <1>2, <1>3, <1>4, <1>5, <1>6, <1>7 DEF Next, Caller, Owner, Worker

-----------------------------------------------------------------------------
(* The refinement mapping.                                                 *)

\* What the status of an item says of it.
LEMMA StatusFacts ==
  ASSUME IInv, NEW i \in Item
  PROVE  /\ Tasks!Waiting(i) <=> /\ ticket[i] > 0 /\ i \notin hadCallback
                                 /\ i # current /\ i \in Listed
         /\ Tasks!OnStage(i) <=> ticket[i] > 0 /\ i \notin hadCallback /\ i = current
BY DEF Tasks!Waiting, Tasks!OnStage, StatusOf, IInv, TypeOK

\* Steps that change nothing the mapping reads.
LEMMA Hidden ==
  ASSUME UNCHANGED <<ticket, clock, hadCallback, deleted, current, list>>
  PROVE  UNCHANGED Tasks!vars
<1>1. \A i \in Item : StatusOf(i)' = StatusOf(i)
  BY DEF StatusOf, Listed
<1> QED BY <1>1 DEF Tasks!vars

\* A launch submits a task.
LEMMA LaunchSubmits ==
  ASSUME IInv, NEW i \in Item, Launch(i) PROVE Tasks!Submit(i)
<1>1. i \notin Listed /\ i \notin hadCallback \cup deleted /\ i # current
  BY StagedFacts DEF IInv, ListInv, FreshInv, Touched, Launch, StageInv
<1>2. Listed' = Listed \cup {i}
  <2>1. Elements(list') = Listed \cup {i}
    BY <1>1, InsertFacts DEF Launch, IInv, ListInv
  <2> QED BY <2>1 DEF Listed, Elements
<1>3. /\ UNCHANGED <<hadCallback, deleted, current>>
      /\ ticket'[i] = clock + 1 /\ clock + 1 # 0 /\ ticket[i] = 0
      /\ \A j \in Item : j # i => ticket'[j] = ticket[j]
  BY DEF Launch, IInv, TypeOK, itemVars, loopVars
<1>4. StatusOf(i) = "idle" /\ StatusOf(i)' = "queued"
  BY <1>1, <1>2, <1>3 DEF StatusOf
<1>5. \A j \in Item : j # i => StatusOf(j)' = StatusOf(j)
  BY <1>2, <1>3 DEF StatusOf
<1> QED BY <1>4, <1>5 DEF Tasks!Submit, Launch

\* A removal or a cancellation withdraws the items it marks.
LEMMA RemovalWithdraws ==
  ASSUME IInv, NEW mask \in Masks, deleted' = deleted \cup Removable(mask),
         UNCHANGED <<ticket, clock, hadCallback, current, list>>
  PROVE  \E S \in SUBSET Item : Tasks!Withdraw(S)
<1> DEFINE S == Removable(mask) \ deleted
<1>1. S \subseteq Listed \ {current} /\ S \subseteq Item
  BY ListedFacts DEF Removable, IInv
<1>2. \A i \in S : ticket[i] > 0 /\ i \notin hadCallback /\ i \notin deleted
  BY <1>1 DEF IInv, ListInv, FreshInv, Touched
<1>3. \A i \in Item : i \in deleted' <=> i \in deleted \/ i \in S
  OBVIOUS
<1> HIDE DEF S
<1>4. \A i \in S : StatusOf(i) = "queued" /\ StatusOf(i)' = "withdrawn"
  <2> TAKE i \in S
  <2>1. ticket[i] # 0 /\ i \notin hadCallback /\ i # current /\ i \in Listed /\ i \notin deleted
    BY <1>1, <1>2 DEF IInv, TypeOK
  <2>2. ticket'[i] # 0 /\ i \notin hadCallback' /\ i # current' /\ i \in Listed' /\ i \in deleted'
    BY <1>1, <1>3, <2>1 DEF Listed
  <2> QED BY <2>1, <2>2 DEF StatusOf
<1>5. \A i \in Item \ S : StatusOf(i)' = StatusOf(i)
  BY <1>3 DEF StatusOf, Listed
<1>6. Tasks!Withdraw(S)
  BY <1>1, <1>4, <1>5 DEF Tasks!Withdraw
<1> QED BY <1>1, <1>6

\* Putting the head of the list on the stage serves it: nobody is on the stage
\* and, by OrderInv, everybody else who waits comes after it.
LEMMA PickServes ==
  ASSUME IInv, OrderInv, NEW t \in Thread, Pick(t), list # <<>>
  PROVE  Tasks!Serve(Head(list))
<1>0. PICK h \in Item : h = Head(list)
  BY DEF IInv, TypeOK
<1>1. /\ 1 \in 1 .. Len(list) /\ h = list[1] /\ h \in Item /\ h \in Listed /\ ticket[h] > 0
      /\ Len(list) \in Nat
  BY <1>0, HeadTailElements, ElementFacts DEF IInv, TypeOK
<1>2. current = None
  BY UnstagedFacts DEF Pick, Live, Staged
<1>3. /\ current' = h
      /\ UNCHANGED <<ticket, clock, hadCallback, deleted, list>>
  BY <1>0 DEF Pick
<1>4. h \notin hadCallback /\ h # None
  BY <1>1, <1>2 DEF IInv, FreshInv, Touched
<1>5. Tasks!Waiting(h)
  BY <1>1, <1>2, <1>4, StatusFacts
<1>6. \A l \in Item : ~Tasks!OnStage(l)
  BY <1>2, StatusFacts
<1>7. ASSUME NEW l \in Item \ {h}, Tasks!Waiting(l) PROVE Tasks!Precedes(h, l)
  <2>1. l \in Listed
    BY <1>7, StatusFacts
  <2>2. PICK k \in 1 .. Len(list) : list[k] = l
    BY <2>1 DEF Listed
  <2>3. 1 < k
    BY <1>1, <1>7, <2>2
  <2>4. /\ IsPriority(l) => IsPriority(h)
        /\ (IsPriority(h) <=> IsPriority(l)) => ticket[h] < ticket[l]
    BY <1>1, <2>2, <2>3 DEF OrderInv
  <2> QED BY <1>1, <2>4 DEF Tasks!Precedes
<1>8. StatusOf(h)' = IF StatusOf(h) = "queued" THEN "running" ELSE "dropping"
  <2>1. StatusOf(h) = IF h \in deleted THEN "withdrawn" ELSE "queued"
    BY <1>1, <1>2, <1>4 DEF StatusOf
  <2>2. ticket'[h] # 0 /\ h \notin hadCallback' /\ h = current' /\ (h \in deleted' <=> h \in deleted)
    BY <1>1, <1>3, <1>4
  <2>3. StatusOf(h)' = IF h \in deleted THEN "dropping" ELSE "running"
    BY <2>2 DEF StatusOf
  <2> QED BY <2>1, <2>3
<1>9. \A l \in Item : l # h => StatusOf(l)' = StatusOf(l)
  BY <1>2, <1>3 DEF StatusOf, Listed
<1>10. Tasks!Serve(h)
  BY <1>1, <1>3, <1>5, <1>6, <1>7, <1>8, <1>9 DEF Tasks!Serve
<1> QED BY <1>0, <1>10

\* The destroyer concludes the item on the stage.
LEMMA DestroyerConcludes ==
  ASSUME IInv, ~Spurious, PerformDestroyer
  PROVE  \E i \in Item : Tasks!Conclude(i)
<1>1. PICK t \in Thread : pc[t] = "callback" /\ idle = <<first[t]>>
  BY DEF PerformDestroyer, IInv, CallbackInv
<1>0. PICK i : i = first[t]
  OBVIOUS
<1>2. i \in Item /\ i = current /\ ticket[i] > 0 /\ i \notin hadCallback
  BY <1>0, <1>1, StagedFacts DEF Staged, IInv, CallbackInv
<1>3. /\ hadCallback' = hadCallback \cup {i}
      /\ UNCHANGED <<ticket, clock, deleted, current, list>>
  BY <1>0, <1>1 DEF PerformDestroyer
<1>4. StatusOf(i) = (IF i \in deleted THEN "dropping" ELSE "running")
  BY <1>2 DEF StatusOf, IInv, TypeOK
<1>5. StatusOf(i)' = (IF i \in deleted THEN "cancelled" ELSE "done")
  <2>1. ticket'[i] # 0 /\ i \in hadCallback' /\ (i \in deleted' <=> i \in deleted)
    BY <1>2, <1>3
  <2> QED BY <2>1 DEF StatusOf
<1>6. \A j \in Item : j # i => StatusOf(j)' = StatusOf(j)
  BY <1>3 DEF StatusOf, Listed
<1>7. Tasks!OnStage(i)
  BY <1>2, StatusFacts
<1>8. StatusOf(i)' = IF StatusOf(i) = "running" THEN "done" ELSE "cancelled"
  BY <1>4, <1>5
<1>9. Tasks!Conclude(i)
  BY <1>2, <1>3, <1>6, <1>7, <1>8 DEF Tasks!Conclude
<1> QED BY <1>2, <1>9

\* Unlinking a concluded item is invisible.
LEMMA DropHidden ==
  ASSUME IInv, ~Spurious, NEW t \in Thread, Drop(t) PROVE UNCHANGED Tasks!vars
<1>1. UNCHANGED <<ticket, clock, hadCallback, deleted>> /\ current' = None
  BY DEF Drop, itemVars, loopVars, orderVars
<1>2. CASE first[t] = None
  <2>1. current = None
    BY <1>2, UnstagedFacts DEF Drop, Live, Staged
  <2> QED BY <1>1, <1>2, <2>1, Hidden DEF Drop
<1>3. CASE first[t] # None
  <2>1. Staged(t)
    BY <1>3 DEF Drop, Staged
  <2>2. first[t] = current /\ first[t] \in Listed
    BY <2>1, StagedFacts
  <2>3. first[t] \in hadCallback
    BY <2>1 DEF Drop, IInv, CallbackInv
  <2>4. Elements(list') = Listed \ {first[t]}
    BY <1>3, <2>2, DeleteLinkFacts DEF Drop, IInv, ListInv
  <2>5. Listed' = Listed \ {first[t]}
    BY <2>4 DEF Listed, Elements
  <2>6. \A i \in Item : StatusOf(i)' = StatusOf(i)
    BY <1>1, <2>2, <2>3, <2>5 DEF StatusOf
  <2> QED BY <1>1, <2>6 DEF Tasks!vars
<1> QED BY <1>2, <1>3

\* Finalizing the queue abandons what still waits; a release that is not the
\* last one is invisible.
LEMMA UnrefAbandons ==
  ASSUME IInv, OwnerUnref \/ \E t \in Thread : Exit(t)
  PROVE  Tasks!Abandon \/ UNCHANGED Tasks!vars
<1>1. UNCHANGED <<ticket, clock, hadCallback, deleted, current>>
  BY DEF OwnerUnref, Exit, itemVars, loopVars, orderVars
<1>2. list' = list \/ (list' = <<>> /\ refs = 1)
  <2>1. CASE OwnerUnref
    BY <2>1 DEF OwnerUnref, Unref
  <2>2. CASE \E t \in Thread : Exit(t)
    BY <2>2 DEF Exit, Unref
  <2> QED BY <2>1, <2>2
<1>3. CASE list' = list
  BY <1>1, <1>3, Hidden
<1>4. CASE list' = <<>> /\ refs = 1
  <2>1. current = None
    <3>1. CASE OwnerUnref
      <4>1. \A t \in Thread : ~Staged(t)
        BY <1>4, <3>1 DEF IInv, RefInv, OwnerUnref, Live, Staged
      <4> QED BY <4>1 DEF IInv, StageInv
    <3>2. CASE \E t \in Thread : Exit(t)
      BY <3>2, UnstagedFacts DEF Exit, Live, Staged
    <3> QED BY <3>1, <3>2
  <2>2. Listed' = {}
    BY <1>4, EmptyElements DEF Listed, Elements
  <2>3. \A i \in Item : StatusOf(i)' =
          IF Tasks!Waiting(i) THEN "abandoned" ELSE StatusOf(i)
    <3> TAKE i \in Item
    <3>1. Tasks!Waiting(i) <=> /\ ticket[i] # 0 /\ i \notin hadCallback
                               /\ i # current /\ i \in Listed
      BY StatusFacts DEF IInv, TypeOK
    <3>2. i # current
      BY <2>1
    <3> QED BY <1>1, <2>2, <3>1, <3>2 DEF StatusOf
  <2> QED BY <1>1, <2>3 DEF Tasks!Abandon, StatusOf
<1> QED BY <1>2, <1>3, <1>4

\* Every step of the queue is a step of TaskQueue or invisible.
LEMMA StepRefines ==
  ASSUME IInv, OrderInv, ~Spurious, [Next]_vars PROVE [Tasks!Next]_(Tasks!vars)
<1>1. ASSUME NEW i \in Item, Launch(i) PROVE Tasks!Next
  BY <1>1, LaunchSubmits DEF Tasks!Next
<1>2. ASSUME NEW mask \in Masks, RemoveItems(mask) \/ CancelRemoveItems(mask) PROVE Tasks!Next
  <2>1. deleted' = deleted \cup Removable(mask)
        /\ UNCHANGED <<ticket, clock, hadCallback, current, list>>
    BY <1>2 DEF RemoveItems, CancelRemoveItems, queueVars, loopVars, orderVars
  <2> QED BY <2>1, RemovalWithdraws DEF Tasks!Next
<1>3. ASSUME OwnerUnref \/ \E t \in Thread : Exit(t) PROVE [Tasks!Next]_(Tasks!vars)
  BY <1>3, UnrefAbandons DEF Tasks!Next
<1>4. ASSUME NEW t \in Thread, Pick(t) PROVE [Tasks!Next]_(Tasks!vars)
  <2>1. CASE list # <<>>
    <3>1. Head(list) \in Item
      BY <2>1 DEF IInv, TypeOK
    <3> QED BY <1>4, <2>1, <3>1, PickServes DEF Tasks!Next
  <2>2. CASE list = <<>>
    BY <1>4, <2>2, Hidden DEF Pick
  <2> QED BY <2>1, <2>2
<1>5. ASSUME NEW t \in Thread, Drop(t) PROVE UNCHANGED Tasks!vars
  BY <1>5, DropHidden
<1>6. ASSUME NEW t \in Thread, Notify(t) PROVE UNCHANGED Tasks!vars
  <2>1. hadCallback' = hadCallback
    BY <1>6 DEF Notify, IInv, CallbackInv
  <2> QED BY <1>6, <2>1, Hidden DEF Notify
<1>7. ASSUME NEW t \in Thread, Loop(t) \/ Begin(t) \/ Work(t) \/ End(t) PROVE UNCHANGED Tasks!vars
  BY <1>7, Hidden DEF Loop, Begin, Work, End
<1>8. ASSUME NEW t \in Thread, AwaitCallback(t) \/ Sleep(t) \/ SpuriousWake(t) \/ Wake(t)
      PROVE UNCHANGED Tasks!vars
  BY <1>8, Hidden DEF AwaitCallback, Sleep, SpuriousWake, Wake
<1>9. ASSUME AccountFinalized \/ PerformCallback \/ UNCHANGED vars PROVE UNCHANGED Tasks!vars
  BY <1>9, Hidden DEF AccountFinalized, PerformCallback
<1>10. ASSUME PerformDestroyer PROVE Tasks!Next
  BY <1>10, DestroyerConcludes DEF Tasks!Next
<1> QED BY <1>1, <1>2, <1>3, <1>4, <1>5, <1>6, <1>7, <1>8, <1>9, <1>10
       DEF Next, Caller, Owner, MainLoop, Worker

\* The queue starts as an empty TaskQueue.
LEMMA InitRefines == Init => Tasks!Init
BY DEF Init, Tasks!Init, StatusOf

\* IInv and OrderInv hold in every behaviour.
LEMMA OrderInvariance == Spec => [](IInv /\ OrderInv)
<1>1. Init => OrderInv
  BY DEF Init, OrderInv
<1>2. IInv /\ OrderInv /\ [Next]_vars => IInv' /\ OrderInv'
  BY NextIInv, NextOrderInv
<1> QED BY <1>1, <1>2, InitIInv, PTL DEF Spec

\* The promise of the queue to its callers: items are served one at a time,
\* once, priority items first and in the order of their launch, and end done or
\* cancelled, or are abandoned with the account.
THEOREM QueueImplementsTaskQueue == ASSUME ~Spurious PROVE Spec => ImplementsTaskQueue
<1>1. IInv /\ OrderInv /\ [Next]_vars => [Tasks!Next]_(Tasks!vars)
  BY StepRefines
<1> QED BY <1>1, InitRefines, OrderInvariance, PTL DEF Spec, Tasks!Spec, ImplementsTaskQueue
=============================================================================
