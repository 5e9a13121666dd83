--------------------------- MODULE CamelQueueProofs ---------------------------
(***************************************************************************)
(* The safety of TnyCamelQueue, for any set of items, any flags, any masks *)
(* and any supply of threads.                                              *)
(*                                                                         *)
(* The properties of CamelQueue are not inductive as they stand.  IInv     *)
(* adds what ties the stage (current), the worker's program counter, the   *)
(* list, the reference count and the account's operation together.         *)
(***************************************************************************)
EXTENDS CamelQueue, SeqLemmas

\* The worker has an item on the stage.
Staged(t) == \/ pc[t] \in {"begin", "work", "end", "notify", "callback"}
             \/ pc[t] = "drop" /\ first[t] # None

\* One worker, and stopped says so while the account lives.
WorkerInv == /\ OneWorker
             /\ Live # {} => ~stopped \/ ~account

\* The owner and the worker each hold a reference.
RefInv == /\ ownerRef => refs > 0
          /\ Live # {} => refs > 0
          /\ ownerRef /\ Live # {} => refs > 1

\* Nothing is listed twice, and only what was launched.
ListInv == /\ Distinct(list)
           /\ \A i \in Listed : ticket[i] > 0

\* The stage, the worker's locals and the list agree.
StageInv == /\ \A t \in Thread : Staged(t) =>
                 /\ first[t] \in Listed /\ current = first[t]
                 /\ del[t] <=> first[t] \in deleted
            /\ \A t \in Thread : pc[t] \in {"begin", "work", "end"} => ~del[t]
            /\ current # None => \E t \in Thread : Staged(t)

\* What happened to item i so far.
Touched == ran \cup freed \cup called \cup hadCallback \cup asked \cup interrupted
             \cup Elements(idle)

\* Nothing has happened to an item before it is on the stage, but for deletion.
FreshInv == /\ \A i \in Listed \ {current} : i \notin Touched
            /\ \A i \in Item : ticket[i] = 0 => i \notin Touched \cup deleted

\* Without spurious wakeups the worker leaves the stage after the destroyer.
CallbackInv ==
  ~Spurious =>
    /\ idle # <<>> => \E t \in Thread : pc[t] = "callback" /\ idle = <<first[t]>>
    /\ \A t \in Thread : Staged(t) /\ pc[t] # "drop" => first[t] \notin freed
    /\ \A t \in Thread : pc[t] \in {"begin", "work", "end", "notify"} => first[t] \notin hadCallback
    /\ \A t \in Thread : pc[t] = "callback" /\ idle # <<>> => first[t] \notin hadCallback
    /\ \A t \in Thread : Staged(t) /\ pc[t] = "drop" => first[t] \in hadCallback

\* The account has an operation only while a work function runs, and it is
\* cancelled only if that function may be cancelled and was.
OpInv == /\ op # "none" => \E t \in Thread : pc[t] \in {"work", "end"}
         /\ op = "cancelled" => current \in asked
         /\ \A i \in asked : Interruptible(i)
         /\ interrupted \subseteq asked

IInv == /\ TypeOK /\ WorkerInv /\ RefInv /\ ListInv /\ StageInv /\ FreshInv
        /\ RanXorCancelled /\ CallbackInv /\ OpInv

-----------------------------------------------------------------------------
USE ItemAssumption DEF vars, queueVars, refVars, threadVars, itemVars, loopVars, opVars, orderVars

\* The listed items are the elements of the list.
LEMMA ListedFacts == ASSUME TypeOK PROVE Listed = Elements(list) /\ Listed \subseteq Item
BY ElementsType DEF TypeOK, Listed, Elements

\* A staged worker is the worker, and its item is the current one.
LEMMA StagedFacts ==
  ASSUME IInv, NEW t \in Thread, Staged(t)
  PROVE  /\ t \in Live /\ \A u \in Thread : u # t => u \notin Live /\ ~Staged(u)
         /\ first[t] \in Item /\ first[t] \in Listed /\ first[t] = current
         /\ ticket[first[t]] > 0
<1>1. t \in Live /\ \A u \in Thread : u # t => u \notin Live /\ ~Staged(u)
  BY DEF IInv, WorkerInv, OneWorker, Live, Staged
<1>2. first[t] \in Listed /\ first[t] = current
  BY DEF IInv, StageInv
<1> QED BY <1>1, <1>2, ListedFacts DEF IInv, ListInv

\* FreshInv holds on where only the item on the stage is touched, and only listed
\* items are marked.
LEMMA FreshKept ==
  ASSUME IInv, Listed' \subseteq Listed, UNCHANGED <<current, ticket>>,
         Touched' \subseteq Touched \cup ({current} \cap Listed),
         deleted' \subseteq deleted \cup Listed
  PROVE  FreshInv'
<1>1. \A i \in Listed : ticket[i] # 0
  BY ListedFacts DEF IInv, TypeOK, ListInv
<1>2. FreshInv
  BY DEF IInv
<1>3. ASSUME NEW i \in Listed' \ {current'} PROVE i \notin Touched'
  BY <1>2 DEF FreshInv
<1>4. ASSUME NEW i \in Item, ticket'[i] = 0 PROVE i \notin Touched' \cup deleted'
  BY <1>1, <1>2, <1>4 DEF FreshInv
<1> QED BY <1>3, <1>4 DEF FreshInv

\* When the worker is not staged nobody is: no current item, no operation and,
\* without spurious wakeups, no idle source.
LEMMA UnstagedFacts ==
  ASSUME IInv, NEW t \in Live, ~Staged(t)
  PROVE  /\ \A u \in Thread : ~Staged(u) /\ (u # t => u \notin Live)
         /\ current = None /\ op = "none" /\ (~Spurious => idle = <<>>)
<1>1. \A u \in Thread : ~Staged(u) /\ (u # t => u \notin Live)
  BY DEF IInv, WorkerInv, OneWorker, Live, Staged
<1>2. current = None
  BY <1>1 DEF IInv, StageInv
<1>3. op = "none"
  BY <1>1 DEF IInv, OpInv, Staged
<1>4. ~Spurious => idle = <<>>
  BY <1>1 DEF IInv, CallbackInv, Staged
<1> QED BY <1>1, <1>2, <1>3, <1>4

\* The position the launch counts exists.
LEMMA LeadingPriorityFacts ==
  ASSUME TypeOK
  PROVE  /\ LeadingPriority \in 0 .. Len(list)
         /\ \A k \in 1 .. LeadingPriority : IsPriority(list[k])
         /\ LeadingPriority < Len(list) => ~IsPriority(list[LeadingPriority + 1])
<1> DEFINE T == {n \in 0 .. Len(list) : n < Len(list) => ~IsPriority(list[n + 1])}
<1>1. Len(list) \in Nat
  BY DEF TypeOK
<1>2. Len(list) \in T /\ T \subseteq Nat
  BY <1>1
<1> HIDE DEF T
<1>3. PICK n \in T : \A k \in T : n <= k
  BY <1>2, LeastNatural
<1>4. n \in 0 .. Len(list) /\ (n < Len(list) => ~IsPriority(list[n + 1]))
  BY <1>3 DEF T
<1>5. \A k \in 1 .. n : IsPriority(list[k])
  <2> SUFFICES ASSUME NEW k \in 1 .. n, ~IsPriority(list[k]) PROVE FALSE
    OBVIOUS
  <2>1. k - 1 \in 0 .. Len(list) /\ (k - 1) + 1 = k
    BY <1>1, <1>4
  <2>2. k - 1 \in T
    BY <2>1 DEF T
  <2> QED BY <1>3, <1>4, <2>2
<1> QED BY <1>4, <1>5 DEF LeadingPriority

\* A launch lists the new item beside the others.
LEMMA InsertFacts ==
  ASSUME TypeOK, Distinct(list), NEW i \in Item, i \notin Listed
  PROVE  /\ Insert(i) \in Seq(Item) /\ Distinct(Insert(i))
         /\ Elements(Insert(i)) = Listed \cup {i}
<1>1. list \in Seq(Item) /\ Listed = Elements(list)
  BY ListedFacts DEF TypeOK
<1>2. CASE IsPriority(i)
  <2>1. LeadingPriority + 1 \in 1 .. Len(list) + 1
    BY <1>1, LeadingPriorityFacts
  <2>2. Insert(i) = InsertAt(list, LeadingPriority + 1, i)
    BY <1>2 DEF Insert
  <2> QED BY <1>1, <2>1, <2>2, InsertAtFacts, InsertAtElements
<1>3. CASE ~IsPriority(i)
  BY <1>1, <1>3, AppendElements DEF Insert
<1> QED BY <1>2, <1>3

\* Unlinking an item takes that item out and no other.
LEMMA DeleteLinkFacts ==
  ASSUME TypeOK, Distinct(list), NEW i \in Listed
  PROVE  /\ DeleteLink(i) \in Seq(Item) /\ Distinct(DeleteLink(i))
         /\ Elements(DeleteLink(i)) = Listed \ {i}
<1> DEFINE n == CHOOSE k \in 1 .. Len(list) : list[k] = i
<1>1. list \in Seq(Item) /\ Listed = Elements(list)
  BY ListedFacts DEF TypeOK
<1>2. n \in 1 .. Len(list) /\ list[n] = i
  BY DEF Listed
<1>3. DeleteLink(i) = RemoveAt(list, n)
  BY DEF DeleteLink
<1> HIDE DEF n
<1> QED BY <1>1, <1>2, <1>3, RemoveAtFacts, RemoveAtElements

\* A launch lists an item and starts or wakes the worker.
LEMMA LaunchStep == ASSUME IInv, NEW i \in Item, Launch(i) PROVE IInv'
<1> USE DEF IInv, Launch, StartOrWake, Broadcast, Goto
<1>1. TypeOK'
  <2>1. i \notin Listed
    BY DEF ListInv
  <2>2. list' \in Seq(Item)
    BY <2>1, InsertFacts DEF ListInv
  <2>3. stopped' \in BOOLEAN /\ refs' \in Nat
    <3>1. refs' = refs + 1 \/ refs' = refs
      OBVIOUS
    <3>2. stopped' = FALSE \/ stopped' = stopped
      BY Zenon
    <3>3. stopped' \in BOOLEAN
      BY <3>2, Zenon DEF TypeOK
    <3>4. refs' \in Nat
      BY <3>1 DEF TypeOK
    <3> QED BY <3>3, <3>4
  <2>5. pc' \in [Thread -> PC]
    BY DEF TypeOK, PC
  <2>4. ticket' \in [Item -> Nat] /\ clock' \in Nat
    BY DEF TypeOK
  <2> QED BY <2>2, <2>3, <2>4, <2>5 DEF TypeOK
<1>2. WorkerInv'
  BY DEF TypeOK, PC, WorkerInv, OneWorker, Live
<1>3. RefInv'
  BY DEF TypeOK, PC, RefInv, WorkerInv, OneWorker, Live
<1>4. ListInv'
  <2>1. i \notin Listed
    BY DEF ListInv
  <2>2. /\ list' \in Seq(Item) /\ Distinct(list')
        /\ Elements(list') = Listed \cup {i}
    BY <2>1, InsertFacts DEF ListInv
  <2>3. Listed' = Listed \cup {i}
    BY <2>2 DEF Listed, Elements
  <2> QED BY <2>2, <2>3, ListedFacts DEF TypeOK, ListInv
<1>5. StageInv'
  <2>1. i \notin Listed
    BY DEF ListInv
  <2>2. /\ list' \in Seq(Item) /\ Distinct(list')
        /\ Elements(list') = Listed \cup {i}
    BY <2>1, InsertFacts DEF ListInv
  <2>3. Listed' = Listed \cup {i}
    BY <2>2 DEF Listed, Elements
  <2>4. \A t \in Thread : Staged(t)' <=> Staged(t)
    BY DEF TypeOK, Staged
  <2>5. \A t \in Thread : pc'[t] \in {"begin", "work", "end"} => pc[t] \in {"begin", "work", "end"}
    BY DEF TypeOK
  <2> QED BY <2>3, <2>4, <2>5 DEF StageInv
<1>6. FreshInv'
  <2>1. i \notin Listed
    BY DEF ListInv
  <2>2. /\ list' \in Seq(Item) /\ Distinct(list')
        /\ Elements(list') = Listed \cup {i}
    BY <2>1, InsertFacts DEF ListInv
  <2>3. Listed' = Listed \cup {i}
    BY <2>2 DEF Listed, Elements
  <2>4. ticket'[i] > 0 /\ \A j \in Item : j # i => ticket'[j] = ticket[j]
    BY DEF TypeOK
  <2>5. i \notin Touched \cup deleted
    BY DEF FreshInv
  <2>6. Touched' = Touched
    BY DEF Touched
  <2> QED BY <2>3, <2>4, <2>5, <2>6, ListedFacts DEF FreshInv
<1>7. RanXorCancelled'
  BY DEF TypeOK, RanXorCancelled, StageInv, Staged, FreshInv, Touched
<1>8. CallbackInv'
  <2>1. \A t \in Thread : Staged(t)' <=> Staged(t)
    BY DEF TypeOK, Staged
  <2>2. \A t \in Thread : Staged(t) => pc'[t] = pc[t]
    BY DEF TypeOK, Staged
  <2>3. \A t \in Thread : pc'[t] \in {"begin", "work", "end", "notify", "callback"} => Staged(t)
    BY <2>1 DEF Staged
  <2> QED BY <2>1, <2>2, <2>3 DEF CallbackInv, Staged
<1>9. OpInv'
  BY DEF TypeOK, PC, OpInv, WorkerInv, OneWorker, Live, StageInv, Staged
<1> QED BY <1>1, <1>2, <1>3, <1>4, <1>5, <1>6, <1>7, <1>8, <1>9

\* Removal marks listed items that are not on the stage.
LEMMA RemoveItemsStep == ASSUME IInv, NEW mask \in Masks, RemoveItems(mask) PROVE IInv'
<1> USE DEF IInv, RemoveItems, Removable
<1>1. TypeOK'
  BY ListedFacts DEF TypeOK
<1>2. WorkerInv'
  BY DEF TypeOK, PC, WorkerInv, OneWorker, Live
<1>3. RefInv'
  BY DEF TypeOK, PC, RefInv, WorkerInv, OneWorker, Live
<1>4. ListInv'
  BY DEF TypeOK, ListInv, Listed
<1>5. StageInv'
  BY DEF TypeOK, PC, StageInv, Staged, Listed, WorkerInv, OneWorker, Live
<1>6. FreshInv'
  BY DEF TypeOK, FreshInv, Touched, Listed, StageInv, Staged, ListInv
<1>7. RanXorCancelled'
  BY DEF TypeOK, RanXorCancelled, StageInv, Staged, FreshInv, Touched
<1>8. CallbackInv'
  BY DEF TypeOK, PC, CallbackInv, Staged, StageInv, WorkerInv, OneWorker, Live
<1>9. OpInv'
  BY DEF TypeOK, PC, OpInv, WorkerInv, OneWorker, Live, StageInv, Staged
<1> QED BY <1>1, <1>2, <1>3, <1>4, <1>5, <1>6, <1>7, <1>8, <1>9

\* So does cancellation, which may also cancel the account's operation.
LEMMA CancelRemoveItemsStep == ASSUME IInv, NEW mask \in Masks, CancelRemoveItems(mask) PROVE IInv'
<1> USE DEF IInv, CancelRemoveItems, Removable, ActualCancel
<1>1. TypeOK'
  BY ListedFacts DEF TypeOK
<1>2. WorkerInv'
  BY DEF TypeOK, PC, WorkerInv, OneWorker, Live
<1>3. RefInv'
  BY DEF TypeOK, PC, RefInv, WorkerInv, OneWorker, Live
<1>4. ListInv'
  BY DEF TypeOK, ListInv, Listed
<1>5. StageInv'
  BY DEF TypeOK, PC, StageInv, Staged, Listed, WorkerInv, OneWorker, Live
<1>6. FreshInv'
  <2>1. Listed' = Listed /\ deleted' \subseteq deleted \cup Listed
    BY DEF Listed
  <2>2. current # None => current \in Listed
    BY DEF StageInv
  <2>3. asked' \subseteq asked \cup ({current} \cap Listed)
    BY <2>2
  <2>4. Touched' \subseteq Touched \cup ({current} \cap Listed)
    BY <2>3 DEF Touched
  <2>5. UNCHANGED <<current, ticket>>
    OBVIOUS
  <2> HIDE DEF IInv, CancelRemoveItems
  <2> QED BY <2>1, <2>4, <2>5, FreshKept
<1>7. RanXorCancelled'
  BY DEF TypeOK, RanXorCancelled, StageInv, Staged, FreshInv, Touched
<1>8. CallbackInv'
  BY DEF TypeOK, PC, CallbackInv, Staged, StageInv, WorkerInv, OneWorker, Live
<1>9. OpInv'
  BY DEF TypeOK, PC, OpInv, WorkerInv, OneWorker, Live, StageInv, Staged
<1> QED BY <1>1, <1>2, <1>3, <1>4, <1>5, <1>6, <1>7, <1>8, <1>9

\* The account goes away.
LEMMA AccountFinalizedStep == ASSUME IInv, AccountFinalized PROVE IInv'
<1> USE DEF IInv, AccountFinalized, Broadcast
<1>1. TypeOK'
  BY DEF TypeOK, PC
<1>2. WorkerInv'
  <2>1. \A u \in Thread : pc'[u] = pc[u] \/ (pc[u] = "asleep" /\ pc'[u] = "woken")
    BY DEF TypeOK
  <2>2. Live' = Live
    BY <2>1 DEF Live
  <2> QED BY <2>2 DEF WorkerInv, OneWorker
<1>3. RefInv'
  BY DEF TypeOK, PC, RefInv, WorkerInv, OneWorker, Live
<1>4. ListInv'
  BY DEF TypeOK, ListInv, Listed
<1>5. StageInv'
  BY DEF TypeOK, PC, StageInv, Staged, Listed, WorkerInv, OneWorker, Live
<1>6. FreshInv'
  BY DEF TypeOK, FreshInv, Touched, Listed, StageInv, Staged, ListInv
<1>7. RanXorCancelled'
  BY DEF TypeOK, RanXorCancelled, StageInv, Staged, FreshInv, Touched
<1>8. CallbackInv'
  BY DEF TypeOK, PC, CallbackInv, Staged, StageInv, WorkerInv, OneWorker, Live
<1>9. OpInv'
  BY DEF TypeOK, PC, OpInv, WorkerInv, OneWorker, Live, StageInv, Staged
<1> QED BY <1>1, <1>2, <1>3, <1>4, <1>5, <1>6, <1>7, <1>8, <1>9

\* Its reference goes: a queue without a worker is finalized.
LEMMA OwnerUnrefStep == ASSUME IInv, OwnerUnref PROVE IInv'
<1> USE DEF IInv, OwnerUnref, Unref
<1>1. TypeOK'
  <2>1. refs - 1 \in Nat
    BY DEF TypeOK, RefInv
  <2>2. list' \in Seq(Item)
    BY EmptySeq DEF TypeOK
  <2> QED BY <2>1, <2>2 DEF TypeOK, PC
<1>2. WorkerInv'
  BY DEF TypeOK, PC, WorkerInv, OneWorker, Live
<1>3. RefInv'
  BY DEF TypeOK, PC, RefInv, WorkerInv, OneWorker, Live
<1>4. ListInv'
  <2>1. CASE refs = 1
    BY <2>1, EmptyElements, EmptySeq DEF TypeOK, ListInv, Listed, Elements
  <2>2. CASE refs # 1
    BY <2>2 DEF TypeOK, ListInv, Listed
  <2> QED BY <2>1, <2>2
<1>5. StageInv'
  <2>1. CASE refs = 1
    <3>1. \A t \in Thread : ~Staged(t)
      BY <2>1 DEF RefInv, Live, Staged
    <3>2. current = None
      BY <3>1 DEF StageInv
    <3> QED BY <3>1, <3>2 DEF StageInv, Staged
  <2>2. CASE refs # 1
    BY <2>2 DEF TypeOK, StageInv, Staged, Listed
  <2> QED BY <2>1, <2>2
<1>6. FreshInv'
  BY DEF TypeOK, FreshInv, Touched, Listed, StageInv, Staged, ListInv
<1>7. RanXorCancelled'
  BY DEF TypeOK, RanXorCancelled, StageInv, Staged, FreshInv, Touched
<1>8. CallbackInv'
  BY DEF TypeOK, PC, CallbackInv, Staged, StageInv, WorkerInv, OneWorker, Live
<1>9. OpInv'
  BY DEF TypeOK, PC, OpInv, WorkerInv, OneWorker, Live, StageInv, Staged
<1> QED BY <1>1, <1>2, <1>3, <1>4, <1>5, <1>6, <1>7, <1>8, <1>9

\* The worker looks at stopped.
LEMMA LoopStep == ASSUME IInv, NEW t \in Thread, Loop(t) PROVE IInv'
<1> USE DEF IInv, Loop, Goto
<1>1. TypeOK'
  BY DEF TypeOK, PC
<1>2. WorkerInv'
  BY DEF TypeOK, PC, WorkerInv, OneWorker, Live
<1>3. RefInv'
  BY DEF TypeOK, PC, RefInv, WorkerInv, OneWorker, Live
<1>4. ListInv'
  BY DEF TypeOK, ListInv, Listed
<1>5. StageInv'
  BY DEF TypeOK, PC, StageInv, Staged, Listed, WorkerInv, OneWorker, Live
<1>6. FreshInv'
  BY DEF TypeOK, FreshInv, Touched, Listed, StageInv, Staged, ListInv
<1>7. RanXorCancelled'
  BY DEF TypeOK, RanXorCancelled, StageInv, Staged, FreshInv, Touched
<1>8. CallbackInv'
  BY DEF TypeOK, PC, CallbackInv, Staged, StageInv, WorkerInv, OneWorker, Live
<1>9. OpInv'
  BY DEF TypeOK, PC, OpInv, WorkerInv, OneWorker, Live, StageInv, Staged
<1> QED BY <1>1, <1>2, <1>3, <1>4, <1>5, <1>6, <1>7, <1>8, <1>9

\* The head of the list goes on the stage.
LEMMA PickStep == ASSUME IInv, NEW t \in Thread, Pick(t) PROVE IInv'
<1> USE DEF IInv, Pick, Goto
<1>1. TypeOK'
  <2>1. list # <<>> => Head(list) \in Item
    BY DEF TypeOK
  <2>2. first' \in [Thread -> Item \cup {None}] /\ current' \in Item \cup {None}
    <3>1. first \in [Thread -> Item \cup {None}] /\ current \in Item \cup {None}
      BY Zenon DEF TypeOK
    <3>2. CASE list = <<>>
      <4>1. first' = [first EXCEPT ![t] = None] /\ current' = current
        BY <3>2
      <4> QED BY <3>1, <4>1
    <3>3. CASE list # <<>>
      <4>1. first' = [first EXCEPT ![t] = Head(list)] /\ current' = Head(list)
        BY <3>3
      <4> DEFINE h == Head(list)
      <4>2. h \in Item /\ first' = [first EXCEPT ![t] = h] /\ current' = h
        BY <2>1, <3>3, <4>1
      <4> HIDE DEF h
      <4> QED BY <3>1, <4>2
    <3> QED BY <3>2, <3>3
  <2>3. del' \in [Thread -> BOOLEAN] /\ pc' \in [Thread -> PC]
    <3>1. (Head(list) \in deleted) \in BOOLEAN
      OBVIOUS
    <3>2. CASE list = <<>>
      BY <3>2 DEF TypeOK, PC
    <3>3. CASE list # <<>>
      <4>1. pc' \in [Thread -> PC]
        BY <3>3 DEF TypeOK, PC
      <4>2. del' \in [Thread -> BOOLEAN]
        BY <3>1, <3>3, Zenon DEF TypeOK
      <4> QED BY <4>1, <4>2
    <3> QED BY <3>2, <3>3
  <2>4. op' \in {"none", "live", "cancelled"} /\ nextUncancel' \in BOOLEAN
    BY DEF TypeOK
  <2> QED BY <2>2, <2>3, <2>4 DEF TypeOK
<1>2. WorkerInv'
  BY DEF TypeOK, PC, WorkerInv, OneWorker, Live
<1>3. RefInv'
  BY DEF TypeOK, PC, RefInv, WorkerInv, OneWorker, Live
<1>4. ListInv'
  BY DEF TypeOK, ListInv, Listed
<1>5. StageInv'
  <2>1. t \in Live /\ ~Staged(t)
    BY DEF Live, Staged
  <2>2. /\ \A u \in Thread : ~Staged(u) /\ (u # t => u \notin Live)
        /\ current = None /\ op = "none" /\ (~Spurious => idle = <<>>)
    BY <2>1, UnstagedFacts
  <2>3. list # <<>> => Head(list) \in Listed /\ Head(list) \in Item
    BY HeadTailElements, ListedFacts DEF TypeOK
  <2>4. \A u \in Thread : u # t => pc'[u] = pc[u] /\ ~Staged(u)'
    BY <2>2 DEF TypeOK, Staged
  <2>5. CASE list = <<>>
    BY <2>2, <2>4, <2>5 DEF TypeOK, StageInv, Staged, Listed
  <2>6. CASE list # <<>>
    <3>1. first'[t] = Head(list) /\ current' = Head(list) /\ (del'[t] <=> Head(list) \in deleted)
      BY <2>6 DEF TypeOK
    <3>2. pc'[t] \in {"begin", "notify"} /\ (pc'[t] = "begin" => Head(list) \notin deleted)
      BY <2>6 DEF TypeOK
    <3>3. \A u \in Thread : u # t => pc[u] \notin {"begin", "work", "end"}
      BY <2>2 DEF Staged
    <3>4. Staged(t)'
      BY <3>2 DEF Staged
    <3>5. Head(list) \in Listed' /\ deleted' = deleted
      BY <2>3, <2>6 DEF Listed
    <3>6. \A u \in Thread : Staged(u)' => u = t
      BY <2>4, Zenon
    <3>7. (\A u \in Thread : Staged(u) => /\ first[u] \in Listed /\ current = first[u]
                                          /\ del[u] <=> first[u] \in deleted)'
      BY <3>1, <3>5, <3>6
    <3>8. (\A u \in Thread : pc[u] \in {"begin", "work", "end"} => ~del[u])'
      <4>1. \A u \in Thread : pc'[u] \in {"begin", "work", "end"} => u = t
        BY <2>4, <3>3
      <4> QED BY <3>1, <3>2, <4>1
    <3>9. (current # None => \E u \in Thread : Staged(u))'
      BY <3>4
    <3> HIDE DEF IInv, Pick, Goto
    <3> QED BY <3>7, <3>8, <3>9 DEF StageInv
  <2> QED BY <2>5, <2>6
<1>6. FreshInv'
  <2>1. t \in Live /\ ~Staged(t)
    BY DEF Live, Staged
  <2>2. /\ \A u \in Thread : ~Staged(u) /\ (u # t => u \notin Live)
        /\ current = None /\ op = "none" /\ (~Spurious => idle = <<>>)
    BY <2>1, UnstagedFacts
  <2> QED BY <2>2, ListedFacts DEF TypeOK, FreshInv, Touched, Listed
<1>7. RanXorCancelled'
  BY DEF TypeOK, RanXorCancelled, StageInv, Staged, FreshInv, Touched
<1>8. CallbackInv'
  <2> SUFFICES ASSUME ~Spurious PROVE CallbackInv'
    BY DEF CallbackInv
  <2>1. t \in Live /\ ~Staged(t)
    BY DEF Live, Staged
  <2>2. /\ \A u \in Thread : ~Staged(u) /\ (u # t => u \notin Live)
        /\ current = None /\ op = "none" /\ (~Spurious => idle = <<>>)
    BY <2>1, UnstagedFacts
  <2>3. list # <<>> => Head(list) \notin freed \cup hadCallback
    BY <2>2, HeadTailElements, ListedFacts DEF TypeOK, FreshInv, Touched
  <2>4. \A u \in Thread : u # t => pc'[u] = pc[u] /\ first'[u] = first[u] /\ ~Staged(u)'
    BY <2>2 DEF TypeOK, Staged
  <2>5. pc'[t] # "callback" /\ idle' = <<>>
    BY <2>2 DEF TypeOK
  <2>6. list = <<>> => pc'[t] = "drop" /\ first'[t] = None
    BY DEF TypeOK
  <2>7. list # <<>> => pc'[t] # "drop" /\ first'[t] = Head(list)
    BY DEF TypeOK
  <2> QED BY <2>3, <2>4, <2>5, <2>6, <2>7 DEF CallbackInv, Staged
<1>9. OpInv'
  <2>1. t \in Live /\ ~Staged(t)
    BY DEF Live, Staged
  <2>2. /\ \A u \in Thread : ~Staged(u) /\ (u # t => u \notin Live)
        /\ current = None /\ op = "none" /\ (~Spurious => idle = <<>>)
    BY <2>1, UnstagedFacts
  <2> QED BY <2>2 DEF TypeOK, PC, OpInv
<1> QED BY <1>1, <1>2, <1>3, <1>4, <1>5, <1>6, <1>7, <1>8, <1>9

\* The work function starts.
LEMMA BeginStep == ASSUME IInv, NEW t \in Thread, Begin(t) PROVE IInv'
<1> USE DEF IInv, Begin, Goto
<1>1. TypeOK'
  <2>1. Staged(t)
    BY DEF Staged
  <2>2. /\ t \in Live /\ \A u \in Thread : u # t => u \notin Live /\ ~Staged(u)
        /\ first[t] \in Item /\ first[t] \in Listed /\ first[t] = current
        /\ ticket[first[t]] > 0
    BY <2>1, StagedFacts
  <2> QED BY <2>2 DEF TypeOK, PC
<1>2. WorkerInv'
  BY DEF TypeOK, PC, WorkerInv, OneWorker, Live
<1>3. RefInv'
  BY DEF TypeOK, PC, RefInv, WorkerInv, OneWorker, Live
<1>4. ListInv'
  BY DEF TypeOK, ListInv, Listed
<1>5. StageInv'
  BY DEF TypeOK, PC, StageInv, Staged, Listed, WorkerInv, OneWorker, Live
<1>6. FreshInv'
  <2>1. Staged(t)
    BY DEF Staged
  <2>2. first[t] = current /\ current \in Listed
    BY <2>1, StagedFacts
  <2>3. ran' \subseteq ran \cup {first[t]}
    OBVIOUS
  <2>4. Touched' \subseteq Touched \cup ({current} \cap Listed)
    BY <2>2, <2>3 DEF Touched
  <2>5. UNCHANGED <<current, ticket>> /\ Listed' = Listed /\ deleted' = deleted
    BY DEF Listed
  <2> HIDE DEF IInv, Begin
  <2> QED BY <2>4, <2>5, FreshKept
<1>7. RanXorCancelled'
  BY DEF TypeOK, RanXorCancelled, StageInv, Staged, FreshInv, Touched
<1>8. CallbackInv'
  BY DEF TypeOK, PC, CallbackInv, Staged, StageInv, WorkerInv, OneWorker, Live
<1>9. OpInv'
  BY DEF TypeOK, PC, OpInv, WorkerInv, OneWorker, Live, StageInv, Staged
<1> QED BY <1>1, <1>2, <1>3, <1>4, <1>5, <1>6, <1>7, <1>8, <1>9

\* It reads.
LEMMA WorkStep == ASSUME IInv, NEW t \in Thread, Work(t) PROVE IInv'
<1> USE DEF IInv, Work, Goto
<1>1. TypeOK'
  <2>1. Staged(t)
    BY DEF Staged
  <2>2. /\ t \in Live /\ \A u \in Thread : u # t => u \notin Live /\ ~Staged(u)
        /\ first[t] \in Item /\ first[t] \in Listed /\ first[t] = current
        /\ ticket[first[t]] > 0
    BY <2>1, StagedFacts
  <2> QED BY <2>2 DEF TypeOK, PC
<1>2. WorkerInv'
  BY DEF TypeOK, PC, WorkerInv, OneWorker, Live
<1>3. RefInv'
  BY DEF TypeOK, PC, RefInv, WorkerInv, OneWorker, Live
<1>4. ListInv'
  BY DEF TypeOK, ListInv, Listed
<1>5. StageInv'
  BY DEF TypeOK, PC, StageInv, Staged, Listed, WorkerInv, OneWorker, Live
<1>6. FreshInv'
  <2>1. Staged(t)
    BY DEF Staged
  <2>2. first[t] = current /\ current \in Listed
    BY <2>1, StagedFacts
  <2>3. interrupted' \subseteq interrupted \cup {first[t]}
    OBVIOUS
  <2>4. Touched' \subseteq Touched \cup ({current} \cap Listed)
    BY <2>2, <2>3 DEF Touched
  <2>5. UNCHANGED <<current, ticket>> /\ Listed' = Listed /\ deleted' = deleted
    BY DEF Listed
  <2> HIDE DEF IInv, Work
  <2> QED BY <2>4, <2>5, FreshKept
<1>7. RanXorCancelled'
  BY DEF TypeOK, RanXorCancelled, StageInv, Staged, FreshInv, Touched
<1>8. CallbackInv'
  BY DEF TypeOK, PC, CallbackInv, Staged, StageInv, WorkerInv, OneWorker, Live
<1>9. OpInv'
  BY DEF TypeOK, PC, OpInv, WorkerInv, OneWorker, Live, StageInv, Staged
<1> QED BY <1>1, <1>2, <1>3, <1>4, <1>5, <1>6, <1>7, <1>8, <1>9

\* It ends.
LEMMA EndStep == ASSUME IInv, NEW t \in Thread, End(t) PROVE IInv'
<1> USE DEF IInv, End, Goto
<1>1. TypeOK'
  BY DEF TypeOK, PC
<1>2. WorkerInv'
  BY DEF TypeOK, PC, WorkerInv, OneWorker, Live
<1>3. RefInv'
  BY DEF TypeOK, PC, RefInv, WorkerInv, OneWorker, Live
<1>4. ListInv'
  BY DEF TypeOK, ListInv, Listed
<1>5. StageInv'
  BY DEF TypeOK, PC, StageInv, Staged, Listed, WorkerInv, OneWorker, Live
<1>6. FreshInv'
  BY DEF TypeOK, FreshInv, Touched, Listed, StageInv, Staged, ListInv
<1>7. RanXorCancelled'
  BY DEF TypeOK, RanXorCancelled, StageInv, Staged, FreshInv, Touched
<1>8. CallbackInv'
  BY DEF TypeOK, PC, CallbackInv, Staged, StageInv, WorkerInv, OneWorker, Live
<1>9. OpInv'
  BY DEF TypeOK, PC, OpInv, WorkerInv, OneWorker, Live, StageInv, Staged
<1> QED BY <1>1, <1>2, <1>3, <1>4, <1>5, <1>6, <1>7, <1>8, <1>9

\* The main loop is given the callback.
LEMMA NotifyStep == ASSUME IInv, NEW t \in Thread, Notify(t) PROVE IInv'
<1> USE DEF IInv, Notify, Goto
<1>1. TypeOK'
  <2>1. Staged(t)
    BY DEF Staged
  <2>2. /\ t \in Live /\ \A u \in Thread : u # t => u \notin Live /\ ~Staged(u)
        /\ first[t] \in Item /\ first[t] \in Listed /\ first[t] = current
        /\ ticket[first[t]] > 0
    BY <2>1, StagedFacts
  <2> QED BY <2>2, AppendElements DEF TypeOK, PC
<1>2. WorkerInv'
  BY DEF TypeOK, PC, WorkerInv, OneWorker, Live
<1>3. RefInv'
  BY DEF TypeOK, PC, RefInv, WorkerInv, OneWorker, Live
<1>4. ListInv'
  BY DEF TypeOK, ListInv, Listed
<1>5. StageInv'
  BY DEF TypeOK, PC, StageInv, Staged, Listed, WorkerInv, OneWorker, Live
<1>6. FreshInv'
  <2>1. Staged(t)
    BY DEF Staged
  <2>2. /\ t \in Live /\ \A u \in Thread : u # t => u \notin Live /\ ~Staged(u)
        /\ first[t] \in Item /\ first[t] \in Listed /\ first[t] = current
        /\ ticket[first[t]] > 0
    BY <2>1, StagedFacts
  <2>3. Elements(idle') = Elements(idle) \cup {first[t]}
    BY <2>2, AppendElements DEF TypeOK
  <2> QED BY <2>2, <2>3 DEF TypeOK, FreshInv, Touched, Listed
<1>7. RanXorCancelled'
  BY DEF TypeOK, RanXorCancelled, StageInv, Staged, FreshInv, Touched
<1>8. CallbackInv'
  <2> SUFFICES ASSUME ~Spurious PROVE CallbackInv'
    BY DEF CallbackInv
  <2>1. Staged(t)
    BY DEF Staged
  <2>2. /\ t \in Live /\ \A u \in Thread : u # t => u \notin Live /\ ~Staged(u)
        /\ first[t] \in Item /\ first[t] \in Listed /\ first[t] = current
        /\ ticket[first[t]] > 0
    BY <2>1, StagedFacts
  <2>3. idle = <<>>
    BY <2>2 DEF CallbackInv, Staged
  <2>4. idle' = <<first[t]>>
    BY <2>3
  <2>5. pc'[t] = "callback" /\ \A u \in Thread : u # t => pc'[u] = pc[u]
    BY DEF TypeOK
  <2> QED BY <2>1, <2>2, <2>4, <2>5 DEF CallbackInv, Staged
<1>9. OpInv'
  BY DEF TypeOK, PC, OpInv, WorkerInv, OneWorker, Live, StageInv, Staged
<1> QED BY <1>1, <1>2, <1>3, <1>4, <1>5, <1>6, <1>7, <1>8, <1>9

\* The worker is told, and frees the data.
LEMMA AwaitCallbackStep == ASSUME IInv, NEW t \in Thread, AwaitCallback(t) PROVE IInv'
<1> USE DEF IInv, AwaitCallback, Goto
<1>1. TypeOK'
  <2>1. Staged(t)
    BY DEF Staged
  <2>2. /\ t \in Live /\ \A u \in Thread : u # t => u \notin Live /\ ~Staged(u)
        /\ first[t] \in Item /\ first[t] \in Listed /\ first[t] = current
        /\ ticket[first[t]] > 0
    BY <2>1, StagedFacts
  <2> QED BY <2>2 DEF TypeOK, PC
<1>2. WorkerInv'
  BY DEF TypeOK, PC, WorkerInv, OneWorker, Live
<1>3. RefInv'
  BY DEF TypeOK, PC, RefInv, WorkerInv, OneWorker, Live
<1>4. ListInv'
  BY DEF TypeOK, ListInv, Listed
<1>5. StageInv'
  BY DEF TypeOK, PC, StageInv, Staged, Listed, WorkerInv, OneWorker, Live
<1>6. FreshInv'
  <2>1. Staged(t)
    BY DEF Staged
  <2>2. /\ t \in Live /\ \A u \in Thread : u # t => u \notin Live /\ ~Staged(u)
        /\ first[t] \in Item /\ first[t] \in Listed /\ first[t] = current
        /\ ticket[first[t]] > 0
    BY <2>1, StagedFacts
  <2> QED BY <2>2 DEF TypeOK, FreshInv, Touched, Listed
<1>7. RanXorCancelled'
  BY DEF TypeOK, RanXorCancelled, StageInv, Staged, FreshInv, Touched
<1>8. CallbackInv'
  <2> SUFFICES ASSUME ~Spurious PROVE CallbackInv'
    BY DEF CallbackInv
  <2>1. Staged(t)
    BY DEF Staged
  <2>2. \A u \in Thread : u # t => ~Staged(u)
    BY <2>1, StagedFacts
  <2>3. first[t] \in hadCallback /\ idle = <<>>
    BY DEF CallbackInv
  <2>4. /\ idle' = idle /\ first' = first /\ hadCallback' = hadCallback
        /\ pc'[t] = "drop" /\ \A u \in Thread : u # t => pc'[u] = pc[u]
    BY DEF TypeOK
  <2>5. \A u \in Thread : u # t => ~Staged(u)'
    BY <2>2, <2>4 DEF Staged
  <2>6. \A u \in Thread : Staged(u)' /\ pc'[u] # "drop" => first'[u] \notin freed'
    BY <2>4, <2>5
  <2>7. \A u \in Thread : pc'[u] \in {"begin", "work", "end", "notify"} =>
              first'[u] \notin hadCallback'
    BY <2>4, <2>5 DEF Staged
  <2>8. \A u \in Thread : Staged(u)' /\ pc'[u] = "drop" => first'[u] \in hadCallback'
    BY <2>3, <2>4, <2>5
  <2> QED BY <2>3, <2>4, <2>6, <2>7, <2>8 DEF CallbackInv
<1>9. OpInv'
  BY DEF TypeOK, PC, OpInv, WorkerInv, OneWorker, Live, StageInv, Staged
<1> QED BY <1>1, <1>2, <1>3, <1>4, <1>5, <1>6, <1>7, <1>8, <1>9

\* The item is unlinked.
LEMMA DropStep == ASSUME IInv, NEW t \in Thread, Drop(t) PROVE IInv'
<1> USE DEF IInv, Drop, Goto
<1>1. TypeOK'
  <2>1. t \in Live
    BY DEF Live
  <2>2. CASE first[t] = None
    <3>1. ~Staged(t)
      BY <2>2 DEF Staged
    <3>2. /\ \A u \in Thread : ~Staged(u) /\ (u # t => u \notin Live)
          /\ current = None /\ op = "none" /\ (~Spurious => idle = <<>>)
      BY <2>1, <3>1, UnstagedFacts
    <3> QED BY <2>2, <3>2 DEF TypeOK, PC
  <2>3. CASE first[t] # None
    <3>1. Staged(t)
      BY <2>3 DEF Staged
    <3>2. /\ t \in Live /\ \A u \in Thread : u # t => u \notin Live /\ ~Staged(u)
          /\ first[t] \in Item /\ first[t] \in Listed /\ first[t] = current
          /\ ticket[first[t]] > 0
      BY <3>1, StagedFacts
    <3>3. /\ list' \in Seq(Item) /\ Distinct(list')
          /\ Elements(list') = Listed \ {first[t]}
      BY <2>3, <3>2, DeleteLinkFacts DEF ListInv
    <3>4. Listed' = Listed \ {first[t]}
      BY <3>3 DEF Listed, Elements
    <3> QED BY <2>3, <3>1, <3>2, <3>3, <3>4 DEF TypeOK, PC
  <2> QED BY <2>2, <2>3
<1>2. WorkerInv'
  BY DEF TypeOK, PC, WorkerInv, OneWorker, Live
<1>3. RefInv'
  BY DEF TypeOK, PC, RefInv, WorkerInv, OneWorker, Live
<1>4. ListInv'
  <2>1. t \in Live
    BY DEF Live
  <2>2. CASE first[t] = None
    <3>1. ~Staged(t)
      BY <2>2 DEF Staged
    <3>2. /\ \A u \in Thread : ~Staged(u) /\ (u # t => u \notin Live)
          /\ current = None /\ op = "none" /\ (~Spurious => idle = <<>>)
      BY <2>1, <3>1, UnstagedFacts
    <3> QED BY <2>2, <3>2 DEF TypeOK, ListInv, Listed
  <2>3. CASE first[t] # None
    <3>1. Staged(t)
      BY <2>3 DEF Staged
    <3>2. /\ t \in Live /\ \A u \in Thread : u # t => u \notin Live /\ ~Staged(u)
          /\ first[t] \in Item /\ first[t] \in Listed /\ first[t] = current
          /\ ticket[first[t]] > 0
      BY <3>1, StagedFacts
    <3>3. /\ list' \in Seq(Item) /\ Distinct(list')
          /\ Elements(list') = Listed \ {first[t]}
      BY <2>3, <3>2, DeleteLinkFacts DEF ListInv
    <3>4. Listed' = Listed \ {first[t]}
      BY <3>3 DEF Listed, Elements
    <3> QED BY <2>3, <3>1, <3>2, <3>3, <3>4 DEF TypeOK, ListInv
  <2> QED BY <2>2, <2>3
<1>5. StageInv'
  <2>1. t \in Live
    BY DEF Live
  <2>2. CASE first[t] = None
    <3>1. ~Staged(t)
      BY <2>2 DEF Staged
    <3>2. /\ \A u \in Thread : ~Staged(u) /\ (u # t => u \notin Live)
          /\ current = None /\ op = "none" /\ (~Spurious => idle = <<>>)
      BY <2>1, <3>1, UnstagedFacts
    <3> QED BY <2>2, <3>2 DEF TypeOK, PC, StageInv, Staged, Listed
  <2>3. CASE first[t] # None
    <3>1. Staged(t)
      BY <2>3 DEF Staged
    <3>2. /\ t \in Live /\ \A u \in Thread : u # t => u \notin Live /\ ~Staged(u)
          /\ first[t] \in Item /\ first[t] \in Listed /\ first[t] = current
          /\ ticket[first[t]] > 0
      BY <3>1, StagedFacts
    <3>3. /\ list' \in Seq(Item) /\ Distinct(list')
          /\ Elements(list') = Listed \ {first[t]}
      BY <2>3, <3>2, DeleteLinkFacts DEF ListInv
    <3>4. Listed' = Listed \ {first[t]}
      BY <3>3 DEF Listed, Elements
    <3> QED BY <2>3, <3>1, <3>2, <3>3, <3>4 DEF TypeOK, PC, StageInv, Staged
  <2> QED BY <2>2, <2>3
<1>6. FreshInv'
  <2>1. t \in Live
    BY DEF Live
  <2>2. CASE first[t] = None
    <3>1. ~Staged(t)
      BY <2>2 DEF Staged
    <3>2. /\ \A u \in Thread : ~Staged(u) /\ (u # t => u \notin Live)
          /\ current = None /\ op = "none" /\ (~Spurious => idle = <<>>)
      BY <2>1, <3>1, UnstagedFacts
    <3> QED BY <2>2, <3>2 DEF TypeOK, FreshInv, Touched, Listed
  <2>3. CASE first[t] # None
    <3>1. Staged(t)
      BY <2>3 DEF Staged
    <3>2. /\ t \in Live /\ \A u \in Thread : u # t => u \notin Live /\ ~Staged(u)
          /\ first[t] \in Item /\ first[t] \in Listed /\ first[t] = current
          /\ ticket[first[t]] > 0
      BY <3>1, StagedFacts
    <3>3. /\ list' \in Seq(Item) /\ Distinct(list')
          /\ Elements(list') = Listed \ {first[t]}
      BY <2>3, <3>2, DeleteLinkFacts DEF ListInv
    <3>4. Listed' = Listed \ {first[t]}
      BY <3>3 DEF Listed, Elements
    <3> QED BY <2>3, <3>1, <3>2, <3>3, <3>4 DEF TypeOK, FreshInv, Touched
  <2> QED BY <2>2, <2>3
<1>7. RanXorCancelled'
  BY DEF TypeOK, RanXorCancelled, StageInv, Staged, FreshInv, Touched
<1>8. CallbackInv'
  <2>1. t \in Live
    BY DEF Live
  <2>2. CASE first[t] = None
    <3>1. ~Staged(t)
      BY <2>2 DEF Staged
    <3>2. /\ \A u \in Thread : ~Staged(u) /\ (u # t => u \notin Live)
          /\ current = None /\ op = "none" /\ (~Spurious => idle = <<>>)
      BY <2>1, <3>1, UnstagedFacts
    <3> QED BY <2>2, <3>2 DEF TypeOK, PC, CallbackInv, Staged
  <2>3. CASE first[t] # None
    <3>1. Staged(t)
      BY <2>3 DEF Staged
    <3>2. /\ t \in Live /\ \A u \in Thread : u # t => u \notin Live /\ ~Staged(u)
          /\ first[t] \in Item /\ first[t] \in Listed /\ first[t] = current
          /\ ticket[first[t]] > 0
      BY <3>1, StagedFacts
    <3>3. /\ list' \in Seq(Item) /\ Distinct(list')
          /\ Elements(list') = Listed \ {first[t]}
      BY <2>3, <3>2, DeleteLinkFacts DEF ListInv
    <3>4. Listed' = Listed \ {first[t]}
      BY <3>3 DEF Listed, Elements
    <3> QED BY <2>3, <3>1, <3>2, <3>3, <3>4 DEF TypeOK, PC, CallbackInv, Staged
  <2> QED BY <2>2, <2>3
<1>9. OpInv'
  <2>1. t \in Live
    BY DEF Live
  <2>2. op = "none"
    BY <2>1, StagedFacts, UnstagedFacts DEF OpInv, Staged
  <2> QED BY <2>2 DEF OpInv
<1> QED BY <1>1, <1>2, <1>3, <1>4, <1>5, <1>6, <1>7, <1>8, <1>9

\* The worker waits.
LEMMA SleepStep == ASSUME IInv, NEW t \in Thread, Sleep(t) PROVE IInv'
<1> USE DEF IInv, Sleep, Goto
<1>1. TypeOK'
  BY DEF TypeOK, PC
<1>2. WorkerInv'
  BY DEF TypeOK, PC, WorkerInv, OneWorker, Live
<1>3. RefInv'
  BY DEF TypeOK, PC, RefInv, WorkerInv, OneWorker, Live
<1>4. ListInv'
  BY DEF TypeOK, ListInv, Listed
<1>5. StageInv'
  BY DEF TypeOK, PC, StageInv, Staged, Listed, WorkerInv, OneWorker, Live
<1>6. FreshInv'
  BY DEF TypeOK, FreshInv, Touched, Listed, StageInv, Staged, ListInv
<1>7. RanXorCancelled'
  BY DEF TypeOK, RanXorCancelled, StageInv, Staged, FreshInv, Touched
<1>8. CallbackInv'
  BY DEF TypeOK, PC, CallbackInv, Staged, StageInv, WorkerInv, OneWorker, Live
<1>9. OpInv'
  BY DEF TypeOK, PC, OpInv, WorkerInv, OneWorker, Live, StageInv, Staged
<1> QED BY <1>1, <1>2, <1>3, <1>4, <1>5, <1>6, <1>7, <1>8, <1>9

\* It wakes for nothing.
LEMMA SpuriousWakeStep == ASSUME IInv, NEW t \in Thread, SpuriousWake(t) PROVE IInv'
<1> USE DEF IInv, SpuriousWake, Goto
<1>1. TypeOK'
  BY DEF TypeOK, PC
<1>2. WorkerInv'
  BY DEF TypeOK, PC, WorkerInv, OneWorker, Live
<1>3. RefInv'
  BY DEF TypeOK, PC, RefInv, WorkerInv, OneWorker, Live
<1>4. ListInv'
  BY DEF TypeOK, ListInv, Listed
<1>5. StageInv'
  BY DEF TypeOK, PC, StageInv, Staged, Listed, WorkerInv, OneWorker, Live
<1>6. FreshInv'
  BY DEF TypeOK, FreshInv, Touched, Listed, StageInv, Staged, ListInv
<1>7. RanXorCancelled'
  BY DEF TypeOK, RanXorCancelled, StageInv, Staged, FreshInv, Touched
<1>8. CallbackInv'
  BY DEF TypeOK, PC, CallbackInv, Staged, StageInv, WorkerInv, OneWorker, Live
<1>9. OpInv'
  BY DEF TypeOK, PC, OpInv, WorkerInv, OneWorker, Live, StageInv, Staged
<1> QED BY <1>1, <1>2, <1>3, <1>4, <1>5, <1>6, <1>7, <1>8, <1>9

\* It wakes.
LEMMA WakeStep == ASSUME IInv, NEW t \in Thread, Wake(t) PROVE IInv'
<1> USE DEF IInv, Wake, Goto
<1>1. TypeOK'
  BY DEF TypeOK, PC
<1>2. WorkerInv'
  BY DEF TypeOK, PC, WorkerInv, OneWorker, Live
<1>3. RefInv'
  BY DEF TypeOK, PC, RefInv, WorkerInv, OneWorker, Live
<1>4. ListInv'
  BY DEF TypeOK, ListInv, Listed
<1>5. StageInv'
  BY DEF TypeOK, PC, StageInv, Staged, Listed, WorkerInv, OneWorker, Live
<1>6. FreshInv'
  BY DEF TypeOK, FreshInv, Touched, Listed, StageInv, Staged, ListInv
<1>7. RanXorCancelled'
  BY DEF TypeOK, RanXorCancelled, StageInv, Staged, FreshInv, Touched
<1>8. CallbackInv'
  BY DEF TypeOK, PC, CallbackInv, Staged, StageInv, WorkerInv, OneWorker, Live
<1>9. OpInv'
  BY DEF TypeOK, PC, OpInv, WorkerInv, OneWorker, Live, StageInv, Staged
<1> QED BY <1>1, <1>2, <1>3, <1>4, <1>5, <1>6, <1>7, <1>8, <1>9

\* It leaves, and may finalize the queue.
LEMMA ExitStep == ASSUME IInv, NEW t \in Thread, Exit(t) PROVE IInv'
<1> USE DEF IInv, Exit, Goto, Unref
<1>1. TypeOK'
  <2>1. refs > 0
    BY DEF RefInv, Live
  <2> QED BY <2>1 DEF TypeOK, PC
<1>2. WorkerInv'
  BY DEF TypeOK, PC, WorkerInv, OneWorker, Live
<1>3. RefInv'
  BY DEF TypeOK, PC, RefInv, WorkerInv, OneWorker, Live
<1>4. ListInv'
  <2>1. CASE refs = 1
    BY <2>1, EmptyElements, EmptySeq DEF TypeOK, ListInv, Listed, Elements
  <2>2. CASE refs # 1
    BY <2>2 DEF TypeOK, ListInv, Listed
  <2> QED BY <2>1, <2>2
<1>5. StageInv'
  <2>1. t \in Live /\ ~Staged(t)
    BY DEF Live, Staged
  <2>2. /\ \A u \in Thread : ~Staged(u) /\ (u # t => u \notin Live)
        /\ current = None /\ op = "none" /\ (~Spurious => idle = <<>>)
    BY <2>1, UnstagedFacts
  <2>3. \A u \in Thread : ~Staged(u)'
    BY <2>2 DEF TypeOK, PC, Staged, Live
  <2> QED BY <2>2, <2>3 DEF TypeOK, PC, StageInv, Live, Staged
<1>6. FreshInv'
  BY DEF TypeOK, FreshInv, Touched, Listed, StageInv, Staged, ListInv
<1>7. RanXorCancelled'
  BY DEF TypeOK, RanXorCancelled, StageInv, Staged, FreshInv, Touched
<1>8. CallbackInv'
  BY DEF TypeOK, PC, CallbackInv, Staged, StageInv, WorkerInv, OneWorker, Live
<1>9. OpInv'
  BY DEF TypeOK, PC, OpInv, WorkerInv, OneWorker, Live, StageInv, Staged
<1> QED BY <1>1, <1>2, <1>3, <1>4, <1>5, <1>6, <1>7, <1>8, <1>9

\* The main loop calls the user.
LEMMA PerformCallbackStep == ASSUME IInv, PerformCallback PROVE IInv'
<1> USE DEF IInv, PerformCallback
<1>1. TypeOK'
  BY DEF TypeOK, PC
<1>2. WorkerInv'
  BY DEF TypeOK, PC, WorkerInv, OneWorker, Live
<1>3. RefInv'
  BY DEF TypeOK, PC, RefInv, WorkerInv, OneWorker, Live
<1>4. ListInv'
  BY DEF TypeOK, ListInv, Listed
<1>5. StageInv'
  BY DEF TypeOK, PC, StageInv, Staged, Listed, WorkerInv, OneWorker, Live
<1>6. FreshInv'
  <2>1. Head(idle) \in Elements(idle)
    BY HeadTailElements DEF TypeOK
  <2> QED BY <2>1 DEF TypeOK, FreshInv, Touched, Listed
<1>7. RanXorCancelled'
  BY DEF TypeOK, RanXorCancelled, StageInv, Staged, FreshInv, Touched
<1>8. CallbackInv'
  BY DEF TypeOK, PC, CallbackInv, Staged, StageInv, WorkerInv, OneWorker, Live
<1>9. OpInv'
  BY DEF TypeOK, PC, OpInv, WorkerInv, OneWorker, Live, StageInv, Staged
<1> QED BY <1>1, <1>2, <1>3, <1>4, <1>5, <1>6, <1>7, <1>8, <1>9

\* The destroyer tells the worker.
LEMMA PerformDestroyerStep == ASSUME IInv, PerformDestroyer PROVE IInv'
<1> USE DEF IInv, PerformDestroyer
<1>1. TypeOK'
  BY DEF TypeOK, PC
<1>2. WorkerInv'
  BY DEF TypeOK, PC, WorkerInv, OneWorker, Live
<1>3. RefInv'
  BY DEF TypeOK, PC, RefInv, WorkerInv, OneWorker, Live
<1>4. ListInv'
  BY DEF TypeOK, ListInv, Listed
<1>5. StageInv'
  BY DEF TypeOK, PC, StageInv, Staged, Listed, WorkerInv, OneWorker, Live
<1>6. FreshInv'
  <2>1. Head(idle) \in Elements(idle) /\ Elements(Tail(idle)) \subseteq Elements(idle)
    BY HeadTailElements DEF TypeOK
  <2> QED BY <2>1 DEF TypeOK, FreshInv, Touched, Listed
<1>7. RanXorCancelled'
  BY DEF TypeOK, RanXorCancelled, StageInv, Staged, FreshInv, Touched
<1>8. CallbackInv'
  <2> SUFFICES ASSUME ~Spurious PROVE CallbackInv'
    BY DEF CallbackInv
  <2>1. PICK t \in Thread : pc[t] = "callback" /\ idle = <<first[t]>>
    BY DEF CallbackInv
  <2>2. Staged(t)
    BY <2>1 DEF Staged
  <2>3. \A u \in Thread : u # t => ~Staged(u)
    BY <2>2, StagedFacts
  <2>4. idle' = <<>>
    BY <2>1
  <2> QED BY <2>1, <2>3, <2>4 DEF CallbackInv, Staged
<1>9. OpInv'
  BY DEF TypeOK, PC, OpInv, WorkerInv, OneWorker, Live, StageInv, Staged
<1> QED BY <1>1, <1>2, <1>3, <1>4, <1>5, <1>6, <1>7, <1>8, <1>9

\* A step that changes nothing.
LEMMA StutterStep == ASSUME IInv, UNCHANGED vars PROVE IInv'
<1> USE DEF IInv
<1>1. TypeOK'
  BY DEF TypeOK, PC
<1>2. WorkerInv'
  BY DEF TypeOK, PC, WorkerInv, OneWorker, Live
<1>3. RefInv'
  BY DEF TypeOK, PC, RefInv, WorkerInv, OneWorker, Live
<1>4. ListInv'
  BY DEF TypeOK, ListInv, Listed
<1>5. StageInv'
  BY DEF TypeOK, PC, StageInv, Staged, Listed, WorkerInv, OneWorker, Live
<1>6. FreshInv'
  BY DEF TypeOK, FreshInv, Touched, Listed, StageInv, Staged, ListInv
<1>7. RanXorCancelled'
  BY DEF TypeOK, RanXorCancelled, StageInv, Staged, FreshInv, Touched
<1>8. CallbackInv'
  BY DEF TypeOK, PC, CallbackInv, Staged, StageInv, WorkerInv, OneWorker, Live
<1>9. OpInv'
  BY DEF TypeOK, PC, OpInv, WorkerInv, OneWorker, Live, StageInv, Staged
<1> QED BY <1>1, <1>2, <1>3, <1>4, <1>5, <1>6, <1>7, <1>8, <1>9

-----------------------------------------------------------------------------
\* IInv holds at the start.
LEMMA InitIInv == Init => IInv
<1> SUFFICES ASSUME Init PROVE IInv
  OBVIOUS
<1> USE DEF Init
<1>1. TypeOK
  BY EmptySeq DEF TypeOK, PC
<1>2. Listed = {} /\ Elements(idle) = {} /\ Distinct(list) /\ Live = {}
  BY EmptyElements, Listed = Elements(list) DEF Live, Listed, Elements
<1>3. WorkerInv /\ RefInv /\ ListInv /\ StageInv
  BY <1>2 DEF WorkerInv, OneWorker, RefInv, ListInv, StageInv, Staged
<1>4. FreshInv /\ RanXorCancelled /\ CallbackInv /\ OpInv
  BY <1>2 DEF FreshInv, Touched, RanXorCancelled, CallbackInv, Staged, OpInv
<1> QED BY <1>1, <1>3, <1>4 DEF IInv

\* Every step keeps IInv.
LEMMA NextIInv == IInv /\ [Next]_vars => IInv'
<1> SUFFICES ASSUME IInv, [Next]_vars PROVE IInv'
  OBVIOUS
<1>1. CASE Caller
  BY <1>1, LaunchStep, RemoveItemsStep, CancelRemoveItemsStep DEF Caller
<1>2. CASE Owner
  BY <1>2, AccountFinalizedStep, OwnerUnrefStep DEF Owner
<1>3. CASE MainLoop
  BY <1>3, PerformCallbackStep, PerformDestroyerStep DEF MainLoop
<1>4. ASSUME NEW t \in Thread, Worker(t) PROVE IInv'
  BY <1>4, LoopStep, PickStep, BeginStep, WorkStep, EndStep, NotifyStep, AwaitCallbackStep,
     DropStep, SleepStep, WakeStep, ExitStep DEF Worker
<1>5. ASSUME NEW t \in Thread, SpuriousWake(t) PROVE IInv'
  BY <1>5, SpuriousWakeStep
<1>6. CASE UNCHANGED vars
  BY <1>6, StutterStep
<1> QED BY <1>1, <1>2, <1>3, <1>4, <1>5, <1>6 DEF Next

\* IInv is an invariant of the queue.
THEOREM Invariance == Spec => []IInv
BY InitIInv, NextIInv, PTL DEF Spec

\* The types of the variables; the reference count is never negative.
THEOREM TypeCorrect == Spec => []TypeOK
<1>1. IInv => TypeOK
  BY DEF IInv
<1> QED BY <1>1, Invariance, PTL

\* One worker at a time serves the queue, whatever the callers do: the thread
\* that launch_wflags creates finds no other.
THEOREM OneWorkerAtATime == Spec => []OneWorker
<1>1. IInv => OneWorker
  BY DEF IInv, WorkerInv
<1> QED BY <1>1, Invariance, PTL

\* A worker never runs on a finalized queue.
THEOREM NoWorkerAfterFinalize == Spec => []WorkerHoldsQueue
<1>1. IInv => WorkerHoldsQueue
  BY DEF IInv, RefInv, WorkerHoldsQueue
<1> QED BY <1>1, Invariance, PTL

\* remove_items never writes into an item that was served or freed.
THEOREM RemovalIsSafe == Spec => []ListedIntact
<1>1. IInv => ListedIntact
  BY DEF IInv, FreshInv, Touched, ListedIntact
<1> QED BY <1>1, Invariance, PTL

\* Exactly one of the work function and the cancellation happens to an item.
THEOREM RunOrCancel == Spec => []RanXorCancelled
<1>1. IInv => RanXorCancelled
  BY DEF IInv
<1> QED BY <1>1, Invariance, PTL

\* A cancellation never reaches an operation it was not meant for.
THEOREM CancelHitsItsTarget == Spec => []NoStrayCancel
<1>1. IInv => NoStrayCancel
  BY DEF IInv, OpInv, NoStrayCancel, Interruptible
<1> QED BY <1>1, Invariance, PTL

\* Where g_cond_wait returns only when signalled, the main loop never holds a
\* source whose item was freed.
THEOREM FreeAfterCallback == Spec => [](~Spurious => CallbackBeforeFree)
<1>1. IInv => (~Spurious => CallbackBeforeFree)
  <2> SUFFICES ASSUME IInv, ~Spurious, NEW k \in 1 .. Len(idle) PROVE idle[k] \notin freed
    BY DEF CallbackBeforeFree
  <2>1. idle # <<>>
    OBVIOUS
  <2>2. PICK t \in Thread : pc[t] = "callback" /\ idle = <<first[t]>>
    BY <2>1 DEF IInv, CallbackInv
  <2>3. idle[k] = first[t]
    BY <2>2
  <2> QED BY <2>2, <2>3 DEF IInv, CallbackInv, Staged
<1> QED BY <1>1, Invariance, PTL

-----------------------------------------------------------------------------
\* No item is lost: the safety under OnlySleepStrands.

\* What the main loop has called back, or will when its sources are dispatched.
Answered == hadCallback \cup Elements(idle)

\* The worker is behind the place where it leaves the callback to the main loop.
Told(t) == pc[t] = "callback" \/ (pc[t] = "drop" /\ first[t] # None)

\* An item that was launched is in the list, or its callback is with the main loop or
\* was called, or it went with the queue.
NoneLost == \A i \in Item : ticket[i] > 0 => i \in Listed \cup Answered \/ refs = 0

\* The worker unlinks what it left to the main loop.
LostInv == NoneLost /\ \A t \in Thread : Told(t) => first[t] \in Answered

\* What is with the main loop stays there until it was called back.
LEMMA AnsweredStays ==
  ASSUME IInv, [Next]_vars
  PROVE  Answered \subseteq Answered'
<1> SUFFICES hadCallback \subseteq Answered' /\ Elements(idle) \subseteq Answered'
  BY DEF Answered
<1>1. ASSUME NEW t \in Thread, Notify(t)
      PROVE  hadCallback \subseteq Answered' /\ Elements(idle) \subseteq Answered'
  <2>1. first[t] \in Item
    BY <1>1, StagedFacts DEF Staged, Notify
  <2>2. /\ idle' = Append(idle, first[t]) /\ hadCallback' = hadCallback \ {first[t]}
        /\ Elements(idle') = Elements(idle) \cup {first[t]}
    BY <1>1, <2>1, AppendElements DEF Notify, IInv, TypeOK
  <2> QED BY <2>2 DEF Answered
<1>2. ASSUME PerformDestroyer
      PROVE  hadCallback \subseteq Answered' /\ Elements(idle) \subseteq Answered'
  <2>1. /\ idle # <<>> /\ idle' = Tail(idle) /\ hadCallback' = hadCallback \cup {Head(idle)}
        /\ idle \in Seq(Item)
    BY <1>2 DEF PerformDestroyer, IInv, TypeOK
  <2>2. ASSUME NEW k \in 1 .. Len(idle) PROVE idle[k] \in {Head(idle)} \cup Elements(Tail(idle))
    <3>1. /\ Head(idle) = idle[1] /\ Len(Tail(idle)) = Len(idle) - 1 /\ Len(idle) \in Nat
          /\ \A n \in 1 .. Len(Tail(idle)) : Tail(idle)[n] = idle[n + 1]
      BY <2>1, HeadTailProperties
    <3>2. CASE k = 1
      BY <3>1, <3>2
    <3>3. CASE k # 1
      <4>1. k - 1 \in 1 .. Len(Tail(idle)) /\ (k - 1) + 1 = k
        BY <3>1, <3>3
      <4>2. Tail(idle)[k - 1] = idle[k]
        BY <3>1, <4>1
      <4> QED BY <4>1, <4>2 DEF Elements
    <3> QED BY <3>2, <3>3
  <2> QED BY <2>1, <2>2 DEF Answered, Elements
<1>3. ASSUME UNCHANGED <<idle, hadCallback>>
      PROVE  hadCallback \subseteq Answered' /\ Elements(idle) \subseteq Answered'
  BY <1>3 DEF Answered
<1>4. CASE Caller \/ Owner
  BY <1>3, <1>4 DEF Caller, Owner, Launch, RemoveItems, CancelRemoveItems, AccountFinalized,
                    OwnerUnref
<1>5. ASSUME NEW t \in Thread, Worker(t) \/ SpuriousWake(t)
      PROVE  Notify(t) \/ UNCHANGED <<idle, hadCallback>>
  BY <1>5 DEF Worker, SpuriousWake, Loop, Pick, Begin, Work, End, AwaitCallback, Drop, Sleep,
              Wake, Exit
<1>6. CASE MainLoop
  BY <1>2, <1>3, <1>6 DEF MainLoop, PerformCallback
<1> QED BY <1>1, <1>3, <1>4, <1>5, <1>6 DEF Next

\* Every step keeps what is listed or leaves it to the main loop.
LEMMA NextLost == IInv /\ LostInv /\ [Next]_vars => LostInv'
<1> SUFFICES ASSUME IInv, LostInv, [Next]_vars PROVE LostInv'
  OBVIOUS
<1> USE DEF LostInv, NoneLost
<1>1. Answered \subseteq Answered'
  BY AnsweredStays
<1>2. ASSUME UNCHANGED <<list, ticket>>, refs = 0 => refs' = 0 PROVE NoneLost'
  BY <1>1, <1>2 DEF Listed
<1>3. ASSUME UNCHANGED <<pc, first>> PROVE \A t \in Thread : Told(t)' => first'[t] \in Answered'
  BY <1>1, <1>3 DEF Told
<1>4. ASSUME \A t \in Thread : Told(t)' => Told(t) /\ first'[t] = first[t]
      PROVE  \A t \in Thread : Told(t)' => first'[t] \in Answered'
  BY <1>1, <1>4
<1>5. ASSUME NEW i \in Item, Launch(i) PROVE LostInv'
  <2>1. /\ ticket[i] = 0 /\ ticket' = [ticket EXCEPT ![i] = clock + 1]
        /\ list' = Insert(i) /\ refs # 0 /\ UNCHANGED first
    BY <1>5 DEF Launch, IInv, RefInv
  <2>2. i \notin Listed
    BY <2>1, ListedFacts DEF IInv, ListInv
  <2>3. Listed' = Listed \cup {i}
    <3>1. Elements(Insert(i)) = Listed \cup {i}
      BY <2>2, InsertFacts DEF IInv, ListInv
    <3>2. Listed' = Elements(list')
      BY DEF Listed, Elements
    <3>3. list' = Insert(i)
      BY <2>1
    <3> QED BY <3>1, <3>2, <3>3
  <2>4. NoneLost'
    BY <1>1, <2>1, <2>3 DEF IInv, TypeOK
  <2>5. ASSUME NEW t \in Thread, Told(t)' PROVE Told(t)
    <3>1. pc'[t] = pc[t] \/ pc'[t] \in {"loop", "woken"}
      BY <1>5 DEF Launch, StartOrWake, Broadcast, Goto, IInv, TypeOK
    <3> QED BY <2>1, <2>5, <3>1 DEF Told
  <2> QED BY <1>4, <2>1, <2>4, <2>5
<1>6. ASSUME NEW mask \in Masks, RemoveItems(mask) \/ CancelRemoveItems(mask) PROVE LostInv'
  <2>1. UNCHANGED <<list, ticket, refs, pc, first>>
    BY <1>6 DEF RemoveItems, CancelRemoveItems
  <2> QED BY <1>2, <1>3, <2>1
<1>7. ASSUME AccountFinalized PROVE LostInv'
  <2>1. UNCHANGED <<list, ticket, refs, first>>
    BY <1>7 DEF AccountFinalized
  <2>2. ASSUME NEW t \in Thread, Told(t)' PROVE Told(t)
    <3>1. pc'[t] = pc[t] \/ pc'[t] = "woken"
      BY <1>7 DEF AccountFinalized, Broadcast, IInv, TypeOK
    <3> QED BY <2>1, <2>2, <3>1 DEF Told
  <2> QED BY <1>2, <1>4, <2>1, <2>2
<1>8. ASSUME Unref, UNCHANGED ticket, refs > 0 PROVE NoneLost'
  <2>1. refs' = refs - 1 /\ refs \in Nat /\ (refs # 1 => list' = list)
    BY <1>8 DEF Unref, IInv, TypeOK
  <2>2. CASE refs = 1
    BY <2>1, <2>2
  <2>3. CASE refs # 1
    <3>1. Listed' = Listed
      BY <2>1, <2>3 DEF Listed
    <3> QED BY <1>1, <1>8, <3>1
  <2> QED BY <2>2, <2>3
<1>9. ASSUME OwnerUnref PROVE LostInv'
  <2>1. Unref /\ UNCHANGED <<ticket, pc, first>> /\ refs > 0
    BY <1>9 DEF OwnerUnref, IInv, RefInv
  <2> QED BY <1>3, <1>8, <2>1
<1>10. ASSUME NEW t \in Thread, Exit(t) PROVE LostInv'
  <2>1. Unref /\ UNCHANGED <<ticket, first>> /\ refs > 0
    BY <1>10 DEF Exit, IInv, RefInv, Live
  <2>2. \A u \in Thread : Told(u)' => Told(u)
    BY <1>10 DEF Exit, Goto, Told, IInv, TypeOK
  <2> QED BY <1>4, <1>8, <2>1, <2>2
<1>11. ASSUME NEW t \in Thread, Drop(t) PROVE LostInv'
  <2>1. /\ pc[t] = "drop" /\ UNCHANGED <<ticket, refs, first>>
        /\ list' = IF first[t] = None THEN list ELSE DeleteLink(first[t])
    BY <1>11 DEF Drop
  <2>2. \A u \in Thread : Told(u)' => Told(u)
    BY <1>11 DEF Drop, Goto, Told, IInv, TypeOK
  <2>3. NoneLost'
    <3>1. CASE first[t] = None
      BY <1>2, <2>1, <3>1
    <3>2. CASE first[t] # None
      <4>1. first[t] \in Listed
        BY <2>1, <3>2, StagedFacts DEF Staged
      <4>2. Elements(DeleteLink(first[t])) = Listed \ {first[t]}
        BY <4>1, DeleteLinkFacts DEF IInv, ListInv
      <4>3. Listed' = Listed \ {first[t]}
        BY <2>1, <3>2, <4>2 DEF Listed, Elements
      <4>4. first[t] \in Answered
        BY <2>1, <3>2 DEF Told
      <4> QED BY <1>1, <2>1, <4>3, <4>4
    <3> QED BY <3>1, <3>2
  <2> QED BY <1>4, <2>1, <2>2, <2>3
<1>12. ASSUME NEW t \in Thread, Notify(t) PROVE LostInv'
  <2>1. UNCHANGED <<list, ticket, refs, first>> /\ pc' = [pc EXCEPT ![t] = "callback"]
    BY <1>12 DEF Notify, Goto
  <2>2. first[t] \in Answered'
    <3>1. first[t] \in Item
      BY <1>12, StagedFacts DEF Staged, Notify
    <3>2. Elements(idle') = Elements(idle) \cup {first[t]}
      BY <1>12, <3>1, AppendElements DEF Notify, IInv, TypeOK
    <3> QED BY <3>2 DEF Answered
  <2>3. ASSUME NEW u \in Thread, Told(u)' PROVE first'[u] \in Answered'
    <3>1. CASE u = t
      BY <2>1, <2>2, <3>1
    <3>2. CASE u # t
      <4>1. pc'[u] = pc[u]
        BY <2>1, <3>2 DEF IInv, TypeOK
      <4>2. Told(u)
        BY <2>1, <2>3, <4>1 DEF Told
      <4> QED BY <1>1, <2>1, <4>2
    <3> QED BY <3>1, <3>2
  <2> QED BY <1>2, <2>1, <2>3
<1>13. ASSUME NEW t \in Thread, AwaitCallback(t) PROVE LostInv'
  <2>1. /\ pc[t] = "callback" /\ UNCHANGED <<list, ticket, refs, first>>
        /\ pc' = [pc EXCEPT ![t] = "drop"]
    BY <1>13 DEF AwaitCallback, Goto
  <2>2. ASSUME NEW u \in Thread, Told(u)' PROVE Told(u)
    BY <2>1, <2>2 DEF Told, IInv, TypeOK
  <2> QED BY <1>2, <1>4, <2>1, <2>2
<1>14. ASSUME NEW t \in Thread, Pick(t) PROVE LostInv'
  <2>1. UNCHANGED <<list, ticket, refs>>
    BY <1>14 DEF Pick
  <2>2. /\ pc'[t] = "drop" => first'[t] = None
        /\ pc'[t] \in {"drop", "notify", "begin"}
        /\ \A u \in Thread : u # t => pc'[u] = pc[u] /\ first'[u] = first[u]
    BY <1>14 DEF Pick, Goto, IInv, TypeOK
  <2>3. \A u \in Thread : Told(u)' => Told(u) /\ first'[u] = first[u]
    BY <2>2 DEF Told
  <2> QED BY <1>2, <1>4, <2>1, <2>3
<1>15. ASSUME NEW t \in Thread, \/ Loop(t) \/ Begin(t) \/ Work(t) \/ End(t)
                                \/ Sleep(t) \/ SpuriousWake(t) \/ Wake(t)
       PROVE  LostInv'
  <2>1. UNCHANGED <<list, ticket, refs, first>>
    BY <1>15 DEF Loop, Begin, Work, End, Sleep, SpuriousWake, Wake
  <2>2. /\ pc'[t] \notin {"callback", "drop"}
        /\ \A u \in Thread : u # t => pc'[u] = pc[u]
    BY <1>15 DEF Loop, Begin, Work, End, Sleep, SpuriousWake, Wake, Goto, IInv, TypeOK
  <2>3. \A u \in Thread : Told(u)' => Told(u)
    BY <2>1, <2>2 DEF Told
  <2> QED BY <1>2, <1>4, <2>1, <2>3
<1>16. ASSUME MainLoop PROVE LostInv'
  <2>1. UNCHANGED <<list, ticket, refs, pc, first>>
    BY <1>16 DEF MainLoop, PerformCallback, PerformDestroyer
  <2> QED BY <1>2, <1>3, <2>1
<1>17. ASSUME UNCHANGED vars PROVE LostInv'
  <2>1. UNCHANGED <<list, ticket, refs, pc, first>>
    BY <1>17
  <2> QED BY <1>2, <1>3, <2>1
<1>18. ASSUME NEW t \in Thread, Worker(t) PROVE LostInv'
  BY <1>10, <1>11, <1>12, <1>13, <1>14, <1>15, <1>18 DEF Worker
<1> QED BY <1>5, <1>6, <1>7, <1>9, <1>15, <1>16, <1>17, <1>18 DEF Next, Caller, Owner

\* No order of launches, removals, cancels, wakeups (asked for or not) and unlinking loses
\* an item: until the queue is finalized, what was launched is linked, or the main loop
\* has its callback or has called it.
THEOREM NoItemIsLost == Spec => []NoneLost
<1>1. Init => LostInv
  BY DEF Init, LostInv, NoneLost, Told
<1>2. LostInv => NoneLost
  BY DEF LostInv
<1> QED BY <1>1, <1>2, Invariance, NextLost, PTL DEF Spec
=============================================================================
