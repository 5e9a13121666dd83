------------------------------ MODULE CamelQueue ------------------------------
(***************************************************************************)
(* TnyCamelQueue (tny-camel-queue.c): the queue that every asynchronous    *)
(* operation of a Tinymail account goes through.                           *)
(*                                                                         *)
(* Callers (the application's main loop, other threads) launch, remove and *)
(* cancel items.  A worker thread takes the items from the head of the     *)
(* list, runs the work function of each, asks the main loop to run the     *)
(* callback and waits for it.  The account that owns the queue may go      *)
(* away at any moment.                                                     *)
(*                                                                         *)
(* The steps of the worker are cut where the code takes or releases        *)
(* queue->lock, queue->mutex or info->mutex.  A section under a lock is    *)
(* one action: the other sections under the same lock cannot run inside.   *)
(***************************************************************************)
EXTENDS Integers, Sequences, SequencesExt

CONSTANTS Item,       \* the items callers may launch, each at most once
          Thread,     \* identities for the worker threads
          Flags,      \* Flags[i]: the TnyCamelQueueItemFlags of item i
          Masks,      \* the flag masks callers pass to remove and cancel
          None,       \* NULL for a pointer to an item
          Spurious    \* may g_cond_wait return although nobody signalled?

\* TnyCamelQueueItemFlags, a bit set in the code.
Flag == {"NORMAL", "RECONNECT", "CANCELLABLE", "PRIORITY", "GET_HEADERS",
         "SYNC", "REFRESH", "AUTO_CANCELLABLE", "CONNECT"}

ASSUME ItemAssumption == None \notin Item
ASSUME FlagsAssumption == Flags \in [Item -> SUBSET Flag] /\ Masks \subseteq SUBSET Flag
ASSUME SpuriousAssumption == Spurious \in BOOLEAN

VARIABLES
  \* The fields of TnyCamelQueue.
  list,           \* list: the queued items, the one on the stage included
  current,        \* current: the item on the stage, or None
  stopped,        \* stopped
  isWaiting,      \* is_waiting
  nextUncancel,   \* next_uncancel
  account,        \* account # NULL
  \* References to the queue.
  ownerRef,       \* the account still holds its reference
  refs,           \* the reference count of the GObject
  \* The worker threads: program counter and local variables.
  pc, first, del,
  \* The items.
  deleted,        \* item->deleted, set together with *item->cancel_field
  ran,            \* the items whose func was called
  freed,          \* the items whose data was freed
  \* The main loop.
  idle,           \* the idle sources the worker added, in order
  called,         \* the items whose callback (of either kind) was called
  hadCallback,    \* info->had_callback, set by the destroyer
  \* The CamelOperation of the account, and what became of cancellations.
  op,             \* priv->cancel: "none", "live" or "cancelled"
  asked,          \* the items cancelled while they were on the stage
  interrupted,    \* the items whose func saw its operation cancelled
  \* When an item was launched: history, for the order of service.
  ticket, clock

queueVars == <<list, current, stopped, isWaiting, nextUncancel, account>>
refVars == <<ownerRef, refs>>
threadVars == <<pc, first, del>>
itemVars == <<deleted, ran, freed>>
loopVars == <<idle, called, hadCallback>>
opVars == <<op, asked, interrupted>>
orderVars == <<ticket, clock>>
vars == <<queueVars, refVars, threadVars, itemVars, loopVars, opVars, orderVars>>

PC == {"none", "loop", "pick", "begin", "work", "end", "notify", "callback",
       "drop", "sleep", "asleep", "woken", "exit", "done"}

\* The threads that are inside tny_camel_queue_thread_main_func.
Live == {t \in Thread : pc[t] \notin {"none", "done"}}

TypeOK ==
  /\ list \in Seq(Item) /\ current \in Item \cup {None}
  /\ stopped \in BOOLEAN /\ isWaiting \in BOOLEAN /\ nextUncancel \in BOOLEAN
  /\ account \in BOOLEAN /\ ownerRef \in BOOLEAN /\ refs \in Nat
  /\ pc \in [Thread -> PC] /\ first \in [Thread -> Item \cup {None}]
  /\ del \in [Thread -> BOOLEAN]
  /\ deleted \subseteq Item /\ ran \subseteq Item /\ freed \subseteq Item
  /\ idle \in Seq(Item) /\ called \subseteq Item /\ hadCallback \subseteq Item
  /\ op \in {"none", "live", "cancelled"}
  /\ asked \subseteq Item /\ interrupted \subseteq Item
  /\ ticket \in [Item -> Nat] /\ clock \in Nat

Init ==
  /\ list = <<>> /\ current = None
  /\ stopped = TRUE /\ isWaiting = FALSE /\ nextUncancel = FALSE
  /\ account = TRUE /\ ownerRef = TRUE /\ refs = 1
  /\ pc = [t \in Thread |-> "none"] /\ first = [t \in Thread |-> None]
  /\ del = [t \in Thread |-> FALSE]
  /\ deleted = {} /\ ran = {} /\ freed = {}
  /\ idle = <<>> /\ called = {} /\ hadCallback = {}
  /\ op = "none" /\ asked = {} /\ interrupted = {}
  /\ ticket = [i \in Item |-> 0] /\ clock = 0

-----------------------------------------------------------------------------
(* Helpers.                                                                *)

IsPriority(i) == "PRIORITY" \in Flags[i]

\* The items in the list.
Listed == {list[k] : k \in 1 .. Len(list)}

\* The number of priority items at the head of the list: the position the
\* loop of _tny_camel_queue_launch_wflags counts.
LeadingPriority ==
  CHOOSE n \in 0 .. Len(list) :
    /\ \A k \in 1 .. n : IsPriority(list[k])
    /\ n < Len(list) => ~IsPriority(list[n + 1])

\* A slip: the normal item that stops the count is counted too.
InsertLate(i) ==
  IF IsPriority(i)
    THEN InsertAt(list, LeadingPriority + (IF LeadingPriority < Len(list) THEN 2 ELSE 1), i)
    ELSE Append(list, i)

\* g_list_insert after the priority items, or g_list_append.
Insert(i) == IF IsPriority(i) THEN InsertAt(list, LeadingPriority + 1, i)
                              ELSE Append(list, i)

\* A slip: the worker drops the head, which need not be its item any more.
DeleteHead(i) == Tail(list)

\* g_list_delete_link of the link that holds i.
DeleteLink(i) == RemoveAt(list, CHOOSE k \in 1 .. Len(list) : list[k] = i)

\* g_cond_broadcast (queue->condition).
Broadcast == pc' = [t \in Thread |-> IF pc[t] = "asleep" THEN "woken" ELSE pc[t]]

Goto(t, label) == pc' = [pc EXCEPT ![t] = label]

\* g_object_unref of the queue; the last one runs tny_camel_queue_finalize,
\* which frees the list and none of the items in it.
Unref == /\ refs' = refs - 1
         /\ list' = IF refs = 1 THEN <<>> ELSE list

-----------------------------------------------------------------------------
(* The callers.                                                            *)

\* A slip: the flag that says there is no worker is never cleared.
StartOrWakeTwice ==
  IF stopped
    THEN \/ /\ \E t \in Thread : pc[t] = "none" /\ Goto(t, "loop")
            /\ refs' = refs + 1
            /\ UNCHANGED stopped
         \/ refs' = refs + 1 /\ UNCHANGED <<stopped, pc>>
    ELSE /\ IF isWaiting THEN Broadcast ELSE UNCHANGED pc
         /\ UNCHANGED <<stopped, refs>>

\* A slip: the thread gets no reference of its own.
StartOrWakeUnheld ==
  \/ /\ stopped
     /\ \E t \in Thread : pc[t] = "none" /\ Goto(t, "loop")
     /\ stopped' = FALSE
     /\ UNCHANGED refs
  \/ /\ ~stopped
     /\ IF isWaiting THEN Broadcast ELSE UNCHANGED pc
     /\ UNCHANGED <<stopped, refs>>

\* The end of _tny_camel_queue_launch_wflags: start a worker when there is none
\* (when g_thread_create fails, the reference taken for it stays), or wake it.
StartOrWake ==
  \/ /\ stopped
     /\ \E t \in Thread : pc[t] = "none" /\ Goto(t, "loop")
     /\ stopped' = FALSE
     /\ refs' = refs + 1
  \/ /\ stopped
     /\ refs' = refs + 1
     /\ UNCHANGED <<stopped, pc>>
  \/ /\ ~stopped
     /\ IF isWaiting THEN Broadcast ELSE UNCHANGED pc
     /\ UNCHANGED <<stopped, refs>>

\* _tny_camel_queue_launch_wflags.  Callers reach the queue through the
\* account, so the account is there ("We should never be running
\* tny_camel_queue_launch_wflags if account was unreferenced").
Launch(i) ==
  /\ account /\ ownerRef
  /\ ticket[i] = 0
  /\ list' = Insert(i)
  /\ clock' = clock + 1
  /\ ticket' = [ticket EXCEPT ![i] = clock + 1]
  /\ StartOrWake
  /\ UNCHANGED <<current, isWaiting, nextUncancel, account, ownerRef, first, del,
                 itemVars, loopVars, opVars>>

\* A slip: the item on the stage is marked too.
RemovableAll(mask) == {i \in Listed : Flags[i] \cap mask # {}}

\* What _tny_camel_queue_remove_items marks: it unlinks nothing.
Removable(mask) == {i \in Listed \ {current} : Flags[i] \cap mask # {}}

\* _tny_camel_queue_remove_items.
RemoveItems(mask) ==
  /\ ownerRef
  /\ deleted' = deleted \cup Removable(mask)
  /\ UNCHANGED <<queueVars, refVars, threadVars, ran, freed, loopVars, opVars, orderVars>>

\* A slip: a sync is interrupted like the others.
InterruptibleAll(i) == "CANCELLABLE" \in Flags[i]

\* Only a cancellable item that is not a sync may be interrupted.
Interruptible(i) == "CANCELLABLE" \in Flags[i] /\ "SYNC" \notin Flags[i]

\* _tny_camel_account_actual_cancel on the account's operation.
ActualCancel == op' = IF op = "live" THEN "cancelled" ELSE op

\* _tny_camel_queue_cancel_remove_items.
CancelRemoveItems(mask) ==
  /\ ownerRef
  /\ deleted' = deleted \cup Removable(mask)
  /\ IF current # None /\ Interruptible(current)
       THEN /\ IF account THEN ActualCancel ELSE UNCHANGED op
            /\ nextUncancel' = TRUE
            /\ asked' = asked \cup {current}
       ELSE UNCHANGED <<op, nextUncancel, asked>>
  /\ UNCHANGED <<list, current, stopped, isWaiting, account, refVars, threadVars,
                 ran, freed, loopVars, interrupted, orderVars>>

\* account_finalized: the weak reference to the account fires.
AccountFinalized ==
  /\ account /\ refs > 0
  /\ account' = FALSE
  /\ stopped' = TRUE
  /\ IF isWaiting THEN Broadcast ELSE UNCHANGED pc
  /\ UNCHANGED <<list, current, isWaiting, nextUncancel, refVars, first, del,
                 itemVars, loopVars, opVars, orderVars>>

\* The finalizing account drops its reference to the queue, before the weak
\* reference fires (msg_queue) or after it (queue).
OwnerUnref ==
  /\ ownerRef
  /\ ownerRef' = FALSE
  /\ Unref
  /\ UNCHANGED <<current, stopped, isWaiting, nextUncancel, account, threadVars,
                 itemVars, loopVars, opVars, orderVars>>

-----------------------------------------------------------------------------
(* The worker: tny_camel_queue_thread_main_func.                           *)

\* while (!queue->stopped), read under no lock.
Loop(t) ==
  /\ pc[t] = "loop"
  /\ Goto(t, IF stopped THEN "exit" ELSE "pick")
  /\ UNCHANGED <<queueVars, refVars, first, del, itemVars, loopVars, opVars, orderVars>>

\* The first section under queue->lock: uncancel, put the head on the stage.
Pick(t) ==
  /\ pc[t] = "pick"
  /\ nextUncancel' = FALSE
  /\ op' = IF nextUncancel /\ account /\ op = "cancelled" THEN "live" ELSE op
  /\ IF list = <<>>
       THEN /\ first' = [first EXCEPT ![t] = None]
            /\ Goto(t, "drop")
            /\ UNCHANGED <<current, del>>
       ELSE /\ first' = [first EXCEPT ![t] = Head(list)]
            /\ current' = Head(list)
            /\ del' = [del EXCEPT ![t] = Head(list) \in deleted]
            /\ Goto(t, IF Head(list) \in deleted THEN "notify" ELSE "begin")
  /\ UNCHANGED <<list, stopped, isWaiting, account, refVars, itemVars, loopVars,
                 asked, interrupted, orderVars>>

\* item->func starts: it registers a fresh operation with the account.
Begin(t) ==
  /\ pc[t] = "begin"
  /\ ran' = ran \cup {first[t]}
  /\ op' = "live"
  /\ Goto(t, "work")
  /\ UNCHANGED <<queueVars, refVars, first, del, deleted, freed, loopVars,
                 asked, interrupted, orderVars>>

\* item->func reads from the server: a cancelled operation fails the read.
Work(t) ==
  /\ pc[t] = "work"
  /\ interrupted' = IF op = "cancelled" THEN interrupted \cup {first[t]} ELSE interrupted
  /\ Goto(t, "end")
  /\ UNCHANGED <<queueVars, refVars, first, del, itemVars, loopVars, op, asked, orderVars>>

\* item->func ends: _tny_camel_account_stop_camel_operation.
End(t) ==
  /\ pc[t] = "end"
  /\ op' = "none"
  /\ Goto(t, "notify")
  /\ UNCHANGED <<queueVars, refVars, first, del, itemVars, loopVars, asked,
                 interrupted, orderVars>>

\* had_callback = FALSE and g_idle_add_full of the callback that fits.
Notify(t) ==
  /\ pc[t] = "notify"
  /\ idle' = Append(idle, first[t])
  /\ hadCallback' = hadCallback \ {first[t]}
  /\ Goto(t, "callback")
  /\ UNCHANGED <<queueVars, refVars, first, del, itemVars, called, opVars, orderVars>>

\* if (!had_callback) g_cond_wait: had_callback is not tested again after the
\* wait, so a wakeup nobody asked for ends it as well.  The data is freed.
AwaitCallback(t) ==
  /\ pc[t] = "callback"
  /\ first[t] \in hadCallback \/ Spurious
  /\ freed' = freed \cup {first[t]}
  /\ Goto(t, "drop")
  /\ UNCHANGED <<queueVars, refVars, first, del, deleted, ran, loopVars, opVars, orderVars>>

\* The second section under queue->lock: unlink the item, clear the stage and
\* decide to wait when the list is empty, then or at the first section.
Drop(t) ==
  /\ pc[t] = "drop"
  /\ list' = IF first[t] = None THEN list ELSE DeleteLink(first[t])
  /\ current' = None
  /\ Goto(t, IF first[t] = None \/ list' = <<>> THEN "sleep" ELSE "loop")
  /\ UNCHANGED <<stopped, isWaiting, nextUncancel, account, refVars, first, del,
                 itemVars, loopVars, opVars, orderVars>>

\* The section under queue->mutex, up to g_cond_wait, which releases it.
Sleep(t) ==
  /\ pc[t] = "sleep"
  /\ isWaiting' = TRUE
  /\ Goto(t, "asleep")
  /\ UNCHANGED <<list, current, stopped, nextUncancel, account, refVars, first, del,
                 itemVars, loopVars, opVars, orderVars>>

\* A wakeup nobody asked for.
SpuriousWake(t) ==
  /\ Spurious
  /\ pc[t] = "asleep"
  /\ Goto(t, "woken")
  /\ UNCHANGED <<queueVars, refVars, first, del, itemVars, loopVars, opVars, orderVars>>

\* g_cond_wait returns with queue->mutex held.
Wake(t) ==
  /\ pc[t] = "woken"
  /\ isWaiting' = FALSE
  /\ Goto(t, "loop")
  /\ UNCHANGED <<list, current, stopped, nextUncancel, account, refVars, first, del,
                 itemVars, loopVars, opVars, orderVars>>

\* After the loop: thread = NULL, stopped = TRUE, g_object_unref.
Exit(t) ==
  /\ pc[t] = "exit"
  /\ stopped' = TRUE
  /\ Unref
  /\ Goto(t, "done")
  /\ UNCHANGED <<current, isWaiting, nextUncancel, account, ownerRef, first, del,
                 itemVars, loopVars, opVars, orderVars>>

-----------------------------------------------------------------------------
(* The main loop.                                                          *)

\* A slip: the worker is told by the callback, before the destroyer ran.
PerformCallbackTells ==
  /\ idle # <<>> /\ Head(idle) \notin called
  /\ called' = called \cup {Head(idle)}
  /\ hadCallback' = hadCallback \cup {Head(idle)}
  /\ UNCHANGED <<queueVars, refVars, threadVars, itemVars, idle, opVars, orderVars>>

\* perform_callback or perform_cancel_callback: the user's callback.
PerformCallback ==
  /\ idle # <<>> /\ Head(idle) \notin called
  /\ called' = called \cup {Head(idle)}
  /\ UNCHANGED <<queueVars, refVars, threadVars, itemVars, idle, hadCallback, opVars, orderVars>>

\* A slip: the destroyer of a cancelled item does not tell the worker.
PerformDestroyerSilent ==
  /\ idle # <<>> /\ Head(idle) \in called
  /\ hadCallback' = hadCallback \cup ({Head(idle)} \ deleted)
  /\ idle' = Tail(idle)
  /\ UNCHANGED <<queueVars, refVars, threadVars, itemVars, called, opVars, orderVars>>

\* perform_destroyer or perform_cancel_destroyer: the source is gone, the
\* worker is told.
PerformDestroyer ==
  /\ idle # <<>> /\ Head(idle) \in called
  /\ hadCallback' = hadCallback \cup {Head(idle)}
  /\ idle' = Tail(idle)
  /\ UNCHANGED <<queueVars, refVars, threadVars, itemVars, called, opVars, orderVars>>

-----------------------------------------------------------------------------
Caller == \/ \E i \in Item : Launch(i)
          \/ \E mask \in Masks : RemoveItems(mask) \/ CancelRemoveItems(mask)

Owner == AccountFinalized \/ OwnerUnref

Worker(t) == \/ Loop(t) \/ Pick(t) \/ Begin(t) \/ Work(t) \/ End(t) \/ Notify(t)
             \/ AwaitCallback(t) \/ Drop(t) \/ Sleep(t) \/ Wake(t) \/ Exit(t)

MainLoop == PerformCallback \/ PerformDestroyer

Next == \/ Caller \/ Owner \/ MainLoop
        \/ \E t \in Thread : Worker(t) \/ SpuriousWake(t)

\* The scheduler runs every thread that can run, and the main loop dispatches
\* the sources it has.  Nobody has to call the queue.
Fairness == /\ \A t \in Thread : WF_vars(Worker(t))
            /\ WF_vars(MainLoop)

Spec == Init /\ [][Next]_vars
FairSpec == Spec /\ Fairness
-----------------------------------------------------------------------------
(* Safety.                                                                 *)

\* Never two workers serve one queue, whatever the order of launches, failed
\* thread creations and the end of the account: launch_wflags starts a thread
\* only when stopped says that there is none.
OneWorker == \A t, u \in Live : t = u

\* A worker never touches a queue that was finalized: the reference that
\* launch_wflags takes for the thread outlives every step of the thread.
WorkerHoldsQueue == Live # {} => refs > 0

\* What is in the list and not on the stage was never served nor freed, so that
\* remove_items may write through its cancel_field; the worker frees an item's
\* data while the item is still linked.
ListedIntact == \A i \in Listed \ {current} : i \notin ran \cup freed \cup called

\* An item whose work function was called is never marked as cancelled, and a
\* cancelled one is never worked on: it gets the cancel callback.
RanXorCancelled == ran \cap deleted = {}

\* The worker frees an item only when the main loop is done with its callback
\* and its destroyer ("Wait on the queue for the mainloop callback to be
\* finished", tny-camel-queue.c:244).
CallbackBeforeFree == \A k \in 1 .. Len(idle) : idle[k] \notin freed

\* A work function never fails for a cancellation meant for another item: not
\* one that came before it, nor one that may not touch it (a sync item).
NoStrayCancel ==
  \A i \in interrupted : i \in asked /\ "CANCELLABLE" \in Flags[i] /\ "SYNC" \notin Flags[i]

-----------------------------------------------------------------------------
(* Liveness.                                                               *)

\* Whatever comes on the stage leaves it with its callback called.
StageClears == \A i \in Item : current = i ~> current # i /\ i \in hadCallback

\* No worker can serve the list: it sleeps, or there is none, or the account is
\* going away.
NobodyServes == \/ ~account \/ ~ownerRef \/ Live = {}
                \/ \E t \in Thread : pc[t] = "asleep"

\* A launched item that never gets its callback is in the list behind a worker
\* that sleeps forever or is gone, or went with the queue: no order of launches,
\* removals and unlinking loses one.
OnlySleepStrands ==
  \A i \in Item : <>[](ticket[i] > 0 /\ i \notin hadCallback)
                     => <>[](refs = 0 \/ (i \in Listed /\ NobodyServes))

\* "The contract is that @queue will invoke @func in future if it doesn't get
\* cancelled" (tny-camel-queue.c:391), while the account lives and a thread
\* could be created.
ContractServed ==
  \A i \in Item : ticket[i] > 0 ~> \/ i \in ran \cup deleted
                                   \/ ~account \/ ~ownerRef \/ Live = {}

-----------------------------------------------------------------------------
(* The queue implements TaskQueue: tasks are served one at a time and once, *)
(* in the order of their class and launch, and end done or cancelled.      *)

StatusOf(i) ==
  IF ticket[i] = 0 THEN "idle"
  ELSE IF i \in hadCallback THEN IF i \in deleted THEN "cancelled" ELSE "done"
  ELSE IF i = current THEN IF i \in deleted THEN "dropping" ELSE "running"
  ELSE IF i \in Listed THEN IF i \in deleted THEN "withdrawn" ELSE "queued"
  ELSE "abandoned"

Tasks == INSTANCE TaskQueue WITH Task <- Item, Urgent <- {i \in Item : IsPriority(i)},
                                 status <- [i \in Item |-> StatusOf(i)]

\* Every step of the queue is a step of the abstract queue or hidden from it.
ImplementsTaskQueue == Tasks!Spec
=============================================================================
