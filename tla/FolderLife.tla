----------------------------- MODULE FolderLife -----------------------------
(***************************************************************************)
(* The life of the CamelFolder behind one TnyCamelFolder: who loads it,    *)
(* who counts as a reason to keep it, and who unloads it.                  *)
(*                                                                         *)
(* Headers, notifications that wait for the main loop, asynchronous calls  *)
(* and some blocking calls count in reason_to_live.  The count goes up     *)
(* without a lock and down under reason_lock; who takes it to zero unloads *)
(* the folder, under folder_lock or, for a folder without push e-mail,     *)
(* without it.  Calls that use the folder hold folder_lock.                *)
(*                                                                         *)
(* A thread is a program counter and a stack of the labels it returns to;  *)
(* a label is a place where other threads may run.                         *)
(***************************************************************************)
EXTENDS Integers, FiniteSets, SequencesExt

CONSTANTS
    Main,       \* the application thread that runs the main loop
    Others,     \* its other threads
    Worker,     \* the thread of the account's queue
    Camel,      \* the thread in which camel reads push e-mail
    Calls,      \* what the application calls
    MaxCalls,   \* bound: calls
    MaxEvents,  \* bound: changes that camel finds by push e-mail, and those it finds in a call
    MaxMsgs     \* bound: messages of the folder

ASSUME ThreadsAssumption ==
    /\ IsFiniteSet(Others)
    /\ Cardinality({Main, Worker, Camel} \cup Others) = 3 + Cardinality(Others)
ASSUME BoundAssumption == MaxCalls \in Nat /\ MaxEvents \in Nat /\ MaxMsgs \in Nat

Callers == {Main} \cup Others
Threads == Callers \cup {Worker, Camel}
Items == {"refresh", "headers"}

VARIABLES
    push_cap,       \* camel can push for this folder
    observed,       \* the folder has observers (told apart only where camel can push)
    push,           \* priv->push
    folder,         \* priv->folder is loaded
    msgs,           \* messages in its summary
    reason_to_live, dont_fkill, handle_changes,
    folder_lock,    \* folder_lock[t]: how often t holds the recursive lock
    reason_lock,    \* the threads that hold reason_lock
    headers,        \* headers that the application holds
    changes,        \* changes[n]: notifications with n headers that wait for the main loop
    done,           \* asynchronous calls whose callback waits for the main loop
    waiting,        \* asynchronous calls in the queue
    pc, stack,      \* where each thread is, and the labels it returns to
    tmp, old, hdr,  \* local variables: the count, old of folder_changed, headers of a change
    left,           \* messages that get_headers still has to add
    calls, events,  \* what is left of the bounds
    \* History:
    lost,           \* two threads changed the count at a time
    overlapped,     \* folder_changed saved the dont_fkill of another folder_changed
    spared,         \* an unload was left out because of dont_fkill
    missed,         \* folder_changed ignored a change
    late            \* somebody had a reason again, or folder_lock, when the folder was unloaded

kind == <<push_cap, observed>>
locks == <<folder_lock, reason_lock>>
flags == <<dont_fkill, handle_changes>>
loop == <<headers, changes, done, waiting>>
locals == <<tmp, old, hdr, left>>
bounds == <<calls, events>>
history == <<lost, overlapped, spared, missed, late>>
vars == <<kind, push, folder, msgs, reason_to_live, flags, locks, loop, pc, stack, locals,
          bounds, history>>

Labels ==
    {"free", "reason", "reason_set", "unreason", "unreason_set", "unreason_test", "unload",
     "post", "launch_refresh", "launch_headers", "set_flag",
     "get_headers", "get_list", "get_each", "unlock", "refresh", "sync", "camel",
     "refresh_item", "served",
     "changed", "changed_try", "changed_unlock", "changed_kill", "changed_restore"}

TypeOK ==
    /\ push_cap \in BOOLEAN /\ observed \in BOOLEAN /\ push \in BOOLEAN
    /\ folder \in BOOLEAN /\ msgs \in 0 .. MaxMsgs
    /\ reason_to_live \in Int
    /\ dont_fkill \in BOOLEAN /\ handle_changes \in BOOLEAN
    /\ folder_lock \in [Threads -> Nat] /\ reason_lock \subseteq Threads
    /\ headers \in Nat /\ changes \in [0 .. 1 -> Nat] /\ done \in Nat
    /\ waiting \subseteq Items
    /\ pc \in [Threads -> Labels] /\ stack \in [Threads -> Seq(Labels)]
    /\ tmp \in [Threads -> Int] /\ old \in [Threads -> BOOLEAN]
    /\ hdr \in [Threads -> 0 .. 1] /\ left \in [Threads -> 0 .. MaxMsgs]
    /\ calls \in 0 .. MaxCalls /\ events \in [{"push", "call"} -> 0 .. MaxEvents]
    /\ lost \in BOOLEAN /\ overlapped \in BOOLEAN /\ spared \in BOOLEAN
    /\ missed \in BOOLEAN /\ late \in BOOLEAN

Init ==
    /\ push_cap \in BOOLEAN /\ observed \in {FALSE, push_cap} /\ push = FALSE
    /\ folder = FALSE /\ msgs \in 0 .. MaxMsgs
    /\ reason_to_live = 0 /\ dont_fkill = FALSE /\ handle_changes = TRUE
    /\ folder_lock = [t \in Threads |-> 0] /\ reason_lock = {}
    /\ headers = 0 /\ changes = [n \in 0 .. 1 |-> 0] /\ done = 0 /\ waiting = {}
    /\ pc = [t \in Threads |-> "free"] /\ stack = [t \in Threads |-> <<>>]
    /\ tmp = [t \in Threads |-> 0] /\ old = [t \in Threads |-> FALSE]
    /\ hdr = [t \in Threads |-> 0] /\ left = [t \in Threads |-> 0]
    /\ calls = MaxCalls /\ events = [source \in {"push", "call"} |-> MaxEvents]
    /\ lost = FALSE /\ overlapped = FALSE /\ spared = FALSE
    /\ missed = FALSE /\ late = FALSE

-----------------------------------------------------------------------------
\* Control: go to a label, call labels one after the other, return.

Goto(t, label) == pc' = [pc EXCEPT ![t] = label] /\ UNCHANGED stack

Call(t, labels) ==
    /\ pc' = [pc EXCEPT ![t] = Head(labels)]
    /\ stack' = [stack EXCEPT ![t] = Tail(labels) \o @]

Return(t) ==
    /\ pc' = [pc EXCEPT ![t] = Head(stack[t])]
    /\ stack' = [stack EXCEPT ![t] = Tail(@)]

\* The recursive folder_lock.
CanLock(t) == \A u \in Threads \ {t} : folder_lock[u] = 0
Lock(t) == CanLock(t) /\ folder_lock' = [folder_lock EXCEPT ![t] = @ + 1]
Release(t) == folder_lock' = [folder_lock EXCEPT ![t] = @ - 1]

-----------------------------------------------------------------------------
\* Reasons.  Up is a read and a write without a lock.

Reason(t) ==
    /\ pc[t] = "reason"
    /\ tmp' = [tmp EXCEPT ![t] = reason_to_live]
    /\ Goto(t, "reason_set")
    /\ UNCHANGED <<kind, push, folder, msgs, reason_to_live, flags, locks, loop, old, hdr, left,
                   bounds, history>>

ReasonSet(t) ==
    /\ pc[t] = "reason_set"
    /\ reason_to_live' = tmp[t] + 1
    /\ tmp' = [tmp EXCEPT ![t] = 0]
    /\ lost' = (lost \/ reason_to_live # tmp[t])
    /\ Return(t)
    /\ UNCHANGED <<kind, push, folder, msgs, flags, locks, loop, old, hdr, left, bounds,
                   overlapped, spared, missed, late>>

Unreason(t) ==
    /\ pc[t] = "unreason"
    /\ reason_lock = {}
    /\ reason_lock' = {t}
    /\ tmp' = [tmp EXCEPT ![t] = reason_to_live]
    /\ Goto(t, "unreason_set")
    /\ UNCHANGED <<kind, push, folder, msgs, reason_to_live, flags, folder_lock, loop, old, hdr,
                   left, bounds, history>>

UnreasonSet(t) ==
    /\ pc[t] = "unreason_set"
    /\ reason_to_live' = tmp[t] - 1
    /\ tmp' = [tmp EXCEPT ![t] = @ - 1]
    /\ lost' = (lost \/ reason_to_live # tmp[t])
    /\ Goto(t, "unreason_test")
    /\ UNCHANGED <<kind, push, folder, msgs, flags, locks, loop, old, hdr, left, bounds,
                   overlapped, spared, missed, late>>

\* unload_folder_no_lock.
UnloadFolder(t) ==
    /\ folder' = (folder /\ dont_fkill)
    /\ spared' = (spared \/ (folder /\ dont_fkill))
    /\ late' = (late \/ reason_to_live # 0 \/ ~CanLock(t))

\* An empty folder that waits for push e-mail is kept.
Keeps == push_cap /\ push /\ msgs = 0

\* The compiler may compare what it wrote or read the count again.
UnreasonTest(t) ==
    /\ pc[t] = "unreason_test"
    /\ \E count \in {tmp[t], reason_to_live} :
           IF count = 0 /\ folder /\ ~Keeps /\ push_cap
           THEN Goto(t, "unload") /\ UNCHANGED <<folder, reason_lock, spared, late>>
           ELSE /\ IF count = 0 /\ folder /\ ~Keeps
                   THEN UnloadFolder(t)
                   ELSE UNCHANGED <<folder, spared, late>>
                /\ reason_lock' = {}
                /\ Return(t)
    /\ tmp' = [tmp EXCEPT ![t] = 0]
    /\ UNCHANGED <<kind, push, msgs, reason_to_live, flags, folder_lock, loop, old, hdr, left,
                   bounds, lost, overlapped, missed>>

\* A slip: the folder is unloaded without folder_lock here, too.
UnloadUnlocked(t) ==
    /\ pc[t] = "unload"
    /\ UnloadFolder(t)
    /\ reason_lock' = {}
    /\ Return(t)
    /\ UNCHANGED <<kind, push, msgs, reason_to_live, flags, folder_lock, loop, locals, bounds,
                   lost, overlapped, missed>>

\* unload_folder, with reason_lock held.
Unload(t) ==
    /\ pc[t] = "unload"
    /\ CanLock(t)
    /\ UnloadFolder(t)
    /\ reason_lock' = {}
    /\ Return(t)
    /\ UNCHANGED <<kind, push, msgs, reason_to_live, flags, folder_lock, loop, locals, bounds,
                   lost, overlapped, missed>>

-----------------------------------------------------------------------------
\* Loading, under folder_lock.

Load == folder' = TRUE /\ push' = IF folder THEN push ELSE observed
LoadFails == ~folder /\ UNCHANGED <<folder, push>>

\* A slip: a call that cannot load returns with folder_lock.
LockAndLoadKeeps(t, labels) ==
    /\ Lock(t)
    /\ \/ Load /\ Call(t, labels)
       \/ LoadFails /\ Return(t)

\* Take folder_lock, load and go on; without the folder the call returns at once.
LockAndLoad(t, labels) ==
    \/ Lock(t) /\ Load /\ Call(t, labels)
    \/ CanLock(t) /\ LoadFails /\ Return(t) /\ UNCHANGED folder_lock

\* Camel finds a new message, misses one, or finds new flags of one.
Finds(t, source) ==
    /\ events[source] > 0
    /\ events' = [events EXCEPT ![source] = @ - 1]
    /\ \/ /\ msgs' \in {msgs - 1, msgs + 1} \cap (0 .. MaxMsgs)
          /\ hdr' = [hdr EXCEPT ![t] = 1]
       \/ msgs > 0 /\ UNCHANGED <<msgs, hdr>>

\* Camel looks at the mailbox: it finds nothing, or it reports what it finds
\* to folder_changed in the same thread.
CamelWorks(t) ==
    /\ pc[t] = "camel"
    /\ \/ Return(t) /\ UNCHANGED <<msgs, hdr, events>>
       \/ Finds(t, "call") /\ Goto(t, "changed")
    /\ UNCHANGED <<kind, push, folder, reason_to_live, flags, locks, loop, tmp, old, left, calls,
                   history>>

\* The end of a call that holds folder_lock.
Unlock(t) ==
    /\ pc[t] = "unlock"
    /\ Release(t)
    /\ Return(t)
    /\ UNCHANGED <<kind, push, folder, msgs, reason_to_live, flags, reason_lock, loop, locals,
                   bounds, history>>

-----------------------------------------------------------------------------
\* The blocking calls.

GetHeaders(t) ==
    /\ pc[t] = "get_headers"
    /\ LockAndLoad(t, <<"reason", "camel", "get_list">>)
    /\ UNCHANGED <<kind, msgs, reason_to_live, flags, reason_lock, loop, locals, bounds, history>>

GetList(t) ==
    /\ pc[t] = "get_list"
    /\ left' = [left EXCEPT ![t] = IF folder THEN msgs ELSE 0]
    /\ Goto(t, "get_each")
    /\ UNCHANGED <<kind, push, folder, msgs, reason_to_live, flags, locks, loop, tmp, old, hdr,
                   bounds, history>>

\* A slip: the headers are no reasons.
GetEachUncounted(t) ==
    /\ pc[t] = "get_each"
    /\ IF left[t] = 0
       THEN Call(t, <<"unreason", "unlock">>) /\ UNCHANGED <<left, headers>>
       ELSE /\ left' = [left EXCEPT ![t] = @ - 1]
            /\ headers' = headers + 1
            /\ Goto(t, "get_each")
    /\ UNCHANGED <<kind, push, folder, msgs, reason_to_live, flags, locks, changes, done, waiting,
                   tmp, old, hdr, bounds, history>>

\* A slip: get_headers forgets its own reason.
GetEachKeeps(t) ==
    /\ pc[t] = "get_each"
    /\ IF left[t] = 0
       THEN Goto(t, "unlock") /\ UNCHANGED <<left, headers>>
       ELSE /\ left' = [left EXCEPT ![t] = @ - 1]
            /\ headers' = headers + 1
            /\ Call(t, <<"reason", "get_each">>)
    /\ UNCHANGED <<kind, push, folder, msgs, reason_to_live, flags, locks, changes, done, waiting,
                   tmp, old, hdr, bounds, history>>

\* Every header that is added is a reason.
GetEach(t) ==
    /\ pc[t] = "get_each"
    /\ IF left[t] = 0
       THEN Call(t, <<"unreason", "unlock">>) /\ UNCHANGED <<left, headers>>
       ELSE /\ left' = [left EXCEPT ![t] = @ - 1]
            /\ headers' = headers + 1
            /\ Call(t, <<"reason", "get_each">>)
    /\ UNCHANGED <<kind, push, folder, msgs, reason_to_live, flags, locks, changes, done, waiting,
                   tmp, old, hdr, bounds, history>>

\* refresh tells the observers afterwards, sync while it holds folder_lock.
Refresh(t) ==
    /\ pc[t] = "refresh"
    /\ LockAndLoad(t, <<"camel", "unlock", "reason", "post">>)
    /\ UNCHANGED <<kind, msgs, reason_to_live, flags, reason_lock, loop, locals, bounds, history>>

Sync(t) ==
    /\ pc[t] = "sync"
    /\ LockAndLoad(t, <<"camel", "reason", "reason", "post", "unreason", "unlock">>)
    /\ UNCHANGED <<kind, msgs, reason_to_live, flags, reason_lock, loop, locals, bounds, history>>

\* notify_folder_observers_about_in_idle, after it took a reason.
Post(t) ==
    /\ pc[t] = "post"
    /\ changes' = [changes EXCEPT ![hdr[t]] = @ + 1]
    /\ hdr' = [hdr EXCEPT ![t] = 0]
    /\ Return(t)
    /\ UNCHANGED <<kind, push, folder, msgs, reason_to_live, flags, locks, headers, done, waiting,
                   tmp, old, left, bounds, history>>

-----------------------------------------------------------------------------
\* The asynchronous calls: a reason, an item for the queue, and the withdrawal
\* of items that wait.  Withdrawn items get their callback in the main loop.

Launch(t, item, withdrawn) ==
    /\ waiting' = (waiting \ withdrawn) \cup {item}
    /\ done' = done + Cardinality(waiting \cap withdrawn)
    /\ Return(t)
    /\ UNCHANGED <<kind, push, folder, msgs, reason_to_live, flags, locks, headers, changes,
                   locals, bounds, history>>

LaunchRefresh(t) == pc[t] = "launch_refresh" /\ Launch(t, "refresh", {"refresh"})

LaunchHeaders(t) == pc[t] = "launch_headers" /\ Launch(t, "headers", {"refresh", "headers"})

\* The worker takes an item and holds folder_lock while it serves it.
Serve ==
    /\ pc[Worker] = "free"
    /\ Lock(Worker)
    /\ \E item \in waiting :
           /\ waiting' = waiting \ {item}
           /\ Call(Worker, <<IF item = "refresh" THEN "refresh_item" ELSE "get_headers",
                             "unlock", "served", "free">>)
    /\ UNCHANGED <<kind, push, folder, msgs, reason_to_live, flags, reason_lock, headers, changes,
                   done, locals, bounds, history>>

RefreshItem(t) ==
    /\ pc[t] = "refresh_item"
    /\ \/ Load /\ Goto(t, "camel")
       \/ LoadFails /\ Return(t)
    /\ UNCHANGED <<kind, msgs, reason_to_live, flags, locks, loop, locals, bounds, history>>

Served(t) ==
    /\ pc[t] = "served"
    /\ done' = done + 1
    /\ Return(t)
    /\ UNCHANGED <<kind, push, folder, msgs, reason_to_live, flags, locks, headers, changes,
                   waiting, locals, bounds, history>>

-----------------------------------------------------------------------------
\* folder_changed, in the thread that camel found something in.

Changed(t) ==
    /\ pc[t] = "changed"
    /\ IF handle_changes
       THEN /\ old' = [old EXCEPT ![t] = dont_fkill]
            /\ Goto(t, "changed_try")
            /\ UNCHANGED <<hdr, missed>>
       ELSE /\ Return(t)
            /\ hdr' = [hdr EXCEPT ![t] = 0]
            /\ missed' = TRUE
            /\ UNCHANGED old
    /\ UNCHANGED <<kind, push, folder, msgs, reason_to_live, flags, locks, loop, tmp, left, bounds,
                   lost, overlapped, spared, late>>

\* A change is dropped when folder_lock is taken, or the folder is gone.
ChangedTry(t) ==
    /\ pc[t] = "changed_try"
    /\ IF CanLock(t) /\ folder
       THEN /\ Lock(t)
            /\ Call(t, [n \in 1 .. hdr[t] |-> "reason"] \o <<"changed_unlock">>)
            /\ UNCHANGED <<old, hdr, missed>>
       ELSE /\ Return(t)
            /\ old' = [old EXCEPT ![t] = FALSE]
            /\ hdr' = [hdr EXCEPT ![t] = 0]
            /\ missed' = TRUE
            /\ UNCHANGED folder_lock
    /\ UNCHANGED <<kind, push, folder, msgs, reason_to_live, flags, reason_lock, loop, tmp, left,
                   bounds, lost, overlapped, spared, late>>

ChangedUnlock(t) ==
    /\ pc[t] = "changed_unlock"
    /\ Release(t)
    /\ Goto(t, "changed_kill")
    /\ UNCHANGED <<kind, push, folder, msgs, reason_to_live, flags, reason_lock, loop, locals,
                   bounds, history>>

\* A slip: the old value is saved when it has already been replaced.
ChangedKillSaves(t) ==
    /\ pc[t] = "changed_kill"
    /\ dont_fkill' = TRUE
    /\ old' = [old EXCEPT ![t] = dont_fkill']
    /\ Call(t, <<"reason", "post", "changed_restore">>)
    /\ UNCHANGED <<kind, push, folder, msgs, reason_to_live, handle_changes, locks, loop, tmp, hdr,
                   left, bounds, history>>

\* The observers are told; meanwhile the folder is not unloaded.
ChangedKill(t) ==
    /\ pc[t] = "changed_kill"
    /\ dont_fkill' = TRUE
    /\ overlapped' = (overlapped \/ old[t])
    /\ Call(t, <<"reason", "post", "changed_restore">>)
    /\ UNCHANGED <<kind, push, folder, msgs, reason_to_live, handle_changes, locks, loop, locals,
                   bounds, lost, spared, missed, late>>

ChangedRestore(t) ==
    /\ pc[t] = "changed_restore"
    /\ dont_fkill' = old[t]
    /\ old' = [old EXCEPT ![t] = FALSE]
    /\ Return(t)
    /\ UNCHANGED <<kind, push, folder, msgs, reason_to_live, handle_changes, locks, loop, tmp, hdr,
                   left, bounds, history>>

-----------------------------------------------------------------------------
\* What the application, the main loop and camel begin.

Begin(t, what, labels) ==
    /\ what \in Calls /\ calls > 0 /\ pc[t] = "free"
    /\ calls' = calls - 1
    /\ Call(t, labels \o <<"free">>)

CallFolder(t) ==
    /\ \/ Begin(t, "get_headers", <<"get_headers">>)
       \/ Begin(t, "refresh", <<"refresh">>)
       \/ Begin(t, "sync", <<"sync">>)
       \/ Begin(t, "refresh_async", <<"reason", "launch_refresh">>)
       \/ Begin(t, "get_headers_async", <<"reason", "launch_headers">>)
    /\ UNCHANGED <<kind, push, folder, msgs, reason_to_live, flags, locks, loop, locals, events,
                   history>>

\* The application gives a header back.
DropHeader(t) ==
    /\ headers > 0 /\ pc[t] = "free"
    /\ headers' = headers - 1
    /\ Call(t, <<"unreason", "free">>)
    /\ UNCHANGED <<kind, push, folder, msgs, reason_to_live, flags, locks, changes, done, waiting,
                   locals, bounds, history>>

\* tny_camel_header_set_flag, with a flag that changes the unread count.
FlagHeader(t) ==
    /\ headers > 0
    /\ Begin(t, "set_flag", <<"set_flag", "reason", "post">>)
    /\ handle_changes' = FALSE
    /\ UNCHANGED <<kind, push, folder, msgs, reason_to_live, dont_fkill, locks, loop, locals,
                   events, history>>

SetFlag(t) ==
    /\ pc[t] = "set_flag"
    /\ handle_changes' = TRUE
    /\ Return(t)
    /\ UNCHANGED <<kind, push, folder, msgs, reason_to_live, dont_fkill, locks, loop, locals,
                   bounds, history>>

\* The main loop tells a change to the observers, which may keep its header.
\* The others are freed before the reason of the notification is.
RunChange(n) ==
    /\ pc[Main] = "free"
    /\ changes[n] > 0
    /\ changes' = [changes EXCEPT ![n] = @ - 1]
    /\ \E kept \in 0 .. n :
           /\ headers' = headers + kept
           /\ Call(Main, [i \in 1 .. n - kept + 1 |-> "unreason"] \o <<"free">>)
    /\ UNCHANGED <<kind, push, folder, msgs, reason_to_live, flags, locks, done, waiting, locals,
                   bounds, history>>

\* A slip: the destroyer of an asynchronous call forgets its reason.
RunDoneKeeps ==
    /\ pc[Main] = "free"
    /\ done > 0
    /\ done' = done - 1
    /\ UNCHANGED <<kind, push, folder, msgs, reason_to_live, flags, locks, headers, changes,
                   waiting, pc, stack, locals, bounds, history>>

RunDone ==
    /\ pc[Main] = "free"
    /\ done > 0
    /\ done' = done - 1
    /\ Call(Main, <<"unreason", "free">>)
    /\ UNCHANGED <<kind, push, folder, msgs, reason_to_live, flags, locks, headers, changes,
                   waiting, locals, bounds, history>>

\* Push e-mail.
Push ==
    /\ pc[Camel] = "free"
    /\ folder /\ push /\ push_cap
    /\ Finds(Camel, "push")
    /\ Call(Camel, <<"changed", "free">>)
    /\ UNCHANGED <<kind, push, folder, reason_to_live, flags, locks, loop, tmp, old, left, calls,
                   history>>

-----------------------------------------------------------------------------
ReasonStep(t) ==
    \/ Reason(t) \/ ReasonSet(t)
    \/ Unreason(t) \/ UnreasonSet(t) \/ UnreasonTest(t) \/ Unload(t)

CallStep(t) ==
    \/ GetHeaders(t) \/ GetList(t) \/ GetEach(t) \/ Refresh(t) \/ Sync(t) \/ CamelWorks(t)
    \/ Unlock(t) \/ Post(t) \/ LaunchRefresh(t) \/ LaunchHeaders(t) \/ SetFlag(t)
    \/ RefreshItem(t) \/ Served(t)

ChangedStep(t) ==
    \/ Changed(t) \/ ChangedTry(t) \/ ChangedUnlock(t) \/ ChangedKill(t) \/ ChangedRestore(t)

ThreadStep(t) == ReasonStep(t) \/ CallStep(t) \/ ChangedStep(t)

RunSource == (\E n \in 0 .. 1 : RunChange(n)) \/ RunDone

\* A bound: a behaviour is followed to the first lost update of the count.
Next ==
    /\ ~lost
    /\ \/ \E t \in Threads : ThreadStep(t)
       \/ \E t \in Callers : CallFolder(t) \/ DropHeader(t) \/ FlagHeader(t)
       \/ RunSource
       \/ Serve
       \/ Push

Spec == Init /\ [][Next]_vars

-----------------------------------------------------------------------------
\* Safety.

Quiet ==
    /\ \A t \in Threads : pc[t] = "free"
    /\ changes = [n \in 0 .. 1 |-> 0] /\ done = 0 /\ waiting = {}

\* What should count in reason_to_live while no thread is under way.
Owners == headers + changes[0] + 2 * changes[1] + done + Cardinality(waiting)

\* Every call, withdrawn call, header and notification gives back exactly the
\* reasons it took, on every path: only a lost update can make the count wrong.
ReasonCounted ==
    ~lost /\ (\A t \in Threads : pc[t] = "free") => reason_to_live = Owners

\* A folder with push e-mail is not unloaded under a thread that works with it.
\* (One without is: uncache_nl does not take folder_lock.)
FolderStays ==
    push_cap => \A t \in Threads :
        pc[t] \in {"camel", "get_list"} \/ (pc[t] = "reason" /\ Head(stack[t]) = "changed_unlock")
            => folder

\* When nothing is left to do and nobody has a reason, the folder is unloaded,
\* unless it is empty and waits for push e-mail.  (A lost update, an unload that
\* was left out because of dont_fkill and a change nobody was told of spoil it.)
UnloadedWhenQuiet ==
    Quiet /\ headers = 0 /\ folder => Keeps \/ lost \/ spared \/ missed

\* The headers of the application keep their folder.  (A lost update spoils it,
\* and who took the first reason, or folder_lock, after the count was zero and
\* before the folder was unloaded.)
HeadersHaveFolder ==
    headers > 0 /\ (\A t \in Threads : pc[t] = "free") => folder \/ lost \/ late

\* dont_fkill is not left behind, unless two folder_changed overlapped: then
\* the folder would never be unloaded again.
FkillRestored ==
    dont_fkill => overlapped \/ \E t \in Threads :
        pc[t] = "changed_restore" \/ "changed_restore" \in Range(stack[t])

-----------------------------------------------------------------------------
\* Threads that wait for each other.

WantsFolderLock(t) ==
    \/ pc[t] \in {"unload", "get_headers", "refresh", "sync"}
    \/ t = Worker /\ pc[t] = "free" /\ waiting # {}

Blocked(t) ==
    \/ WantsFolderLock(t) /\ ~CanLock(t)
    \/ pc[t] = "unreason" /\ reason_lock # {}

\* One thread holds reason_lock and wants folder_lock, another one the reverse.
Interlock ==
    \E t, u \in Threads :
        /\ pc[t] = "unload" /\ folder_lock[u] > 0
        /\ pc[u] = "unreason" /\ t # u

\* The threads never all wait, but in the interlock: "We reason the folder to
\* make sure it does not lose all the references and uncache, causing an
\* interlock" helps only against those who count down after the reason was taken.
OnlyInterlock ==
    (\E t \in Threads : Blocked(t)) =>
        Interlock \/ \E t \in Threads : pc[t] # "free" /\ ~Blocked(t)

=============================================================================
