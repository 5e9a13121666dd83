------------------------------- MODULE SendQueue -------------------------------
(***************************************************************************)
(* TnyCamelSendQueue (tny-camel-send-queue.c): the outbox of a transport   *)
(* account.                                                                *)
(*                                                                         *)
(* The application's main loop adds messages, flushes and cancels.  When   *)
(* is_running says that there is no worker it starts one, which sends what *)
(* is in the outbox, one message after the other, and moves each to the    *)
(* sentbox.  The worker asks everything of the two folders through their   *)
(* asynchronous calls and waits for the callback, which the main loop      *)
(* runs.  Folders survive a crash of the program, the rest does not.       *)
(*                                                                         *)
(* The steps of a worker end where it takes a lock, waits or blocks.  The  *)
(* numbers that only decorate signals (total, cur_i) are left out.         *)
(***************************************************************************)
EXTENDS Integers, FiniteSets, Sequences, SequencesExt

CONSTANTS Msg,        \* the messages the application may send
          Worker,     \* identities for the worker threads, used again and again
          None,       \* NULL
          Calls,      \* what the surroundings do, of: "flush", "addsync", "cancel",
                      \* "offline", "headers" (another asks for headers), "crash"
          Faults,     \* which calls may fail, of: "thread", "add", "headers",
                      \* "msg", "transport", "sync", "transfer"
          MaxSignals, \* bound: control signals that wait at one time
          MaxCrashes  \* bound: crashes

ASSUME NoneAssumption == None \notin Msg \cup Worker
ASSUME BoundAssumption == MaxSignals \in Nat /\ MaxCrashes \in Nat

VARIABLES
  \* The folders, on disk, with the flags of the headers in the outbox.
  outbox,        \* the messages in the outbox, oldest first
  sentbox,       \* the messages in the sentbox
  suspended,     \* TNY_HEADER_FLAG_SUSPENDED
  answered,      \* TNY_HEADER_FLAG_ANSWERED: sent
  synced,        \* the ANSWERED flags that certainly are on disk
  removed,       \* the messages a cancel removed
  \* TnyCamelSendQueuePriv.
  isRunning,     \* is_running
  thread,        \* thread, or None
  notifies,      \* the messages that pending_send_notifies counts
  sendingLock, todoLock,   \* the worker that holds the lock, or None
  \* The workers: program counter, local variables, the call they wait for.
  pc, length, failed, header, heads, reply, phase,
  withdrawn,     \* the workers whose call another call took off the queue
  \* The main loop and the application.
  main,          \* what the main loop is in the middle of
  stage,         \* how far the addition of each message is
  signals,       \* idle sources: control signals to emit
  online,        \* tny_device_is_online
  \* The SMTP server, and history.
  delivered,     \* how often each message was delivered
  lastSignal,    \* the control signal emitted last
  told,          \* the messages msg-sent was emitted for
  overlap,       \* two workers were there at one time
  crashes

folderVars == <<outbox, sentbox, suspended, answered, synced, removed>>
privVars == <<isRunning, thread, notifies>>
lockVars == <<sendingLock, todoLock>>
localVars == <<length, failed, header>>
callVars == <<heads, reply, phase, withdrawn>>
mainVars == <<main, stage, signals, online, lastSignal, told>>
historyVars == <<delivered, overlap, crashes>>
vars == <<folderVars, privVars, lockVars, pc, localVars, callVars, mainVars, historyVars>>

PC == {"none", "start", "list", "listed", "while", "lock", "fetch", "fetched", "get",
       "got", "transport", "relock", "mark", "synced", "moved", "end", "stop"}

\* guint arithmetic wraps; the width is cut from 32 bits to what TLC counts in.
UInt == 2 ^ 16

Actions == {"remove", "suspend"}   \* TnySendQueueCancelAction

MainState == {<<"idle">>} \cup ({"add"} \X Msg) \cup ({"cancel"} \X Actions)

TypeOK ==
  /\ outbox \in Seq(Msg) /\ sentbox \subseteq Msg /\ suspended \subseteq Msg
  /\ answered \subseteq Msg /\ synced \subseteq answered /\ removed \subseteq Msg
  /\ isRunning \in BOOLEAN /\ thread \in Worker \cup {None} /\ notifies \subseteq Msg
  /\ sendingLock \in Worker \cup {None} /\ todoLock \in Worker \cup {None}
  /\ pc \in [Worker -> PC] /\ length \in [Worker -> 0 .. UInt - 1]
  /\ failed \in [Worker -> SUBSET Msg] /\ header \in [Worker -> Msg \cup {None}]
  /\ heads \in [Worker -> Seq(Msg)] /\ reply \in [Worker -> {"ok", "err"}]
  /\ phase \in [Worker -> {"idle", "queued", "done"}] /\ withdrawn \subseteq Worker
  /\ main \in MainState
  /\ stage \in [Msg -> {"new", "asked", "stored", "failed", "done"}]
  /\ signals \in Seq({"start", "stop"}) /\ online \in BOOLEAN
  /\ lastSignal \in {"none", "start", "stop"} /\ told \subseteq Msg
  /\ delivered \in [Msg -> Nat] /\ overlap \in BOOLEAN /\ crashes \in 0 .. MaxCrashes

\* A value for every worker.
Each(value) == [w \in Worker |-> value]

Init ==
  /\ outbox = <<>> /\ sentbox = {} /\ suspended = {} /\ answered = {} /\ synced = {}
  /\ removed = {}
  /\ isRunning = FALSE /\ thread = None /\ notifies = {}
  /\ sendingLock = None /\ todoLock = None
  /\ pc = Each("none") /\ length = Each(0) /\ failed = Each({}) /\ header = Each(None)
  /\ heads = Each(<<>>) /\ reply = Each("ok") /\ phase = Each("idle") /\ withdrawn = {}
  /\ main = <<"idle">> /\ signals = <<>> /\ lastSignal = "none"
  /\ stage = [m \in Msg |-> "new"] /\ online = TRUE /\ told = {}
  /\ delivered = [m \in Msg |-> 0] /\ overlap = FALSE /\ crashes = 0
-----------------------------------------------------------------------------
(* Helpers.                                                                *)

Live == {w \in Worker : pc[w] # "none"}

Idle == main = <<"idle">>

Goto(w, label) == pc' = [pc EXCEPT ![w] = label]

Waiting == ToSet(outbox)

\* May the call fail?
MayFail(call) == IF call \in Faults THEN {"ok", "err"} ELSE {"ok"}

\* The worker hands a call to the queue of the folder's account.
Ask(w) == /\ phase' = [phase EXCEPT ![w] = "queued"]
          /\ withdrawn' = withdrawn \ {w}

\* The callback of the worker's call ran.
Answered(w) == phase[w] = "idle"

\* tny_camel_folder_get_headers_async takes the calls for headers and the syncs
\* that wait off the queue and interrupts a transfer in progress; which of these
\* is in progress, only the queue knows.  Workers make these calls under
\* todo_lock, so that the calls of one worker never hit another's.
GetHeadersWithdraws ==
  \E W \in SUBSET {w \in Worker : /\ phase[w] = "queued"
                                  /\ pc[w] \in {"listed", "fetched", "synced", "moved"}} :
    W # {} /\ withdrawn' = withdrawn \cup W

\* A slip: a message that was sent and not moved is sent again.
SendableAnswered(w) == {n \in DOMAIN heads[w] : heads[w][n] \notin suspended \cup failed[w]}

\* "Some code to remove the suspended items", the sent ones and the failed ones: the
\* positions of what is left.
Sendable(w) ==
  {n \in DOMAIN heads[w] : heads[w][n] \notin suspended \cup answered \cup failed[w]}

\* length - g_hash_table_size (failed_headers) > 0, of unsigned numbers.
More(w) == (length[w] - Cardinality(failed[w])) % UInt > 0

\* create_worker, and the emission of its signals: nothing when is_running.
CreateWorker ==
  \/ isRunning /\ UNCHANGED <<thread, pc, signals, overlap>>
  \/ /\ ~isRunning /\ Len(signals) < MaxSignals
     /\ \E w \in Worker :
          /\ pc[w] = "none"
          /\ Goto(w, "start")
          /\ thread' = w
     /\ signals' = Append(signals, "start")
     /\ overlap' = (overlap \/ Live # {})
  \/ /\ ~isRunning /\ Len(signals) < MaxSignals
     /\ "thread" \in Faults
     /\ thread' = None
     /\ signals' = signals \o <<"start", "stop">>
     /\ UNCHANGED <<pc, overlap>>
-----------------------------------------------------------------------------
(* The application and the main loop.                                      *)

\* tny_camel_send_queue_add_async_default.
AddAsync(m) ==
  /\ Idle /\ stage[m] = "new"
  /\ stage' = [stage EXCEPT ![m] = "asked"]
  /\ UNCHANGED <<folderVars, privVars, lockVars, pc, localVars, callVars, main, signals,
                 online, lastSignal, told, historyVars>>

\* tny_camel_send_queue_add_default is called, and blocks for todo_lock.
AddCall(m) ==
  /\ "addsync" \in Calls /\ Idle /\ stage[m] = "new"
  /\ main' = <<"add", m>>
  /\ UNCHANGED <<folderVars, privVars, lockVars, pc, localVars, callVars, stage, signals,
                 online, lastSignal, told, historyVars>>

\* It has todo_lock: it counts the headers, which may fail, and adds.
AddRun(m) ==
  /\ main = <<"add", m>> /\ todoLock = None
  /\ main' = <<"idle">>
  /\ \E r \in MayFail("headers") :
       stage' = [stage EXCEPT ![m] = IF r = "ok" THEN "asked" ELSE "done"]
  /\ UNCHANGED <<folderVars, privVars, lockVars, pc, localVars, callVars, signals,
                 online, lastSignal, told, historyVars>>

\* The outbox's queue runs tny_camel_folder_add_msg_async_thread.
StoreMsg(m) ==
  /\ stage[m] = "asked"
  /\ \/ /\ stage' = [stage EXCEPT ![m] = "stored"]
        /\ outbox' = Append(outbox, m)
     \/ /\ "add" \in Faults
        /\ stage' = [stage EXCEPT ![m] = "failed"]
        /\ UNCHANGED outbox
  /\ UNCHANGED <<sentbox, suspended, answered, synced, removed, privVars, lockVars, pc,
                 localVars, callVars, main, signals, online, lastSignal, told, historyVars>>

\* on_added: start a worker when the message is in the outbox.
OnAdded(m) ==
  /\ Idle /\ stage[m] \in {"stored", "failed"}
  /\ stage' = [stage EXCEPT ![m] = "done"]
  /\ IF stage[m] = "stored" THEN CreateWorker
                            ELSE UNCHANGED <<thread, pc, signals, overlap>>
  /\ UNCHANGED <<folderVars, isRunning, notifies, lockVars, localVars, callVars, main, online,
                 lastSignal, told, delivered, crashes>>

\* tny_camel_send_queue_flush.
Flush ==
  /\ "flush" \in Calls /\ Idle
  /\ ~isRunning /\ CreateWorker
  /\ UNCHANGED <<folderVars, isRunning, notifies, lockVars, localVars, callVars, main, stage, online,
                 lastSignal, told, delivered, crashes>>

\* tny_camel_send_queue_cancel_default is called, and blocks for sending_lock.
CancelCall(action) ==
  /\ "cancel" \in Calls /\ Idle
  /\ main' = <<"cancel", action>>
  /\ UNCHANGED <<folderVars, privVars, lockVars, pc, localVars, callVars, stage, signals,
                 online, lastSignal, told, historyVars>>

\* It has sending_lock: every message in the outbox is removed or suspended.
CancelOutbox(action) ==
  IF action = "remove"
    THEN /\ outbox' = <<>> /\ removed' = removed \cup Waiting /\ UNCHANGED suspended
    ELSE /\ suspended' = suspended \cup Waiting /\ UNCHANGED <<outbox, removed>>

\* A slip: cancel does not wait for sending_lock.
CancelRunUnlocked(action) ==
  /\ main = <<"cancel", action>>
  /\ main' = <<"idle">>
  /\ isRunning' = FALSE
  /\ CancelOutbox(action)
  /\ UNCHANGED <<sentbox, answered, synced, thread, notifies, lockVars, pc, localVars,
                 callVars, stage, signals, online, lastSignal, told, historyVars>>

\* tny_camel_send_queue_cancel_default after the lock; when the headers cannot
\* be had, is_running is cleared and that is all.
CancelRun(action) ==
  /\ main = <<"cancel", action>> /\ sendingLock = None
  /\ main' = <<"idle">>
  /\ isRunning' = FALSE
  /\ \/ CancelOutbox(action)
     \/ "headers" \in Faults /\ UNCHANGED <<outbox, removed, suspended>>
  /\ UNCHANGED <<sentbox, answered, synced, thread, notifies, lockVars, pc, localVars,
                 callVars, stage, signals, online, lastSignal, told, historyVars>>

\* The device goes offline.
GoOffline ==
  /\ "offline" \in Calls /\ online
  /\ online' = FALSE
  /\ UNCHANGED <<folderVars, privVars, lockVars, pc, localVars, callVars, main, stage,
                 signals, lastSignal, told, historyVars>>

\* The device is back, and on_setonline_happened flushes the queue.
GoOnline ==
  /\ Idle /\ ~online
  /\ online' = TRUE
  /\ CreateWorker
  /\ UNCHANGED <<folderVars, isRunning, notifies, lockVars, localVars, callVars, main, stage,
                 lastSignal, told, delivered, crashes>>

\* The application shows the outbox: it asks for its headers.
ShowOutbox ==
  /\ "headers" \in Calls /\ Idle
  /\ GetHeadersWithdraws
  /\ UNCHANGED <<folderVars, privVars, lockVars, pc, localVars, heads, reply, phase,
                 mainVars, historyVars>>

\* A slip: nobody observes the sentbox.
CallbackUnobserved(w) ==
  /\ Idle /\ phase[w] = "done"
  /\ phase' = [phase EXCEPT ![w] = "idle"]
  /\ UNCHANGED <<folderVars, privVars, lockVars, pc, localVars, heads, reply,
                 withdrawn, mainVars, historyVars>>

\* The main loop runs the callback a worker waits for.  When messages moved,
\* the observers come first: tny_camel_send_queue_update asks for each new
\* message of the sentbox and counts it.
Callback(w) ==
  /\ Idle /\ phase[w] = "done"
  /\ phase' = [phase EXCEPT ![w] = "idle"]
  /\ notifies' = IF pc[w] = "moved" /\ reply[w] = "ok" THEN notifies \cup {header[w]}
                                                       ELSE notifies
  /\ UNCHANGED <<folderVars, isRunning, thread, lockVars, pc, localVars, heads, reply,
                 withdrawn, mainVars, historyVars>>

\* A slip: the last notification does not stop the queue.
OnMsgSentQuiet(m) ==
  /\ Idle /\ m \in notifies
  /\ told' = told \cup {m}
  /\ notifies' = notifies \ {m}
  /\ UNCHANGED <<folderVars, isRunning, thread, lockVars, pc, localVars, callVars, main,
                 stage, online, lastSignal, historyVars, signals>>

\* on_msg_sent_get_msg: emit msg-sent; the last one stops the queue when the
\* worker is gone.
OnMsgSent(m) ==
  /\ Idle /\ m \in notifies
  /\ told' = told \cup {m}
  /\ notifies' = notifies \ {m}
  /\ signals' = IF notifies' = {} /\ thread = None THEN Append(signals, "stop") ELSE signals
  /\ UNCHANGED <<folderVars, isRunning, thread, lockVars, pc, localVars, callVars, main,
                 stage, online, lastSignal, historyVars>>

\* A slip: notifications that wait do not hold the stop back.
EmitSignalAtOnce ==
  /\ Idle /\ signals # <<>>
  /\ signals' = Tail(signals)
  /\ lastSignal' = Head(signals)
  /\ UNCHANGED <<folderVars, privVars, lockVars, pc, localVars, callVars, main, stage,
                 online, told, historyVars>>

\* emit_queue_control_signals_on_mainloop: no stop while notifications wait.
EmitSignal ==
  /\ Idle /\ signals # <<>>
  /\ signals' = Tail(signals)
  /\ lastSignal' = IF Head(signals) = "stop" /\ notifies # {} THEN lastSignal ELSE Head(signals)
  /\ UNCHANGED <<folderVars, privVars, lockVars, pc, localVars, callVars, main, stage,
                 online, told, historyVars>>
-----------------------------------------------------------------------------
(* The queue of the outbox's account serves the call of a worker.          *)

\* tny_folder_get_headers: the newest message comes first.
ServeHeaders(w) ==
  /\ pc[w] \in {"listed", "fetched"}
  /\ IF w \in withdrawn
       THEN heads' = [heads EXCEPT ![w] = <<>>] /\ reply' = [reply EXCEPT ![w] = "ok"]
       ELSE \E r \in MayFail("headers") :
              /\ reply' = [reply EXCEPT ![w] = r]
              /\ heads' = [heads EXCEPT ![w] = IF r = "ok" THEN Reverse(outbox) ELSE <<>>]
  /\ UNCHANGED folderVars

\* tny_folder_get_msg.
ServeMsg(w) ==
  /\ pc[w] = "got"
  /\ \E r \in MayFail("msg") :
       reply' = [reply EXCEPT ![w] = IF header[w] \in Waiting THEN r ELSE "err"]
  /\ UNCHANGED <<heads, folderVars>>

\* tny_folder_sync: the flags go to disk.
ServeSync(w) ==
  /\ pc[w] = "synced"
  /\ \E r \in MayFail("sync") :
       synced' = IF r = "ok" /\ w \notin withdrawn THEN answered ELSE synced
  /\ UNCHANGED <<heads, reply, outbox, sentbox, suspended, answered, removed>>

\* tny_folder_transfer_msgs, the originals deleted.
ServeTransfer(w) ==
  /\ pc[w] = "moved"
  /\ \E r \in MayFail("transfer") :
       LET ok == r = "ok" /\ w \notin withdrawn /\ header[w] \in Waiting
       IN /\ reply' = [reply EXCEPT ![w] = IF ok THEN "ok" ELSE "err"]
          /\ IF ok THEN \E n \in DOMAIN outbox :
                          outbox[n] = header[w] /\ outbox' = RemoveAt(outbox, n)
                   ELSE UNCHANGED outbox
          /\ sentbox' = IF ok THEN sentbox \cup {header[w]} ELSE sentbox
  /\ UNCHANGED <<heads, suspended, answered, synced, removed>>

\* The call is served, or was withdrawn; its callback waits for the main loop.
Serve(w) ==
  /\ phase[w] = "queued"
  /\ phase' = [phase EXCEPT ![w] = "done"]
  /\ ServeHeaders(w) \/ ServeMsg(w) \/ ServeSync(w) \/ ServeTransfer(w)
  /\ UNCHANGED <<privVars, lockVars, pc, localVars, withdrawn, mainVars, historyVars>>
-----------------------------------------------------------------------------
(* The worker: thread_main.                                                *)

Start(w) ==
  /\ pc[w] = "start"
  /\ isRunning' = TRUE
  /\ Goto(w, "list")
  /\ UNCHANGED <<folderVars, thread, notifies, lockVars, localVars, callVars, mainVars,
                 historyVars>>

\* The first look at the outbox, under todo_lock.
List(w) ==
  /\ pc[w] = "list" /\ todoLock = None
  /\ todoLock' = w
  /\ Ask(w)
  /\ Goto(w, "listed")
  /\ UNCHANGED <<folderVars, privVars, sendingLock, localVars, heads, reply, mainVars,
                 historyVars>>

\* A slip: an error leaves todo_lock behind.
ListedHolds(w) ==
  /\ pc[w] = "listed" /\ Answered(w)
  /\ IF reply[w] = "err"
       THEN Goto(w, "end") /\ UNCHANGED <<todoLock, length>>
       ELSE /\ Goto(w, "while") /\ length' = [length EXCEPT ![w] = Len(heads[w])]
            /\ todoLock' = None
  /\ UNCHANGED <<folderVars, privVars, sendingLock, failed, header, callVars, mainVars,
                 historyVars>>

\* The outbox was listed, or could not be.
Listed(w) ==
  /\ pc[w] = "listed" /\ Answered(w)
  /\ todoLock' = None
  /\ IF reply[w] = "err"
       THEN Goto(w, "end") /\ UNCHANGED length
       ELSE Goto(w, "while") /\ length' = [length EXCEPT ![w] = Len(heads[w]) % UInt]
  /\ UNCHANGED <<folderVars, privVars, sendingLock, failed, header, callVars, mainVars,
                 historyVars>>

\* The condition of the loop.  The syncs after it only write flags to disk.
While(w) ==
  /\ pc[w] = "while"
  /\ Goto(w, IF More(w) /\ online THEN "lock" ELSE "end")
  /\ UNCHANGED <<folderVars, privVars, lockVars, localVars, callVars, mainVars, historyVars>>

Lock(w) ==
  /\ pc[w] = "lock" /\ sendingLock = None
  /\ sendingLock' = w
  /\ Goto(w, "fetch")
  /\ UNCHANGED <<folderVars, privVars, todoLock, localVars, callVars, mainVars, historyVars>>

\* todo_lock, and the headers again, unless the device went offline.
Fetch(w) ==
  /\ pc[w] = "fetch" /\ todoLock = None
  /\ IF online
       THEN /\ todoLock' = w
            /\ Ask(w)
            /\ Goto(w, "fetched")
            /\ UNCHANGED <<isRunning, sendingLock>>
       ELSE /\ isRunning' = FALSE
            /\ sendingLock' = None
            /\ Goto(w, "end")
            /\ UNCHANGED <<todoLock, phase, withdrawn>>
  /\ UNCHANGED <<folderVars, thread, notifies, localVars, heads, reply, mainVars, historyVars>>

\* Choose the first sendable message, or stop.
Fetched(w) ==
  /\ pc[w] = "fetched" /\ Answered(w)
  /\ todoLock' = None
  /\ length' = [length EXCEPT ![w] = IF reply[w] = "err" THEN @ ELSE Cardinality(Sendable(w)) % UInt]
  /\ IF reply[w] = "err" \/ Sendable(w) = {}
       THEN /\ isRunning' = FALSE
            /\ sendingLock' = None
            /\ Goto(w, "end")
            /\ UNCHANGED header
       ELSE /\ \E n \in Sendable(w) :
                 (\A k \in Sendable(w) : n <= k) /\ header' = [header EXCEPT ![w] = heads[w][n]]
            /\ Goto(w, "get")
            /\ UNCHANGED <<isRunning, sendingLock>>
  /\ UNCHANGED <<folderVars, thread, notifies, failed, callVars, mainVars, historyVars>>

\* Get the message, or leave the loop when the device went offline.
Get(w) ==
  /\ pc[w] = "get"
  /\ IF online
       THEN Ask(w) /\ Goto(w, "got") /\ UNCHANGED <<isRunning, sendingLock>>
       ELSE /\ isRunning' = FALSE /\ sendingLock' = None
            /\ Goto(w, "end") /\ UNCHANGED <<phase, withdrawn>>
  /\ UNCHANGED <<folderVars, thread, notifies, todoLock, localVars, heads, reply, mainVars,
                 historyVars>>

\* The message is there and sending_lock is free while the transport works, or it
\* could not be had.
Got(w) ==
  /\ pc[w] = "got" /\ Answered(w)
  /\ IF reply[w] = "ok"
       THEN sendingLock' = None /\ Goto(w, "transport") /\ UNCHANGED failed
       ELSE /\ failed' = [failed EXCEPT ![w] = @ \cup {header[w]}]
            /\ Goto(w, "mark") /\ UNCHANGED sendingLock
  /\ UNCHANGED <<folderVars, privVars, todoLock, length, header, callVars, mainVars,
                 historyVars>>

\* tny_transport_account_send: the server takes the message or does not.
Transport(w) ==
  /\ pc[w] = "transport"
  /\ \E r \in MayFail("transport") :
       /\ reply' = [reply EXCEPT ![w] = r]
       /\ delivered' = IF r = "ok" THEN [delivered EXCEPT ![header[w]] = @ + 1] ELSE delivered
  /\ Goto(w, "relock")
  /\ UNCHANGED <<folderVars, privVars, lockVars, localVars, heads, phase, withdrawn,
                 mainVars, overlap, crashes>>

Relock(w) ==
  /\ pc[w] = "relock" /\ sendingLock = None
  /\ sendingLock' = w
  /\ failed' = IF reply[w] = "err" THEN [failed EXCEPT ![w] = @ \cup {header[w]}] ELSE failed
  /\ Goto(w, "mark")
  /\ UNCHANGED <<folderVars, privVars, todoLock, length, header, callVars, mainVars,
                 historyVars>>

\* A slip: a message that was sent is not flagged.
MarkNothing(w) ==
  /\ pc[w] = "mark" /\ todoLock = None
  /\ IF reply[w] = "ok"
       THEN /\ todoLock' = w
            /\ Ask(w) /\ Goto(w, "synced")
            /\ UNCHANGED sendingLock
       ELSE /\ sendingLock' = None
            /\ Goto(w, "while")
            /\ UNCHANGED <<todoLock, phase, withdrawn>>
  /\ UNCHANGED <<folderVars, privVars, localVars, heads, reply, mainVars, historyVars>>

\* A slip: the outcome is not looked at.
MarkAll(w) ==
  /\ pc[w] = "mark" /\ todoLock = None
  /\ answered' = answered \cup {header[w]}
  /\ todoLock' = w
  /\ Ask(w) /\ Goto(w, "synced")
  /\ UNCHANGED <<outbox, sentbox, suspended, synced, removed, privVars, localVars,
                 heads, reply, mainVars, historyVars, sendingLock>>

\* todo_lock: flag the message as sent and write the flags to disk, or go on
\* with the next one when it failed.
Mark(w) ==
  /\ pc[w] = "mark" /\ todoLock = None
  /\ IF reply[w] = "ok"
       THEN /\ answered' = answered \cup {header[w]}
            /\ todoLock' = w
            /\ Ask(w) /\ Goto(w, "synced")
            /\ UNCHANGED sendingLock
       ELSE /\ sendingLock' = None
            /\ Goto(w, "while")
            /\ UNCHANGED <<answered, todoLock, phase, withdrawn>>
  /\ UNCHANGED <<outbox, sentbox, suspended, synced, removed, privVars, localVars,
                 heads, reply, mainVars, historyVars>>

\* The flags were written, or not: move the message.
Synced(w) ==
  /\ pc[w] = "synced" /\ Answered(w)
  /\ Ask(w)
  /\ Goto(w, "moved")
  /\ UNCHANGED <<folderVars, privVars, lockVars, localVars, heads, reply, mainVars,
                 historyVars>>

\* The message was moved, or not: length--, and both locks are released.
Moved(w) ==
  /\ pc[w] = "moved" /\ Answered(w)
  /\ length' = [length EXCEPT ![w] = (@ - 1) % UInt]
  /\ sendingLock' = None /\ todoLock' = None
  /\ Goto(w, "while")
  /\ UNCHANGED <<folderVars, privVars, failed, header, callVars, mainVars, historyVars>>

\* errorhandler: is_running = FALSE ... thread = NULL.
End(w) ==
  /\ pc[w] = "end"
  /\ isRunning' = FALSE /\ thread' = None
  /\ Goto(w, "stop")
  /\ UNCHANGED <<folderVars, notifies, lockVars, localVars, callVars, mainVars, historyVars>>

\* The queue stops, unless on_msg_sent_get_msg has to say so.  The thread is gone,
\* and its local variables with it.
Stop(w) ==
  /\ pc[w] = "stop"
  /\ signals' = IF notifies = {} THEN Append(signals, "stop") ELSE signals
  /\ Goto(w, "none")
  /\ length' = [length EXCEPT ![w] = 0] /\ failed' = [failed EXCEPT ![w] = {}]
  /\ header' = [header EXCEPT ![w] = None] /\ heads' = [heads EXCEPT ![w] = <<>>]
  /\ reply' = [reply EXCEPT ![w] = "ok"]
  /\ UNCHANGED <<folderVars, privVars, lockVars, phase, withdrawn, main, stage, online,
                 lastSignal, told, historyVars>>
-----------------------------------------------------------------------------
\* The program ends at any point and starts anew.  Of the ANSWERED flags, those
\* that were synced are on disk, the others may be.
Crash ==
  /\ "crash" \in Calls /\ crashes < MaxCrashes
  /\ crashes' = crashes + 1
  /\ isRunning' = FALSE /\ thread' = None /\ notifies' = {}
  /\ sendingLock' = None /\ todoLock' = None
  /\ pc' = Each("none") /\ length' = Each(0) /\ failed' = Each({}) /\ header' = Each(None)
  /\ heads' = Each(<<>>) /\ reply' = Each("ok") /\ phase' = Each("idle") /\ withdrawn' = {}
  /\ main' = <<"idle">> /\ signals' = <<>> /\ lastSignal' = "none"
  /\ \E A \in SUBSET answered : synced \subseteq A /\ answered' = A /\ synced' = A
  /\ stage' = [m \in Msg |-> IF stage[m] = "new" THEN "new" ELSE "done"]
  /\ UNCHANGED <<outbox, sentbox, suspended, removed, online, told, delivered, overlap>>

WorkerStep(w) ==
  \/ Start(w) \/ List(w) \/ Listed(w) \/ While(w) \/ Lock(w) \/ Fetch(w) \/ Fetched(w)
  \/ Get(w) \/ Got(w) \/ Transport(w) \/ Relock(w) \/ Mark(w) \/ Synced(w) \/ Moved(w)
  \/ End(w) \/ Stop(w)

MainLoop == \/ \E w \in Worker : Callback(w)
            \/ \E m \in Msg : OnAdded(m) \/ OnMsgSent(m)
            \/ EmitSignal

Blocked == \/ \E m \in Msg : AddRun(m)
           \/ \E action \in Actions : CancelRun(action)

Application == \/ \E m \in Msg : AddAsync(m) \/ AddCall(m)
               \/ \E action \in Actions : CancelCall(action)
               \/ Flush \/ ShowOutbox \/ GoOffline \/ GoOnline

Next == \/ Application \/ Blocked \/ MainLoop \/ Crash
        \/ \E m \in Msg : StoreMsg(m)
        \/ \E w \in Worker : WorkerStep(w) \/ Serve(w)

\* Every thread runs, a lock that is free again and again is got, the folder's
\* queue serves what it has, the main loop dispatches every source in turn.
Fairness ==
  /\ \A w \in Worker : SF_vars(WorkerStep(w)) /\ WF_vars(Serve(w)) /\ WF_vars(Callback(w))
  /\ \A m \in Msg : WF_vars(StoreMsg(m)) /\ WF_vars(OnAdded(m)) /\ WF_vars(OnMsgSent(m))
  /\ WF_vars(EmitSignal)
  /\ SF_vars(Blocked)

Spec == Init /\ [][Next]_vars
FairSpec == Spec /\ Fairness
-----------------------------------------------------------------------------
(* Safety.                                                                 *)

\* No way out of the loop or of the thread, of which errors and the loss of the
\* network open many, leaves a lock behind.
LocksReleased ==
  \A w \in Worker : pc[w] \in {"none", "start", "while", "end", "stop"}
                      => sendingLock # w /\ todoLock # w

\* What a worker hands to the server is in the outbox, not suspended, and not
\* marked as sent, at the moment it goes: neither a cancel nor another worker can
\* change that after the worker looked, because sending_lock is held.
SendsWaiting ==
  [][\A w \in Worker : pc[w] = "got" /\ pc'[w] = "transport"
       => header[w] \in Waiting \ (suspended \cup answered)]_vars

\* A message goes out twice only when two workers were there at one time or the
\* program crashed: no order of failures, cancels and syncs does it.
DuplicateNeedsOverlap == \A m \in Msg : delivered[m] > 1 => overlap \/ crashes > 0

\* A message whose mark is on disk never goes out again, before a crash or after it,
\* unless a second worker already had it.
SyncedNotResent ==
  [][\A m \in Msg : delivered'[m] # delivered[m] => m \notin synced \/ overlap]_vars

\* When no worker is left and the application hears that the queue stopped, it was
\* told of everything that moved ("Now we don't send the run-queue-stop signal until
\* we've processed all sent signals", ChangeLog).
StopAfterSent ==
  [][lastSignal' = "stop" /\ lastSignal # "stop" /\ Live = {} /\ crashes = 0
       => sentbox \subseteq told]_vars

\* A message that went out is in the sentbox, or waits with the mark that keeps it from
\* going again, or a cancel removed it: errors of syncs and transfers, and cancels
\* while it was on its way, leave no other trace.  Only a crash before the mark does.
SentAccounted ==
  Live = {} /\ crashes = 0
    => \A m \in Msg : delivered[m] > 0 => m \in sentbox \cup removed \cup (Waiting \cap answered)
-----------------------------------------------------------------------------
(* Liveness.                                                               *)

\* A queue that says that it started says later that it stopped.
StartThenStop == lastSignal = "start" ~> lastSignal = "stop"

\* msg-sent is emitted for every message that went to the sentbox.
MovedIsTold == \A m \in Msg : m \in sentbox ~> m \in told

\* "Cancels the current operation": a cancel comes back.
CancelReturns == \A action \in Actions : main = <<"cancel", action>> ~> Idle
-----------------------------------------------------------------------------
(* The queue keeps what Outbox promises.                                   *)

PlaceOf(m) == IF m \in sentbox THEN "sentbox"
              ELSE IF m \in Waiting THEN "outbox"
              ELSE IF m \in removed THEN "removed" ELSE "new"

Box == INSTANCE Outbox WITH Message <- Msg, place <- [m \in Msg |-> PlaceOf(m)]

\* Whatever fails, is cancelled or crashes, no message gets lost in between the
\* folders, and none is in the sentbox that was not delivered.
ImplementsOutbox == Box!Spec
=============================================================================
