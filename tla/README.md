# Verification of archos-gpl-gen6

TLA+ models of the concurrent core of this repository: the queue of an account,
the send queue, the stream cache, the life of a folder and push e-mail over IMAP, all
of tinymail, and the socket of the firmware's main program. All are checked with TLC;
all their safety properties are proved with TLAPS. `src/packages/tinymail/trunk/libtinymail`
is written `T/` below.

## 1. The system

The repository is the GPL part of a media player's firmware: a build system
(`buildroot`), and packages. Most packages are copies of other projects. Code
with state, threads and protocols of its own is in tinymail (the mail library
of the device, with the vendor's changes in `trunk`), and, on a smaller scale,
in the support library's `AvosSocket`, in `samba_fs_monitor` and in fusesmb.

| part | state | operations | talks to |
|---|---|---|---|
| TnyCamelQueue (`T/libtinymail-camel/tny-camel-queue.c`) | list of work items, the item in progress, running/waiting flags, a reference that the worker holds | launch, remove items, cancel and remove, end of the account; a worker thread; callbacks in the main loop | every asynchronous call of an account or folder is an item of it; the account's camel operation is how an item is interrupted |
| TnyCamelSendQueue (`.../tny-camel-send-queue.c`) | outbox and sentbox on disk, running flag, two locks, notifications in flight | add, flush, cancel; a worker thread; control signals and msg-sent | two folders (through their queue), the transport account, the device |
| TnyFsStreamCache, TnyCachedFile, TnyCachedFileStream (`T/libtinymail/`) | table of files, their sizes and flags, files on disk, positions of streams | get a stream, remove by a filter, change the size, start from disk; a thread per download; readers | the file system, the fetcher of a stream |
| TnyCamelAccount, TnySessionCamel | connection state, the camel operation, progress, the queue | set online, connect, start/stop/cancel an operation | the queue, camel, the device |
| TnyCamelFolder | the loaded camel folder, counts, observers, lock | load and unload, refresh, sync, get headers and messages, transfer | the queue of its account, camel, observers |
| TnyCamelStoreAccount | folders it made, connection policy | connect, list, create, remove | session, queue |
| TnyMergeFolder, TnyFolderMonitor, lists | members, changes to merge | add and remove folders, poke, update | folders |
| TnyIdleStopper | a counted flag | copy, stop, destroy | idle callbacks |
| camel-lite's IMAP IDLE (`T/libtinymail-camel/camel-lite/camel/providers/imap/`) | a thread that idles, the flags `idle_cont`, `idle_kill`, `in_idle`, four locks | start and stop of IDLE around every command, disconnect, push e-mail on and off | the server; every folder of the store |
| the rest of camel-lite | summaries, caches, connections | (third party, adapted) | servers, disk |
| AvosSocket | a buffer with a partial message | read and dispatch, send | the firmware's main program |
| samba_fs_monitor | a log file | wrappers of open, rename, unlink ... | the file server it is loaded into |
| fusesmb | a cache of names and sizes, open files | the file system's calls; a process that scans the network | libsmbclient, fuse |
| libmms, libf2m, apdf, text and image support | buffers | parsing, conversion, drawing | - |

`PROJECT.json` lists all of them with the reason where one is not modelled.

What is hard: *threads* (the worker of every queue, a thread per download, the
main loop, callers of synchronous functions), which meet in flags that are read
outside the lock that guards them; *waiting for the main loop* while holding
locks; *cancellation*, which comes at any point of an operation; *errors* in the
middle of sequences that change disk, memory and a server; *the end of the
program*, after which the outbox and the stream cache are what is on disk. The
hazards in `PROJECT.json` name each with its line and with the properties for it.

What makes each part correct:

* the queue: one worker; every item served once, in order, or cancelled, never both; nothing freed that somebody still points at; no item left behind;
* the send queue: every message is sent, none is sent twice, a sent one is in the sentbox, a cancelled one does not go out, no lock stays locked, the application hears start, stop and every message sent;
* the stream cache: a file under its final name is complete, a reader sees the stream's data in order and comes to an end, what is read is not removed, the files fit;
* the folder: everyone who uses it gives back the reason he took, it stays loaded as long as somebody needs it and no longer, no two threads wait for each other;
* push e-mail: one thread idles, IDLE is ended before anything else goes over the connection, what the server says is not lost, every call that has to stop IDLE ends;
* the socket: every message is delivered once, whole and in order, whatever the fragmentation, and nothing else is delivered even after an error;
* the account (to do): the operation that is cancelled is the one meant, online callbacks come.

## 2. The modules

| module | what it is |
|---|---|
| `CamelQueue` | TnyCamelQueue, its workers, the main loop's four callbacks, and as much of the account and of an item's work as cancellation needs |
| `TaskQueue` | what a queue promises: tasks served one at a time, in order of class and launch, done or cancelled |
| `SeqLemmas` | facts on inserting into, deleting from and reversing sequences, proved |
| `CamelQueueProofs` | the inductive invariant of `CamelQueue` and eight theorems |
| `CamelQueueRefinement` | the proof that `CamelQueue` implements `TaskQueue` |
| `SendQueue` | TnyCamelSendQueue: application, main loop, workers, the folder queue that serves their calls, crashes |
| `Outbox` | what a send queue promises of every message |
| `SendQueueProofs` | the inductive invariant of `SendQueue`, nine theorems, and the proof that `SendQueue` implements `Outbox` |
| `StreamCache` | the stream cache with its download threads and readers, and the program that starts again |
| `StreamCacheProofs` | the inductive invariants of `StreamCache` and seven theorems |
| `FolderLife` | TnyCamelFolder: reasons to live, loading and unloading, the calls that need a loaded folder, push e-mail |
| `FolderLifeProofs` | the inductive invariants of `FolderLife` and seven theorems |
| `ImapIdle` | the idle thread of an IMAP connection, the commands that interrupt it, and the server's side of it |
| `ImapIdleProofs` | the inductive invariants of `ImapIdle` and seven theorems |
| `AvosSocket` | sending, and the reassembly of messages from what reads return |
| `MessageStream` | what a socket promises: messages once and in order, and none skipped unless something failed |
| `AvosSocketProofs` | the inductive invariant of `AvosSocket`, three theorems, and the proof that `AvosSocket` implements `MessageStream` |
| `MC...` | small instances: values of the constants and symmetry (`FolderLife` and `AvosSocket` need neither) |

### CamelQueue

One program counter per worker thread, an action per stretch of code between two
points where another thread can see the difference:

| code (`tny-camel-queue.c`) | action |
|---|---|
| `launch_wflags`, 396-459: insert, start a worker or wake it | `Launch`, `StartOrWake` |
| `remove_items`, 302-328; `cancel_remove_items`, 348-373 | `RemoveItems`, `CancelRemoveItems` |
| loop condition and choice of the item, 187-220 | `Loop`, `Pick` |
| `item->func`: register the operation, work, give it back | `Begin`, `Work`, `End` |
| idle sources and the wait for them, 229-259 | `Notify`, `AwaitCallback`, `PerformCallback`, `PerformDestroyer` |
| unlink, 261-273; wait, 273-280; exit, 282-288 | `Drop`, `Sleep`, `Wake`, `Exit` |
| `account_finalized`, 73-83; the last unref, 44-71 | `AccountFinalized`, `OwnerUnref`, `Unref` |
| a wait that nobody ended | `SpuriousWake`, when `Spurious` |

History variables (`ticket`, `ran`, `deleted`, `asked`, `interrupted`,
`hadCallback`, `clock`) only record what happened.

### SendQueue

The worker's `thread_main` (570-833) is cut where it takes a lock, waits for a
reply or is in the transport. It asks everything of the folders through
asynchronous calls; `Serve` is the folder's queue running one of them, and
`Callback` the main loop that delivers the reply. `tny_camel_folder_get_headers_async`
withdraws calls that wait (`GetHeadersWithdraws`), which is how another user of
the outbox disturbs the worker. The main loop is one thread: while `main` is not
idle (a call of it waits for a lock) no callback runs. `Crash` forgets
everything but the folders; flags that were not synced may or may not be on disk.
Numbers that only decorate signals are left out, and the width of `guint` is cut to
16 bits for TLC.

### StreamCache

`GetStream`, `Evict`, `Choose` and `Open` are the four parts of
`tny_fs_stream_cache_get_stream` between which a download may move on:
lookup and the test of the size, removal of old files with the creation of the
new one, the choice of the name, the opening. A download thread has a
step per read, write, and per piece of the code after its loop (343, 347, 357,
365-381). A file on disk is an object with content; `tmp` and `final` say which
object has the name `<id>.tmp` and `<id>`, so that a rename moves and an unlink
forgets a name while descriptors still see the object. A reader is the loop
"is_eos, read" of `tny_fs_stream_write_to_stream`. Data is counted in chunks and the
n-th chunk of every stream is the number n, which is all the properties need
to tell order and completeness. `RemoveActive` lets the application remove
what it still reads. `Crash` is the NULL dereference of `remove_old_files`
(line 141), after which the program starts anew from disk, as after `Restart`.
`contended` remembers the ids that two threads downloaded at the same time.
The room that is taken, a loop over the list of files in the code, is a set here:
which files go is the oldest of the earlier runs first and any order among
those of this run, whose place in the list the hash table decides.

### FolderLife

`tny-camel-folder.c`. A thread is a program counter and a stack of what it returns to,
because the same functions (`reason`, `unreason`, the lock and load at the beginning of
a call) are called from many places. The threads are the main loop, threads of the
application, the worker of the account's queue and the thread in which camel reports new
mail.

| code | action |
|---|---|
| `_tny_camel_folder_reason`, 4734: read, write | `Reason`, `ReasonSet` |
| `_tny_camel_folder_unreason`, 4692: lock and read, write, the test at zero, the unload | `Unreason`, `UnreasonSet`, `UnreasonTest`, `Unload` |
| get_headers, 2376; refresh, 2083; sync, 1573: lock and load, camel's work, the list, the unlock | `GetHeaders`, `Refresh`, `Sync`, `CamelWorks`, `GetList`, `GetEach`, `Unlock` |
| the asynchronous calls, 2035 and 2325: launch with withdrawal, the worker, the callback, the destroyer | `LaunchRefresh`, `LaunchHeaders`, `Serve`, `RefreshItem`, `Served`, `RunDone` |
| `folder_changed`, 328-441 | `Changed`, `ChangedTry`, `ChangedUnlock`, `ChangedKill`, `ChangedRestore` |
| notifications of observers, 101-237 | `Post`, `RunChange` |
| `tny_camel_header.c`: end of a header, its flags | `DropHeader`, `FlagHeader`, `SetFlag` |

History variables say when the code has done one of the things after which a property
no longer holds: `lost` (two threads counted at one time and one of the updates is
gone), `late` (a reason was taken between the zero and the unload), `spared` (an unload
was left out for `dont_fkill`), `missed` (a change was dropped), `overlapped` (two
`folder_changed` at one time).

### ImapIdle

`camel-imap-folder.c` (IF), `camel-imap-store.c` (IS), `camel-imap-command.c` (IC). Again
program counters and stacks. The locks (`connect`, `idle`, `prefix`, `t` for
`connect_lock`, `idle_lock`, `idle_prefix_lock`, `idle_t_lock`) are recursive, so the
model counts how often each thread holds each.

| code | action |
|---|---|
| `camel_imap_folder_stop_idle`, IF 4279-4316 | `Stop`, `StopT`, `StopJoin`, `StopIdleLock`, `StopPrefix`, `StopEnd` |
| `camel_imap_store_stop_idle`, IS 264-302 | `StoreStop`, `StoreStopPrefix`, `StoreStopDone` |
| `camel_imap_folder_start_idle`, IF 4333-4403 | `Start`, `StartIdleLock`, `StartPrefix`, `StartT`, `StartJoin`, `StartNew`, `StartWait` |
| `idle_thread` with `idle_real_start`, IF 3899-4268 | `New`, `Loop`, `Begin`, `IdleRealStart`, `Tell`, `Body`, `Cont`, `Clear`, `EndBody`, `WriteDONE`, `ReadDONE`, `Unlock`, `After`, `NextRound`, `Pause`, `End` |
| a command and its answer, IC 118-642; the handling of responses, IF 3715-3862 | `CmdLock`, `CmdOpen`, `CmdAgain`, `CmdWrite`, `CmdRead`, `CmdEnd`, `Process`, `Fetched` |
| `let_idle_die`, IS 216-262; `camel_service_disconnect`; `imap_disconnect_offline`, IS 2189 | `Die`, `DiePrefix`, `Down`, `DownClose` |
| the application, the device | `Work`, `Disconnect`, `SetPushEmail`, `Offline` |
| the server | `Say`, and what the writes do to `server` and `answers` |

What the server says is one of two kinds of line: a change of flags, and EXISTS, which makes
the thread ask for the new messages. A command other than IDLE and DONE has no content.

### AvosSocket

`avossocket.cpp`. The connection is a sequence of units `<<n, k>>`, the k-th unit of
message n; `HeaderLen` of them are the header and say how long the data is. `SendMsg`
puts a message on the `wire`, `Arrive` moves any number of units to the `socket`, and
`HandleMsg` is the event loop's call of `handleMsg`, whose static variables keep the partial
block `part` from one call to the next. `ReadHeader` and `ReadData` are the two halves of its
loop, `ReadError` a read that fails. After a refused length or an error the
stream may be read from the middle of a message: the block that is then taken for a header
lacks the magic number and is refused too, until one happens to begin with a message. That data
never contains the magic number is an assumption of the model. The buffer for data is reused
whatever its size (187); `Fits` bounds the model to messages that fit into the one
at hand, since what is written behind it is not the socket's state.

## 3. Runs

All runs set `CHECK_DEADLOCK FALSE`: all items launched, all messages sent,
or everything blocked for good (`send_cancel`) are states in which the system does
stop.

| run | instance | shows |
|---|---|---|
| `queue` | 4 items (priority, sync, cancellable), 2 threads | one worker, intact list, run xor cancelled, free after callback, no stray cancel; `CamelQueue` implements `TaskQueue` |
| `queue_live` | 3 items, 1 thread, spurious wakeups, fair | an item on the stage gets its callback; an item that is left behind is so for the one reason named in `OnlySleepStrands` |
| `queue_contract` (violation) | 2 items | the lost wakeup |
| `send` | 1 message, 2 workers, flush, cancel, other callers, blocking additions, failing sends and moves, a crash (3.4 million states) | no duplicates without overlap or crash, what goes out was waiting, the mark prevents a second delivery, every sent message is accounted for; implements `Outbox` |
| `send_live` | 2 messages, 1 worker, every error, offline, fair (128 thousand states) | no path keeps a lock; stop is said after msg-sent; start is followed by stop; every moved message is announced |
| `send_cancel` (violation) | 1 message, fair | cancel and worker wait for each other |
| `cache` | 1 id of 2 chunks, 2 file objects, 1 reader, every fault, removal of what is read, a restart (5.4 million states) | complete on disk, right data for readers, early end only while downloading |
| `cache_room` | 2 ids of 1 and 2 chunks, 2 file objects, a cache of size 1 or 3 (1.9 million states) | files that are read stay; what is taken fits |
| `cache_live` | 1 id announced as longer than it is, fair | readers end; no .tmp stays |
| `idle` | 2 callers, 3 calls of any kind, 1 line of the server, fair (317 thousand states) | one idle thread, no IDLE in IDLE, news are handled, no flag is left behind and no lock kept, calls end or threads wait for each other |
| `avos` | up to 4 messages of length 0 to 3, of which 2 is the most accepted, headers of 2 units, 1 failing read, fair (334 thousand states) | messages are intact, also after errors; without errors all arrive; implements `MessageStream` |
| `folder` | push e-mail or not, main loop, worker and camel, 2 calls, up to 2 messages of which 1 comes later (2.8 million states) | reasons balance, the folder stays and goes when it should, its flag is restored, no interlock but one |

The type invariants are proved and not run. The other safety properties are both run and
proved: the run says that the formula means what it should, since each has a slip of the code
that breaks it, the proof that it holds for every value of the constants.

Why the bounds are enough. The queue's faults need at most one item on the stage,
one that waits, one that is inserted before and one removed; four items with
all flags give that, and two threads are one more than the code ever wants. In
the send queue each hazard is between one message, two workers (or a worker and
the main loop) and one other caller; `MaxSignals` bounds the signals in flight.
In the cache two chunks make "first, more, all" three different amounts, two
file objects give a file and its successor under the same id, `MaxSizes` {1, 3}
let one or both ids fit. `MaxCrashes` and `MaxRestarts` of 1 reach every point of
a run followed by a complete second run. `MaxActive` bounds the streams that were
never given back. In `idle` two callers and the idle thread are what every circle of locks
found needs; three calls are a start, a stop and something in between; one
line suffices because what is lost is one line that is read and not handled. In
`avos` four messages give one before, one at, and two behind a refused header; a header
of two units can be cut, and lengths 0 to 3 are none, less, as much and more than
is accepted. In `folder` two calls meet on two threads (a blocking one in the main loop,
an asynchronous one in the worker) beside camel's; a further thread of the application (`Others`) would make calls that
the main loop makes too, and makes the instance too large for a run. `folder` follows a behaviour up to the first lost update, after
which no count means anything.

Fairness. Threads and the main loop run (weak fairness of every step); idle
sources are dispatched in turn, so each callback is fair by itself; a lock that is
freed again and again is got in the end (strong fairness of a worker's step and
of a blocked call), which POSIX does not promise in words but schedulers give; no
fairness for what the application does, for faults, or for spurious wakeups. In
the cache every download is fair and who opened a stream reads it. In `idle` the
callers' steps are strongly fair, for the locks that the idle thread lets go and takes
in every round, and the idle thread's weakly; nobody has to call and the server need not say
anything in IDLE, but it answers commands. In `avos` what was sent arrives and the event loop runs.

## 4. What the runs found

Listed as findings, each with a counterexample that TLC finds:

* `queue_contract`: the worker decides to wait under one lock and says so under another; a launch in between is not served (`tny-camel-queue.c:268`).
* `send_cancel`: cancel takes `sending_lock` in the main loop, its holder waits for the main loop (`tny-camel-send-queue.c:920`).

Comments of the code that the models show to be wrong:

* "nothing is joining us" (`camel-imap-folder.c:4121`): `idle_cont` is tested at 4118, and a stop may clear it and come to its join (4281-4292) before the response is handled. The circle of waits that follows is one of those that `CallsEnd` allows for.
* "we reason the folder to make sure it does not ... uncache, causing an interlock" (`tny-camel-folder.c:2405`): somebody who counted down before the reason was taken waits for `folder_lock` with `reason_lock` in his hands, while the caller holds `folder_lock` and wants `reason_lock` to count down (2434, 4670). `OnlyInterlock` says that there is no other way to come to a halt.

Behaviours of the models that the code also has, and that the checked properties
are stated so as to allow; each was seen as a counterexample of the stronger
statement while the models were written. The queue:

* a cancel between the choice of an item and the start of its operation is lost (`tny-camel-queue.c:363`);
* with a spurious wakeup the worker frees an item before its callback (246), which is why `CallbackBeforeFree` and `TaskQueue` are checked and proved without them.

The send queue (`tny-camel-send-queue.c`):

* a message added after the worker's last look at the outbox and before `is_running` is cleared stays until the next flush (1004);
* with three messages of which two fail, the third is not tried: failed messages are subtracted twice (611, 678);
* the stop signal of one worker may be announced after the start of the next (823);
* a message cancelled while it is on its way is sent and in no folder (714); one whose move failed stays in the outbox for good (748, 656) - `SentAccounted` says that nothing else happens to it.

The cache:

* a stream asked for between the end of a download and the rename of its file has no file (`tny-cached-file.c:231`, 345, 357) and is never given back (`tny-cached-file-stream.c:72`);
* a cache that shrinks below what is read dereferences NULL (`tny-fs-stream-cache.c:141`);
* a file removed between check and rename comes back (`tny-cached-file.c:347`), and downloads of one id rename each other's unfinished files (357) - `CompleteAlone` limits this to ids downloaded twice at once;
* an id whose download failed is not downloaded again (`tny-cached-file.c:228`); among files of this run of the program the hash table decides which goes first (`tny-fs-stream-cache.c:113`);
* a download whose thread cannot be started (`tny-cached-file.c:429`) leaves a file of the size that was announced: announced as empty, it reads as a stream that has ended, though nothing of it was fetched. `EosEarlyWhileFetching` is proved without this case (`NoEmptyFailure`).

The folder (`tny-camel-folder.c`):

* the count of reasons loses updates, because the lock in `_tny_camel_folder_reason` is commented out (4737);
* a folder without push e-mail is unloaded under a thread that uses it (4681); one with it waits for that thread, and then goes although somebody may have a reason again (4727);
* a synchronous refresh takes no reason, so that its folder may go with the reason of somebody else;
* two `folder_changed` at one time leave `dont_fkill` set, and the folder is never unloaded again (433);
* a change is dropped when the lock cannot be had at once (341, 425) or while a header's flag is set (`tny-camel-header.c:171`);
* an empty folder with push e-mail is kept loaded to hear of new mail; after its first message it is unloaded with the last reason (4721).

Push e-mail:

* the idle thread goes on when it does not get `connect_lock` (`camel-imap-folder.c:3904`), so that commands of other threads are written inside IDLE, and a second DONE is sent when a stop comes in the pause between two rounds;
* EXISTS is forgotten when `idle_cont` changes between two reads of it (4118);
* start and stop take `idle_lock`, `idle_prefix_lock` and `idle_t_lock` in different orders, a stop joins the idle thread under locks that the thread or its disconnection wants: `Circle` in `CallsEnd`;
* who starts the thread waits for a broadcast (4387) that the thread's early exits (4021-4031) do not send: `Forgotten`;
* a thread that is told to end opens IDLE again on a connection made anew, and a stop that goes offline leaves `idle_prefix` behind;
* `imap_connect_online` returns without releasing `connect_lock` when there is no way to authenticate (`camel-imap-store.c:2012`); this path is not in the model.

The socket: a partial write counts `data_length` too much (`avossocket.cpp:245`) and a handler may
run the event loop again (214); the model has writes that write everything and handlers that return.

## 5. Proofs

`CamelQueueProofs` proves, for every set of items, flags, masks and threads, that
`Spec` implies `TypeOK`, `OneWorker`, `WorkerHoldsQueue`, `ListedIntact`,
`RanXorCancelled`, `NoStrayCancel` and, when `Spurious` is false,
`CallbackBeforeFree`. None of them is inductive. The invariant `IInv` adds what each
thread knows at each program counter: a thread in the main function is the one
`is_running` stands for and owns a reference; its item `first` is the current one
from `Pick` to `Drop`, is still in the list (nobody else unlinks the item on the
stage, because removals skip it), and moves through unserved, served, called back,
freed in step with the program counter; the camel operation is there exactly
between `Begin` and `End`. Each action has a step of its own. `NoItemIsLost`, which needs no
`~Spurious`, is about what was launched: it is linked, or its callback is with the main loop or was
called, or the queue was finalized; the worker unlinks only what it left to the main loop (`LostInv`).

`CamelQueueRefinement` proves `ImplementsTaskQueue`: the status of an item is a
function of the history, and the order in the list is the order of class and
launch (`OrderInv`). Insertion before the first item that is not urgent keeps that
order and deletion does not disturb it: these are the lemmas of `SeqLemmas`.

`SendQueueProofs` proves, for every set of messages and workers, any faults, calls
and bounds, that `Spec` implies `TypeOK`, `LocksReleased`, `SendsWaiting`,
`DuplicateNeedsOverlap`, `SentAccounted`, `SyncedNotResent`, `StopAfterSent` and
`ImplementsOutbox`. Its invariant has five parts beside the types. `LockInv`: the
program counter of a worker says which of the two locks it holds, from which
mutual exclusion follows. `ChosenInv`: from the choice of a header until the
worker gives `sending_lock` up for the transport, the message is in the outbox,
not suspended and not flagged, because whoever could change that (a cancel, the
mark or the move of another worker) needs that lock; the headers a worker was
given under `todo_lock` are still in the outbox for the same reason. `SingleInv`:
without an overlap one worker is alone, so nobody flags the message while the
transport has it. `MarkInv`: what was delivered is flagged, or a worker between
transport and mark is about to flag it, and a worker at the move has delivered.
`KnownInv`: whatever a worker or the server has came into the outbox and is there,
in the sentbox or removed; a message comes in once. `NotifyInv`, an invariant on top of
`IInv`, says that a message of the sentbox was announced, is counted, or will be by a
callback that waits; `StopAfterSent` rests on it, and `MovedIsCounted` states it. `StopIsComing`: when
the last word of the queue is or will be that it started, there is a worker, a notification, or a
stop at the end of the signals, whatever fails, overlaps or crashes (`StopInv`: `thread` is NULL or a
worker that has yet to clear it, so the last notification knows whether it must say the stop). Most steps either touch nothing
of this (`QuietStep`) or only move a worker on (`GotoStep`); the others have a
proof of their own, with one step per part.
Assumptions: those named in the modules (constants are sets of the right shape,
`None` is not among them) and, where said, `~Spurious`.

`StreamCacheProofs` proves, for every set of ids, files and streams, any lengths, faults and
number of restarts, that `Spec` implies `TypeOK`, `CompleteAlone`, `ReadersSeeData` and, when
the application does not remove what it reads, `ReadersKeepFile`. Four layers, each an
invariant on top of the one before. `BaseInv`: the streams that are open on a file are no
more than its `active_count` (a stream whose file could not be opened stays counted), so a file
that has readers is never taken for an inactive one. `OwnInv`: whatever refers to an object on
disk, a name, a thread or a descriptor, does so for one id, and an object has one name.
`ContentInv`, for ids that no two threads downloaded at one time: one thread works for the id;
a `.tmp` that nobody writes is empty; the thread writes the object that is called `.tmp` and
knows how much of the stream is in it, in order; what a file says was fetched is there; a
finished name is complete. `Moves(f, i)` says what a step of a download thread may do to what other
ids and streams see, and is proved once for each of its actions. On top of these, `SizeInv` relates
the two sizes of a file that nobody downloads: all was fetched and it says so, or nothing was and
something is expected; no stream is read beyond what was fetched. `EosEarlyWhileFetching` follows,
under `NoEmptyFailure`: when the thread of a download can fail to start, no stream is announced as
empty. `Accounted` is about the sum of the sizes over a set of files. It needs no invariant of its
own but facts on such sums (`SumOfSteps`, `SumOfParts`): they are shown by induction over the
finite subsets of `File`, said with a set of subsets that has no minimal element (`WFMin`) because
the prover cannot take a predicate, and then over what `remove_old_files` takes away.
`NoReaderIsForgotten`: a reader that finds nothing to read, though it is neither at the end nor told of
an error, has a thread that runs and works for its file, and so has every `.tmp` file, unless
threads can fail to start or two downloads wrote to one file (`StartInv`: a download that is over
says so and corrected the size, and one that says it goes on has a thread, if threads start).

`FolderLifeProofs` proves, for any number of threads, calls, messages and changes that camel
finds, that `Spec` implies `TypeOK`, `OnlyInterlock`, `FolderStays`, `FkillRestored`,
`ReasonCounted`, `UnloadedWhenQuiet` and `HeadersHaveFolder`; only the assumptions that the module
makes on its constants are used. What a thread still has to do is on its stack, so the base is
`FrameInv`: a finite list of the shapes (`Fits`) that the stack has at each label. `At(S, t)` counts the
labels of `S` that a thread is at or returns to; every step is one of a few moves (`Goto`,
`Return`, a call of several labels) whose effect on all these numbers is a lemma. With them:

* `LockCount`: a thread holds `folder_lock` as often as its labels release it. `LockInv`: so at most one thread holds each lock, and who holds `reason_lock` is in `_tny_camel_folder_unreason`. If all wait, following who waits for whom ends in the one circle of `OnlyInterlock`.
* `LoadInv`: with push e-mail, no label after the load is reached or kept without the folder, because it is then unloaded only under `folder_lock`.
* `KillInv`: as long as `folder_changed` does not overlap, who restores `dont_fkill` saved that it was not set, and somebody restores it while it is set.
* `CountInv`: the count is the reasons of the owners (calls, headers, changes, withdrawn calls) plus, for each thread, the labels that give a reason less those that take one (`Held`). The sum over the threads is the size of a set with one element per reason. `LocalsInv` says when a thread has a header of its own, which is a reason too.
* `QuietInv`: a loaded folder has a reason, or a thread that is about to take or drop one, or one of the named exceptions. `HeadInv`: whoever has a header has the folder, until an update was lost or somebody came late.

`AvosSocketProofs` proves, for headers of any length, messages of any length and number, any
cut into pieces and any number of failing reads, that `Spec` implies `TypeOK`, `Intact` and
`ImplementsStream`. Its invariant is about `Rest`, the partial block, the socket and the wire put
together. `Continuous`: from any unit of it on come the rest of its message and then
the next message; it holds of every tail, and so after any error. `Sorted`: message numbers only
grow. `HeaderInv`: behind an accepted header is its data, or else the next message. `OrderInv`:
what is to come was not received, and without faults is the next one. `NothingLeftBehind`:
when nothing is on its way, no signal waits and `handleMsg` has returned, everything was received
(`DrainInv`: without faults `handleMsg` leaves the socket empty when it returns, unless a signal
waits, and announces a message without data before that).

`ImapIdleProofs` proves, for any callers, any number of calls and of lines of the server, that
`Spec` implies `TypeOK`, `LocksGivenBack`, `InIdleHasThread`, `OneIdler`, `RestartsAfterDONE` and
`NewsKept`; only the two assumptions on the constants are used. The functions call each other
without a bound (a command disconnects, disconnecting stops IDLE, and so on), so the first layer,
`ControlInv`, is about stacks: every label stands for the locks its function holds (`Owns`), and
the count of a lock is the sum over the labels of the stack (`Balance`, said with a sequence of
partial sums, which needs no induction). `StackOK` says that IDLE is started only from where a thread
is in no other function, and `Place` is where the idle thread returns to in the end. `LifeInv`:
who found the thread dead or joined it owns `idle_t_lock` until he has created the next, and the
creator waits for the thread that it created. `KillInv`: `in_idle` is cleared under a running
thread only after `idle_kill`. `DoneInv`: at each place of the idle thread IDLE is over, or the
thread still has `idle_prefix` and so writes DONE, or it was told to end. `NewsInv`: a response is
in the hands of the function that handles it, is the result, or the thread is being stopped.
`OnlyACircleStopsAll`: while calls go on or the idle thread runs, one of the threads can go on, unless
some wait for each other in a circle or a creator was forgotten. A lock has an owner that is in a call
(`LocksGivenBack`), and a creator waits only while `in_idle` is set or it was told (`ToldInv`); so if
all waited, each would wait for one that is also waiting, which is a circle.

Every theorem assumes only what the modules assume of their constants, and what is said above of
it: `~Spurious` for `CallbackBeforeFree` and `TaskQueue`, that the application does not remove what
it reads for `ReadersKeepFile`, `NoEmptyFailure` for `EosEarlyWhileFetching`. Each is a condition
without which TLC finds the property violated.

Only model-checked, because fairness is out of the prover's reach: the liveness properties
`StageClears` and `OnlySleepStrands` (queue), `StartThenStop` and `MovedIsTold` (send queue),
`ReadEnds` and `TmpCleared` (cache), `CallsEnd` (IDLE) and `AllReceived` (socket). What is proved under most of them is the half that fairness does not give: that
what is awaited is still held by somebody who can act. `NoItemIsLost` is that half of
`OnlySleepStrands`, `StopIsComing` of `StartThenStop`, `MovedIsCounted` of `MovedIsTold`,
`NoReaderIsForgotten` of `ReadEnds` and `TmpCleared`, `OnlyACircleStopsAll` of `CallsEnd` and
`NothingLeftBehind` of `AllReceived`; that it then does act stays with TLC.

## 6. Not modelled, and the plan

Left out of the modelled parts: allocation, reference counts other than the
queue's own, the wording of errors and status lines. The send queue's creation of its folders
and `set_transport_account`. Seek, reset and unclosed streams of the cache;
several threads calling the cache at a time (its users have one). The folder's counts
(`cached_length`, `unread_length`; 376 counts a message of push e-mail twice),
`poke_status`, the transfer of messages, the list of observers, the disposal of a folder
while camel is in `folder_changed`; asynchronous calls other than refresh and get_headers follow
the same pattern of reasons. The content of IMAP commands, authentication, several folders
of a store. Connecting a socket, and lack of memory.

Most of the tree is not the firmware's own code: poppler, live555, harfbuzz, old imports of
tinymail, and camel-lite's parsers are copies of other projects with few changes; what the models cover is the part with threads and protocols
in it.

Next, in this order:

1. `Account`: start, stop and cancel of operations by several threads (`tny-camel-account.c:77`: one field for all of them), `set_online`, the session's online queue, with "the cancelled operation is the one meant" and "every online request is answered"; composed with `CamelQueue`;
2. the folder's counts against its list, `poke_status`, transfer between two folders; `MergeFolder` and `FolderMonitor` over an abstract folder;
3. `IdleStopper`;
4. `SambaFsMonitor`: which directories are logged for which calls; the cache of fusesmb with its writer process;
5. camel-lite's IMAP message cache.

An abstract specification still to come: a request that is answered exactly once (account,
folder).
