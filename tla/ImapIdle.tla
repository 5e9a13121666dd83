------------------------------ MODULE ImapIdle ------------------------------
(***************************************************************************)
(* Push e-mail over one IMAP connection of camel-lite.                     *)
(*                                                                         *)
(* A thread of the store keeps the IMAP command IDLE open and reads what   *)
(* the server says.  Every other use of the connection must end IDLE       *)
(* first, join that thread, write its command and start IDLE again.  The   *)
(* parties share flags without a lock (idle_cont, idle_kill, in_idle,      *)
(* dontdistridlehack) and four recursive locks, some of which are only     *)
(* tried.                                                                  *)
(*                                                                         *)
(* A thread is a program counter and a stack of the labels it returns to:  *)
(* the functions of the code call each other from several places.  A label *)
(* is a place where other threads may run.                                 *)
(***************************************************************************)
EXTENDS Naturals, FiniteSets, SequencesExt

CONSTANTS
    Callers,    \* the threads that use the connection
    Idler,      \* the thread that idles
    Calls,      \* what the callers do: "work", "down", "push", "offline"
    MaxCalls,   \* bound: calls of all callers together
    MaxNews     \* bound: untagged lines of the server

ASSUME CallersAssumption == IsFiniteSet(Callers) /\ Idler \notin Callers
ASSUME BoundAssumption == MaxCalls \in Nat /\ MaxNews \in Nat

Threads == Callers \cup {Idler}
Locks == {"connect", "idle", "prefix", "t"}

\* What an untagged line is about, and what is left to do about the lines read.
Lines == {"flags", "exists"}
Responses == Lines \cup {"none"}

VARIABLES
    online,         \* the device, as camel_disco_store_check_online sees it
    connected,      \* the streams of the store are open
    current_folder, \* a folder is selected
    do_push_email,  \* the folder wants IDLE
    idle_cont, idle_kill, in_idle, idle_thread, idle_prefix, \* fields of the store
    dontdistridlehack, \* commands do not stop IDLE
    held,           \* held[l][t]: how often t holds the recursive lock l
    server,         \* what the server waits for: "command", or "done" in IDLE
    answers,        \* tagged answers that nobody has read
    wire,           \* untagged lines that nobody has read
    pc, stack,      \* where each thread is, and the labels it returns to
    resp,           \* the idle response each thread has in its hands
    idle,           \* the local variables of the idle thread
    calls, news     \* what is left of the bounds

flags == <<idle_cont, idle_kill, in_idle, idle_thread, idle_prefix>>
mode == <<online, connected, current_folder, do_push_email>>
lines == <<server, answers, wire>>
bounds == <<calls, news>>
vars == <<mode, flags, dontdistridlehack, held, lines, pc, stack, resp, idle, bounds>>

CallerLabels ==
    {"free", "cmd", "cmd_open", "cmd_again", "cmd_write", "cmd_read", "cmd_end",
     "store_stop", "store_stop_prefix", "store_stop_done",
     "stop", "stop_t", "stop_join", "stop_idle", "stop_prefix", "stop_end",
     "start", "start_idle", "start_prefix", "start_t", "start_join", "start_new",
     "start_wait", "die", "die_prefix", "down", "down_stop", "down_close",
     "process", "fetched"}

IdlerLabels ==
    {"dead", "new", "loop", "begin", "write_idle", "tell", "body", "cont", "clear",
     "end_body", "write_done", "read_done", "unlock", "after", "next", "pause", "end"}

TypeOK ==
    /\ online \in BOOLEAN /\ connected \in BOOLEAN
    /\ current_folder \in BOOLEAN /\ do_push_email \in BOOLEAN
    /\ idle_cont \in BOOLEAN /\ idle_kill \in BOOLEAN /\ in_idle \in BOOLEAN
    /\ idle_thread \in BOOLEAN /\ idle_prefix \in BOOLEAN
    /\ dontdistridlehack \in BOOLEAN
    /\ held \in [Locks -> [Threads -> Nat]]
    /\ server \in {"command", "done"} /\ answers \in Nat /\ wire \subseteq Lines
    /\ pc \in [Threads -> CallerLabels \cup IdlerLabels]
    /\ stack \in [Threads -> Seq(CallerLabels \cup IdlerLabels)]
    /\ resp \in [Threads -> Responses]
    /\ idle \in [my_cont : BOOLEAN, first : BOOLEAN, had_cond : BOOLEAN,
                 senddone : BOOLEAN, locked : BOOLEAN, retval : Responses]
    /\ calls \in 0 .. MaxCalls /\ news \in 0 .. MaxNews

Init ==
    /\ online = TRUE /\ connected = TRUE /\ current_folder = TRUE /\ do_push_email = TRUE
    /\ idle_cont = FALSE /\ idle_kill = FALSE /\ in_idle = FALSE
    /\ idle_thread = FALSE /\ idle_prefix = FALSE
    /\ dontdistridlehack = FALSE
    /\ held = [l \in Locks |-> [t \in Threads |-> 0]]
    /\ server = "command" /\ answers = 0 /\ wire = {}
    /\ pc = [t \in Threads |-> IF t = Idler THEN "dead" ELSE "free"]
    /\ stack = [t \in Threads |-> <<>>]
    /\ resp = [t \in Threads |-> "none"]
    /\ idle = [my_cont |-> FALSE, first |-> FALSE, had_cond |-> FALSE,
               senddone |-> FALSE, locked |-> FALSE, retval |-> "none"]
    /\ calls = MaxCalls /\ news = MaxNews

-----------------------------------------------------------------------------
\* Control: go to a label, call labels one after the other, return.

Goto(t, label) == pc' = [pc EXCEPT ![t] = label] /\ UNCHANGED stack

Call(t, labels) ==
    /\ pc' = [pc EXCEPT ![t] = Head(labels)]
    /\ stack' = [stack EXCEPT ![t] = Tail(labels) \o @]

Return(t) ==
    /\ pc' = [pc EXCEPT ![t] = Head(stack[t])]
    /\ stack' = [stack EXCEPT ![t] = Tail(@)]

\* Recursive locks.
CanLock(l, t) == \A u \in Threads \ {t} : held[l][u] = 0

Locked(h, l, t) == [h EXCEPT ![l][t] = @ + 1]
Unlocked(h, l, t) == [h EXCEPT ![l][t] = @ - 1]
UnlockedAll(h, ls, t) == [l \in Locks |-> IF l \in ls THEN [h[l] EXCEPT ![t] = @ - 1] ELSE h[l]]

Lock(l, t) == CanLock(l, t) /\ held' = Locked(held, l, t)

\* What the lines of ls add to a response.
Merged(r, ls) ==
    IF r = "exists" \/ "exists" \in ls THEN "exists"
    ELSE IF r = "flags" \/ ls # {} THEN "flags" ELSE "none"

\* A line of the client that the server does not expect is answered with BAD,
\* and BAD ends IDLE: all lines have one answer, except IDLE outside IDLE.
WriteLine == server' = "command" /\ answers' = answers + 1

WriteIDLE ==
    /\ server' = IF server = "command" THEN "done" ELSE "command"
    /\ answers' = 0
    /\ wire' = {}

-----------------------------------------------------------------------------
\* Stopping IDLE.  The callers hold connect_lock, or nothing.

StoreStop(t) ==
    /\ pc[t] = "store_stop"
    /\ IF current_folder
       THEN Goto(t, "stop") /\ UNCHANGED held
       ELSE Lock("idle", t) /\ Goto(t, "store_stop_prefix")
    /\ UNCHANGED <<mode, flags, dontdistridlehack, lines, resp, idle, bounds>>

StoreStopPrefix(t) ==
    /\ pc[t] = "store_stop_prefix"
    /\ Lock("prefix", t)
    /\ idle_kill' = TRUE /\ idle_cont' = FALSE
    /\ Goto(t, "store_stop_done")
    /\ UNCHANGED <<mode, in_idle, idle_thread, idle_prefix, dontdistridlehack, lines, resp,
                   idle, bounds>>

StoreStopDone(t) ==
    /\ pc[t] = "store_stop_done"
    /\ IF idle_prefix
       THEN /\ CanLock("connect", t)
            /\ server' = "command" /\ wire' = {} /\ UNCHANGED answers
            /\ in_idle' = FALSE /\ idle_prefix' = FALSE
       ELSE UNCHANGED <<lines, in_idle, idle_prefix>>
    /\ held' = UnlockedAll(held, {"idle", "prefix"}, t)
    /\ Return(t)
    /\ UNCHANGED <<mode, idle_cont, idle_kill, idle_thread, dontdistridlehack, resp, idle, bounds>>

Stop(t) ==
    /\ pc[t] = "stop"
    /\ idle_cont' = FALSE
    /\ IF online THEN Goto(t, "stop_t") ELSE Return(t)
    /\ UNCHANGED <<mode, idle_kill, in_idle, idle_thread, idle_prefix, dontdistridlehack, held,
                   lines, resp, idle, bounds>>

\* The thread is joined while idle_t_lock is held.
StopT(t) ==
    /\ pc[t] = "stop_t"
    /\ Lock("t", t)
    /\ IF in_idle /\ idle_thread /\ t # Idler
       THEN idle_cont' = FALSE /\ Goto(t, "stop_join")
       ELSE UNCHANGED idle_cont /\ Goto(t, "stop_end")
    /\ UNCHANGED <<mode, idle_kill, in_idle, idle_thread, idle_prefix, dontdistridlehack,
                   lines, resp, idle, bounds>>

\* The result of the thread becomes the response the joiner handles.
Join(t, label) ==
    /\ pc[Idler] = "dead"
    /\ resp' = [resp EXCEPT ![t] = idle.retval]
    /\ idle' = [idle EXCEPT !.retval = "none"]
    /\ Goto(t, label)

StopJoin(t) ==
    /\ pc[t] = "stop_join"
    /\ Join(t, "stop_idle")
    /\ UNCHANGED <<mode, flags, dontdistridlehack, held, lines, bounds>>

\* idle_lock and idle_prefix_lock after idle_t_lock: start_idle takes them before it.
StopIdleLock(t) ==
    /\ pc[t] = "stop_idle"
    /\ Lock("idle", t)
    /\ Goto(t, "stop_prefix")
    /\ UNCHANGED <<mode, flags, dontdistridlehack, lines, resp, idle, bounds>>

\* A slip: idle_prefix_lock, which is not taken, is released.
StopPrefixTwice(t) ==
    /\ pc[t] = "stop_prefix"
    /\ CanLock("prefix", t)
    /\ held' = UnlockedAll(held, {"idle", "prefix"}, t)
    /\ in_idle' = FALSE /\ idle_thread' = FALSE
    /\ IF resp[t] = "none" THEN Goto(t, "stop_end") ELSE Call(t, <<"process", "stop_end">>)
    /\ UNCHANGED <<mode, idle_cont, idle_kill, idle_prefix, dontdistridlehack, lines, resp, idle,
                   bounds>>

StopPrefix(t) ==
    /\ pc[t] = "stop_prefix"
    /\ CanLock("prefix", t)
    /\ held' = Unlocked(held, "idle", t)
    /\ in_idle' = FALSE /\ idle_thread' = FALSE
    /\ IF resp[t] = "none" THEN Goto(t, "stop_end") ELSE Call(t, <<"process", "stop_end">>)
    /\ UNCHANGED <<mode, idle_cont, idle_kill, idle_prefix, dontdistridlehack, lines, resp, idle,
                   bounds>>

StopEnd(t) ==
    /\ pc[t] = "stop_end"
    /\ idle_prefix' = FALSE
    /\ held' = Unlocked(held, "t", t)
    /\ Return(t)
    /\ UNCHANGED <<mode, idle_cont, idle_kill, in_idle, idle_thread, dontdistridlehack, lines,
                   resp, idle, bounds>>

-----------------------------------------------------------------------------
\* Starting IDLE.

Start(t) ==
    /\ pc[t] = "start"
    /\ IF online /\ do_push_email THEN Goto(t, "start_idle") ELSE Return(t)
    /\ UNCHANGED <<mode, flags, dontdistridlehack, held, lines, resp, idle, bounds>>

StartIdleLock(t) ==
    /\ pc[t] = "start_idle"
    /\ Lock("idle", t)
    /\ Goto(t, "start_prefix")
    /\ UNCHANGED <<mode, flags, dontdistridlehack, lines, resp, idle, bounds>>

StartPrefix(t) ==
    /\ pc[t] = "start_prefix"
    /\ CanLock("prefix", t)
    /\ IF current_folder /\ ~idle_prefix
       THEN held' = Locked(held, "prefix", t) /\ Goto(t, "start_t")
       ELSE held' = Unlocked(held, "idle", t) /\ Return(t)
    /\ UNCHANGED <<mode, flags, dontdistridlehack, lines, resp, idle, bounds>>

\* A slip: a thread that is there and not in_idle is not joined.
StartTUnjoined(t) ==
    /\ pc[t] = "start_t"
    /\ Lock("t", t)
    /\ Goto(t, "start_new")
    /\ UNCHANGED <<mode, flags, dontdistridlehack, lines, resp, idle, bounds>>

StartT(t) ==
    /\ pc[t] = "start_t"
    /\ Lock("t", t)
    /\ IF ~in_idle /\ idle_thread /\ t # Idler
       THEN idle_cont' = FALSE /\ Goto(t, "start_join")
       ELSE UNCHANGED idle_cont /\ Goto(t, "start_new")
    /\ UNCHANGED <<mode, idle_kill, in_idle, idle_thread, idle_prefix, dontdistridlehack, lines,
                   resp, idle, bounds>>

StartJoin(t) ==
    /\ pc[t] = "start_join"
    /\ pc[Idler] = "dead"
    /\ resp' = [resp EXCEPT ![t] = idle.retval]
    /\ idle' = [idle EXCEPT !.retval = "none"]
    /\ idle_thread' = FALSE
    /\ IF idle.retval = "none"
       THEN Goto(t, "start_new")
       ELSE Call(t, <<"process", "start_new">>)
    /\ UNCHANGED <<mode, idle_cont, idle_kill, in_idle, idle_prefix, dontdistridlehack, held,
                   lines, bounds>>

NewThread ==
    [my_cont |-> FALSE, first |-> TRUE, had_cond |-> FALSE, senddone |-> FALSE,
     locked |-> FALSE, retval |-> "none"]

StartLocks == {"idle", "prefix", "t"}

\* The new thread runs while its creator waits for it and holds three locks.
StartNew(t) ==
    /\ pc[t] = "start_new"
    /\ IF in_idle
       THEN /\ held' = UnlockedAll(held, StartLocks, t)
            /\ Return(t)
            /\ UNCHANGED <<flags, idle>>
       ELSE /\ idle_kill' = FALSE /\ in_idle' = TRUE /\ idle_cont' = TRUE /\ idle_thread' = TRUE
            /\ idle' = NewThread
            /\ pc' = [pc EXCEPT ![t] = "start_wait", ![Idler] = "new"]
            /\ UNCHANGED <<stack, held, idle_prefix>>
    /\ UNCHANGED <<mode, dontdistridlehack, lines, resp, bounds>>

StartWait(t) ==
    /\ pc[t] = "start_wait"
    /\ idle.had_cond
    /\ held' = UnlockedAll(held, StartLocks, t)
    /\ Return(t)
    /\ UNCHANGED <<mode, flags, dontdistridlehack, lines, resp, idle, bounds>>

-----------------------------------------------------------------------------
\* Handling a response: an EXISTS above the count of the summary has the new
\* headers fetched, by commands that do not stop IDLE.

Process(t) ==
    /\ pc[t] = "process"
    /\ IF resp[t] = "exists" /\ connected
       THEN dontdistridlehack' = TRUE /\ Call(t, <<"cmd", "fetched">>)
       ELSE UNCHANGED dontdistridlehack /\ Return(t)
    /\ resp' = [resp EXCEPT ![t] = "none"]
    /\ UNCHANGED <<mode, flags, held, lines, idle, bounds>>

Fetched(t) ==
    /\ pc[t] = "fetched"
    /\ dontdistridlehack' = FALSE
    /\ Return(t)
    /\ UNCHANGED <<mode, flags, held, lines, resp, idle, bounds>>

-----------------------------------------------------------------------------
\* A command.

CmdLock(t) ==
    /\ pc[t] = "cmd"
    /\ Lock("connect", t)
    /\ Goto(t, "cmd_open")
    /\ UNCHANGED <<mode, flags, dontdistridlehack, lines, resp, idle, bounds>>

\* A closed connection is opened again, if that works.
CmdOpen(t) ==
    /\ pc[t] = "cmd_open"
    /\ \/ /\ connected
          /\ IF dontdistridlehack
             THEN Goto(t, "cmd_write")
             ELSE Call(t, <<"store_stop", "cmd_write">>)
       \/ ~connected /\ Goto(t, "cmd_end")
       \/ ~connected /\ online /\ Call(t, <<"die", "cmd_again">>)
    /\ UNCHANGED <<mode, flags, dontdistridlehack, held, lines, resp, idle, bounds>>

CmdAgain(t) ==
    /\ pc[t] = "cmd_again"
    /\ connected' = TRUE
    /\ server' = "command" /\ answers' = 0 /\ wire' = {}
    /\ Goto(t, "cmd_open")
    /\ UNCHANGED <<online, current_folder, do_push_email, flags, dontdistridlehack, held, resp,
                   idle, bounds>>

\* What is left in the socket is read away.
CmdWrite(t) ==
    /\ pc[t] = "cmd_write"
    /\ IF connected
       THEN /\ WriteLine /\ wire' = {}
            /\ current_folder' = TRUE
            /\ Goto(t, "cmd_read")
       ELSE Goto(t, "cmd_end") /\ UNCHANGED <<lines, current_folder>>
    /\ UNCHANGED <<online, connected, do_push_email, flags, dontdistridlehack, held, resp, idle,
                   bounds>>

\* Any tagged line is taken for the answer.  A reader that waits in vain closes
\* the connection.
CmdRead(t) ==
    /\ pc[t] = "cmd_read"
    /\ \/ /\ connected /\ online /\ answers > 0
          /\ answers' = answers - 1 /\ wire' = {}
          /\ IF "exists" \in wire /\ "fetched" \notin ToSet(stack[t])
             THEN /\ resp' = [resp EXCEPT ![t] = "exists"]
                  /\ Call(t, <<"stop", "process", "cmd_end">>)
             ELSE UNCHANGED resp /\ Goto(t, "cmd_end")
       \/ /\ connected /\ online /\ answers = 0
          /\ Call(t, <<"down", "cmd_end">>)
          /\ UNCHANGED <<answers, wire, resp>>
       \/ /\ ~(connected /\ online)
          /\ Goto(t, "cmd_end")
          /\ UNCHANGED <<answers, wire, resp>>
    /\ UNCHANGED <<mode, flags, dontdistridlehack, held, server, idle, bounds>>

CmdEnd(t) ==
    /\ pc[t] = "cmd_end"
    /\ held' = Unlocked(held, "connect", t)
    /\ Return(t)
    /\ UNCHANGED <<mode, flags, dontdistridlehack, lines, resp, idle, bounds>>

-----------------------------------------------------------------------------
\* Disconnecting.

Die(t) ==
    /\ pc[t] = "die"
    /\ Lock("idle", t)
    /\ Goto(t, "die_prefix")
    /\ UNCHANGED <<mode, flags, dontdistridlehack, lines, resp, idle, bounds>>

\* connect_lock is only tried: without it there is no DONE.
DiePrefix(t) ==
    /\ pc[t] = "die_prefix"
    /\ CanLock("prefix", t)
    /\ idle_kill' = TRUE /\ idle_cont' = FALSE /\ idle_prefix' = FALSE
    /\ IF idle_prefix /\ CanLock("connect", t)
       THEN server' = "command" /\ wire' = {}
       ELSE UNCHANGED <<server, wire>>
    /\ held' = Unlocked(held, "idle", t)
    /\ Return(t)
    /\ UNCHANGED <<mode, answers, in_idle, idle_thread, dontdistridlehack, resp, idle, bounds>>

Closing == \E t \in Threads : "down_close" \in ToSet(stack[t]) \cup {pc[t]}

Down(t) ==
    /\ pc[t] = "down"
    /\ Lock("connect", t)
    /\ IF connected /\ ~Closing
       THEN Call(t, <<"die", "store_stop", "down_close", "cmd_end">>)
       ELSE Goto(t, "cmd_end")
    /\ UNCHANGED <<mode, flags, dontdistridlehack, lines, resp, idle, bounds>>

DownClose(t) ==
    /\ pc[t] = "down_close"
    /\ connected' = FALSE /\ current_folder' = FALSE
    /\ server' = "command" /\ answers' = 0 /\ wire' = {}
    /\ Return(t)
    /\ UNCHANGED <<online, do_push_email, flags, dontdistridlehack, held, resp, idle, bounds>>

-----------------------------------------------------------------------------
\* The idle thread.

\* A folder that does not want IDLE ends the thread before it tells its creator.
New ==
    /\ pc[Idler] = "new"
    /\ IF do_push_email
       THEN idle' = [idle EXCEPT !.my_cont = idle_cont] /\ Goto(Idler, "loop")
       ELSE UNCHANGED idle /\ Goto(Idler, "dead")
    /\ UNCHANGED <<mode, flags, dontdistridlehack, held, lines, resp, bounds>>

Loop ==
    /\ pc[Idler] = "loop"
    /\ Goto(Idler, IF ~idle.my_cont \/ idle_kill THEN "end"
                   ELSE IF idle_cont /\ idle.first THEN "begin" ELSE "tell")
    /\ idle' = [idle EXCEPT !.senddone = FALSE]
    /\ resp' = [resp EXCEPT ![Idler] = "none"]
    /\ UNCHANGED <<mode, flags, dontdistridlehack, held, lines, bounds>>

\* A lock that is only tried: the thread goes on without it.
TryIdleLock(label) ==
    /\ idle' = [idle EXCEPT !.locked = CanLock("idle", Idler)]
    /\ held' = IF CanLock("idle", Idler) THEN Locked(held, "idle", Idler) ELSE held
    /\ Goto(Idler, label)

ReleaseIdle == IF idle.locked THEN Unlocked(held, "idle", Idler) ELSE held

Begin ==
    /\ pc[Idler] = "begin"
    /\ IF idle_kill
       THEN idle' = [idle EXCEPT !.first = FALSE] /\ UNCHANGED held /\ Goto(Idler, "tell")
       ELSE TryIdleLock("write_idle")
    /\ UNCHANGED <<mode, flags, dontdistridlehack, lines, resp, bounds>>

\* connect_lock is tried too, and IDLE is written without it.
IdleRealStart ==
    /\ pc[Idler] = "write_idle"
    /\ IF connected
       THEN idle_prefix' = TRUE /\ WriteIDLE
       ELSE UNCHANGED <<idle_prefix, lines>>
    /\ held' = ReleaseIdle
    /\ idle' = [idle EXCEPT !.first = FALSE, !.locked = FALSE]
    /\ Goto(Idler, "tell")
    /\ UNCHANGED <<mode, idle_cont, idle_kill, in_idle, idle_thread, dontdistridlehack, resp, bounds>>

Tell ==
    /\ pc[Idler] = "tell"
    /\ idle' = [idle EXCEPT !.had_cond = TRUE]
    /\ Goto(Idler, "body")
    /\ UNCHANGED <<mode, flags, dontdistridlehack, held, lines, resp, bounds>>

ReadLines ==
    /\ resp' = [resp EXCEPT ![Idler] = Merged(@, wire)]
    /\ wire' = {}

Body ==
    /\ pc[Idler] = "body"
    /\ IF CanLock("idle", Idler) /\ ~idle_kill /\ connected
       THEN ReadLines
       ELSE UNCHANGED <<resp, wire>>
    /\ Goto(Idler, "cont")
    /\ UNCHANGED <<mode, flags, dontdistridlehack, held, server, answers, idle, bounds>>

\* The test of idle_cont: what follows it runs while idle_cont may change.
Cont ==
    /\ pc[Idler] = "cont"
    /\ IF idle_cont /\ resp[Idler] = "flags"
       THEN Call(Idler, <<"process", "clear">>) /\ UNCHANGED idle
       ELSE /\ Goto(Idler, "end_body")
            /\ idle' = IF idle_cont /\ resp[Idler] = "none" THEN idle
                       ELSE [idle EXCEPT !.senddone = TRUE, !.retval = resp[Idler]]
    /\ UNCHANGED <<mode, flags, dontdistridlehack, held, lines, resp, bounds>>

Clear ==
    /\ pc[Idler] = "clear"
    /\ idle' = [idle EXCEPT !.retval = "none"]
    /\ Goto(Idler, "end_body")
    /\ UNCHANGED <<mode, flags, dontdistridlehack, held, lines, resp, bounds>>

\* A slip: IDLE is started again without the DONE that ends it.
EndBodyNoDONE ==
    /\ pc[Idler] = "end_body"
    /\ Goto(Idler, IF idle.senddone THEN "next" ELSE "pause")
    /\ UNCHANGED <<mode, flags, dontdistridlehack, held, lines, resp, idle, bounds>>

\* IDLE is ended when something happened, and every idle_sleep rounds.
EndBody ==
    /\ pc[Idler] = "end_body"
    /\ \/ ~idle.senddone /\ Goto(Idler, "pause") /\ UNCHANGED <<idle, held>>
       \/ ~idle_prefix /\ Goto(Idler, "next") /\ UNCHANGED <<idle, held>>
       \/ idle_prefix /\ TryIdleLock("write_done")
    /\ UNCHANGED <<mode, flags, dontdistridlehack, lines, resp, bounds>>

\* The response that is read now is the result of the thread if there was none
\* and the thread is stopped, or if the response already was the result.
ReadOn ==
    /\ ReadLines
    /\ idle' = [idle EXCEPT !.retval =
                    IF resp[Idler] # "none" \/ ~idle_cont THEN resp'[Idler] ELSE @]

WriteDONE ==
    /\ pc[Idler] = "write_done"
    /\ IF idle_kill \/ ~connected
       THEN Goto(Idler, "unlock") /\ UNCHANGED <<lines, resp, idle>>
       ELSE WriteLine /\ ReadOn /\ Goto(Idler, "read_done")
    /\ UNCHANGED <<mode, flags, dontdistridlehack, held, bounds>>

ReadDONE ==
    /\ pc[Idler] = "read_done"
    /\ \/ /\ connected /\ online /\ answers > 0
          /\ answers' = answers - 1 /\ ReadOn
          /\ Goto(Idler, "unlock")
       \/ /\ connected /\ online /\ answers = 0 /\ ~Closing
          /\ Call(Idler, <<"die", "store_stop", "down_close", "unlock">>)
          /\ UNCHANGED <<answers, wire, resp, idle>>
       \/ /\ ~(connected /\ online) \/ Closing
          /\ Goto(Idler, "unlock")
          /\ UNCHANGED <<answers, wire, resp, idle>>
    /\ UNCHANGED <<mode, flags, dontdistridlehack, held, server, bounds>>

Unlock ==
    /\ pc[Idler] = "unlock"
    /\ held' = ReleaseIdle
    /\ idle' = [idle EXCEPT !.locked = FALSE]
    /\ Goto(Idler, "after")
    /\ UNCHANGED <<mode, flags, dontdistridlehack, lines, resp, bounds>>

\* A slip: a response about new messages is not processed.
AfterDrops ==
    /\ pc[Idler] = "after"
    /\ IF idle_cont /\ resp[Idler] = "flags"
       THEN Call(Idler, <<"process", "next">>)
       ELSE Goto(Idler, "next")
    /\ idle' = [idle EXCEPT !.retval = "none"]
    /\ UNCHANGED <<mode, flags, dontdistridlehack, held, lines, resp, bounds>>

\* The response is processed here, or it should be the result of the thread.
After ==
    /\ pc[Idler] = "after"
    /\ IF idle_cont /\ resp[Idler] # "none"
       THEN /\ idle' = [idle EXCEPT !.retval = "none"]
            /\ Call(Idler, <<"process", "next">>)
       ELSE UNCHANGED idle /\ Goto(Idler, "next")
    /\ UNCHANGED <<mode, flags, dontdistridlehack, held, lines, resp, bounds>>

\* A slip: a stopped thread goes on.
NextRoundAnyway ==
    /\ pc[Idler] = "next"
    /\ idle' = [idle EXCEPT !.first = idle_cont]
    /\ Goto(Idler, "pause")
    /\ UNCHANGED <<mode, flags, dontdistridlehack, held, lines, resp, bounds>>

NextRound ==
    /\ pc[Idler] = "next"
    /\ idle' = IF idle_cont THEN [idle EXCEPT !.first = TRUE] ELSE [idle EXCEPT !.my_cont = FALSE]
    /\ Goto(Idler, "pause")
    /\ UNCHANGED <<mode, flags, dontdistridlehack, held, lines, resp, bounds>>

Pause ==
    /\ pc[Idler] = "pause"
    /\ Goto(Idler, "loop")
    /\ UNCHANGED <<mode, flags, dontdistridlehack, held, lines, resp, idle, bounds>>

\* A slip: the thread ends and leaves in_idle as it is.
EndSilently ==
    /\ pc[Idler] = "end"
    /\ idle' = [idle EXCEPT !.had_cond = TRUE]
    /\ Goto(Idler, "dead")
    /\ UNCHANGED <<mode, flags, dontdistridlehack, held, lines, resp, bounds>>

End ==
    /\ pc[Idler] = "end"
    /\ idle' = [idle EXCEPT !.had_cond = TRUE]
    /\ in_idle' = FALSE
    /\ Goto(Idler, "dead")
    /\ UNCHANGED <<mode, idle_cont, idle_kill, idle_thread, idle_prefix, dontdistridlehack, held,
                   lines, resp, bounds>>

-----------------------------------------------------------------------------
\* What the callers, the device and the server begin.

CanCall(t, what) == what \in Calls /\ t \in Callers /\ pc[t] = "free" /\ calls > 0

\* A command of a folder or of the store, after which IDLE is started again.
Work(t) ==
    /\ CanCall(t, "work")
    /\ Call(t, <<"cmd", "start", "free">>)
    /\ calls' = calls - 1
    /\ UNCHANGED <<mode, flags, dontdistridlehack, held, lines, resp, idle, news>>

Disconnect(t) ==
    /\ CanCall(t, "down")
    /\ Call(t, <<"down", "free">>)
    /\ calls' = calls - 1
    /\ UNCHANGED <<mode, flags, dontdistridlehack, held, lines, resp, idle, news>>

SetPushEmail(t) ==
    /\ CanCall(t, "push")
    /\ do_push_email' = ~do_push_email
    /\ Call(t, <<IF do_push_email THEN "stop" ELSE "start", "free">>)
    /\ calls' = calls - 1
    /\ UNCHANGED <<online, connected, current_folder, flags, dontdistridlehack, held, lines, resp,
                   idle, news>>

Offline ==
    /\ "offline" \in Calls
    /\ calls > 0
    /\ online' = ~online
    /\ calls' = calls - 1
    /\ UNCHANGED <<connected, current_folder, do_push_email, flags, dontdistridlehack, held,
                   lines, pc, stack, resp, idle, news>>

\* The server speaks in IDLE, and before the answer of a command.
Say(line) ==
    /\ news > 0 /\ connected
    /\ server = "done" \/ answers > 0
    /\ wire' = wire \cup {line}
    /\ news' = news - 1
    /\ UNCHANGED <<mode, flags, dontdistridlehack, held, server, answers, pc, stack, resp, idle,
                   calls>>

StopStep(t) ==
    \/ StoreStop(t) \/ StoreStopPrefix(t) \/ StoreStopDone(t)
    \/ Stop(t) \/ StopT(t) \/ StopJoin(t) \/ StopIdleLock(t) \/ StopPrefix(t) \/ StopEnd(t)

StartStep(t) ==
    \/ Start(t) \/ StartIdleLock(t) \/ StartPrefix(t)
    \/ StartT(t) \/ StartJoin(t) \/ StartNew(t) \/ StartWait(t)

CmdStep(t) ==
    \/ CmdLock(t) \/ CmdOpen(t) \/ CmdAgain(t) \/ CmdWrite(t) \/ CmdRead(t) \/ CmdEnd(t)
    \/ Process(t) \/ Fetched(t)

DownStep(t) == Die(t) \/ DiePrefix(t) \/ Down(t) \/ DownClose(t)

IdleStep ==
    \/ New \/ Loop \/ Begin \/ IdleRealStart \/ Tell \/ Body \/ Cont \/ Clear
    \/ EndBody \/ WriteDONE \/ ReadDONE \/ Unlock \/ After \/ NextRound \/ Pause \/ End

ThreadStep(t) == StopStep(t) \/ StartStep(t) \/ CmdStep(t) \/ DownStep(t)

Next ==
    \/ \E t \in Threads : ThreadStep(t)
    \/ IdleStep
    \/ \E t \in Callers : Work(t) \/ Disconnect(t) \/ SetPushEmail(t)
    \/ Offline
    \/ \E line \in Lines : Say(line)

Spec == Init /\ [][Next]_vars

\* Threads are scheduled, and a lock that is free again and again is obtained:
\* the idle thread sleeps without a lock in every round.  Nobody has to call,
\* and the server need not speak.
FairSpec ==
    /\ Spec
    /\ \A t \in Callers : SF_vars(ThreadStep(t))
    /\ WF_vars(ThreadStep(Idler) \/ IdleStep)

-----------------------------------------------------------------------------
\* Safety.

\* Recursive locks that are taken on some paths, tried on others and released by
\* other functions than took them: who is done has released all that he took,
\* and as often as he took it.
LocksGivenBack ==
    \A t \in Threads : pc[t] \in {"free", "dead"} => \A l \in Locks : held[l][t] = 0

\* in_idle is not left behind by a thread that has ended, unless its creator
\* still waits for it: otherwise start_idle would never start IDLE again.
InIdleHasThread ==
    in_idle /\ pc[Idler] = "dead" => \E t \in Callers : pc[t] = "start_wait"

\* start_idle does not create an idle thread while another one runs, not even
\* after in_idle was cleared under a running thread.
OneIdler == [][pc'[Idler] = "new" => pc[Idler] \in {"dead", "new"}]_vars

\* A thread that goes on idling has ended its last IDLE before it starts one.
RestartsAfterDONE ==
    [][pc[Idler] = "write_idle" /\ pc'[Idler] = "tell" /\ connected /\ idle.had_cond
         => server = "command"]_vars

\* What the idle thread has read about new messages is only given up without
\* handling it or returning it when the thread is being stopped.  (Then it can
\* get lost: idle_cont may become FALSE after it was read for idle_cont TRUE.)
NewsKept ==
    [][resp[Idler] = "exists" /\ resp'[Idler] = "none" /\ pc[Idler] = "loop"
         => idle.retval = "exists" \/ ~idle_cont]_vars

-----------------------------------------------------------------------------
\* Liveness.

\* The locks a thread needs to go on.
Wanted(t) ==
    CASE pc[t] \in {"cmd", "down"} -> {"connect"}
      [] pc[t] = "store_stop_done" /\ idle_prefix -> {"connect"}
      [] pc[t] \in {"stop_t", "start_t"} -> {"t"}
      [] pc[t] \in {"die", "stop_idle", "start_idle"} -> {"idle"}
      [] pc[t] = "store_stop" /\ ~current_folder -> {"idle"}
      [] pc[t] \in {"die_prefix", "stop_prefix", "start_prefix", "store_stop_prefix"} -> {"prefix"}
      [] OTHER -> {}

WaitsFor(t) ==
    {u \in Threads \ {t} : \E l \in Wanted(t) : held[l][u] > 0}
        \cup (IF pc[t] \in {"stop_join", "start_join", "start_wait"} THEN {Idler} ELSE {})

\* Threads that wait for each other.
Circle == \E S \in SUBSET Threads : S # {} /\ \A t \in S : WaitsFor(t) \cap S # {}

\* The creator of a thread that found push e-mail switched off.
Forgotten ==
    /\ pc[Idler] = "dead" /\ in_idle /\ ~idle.had_cond
    /\ \E t \in Callers : pc[t] = "start_wait"

\* A call ends, unless threads wait for each other in a circle or a creator has
\* been forgotten: a stopped or killed thread does end, no wake-up and no
\* release of a lock is missing, and no reader waits for an answer for ever.
CallsEnd == \A t \in Callers : pc[t] # "free" ~> (pc[t] = "free" \/ Circle \/ Forgotten)
=============================================================================
