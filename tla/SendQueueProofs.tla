---------------------------- MODULE SendQueueProofs ----------------------------
(***************************************************************************)
(* The safety of TnyCamelSendQueue, for any messages, any number of        *)
(* workers, any faults, any calls and any number of crashes.               *)
(*                                                                         *)
(* The properties of SendQueue are not inductive as they stand.  IInv adds *)
(* what ties the program counters to the two locks, the header a worker    *)
(* has chosen to the folders, and the deliveries to the ANSWERED flags.    *)
(***************************************************************************)
EXTENDS SendQueue, SeqLemmas, FiniteSetTheorems

\* Where a worker holds sending_lock, where it holds todo_lock, and where header
\* is a message it is busy with.
SendHeld == {"fetch", "fetched", "get", "got", "mark", "synced", "moved"}
TodoHeld == {"listed", "fetched", "synced", "moved"}
Busy == {"get", "got", "transport", "relock", "mark", "synced", "moved"}

\* The program counters say who holds the locks.
LockInv == /\ \A w \in Worker : sendingLock = w <=> pc[w] \in SendHeld
           /\ \A w \in Worker : todoLock = w <=> pc[w] \in TodoHeld

\* Nothing takes the chosen message out of the outbox, and nothing flags it, until
\* the worker lets go of sending_lock.
ChosenInv ==
  /\ \A w \in Worker : pc[w] \in Busy => header[w] # None
  /\ \A w \in Worker : pc[w] \in {"get", "got"} =>
       header[w] \in Waiting /\ header[w] \notin suspended /\ header[w] \notin answered
  /\ \A w \in Worker : pc[w] = "fetched" /\ phase[w] # "queued" => Elements(heads[w]) \subseteq Waiting

\* Without an overlap a worker is alone, and its message is not flagged behind its
\* back while the transport has it.
SingleInv ==
  ~overlap => /\ \A u, v \in Worker : pc[u] # "none" /\ pc[v] # "none" => u = v
              /\ \A w \in Worker : pc[w] = "transport" => header[w] \notin answered

\* The worker has sent its message and not flagged it.
Sent(w) == pc[w] \in {"relock", "mark"} /\ reply[w] = "ok"

\* What was delivered is flagged, or will be by the worker that sent it, and it was
\* delivered once when nothing went wrong.
MarkInv ==
  /\ crashes = 0 => \A m \in Msg : delivered[m] > 0 =>
                      m \in answered \/ \E w \in Worker : Sent(w) /\ header[w] = m
  /\ ~overlap /\ crashes = 0 => \A m \in Msg : delivered[m] <= 1
  /\ \A w \in Worker : Sent(w) \/ pc[w] \in {"synced", "moved"} => delivered[header[w]] > 0

\* The messages that came into the outbox, wherever they are now.
Known == Waiting \cup sentbox \cup removed

\* Workers and the server have only those, and a message comes in once.
KnownInv ==
  /\ \A w \in Worker : header[w] # None => header[w] \in Known
  /\ \A m \in Msg : delivered[m] > 0 => m \in Known
  /\ \A m \in Msg : stage[m] \in {"new", "asked"} => m \notin Known
  /\ \A m \in Msg : main = <<"add", m>> => stage[m] = "new"

IInv == TypeOK /\ LockInv /\ ChosenInv /\ SingleInv /\ MarkInv /\ KnownInv
-----------------------------------------------------------------------------
USE NoneAssumption, BoundAssumption
    DEF vars, folderVars, privVars, lockVars, localVars, callVars, mainVars, historyVars

\* The outbox holds the elements of a sequence.
LEMMA WaitingFacts ==
  ASSUME TypeOK
  PROVE  outbox \in Seq(Msg) /\ Waiting = Elements(outbox) /\ Waiting \subseteq Msg
BY ElementsType DEF TypeOK, Waiting, ToSet, Elements

\* Arithmetic of guint stays in its range.
LEMMA UIntFacts == UInt \in Nat /\ UInt > 0 /\ \A n \in Int : n % UInt \in 0 .. UInt - 1
<1>1. UInt \in Nat /\ UInt > 0
  BY DEF UInt
<1> HIDE DEF UInt
<1> QED BY <1>1

\* The number of sendable headers is a number.
LEMMA SendableFacts ==
  ASSUME TypeOK, NEW w \in Worker
  PROVE  /\ Sendable(w) \subseteq 1 .. Len(heads[w])
         /\ Cardinality(Sendable(w)) \in Nat
<1>1. heads[w] \in Seq(Msg) /\ Len(heads[w]) \in Nat
  BY DEF TypeOK
<1>2. Sendable(w) \subseteq 1 .. Len(heads[w])
  BY <1>1 DEF Sendable
<1>3. IsFiniteSet(1 .. Len(heads[w]))
  BY <1>1, FS_Interval
<1>4. Cardinality(Sendable(w)) \in Nat
  BY <1>2, <1>3, FS_Subset, FS_CardinalityType
<1> QED BY <1>2, <1>4

\* The states of the main loop differ.
LEMMA MainFacts ==
  /\ \A m : <<"idle">> # <<"add", m>>
  /\ \A m, a : <<"cancel", a>> # <<"add", m>>
<1>1. ASSUME NEW m, <<"idle">> = <<"add", m>> PROVE FALSE
  <2>1. <<"idle">>[1] = <<"add", m>>[1]
    BY <1>1
  <2> QED BY <2>1
<1>2. ASSUME NEW m, NEW a, <<"cancel", a>> = <<"add", m>> PROVE FALSE
  <2>1. <<"cancel", a>>[1] = <<"add", m>>[1]
    BY <1>2
  <2> QED BY <2>1
<1> QED BY <1>1, <1>2

\* A step that touches neither the folders, but for synced, nor the workers, but for
\* their calls, keeps IInv.
LEMMA QuietStep ==
  ASSUME IInv, TypeOK',
         UNCHANGED <<outbox, sentbox, suspended, answered, removed, lockVars, pc, header,
                     heads, reply, delivered, overlap, crashes>>,
         \A w \in Worker : phase[w] = "queued" => pc[w] # "fetched" \/ phase'[w] = "queued",
         \A m \in Msg : stage'[m] \in {"new", "asked"} => stage[m] \in {"new", "asked"},
         \A m \in Msg : main' = <<"add", m>> => stage'[m] = "new"
  PROVE  IInv'
<1>1. LockInv'
  BY DEF IInv, LockInv
<1>2. ChosenInv'
  BY DEF IInv, ChosenInv, Waiting
<1>3. SingleInv'
  BY DEF IInv, SingleInv
<1>4. MarkInv'
  BY DEF IInv, MarkInv, Sent
<1>5. KnownInv'
  BY DEF IInv, KnownInv, Known, Waiting
<1> QED BY <1>1, <1>2, <1>3, <1>4, <1>5 DEF IInv

\* A worker goes to another label.  What the label says of the worker held before.
LEMMA GotoStep ==
  ASSUME IInv, TypeOK', LockInv', NEW w \in Worker, NEW label \in PC,
         pc[w] # "none", Goto(w, label),
         UNCHANGED <<outbox, sentbox, suspended, answered, removed, header, heads, reply,
                     delivered, overlap, crashes, stage, main>>,
         \A v \in Worker : v # w => phase'[v] = phase[v],
         label \in Busy => pc[w] \in Busy,
         label \in {"get", "got"} => pc[w] \in {"get", "got"},
         label = "fetched" => phase'[w] = "queued",
         label = "transport" => pc[w] \in {"get", "got"},
         label \in {"relock", "mark"} => pc[w] \in {"relock", "mark"} \/ reply[w] # "ok",
         label \in {"synced", "moved"} => pc[w] \in {"synced", "moved"},
         Sent(w) => label \in {"relock", "mark"}
  PROVE  IInv'
<1>1. pc'[w] = label /\ \A v \in Worker : v # w => pc'[v] = pc[v]
  BY DEF IInv, TypeOK, Goto
<1>2. ChosenInv'
  BY <1>1 DEF IInv, ChosenInv, Waiting
<1>3. SingleInv'
  BY <1>1 DEF IInv, SingleInv, ChosenInv
<1>4. MarkInv'
  <2>1. \A v \in Worker : Sent(v)' <=> Sent(v)
    BY <1>1 DEF Sent
  <2>2. \A v \in Worker : pc'[v] \in {"synced", "moved"} => pc[v] \in {"synced", "moved"}
    BY <1>1
  <2> QED BY <2>1, <2>2 DEF IInv, MarkInv
<1>5. KnownInv'
  BY DEF IInv, KnownInv, Known, Waiting
<1> QED BY <1>2, <1>3, <1>4, <1>5 DEF IInv

-----------------------------------------------------------------------------
(* The application and the main loop.                                      *)

\* A message is given to the queue.
LEMMA AddAsyncStep == ASSUME IInv, NEW m \in Msg, AddAsync(m) PROVE IInv'
<1> USE DEF AddAsync
<1>1. TypeOK'
  BY DEF IInv, TypeOK
<1>2. \A n \in Msg : stage'[n] \in {"new", "asked"} => stage[n] \in {"new", "asked"}
  BY DEF IInv, TypeOK
<1>3. \A n \in Msg : main # <<"add", n>>
  BY MainFacts DEF Idle
<1> QED BY <1>1, <1>2, <1>3, QuietStep

\* The application asks for one to be added, and waits for todo_lock.
LEMMA AddCallStep == ASSUME IInv, NEW m \in Msg, AddCall(m) PROVE IInv'
<1> USE DEF AddCall
<1>1. TypeOK'
  BY DEF IInv, TypeOK, MainState
<1>2. \A n \in Msg : main' = <<"add", n>> => stage'[n] = "new"
  <2>1. \A n \in Msg : <<"add", m>> = <<"add", n>> => m = n
    OBVIOUS
  <2> QED BY <2>1
<1> QED BY <1>1, <1>2, QuietStep

\* It got the lock.
LEMMA AddRunStep == ASSUME IInv, NEW m \in Msg, AddRun(m) PROVE IInv'
<1> USE DEF AddRun
<1>1. TypeOK'
  BY DEF IInv, TypeOK, MainState
<1>2. stage[m] = "new"
  BY DEF IInv, KnownInv
<1>3. \A n \in Msg : stage'[n] \in {"new", "asked"} => stage[n] \in {"new", "asked"}
  BY <1>2 DEF IInv, TypeOK
<1>4. \A n \in Msg : main' # <<"add", n>>
  BY MainFacts
<1> QED BY <1>1, <1>3, <1>4, QuietStep

\* The application asks for a cancel, and waits for sending_lock.
LEMMA CancelCallStep == ASSUME IInv, NEW action \in Actions, CancelCall(action) PROVE IInv'
<1> USE DEF CancelCall
<1>1. TypeOK'
  BY DEF IInv, TypeOK, MainState
<1>2. \A n \in Msg : main' # <<"add", n>>
  BY MainFacts
<1> QED BY <1>1, <1>2, QuietStep

\* The device loses the network.
LEMMA GoOfflineStep == ASSUME IInv, GoOffline PROVE IInv'
<1> USE DEF GoOffline
<1>1. TypeOK'
  BY DEF IInv, TypeOK
<1> QED BY <1>1, QuietStep DEF IInv, KnownInv

\* Somebody else asks for the headers of the outbox.
LEMMA ShowOutboxStep == ASSUME IInv, ShowOutbox PROVE IInv'
<1> USE DEF ShowOutbox, GetHeadersWithdraws
<1>1. TypeOK'
  BY DEF IInv, TypeOK
<1> QED BY <1>1, QuietStep DEF IInv, KnownInv

\* The callback a worker waits for runs.
LEMMA CallbackStep == ASSUME IInv, NEW w \in Worker, Callback(w) PROVE IInv'
<1> USE DEF Callback
<1>1. phase' \in [Worker -> {"idle", "queued", "done"}]
  BY DEF IInv, TypeOK
<1>2. notifies' \subseteq Msg
  <2>1. CASE pc[w] = "moved" /\ reply[w] = "ok"
    <3>1. header[w] \in Msg
      BY <2>1 DEF IInv, TypeOK, ChosenInv, Busy
    <3> QED BY <2>1, <3>1 DEF IInv, TypeOK
  <2>2. CASE ~(pc[w] = "moved" /\ reply[w] = "ok")
    BY <2>2 DEF IInv, TypeOK
  <2> QED BY <2>1, <2>2
<1>3. TypeOK'
  BY <1>1, <1>2 DEF IInv, TypeOK
<1>4. \A v \in Worker : phase[v] = "queued" => phase'[v] = "queued"
  BY DEF IInv, TypeOK
<1> QED BY <1>3, <1>4, QuietStep DEF IInv, KnownInv

\* The application is told of a message that moved.
LEMMA OnMsgSentStep == ASSUME IInv, NEW m \in Msg, OnMsgSent(m) PROVE IInv'
<1> USE DEF OnMsgSent
<1>1. signals' \in Seq({"start", "stop"})
  BY DEF IInv, TypeOK
<1>2. TypeOK'
  BY <1>1 DEF IInv, TypeOK
<1> QED BY <1>2, QuietStep DEF IInv, KnownInv

\* A control signal is emitted, or held back.
LEMMA EmitSignalStep == ASSUME IInv, EmitSignal PROVE IInv'
<1> USE DEF EmitSignal
<1>1. signals' \in Seq({"start", "stop"}) /\ Head(signals) \in {"start", "stop"}
  BY DEF IInv, TypeOK
<1>2. lastSignal' \in {"none", "start", "stop"}
  BY <1>1 DEF IInv, TypeOK
<1>3. TypeOK'
  BY <1>1, <1>2 DEF IInv, TypeOK
<1> QED BY <1>3, QuietStep DEF IInv, KnownInv

\* A worker is created, or not: the rest of the step changes the stage of a message
\* or the network.
LEMMA CreateStep ==
  ASSUME IInv, CreateWorker,
         UNCHANGED <<folderVars, isRunning, notifies, lockVars, localVars, callVars, main,
                     lastSignal, told, delivered, crashes>>,
         stage' \in [Msg -> {"new", "asked", "stored", "failed", "done"}], online' \in BOOLEAN,
         \A m \in Msg : stage'[m] \in {"new", "asked"} => stage[m] \in {"new", "asked"},
         \A m \in Msg : main # <<"add", m>>
  PROVE  IInv'
<1>1. CASE UNCHANGED <<pc, overlap>>
  <2>1. signals' \in Seq({"start", "stop"}) /\ thread' \in Worker \cup {None}
    <3>1. /\ signals \in Seq({"start", "stop"}) /\ thread \in Worker \cup {None}
          /\ Append(signals, "start") \in Seq({"start", "stop"})
          /\ signals \o <<"start", "stop">> \in Seq({"start", "stop"})
      BY DEF IInv, TypeOK
    <3>2. \/ signals' = signals \/ signals' = Append(signals, "start")
          \/ signals' = signals \o <<"start", "stop">>
      BY DEF CreateWorker
    <3>3. thread' = thread \/ thread' \in Worker \/ thread' = None
      BY DEF CreateWorker
    <3> QED BY <3>1, <3>2, <3>3
  <2>2. TypeOK'
    BY <1>1, <2>1 DEF IInv, TypeOK
  <2> QED BY <1>1, <2>2, QuietStep
<1>2. ASSUME NEW w \in Worker, pc[w] = "none", Goto(w, "start"), thread' = w,
             signals' = Append(signals, "start"), overlap' = (overlap \/ Live # {})
      PROVE  IInv'
  <2>1. pc'[w] = "start" /\ \A v \in Worker : v # w => pc'[v] = pc[v]
    BY <1>2 DEF IInv, TypeOK, Goto
  <2>2. overlap' \in BOOLEAN /\ (~overlap' => ~overlap /\ Live = {})
    BY <1>2, Zenon DEF IInv, TypeOK
  <2>3. signals' \in Seq({"start", "stop"})
    BY <1>2 DEF IInv, TypeOK
  <2>4. pc' \in [Worker -> PC]
    BY <1>2 DEF IInv, TypeOK, Goto, PC
  <2>5. TypeOK'
    BY <1>2, <2>2, <2>3, <2>4 DEF IInv, TypeOK
  <2>6. LockInv'
    BY <1>2, <2>1 DEF IInv, LockInv, SendHeld, TodoHeld
  <2>7. ChosenInv'
    BY <2>1 DEF IInv, ChosenInv, Busy, Waiting
  <2>8. SingleInv'
    BY <2>1, <2>2 DEF SingleInv, Live
  <2>9. \A v \in Worker : Sent(v)' <=> Sent(v)
    BY <1>2, <2>1 DEF Sent
  <2>10. MarkInv'
    BY <2>1, <2>2, <2>9 DEF IInv, MarkInv
  <2>11. KnownInv'
    BY DEF IInv, KnownInv, Known, Waiting
  <2> QED BY <2>5, <2>6, <2>7, <2>8, <2>10, <2>11 DEF IInv
<1> QED BY <1>1, <1>2 DEF CreateWorker

\* The observer of an addition starts a worker.
LEMMA OnAddedStep == ASSUME IInv, NEW m \in Msg, OnAdded(m) PROVE IInv'
<1> USE DEF OnAdded
<1>1. stage' \in [Msg -> {"new", "asked", "stored", "failed", "done"}]
  BY DEF IInv, TypeOK
<1>2. \A n \in Msg : stage'[n] \in {"new", "asked"} => stage[n] \in {"new", "asked"}
  BY DEF IInv, TypeOK
<1>3. \A n \in Msg : main # <<"add", n>>
  BY MainFacts DEF Idle
<1>4. online \in BOOLEAN
  BY DEF IInv, TypeOK
<1>5. CASE stage[m] = "stored"
  BY <1>1, <1>2, <1>3, <1>4, <1>5, CreateStep
<1>6. CASE stage[m] # "stored"
  <2>1. TypeOK'
    BY <1>1, <1>6 DEF IInv, TypeOK
  <2> QED BY <1>2, <1>3, <1>6, <2>1, QuietStep
<1> QED BY <1>5, <1>6

\* The application starts one.
LEMMA FlushStep == ASSUME IInv, Flush PROVE IInv'
<1> USE DEF Flush
<1>1. \A n \in Msg : main # <<"add", n>>
  BY MainFacts DEF Idle
<1>2. /\ stage' \in [Msg -> {"new", "asked", "stored", "failed", "done"}]
      /\ online' \in BOOLEAN
  BY DEF IInv, TypeOK
<1> QED BY <1>1, <1>2, CreateStep

\* So does the return of the network.
LEMMA GoOnlineStep == ASSUME IInv, GoOnline PROVE IInv'
<1> USE DEF GoOnline
<1>1. \A n \in Msg : main # <<"add", n>>
  BY MainFacts DEF Idle
<1>2. /\ stage' \in [Msg -> {"new", "asked", "stored", "failed", "done"}]
      /\ online' \in BOOLEAN
  BY DEF IInv, TypeOK
<1> QED BY <1>1, <1>2, CreateStep

-----------------------------------------------------------------------------
(* The folders.                                                            *)

\* A message is stored in the outbox, or cannot be.
LEMMA StoreMsgStep == ASSUME IInv, NEW m \in Msg, StoreMsg(m) PROVE IInv'
<1> USE DEF StoreMsg
<1>1. /\ Append(outbox, m) \in Seq(Msg)
      /\ Elements(Append(outbox, m)) = Waiting \cup {m}
  BY WaitingFacts, AppendElements DEF IInv
<1>2. TypeOK'
  BY <1>1 DEF IInv, TypeOK
<1>3. Waiting \subseteq Waiting' /\ Waiting' \subseteq Waiting \cup {m}
  <2>1. Waiting' = Elements(outbox')
    <3>1. (TypeOK => Waiting = Elements(outbox))'
      BY WaitingFacts, PTL
    <3> QED BY <3>1, <1>2
  <2>2. Waiting = Elements(outbox)
    BY WaitingFacts DEF IInv
  <2> QED BY <1>1, <2>1, <2>2
<1>4. stage'[m] \notin {"new", "asked"} /\ \A n \in Msg : n # m => stage'[n] = stage[n]
  BY DEF IInv, TypeOK
<1>5. LockInv'
  BY DEF IInv, LockInv
<1>6. ChosenInv'
  BY <1>3 DEF IInv, ChosenInv
<1>7. SingleInv'
  BY DEF IInv, SingleInv
<1>8. MarkInv'
  BY DEF IInv, MarkInv, Sent
<1>9. KnownInv'
  <2>1. Known \subseteq Known' /\ Known' \subseteq Known \cup {m}
    BY <1>3 DEF Known
  <2>2. main # <<"add", m>>
    BY DEF IInv, KnownInv
  <2>3. \A n \in Msg : main' = <<"add", n>> => stage'[n] = "new"
    BY <1>4, <2>2 DEF IInv, KnownInv
  <2>4. \A n \in Msg : stage'[n] \in {"new", "asked"} => n \notin Known'
    BY <1>4, <2>1 DEF IInv, KnownInv
  <2> QED BY <2>1, <2>3, <2>4 DEF IInv, KnownInv
<1> QED BY <1>2, <1>5, <1>6, <1>7, <1>8, <1>9 DEF IInv

\* A cancel removes or suspends what is in the outbox; no worker holds sending_lock,
\* so that none has a message of it in hand.
LEMMA CancelRunStep == ASSUME IInv, NEW action \in Actions, CancelRun(action) PROVE IInv'
<1> USE DEF CancelRun, CancelOutbox
<1>1. \A w \in Worker : pc[w] \notin SendHeld
  BY DEF IInv, LockInv
<1>2. outbox' \in Seq(Msg) /\ suspended' \subseteq Msg /\ removed' \subseteq Msg
  <2>1. /\ outbox \in Seq(Msg) /\ <<>> \in Seq(Msg) /\ Waiting \subseteq Msg
        /\ suspended \subseteq Msg /\ removed \subseteq Msg
    BY EmptySeq, WaitingFacts DEF IInv, TypeOK
  <2>2. outbox' = outbox \/ outbox' = <<>>
    OBVIOUS
  <2>3. suspended' = suspended \/ suspended' = suspended \cup Waiting
    OBVIOUS
  <2>4. removed' = removed \/ removed' = removed \cup Waiting
    OBVIOUS
  <2> QED BY <2>1, <2>2, <2>3, <2>4
<1>3. main' \in MainState
  BY DEF MainState
<1>4. TypeOK'
  BY <1>2, <1>3 DEF IInv, TypeOK
<1>5. LockInv'
  BY DEF IInv, LockInv
<1>6. ChosenInv'
  BY <1>1 DEF IInv, ChosenInv, SendHeld
<1>7. SingleInv'
  BY DEF IInv, SingleInv
<1>8. MarkInv'
  BY DEF IInv, MarkInv, Sent
<1>9. KnownInv'
  <2>1. \/ Waiting' = Waiting /\ removed' = removed
        \/ Waiting' = {} /\ removed' = removed \cup Waiting
    <3>1. outbox' = <<>> => Waiting' = {}
      BY EmptyElements DEF Waiting, ToSet, Elements
    <3> QED BY <3>1 DEF Waiting
  <2>2. Known' = Known
    BY <2>1 DEF Known
  <2>3. \A n \in Msg : main' # <<"add", n>>
    BY MainFacts
  <2> QED BY <2>2, <2>3 DEF IInv, KnownInv
<1> QED BY <1>4, <1>5, <1>6, <1>7, <1>8, <1>9 DEF IInv

\* The headers are fetched, or not, or the call was withdrawn.
LEMMA ServeHeadersStep ==
  ASSUME IInv, NEW w \in Worker, Serve(w), ServeHeaders(w) PROVE IInv'
<1> USE DEF Serve, ServeHeaders, MayFail
<1>1. /\ Reverse(outbox) \in Seq(Msg)
      /\ Elements(Reverse(outbox)) \subseteq Waiting
  BY WaitingFacts, ReverseElements DEF IInv
<1>2. PICK r \in {"ok", "err"}, h \in {Reverse(outbox), <<>>} :
        reply' = [reply EXCEPT ![w] = r] /\ heads' = [heads EXCEPT ![w] = h]
  OBVIOUS
<1>3. h \in Seq(Msg) /\ Elements(h) \subseteq Waiting
  BY <1>1, EmptyElements, EmptySeq
<1>4. TypeOK'
  BY <1>2, <1>3 DEF IInv, TypeOK
<1>5. /\ \A v \in Worker : v # w => heads'[v] = heads[v] /\ reply'[v] = reply[v] /\ phase'[v] = phase[v]
      /\ heads'[w] = h
  BY <1>2, <1>3 DEF IInv, TypeOK
<1>6. LockInv'
  BY DEF IInv, LockInv
<1>7. ChosenInv'
  BY <1>3, <1>5 DEF IInv, ChosenInv, Waiting
<1>8. SingleInv'
  BY DEF IInv, SingleInv
<1>9. MarkInv'
  <2>1. \A v \in Worker : Sent(v)' <=> Sent(v)
    BY <1>5 DEF Sent
  <2> QED BY <2>1 DEF IInv, MarkInv
<1>10. KnownInv'
  BY DEF IInv, KnownInv, Known, Waiting
<1> QED BY <1>4, <1>6, <1>7, <1>8, <1>9, <1>10 DEF IInv

\* The message is fetched, or not.
LEMMA ServeMsgStep == ASSUME IInv, NEW w \in Worker, Serve(w), ServeMsg(w) PROVE IInv'
<1> USE DEF Serve, ServeMsg, MayFail
<1>1. TypeOK'
  BY DEF IInv, TypeOK
<1>2. \A v \in Worker : v # w => reply'[v] = reply[v] /\ phase'[v] = phase[v]
  BY DEF IInv, TypeOK
<1>3. LockInv'
  BY DEF IInv, LockInv
<1>4. ChosenInv'
  BY <1>2 DEF IInv, ChosenInv, Waiting
<1>5. SingleInv'
  BY DEF IInv, SingleInv
<1>6. MarkInv'
  <2>1. \A v \in Worker : Sent(v)' <=> Sent(v)
    BY <1>2 DEF Sent
  <2> QED BY <2>1 DEF IInv, MarkInv
<1>7. KnownInv'
  BY DEF IInv, KnownInv, Known, Waiting
<1> QED BY <1>1, <1>3, <1>4, <1>5, <1>6, <1>7 DEF IInv

\* The flags are written, or not.
LEMMA ServeSyncStep == ASSUME IInv, NEW w \in Worker, Serve(w), ServeSync(w) PROVE IInv'
<1> USE DEF Serve, ServeSync
<1>1. synced' = answered \/ synced' = synced
  OBVIOUS
<1>2. TypeOK'
  BY <1>1 DEF IInv, TypeOK
<1>3. \A v \in Worker : phase[v] = "queued" => pc[v] # "fetched" \/ phase'[v] = "queued"
  BY DEF IInv, TypeOK
<1> QED BY <1>2, <1>3, QuietStep DEF IInv, KnownInv

\* The worker's message goes to the sentbox; nobody else has one in hand.
LEMMA MoveFacts ==
  ASSUME IInv, NEW w \in Worker, ServeTransfer(w)
  PROVE  /\ outbox' \in Seq(Msg) /\ sentbox' \subseteq Msg
         /\ header[w] \in Msg
         /\ \/ outbox' = outbox /\ sentbox' = sentbox
            \/ /\ sentbox' = sentbox \cup {header[w]} /\ header[w] \in Waiting
               /\ Waiting' \subseteq Waiting /\ Waiting \subseteq Waiting' \cup {header[w]}
<1> USE DEF ServeTransfer
<1>1. header[w] \in Msg
  BY DEF IInv, TypeOK, ChosenInv, Busy
<1>2. CASE outbox' = outbox /\ sentbox' = sentbox
  BY <1>1, <1>2 DEF IInv, TypeOK
<1>3. CASE /\ sentbox' = sentbox \cup {header[w]} /\ header[w] \in Waiting
           /\ \E n \in DOMAIN outbox : outbox[n] = header[w] /\ outbox' = RemoveAt(outbox, n)
  <2>1. PICK n \in 1 .. Len(outbox) : outbox[n] = header[w] /\ outbox' = RemoveAt(outbox, n)
    BY <1>3, WaitingFacts DEF IInv
  <2>2. outbox \in Seq(Msg) /\ Waiting = Elements(outbox)
    BY WaitingFacts DEF IInv
  <2>3. /\ outbox' \in Seq(Msg) /\ Elements(outbox') \subseteq Waiting
        /\ Waiting \subseteq Elements(outbox') \cup {header[w]}
    BY <2>1, <2>2, RemoveAtKeeps
  <2>4. Waiting' = Elements(outbox')
    BY <2>3 DEF Waiting, ToSet, Elements
  <2>5. sentbox' \subseteq Msg
    BY <1>1, <1>3 DEF IInv, TypeOK
  <2> QED BY <1>1, <1>3, <2>3, <2>4, <2>5
<1> QED BY <1>2, <1>3

\* The move keeps what ties the folders to the workers together.
LEMMA ServeTransferStep ==
  ASSUME IInv, NEW w \in Worker, Serve(w), ServeTransfer(w) PROVE IInv'
<1> USE DEF Serve
<1>1. /\ pc[w] = "moved"
      /\ UNCHANGED <<heads, suspended, answered, synced, removed>>
      /\ reply' \in [Worker -> {"ok", "err"}]
      /\ \A v \in Worker : v # w => reply'[v] = reply[v] /\ phase'[v] = phase[v]
  BY DEF IInv, TypeOK, ServeTransfer
<1>2. TypeOK'
  BY <1>1, MoveFacts DEF IInv, TypeOK
<1>3. LockInv'
  BY DEF IInv, LockInv
<1>4. \A v \in Worker : v # w => pc[v] \notin SendHeld
  BY <1>1 DEF IInv, LockInv, SendHeld
<1>5. ChosenInv'
  BY <1>1, <1>4 DEF IInv, ChosenInv, SendHeld
<1>6. SingleInv'
  BY <1>1 DEF IInv, SingleInv
<1>7. MarkInv'
  <2>1. \A v \in Worker : Sent(v)' <=> Sent(v)
    BY <1>1 DEF Sent
  <2> QED BY <1>1, <2>1 DEF IInv, MarkInv
<1>8. KnownInv'
  <2>1. Known' = Known
    BY <1>1, MoveFacts DEF Known, Waiting
  <2> QED BY <2>1 DEF IInv, KnownInv
<1> QED BY <1>2, <1>3, <1>5, <1>6, <1>7, <1>8 DEF IInv

\* The folder's queue serves a call.
LEMMA ServeStep == ASSUME IInv, NEW w \in Worker, Serve(w) PROVE IInv'
BY ServeHeadersStep, ServeMsgStep, ServeSyncStep, ServeTransferStep DEF Serve

-----------------------------------------------------------------------------
(* The worker.                                                             *)

\* The worker sets is_running.
LEMMA StartStep == ASSUME IInv, NEW w \in Worker, Start(w) PROVE IInv'
<1> USE DEF Start
<1>1. "list" \in PC
  BY DEF PC
<1>2. TypeOK'
  BY <1>1 DEF IInv, TypeOK, Goto
<1>3. LockInv'
  BY DEF IInv, TypeOK, LockInv, SendHeld, TodoHeld, Goto
<1> QED BY <1>1, <1>2, <1>3, GotoStep DEF Busy, Sent

\* The worker takes todo_lock and asks for the headers.
LEMMA ListStep == ASSUME IInv, NEW w \in Worker, List(w) PROVE IInv'
<1> USE DEF List, Ask
<1>1. "listed" \in PC
  BY DEF PC
<1>2. TypeOK'
  BY <1>1 DEF IInv, TypeOK, Goto
<1>3. LockInv'
  BY DEF IInv, TypeOK, LockInv, SendHeld, TodoHeld, Goto
<1>4. \A v \in Worker : v # w => phase'[v] = phase[v]
  BY DEF IInv, TypeOK
<1> QED BY <1>1, <1>2, <1>3, <1>4, GotoStep DEF Busy, Sent

\* It knows how many there are, or the call failed.
LEMMA ListedStep == ASSUME IInv, NEW w \in Worker, Listed(w) PROVE IInv'
<1> USE DEF Listed
<1>1. PICK label \in {"end", "while"} : Goto(w, label)
  OBVIOUS
<1>2. label \in PC
  BY DEF PC
<1>3. length' \in [Worker -> 0 .. UInt - 1]
  <2>1. Len(heads[w]) % UInt \in 0 .. UInt - 1
    BY UIntFacts DEF IInv, TypeOK
  <2> QED BY <2>1 DEF IInv, TypeOK
<1>4. TypeOK'
  BY <1>1, <1>2, <1>3 DEF IInv, TypeOK, Goto
<1>5. LockInv'
  BY <1>1 DEF IInv, TypeOK, LockInv, SendHeld, TodoHeld, Goto
<1> QED BY <1>1, <1>2, <1>4, <1>5, GotoStep DEF Busy, Sent

\* It looks at the condition of the loop.
LEMMA WhileStep == ASSUME IInv, NEW w \in Worker, While(w) PROVE IInv'
<1> USE DEF While
<1>1. PICK label \in {"lock", "end"} : Goto(w, label)
  OBVIOUS
<1>2. label \in PC
  BY DEF PC
<1>3. TypeOK'
  BY <1>1, <1>2 DEF IInv, TypeOK, Goto
<1>4. LockInv'
  BY <1>1 DEF IInv, TypeOK, LockInv, SendHeld, TodoHeld, Goto
<1> QED BY <1>1, <1>2, <1>3, <1>4, GotoStep DEF Busy, Sent

\* It takes sending_lock.
LEMMA LockStep == ASSUME IInv, NEW w \in Worker, Lock(w) PROVE IInv'
<1> USE DEF Lock
<1>1. "fetch" \in PC
  BY DEF PC
<1>2. TypeOK'
  BY <1>1 DEF IInv, TypeOK, Goto
<1>3. LockInv'
  BY DEF IInv, TypeOK, LockInv, SendHeld, TodoHeld, Goto
<1> QED BY <1>1, <1>2, <1>3, GotoStep DEF Busy, Sent

\* It asks for the headers again, unless the network is gone.
LEMMA FetchStep == ASSUME IInv, NEW w \in Worker, Fetch(w) PROVE IInv'
<1> USE DEF Fetch, Ask
<1>1. PICK label \in {"fetched", "end"} :
        Goto(w, label) /\ (label = "fetched" <=> online)
  OBVIOUS
<1>2. label \in PC
  BY DEF PC
<1>3. TypeOK'
  <2>1. /\ phase' \in [Worker -> {"idle", "queued", "done"}] /\ withdrawn' \subseteq Worker
        /\ isRunning' \in BOOLEAN /\ sendingLock' \in Worker \cup {None}
        /\ todoLock' \in Worker \cup {None}
    BY DEF IInv, TypeOK
  <2>2. pc' \in [Worker -> PC]
    BY <1>1, <1>2 DEF IInv, TypeOK, Goto
  <2> QED BY <2>1, <2>2 DEF IInv, TypeOK
<1>4. LockInv'
  BY <1>1 DEF IInv, TypeOK, LockInv, SendHeld, TodoHeld, Goto
<1>5. /\ \A v \in Worker : v # w => phase'[v] = phase[v]
      /\ label = "fetched" => phase'[w] = "queued"
  BY <1>1 DEF IInv, TypeOK
<1> QED BY <1>1, <1>2, <1>3, <1>4, <1>5, GotoStep DEF Busy, Sent

\* It asks for the message, unless the network is gone.
LEMMA GetStep == ASSUME IInv, NEW w \in Worker, Get(w) PROVE IInv'
<1> USE DEF Get, Ask
<1>1. PICK label \in {"got", "end"} : Goto(w, label) /\ (label = "got" <=> online)
  OBVIOUS
<1>2. label \in PC
  BY DEF PC
<1>3. TypeOK'
  <2>1. /\ phase' \in [Worker -> {"idle", "queued", "done"}] /\ withdrawn' \subseteq Worker
        /\ isRunning' \in BOOLEAN /\ sendingLock' \in Worker \cup {None}
        /\ todoLock' \in Worker \cup {None}
    BY DEF IInv, TypeOK
  <2>2. pc' \in [Worker -> PC]
    BY <1>1, <1>2 DEF IInv, TypeOK, Goto
  <2> QED BY <2>1, <2>2 DEF IInv, TypeOK
<1>4. LockInv'
  BY <1>1 DEF IInv, TypeOK, LockInv, SendHeld, TodoHeld, Goto
<1>5. \A v \in Worker : v # w => phase'[v] = phase[v]
  BY DEF IInv, TypeOK
<1> QED BY <1>1, <1>2, <1>3, <1>4, <1>5, GotoStep DEF Busy, Sent

\* A message that could not be had has failed.
LEMMA GotStep == ASSUME IInv, NEW w \in Worker, Got(w) PROVE IInv'
<1> USE DEF Got
<1>1. PICK label \in {"transport", "mark"} :
        Goto(w, label) /\ (label = "transport" <=> reply[w] = "ok")
  OBVIOUS
<1>2. label \in PC
  BY DEF PC
<1>3. header[w] \in Msg
  BY DEF IInv, TypeOK, ChosenInv, Busy
<1>4. failed' \in [Worker -> SUBSET Msg]
  <2>1. failed \in [Worker -> SUBSET Msg] /\ failed[w] \cup {header[w]} \subseteq Msg
    BY <1>3 DEF IInv, TypeOK
  <2>2. failed' = failed \/ failed' = [failed EXCEPT ![w] = failed[w] \cup {header[w]}]
    OBVIOUS
  <2> QED BY <2>1, <2>2
<1>5. TypeOK'
  BY <1>1, <1>2, <1>4 DEF IInv, TypeOK, Goto
<1>6. LockInv'
  BY <1>1 DEF IInv, TypeOK, LockInv, SendHeld, TodoHeld, Goto
<1> QED BY <1>1, <1>2, <1>5, <1>6, GotoStep DEF Busy, Sent

\* It takes sending_lock back from whoever had it meanwhile.
LEMMA RelockStep == ASSUME IInv, NEW w \in Worker, Relock(w) PROVE IInv'
<1> USE DEF Relock
<1>1. "mark" \in PC
  BY DEF PC
<1>2. header[w] \in Msg
  BY DEF IInv, TypeOK, ChosenInv, Busy
<1>3. TypeOK'
  BY <1>1, <1>2 DEF IInv, TypeOK, Goto
<1>4. LockInv'
  BY DEF IInv, TypeOK, LockInv, SendHeld, TodoHeld, Goto
<1> QED BY <1>1, <1>3, <1>4, GotoStep DEF Busy, Sent

\* It goes on from the sync to the transfer.
LEMMA SyncedStep == ASSUME IInv, NEW w \in Worker, Synced(w) PROVE IInv'
<1> USE DEF Synced, Ask
<1>1. "moved" \in PC
  BY DEF PC
<1>2. TypeOK'
  BY <1>1 DEF IInv, TypeOK, Goto
<1>3. LockInv'
  BY DEF IInv, TypeOK, LockInv, SendHeld, TodoHeld, Goto
<1>4. \A v \in Worker : v # w => phase'[v] = phase[v]
  BY DEF IInv, TypeOK
<1> QED BY <1>1, <1>2, <1>3, <1>4, GotoStep DEF Busy, Sent

\* It releases both locks, and length is decremented.
LEMMA MovedStep == ASSUME IInv, NEW w \in Worker, Moved(w) PROVE IInv'
<1> USE DEF Moved
<1>1. "while" \in PC
  BY DEF PC
<1>2. length' \in [Worker -> 0 .. UInt - 1]
  <2>1. length[w] \in 0 .. UInt - 1
    BY DEF IInv, TypeOK
  <2>2. length[w] - 1 \in Int
    BY <2>1, UIntFacts
  <2>3. (length[w] - 1) % UInt \in 0 .. UInt - 1
    BY <2>2, UIntFacts
  <2> QED BY <2>3 DEF IInv, TypeOK
<1>3. TypeOK'
  BY <1>1, <1>2 DEF IInv, TypeOK, Goto
<1>4. LockInv'
  BY DEF IInv, TypeOK, LockInv, SendHeld, TodoHeld, Goto
<1> QED BY <1>1, <1>3, <1>4, GotoStep DEF Busy, Sent

\* It leaves its thread.
LEMMA EndStep == ASSUME IInv, NEW w \in Worker, End(w) PROVE IInv'
<1> USE DEF End
<1>1. "stop" \in PC
  BY DEF PC
<1>2. TypeOK'
  BY <1>1 DEF IInv, TypeOK, Goto
<1>3. LockInv'
  BY DEF IInv, TypeOK, LockInv, SendHeld, TodoHeld, Goto
<1> QED BY <1>1, <1>2, <1>3, GotoStep DEF Busy, Sent

\* The first sendable message is in the outbox, and neither suspended nor flagged.
LEMMA FetchedStep == ASSUME IInv, NEW w \in Worker, Fetched(w) PROVE IInv'
<1>1. /\ pc[w] = "fetched" /\ phase[w] # "queued" /\ todoLock' = None
      /\ UNCHANGED <<folderVars, thread, notifies, failed, callVars, mainVars, historyVars>>
  BY DEF Fetched, Answered
<1>2. length' \in [Worker -> 0 .. UInt - 1]
  <2>1. Cardinality(Sendable(w)) % UInt \in 0 .. UInt - 1
    BY SendableFacts, UIntFacts DEF IInv
  <2> QED BY <2>1 DEF IInv, TypeOK, Fetched
<1>3. CASE reply[w] = "err" \/ Sendable(w) = {}
  <2>1. /\ isRunning' = FALSE /\ sendingLock' = None /\ Goto(w, "end") /\ UNCHANGED header
        /\ "end" \in PC
    BY <1>3 DEF Fetched, PC
  <2>2. TypeOK'
    BY <1>1, <1>2, <2>1 DEF IInv, TypeOK, Goto
  <2>3. LockInv'
    BY <1>1, <2>1 DEF IInv, TypeOK, LockInv, SendHeld, TodoHeld, Goto
  <2> QED BY <1>1, <2>1, <2>2, <2>3, GotoStep DEF Busy, Sent
<1>4. CASE ~(reply[w] = "err" \/ Sendable(w) = {})
  <2>1. PICK n \in Sendable(w) : header' = [header EXCEPT ![w] = heads[w][n]]
    BY <1>4 DEF Fetched
  <2>2. n \in 1 .. Len(heads[w]) /\ heads[w][n] \notin suspended /\ heads[w][n] \notin answered
    BY SendableFacts DEF IInv, Sendable
  <2>3. heads[w][n] \in Msg /\ heads[w][n] \in Waiting
    <3>1. heads[w] \in Seq(Msg)
      BY DEF IInv, TypeOK
    <3>2. Elements(heads[w]) \subseteq Waiting
      BY <1>1 DEF IInv, ChosenInv
    <3>3. heads[w][n] \in Elements(heads[w])
      BY <2>2 DEF Elements
    <3> QED BY <2>2, <3>1, <3>2, <3>3
  <2>4. Goto(w, "get") /\ UNCHANGED <<isRunning, sendingLock>> /\ "get" \in PC
    BY <1>4 DEF Fetched, PC
  <2>5. TypeOK'
    BY <1>1, <1>2, <2>1, <2>3, <2>4 DEF IInv, TypeOK, Goto
  <2>6. /\ pc'[w] = "get" /\ \A v \in Worker : v # w => pc'[v] = pc[v]
        /\ header'[w] = heads[w][n] /\ \A v \in Worker : v # w => header'[v] = header[v]
    BY <2>1, <2>4 DEF IInv, TypeOK, Goto
  <2>7. LockInv'
    BY <1>1, <2>4, <2>6 DEF IInv, LockInv, SendHeld, TodoHeld
  <2>8. ChosenInv'
    BY <1>1, <2>2, <2>3, <2>6 DEF IInv, ChosenInv, Busy, Waiting
  <2>9. SingleInv'
    BY <1>1, <2>6 DEF IInv, SingleInv
  <2>10. MarkInv'
    <3>1. \A v \in Worker : Sent(v)' <=> Sent(v)
      BY <1>1, <2>6 DEF Sent
    <3>2. ~Sent(w)
      BY <1>1 DEF Sent
    <3> QED BY <1>1, <2>6, <3>1, <3>2 DEF IInv, MarkInv
  <2>11. KnownInv'
    BY <1>1, <2>3, <2>6 DEF IInv, KnownInv, Known, Waiting
  <2> QED BY <2>5, <2>7, <2>8, <2>9, <2>10, <2>11 DEF IInv
<1> QED BY <1>3, <1>4

\* The server takes the message or not.
LEMMA TransportFacts ==
  ASSUME IInv, NEW w \in Worker, Transport(w)
  PROVE  /\ header[w] \in Msg /\ header[w] \in Known
         /\ ~overlap => header[w] \notin answered
         /\ delivered' \in [Msg -> Nat] /\ reply' \in [Worker -> {"ok", "err"}]
         /\ \A v \in Worker : v # w => reply'[v] = reply[v]
         /\ \/ delivered' = delivered /\ reply'[w] = "err"
            \/ /\ delivered'[header[w]] = delivered[header[w]] + 1 /\ reply'[w] = "ok"
               /\ delivered' = [delivered EXCEPT ![header[w]] = @ + 1]
               /\ \A m \in Msg : m # header[w] => delivered'[m] = delivered[m]
<1> USE DEF Transport, MayFail
<1>1. header[w] \in Msg
  BY DEF IInv, TypeOK, ChosenInv, Busy
<1>2. header[w] \in Known /\ (~overlap => header[w] \notin answered)
  BY <1>1 DEF IInv, KnownInv, SingleInv
<1>3. reply' \in [Worker -> {"ok", "err"}] /\ \A v \in Worker : v # w => reply'[v] = reply[v]
  BY DEF IInv, TypeOK
<1>4. \/ delivered' = delivered /\ reply'[w] = "err"
      \/ reply'[w] = "ok" /\ delivered' = [delivered EXCEPT ![header[w]] = @ + 1]
  BY DEF IInv, TypeOK
<1>5. /\ delivered \in [Msg -> Nat]
      /\ [delivered EXCEPT ![header[w]] = @ + 1] \in [Msg -> Nat]
  <2>1. delivered \in [Msg -> Nat]
    BY Zenon DEF IInv, TypeOK
  <2> QED BY <2>1, <1>1
<1> HIDE DEF Transport, MayFail
<1>6. CASE delivered' = delivered /\ reply'[w] = "err"
  BY <1>1, <1>2, <1>3, <1>5, <1>6
<1>7. CASE reply'[w] = "ok" /\ delivered' = [delivered EXCEPT ![header[w]] = @ + 1]
  BY <1>1, <1>2, <1>3, <1>5, <1>7
<1> QED BY <1>4, <1>6, <1>7

\* The delivery is the worker's to flag, and the first one unless something overlapped.
LEMMA TransportStep == ASSUME IInv, NEW w \in Worker, Transport(w) PROVE IInv'
<1>1. /\ pc[w] = "transport" /\ Goto(w, "relock")
      /\ UNCHANGED <<folderVars, privVars, lockVars, localVars, heads, phase, withdrawn,
                     mainVars, overlap, crashes>>
  BY DEF Transport
<1>2. "relock" \in PC
  BY DEF PC
<1>3. TypeOK'
  BY <1>1, <1>2, TransportFacts DEF IInv, TypeOK, Goto
<1>4. pc'[w] = "relock" /\ \A v \in Worker : v # w => pc'[v] = pc[v]
  BY <1>1 DEF IInv, TypeOK, Goto
<1>5. LockInv'
  BY <1>1, <1>4 DEF IInv, LockInv, SendHeld, TodoHeld
<1>6. ChosenInv'
  BY <1>1, <1>4, TransportFacts DEF IInv, ChosenInv, Busy, Waiting
<1>7. SingleInv'
  BY <1>1, <1>4 DEF IInv, SingleInv
<1>8. MarkInv'
  <2>1. \A v \in Worker : v # w => (Sent(v)' <=> Sent(v))
    BY <1>4, TransportFacts DEF Sent
  <2>2. ~Sent(w) /\ (Sent(w)' <=> reply'[w] = "ok")
    BY <1>1, <1>4 DEF Sent
  <2>3. crashes = 0 => \A m \in Msg : delivered'[m] > 0 =>
                         m \in answered \/ \E v \in Worker : Sent(v)' /\ header[v] = m
    BY <2>1, <2>2, TransportFacts DEF IInv, MarkInv
  <2>4. ~overlap /\ crashes = 0 => \A m \in Msg : delivered'[m] <= 1
    <3> SUFFICES ASSUME ~overlap, crashes = 0 PROVE \A m \in Msg : delivered'[m] <= 1
      OBVIOUS
    <3>1. \A v \in Worker : ~Sent(v)
      BY <1>1, <2>2 DEF IInv, SingleInv, Sent
    <3>2. header[w] \in Msg /\ header[w] \notin answered
      BY TransportFacts
    <3>3. delivered[header[w]] = 0
      <4>1. ~(delivered[header[w]] > 0)
        BY <3>1, <3>2 DEF IInv, MarkInv
      <4>2. delivered[header[w]] \in Nat
        BY <3>2 DEF IInv, TypeOK
      <4> QED BY <4>1, <4>2
    <3> QED BY <3>2, <3>3, TransportFacts DEF IInv, MarkInv
  <2>5. \A v \in Worker : Sent(v)' \/ pc'[v] \in {"synced", "moved"} => delivered'[header[v]] > 0
    <3> SUFFICES ASSUME NEW v \in Worker, Sent(v)' \/ pc'[v] \in {"synced", "moved"}
                 PROVE  delivered'[header[v]] > 0
      OBVIOUS
    <3>1. delivered[header[w]] \in Nat
      BY TransportFacts DEF IInv, TypeOK
    <3>2. CASE v = w
      BY <1>4, <2>2, <3>1, <3>2, TransportFacts
    <3>3. CASE v # w
      <4>1. delivered[header[v]] > 0 /\ pc[v] \in Busy
        BY <1>4, <2>1, <3>3 DEF IInv, MarkInv, Sent, Busy
      <4>2. header[v] \in Msg
        BY <4>1 DEF IInv, TypeOK, ChosenInv
      <4> QED BY <3>1, <4>1, <4>2, TransportFacts
    <3> QED BY <3>2, <3>3
  <2> QED BY <1>1, <2>3, <2>4, <2>5 DEF MarkInv
<1>9. KnownInv'
  <2>1. Known' = Known
    BY <1>1 DEF Known, Waiting
  <2> QED BY <1>1, <2>1, TransportFacts DEF IInv, KnownInv
<1> QED BY <1>3, <1>5, <1>6, <1>7, <1>8, <1>9 DEF IInv

\* The message that went out is flagged, before any lock is released.
LEMMA MarkStep == ASSUME IInv, NEW w \in Worker, Mark(w) PROVE IInv'
<1>1. /\ pc[w] = "mark" /\ todoLock = None
      /\ UNCHANGED <<outbox, sentbox, suspended, synced, removed, privVars, localVars,
                     heads, reply, mainVars, historyVars>>
  BY DEF Mark
<1>2. CASE reply[w] = "ok"
  <2>0. /\ answered' = answered \cup {header[w]} /\ todoLock' = w /\ Goto(w, "synced")
        /\ UNCHANGED sendingLock
        /\ phase' = [phase EXCEPT ![w] = "queued"] /\ withdrawn' = withdrawn \ {w}
    BY <1>2 DEF Mark, Ask
  <2>1. TypeOK'
    <3>1. /\ answered' \subseteq Msg /\ synced \subseteq answered'
      <4>1. header[w] \in Msg
        BY <1>1 DEF IInv, TypeOK, ChosenInv, Busy
      <4> QED BY <2>0, <4>1 DEF IInv, TypeOK
    <3>2. "synced" \in PC
      BY DEF PC
    <3> QED BY <1>1, <2>0, <3>1, <3>2 DEF IInv, TypeOK, Goto
  <2>2. pc'[w] = "synced" /\ \A v \in Worker : v # w => pc'[v] = pc[v]
    BY <2>0 DEF IInv, TypeOK, Goto
  <2>3. \A v \in Worker : v # w => phase'[v] = phase[v]
    BY <2>0 DEF IInv, TypeOK
  <2>4. LockInv'
    BY <1>1, <2>0, <2>2 DEF IInv, LockInv, SendHeld, TodoHeld
  <2>5. \A v \in Worker : v # w => pc[v] \notin SendHeld
    BY <1>1 DEF IInv, LockInv, SendHeld
  <2>6. ChosenInv'
    BY <1>1, <2>0, <2>2, <2>3, <2>5 DEF IInv, ChosenInv, SendHeld, Busy, Waiting
  <2>7. SingleInv'
    BY <1>1, <2>0, <2>2 DEF IInv, SingleInv
  <2>8. MarkInv'
    <3>1. Sent(w) /\ ~Sent(w)' /\ \A v \in Worker : v # w => (Sent(v)' <=> Sent(v))
      BY <1>1, <1>2, <2>2 DEF Sent
    <3>2. crashes = 0 => \A m \in Msg : delivered[m] > 0 =>
                           m \in answered' \/ \E v \in Worker : Sent(v)' /\ header[v] = m
      BY <1>1, <2>0, <3>1 DEF IInv, MarkInv
    <3>3. \A v \in Worker : Sent(v)' \/ pc'[v] \in {"synced", "moved"} => delivered[header[v]] > 0
      BY <2>2, <3>1 DEF IInv, MarkInv
    <3> QED BY <1>1, <3>2, <3>3 DEF IInv, MarkInv
  <2>9. KnownInv'
    BY <1>1 DEF IInv, KnownInv, Known, Waiting
  <2> QED BY <2>1, <2>4, <2>6, <2>7, <2>8, <2>9 DEF IInv
<1>3. CASE reply[w] # "ok"
  <2>1. /\ sendingLock' = None /\ Goto(w, "while") /\ "while" \in PC
        /\ UNCHANGED <<answered, todoLock, phase, withdrawn>>
    BY <1>3 DEF Mark, PC
  <2>2. TypeOK'
    BY <1>1, <2>1 DEF IInv, TypeOK, Goto
  <2>3. LockInv'
    BY <1>1, <2>1 DEF IInv, TypeOK, LockInv, SendHeld, TodoHeld, Goto
  <2> QED BY <1>1, <1>3, <2>1, <2>2, <2>3, GotoStep DEF Busy, Sent
<1> QED BY <1>2, <1>3

\* The thread is gone.
LEMMA StopStep == ASSUME IInv, NEW w \in Worker, Stop(w) PROVE IInv'
<1> USE DEF Stop
<1>1. signals' \in Seq({"start", "stop"})
  BY DEF IInv, TypeOK
<1>2. heads' \in [Worker -> Seq(Msg)]
  BY EmptySeq DEF IInv, TypeOK
<1>3. length' \in [Worker -> 0 .. UInt - 1]
  BY UIntFacts DEF IInv, TypeOK
<1>4. "none" \in PC
  BY DEF PC
<1>5. TypeOK'
  BY <1>1, <1>2, <1>3, <1>4 DEF IInv, TypeOK, Goto
<1>6. /\ pc'[w] = "none" /\ header'[w] = None
      /\ \A v \in Worker : v # w => /\ pc'[v] = pc[v] /\ header'[v] = header[v]
                                    /\ heads'[v] = heads[v] /\ reply'[v] = reply[v]
  BY DEF IInv, TypeOK, Goto
<1>7. LockInv'
  BY <1>6 DEF IInv, LockInv, SendHeld, TodoHeld
<1>8. ChosenInv'
  BY <1>6 DEF IInv, ChosenInv, Busy, Waiting
<1>9. SingleInv'
  BY <1>6 DEF IInv, SingleInv
<1>10. MarkInv'
  <2>1. ~Sent(w) /\ ~Sent(w)' /\ \A v \in Worker : v # w => (Sent(v)' <=> Sent(v))
    BY <1>6 DEF Sent
  <2> QED BY <1>6, <2>1 DEF IInv, MarkInv
<1>11. KnownInv'
  BY <1>6 DEF IInv, KnownInv, Known, Waiting
<1> QED BY <1>5, <1>7, <1>8, <1>9, <1>10, <1>11 DEF IInv

\* A crash leaves the folders, and no worker.
LEMMA CrashStep == ASSUME IInv, Crash PROVE IInv'
<1> USE DEF Crash, Each
<1>1. crashes' \in 0 .. MaxCrashes /\ crashes' # 0
  BY DEF IInv, TypeOK
<1>2. answered' \subseteq Msg /\ synced' \subseteq answered'
  BY DEF IInv, TypeOK
<1>3. /\ "none" \in PC /\ <<>> \in Seq(Msg) /\ <<>> \in Seq({"start", "stop"})
      /\ <<"idle">> \in MainState
  BY EmptySeq DEF PC, MainState
<1>4. TypeOK'
  <2>1. /\ length' \in [Worker -> 0 .. UInt - 1] /\ pc' \in [Worker -> PC]
        /\ failed' \in [Worker -> SUBSET Msg] /\ header' \in [Worker -> Msg \cup {None}]
        /\ heads' \in [Worker -> Seq(Msg)] /\ reply' \in [Worker -> {"ok", "err"}]
        /\ phase' \in [Worker -> {"idle", "queued", "done"}]
    BY <1>3, UIntFacts
  <2>2. stage' \in [Msg -> {"new", "asked", "stored", "failed", "done"}]
    BY DEF IInv, TypeOK
  <2>3. /\ main' \in MainState /\ signals' \in Seq({"start", "stop"})
        /\ lastSignal' \in {"none", "start", "stop"} /\ isRunning' \in BOOLEAN
        /\ thread' \in Worker \cup {None} /\ notifies' \subseteq Msg
        /\ sendingLock' \in Worker \cup {None} /\ todoLock' \in Worker \cup {None}
        /\ withdrawn' \subseteq Worker
    BY <1>3
  <2>4. UNCHANGED <<outbox, sentbox, suspended, removed, online, told, delivered, overlap>>
    OBVIOUS
  <2> HIDE DEF Crash
  <2> QED BY <1>1, <1>2, <2>1, <2>2, <2>3, <2>4 DEF IInv, TypeOK
<1>5. \A w \in Worker : pc'[w] = "none" /\ header'[w] = None
  OBVIOUS
<1>6. LockInv' /\ ChosenInv' /\ SingleInv'
  BY <1>5 DEF LockInv, SendHeld, TodoHeld, ChosenInv, Busy, SingleInv
<1>7. MarkInv'
  BY <1>1, <1>5 DEF MarkInv, Sent
<1>8. KnownInv'
  <2>1. Known' = Known
    BY DEF Known, Waiting
  <2>2. \A m \in Msg : main' # <<"add", m>>
    BY MainFacts
  <2> QED BY <1>5, <2>1, <2>2 DEF IInv, KnownInv
<1> QED BY <1>4, <1>6, <1>7, <1>8 DEF IInv

-----------------------------------------------------------------------------
\* IInv holds at the start.
LEMMA InitIInv == Init => IInv
<1> SUFFICES ASSUME Init PROVE IInv
  OBVIOUS
<1> USE DEF Init, Each
<1>1. /\ "none" \in PC /\ <<>> \in Seq(Msg) /\ <<>> \in Seq({"start", "stop"})
      /\ <<"idle">> \in MainState
  BY EmptySeq DEF PC, MainState
<1>2. TypeOK
  <2>1. /\ length \in [Worker -> 0 .. UInt - 1] /\ pc \in [Worker -> PC]
        /\ failed \in [Worker -> SUBSET Msg] /\ header \in [Worker -> Msg \cup {None}]
        /\ heads \in [Worker -> Seq(Msg)] /\ reply \in [Worker -> {"ok", "err"}]
        /\ phase \in [Worker -> {"idle", "queued", "done"}]
    BY <1>1, UIntFacts
  <2>2. /\ stage \in [Msg -> {"new", "asked", "stored", "failed", "done"}]
        /\ delivered \in [Msg -> Nat] /\ crashes \in 0 .. MaxCrashes
    OBVIOUS
  <2> QED BY <1>1, <2>1, <2>2 DEF TypeOK
<1>3. \A w \in Worker : pc[w] = "none" /\ header[w] = None
  OBVIOUS
<1>4. LockInv /\ ChosenInv /\ SingleInv /\ MarkInv
  BY <1>3 DEF LockInv, SendHeld, TodoHeld, ChosenInv, Busy, SingleInv, MarkInv, Sent
<1>5. KnownInv
  <2>1. Known = {}
    BY WaitingFacts, EmptyElements, <1>2 DEF Known
  <2>2. \A m \in Msg : main # <<"add", m>>
    BY MainFacts
  <2> QED BY <1>3, <2>1, <2>2 DEF KnownInv
<1> QED BY <1>2, <1>4, <1>5 DEF IInv

\* A step that changes nothing.
LEMMA StutterStep == ASSUME IInv, UNCHANGED vars PROVE IInv'
<1>1. TypeOK'
  BY DEF IInv, TypeOK
<1> QED BY <1>1, QuietStep DEF IInv, KnownInv

\* Every step keeps IInv.
LEMMA NextIInv == IInv /\ [Next]_vars => IInv'
<1> SUFFICES ASSUME IInv, [Next]_vars PROVE IInv'
  OBVIOUS
<1>1. CASE Application
  BY <1>1, AddAsyncStep, AddCallStep, CancelCallStep, FlushStep, ShowOutboxStep, GoOfflineStep,
     GoOnlineStep DEF Application
<1>2. CASE Blocked
  BY <1>2, AddRunStep, CancelRunStep DEF Blocked
<1>3. CASE MainLoop
  BY <1>3, CallbackStep, OnAddedStep, OnMsgSentStep, EmitSignalStep DEF MainLoop
<1>4. CASE Crash
  BY <1>4, CrashStep
<1>5. ASSUME NEW m \in Msg, StoreMsg(m) PROVE IInv'
  BY <1>5, StoreMsgStep
<1>6. ASSUME NEW w \in Worker, WorkerStep(w) PROVE IInv'
  BY <1>6, StartStep, ListStep, ListedStep, WhileStep, LockStep, FetchStep, FetchedStep,
     GetStep, GotStep, TransportStep, RelockStep, MarkStep, SyncedStep, MovedStep, EndStep,
     StopStep DEF WorkerStep
<1>7. ASSUME NEW w \in Worker, Serve(w) PROVE IInv'
  BY <1>7, ServeStep
<1>8. CASE UNCHANGED vars
  BY <1>8, StutterStep
<1> QED BY <1>1, <1>2, <1>3, <1>4, <1>5, <1>6, <1>7, <1>8 DEF Next

\* IInv is an invariant of the queue.
THEOREM Invariance == Spec => []IInv
BY InitIInv, NextIInv, PTL DEF Spec

\* The types of the variables; length stays in the range of a guint.
THEOREM TypeCorrect == Spec => []TypeOK
<1>1. IInv => TypeOK
  BY DEF IInv
<1> QED BY <1>1, Invariance, PTL

\* No worker leaves sending_lock or todo_lock behind, on any way out of its loop.
THEOREM NoLockLeft == Spec => []LocksReleased
<1>1. IInv => LocksReleased
  BY DEF IInv, LockInv, SendHeld, TodoHeld, LocksReleased
<1> QED BY <1>1, Invariance, PTL

\* What a worker hands to the server is in the outbox, not suspended and not marked
\* as sent, at the moment it goes.
THEOREM SendsWhatWaits == Spec => SendsWaiting
<1>1. IInv => [\A w \in Worker : pc[w] = "got" /\ pc'[w] = "transport"
                 => header[w] \in Waiting \ (suspended \cup answered)]_vars
  BY DEF IInv, ChosenInv
<1> QED BY <1>1, Invariance, PTL DEF SendsWaiting

\* A message goes out twice only when two workers were there or after a crash.
THEOREM OnceWithoutOverlap == Spec => []DuplicateNeedsOverlap
<1>1. IInv => DuplicateNeedsOverlap
  <2> SUFFICES ASSUME IInv, ~overlap, ~(crashes > 0), NEW m \in Msg PROVE ~(delivered[m] > 1)
    BY DEF DuplicateNeedsOverlap
  <2>1. crashes = 0 /\ delivered[m] \in Nat
    BY DEF IInv, TypeOK
  <2> QED BY <2>1 DEF IInv, MarkInv
<1> QED BY <1>1, Invariance, PTL

\* When no worker is left, a message that went out is accounted for.
THEOREM DeliveredAccounted == Spec => []SentAccounted
<1>1. IInv => SentAccounted
  <2> SUFFICES ASSUME IInv, Live = {}, crashes = 0, NEW m \in Msg, delivered[m] > 0
               PROVE  m \in sentbox \cup removed \cup (Waiting \cap answered)
    BY DEF SentAccounted
  <2>1. \A w \in Worker : ~Sent(w)
    BY DEF Live, Sent
  <2>2. m \in answered
    BY <2>1 DEF IInv, MarkInv
  <2>3. m \in Known
    BY DEF IInv, KnownInv
  <2> QED BY <2>2, <2>3 DEF Known
<1> QED BY <1>1, Invariance, PTL

-----------------------------------------------------------------------------
(* Steps that move or deliver messages.                                    *)

\* Four steps change the folders or deliver.
LEMMA ChangeFacts ==
  ASSUME [Next]_vars
  PROVE  \/ UNCHANGED <<outbox, sentbox, removed, delivered>>
         \/ \E m \in Msg : StoreMsg(m)
         \/ \E action \in Actions : CancelRun(action)
         \/ \E w \in Worker : Serve(w) /\ ServeTransfer(w)
         \/ \E w \in Worker : Transport(w)
<1>1. CASE Application
  BY <1>1 DEF Application, AddAsync, AddCall, CancelCall, Flush, ShowOutbox, GoOffline, GoOnline
<1>2. CASE Blocked
  BY <1>2 DEF Blocked, AddRun
<1>3. CASE MainLoop
  BY <1>3 DEF MainLoop, Callback, OnAdded, OnMsgSent, EmitSignal
<1>4. CASE Crash
  BY <1>4 DEF Crash
<1>5. ASSUME NEW w \in Worker, WorkerStep(w), ~Transport(w)
      PROVE  UNCHANGED <<outbox, sentbox, removed, delivered>>
  BY <1>5 DEF WorkerStep, Start, List, Listed, While, Lock, Fetch, Fetched, Get, Got, Relock,
              Mark, Synced, Moved, End, Stop
<1>6. ASSUME NEW w \in Worker, Serve(w), ~ServeTransfer(w)
      PROVE  UNCHANGED <<outbox, sentbox, removed, delivered>>
  BY <1>6 DEF Serve, ServeHeaders, ServeMsg, ServeSync
<1>7. CASE UNCHANGED vars
  BY <1>7
<1> QED BY <1>1, <1>2, <1>3, <1>4, <1>5, <1>6, <1>7 DEF Next

\* A message whose mark is on disk never goes out again, unless a second worker
\* already had it.
THEOREM SyncedStays == Spec => SyncedNotResent
<1>1. IInv /\ [Next]_vars =>
        [\A m \in Msg : delivered'[m] # delivered[m] => m \notin synced \/ overlap]_vars
  <2> SUFFICES ASSUME IInv, [Next]_vars, NEW m \in Msg, delivered'[m] # delivered[m], ~overlap
               PROVE  m \notin synced
    OBVIOUS
  <2>1. PICK w \in Worker : Transport(w)
    BY ChangeFacts DEF StoreMsg, CancelRun, Serve
  <2>2. m = header[w]
    BY <2>1, TransportFacts
  <2>3. m \notin answered
    BY <2>1, <2>2, TransportFacts
  <2> QED BY <2>3 DEF IInv, TypeOK
<1> QED BY <1>1, Invariance, PTL DEF Spec, SyncedNotResent

-----------------------------------------------------------------------------
(* The refinement of Outbox.                                               *)

places == [m \in Msg |-> PlaceOf(m)]

\* What moves nothing and delivers nothing is no step of the outbox.
LEMMA PlacesFacts == Waiting' = Waiting /\ UNCHANGED <<sentbox, removed>> => places' = places
BY DEF places, PlaceOf

\* The message of a worker that moves it was delivered.
LEMMA TransferMaps ==
  ASSUME IInv, NEW w \in Worker, Serve(w), ServeTransfer(w)
  PROVE  [Box!Next]_<<places, delivered>>
<1>1. pc[w] = "moved" /\ UNCHANGED <<removed, delivered>>
  BY DEF Serve, ServeTransfer
<1>2. PICK m \in Msg : m = header[w] /\ delivered[m] > 0
  BY <1>1, MoveFacts DEF IInv, MarkInv
<1>3. CASE outbox' = outbox /\ sentbox' = sentbox
  BY <1>1, <1>3, PlacesFacts DEF Waiting
<1>4. CASE /\ sentbox' = sentbox \cup {header[w]} /\ header[w] \in Waiting
           /\ Waiting' \subseteq Waiting /\ Waiting \subseteq Waiting' \cup {header[w]}
  <2>1. \A n \in Msg : n # m => PlaceOf(n)' = PlaceOf(n)
    BY <1>1, <1>2, <1>4 DEF PlaceOf
  <2>2. PlaceOf(m)' = "sentbox" /\ PlaceOf(m) \in {"sentbox", "outbox"}
    BY <1>2, <1>4 DEF PlaceOf
  <2>3. CASE PlaceOf(m) = "sentbox"
    BY <1>1, <2>1, <2>2, <2>3 DEF places
  <2>4. CASE PlaceOf(m) = "outbox"
    <3>1. places' = [places EXCEPT ![m] = "sentbox"] /\ places[m] = "outbox"
      BY <1>2, <2>1, <2>2, <2>4 DEF places
    <3> QED BY <1>1, <1>2, <3>1 DEF Box!Next, Box!Move, places
  <2> QED BY <2>2, <2>3, <2>4
<1> QED BY <1>3, <1>4, MoveFacts

\* A message comes into the outbox once.
LEMMA StoreMaps ==
  ASSUME IInv, NEW m \in Msg, StoreMsg(m)
  PROVE  [Box!Next]_<<places, delivered>>
<1>1. UNCHANGED <<sentbox, removed, delivered>> /\ stage[m] = "asked"
  BY DEF StoreMsg
<1>2. CASE outbox' = outbox
  BY <1>1, <1>2, PlacesFacts DEF Waiting
<1>3. CASE outbox' = Append(outbox, m)
  <2>1. Waiting' = Waiting \cup {m}
    <3>1. outbox' \in Seq(Msg) /\ Elements(outbox') = Waiting \cup {m}
      BY <1>3, WaitingFacts, AppendElements DEF IInv
    <3>2. Waiting' = Elements(outbox')
      BY <3>1 DEF Waiting, ToSet, Elements
    <3> QED BY <3>1, <3>2
  <2>2. m \notin Known
    BY <1>1 DEF IInv, KnownInv
  <2>3. PlaceOf(m) = "new" /\ PlaceOf(m)' = "outbox"
    BY <1>1, <2>1, <2>2 DEF PlaceOf, Known
  <2>4. \A n \in Msg : n # m => PlaceOf(n)' = PlaceOf(n)
    BY <1>1, <2>1 DEF PlaceOf
  <2>5. places' = [places EXCEPT ![m] = "outbox"] /\ places[m] = "new"
    BY <2>3, <2>4 DEF places
  <2> QED BY <1>1, <2>5 DEF Box!Next, Box!Move, places
<1> QED BY <1>2, <1>3 DEF StoreMsg

\* A cancel removes what waits, or leaves it there.
LEMMA CancelMaps ==
  ASSUME IInv, NEW action \in Actions, CancelRun(action)
  PROVE  [Box!Next]_<<places, delivered>>
<1>1. UNCHANGED <<sentbox, delivered>>
  BY DEF CancelRun
<1>2. CASE outbox' = outbox /\ removed' = removed
  BY <1>1, <1>2, PlacesFacts DEF Waiting
<1>3. CASE outbox' = <<>> /\ removed' = removed \cup Waiting
  <2> DEFINE M == {m \in Msg : PlaceOf(m) = "outbox"}
  <2>1. Waiting' = {}
    BY <1>3, EmptyElements DEF Waiting, ToSet, Elements
  <2>2. \A m \in Msg : PlaceOf(m)' = IF m \in M THEN "removed" ELSE PlaceOf(m)
    BY <1>1, <1>3, <2>1 DEF PlaceOf
  <2>3. places' = [m \in Msg |-> IF m \in M THEN "removed" ELSE places[m]]
    BY <2>2 DEF places
  <2>4. M \subseteq {m \in Msg : places[m] = "outbox"}
    BY DEF places
  <2> HIDE DEF M
  <2> QED BY <1>1, <2>3, <2>4 DEF Box!Next, Box!Remove, places
<1> QED BY <1>2, <1>3 DEF CancelRun, CancelOutbox

\* Only what came into the outbox is delivered.
LEMMA TransportMaps ==
  ASSUME IInv, NEW w \in Worker, Transport(w)
  PROVE  [Box!Next]_<<places, delivered>>
<1>1. UNCHANGED <<outbox, sentbox, removed>>
  BY DEF Transport
<1>2. places' = places
  BY <1>1, PlacesFacts DEF Waiting
<1>3. header[w] \in Msg /\ places[header[w]] # "new"
  BY TransportFacts DEF places, PlaceOf, Known
<1> QED BY <1>2, <1>3, TransportFacts DEF Box!Next, Box!Deliver, places

\* No message gets lost between the folders, whatever fails, is cancelled or crashes,
\* and none is in the sentbox that was not delivered.
THEOREM KeepsPromise == Spec => ImplementsOutbox
<1>1. Init => Box!Init
  <2> SUFFICES ASSUME Init PROVE Box!Init
    OBVIOUS
  <2>1. Waiting = {} /\ sentbox = {} /\ removed = {}
    BY EmptyElements DEF Init, Waiting, ToSet, Elements
  <2> QED BY <2>1 DEF Init, Box!Init, PlaceOf
<1>2. IInv /\ [Next]_vars => [Box!Next]_<<places, delivered>>
  <2> SUFFICES ASSUME IInv, [Next]_vars PROVE [Box!Next]_<<places, delivered>>
    OBVIOUS
  <2>1. CASE UNCHANGED <<outbox, sentbox, removed, delivered>>
    BY <2>1, PlacesFacts DEF Waiting
  <2> QED BY <2>1, ChangeFacts, StoreMaps, CancelMaps, TransferMaps, TransportMaps
<1> QED BY <1>1, <1>2, Invariance, PTL DEF Spec, ImplementsOutbox, Box!Spec, places

-----------------------------------------------------------------------------
(* What the application is told.                                           *)

\* The worker's message moved and the callback that counts it is still to come.
Moving(w) == pc[w] = "moved" /\ phase[w] = "done" /\ reply[w] = "ok"

\* Every message of the sentbox was announced, or is counted, or will be.
NotifyInv ==
  crashes = 0 => \A m \in sentbox : \/ m \in told \cup notifies
                                    \/ \E w \in Worker : Moving(w) /\ header[w] = m

\* A step that moves nothing, announces nothing, and leaves the moving workers alone.
LEMMA KeepNotify ==
  ASSUME NotifyInv, UNCHANGED <<sentbox, told, notifies, crashes>>,
         \A w \in Worker : Moving(w) => Moving(w)' /\ header'[w] = header[w]
  PROVE  NotifyInv'
BY DEF NotifyInv

\* A worker's own steps come before the transfer or after its callback.
LEMMA WorkerNotify ==
  ASSUME IInv, NotifyInv, NEW w \in Worker, WorkerStep(w)
  PROVE  NotifyInv'
<1>1. UNCHANGED <<sentbox, told, notifies, crashes>> /\ ~Moving(w)
  BY DEF WorkerStep, Start, List, Listed, While, Lock, Fetch, Fetched, Get, Got, Transport,
         Relock, Mark, Synced, Moved, End, Stop, Answered, Moving
<1>2. \A v \in Worker : v # w => pc'[v] = pc[v] /\ phase'[v] = phase[v]
  BY DEF WorkerStep, Start, List, Listed, While, Lock, Fetch, Fetched, Get, Got, Transport,
         Relock, Mark, Synced, Moved, End, Stop, Ask, Goto, IInv, TypeOK
<1>3. \A v \in Worker : v # w => reply'[v] = reply[v] /\ header'[v] = header[v]
  BY DEF WorkerStep, Start, List, Listed, While, Lock, Fetch, Fetched, Get, Got, Transport,
         Relock, Mark, Synced, Moved, End, Stop, IInv, TypeOK
<1> QED BY <1>1, <1>2, <1>3, KeepNotify DEF Moving

\* The transfer leaves its callback to count the message.
LEMMA ServeNotify ==
  ASSUME IInv, NotifyInv, NEW w \in Worker, Serve(w)
  PROVE  NotifyInv'
<1>1. /\ phase[w] = "queued" /\ phase' = [phase EXCEPT ![w] = "done"]
      /\ UNCHANGED <<told, notifies, crashes, header, pc>>
  BY DEF Serve
<1>2. /\ ~Moving(w) /\ phase'[w] = "done"
      /\ \A v \in Worker : v # w => phase'[v] = phase[v] /\ reply'[v] = reply[v]
  BY <1>1 DEF Moving, Serve, ServeHeaders, ServeMsg, ServeSync, ServeTransfer, IInv, TypeOK
<1>3. \A v \in Worker : Moving(v) => Moving(v)'
  BY <1>1, <1>2 DEF Moving
<1>4. \/ sentbox' = sentbox
      \/ sentbox' = sentbox \cup {header[w]} /\ reply'[w] = "ok" /\ pc[w] = "moved"
  <2>1. CASE ServeTransfer(w)
    <3>1. PICK ok \in BOOLEAN :
            /\ reply' = [reply EXCEPT ![w] = IF ok THEN "ok" ELSE "err"]
            /\ sentbox' = IF ok THEN sentbox \cup {header[w]} ELSE sentbox
      BY <2>1, Zenon DEF ServeTransfer
    <3>2. ok => reply'[w] = "ok"
      BY <3>1 DEF IInv, TypeOK
    <3> QED BY <2>1, <3>1, <3>2 DEF ServeTransfer
  <2>2. CASE ~ServeTransfer(w)
    BY <2>2 DEF Serve, ServeHeaders, ServeMsg, ServeSync
  <2> QED BY <2>1, <2>2
<1>5. \/ sentbox' = sentbox
      \/ sentbox' = sentbox \cup {header[w]} /\ Moving(w)'
  BY <1>1, <1>2, <1>4 DEF Moving
<1> QED BY <1>1, <1>3, <1>5 DEF NotifyInv

\* The callback counts the message, and the last notification announces it.
LEMMA MainLoopNotify ==
  ASSUME IInv, NotifyInv, MainLoop
  PROVE  NotifyInv'
<1>1. ASSUME NEW w \in Worker, Callback(w) PROVE NotifyInv'
  <2>1. /\ \A v \in Worker : v # w => phase'[v] = phase[v]
        /\ UNCHANGED <<sentbox, told, crashes, header, pc, reply>>
    BY <1>1 DEF Callback, IInv, TypeOK
  <2>2. \A v \in Worker : v # w => (Moving(v)' <=> Moving(v))
    BY <2>1 DEF Moving
  <2>3. notifies \subseteq notifies' /\ (Moving(w) => header[w] \in notifies')
    BY <1>1 DEF Callback, Moving
  <2> QED BY <2>1, <2>2, <2>3 DEF NotifyInv
<1>2. ASSUME NEW m \in Msg, OnMsgSent(m) PROVE NotifyInv'
  <2>1. /\ told' \cup notifies' = told \cup notifies
        /\ UNCHANGED <<sentbox, crashes, header, pc, phase, reply>>
    BY <1>2 DEF OnMsgSent
  <2> QED BY <2>1 DEF NotifyInv, Moving
<1>3. ASSUME NEW m \in Msg, OnAdded(m) PROVE NotifyInv'
  <2>1. \A w \in Worker : Moving(w) => pc'[w] = pc[w]
    BY <1>3 DEF OnAdded, CreateWorker, Goto, Moving, IInv, TypeOK
  <2>2. UNCHANGED <<sentbox, told, notifies, crashes, header, phase, reply>>
    BY <1>3 DEF OnAdded
  <2> QED BY <2>1, <2>2, KeepNotify DEF Moving
<1>4. CASE EmitSignal
  BY <1>4, KeepNotify DEF EmitSignal, Moving
<1> QED BY <1>1, <1>2, <1>3, <1>4 DEF MainLoop

\* So does every step.
LEMMA NextNotify == IInv /\ NotifyInv /\ [Next]_vars => NotifyInv'
<1> SUFFICES ASSUME IInv, NotifyInv, [Next]_vars PROVE NotifyInv'
  OBVIOUS
<1>1. CASE Application
  <2>1. \A w \in Worker : Moving(w) => pc'[w] = pc[w]
    BY <1>1 DEF Application, AddAsync, AddCall, CancelCall, Flush, ShowOutbox, GoOffline,
                GoOnline, CreateWorker, Goto, Moving, IInv, TypeOK
  <2>2. UNCHANGED <<sentbox, told, notifies, crashes, header, phase, reply>>
    BY <1>1 DEF Application, AddAsync, AddCall, CancelCall, Flush, ShowOutbox, GoOffline,
                GoOnline
  <2> QED BY <2>1, <2>2, KeepNotify DEF Moving
<1>2. CASE Blocked
  BY <1>2, KeepNotify DEF Blocked, AddRun, CancelRun, Moving
<1>3. CASE Crash
  <2>1. crashes' # 0
    BY <1>3 DEF Crash, IInv, TypeOK
  <2> QED BY <2>1 DEF NotifyInv
<1>4. ASSUME NEW m \in Msg, StoreMsg(m) PROVE NotifyInv'
  BY <1>4, KeepNotify DEF StoreMsg, Moving
<1>5. CASE UNCHANGED vars
  BY <1>5, KeepNotify DEF Moving
<1> QED BY <1>1, <1>2, <1>3, <1>4, <1>5, MainLoopNotify, WorkerNotify, ServeNotify DEF Next

\* When no worker is left and the application hears that the queue stopped, it was
\* told of everything that moved.
THEOREM StopComesLast == Spec => StopAfterSent
<1>1. Init => NotifyInv
  BY DEF Init, NotifyInv
<1>2. IInv /\ NotifyInv /\ [Next]_vars =>
        [lastSignal' = "stop" /\ lastSignal # "stop" /\ Live = {} /\ crashes = 0
           => sentbox \subseteq told]_vars
  <2> SUFFICES ASSUME IInv, NotifyInv, [Next]_vars, lastSignal' = "stop", lastSignal # "stop",
                      Live = {}, crashes = 0
               PROVE  sentbox \subseteq told
    OBVIOUS
  <2>1. EmitSignal
    <3>1. ~Crash
      BY DEF Crash
    <3>2. ~Application
      BY DEF Application, AddAsync, AddCall, CancelCall, Flush, ShowOutbox, GoOffline, GoOnline
    <3>3. ~Blocked /\ \A m \in Msg : ~StoreMsg(m) /\ ~OnAdded(m) /\ ~OnMsgSent(m)
      BY DEF Blocked, AddRun, CancelRun, StoreMsg, OnAdded, OnMsgSent
    <3>4. \A w \in Worker : ~Callback(w) /\ ~Serve(w)
      BY DEF Callback, Serve
    <3>5. \A w \in Worker : ~WorkerStep(w)
      BY DEF WorkerStep, Start, List, Listed, While, Lock, Fetch, Fetched, Get, Got, Transport,
             Relock, Mark, Synced, Moved, End, Stop
    <3> QED BY <3>1, <3>2, <3>3, <3>4, <3>5 DEF Next, MainLoop
  <2>2. notifies = {}
    BY <2>1 DEF EmitSignal
  <2>3. \A w \in Worker : ~Moving(w)
    BY DEF Live, Moving
  <2> QED BY <2>2, <2>3 DEF NotifyInv
<1> QED BY <1>1, <1>2, NextNotify, Invariance, PTL DEF Spec, StopAfterSent

-----------------------------------------------------------------------------
(* What is still to be said.                                               *)

\* When the queue is last said to have started, or will be, a worker is there, or
\* notifications wait, the last of which says that it stopped, or the last signal that
\* waits says so.
StopPromised ==
  lastSignal = "start" \/ "start" \in ToSet(signals)
    => \/ Live # {}
       \/ notifies # {}
       \/ signals # <<>> /\ signals[Len(signals)] = "stop"

\* thread is a worker that has not come to its last step.
WorkerInv == thread # None => pc[thread] \notin {"none", "stop"}

\* It waits for the worker that thread stands for.
StopInv == StopPromised /\ WorkerInv

\* A step that emits nothing, counts nothing less, and neither starts nor ends a worker.
LEMMA KeepStop ==
  ASSUME IInv, StopInv, UNCHANGED <<signals, lastSignal, thread>>, notifies \subseteq notifies',
         \A w \in Worker : /\ pc[w] \notin {"none", "stop"} => pc'[w] \notin {"none", "stop"}
                           /\ pc[w] = "stop" => pc'[w] = "stop"
  PROVE  StopInv'
<1>1. WorkerInv'
  BY DEF WorkerInv, StopInv, IInv, TypeOK
<1>2. Live # {} => Live' # {}
  BY DEF Live
<1>3. StopPromised'
  BY <1>2 DEF StopPromised, StopInv
<1> QED BY <1>1, <1>3 DEF StopInv

\* A stop that was just put last is one that is to come.
LEMMA StopLast ==
  ASSUME NEW S, NEW s \in Seq(S), NEW t \in Seq(S), t = Append(s, "stop")
  PROVE  t # <<>> /\ t[Len(t)] = "stop"
OBVIOUS

\* A worker that is started is the thread; one that could not be started says so.
LEMMA CreateStop ==
  ASSUME IInv, StopInv, CreateWorker, UNCHANGED <<notifies, lastSignal>>
  PROVE  StopInv'
<1>1. CASE isRunning /\ UNCHANGED <<thread, pc, signals>>
  BY <1>1, KeepStop
<1>2. ASSUME NEW w \in Worker, Goto(w, "start"), thread' = w
      PROVE  StopInv'
  <2>1. pc'[w] = "start"
    BY <1>2 DEF Goto, IInv, TypeOK
  <2> QED BY <1>2, <2>1 DEF StopInv, StopPromised, WorkerInv, Live
<1>3. ASSUME thread' = None, signals' = signals \o <<"start", "stop">>
      PROVE  StopInv'
  <2>1. signals \in Seq({"start", "stop"})
    BY DEF IInv, TypeOK
  <2>2. signals' # <<>> /\ signals'[Len(signals')] = "stop"
    BY <1>3, <2>1
  <2> QED BY <1>3, <2>2 DEF StopInv, StopPromised, WorkerInv
<1> QED BY <1>1, <1>2, <1>3 DEF CreateWorker

\* The worker's last step says that the queue stopped, or leaves it to the last
\* notification; the step before it forgets the thread.
LEMMA WorkerStop ==
  ASSUME IInv, StopInv, NEW w \in Worker, WorkerStep(w)
  PROVE  StopInv'
<1>1. CASE End(w)
  <2>1. /\ thread' = None /\ pc'[w] = "stop"
        /\ UNCHANGED <<signals, lastSignal, notifies>>
    BY <1>1 DEF End, Goto, IInv, TypeOK
  <2> QED BY <2>1 DEF StopInv, StopPromised, WorkerInv, Live
<1>2. CASE Stop(w)
  <2>1. /\ UNCHANGED <<thread, notifies, lastSignal>>
        /\ signals' = IF notifies = {} THEN Append(signals, "stop") ELSE signals
        /\ pc[w] = "stop" /\ \A v \in Worker : v # w => pc'[v] = pc[v]
    BY <1>2 DEF Stop, Goto, IInv, TypeOK
  <2>2. WorkerInv'
    BY <2>1, NoneAssumption DEF WorkerInv, StopInv, IInv, TypeOK
  <2>3. signals \in Seq({"start", "stop"})
    BY DEF IInv, TypeOK
  <2>4. notifies = {} => signals' # <<>> /\ signals'[Len(signals')] = "stop"
    BY <2>1, <2>3
  <2> QED BY <2>1, <2>2, <2>4 DEF StopInv, StopPromised
<1>3. CASE ~End(w) /\ ~Stop(w)
  <2>1. UNCHANGED <<signals, lastSignal, thread, notifies>>
    BY <1>3 DEF WorkerStep, Start, List, Listed, While, Lock, Fetch, Fetched, Get, Got,
                Transport, Relock, Mark, Synced, Moved
  <2>2. pc[w] \notin {"none", "stop"} /\ pc'[w] \notin {"none", "stop"}
    BY <1>3 DEF WorkerStep, Start, List, Listed, While, Lock, Fetch, Fetched, Get, Got,
                Transport, Relock, Mark, Synced, Moved, Goto, IInv, TypeOK
  <2>3. \A v \in Worker : v # w => pc'[v] = pc[v]
    BY <1>3 DEF WorkerStep, Start, List, Listed, While, Lock, Fetch, Fetched, Get, Got,
                Transport, Relock, Mark, Synced, Moved, Goto, IInv, TypeOK
  <2> QED BY <2>1, <2>2, <2>3, KeepStop
<1> QED BY <1>1, <1>2, <1>3

\* A stop is emitted, or the notifications that hold it back say it in the end.
LEMMA EmitStop ==
  ASSUME IInv, StopInv, EmitSignal
  PROVE  StopInv'
<1>1. /\ signals \in Seq({"start", "stop"}) /\ signals # <<>> /\ signals' = Tail(signals)
      /\ lastSignal' = IF Head(signals) = "stop" /\ notifies # {} THEN lastSignal
                                                                ELSE Head(signals)
      /\ UNCHANGED <<thread, pc, notifies>>
  BY DEF EmitSignal, IInv, TypeOK
<1>2. WorkerInv' /\ Live' = Live
  BY <1>1 DEF WorkerInv, StopInv, Live
<1>3. Head(signals) = signals[1] /\ Len(signals) \in Nat \ {0}
  BY <1>1
<1>4. /\ Len(signals') = Len(signals) - 1
      /\ \A i \in 1 .. Len(signals') : signals'[i] = signals[i + 1]
      /\ signals' \in Seq({"start", "stop"})
  BY <1>1
<1>5. "start" \in ToSet(signals') => "start" \in ToSet(signals)
  <2>1. ASSUME NEW i \in DOMAIN signals', signals'[i] = "start" PROVE "start" \in ToSet(signals)
    <3>1. i + 1 \in DOMAIN signals /\ signals[i + 1] = "start"
      BY <1>1, <1>3, <1>4, <2>1
    <3> QED BY <3>1 DEF ToSet
  <2> QED BY <2>1 DEF ToSet
<1>6. Head(signals) = "start" => "start" \in ToSet(signals)
  BY <1>1, <1>3 DEF ToSet
<1>7. ASSUME Live = {}, notifies = {}, lastSignal' = "start" \/ "start" \in ToSet(signals')
      PROVE  signals' # <<>> /\ signals'[Len(signals')] = "stop"
  <2>1. signals[Len(signals)] = "stop"
    BY <1>1, <1>5, <1>6, <1>7 DEF StopInv, StopPromised
  <2>2. Len(signals) # 1
    <3>1. SUFFICES ASSUME Len(signals) = 1 PROVE FALSE
      OBVIOUS
    <3>2. lastSignal' = "stop"
      BY <1>1, <1>3, <1>7, <2>1, <3>1
    <3>3. DOMAIN signals' = {}
      BY <1>4, <3>1
    <3> QED BY <1>7, <3>2, <3>3 DEF ToSet
  <2> QED BY <1>3, <1>4, <2>1, <2>2
<1> QED BY <1>1, <1>2, <1>7 DEF StopInv, StopPromised

\* So does every step.
LEMMA NextStop == IInv /\ StopInv /\ [Next]_vars => StopInv'
<1> SUFFICES ASSUME IInv, StopInv, [Next]_vars PROVE StopInv'
  OBVIOUS
<1>1. CASE Application
  <2>1. CASE Flush \/ GoOnline
    BY <2>1, CreateStop DEF Flush, GoOnline
  <2>2. CASE ~Flush /\ ~GoOnline
    BY <1>1, <2>2, KeepStop DEF Application, AddAsync, AddCall, CancelCall, ShowOutbox,
                                GoOffline, privVars, mainVars
  <2> QED BY <2>1, <2>2
<1>2. CASE Blocked
  BY <1>2, KeepStop DEF Blocked, AddRun, CancelRun
<1>3. CASE Crash
  BY <1>3 DEF Crash, StopInv, StopPromised, WorkerInv, ToSet
<1>4. ASSUME NEW m \in Msg, StoreMsg(m) PROVE StopInv'
  BY <1>4, KeepStop DEF StoreMsg
<1>5. CASE UNCHANGED vars
  BY <1>5, KeepStop DEF vars, privVars, mainVars
<1>6. ASSUME NEW w \in Worker, Serve(w) PROVE StopInv'
  BY <1>6, KeepStop DEF Serve, privVars, mainVars
<1>7. ASSUME NEW w \in Worker, Callback(w) PROVE StopInv'
  BY <1>7, KeepStop DEF Callback
<1>8. ASSUME NEW m \in Msg, OnAdded(m) PROVE StopInv'
  <2>1. CASE stage[m] = "stored"
    BY <1>8, <2>1, CreateStop DEF OnAdded
  <2>2. CASE stage[m] # "stored"
    BY <1>8, <2>2, KeepStop DEF OnAdded
  <2> QED BY <2>1, <2>2
<1>9. ASSUME NEW m \in Msg, OnMsgSent(m) PROVE StopInv'
  <2>1. /\ UNCHANGED <<thread, pc, lastSignal>> /\ notifies # {}
        /\ signals' = IF notifies' = {} /\ thread = None THEN Append(signals, "stop")
                                                         ELSE signals
    BY <1>9 DEF OnMsgSent
  <2>2. WorkerInv' /\ Live' = Live
    BY <2>1 DEF WorkerInv, StopInv, Live
  <2>3. thread # None => Live # {}
    BY DEF StopInv, WorkerInv, Live, IInv, TypeOK
  <2>4. signals \in Seq({"start", "stop"})
    BY DEF IInv, TypeOK
  <2>5. notifies' = {} /\ thread = None => signals' # <<>> /\ signals'[Len(signals')] = "stop"
    BY <2>1, <2>4
  <2> QED BY <2>2, <2>3, <2>5 DEF StopInv, StopPromised
<1> QED BY <1>1, <1>2, <1>3, <1>4, <1>5, <1>6, <1>7, <1>8, <1>9, WorkerStop, EmitStop
        DEF Next, MainLoop

\* A queue that said that it started has somebody left to say that it stopped: a
\* worker, the last of the notifications, or a signal that waits; whatever fails,
\* overlaps, is cancelled or crashes.
THEOREM StopIsComing == Spec => []StopPromised
<1>1. Init => StopInv
  BY DEF Init, StopInv, StopPromised, WorkerInv, ToSet
<1> QED BY <1>1, NextStop, Invariance, PTL DEF Spec, StopInv

\* What was moved and not yet announced is counted by a notification, or by the
\* callback that a worker waits for, unless the program crashed: no order of failures,
\* withdrawn calls and second workers loses a notification.
THEOREM MovedIsCounted == Spec => []NotifyInv
<1>1. Init => NotifyInv
  BY DEF Init, NotifyInv
<1> QED BY <1>1, NextNotify, Invariance, PTL DEF Spec
=============================================================================
