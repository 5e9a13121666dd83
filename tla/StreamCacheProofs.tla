--------------------------- MODULE StreamCacheProofs ---------------------------
(***************************************************************************)
(* StreamCache for any number of ids, files and streams, of any length,    *)
(* with every fault and any number of restarts: the types, the count of    *)
(* the streams of a file, the files of readers, what is in the files of    *)
(* ids that no two threads downloaded at one time, what readers are told   *)
(* of the end, the room that is made for a new stream, and whom a reader   *)
(* that finds nothing waits for.                                           *)
(***************************************************************************)
EXTENDS StreamCache, FiniteSetTheorems, WellFoundedInduction, TLAPS

\* A thread that runs, and one that has not yet renamed or given up its file.
Active(f) == thread[f].pc # "none"
Fetching(f) == thread[f].pc \in {"read", "write", "done", "check", "rename"}

\* The streams of a file.
Readers(f) == {s \in Stream : stream[s].state # "closed" /\ stream[s].file = f}

ListInv == \A i \in Id : cachedFiles[i] # None => file[cachedFiles[i]].id = i

\* Between the steps of a call its file stays listed, or its id unlisted.
AppInv ==
  /\ app[1] \in {"choose", "open"} =>
       file[app[3]].id \in Id /\ cachedFiles[file[app[3]].id] = app[3]
  /\ app[1] = "evict" => cachedFiles[app[3]] = None

ThreadInv == \A f \in File : Active(f) => file[f].id \in Id /\ thread[f].inode \in File

StreamInv == \A s \in Stream :
  /\ stream[s].state = "closed" => stream[s] = Closed
  /\ stream[s].state # "closed" => stream[s].file \in File /\ file[stream[s].file].id \in Id
  /\ stream[s].state = "open" => stream[s].position \in Nat

\* A stream that failed to open its file may stay counted.
CountInv == \A f \in File : Cardinality(Readers(f)) <= file[f].active

BaseInv == TypeOK /\ ListInv /\ AppInv /\ ThreadInv /\ StreamInv /\ CountInv

-----------------------------------------------------------------------------
\* A file on disk belongs to one id, through all that refers to it,
Uses(n, i) ==
  \/ n = tmp[i] \/ n = final[i]
  \/ \E g \in File : thread[g].inode = n /\ file[g].id = i
  \/ \E s \in Stream : stream[s].state # "closed" /\ stream[s].fd = n /\ file[stream[s].file].id = i

UseInv == \A n \in File, i, j \in Id : Uses(n, i) /\ Uses(n, j) => i = j

\* and has one name.
NameInv == \A i \in Id : tmp[i] # None => tmp[i] # final[i]

OwnInv == UseInv /\ NameInv

USE NoneAssumption, FiniteAssumption, SizeAssumption
    DEF vars, diskVars, NoFile, NoThread, Closed, Idle, FileRecord
-----------------------------------------------------------------------------
\* The steps and the types.

\* A program that starts has a file for what is in the directory, and nothing else.
LEMMA RebootBase ==
  ASSUME BaseInv, NEW dir \in [Id -> File \cup {None}], Reboot(dir), restarts' \in 0 .. MaxRestarts,
         \A i, j \in Id : dir[i] # None /\ dir[i] = dir[j] => i = j
  PROVE  BaseInv'
<1> USE DEF BaseInv
<1>1. ASSUME NEW f \in File
      PROVE  /\ file'[f] \in FileRecord /\ file'[f].active = 0
             /\ \A i \in Id : dir[i] = f => file'[f].id = i
  <2>1. CASE \E i \in Id : dir[i] = f
    <3>1. PICK i \in Id : i = (CHOOSE j \in Id : dir[j] = f) /\ dir[i] = f
      BY <2>1
    <3>2. file'[f] = FromDisk(f, i)
      BY <2>1, <3>1 DEF Reboot
    <3>3. Len(content[f]) \in Nat /\ used[i] \in Nat
      BY DEF TypeOK
    <3>4. PICK n \in Nat, u \in Nat : n = Len(content[f]) /\ u = used[i]
      BY <3>3
    <3>5. file'[f] = [id |-> i, expected |-> n, fetched |-> n, fetching |-> FALSE, invalid |-> FALSE,
                      pendingClose |-> FALSE, active |-> 0, timestamp |-> u]
      BY <3>2, <3>4 DEF FromDisk
    <3>6. file'[f].id = i /\ file'[f].active = 0 /\ file'[f] \in FileRecord
      BY <3>5
    <3> QED BY <3>1, <3>6
  <2>2. CASE ~(\E i \in Id : dir[i] = f)
    <3>1. file'[f] = NoFile
      BY <2>2 DEF Reboot
    <3> QED BY <2>2, <3>1
  <2> QED BY <2>1, <2>2
<1>2. /\ cachedFiles' = dir /\ final' = dir /\ tmp' = [i \in Id |-> None]
      /\ thread' = [f \in File |-> NoThread] /\ stream' = [s \in Stream |-> Closed] /\ app' = Idle
      /\ UNCHANGED <<used, contended>> /\ maxSize' \in MaxSizes
  BY DEF Reboot
<1>3. content' \in [File -> Seq(Nat)]
  BY DEF Reboot, TypeOK
<1>4. file' \in [File -> FileRecord]
  <2>1. file' = [f \in File |-> file'[f]]
    BY DEF Reboot
  <2> QED BY <2>1, <1>1
<1>5. TypeOK'
  BY <1>2, <1>3, <1>4 DEF TypeOK
<1>6. ListInv'
  BY <1>1, <1>2 DEF ListInv
<1>7. CountInv'
  <2> SUFFICES ASSUME NEW f \in File PROVE Cardinality(Readers(f)') <= file'[f].active
    BY DEF CountInv
  <2>1. Readers(f)' = {}
    BY <1>2 DEF Readers
  <2> QED BY <2>1, <1>1, FS_EmptySet
<1>8. AppInv' /\ ThreadInv' /\ StreamInv'
  BY <1>2 DEF AppInv, ThreadInv, StreamInv, Active
<1> QED BY <1>5, <1>6, <1>7, <1>8

\* What the program does not do to a file while it uses it: the object is not
\* given to another id, and its streams stay counted.
SameFiles == \A f \in File : file'[f].id = file[f].id /\ file'[f].active = file[f].active

\* A step that changes neither the table, the streams nor the call of the application.
LEMMA FrameBase ==
  ASSUME BaseInv, TypeOK', SameFiles, UNCHANGED <<cachedFiles, stream, app>>, ThreadInv'
  PROVE  BaseInv'
<1> USE DEF BaseInv
<1>1. ListInv'
  BY DEF ListInv, SameFiles, TypeOK
<1>2. AppInv'
  <2>1. app[1] \in {"choose", "open"} => app[3] \in File
    BY DEF TypeOK
  <2>2. CASE app[1] \in {"choose", "open"}
    <3>1. file'[app[3]].id = file[app[3]].id /\ app[1] # "evict"
      BY <2>1, <2>2 DEF SameFiles
    <3> QED BY <2>2, <3>1 DEF AppInv
  <2>3. CASE app[1] \notin {"choose", "open"}
    BY <2>3 DEF AppInv
  <2> QED BY <2>2, <2>3
<1>3. StreamInv'
  BY DEF StreamInv, SameFiles
<1>4. CountInv'
  <2> SUFFICES ASSUME NEW f \in File PROVE Cardinality(Readers(f)') <= file'[f].active
    BY DEF CountInv
  <2>1. Readers(f)' = Readers(f)
    BY DEF Readers
  <2> QED BY <2>1 DEF SameFiles, CountInv
<1> QED BY <1>1, <1>2, <1>3, <1>4

\* A file that is removed keeps its sizes, and its thread.
LEMMA RemovedSizes ==
  ASSUME TypeOK, NEW f \in File
  PROVE  /\ Removed(f).id = file[f].id /\ Removed(f).fetched = file[f].fetched
         /\ Removed(f).expected = file[f].expected /\ Removed(f).invalid = TRUE
         /\ Removed(f).fetching = file[f].fetching
<1>1. PICK r \in FileRecord : r = file[f]
  BY DEF TypeOK
<1>2. Removed(f) = [r EXCEPT !.invalid = TRUE, !.pendingClose = @ \/ r.fetching]
  BY <1>1 DEF Removed
<1> QED BY <1>1, <1>2

\* A file that is removed keeps its id and its streams, and becomes invalid.
LEMMA RemovedFacts ==
  ASSUME TypeOK, NEW f \in File
  PROVE  /\ Removed(f) \in FileRecord /\ Removed(f).id = file[f].id
         /\ Removed(f).active = file[f].active /\ Removed(f).invalid = TRUE
<1>1. file[f] \in FileRecord
  BY DEF TypeOK
<1> QED BY <1>1 DEF Removed

\* Files that nobody reads, and perhaps others, leave the table, and the former
\* are removed.
LEMMA RemoveBase ==
  ASSUME BaseInv, NEW gone \in SUBSET File, NEW dropped \in SUBSET File, maxSize' \in MaxSizes,
         file' = [g \in File |-> IF g \in gone THEN Removed(g) ELSE file[g]],
         final' = Unlinked(gone), cachedFiles' = Dropped(dropped), app = Idle,
         UNCHANGED <<thread, tmp, content, stream, app, used, contended, restarts>>
  PROVE  BaseInv' /\ SameFiles
<1> USE DEF BaseInv
<1>1. SameFiles
  BY RemovedFacts DEF SameFiles
<1>2. TypeOK'
  <2>1. file' \in [File -> FileRecord]
    BY RemovedFacts DEF TypeOK
  <2>2. final' \in [Id -> File \cup {None}] /\ cachedFiles' \in [Id -> File \cup {None}]
    BY DEF TypeOK, Unlinked, Dropped
  <2> QED BY <2>1, <2>2 DEF TypeOK
<1>3. ListInv'
  BY <1>1, <1>2 DEF ListInv, SameFiles, Dropped, TypeOK
<1>4. AppInv'
  BY DEF AppInv
<1>5. ThreadInv' /\ StreamInv'
  BY <1>1 DEF ThreadInv, StreamInv, SameFiles, Active
<1>6. CountInv'
  <2> SUFFICES ASSUME NEW f \in File PROVE Cardinality(Readers(f)') <= file'[f].active
    BY DEF CountInv
  <2>1. Readers(f)' = Readers(f)
    BY DEF Readers
  <2> QED BY <2>1, <1>1 DEF SameFiles, CountInv
<1> QED BY <1>1, <1>2, <1>3, <1>4, <1>5, <1>6

\* The call of the application begins.
LEMMA GetStreamBase == ASSUME BaseInv, NEW s \in Stream, NEW i \in Id, GetStream(s, i) PROVE BaseInv'
<1> USE DEF BaseInv
<1>1. UNCHANGED <<cachedFiles, maxSize, file, thread, diskVars, stream, used, contended, restarts>>
  BY DEF GetStream
<1>2. CASE cachedFiles[i] # None /\ app' = <<"choose", s, cachedFiles[i]>>
  <2>1. PICK f \in File : f = cachedFiles[i]
    BY <1>2 DEF TypeOK
  <2>2. file[f].id = i /\ app' = <<"choose", s, f>>
    BY <1>2, <2>1 DEF ListInv
  <2>3. AppInv'
    BY <1>1, <2>1, <2>2 DEF AppInv
  <2>4. TypeOK'
    BY <1>1, <2>2 DEF TypeOK
  <2>5. ListInv' /\ ThreadInv' /\ StreamInv' /\ CountInv'
    BY <1>1 DEF ListInv, ThreadInv, StreamInv, CountInv, Active, Readers
  <2> QED BY <2>3, <2>4, <2>5
<1>3. ASSUME NEW expected \in Announced[i], cachedFiles[i] = None, app' = <<"evict", s, i, expected>>
      PROVE  BaseInv'
  <2>1. expected \in Nat
    OBVIOUS
  <2>2. AppInv'
    BY <1>1, <1>3 DEF AppInv
  <2>3. TypeOK'
    BY <1>1, <1>3, <2>1 DEF TypeOK
  <2>4. ListInv' /\ ThreadInv' /\ StreamInv' /\ CountInv'
    BY <1>1 DEF ListInv, ThreadInv, StreamInv, CountInv, Active, Readers
  <2> QED BY <2>2, <2>3, <2>4
<1> QED BY <1>2, <1>3 DEF GetStream

\* The name of the file is chosen.
LEMMA ChooseBase == ASSUME BaseInv, NEW s \in Stream, NEW f \in File, Choose(s, f) PROVE BaseInv'
<1> USE DEF BaseInv
<1>1. /\ UNCHANGED <<cachedFiles, maxSize, file, thread, diskVars, stream, used, contended, restarts>>
      /\ app = <<"choose", s, f>>
  BY DEF Choose
<1>2. file[f].id \in Id /\ cachedFiles[file[f].id] = f
  BY <1>1 DEF AppInv
<1>3. PICK temp \in BOOLEAN : app' = Idle \/ app' = <<"open", s, f, temp>>
  <2>1. file[f].fetching \in BOOLEAN
    BY DEF TypeOK
  <2> QED BY <2>1 DEF Choose
<1>4. AppInv'
  BY <1>1, <1>2, <1>3 DEF AppInv
<1>5. TypeOK'
  <2>1. app' \in {Idle} \cup ({"choose"} \X Stream \X File)
               \cup ({"evict"} \X Stream \X Id \X Nat)
               \cup ({"open"} \X Stream \X File \X BOOLEAN)
    BY <1>3
  <2> QED BY <1>1, <2>1 DEF TypeOK
<1>6. ListInv' /\ ThreadInv' /\ StreamInv' /\ CountInv'
  BY <1>1 DEF ListInv, ThreadInv, StreamInv, CountInv, Active, Readers
<1> QED BY <1>4, <1>5, <1>6

\* The stream is opened and counted.
LEMMA OpenBase ==
  ASSUME BaseInv, NEW s \in Stream, NEW f \in File, NEW temp \in BOOLEAN, Open(s, f, temp)
  PROVE  BaseInv'
<1> USE DEF BaseInv
<1>1. /\ UNCHANGED <<cachedFiles, maxSize, thread, diskVars, contended, restarts>>
      /\ app = <<"open", s, f, temp>> /\ app' = Idle /\ file[f].active < MaxActive
      /\ file' = [file EXCEPT ![f].active = @ + 1]
  BY DEF Open
<1>2. file[f].id \in Id /\ cachedFiles[file[f].id] = f
  BY <1>1 DEF AppInv
<1>3. PICK fd \in File \cup {None} :
        stream' = [stream EXCEPT ![s] = [state |-> "open", file |-> f, position |-> 0, fd |-> fd]]
  <2>1. (IF temp THEN tmp[file[f].id] ELSE final[file[f].id]) \in File \cup {None}
    BY <1>2 DEF TypeOK
  <2> QED BY <2>1 DEF Open
<1>4. \A g \in File : file'[g].id = file[g].id
  BY <1>1 DEF TypeOK
<1>5. TypeOK'
  <2>1. file[f] \in FileRecord /\ file[f].active + 1 \in 0 .. MaxActive
    BY <1>1 DEF TypeOK
  <2>2. file' \in [File -> FileRecord]
    BY <1>1, <2>1 DEF TypeOK
  <2>3. stream' \in [Stream -> [state : {"closed", "open", "eof", "error"},
                                file : File \cup {None}, fd : File \cup {None},
                                position : Nat \cup {-1}]]
    BY <1>3 DEF TypeOK
  <2>4. used' \in [Id -> Nat]
    <3>1. Cardinality(Id) \in Nat
      BY FS_CardinalityType
    <3>2. PICK i \in Id : i = file[f].id
      BY <1>2
    <3>3. used' = [j \in Id |-> IF j = i THEN Cardinality(Id)
                                ELSE IF used[j] > used[i] THEN used[j] - 1 ELSE used[j]]
      BY <3>2 DEF Open
    <3>4. \A j \in Id : used[j] \in Nat
      BY DEF TypeOK
    <3> QED BY <3>1, <3>3, <3>4
  <2> QED BY <1>1, <2>2, <2>3, <2>4 DEF TypeOK
<1>6. ListInv'
  <2> SUFFICES ASSUME NEW i \in Id, cachedFiles[i] # None PROVE file'[cachedFiles[i]].id = i
    BY <1>1 DEF ListInv
  <2>1. cachedFiles[i] \in File
    BY DEF TypeOK
  <2> QED BY <2>1, <1>4 DEF ListInv
<1>7. AppInv'
  BY <1>1 DEF AppInv
<1>8. ThreadInv'
  BY <1>1, <1>4 DEF ThreadInv, Active
<1>9. StreamInv'
  BY <1>2, <1>3, <1>4 DEF StreamInv, TypeOK
<1>10. CountInv'
  <2> SUFFICES ASSUME NEW g \in File PROVE Cardinality(Readers(g)') <= file'[g].active
    BY DEF CountInv
  <2>1. IsFiniteSet(Readers(g)) /\ Cardinality(Readers(g)) \in Nat
    <3>1. Readers(g) \subseteq Stream
      BY DEF Readers
    <3> QED BY <3>1, FS_Subset, FS_CardinalityType
  <2>2. Cardinality(Readers(g)) <= file[g].active /\ file[g].active \in Nat
    BY DEF CountInv, TypeOK
  <2>3. CASE g = f
    <3>1. Readers(g)' = Readers(g) \cup {s} /\ file'[g].active = file[g].active + 1
      BY <1>1, <1>3, <2>3 DEF Readers, TypeOK
    <3>2. Cardinality(Readers(g) \cup {s}) \in {Cardinality(Readers(g)), Cardinality(Readers(g)) + 1}
      BY <2>1, FS_AddElement
    <3> QED BY <2>1, <2>2, <3>1, <3>2
  <2>4. CASE g # f
    <3>1. Readers(g)' \subseteq Readers(g) /\ file'[g].active = file[g].active
      BY <1>1, <1>3, <2>4 DEF Readers, TypeOK
    <3>2. Cardinality(Readers(g)') <= Cardinality(Readers(g)) /\ Cardinality(Readers(g)') \in Nat
      BY <2>1, <3>1, FS_Subset, FS_CardinalityType
    <3> QED BY <2>1, <2>2, <3>1, <3>2
  <2> QED BY <2>3, <2>4
<1> QED BY <1>5, <1>6, <1>7, <1>8, <1>9, <1>10

\* The files that the loop removes are listed, and nobody reads them.
LEMMA OldFilesFacts ==
  ASSUME NEW max, NEW required, NEW gone \in OldFiles(max, required)
  PROVE  gone \in SUBSET File /\ \A f \in gone : f \in Listed /\ ~(file[f].active > 0)
BY DEF OldFiles, InactiveFiles, Listed, IsActive

\* What it changes to take f for the stream i, in place of the files gone.
Takes(s, i, expected, gone, f, inode, start) ==
  /\ inode = IF tmp[i] = None THEN f ELSE tmp[i]
  /\ file' = [g \in File |->
                IF g = f THEN [NoFile EXCEPT !.id = i, !.expected = expected, !.fetching = TRUE]
                ELSE IF g \in gone THEN Removed(g) ELSE file[g]]
  /\ final' = Unlinked(gone) /\ cachedFiles' = [Dropped(gone) EXCEPT ![i] = f]
  /\ tmp' = [tmp EXCEPT ![i] = inode] /\ content' = [content EXCEPT ![f] = <<>>]
  /\ start \in {"read", "none"} /\ (start = "none" => "thread" \in Faults)
  /\ thread' = [thread EXCEPT ![f] = [NoThread EXCEPT !.pc = start, !.inode = inode]]
  /\ app' = <<"choose", s, f>>

\* Evict takes an unused object.
LEMMA EvictTakes ==
  ASSUME NEW s, NEW i, NEW expected, Evict(s, i, expected), ~ListExhausted(maxSize, expected)
  PROVE  /\ app = <<"evict", s, i, expected>>
         /\ UNCHANGED <<maxSize, stream, used, restarts>>
         /\ contended' = (IF \E g \in File : file[g].id = i /\ thread[g].pc # "none"
                            THEN contended \cup {i} ELSE contended)
         /\ \E gone \in OldFiles(maxSize, expected), f \in {g \in File : Spare(g)} :
               \E inode, start : Takes(s, i, expected, gone, f, inode, start)
<1> HIDE NoneAssumption, FiniteAssumption, SizeAssumption
    DEF vars, diskVars, NoFile, NoThread, Closed, Idle, FileRecord
<1>1. /\ app = <<"evict", s, i, expected>>
      /\ UNCHANGED <<maxSize, stream, used, restarts>>
      /\ contended' = (IF \E g \in File : file[g].id = i /\ thread[g].pc # "none"
                         THEN contended \cup {i} ELSE contended)
  BY Zenon DEF Evict
<1>2. ASSUME NEW gone, NEW f, NEW inode,
             /\ inode = IF tmp[i] = None THEN f ELSE tmp[i]
             /\ file' = [g \in File |->
                           IF g = f THEN [NoFile EXCEPT !.id = i, !.expected = expected,
                                                        !.fetching = TRUE]
                           ELSE IF g \in gone THEN Removed(g) ELSE file[g]]
             /\ final' = Unlinked(gone)
             /\ cachedFiles' = [Dropped(gone) EXCEPT ![i] = f]
             /\ tmp' = [tmp EXCEPT ![i] = inode]
             /\ content' = [content EXCEPT ![f] = <<>>]
             /\ \E start \in {"read"} \cup (IF "thread" \in Faults THEN {"none"} ELSE {}) :
                  thread' = [thread EXCEPT ![f] = [NoThread EXCEPT !.pc = start, !.inode = inode]]
             /\ app' = <<"choose", s, f>>
      PROVE  \E start : Takes(s, i, expected, gone, f, inode, start)
  <2>1. PICK start \in {"read"} \cup (IF "thread" \in Faults THEN {"none"} ELSE {}) :
          thread' = [thread EXCEPT ![f] = [NoThread EXCEPT !.pc = start, !.inode = inode]]
    BY <1>2, Zenon
  <2>2. start \in {"read", "none"} /\ (start = "none" => "thread" \in Faults)
    OBVIOUS
  <2>3. Takes(s, i, expected, gone, f, inode, start)
    BY <1>2, <2>1, <2>2, Zenon DEF Takes
  <2> QED BY <2>3
<1> QED BY <1>1, <1>2, Zenon DEF Evict

\* The files make room, and the object of the new one was unused.
LEMMA EvictBase ==
  ASSUME BaseInv, NEW s \in Stream, NEW i \in Id, NEW expected \in Announced[i],
         Evict(s, i, expected), ~ListExhausted(maxSize, expected)
  PROVE  BaseInv'
<1> USE DEF BaseInv
<1>1. /\ app = <<"evict", s, i, expected>>
      /\ UNCHANGED <<maxSize, stream, used, restarts>>
      /\ contended' = (IF \E g \in File : file[g].id = i /\ thread[g].pc # "none"
                         THEN contended \cup {i} ELSE contended)
  BY EvictTakes
<1>0. PICK gone \in OldFiles(maxSize, expected), f \in {g \in File : Spare(g)} :
        \E inode, start : Takes(s, i, expected, gone, f, inode, start)
  BY EvictTakes
<1>2. PICK inode, start : Takes(s, i, expected, gone, f, inode, start)
  BY <1>0
<1>3. /\ start \in {"read", "none"}
      /\ thread' = [thread EXCEPT ![f] = [NoThread EXCEPT !.pc = start, !.inode = inode]]
  BY <1>2 DEF Takes
<1>4. f \in File /\ gone \in SUBSET File /\ inode \in File /\ expected \in Nat
  BY <1>2, OldFilesFacts DEF Takes, TypeOK
<1>5. /\ f \notin Listed /\ \A s1 \in Stream : stream[s1].file # f
  BY <1>2 DEF Spare
<1>6. /\ file'[f].id = i /\ file'[f].active = 0 /\ file'[f] \in FileRecord
      /\ file'[f].fetched = 0 /\ file'[f].invalid = FALSE
  <2>1. file'[f] = [NoFile EXCEPT !.id = i, !.expected = expected, !.fetching = TRUE]
    BY <1>2, <1>4 DEF Takes
  <2>2. file'[f] = [id |-> i, expected |-> expected, fetched |-> 0, fetching |-> TRUE,
                    invalid |-> FALSE, pendingClose |-> FALSE, active |-> 0, timestamp |-> 0]
    BY <2>1
  <2> QED BY <2>2, <1>4
<1>7. ASSUME NEW g \in File, g # f
      PROVE  /\ file'[g].id = file[g].id /\ file'[g].active = file[g].active
             /\ file'[g] \in FileRecord /\ thread'[g] = thread[g]
  <2>1. file'[g] = IF g \in gone THEN Removed(g) ELSE file[g]
    BY <1>2, <1>7 DEF Takes
  <2>2. file[g] \in FileRecord
    BY DEF TypeOK
  <2>3. thread'[g] = thread[g]
    BY <1>3, <1>7 DEF TypeOK
  <2> QED BY <2>1, <2>2, <2>3, RemovedFacts
<1>8. TypeOK'
  <2>1. file' \in [File -> FileRecord]
    <3>1. file' = [g \in File |-> file'[g]]
      BY <1>2 DEF Takes
    <3> QED BY <3>1, <1>6, <1>7
  <2>2. final' \in [Id -> File \cup {None}] /\ cachedFiles' \in [Id -> File \cup {None}]
    BY <1>2, <1>4 DEF Takes, TypeOK, Unlinked, Dropped
  <2>3. /\ tmp' \in [Id -> File \cup {None}] /\ content' \in [File -> Seq(Nat)]
        /\ contended' \subseteq Id
    <3>1. tmp' \in [Id -> File \cup {None}]
      BY <1>2, <1>4 DEF Takes, TypeOK
    <3>2. content' \in [File -> Seq(Nat)]
      BY <1>2, <1>4 DEF Takes, TypeOK
    <3>3. contended' \subseteq Id
      BY <1>1 DEF TypeOK
    <3> QED BY <3>1, <3>2, <3>3
  <2>4. thread' \in [File -> [pc : {"none", "read", "write", "done", "check", "rename", "finish"},
                              read : Nat, offset : Nat, inode : File \cup {None}]]
    BY <1>3, <1>4 DEF TypeOK
  <2>5. app' \in {"choose"} \X Stream \X File
    BY <1>2, <1>4 DEF Takes
  <2> QED BY <1>1, <2>1, <2>2, <2>3, <2>4, <2>5 DEF TypeOK
<1>9. ListInv'
  <2> SUFFICES ASSUME NEW j \in Id, cachedFiles'[j] # None PROVE file'[cachedFiles'[j]].id = j
    BY DEF ListInv
  <2>1. CASE j = i
    <3>1. cachedFiles'[j] = f
      BY <1>2, <2>1 DEF Takes, Dropped
    <3> QED BY <2>1, <3>1, <1>6
  <2>2. CASE j # i
    <3>1. cachedFiles'[j] = cachedFiles[j]
      BY <1>2, <2>2 DEF Takes, Dropped
    <3>2. cachedFiles[j] \in File /\ cachedFiles[j] # f
      BY <3>1, <1>4, <1>5 DEF TypeOK, Listed
    <3> QED BY <3>1, <3>2, <1>7 DEF ListInv
  <2> QED BY <2>1, <2>2
<1>10. AppInv'
  <2>1. cachedFiles'[i] = f
    BY <1>2 DEF Takes, Dropped
  <2> QED BY <2>1, <1>2, <1>6 DEF Takes, AppInv
<1>11. ThreadInv'
  <2> SUFFICES ASSUME NEW g \in File, thread'[g].pc # "none"
               PROVE  file'[g].id \in Id /\ thread'[g].inode \in File
    BY DEF ThreadInv, Active
  <2>1. CASE g = f
    <3>1. thread'[f].inode = inode
      BY <1>3, <1>4 DEF TypeOK
    <3> QED BY <2>1, <3>1, <1>4, <1>6
  <2>2. CASE g # f
    BY <2>2, <1>7 DEF ThreadInv, Active
  <2> QED BY <2>1, <2>2
<1>12. StreamInv'
  BY <1>1, <1>5, <1>7 DEF StreamInv
<1>13. CountInv'
  <2> SUFFICES ASSUME NEW g \in File PROVE Cardinality(Readers(g)') <= file'[g].active
    BY DEF CountInv
  <2>1. CASE g = f
    <3>1. Readers(g)' = {}
      BY <1>1, <1>5, <2>1 DEF Readers
    <3> QED BY <2>1, <3>1, <1>6, FS_EmptySet
  <2>2. CASE g # f
    <3>1. Readers(g)' = Readers(g)
      BY <1>1 DEF Readers
    <3> QED BY <2>2, <3>1, <1>7 DEF CountInv
  <2> QED BY <2>1, <2>2
<1> QED BY <1>8, <1>9, <1>10, <1>11, <1>12, <1>13

\* A step of a thread moves it on.
LEMMA FetchBase == ASSUME BaseInv, NEW f \in File, Fetch(f) PROVE BaseInv' /\ SameFiles
<1> USE DEF BaseInv
<1>1. /\ UNCHANGED <<cachedFiles, maxSize, stream, app, used, contended, restarts>>
      /\ thread[f].pc # "none"
  BY DEF Fetch, ReadSource, Write, Done, Check, Rename, Finish, OfThread, At
<1>2. file[f].id \in Id /\ thread[f].inode \in File
  BY <1>1 DEF ThreadInv, Active
<1>3. file' \in [File -> FileRecord] /\ SameFiles
  <2>1. file \in [File -> FileRecord]
    BY DEF TypeOK
  <2>2. \/ file' = file
        \/ file' = [file EXCEPT ![f].invalid = TRUE]
        \/ file' = [file EXCEPT ![f].invalid = @ \/ file[f].pendingClose,
                                ![f].fetched = IF file[f].pendingClose THEN @ ELSE @ + 1]
        \/ file' = [file EXCEPT ![f].fetching = FALSE]
        \/ file' = [file EXCEPT ![f].expected = file[f].fetched]
    BY DEF Fetch, ReadSource, Write, Done, Check, Rename, Finish
  <2>3. PICK r \in FileRecord : r = file[f]
    BY <2>1
  <2>4. ASSUME NEW q \in FileRecord, q.id = r.id, q.active = r.active, file' = [file EXCEPT ![f] = q]
        PROVE  file' \in [File -> FileRecord] /\ SameFiles
    <3> HIDE DEF FileRecord
    <3> QED BY <2>1, <2>3, <2>4 DEF SameFiles
  <2>5. CASE file' = file
    BY <2>1, <2>5 DEF SameFiles
  <2>6. CASE file' = [file EXCEPT ![f].invalid = TRUE]
    <3> DEFINE q == [r EXCEPT !.invalid = TRUE]
    <3>1. q \in FileRecord /\ q.id = r.id /\ q.active = r.active
      OBVIOUS
    <3> QED BY <3>1, <2>3, <2>4, <2>6
  <2>7. CASE file' = [file EXCEPT ![f].invalid = @ \/ file[f].pendingClose,
                                  ![f].fetched = IF file[f].pendingClose THEN @ ELSE @ + 1]
    <3> DEFINE b == r.invalid \/ r.pendingClose
               n == IF r.pendingClose THEN r.fetched ELSE r.fetched + 1
               q == [r EXCEPT !.invalid = b, !.fetched = n]
    <3>1. b \in BOOLEAN /\ n \in Nat
      OBVIOUS
    <3>2. file' = [file EXCEPT ![f] = q]
      BY <2>3, <2>7
    <3> HIDE DEF b, n
    <3>3. q \in FileRecord /\ q.id = r.id /\ q.active = r.active
      BY <3>1
    <3> QED BY <3>2, <3>3, <2>4
  <2>8. CASE file' = [file EXCEPT ![f].fetching = FALSE]
    <3> DEFINE q == [r EXCEPT !.fetching = FALSE]
    <3>1. q \in FileRecord /\ q.id = r.id /\ q.active = r.active
      OBVIOUS
    <3> QED BY <3>1, <2>3, <2>4, <2>8
  <2>9. CASE file' = [file EXCEPT ![f].expected = file[f].fetched]
    <3> DEFINE q == [r EXCEPT !.expected = r.fetched]
    <3>1. q \in FileRecord /\ q.id = r.id /\ q.active = r.active
      OBVIOUS
    <3> QED BY <3>1, <2>3, <2>4, <2>9
  <2> QED BY <2>2, <2>5, <2>6, <2>7, <2>8, <2>9
<1>4. /\ thread' \in [File -> [pc : {"none", "read", "write", "done", "check", "rename", "finish"},
                               read : Nat, offset : Nat, inode : File \cup {None}]]
      /\ \A g \in File : g # f => thread'[g] = thread[g]
      /\ thread'[f].inode = thread[f].inode \/ thread'[f] = NoThread
  <2>1. \/ thread' = [thread EXCEPT ![f].pc = "done"]
        \/ thread' = [thread EXCEPT ![f].pc = "write", ![f].read = @ + 1]
        \/ thread' = [thread EXCEPT ![f].pc = "read", ![f].offset = @ + 1]
        \/ thread' = [thread EXCEPT ![f].pc = "read"]
        \/ thread' = [thread EXCEPT ![f].pc = "check"]
        \/ thread' = [thread EXCEPT ![f].pc = "rename"]
        \/ thread' = [thread EXCEPT ![f].pc = "finish"]
        \/ thread' = [thread EXCEPT ![f] = NoThread]
    BY DEF Fetch, ReadSource, Write, Done, Check, Rename, Finish
  <2>2. thread \in [File -> [pc : {"none", "read", "write", "done", "check", "rename", "finish"},
                              read : Nat, offset : Nat, inode : File \cup {None}]]
    BY DEF TypeOK
  <2>3. CASE \E pc \in {"read", "done", "check", "rename", "finish"} :
               thread' = [thread EXCEPT ![f].pc = pc]
    BY <2>2, <2>3
  <2>4. CASE thread' = [thread EXCEPT ![f].pc = "write", ![f].read = @ + 1]
    BY <2>2, <2>4
  <2>5. CASE thread' = [thread EXCEPT ![f].pc = "read", ![f].offset = @ + 1]
    BY <2>2, <2>5
  <2>6. CASE thread' = [thread EXCEPT ![f] = NoThread]
    BY <2>2, <2>6
  <2> QED BY <2>1, <2>3, <2>4, <2>5, <2>6
<1>5. content' \in [File -> Seq(Nat)]
  <2>1. \/ content' = content
        \/ content' = [content EXCEPT ![thread[f].inode] =
                         Written(@, thread[f].offset, thread[f].read)]
    BY DEF Fetch, ReadSource, Write, Done, Check, Rename, Finish, diskVars
  <2>2. PICK inode \in File, offset \in Nat, read \in Nat :
          inode = thread[f].inode /\ offset = thread[f].offset /\ read = thread[f].read
    BY <1>2 DEF TypeOK
  <2>3. PICK c \in Seq(Nat) : c = content[inode]
    BY DEF TypeOK
  <2>4. Written(c, offset, read) \in Seq(Nat)
    BY DEF Written
  <2> QED BY <2>1, <2>2, <2>3, <2>4 DEF TypeOK
<1>6. tmp' \in [Id -> File \cup {None}] /\ final' \in [Id -> File \cup {None}]
  <2>1. \/ UNCHANGED <<tmp, final>>
        \/ /\ final' = [final EXCEPT ![file[f].id] = tmp[file[f].id]]
           /\ tmp' = [tmp EXCEPT ![file[f].id] = None]
        \/ tmp' = [tmp EXCEPT ![file[f].id] = None] /\ UNCHANGED final
    BY DEF Fetch, ReadSource, Write, Done, Check, Rename, Finish, diskVars
  <2>2. tmp \in [Id -> File \cup {None}] /\ final \in [Id -> File \cup {None}]
    BY DEF TypeOK
  <2>3. PICK i \in Id : i = file[f].id
    BY <1>2
  <2>4. PICK n \in File \cup {None} : n = tmp[i]
    BY <2>2
  <2>5. \/ UNCHANGED <<tmp, final>>
        \/ final' = [final EXCEPT ![i] = n] /\ tmp' = [tmp EXCEPT ![i] = None]
        \/ tmp' = [tmp EXCEPT ![i] = None] /\ UNCHANGED final
    BY <2>1, <2>3, <2>4
  <2> HIDE DEF BaseInv
  <2> QED BY <2>2, <2>5
<1>7. TypeOK'
  BY <1>1, <1>3, <1>4, <1>5, <1>6 DEF TypeOK
<1>8. ThreadInv'
  <2> SUFFICES ASSUME NEW g \in File, thread'[g].pc # "none"
               PROVE  file'[g].id \in Id /\ thread'[g].inode \in File
    BY DEF ThreadInv, Active
  <2>1. CASE g = f
    BY <2>1, <1>2, <1>3, <1>4 DEF SameFiles
  <2>2. CASE g # f
    BY <2>2, <1>3, <1>4 DEF SameFiles, ThreadInv, Active
  <2> QED BY <2>1, <2>2
<1> QED BY <1>1, <1>3, <1>7, <1>8, FrameBase

\* A reader reads or sees the end.
LEMMA ReadFacts ==
  ASSUME TypeOK, StreamInv, NEW s \in Stream, SeeEos(s) \/ ReadStream(s)
  PROVE  /\ stream[s].state = "open" /\ stream' = [stream EXCEPT ![s] = stream'[s]]
         /\ stream'[s].file = stream[s].file /\ stream'[s].fd = stream[s].fd
         /\ stream'[s].state \in {"open", "eof", "error"} /\ stream'[s].position \in Nat \cup {-1}
         /\ stream'[s] \in [state : {"closed", "open", "eof", "error"},
                            file : File \cup {None}, fd : File \cup {None}, position : Nat \cup {-1}]
         /\ stream'[s].state = "open" => stream'[s].position \in Nat
<1>1. stream[s].state = "open"
  BY DEF SeeEos, ReadStream, OfStream
<1>2. PICK r \in [state : {"closed", "open", "eof", "error"},
                  file : File \cup {None}, fd : File \cup {None}, position : Nat \cup {-1}] :
        r = stream[s]
  BY DEF TypeOK
<1>3. r.position \in Nat /\ r.state = "open"
  BY <1>1, <1>2 DEF StreamInv
<1>4. \/ stream' = [stream EXCEPT ![s] = [r EXCEPT !.state = "eof"]]
      \/ stream' = [stream EXCEPT ![s] = [r EXCEPT !.state = "error"]]
      \/ stream' = [stream EXCEPT ![s] = [r EXCEPT !.state = "error", !.position = r.position - 1]]
      \/ stream' = [stream EXCEPT ![s] = [r EXCEPT !.position = r.position + 1]]
      \/ stream' = [stream EXCEPT ![s] = r]
  BY <1>2 DEF SeeEos, ReadStream
<1>5. stream \in [Stream -> [state : {"closed", "open", "eof", "error"},
                             file : File \cup {None}, fd : File \cup {None},
                             position : Nat \cup {-1}]]
  BY DEF TypeOK
<1>6. PICK q \in {[r EXCEPT !.state = "eof"], [r EXCEPT !.state = "error"],
                    [r EXCEPT !.state = "error", !.position = r.position - 1],
                    [r EXCEPT !.position = r.position + 1], r} :
        stream' = [stream EXCEPT ![s] = q]
  BY <1>4
<1>7. stream'[s] = q
  BY <1>5, <1>6
<1>8. /\ q \in [state : {"closed", "open", "eof", "error"},
                file : File \cup {None}, fd : File \cup {None}, position : Nat \cup {-1}]
      /\ q.file = r.file /\ q.fd = r.fd /\ q.state \in {"open", "eof", "error"}
      /\ q.position \in Nat \cup {-1} /\ q.state = "open" => q.position \in Nat
  <2>1. PICK n \in Nat : n = r.position /\ n + 1 \in Nat /\ n - 1 \in Nat \cup {-1}
    BY <1>3
  <2>2. CASE q \in {[r EXCEPT !.state = "eof"], [r EXCEPT !.state = "error"], r}
    BY <2>1, <2>2, <1>3
  <2>3. CASE q = [r EXCEPT !.state = "error", !.position = r.position - 1]
    BY <2>1, <2>3, <1>3
  <2>4. CASE q = [r EXCEPT !.position = r.position + 1]
    BY <2>1, <2>4, <1>3
  <2> QED BY <1>6, <2>2, <2>3, <2>4
<1> HIDE DEF FileRecord
<1> QED BY <1>1, <1>2, <1>6, <1>7, <1>8

\* Reading changes nothing but the stream.
LEMMA ReadBase ==
  ASSUME BaseInv, NEW s \in Stream, SeeEos(s) \/ ReadStream(s) PROVE BaseInv'
<1> USE DEF BaseInv
<1>1. UNCHANGED <<cachedFiles, maxSize, file, thread, diskVars, app, used, contended, restarts>>
  BY DEF SeeEos, ReadStream, OfStream
<1>2. stream[s].file \in File /\ file[stream[s].file].id \in Id /\ stream[s].state = "open"
  <2>1. stream[s].state = "open"
    BY DEF SeeEos, ReadStream, OfStream
  <2> QED BY <2>1 DEF StreamInv
<1>3. /\ stream' = [stream EXCEPT ![s] = stream'[s]]
      /\ stream'[s].file = stream[s].file /\ stream'[s].fd = stream[s].fd
      /\ stream'[s].state \in {"open", "eof", "error"}
      /\ stream'[s].state = "open" => stream'[s].position \in Nat
  BY ReadFacts
<1>4. TypeOK'
  <2>1. stream' \in [Stream -> [state : {"closed", "open", "eof", "error"},
                                file : File \cup {None}, fd : File \cup {None},
                                position : Nat \cup {-1}]]
    <3>1. stream'[s] \in [state : {"closed", "open", "eof", "error"},
                          file : File \cup {None}, fd : File \cup {None},
                          position : Nat \cup {-1}]
      BY ReadFacts
    <3>2. stream \in [Stream -> [state : {"closed", "open", "eof", "error"},
                                 file : File \cup {None}, fd : File \cup {None},
                                 position : Nat \cup {-1}]]
      BY DEF TypeOK
    <3> HIDE DEF BaseInv
    <3> QED BY <3>1, <3>2, <1>3
  <2> QED BY <1>1, <2>1 DEF TypeOK
<1>5. \A r \in Stream : r # s => stream'[r] = stream[r]
  BY <1>3 DEF TypeOK
<1>6. StreamInv'
  BY <1>1, <1>2, <1>3, <1>5 DEF StreamInv
<1>7. CountInv'
  <2> SUFFICES ASSUME NEW g \in File PROVE Cardinality(Readers(g)') <= file'[g].active
    BY DEF CountInv
  <2>1. \A r \in Stream : /\ stream'[r].file = stream[r].file
                          /\ stream'[r].state # "closed" <=> stream[r].state # "closed"
    BY <1>2, <1>3, <1>5
  <2>2. Readers(g)' = Readers(g)
    BY <2>1 DEF Readers
  <2> QED BY <1>1, <2>2 DEF CountInv
<1>8. ListInv' /\ AppInv' /\ ThreadInv'
  BY <1>1 DEF ListInv, AppInv, ThreadInv, Active
<1> QED BY <1>4, <1>6, <1>7, <1>8

\* A stream is closed, and counted down.
LEMMA CloseBase == ASSUME BaseInv, NEW s \in Stream, Close(s) PROVE BaseInv'
<1> USE DEF BaseInv
<1>1. /\ stream[s].state # "closed" /\ stream' = [stream EXCEPT ![s] = Closed]
      /\ UNCHANGED <<cachedFiles, maxSize, thread, diskVars, app, used, contended, restarts>>
  BY DEF Close
<1>2. PICK f \in File : f = stream[s].file
  BY <1>1 DEF StreamInv
<1>3. file' = IF stream[s].position > -1 THEN [file EXCEPT ![f].active = @ - 1] ELSE file
  BY <1>2 DEF Close
<1>4. ASSUME NEW g \in File
      PROVE  /\ IsFiniteSet(Readers(g)) /\ Cardinality(Readers(g)) \in Nat
             /\ Cardinality(Readers(g)) <= file[g].active /\ file[g].active \in 0 .. MaxActive
  <2>1. Readers(g) \subseteq Stream
    BY DEF Readers
  <2>2. IsFiniteSet(Readers(g)) /\ Cardinality(Readers(g)) \in Nat
    BY <2>1, FS_Subset, FS_CardinalityType
  <2> QED BY <2>2 DEF CountInv, TypeOK
<1>5. Readers(f)' = Readers(f) \ {s} /\ Cardinality(Readers(f) \ {s}) = Cardinality(Readers(f)) - 1
      /\ Cardinality(Readers(f)) - 1 \in Nat
  <2>1. s \in Readers(f) /\ Readers(f)' = Readers(f) \ {s}
    BY <1>1, <1>2 DEF Readers, TypeOK
  <2>2. IsFiniteSet(Readers(f) \ {s}) /\ Cardinality(Readers(f) \ {s}) = Cardinality(Readers(f)) - 1
    BY <2>1, <1>4, FS_RemoveElement
  <2>3. Cardinality(Readers(f) \ {s}) \in Nat
    BY <2>2, FS_CardinalityType
  <2> QED BY <2>1, <2>2, <2>3
<1>6. file[f].active - 1 \in 0 .. MaxActive
  <2>1. /\ Cardinality(Readers(f)) \in Nat /\ Cardinality(Readers(f)) <= file[f].active
        /\ file[f].active \in 0 .. MaxActive
    BY <1>4
  <2>2. Cardinality(Readers(f)) - 1 \in Nat
    BY <1>5
  <2>3. file[f].active - 1 >= 0
    BY <2>1, <2>2
  <2> QED BY <2>1, <2>3
<1>7. file' \in [File -> FileRecord] /\ \A g \in File : file'[g].id = file[g].id
  <2>1. PICK n \in 0 .. MaxActive : n = file[f].active - 1
    BY <1>6
  <2>2. file' = file \/ file' = [file EXCEPT ![f].active = n]
    BY <1>3, <2>1
  <2>3. file \in [File -> FileRecord]
    BY DEF TypeOK
  <2>4. CASE file' = file
    BY <2>3, <2>4
  <2>5. CASE file' = [file EXCEPT ![f].active = n]
    BY <2>3, <2>5
  <2> QED BY <2>2, <2>4, <2>5
<1>8. TypeOK'
  <2>1. stream' \in [Stream -> [state : {"closed", "open", "eof", "error"},
                                file : File \cup {None}, fd : File \cup {None},
                                position : Nat \cup {-1}]]
    BY <1>1 DEF TypeOK
  <2> QED BY <1>1, <1>7, <2>1 DEF TypeOK
<1>9. CountInv'
  <2> SUFFICES ASSUME NEW g \in File PROVE Cardinality(Readers(g)') <= file'[g].active
    BY DEF CountInv
  <2>1. CASE g = f
    <3>1. file'[g].active \in {file[g].active, file[g].active - 1}
      BY <1>3, <2>1 DEF TypeOK
    <3> QED BY <2>1, <3>1, <1>4, <1>5
  <2>2. CASE g # f
    <3>1. file'[g].active = file[g].active
      BY <1>3, <2>2 DEF TypeOK
    <3>2. Readers(g)' = Readers(g)
      BY <1>1, <1>2, <2>2 DEF Readers, TypeOK
    <3> QED BY <3>1, <3>2, <1>4
  <2> QED BY <2>1, <2>2
<1>10. StreamInv'
  BY <1>1, <1>7 DEF StreamInv, TypeOK
<1>11. ListInv'
  BY <1>1, <1>7 DEF ListInv, TypeOK
<1>12. AppInv'
  <2>1. app[1] \in {"choose", "open"} => app[3] \in File /\ app[1] # "evict"
    BY DEF TypeOK
  <2> QED BY <1>1, <1>7, <2>1 DEF AppInv
<1>13. ThreadInv'
  BY <1>1, <1>7 DEF ThreadInv, Active
<1> QED BY <1>8, <1>9, <1>10, <1>11, <1>12, <1>13

-----------------------------------------------------------------------------
\* The steps and the names.

\* No step that only takes references away gives a file two owners.
LEMMA OwnFrame ==
  ASSUME OwnInv, NameInv', \A n \in File, i \in Id : Uses(n, i)' => Uses(n, i)
  PROVE  OwnInv'
BY DEF OwnInv, UseInv

\* After a start only complete files have a name.
LEMMA RebootOwn ==
  ASSUME BaseInv, OwnInv, NEW dir \in [Id -> File \cup {None}], Reboot(dir),
         \A i \in Id : dir[i] \in {None, final[i]}
  PROVE  OwnInv'
<1>1. /\ final' = dir /\ tmp' = [i \in Id |-> None]
      /\ thread' = [f \in File |-> NoThread] /\ stream' = [s \in Stream |-> Closed]
  BY DEF Reboot
<1>2. ASSUME NEW n \in File, NEW i \in Id, Uses(n, i)' PROVE n = final[i]
  BY <1>1, <1>2 DEF Uses
<1>3. NameInv'
  BY <1>1 DEF NameInv
<1>4. \A n \in File, i \in Id : Uses(n, i)' => Uses(n, i)
  BY <1>2 DEF Uses
<1> QED BY <1>3, <1>4, OwnFrame

\* No two names are the same file.
LEMMA OwnNames ==
  ASSUME OwnInv, NEW dir \in [Id -> File \cup {None}], \A i \in Id : dir[i] \in {None, final[i]}
  PROVE  \A i, j \in Id : dir[i] # None /\ dir[i] = dir[j] => i = j
<1> SUFFICES ASSUME NEW i \in Id, NEW j \in Id, dir[i] # None, dir[i] = dir[j] PROVE i = j
  OBVIOUS
<1>1. dir[i] \in File /\ dir[i] = final[i] /\ dir[i] = final[j]
  OBVIOUS
<1>2. Uses(dir[i], i) /\ Uses(dir[i], j)
  BY <1>1 DEF Uses
<1> QED BY <1>1, <1>2 DEF OwnInv, UseInv

\* Removing files takes names away.
LEMMA RemoveOwn ==
  ASSUME BaseInv, OwnInv, SameFiles, UNCHANGED <<tmp, thread, stream>>,
         \A i \in Id : final'[i] \in {None, final[i]}
  PROVE  OwnInv'
<1>1. ASSUME NEW n \in File, NEW i \in Id, Uses(n, i)' PROVE Uses(n, i)
  <2>1. CASE n = tmp'[i] \/ n = final'[i]
    BY <2>1 DEF Uses
  <2>2. CASE \E g \in File : thread'[g].inode = n /\ file'[g].id = i
    BY <2>2 DEF Uses, SameFiles
  <2>3. CASE \E s \in Stream : stream'[s].state # "closed" /\ stream'[s].fd = n
                               /\ file'[stream'[s].file].id = i
    BY <2>3 DEF Uses, SameFiles, BaseInv, StreamInv
  <2> QED BY <1>1, <2>1, <2>2, <2>3 DEF Uses
<1>2. NameInv'
  BY DEF OwnInv, NameInv
<1> QED BY <1>1, <1>2, OwnFrame

\* A thread only gives names away, and renames within an id.
LEMMA FetchOwn == ASSUME BaseInv, OwnInv, NEW f \in File, Fetch(f) PROVE OwnInv'
<1>1. SameFiles /\ BaseInv'
  BY FetchBase
<1>2. PICK j \in Id : j = file[f].id
  BY DEF BaseInv, ThreadInv, Active, Fetch, ReadSource, Write, Done, Check, Rename, Finish, At
<1>3. /\ UNCHANGED stream
      /\ \A g \in File : thread'[g].inode \in {None, thread[g].inode}
  <2>1. UNCHANGED stream
    BY DEF Fetch, ReadSource, Write, Done, Check, Rename, Finish, OfThread
  <2>2. \/ thread' = [thread EXCEPT ![f].pc = "done"]
        \/ thread' = [thread EXCEPT ![f].pc = "write", ![f].read = @ + 1]
        \/ thread' = [thread EXCEPT ![f].pc = "read", ![f].offset = @ + 1]
        \/ thread' = [thread EXCEPT ![f].pc = "read"]
        \/ thread' = [thread EXCEPT ![f].pc = "check"]
        \/ thread' = [thread EXCEPT ![f].pc = "rename"]
        \/ thread' = [thread EXCEPT ![f].pc = "finish"]
        \/ thread' = [thread EXCEPT ![f] = NoThread]
    BY DEF Fetch, ReadSource, Write, Done, Check, Rename, Finish
  <2>3. thread \in [File -> [pc : {"none", "read", "write", "done", "check", "rename", "finish"},
                              read : Nat, offset : Nat, inode : File \cup {None}]]
    BY DEF BaseInv, TypeOK
  <2> QED BY <2>1, <2>2, <2>3
<1>4. \/ UNCHANGED <<tmp, final>>
      \/ final' = [final EXCEPT ![j] = tmp[j]] /\ tmp' = [tmp EXCEPT ![j] = None]
      \/ tmp' = [tmp EXCEPT ![j] = None] /\ UNCHANGED final
  BY <1>2 DEF Fetch, ReadSource, Write, Done, Check, Rename, Finish
<1>5. ASSUME NEW i \in Id
      PROVE  /\ tmp'[i] \in {None, tmp[i]} /\ final'[i] \in {final[i], tmp[i]}
             /\ tmp'[i] = None \/ final'[i] = final[i]
  <2>1. tmp \in [Id -> File \cup {None}] /\ final \in [Id -> File \cup {None}]
    BY DEF BaseInv, TypeOK
  <2> QED BY <2>1, <1>4
<1>6. ASSUME NEW n \in File, NEW i \in Id, Uses(n, i)' PROVE Uses(n, i)
  <2>1. CASE n = tmp'[i] \/ n = final'[i]
    BY <2>1, <1>5 DEF Uses
  <2>2. CASE \E g \in File : thread'[g].inode = n /\ file'[g].id = i
    BY <2>2, <1>1, <1>3 DEF Uses, SameFiles
  <2>3. CASE \E s \in Stream : stream'[s].state # "closed" /\ stream'[s].fd = n
                               /\ file'[stream'[s].file].id = i
    BY <2>3, <1>1, <1>3 DEF Uses, SameFiles, BaseInv, StreamInv
  <2> QED BY <1>6, <2>1, <2>2, <2>3 DEF Uses
<1>7. NameInv'
  BY <1>5 DEF OwnInv, NameInv
<1> QED BY <1>6, <1>7, OwnFrame

\* A stream opens one of the files of its id.
LEMMA OpenOwn ==
  ASSUME BaseInv, OwnInv, NEW s \in Stream, NEW f \in File, NEW temp \in BOOLEAN, Open(s, f, temp)
  PROVE  OwnInv'
<1>1. PICK i \in Id : i = file[f].id
  BY DEF BaseInv, AppInv, Open
<1>2. PICK fd \in {tmp[i], final[i]} :
        stream' = [stream EXCEPT ![s] = [state |-> "open", file |-> f, position |-> 0, fd |-> fd]]
  BY <1>1 DEF Open
<1>3. UNCHANGED <<thread, tmp, final>> /\ \A g \in File : file'[g].id = file[g].id
  BY DEF Open, BaseInv, TypeOK
<1>4. \A r \in Stream : IF r = s THEN stream'[r].fd = fd /\ stream'[r].file = f
                        ELSE stream'[r] = stream[r]
  BY <1>2 DEF BaseInv, TypeOK
<1>5. ASSUME NEW n \in File, NEW j \in Id, Uses(n, j)' PROVE Uses(n, j)
  <2>1. CASE n = tmp'[j] \/ n = final'[j]
    BY <2>1, <1>3 DEF Uses
  <2>2. CASE \E g \in File : thread'[g].inode = n /\ file'[g].id = j
    BY <2>2, <1>3 DEF Uses
  <2>3. CASE \E r \in Stream : stream'[r].state # "closed" /\ stream'[r].fd = n
                               /\ file'[stream'[r].file].id = j
    <3>1. PICK r \in Stream : stream'[r].state # "closed" /\ stream'[r].fd = n
                              /\ file'[stream'[r].file].id = j
      BY <2>3
    <3>2. CASE r = s
      BY <3>1, <3>2, <1>1, <1>2, <1>3, <1>4 DEF Uses
    <3>3. CASE r # s
      BY <3>1, <3>3, <1>3, <1>4 DEF Uses, BaseInv, StreamInv
    <3> QED BY <3>2, <3>3
  <2> QED BY <1>5, <2>1, <2>2, <2>3 DEF Uses
<1>6. NameInv'
  BY <1>3 DEF OwnInv, NameInv
<1> QED BY <1>5, <1>6, OwnFrame

\* Reading and closing changes neither the file of a stream nor what is in it.
LEMMA ReadSame ==
  ASSUME BaseInv, NEW s \in Stream, SeeEos(s) \/ ReadStream(s) \/ Close(s)
  PROVE  /\ UNCHANGED <<cachedFiles, thread, diskVars, contended>>
         /\ \A g \in File : /\ file'[g].id = file[g].id /\ file'[g].invalid = file[g].invalid
                            /\ file'[g].fetched = file[g].fetched
         /\ \A r \in Stream : stream'[r].state # "closed" =>
              /\ stream[r].state # "closed" /\ stream'[r].file = stream[r].file
              /\ stream'[r].fd = stream[r].fd
              /\ stream'[r].state = "open" => stream[r].state = "open"
<1>1. UNCHANGED <<cachedFiles, thread, diskVars, contended>>
  BY DEF SeeEos, ReadStream, Close, OfStream
<1>2. ASSUME NEW g \in File
      PROVE  /\ file'[g].id = file[g].id /\ file'[g].invalid = file[g].invalid
             /\ file'[g].fetched = file[g].fetched
  <2>1. file[g] \in FileRecord
    BY DEF BaseInv, TypeOK
  <2>2. CASE file' = file
    BY <2>1, <2>2
  <2>3. CASE Close(s) /\ file' # file
    <3>1. PICK f \in File : f = stream[s].file
      BY <2>3 DEF Close, BaseInv, StreamInv
    <3>2. file' = [file EXCEPT ![f].active = @ - 1]
      BY <2>3, <3>1 DEF Close
    <3>3. file'[g] = file[g] \/ file'[g] = [file[g] EXCEPT !.active = @ - 1]
      BY <3>2 DEF BaseInv, TypeOK
    <3> QED BY <2>1, <3>3
  <2> QED BY <2>2, <2>3 DEF SeeEos, ReadStream, OfStream
<1>3. ASSUME NEW r \in Stream, stream'[r].state # "closed"
      PROVE  /\ stream[r].state # "closed" /\ stream'[r].file = stream[r].file
             /\ stream'[r].fd = stream[r].fd
             /\ stream'[r].state = "open" => stream[r].state = "open"
  <2>1. CASE SeeEos(s) \/ ReadStream(s)
    <3>1. /\ stream[s].state = "open" /\ stream' = [stream EXCEPT ![s] = stream'[s]]
          /\ stream'[s].file = stream[s].file /\ stream'[s].fd = stream[s].fd
      BY <2>1, ReadFacts DEF BaseInv
    <3> QED BY <1>3, <3>1 DEF BaseInv, TypeOK
  <2>2. CASE Close(s)
    BY <1>3, <2>2 DEF Close, BaseInv, TypeOK
  <2> QED BY <2>1, <2>2
<1> QED BY <1>1, <1>2, <1>3

\* Reading and closing opens nothing.
LEMMA ReadOwn ==
  ASSUME BaseInv, OwnInv, NEW s \in Stream, SeeEos(s) \/ ReadStream(s) \/ Close(s)
  PROVE  OwnInv'
<1>1. UNCHANGED <<thread, tmp, final>>
  BY ReadSame
<1>2. \A g \in File : file'[g].id = file[g].id
  BY ReadSame
<1>3. \A r \in Stream : stream'[r].state # "closed" =>
        stream[r].state # "closed" /\ stream'[r].fd = stream[r].fd /\ stream'[r].file = stream[r].file
  BY ReadSame
<1>4. ASSUME NEW n \in File, NEW j \in Id, Uses(n, j)' PROVE Uses(n, j)
  <2>1. CASE n = tmp'[j] \/ n = final'[j]
    BY <2>1, <1>1 DEF Uses
  <2>2. CASE \E g \in File : thread'[g].inode = n /\ file'[g].id = j
    BY <2>2, <1>1, <1>2 DEF Uses
  <2>3. CASE \E r \in Stream : stream'[r].state # "closed" /\ stream'[r].fd = n
                               /\ file'[stream'[r].file].id = j
    BY <2>3, <1>2, <1>3 DEF Uses, BaseInv, StreamInv
  <2> QED BY <1>4, <2>1, <2>2, <2>3 DEF Uses
<1>5. NameInv'
  BY <1>1 DEF OwnInv, NameInv
<1> QED BY <1>4, <1>5, OwnFrame

\* What a call that makes room for a new file does.
Evicts(i, gone, f, inode) ==
  /\ Spare(f) /\ inode = IF tmp[i] = None THEN f ELSE tmp[i]
  /\ \A g \in gone : g \in Listed /\ ~(file[g].active > 0)
  /\ file'[f].id = i /\ file'[f].fetched = 0 /\ file'[f].invalid = FALSE
  /\ file'[f].expected \in Announced[i] /\ (thread'[f].pc = "none" => "thread" \in Faults)
  /\ thread'[f].pc \in {"read", "none"} /\ thread'[f].read = 0 /\ thread'[f].offset = 0
  /\ thread'[f].inode = inode
  /\ \A g \in File \ {f} : thread'[g] = thread[g] /\ file'[g] = IF g \in gone THEN Removed(g) ELSE file[g]
  /\ final' = Unlinked(gone) /\ cachedFiles' = [Dropped(gone) EXCEPT ![i] = f]
  /\ tmp' = [tmp EXCEPT ![i] = inode] /\ content' = [content EXCEPT ![f] = <<>>]
  /\ contended' = (IF \E g \in File : file[g].id = i /\ thread[g].pc # "none"
                     THEN contended \cup {i} ELSE contended)
  /\ UNCHANGED <<stream, used>>

\* Files that nobody reads go, and an unused object takes the new stream.
LEMMA EvictFacts ==
  ASSUME BaseInv, NEW s \in Stream, NEW i \in Id, NEW expected \in Announced[i],
         Evict(s, i, expected), ~ListExhausted(maxSize, expected)
  PROVE  /\ cachedFiles[i] = None
         /\ \E gone \in SUBSET File, f \in File, inode \in File : Evicts(i, gone, f, inode)
<1> USE DEF BaseInv
<1>1. /\ app = <<"evict", s, i, expected>>
      /\ UNCHANGED <<maxSize, stream, used, restarts>>
      /\ contended' = (IF \E g \in File : file[g].id = i /\ thread[g].pc # "none"
                         THEN contended \cup {i} ELSE contended)
  BY EvictTakes
<1>0. PICK gone \in OldFiles(maxSize, expected), f \in {g \in File : Spare(g)} :
        \E inode, start : Takes(s, i, expected, gone, f, inode, start)
  BY EvictTakes
<1>2. PICK inode, start : Takes(s, i, expected, gone, f, inode, start)
  BY <1>0
<1>3. /\ start \in {"read", "none"} /\ (start = "none" => "thread" \in Faults)
      /\ thread' = [thread EXCEPT ![f] = [NoThread EXCEPT !.pc = start, !.inode = inode]]
  BY <1>2 DEF Takes
<1>4. f \in File /\ gone \in SUBSET File /\ inode \in File /\ expected \in Nat
  BY <1>2, OldFilesFacts DEF Takes, TypeOK
<1>5. file'[f] = [id |-> i, expected |-> expected, fetched |-> 0, fetching |-> TRUE,
                  invalid |-> FALSE, pendingClose |-> FALSE, active |-> 0, timestamp |-> 0]
  BY <1>2, <1>4 DEF Takes
<1>6. thread'[f] = [pc |-> start, read |-> 0, offset |-> 0, inode |-> inode]
  <2>1. thread'[f] = [NoThread EXCEPT !.pc = start, !.inode = inode]
    BY <1>3, <1>4 DEF TypeOK
  <2> QED BY <2>1
<1>7. \A g \in File \ {f} : thread'[g] = thread[g]
                            /\ file'[g] = IF g \in gone THEN Removed(g) ELSE file[g]
  <2>1. \A g \in File \ {f} : thread'[g] = thread[g]
    BY <1>3 DEF TypeOK
  <2>2. \A g \in File \ {f} : file'[g] = IF g \in gone THEN Removed(g) ELSE file[g]
    BY <1>2 DEF Takes
  <2> QED BY <2>1, <2>2
<1>8. \A g \in gone : g \in Listed /\ ~(file[g].active > 0)
  BY <1>2, OldFilesFacts DEF Takes
<1>9. Spare(f) /\ inode = IF tmp[i] = None THEN f ELSE tmp[i]
  BY <1>2 DEF Takes
<1>10. /\ file'[f].id = i /\ file'[f].fetched = 0 /\ file'[f].invalid = FALSE
       /\ file'[f].expected \in Announced[i]
  BY <1>5
<1>11. /\ thread'[f].pc \in {"read", "none"} /\ thread'[f].read = 0 /\ thread'[f].offset = 0
       /\ thread'[f].inode = inode
  BY <1>3, <1>6
<1>12. thread'[f].pc = "none" => "thread" \in Faults
  BY <1>3, <1>6
<1>13. Evicts(i, gone, f, inode)
  BY <1>1, <1>2, <1>7, <1>8, <1>9, <1>10, <1>11, <1>12 DEF Takes, Evicts
<1>14. cachedFiles[i] = None
  BY <1>1 DEF AppInv
<1> QED BY <1>4, <1>13, <1>14

\* The new stream is written to the .tmp file of its id, or to a new one.
LEMMA EvictOwn ==
  ASSUME BaseInv, OwnInv, NEW i \in Id, NEW gone \in SUBSET File, NEW f \in File, NEW inode \in File,
         Evicts(i, gone, f, inode)
  PROVE  OwnInv'
<1>1. /\ \A j \in Id : f # tmp[j] /\ f # final[j]
      /\ \A s \in Stream : f # stream[s].file /\ f # stream[s].fd
      /\ \A g \in File : f # thread[g].inode
  BY DEF Evicts, Spare
<1>2. \A j \in Id : tmp'[j] = IF j = i THEN inode ELSE tmp[j]
  BY DEF Evicts, BaseInv, TypeOK
<1>3. \A j \in Id : final'[j] \in {None, final[j]}
  BY DEF Evicts, Unlinked
<1>4. \A g \in File : g # f => file'[g].id = file[g].id /\ thread'[g] = thread[g]
  BY RemovedFacts DEF Evicts, BaseInv
<1>5. stream' = stream /\ file'[f].id = i /\ thread'[f].inode = inode
  BY DEF Evicts
<1>6. \A n \in File, j \in Id : ~Uses(f, j)
  BY <1>1 DEF Uses
<1>7. inode = f \/ Uses(inode, i)
  BY DEF Evicts, Uses
<1>8. ASSUME NEW n \in File, NEW j \in Id, Uses(n, j)'
      PROVE  Uses(n, j) \/ (n = inode /\ j = i)
  <2>1. CASE n = tmp'[j] \/ n = final'[j]
    BY <2>1, <1>2, <1>3 DEF Uses
  <2>2. CASE \E g \in File : thread'[g].inode = n /\ file'[g].id = j
    BY <2>2, <1>4, <1>5 DEF Uses
  <2>3. CASE \E s \in Stream : stream'[s].state # "closed" /\ stream'[s].fd = n
                               /\ file'[stream'[s].file].id = j
    <3>1. PICK s \in Stream : stream[s].state # "closed" /\ stream[s].fd = n
                              /\ file'[stream[s].file].id = j
      BY <2>3, <1>5
    <3>2. stream[s].file \in File /\ stream[s].file # f
      BY <3>1, <1>1 DEF BaseInv, StreamInv
    <3> QED BY <3>1, <3>2, <1>4 DEF Uses
  <2> QED BY <1>8, <2>1, <2>2, <2>3 DEF Uses
<1>9. UseInv'
  <2> SUFFICES ASSUME NEW n \in File, NEW j \in Id, NEW k \in Id, Uses(n, j)', Uses(n, k)' PROVE j = k
    BY DEF UseInv
  <2>1. /\ Uses(n, j) \/ (n = inode /\ j = i)
        /\ Uses(n, k) \/ (n = inode /\ k = i)
    BY <1>8
  <2> QED BY <2>1, <1>6, <1>7 DEF OwnInv, UseInv
<1>10. NameInv'
  <2> SUFFICES ASSUME NEW j \in Id, tmp'[j] # None PROVE tmp'[j] # final'[j]
    BY DEF NameInv
  <2>1. CASE tmp'[j] = f
    BY <2>1, <1>1, <1>3
  <2>2. CASE tmp'[j] # f
    <3>1. tmp'[j] = tmp[j]
      BY <2>2, <1>2 DEF Evicts
    <3> QED BY <3>1, <1>3 DEF OwnInv, NameInv
  <2> QED BY <2>1, <2>2
<1> QED BY <1>9, <1>10 DEF OwnInv

-----------------------------------------------------------------------------
\* The files of readers.

\* A file with a stream is counted as read.
LEMMA ReadCounted ==
  ASSUME BaseInv, NEW s \in Stream, stream[s].state # "closed"
  PROVE  stream[s].file \in File /\ file[stream[s].file].active > 0
<1>1. PICK f \in File : f = stream[s].file
  BY DEF BaseInv, StreamInv
<1>2. Readers(f) \subseteq Stream /\ s \in Readers(f)
  BY <1>1 DEF Readers
<1>3. IsFiniteSet(Readers(f)) /\ Cardinality(Readers(f)) \in Nat
  BY <1>2, FS_Subset, FS_CardinalityType
<1>4. Cardinality(Readers(f)) # 0
  BY <1>2, <1>3, FS_EmptySet
<1>5. Cardinality(Readers(f)) <= file[f].active /\ file[f].active \in 0 .. MaxActive
  BY DEF BaseInv, CountInv, TypeOK
<1> QED BY <1>1, <1>3, <1>4, <1>5

\* Readers keep what stays listed.
LEMMA KeepFrame ==
  ASSUME BaseInv, ReadersKeepFile,
         \A s \in Stream : stream'[s].state # "closed" =>
           /\ stream[s].state # "closed" /\ stream'[s].file = stream[s].file
           /\ file'[stream[s].file].id = file[stream[s].file].id
           /\ cachedFiles'[file[stream[s].file].id] = cachedFiles[file[stream[s].file].id]
  PROVE  ReadersKeepFile'
BY DEF ReadersKeepFile

\* Removing files that nobody reads leaves those of readers listed.
LEMMA RemoveKeep ==
  ASSUME BaseInv, SameFiles, ReadersKeepFile, UNCHANGED stream,
         NEW dropped \in SUBSET File, \A f \in dropped : ~(file[f].active > 0),
         cachedFiles' = Dropped(dropped)
  PROVE  ReadersKeepFile'
<1>1. ASSUME NEW s \in Stream, stream'[s].state # "closed"
      PROVE  /\ stream[s].state # "closed" /\ stream'[s].file = stream[s].file
             /\ file'[stream[s].file].id = file[stream[s].file].id
             /\ cachedFiles'[file[stream[s].file].id] = cachedFiles[file[stream[s].file].id]
  <2>1. PICK f \in File, j \in Id : f = stream[s].file /\ j = file[f].id
    BY <1>1 DEF BaseInv, StreamInv
  <2>2. cachedFiles[j] = f /\ f \notin dropped
    BY <1>1, <2>1, ReadCounted DEF ReadersKeepFile
  <2>3. cachedFiles'[j] = f
    BY <2>2 DEF Dropped
  <2> QED BY <1>1, <2>1, <2>2, <2>3 DEF SameFiles
<1> QED BY <1>1, KeepFrame

\* So does making room.
LEMMA EvictKeep ==
  ASSUME BaseInv, ReadersKeepFile, NEW i \in Id, cachedFiles[i] = None, NEW gone \in SUBSET File,
         NEW f \in File, NEW inode \in File, Evicts(i, gone, f, inode)
  PROVE  ReadersKeepFile'
<1>1. ASSUME NEW s \in Stream, stream'[s].state # "closed"
      PROVE  /\ stream[s].state # "closed" /\ stream'[s].file = stream[s].file
             /\ file'[stream[s].file].id = file[stream[s].file].id
             /\ cachedFiles'[file[stream[s].file].id] = cachedFiles[file[stream[s].file].id]
  <2>1. stream[s].state # "closed" /\ stream'[s].file = stream[s].file
    BY <1>1 DEF Evicts
  <2>2. PICK g \in File, j \in Id : g = stream[s].file /\ j = file[g].id
    BY <2>1 DEF BaseInv, StreamInv
  <2>3. cachedFiles[j] = g /\ g \notin gone /\ j # i
    BY <2>1, <2>2, ReadCounted DEF ReadersKeepFile, Evicts
  <2>4. g # f
    BY <2>2 DEF Evicts, Spare
  <2>5. cachedFiles'[j] = g
    BY <2>3 DEF Evicts, Dropped
  <2>6. file'[g].id = j
    BY <2>2, <2>3, <2>4 DEF Evicts
  <2> QED BY <2>1, <2>2, <2>3, <2>5, <2>6
<1> QED BY <1>1, KeepFrame

\* What is opened is listed.
LEMMA OpenKeep ==
  ASSUME BaseInv, ReadersKeepFile, NEW s \in Stream, NEW f \in File, NEW temp \in BOOLEAN,
         Open(s, f, temp)
  PROVE  ReadersKeepFile'
<1>1. UNCHANGED cachedFiles /\ \A g \in File : file'[g].id = file[g].id
  BY DEF Open, BaseInv, TypeOK
<1>2. \A r \in Stream : IF r = s THEN stream'[r].file = f ELSE stream'[r] = stream[r]
  BY DEF Open, BaseInv, TypeOK
<1>3. cachedFiles[file[f].id] = f
  BY DEF Open, BaseInv, AppInv
<1>4. \A r \in Stream : stream[r].state # "closed" => stream[r].file \in File
  BY DEF BaseInv, StreamInv
<1> QED BY <1>1, <1>2, <1>3, <1>4 DEF ReadersKeepFile

\* Reading and closing leaves the table alone.
LEMMA ReadKeep ==
  ASSUME BaseInv, ReadersKeepFile, NEW s \in Stream, SeeEos(s) \/ ReadStream(s) \/ Close(s)
  PROVE  ReadersKeepFile'
<1>1. UNCHANGED cachedFiles
  BY ReadSame
<1>2. \A g \in File : file'[g].id = file[g].id
  BY ReadSame
<1>3. \A r \in Stream : stream'[r].state # "closed" =>
        stream[r].state # "closed" /\ stream'[r].file = stream[r].file
  BY ReadSame
<1>4. \A r \in Stream : stream[r].state # "closed" => stream[r].file \in File
  BY DEF BaseInv, StreamInv
<1> QED BY <1>1, <1>2, <1>3, <1>4, KeepFrame

-----------------------------------------------------------------------------
\* What is in the files of ids that no two threads downloaded at one time.

\* The first n chunks, in their order.
Upto(c, n) == Len(c) = n /\ \A k \in 1 .. n : c[k] = k

AloneInv == \A f, g \in File :
  Active(f) /\ Active(g) /\ file[f].id = file[g].id /\ file[f].id \notin contended => f = g

\* A .tmp file that no thread writes is as its creator left it.
TmpOf(i) ==
  tmp[i] # None /\ (\A f \in File : Active(f) => file[f].id # i) => content[tmp[i]] = <<>>

\* A thread writes the .tmp file of its id, knows what is in it, and renames it when
\* all is there.
FetchOf(f) ==
  /\ Fetching(f) => tmp[file[f].id] = thread[f].inode
  /\ thread[f].pc \in {"read", "write", "done", "check"} /\ ~file[f].invalid =>
       /\ Upto(content[thread[f].inode], file[f].fetched) /\ thread[f].offset = file[f].fetched
       /\ thread[f].read = file[f].fetched + (IF thread[f].pc = "write" THEN 1 ELSE 0)
  /\ thread[f].read <= Length[file[f].id]
  /\ thread[f].pc \in {"done", "check"} /\ ~file[f].invalid => thread[f].read = Length[file[f].id]
  /\ thread[f].pc = "rename" => content[thread[f].inode] = Whole(file[f].id)
  /\ thread[f].pc = "finish" /\ ~file[f].invalid => tmp[file[f].id] = None

\* A download that never began has nothing, one that succeeded left no .tmp file.
FetchedOf(f) ==
  /\ ~file[f].invalid => file[f].fetched <= Length[file[f].id]
  /\ ~Active(f) /\ ~file[f].invalid /\ cachedFiles[file[f].id] = f
       => file[f].fetched = 0 \/ tmp[file[f].id] = None

\* A stream reads what will never be there, what is complete, or what its thread writes.
ReadOf(s) ==
  LET f == stream[s].file
      n == stream[s].fd
  IN stream[s].state = "open" /\ n # None /\ ~file[f].invalid /\ file[f].id \notin contended =>
       \/ file[f].fetched = 0 /\ thread[f].pc = "none"
       \/ content[n] = Whole(file[f].id) /\ n # tmp[file[f].id]
       \/ Fetching(f) /\ thread[f].inode = n

ContentInv ==
  /\ AloneInv
  /\ \A i \in Id \ contended : TmpOf(i)
  /\ \A f \in File : Active(f) /\ file[f].id \notin contended => FetchOf(f)
  /\ \A f \in File : file[f].id \in Id \ contended => FetchedOf(f)
  /\ \A s \in Stream : ReadOf(s)
  /\ CompleteAlone

\* One more chunk at the end.
LEMMA UptoAppend ==
  ASSUME NEW c \in Seq(Nat), NEW n \in Nat, Upto(c, n)
  PROVE  Upto(Written(c, n, n + 1), n + 1)
<1>1. Written(c, n, n + 1) = Append(c, n + 1)
  BY DEF Upto, Written
<1>2. Len(Append(c, n + 1)) = n + 1 /\ \A k \in 1 .. n + 1 : Append(c, n + 1)[k] = k
  BY DEF Upto
<1> QED BY <1>1, <1>2 DEF Upto

\* All the chunks are the whole stream.
LEMMA UptoWhole ==
  ASSUME NEW c \in Seq(Nat), NEW i \in Id, Upto(c, Length[i])
  PROVE  c = Whole(i)
<1>1. Length[i] \in Nat /\ Len(c) = Length[i]
  BY DEF Upto
<1>2. c = [k \in 1 .. Len(c) |-> c[k]]
  OBVIOUS
<1> QED BY <1>1, <1>2 DEF Upto, Whole

\* The whole stream has its length.
LEMMA WholeLength ==
  ASSUME NEW i \in Id
  PROVE  Len(Whole(i)) = Length[i] /\ \A k \in 1 .. Length[i] : Whole(i)[k] = k
<1>1. Length[i] \in Nat
  OBVIOUS
<1> QED BY <1>1 DEF Whole

\* After a start no thread runs and only complete files are there.
LEMMA RebootContent ==
  ASSUME BaseInv, OwnInv, ContentInv, NEW dir \in [Id -> File \cup {None}], Reboot(dir),
         \A i \in Id : dir[i] \in {None, final[i]}
  PROVE  ContentInv'
<1>1. /\ cachedFiles' = dir /\ final' = dir /\ tmp' = [i \in Id |-> None]
      /\ thread' = [f \in File |-> NoThread] /\ stream' = [s \in Stream |-> Closed]
      /\ contended' = contended
  BY DEF Reboot
<1>2. \A f \in File : ~Active(f)'
  BY <1>1 DEF Active
<1>3. ASSUME NEW i \in Id, dir[i] # None
      PROVE  dir[i] \in File /\ content'[dir[i]] = content[dir[i]]
  BY <1>3 DEF Reboot
<1>4. CompleteAlone'
  <2> SUFFICES ASSUME NEW i \in Id \ contended, dir[i] # None
               PROVE  content'[dir[i]] = Whole(i)
    BY <1>1 DEF CompleteAlone, Whole
  <2>1. dir[i] = final[i]
    OBVIOUS
  <2> QED BY <2>1, <1>3 DEF ContentInv, CompleteAlone
<1>5. ASSUME NEW f \in File, file'[f].id \in Id \ contended'
      PROVE  FetchedOf(f)'
  <2>1. CASE \E i \in Id : dir[i] = f
    <3>1. PICK i \in Id : i = (CHOOSE j \in Id : dir[j] = f) /\ dir[i] = f
      BY <2>1
    <3>2. file'[f] = FromDisk(f, i)
      BY <2>1, <3>1 DEF Reboot
    <3>3. file'[f].id = i /\ file'[f].fetched = Len(content[f])
      BY <3>2 DEF FromDisk
    <3>4. content[f] = Whole(i)
      BY <1>1, <1>5, <3>1, <3>3 DEF ContentInv, CompleteAlone
    <3>5. file'[f].fetched = Length[i] /\ Length[i] \in Nat
      BY <3>3, <3>4, WholeLength
    <3>6. tmp'[i] = None
      BY <1>1
    <3> QED BY <3>3, <3>5, <3>6 DEF FetchedOf
  <2>2. CASE ~(\E i \in Id : dir[i] = f)
    <3>1. file'[f] = NoFile
      BY <2>2 DEF Reboot
    <3> QED BY <1>5, <3>1
  <2> QED BY <2>1, <2>2
<1>6. \A s \in Stream : ReadOf(s)'
  BY <1>1 DEF ReadOf
<1>7. AloneInv'
  BY <1>2 DEF AloneInv
<1>8. \A i \in Id : TmpOf(i)'
  BY <1>1 DEF TmpOf
<1> QED BY <1>2, <1>4, <1>5, <1>6, <1>7, <1>8 DEF ContentInv

\* A step that leaves the downloads alone, and only takes files and streams away.
LEMMA ContentFrame ==
  ASSUME BaseInv, ContentInv, UNCHANGED <<thread, tmp, content, contended>>,
         \A i \in Id : final'[i] \in {None, final[i]} /\ cachedFiles'[i] \in {None, cachedFiles[i]},
         \A f \in File : /\ file'[f].id = file[f].id /\ file'[f].fetched = file[f].fetched
                         /\ ~file'[f].invalid => ~file[f].invalid,
         \A s \in Stream : stream'[s].state = "open" =>
           /\ stream[s].state = "open" /\ stream'[s].file = stream[s].file
           /\ stream'[s].fd = stream[s].fd
  PROVE  ContentInv'
<1>1. AloneInv'
  BY DEF ContentInv, AloneInv, Active
<1>2. \A i \in Id \ contended' : TmpOf(i)'
  BY DEF ContentInv, TmpOf, Active
<1>3. ASSUME NEW f \in File, Active(f)', file'[f].id \notin contended'
      PROVE  FetchOf(f)'
  <2>1. FetchOf(f) /\ file'[f].id = file[f].id /\ file'[f].fetched = file[f].fetched
        /\ (~file'[f].invalid => ~file[f].invalid)
    BY <1>3 DEF ContentInv, Active
  <2> QED BY <2>1 DEF FetchOf, Fetching, Upto, Whole
<1>4. ASSUME NEW f \in File, file'[f].id \in Id \ contended'
      PROVE  FetchedOf(f)'
  <2>1. FetchedOf(f) /\ file'[f].id = file[f].id /\ file'[f].fetched = file[f].fetched
        /\ (~file'[f].invalid => ~file[f].invalid)
    BY <1>4 DEF ContentInv
  <2>2. cachedFiles'[file[f].id] = f => cachedFiles[file[f].id] = f
    BY <1>4, <2>1
  <2> QED BY <2>1, <2>2 DEF FetchedOf, Active
<1>5. ASSUME NEW s \in Stream PROVE ReadOf(s)'
  <2>1. CASE stream'[s].state = "open"
    <3>1. PICK f \in File : f = stream[s].file
      BY <2>1 DEF BaseInv, StreamInv
    <3>2. ReadOf(s) /\ stream[s].state = "open" /\ stream'[s].file = f /\ stream'[s].fd = stream[s].fd
      BY <2>1, <3>1 DEF ContentInv
    <3>3. file'[f].id = file[f].id /\ file'[f].fetched = file[f].fetched
          /\ (~file'[f].invalid => ~file[f].invalid)
      OBVIOUS
    <3> QED BY <3>1, <3>2, <3>3 DEF ReadOf, Fetching, Whole
  <2>2. CASE stream'[s].state # "open"
    BY <2>2 DEF ReadOf
  <2> QED BY <2>1, <2>2
<1>6. CompleteAlone'
  BY DEF ContentInv, CompleteAlone, Whole
<1> QED BY <1>1, <1>2, <1>3, <1>4, <1>5, <1>6 DEF ContentInv

\* A new stream reads the file that its download writes, a complete one, or nothing.
LEMMA OpenContent ==
  ASSUME BaseInv, OwnInv, ContentInv, NEW s \in Stream, NEW f \in File, NEW temp \in BOOLEAN,
         Open(s, f, temp)
  PROVE  ContentInv'
<1>1. UNCHANGED <<cachedFiles, thread, tmp, final, content, contended>>
  BY DEF Open
<1>2. PICK i \in Id : i = file[f].id /\ cachedFiles[i] = f
  BY DEF Open, BaseInv, AppInv
<1>3. PICK fd \in {tmp[i], final[i]} :
        /\ stream' = [stream EXCEPT ![s] = [state |-> "open", file |-> f, position |-> 0, fd |-> fd]]
        /\ fd = IF temp THEN tmp[i] ELSE final[i]
  BY <1>2 DEF Open
<1>4. \A g \in File : /\ file'[g].id = file[g].id /\ file'[g].fetched = file[g].fetched
                      /\ file'[g].invalid = file[g].invalid
  <2>1. PICK n : file' = [file EXCEPT ![f].active = n]
    BY DEF Open
  <2>2. file \in [File -> FileRecord]
    BY DEF BaseInv, TypeOK
  <2> HIDE DEF FileRecord
  <2>3. ASSUME NEW g \in File
        PROVE  /\ file'[g].id = file[g].id /\ file'[g].fetched = file[g].fetched
               /\ file'[g].invalid = file[g].invalid
    <3>1. file'[g] = IF g = f THEN [file[g] EXCEPT !.active = n] ELSE file[g]
      BY <2>1, <2>2
    <3>2. file[g] \in FileRecord
      BY <2>2
    <3> QED BY <3>1, <3>2 DEF FileRecord
  <2> QED BY <2>3
<1>5. stream'[s] = [state |-> "open", file |-> f, position |-> 0, fd |-> fd]
      /\ \A r \in Stream \ {s} : stream'[r] = stream[r]
  BY <1>3 DEF BaseInv, TypeOK
<1>6. ASSUME fd # None, ~file[f].invalid, i \notin contended
      PROVE  \/ file[f].fetched = 0 /\ thread[f].pc = "none"
             \/ content[fd] = Whole(i) /\ fd # tmp[i]
             \/ Fetching(f) /\ thread[f].inode = fd
  <2>1. Active(f) => FetchOf(f)
    BY <1>2, <1>6 DEF ContentInv
  <2>2. FetchedOf(f)
    BY <1>2, <1>6 DEF ContentInv
  <2>3. CASE fd = final[i] /\ fd # tmp[i]
    BY <1>6, <2>3 DEF ContentInv, CompleteAlone
  <2>4. CASE fd = final[i] /\ fd = tmp[i]
    BY <1>6, <2>4 DEF OwnInv, NameInv
  <2>5. CASE fd = tmp[i]
    <3>1. CASE Fetching(f)
      BY <1>2, <2>1, <2>5, <3>1 DEF FetchOf, Active, Fetching
    <3>2. CASE thread[f].pc = "finish"
      BY <1>2, <1>6, <2>1, <2>5, <3>2 DEF FetchOf, Active
    <3>3. CASE thread[f].pc = "none"
      BY <1>2, <1>6, <2>2, <2>5, <3>3 DEF FetchedOf, Active
    <3>4. thread[f].pc \in {"none", "read", "write", "done", "check", "rename", "finish"}
      BY DEF BaseInv, TypeOK
    <3> QED BY <3>1, <3>2, <3>3, <3>4 DEF Fetching
  <2> QED BY <2>3, <2>4, <2>5
<1>7. ASSUME NEW r \in Stream PROVE ReadOf(r)'
  <2>1. CASE r = s
    <3>1. stream'[r].file = f /\ stream'[r].fd = fd
      BY <1>5, <2>1
    <3>2. file'[f].id = i /\ file'[f].fetched = file[f].fetched /\ file'[f].invalid = file[f].invalid
      BY <1>2, <1>4
    <3> QED BY <1>1, <1>6, <3>1, <3>2 DEF ReadOf, Fetching, Whole
  <2>2. CASE r # s /\ stream[r].state = "open"
    <3>1. PICK g \in File : g = stream[r].file
      BY <2>2 DEF BaseInv, StreamInv
    <3>2. /\ ReadOf(r) /\ stream'[r] = stream[r]
          /\ file'[g].id = file[g].id /\ file'[g].fetched = file[g].fetched
          /\ file'[g].invalid = file[g].invalid
      BY <1>4, <1>5, <2>2 DEF ContentInv
    <3> QED BY <1>1, <3>1, <3>2 DEF ReadOf, Fetching, Whole
  <2>3. CASE r # s /\ stream[r].state # "open"
    BY <1>5, <2>3 DEF ReadOf
  <2> QED BY <2>1, <2>2, <2>3
<1>8. AloneInv'
  BY <1>1, <1>4 DEF ContentInv, AloneInv, Active
<1>9. \A j \in Id \ contended' : TmpOf(j)'
  BY <1>1, <1>4 DEF ContentInv, TmpOf, Active
<1>10. ASSUME NEW g \in File, Active(g)', file'[g].id \notin contended'
       PROVE  FetchOf(g)'
  <2>1. /\ FetchOf(g) /\ file'[g].id = file[g].id /\ file'[g].fetched = file[g].fetched
        /\ file'[g].invalid = file[g].invalid
    BY <1>1, <1>4, <1>10 DEF ContentInv, Active
  <2> QED BY <1>1, <2>1 DEF FetchOf, Fetching, Upto, Whole
<1>11. ASSUME NEW g \in File, file'[g].id \in Id \ contended'
       PROVE  FetchedOf(g)'
  <2>1. /\ FetchedOf(g) /\ file'[g].id = file[g].id /\ file'[g].fetched = file[g].fetched
        /\ file'[g].invalid = file[g].invalid
    BY <1>1, <1>4, <1>11 DEF ContentInv
  <2> QED BY <1>1, <2>1 DEF FetchedOf, Active
<1>12. CompleteAlone'
  BY <1>1 DEF ContentInv, CompleteAlone, Whole
<1> QED BY <1>7, <1>8, <1>9, <1>10, <1>11, <1>12 DEF ContentInv

\* A new download begins with nothing, unless another one of its id still runs.
LEMMA EvictContent ==
  ASSUME BaseInv, OwnInv, ContentInv, NEW i \in Id, NEW gone \in SUBSET File, NEW f \in File,
         NEW inode \in File, Evicts(i, gone, f, inode)
  PROVE  ContentInv'
<1>1. /\ \A j \in Id : f # tmp[j] /\ f # final[j]
      /\ \A s \in Stream : f # stream[s].file /\ f # stream[s].fd
      /\ \A g \in File : f # thread[g].inode
      /\ thread[f].pc = "none" /\ f \notin Listed
  BY DEF Evicts, Spare
<1>2. \A j \in Id : tmp'[j] = IF j = i THEN inode ELSE tmp[j]
  BY DEF Evicts, BaseInv, TypeOK
<1>3. \A j \in Id : final'[j] \in {None, final[j]}
  BY DEF Evicts, Unlinked
<1>4. ASSUME NEW g \in File, g # f
      PROVE  /\ thread'[g] = thread[g] /\ file'[g].id = file[g].id
             /\ file'[g].fetched = file[g].fetched /\ (~file'[g].invalid => ~file[g].invalid)
  <2>1. thread'[g] = thread[g] /\ file'[g] = IF g \in gone THEN Removed(g) ELSE file[g]
    BY <1>4 DEF Evicts
  <2>2. file[g] \in FileRecord
    BY DEF BaseInv, TypeOK
  <2>3. Removed(g).id = file[g].id /\ Removed(g).fetched = file[g].fetched /\ Removed(g).invalid = TRUE
    BY <2>2 DEF Removed
  <2> QED BY <2>1, <2>3
<1>5. /\ stream' = stream /\ file'[f].id = i /\ file'[f].fetched = 0 /\ file'[f].invalid = FALSE
      /\ thread'[f].pc \in {"read", "none"} /\ thread'[f].read = 0 /\ thread'[f].offset = 0
      /\ thread'[f].inode = inode /\ inode = IF tmp[i] = None THEN f ELSE tmp[i]
  BY DEF Evicts
<1>6. /\ content'[f] = <<>>
      /\ \A g \in File : g # f => content'[g] = content[g]
  BY DEF Evicts, BaseInv, TypeOK
<1>7. /\ contended \subseteq contended'
      /\ \A j \in Id \ contended' : j # i => j \notin contended
      /\ i \notin contended' => i \notin contended /\ \A g \in File : Active(g) => file[g].id # i
  BY DEF Evicts, Active
<1>8. cachedFiles'[i] = f /\ \A j \in Id : j # i => cachedFiles'[j] \in {None, cachedFiles[j]}
  BY DEF Evicts, BaseInv, TypeOK, Dropped
<1>9. ASSUME i \notin contended' PROVE content'[inode] = <<>>
  <2>1. CASE tmp[i] = None
    BY <2>1, <1>5, <1>6
  <2>2. CASE tmp[i] # None
    <3>1. inode = tmp[i] /\ inode # f
      BY <2>2, <1>1, <1>5
    <3>2. TmpOf(i)
      BY <1>7, <1>9 DEF ContentInv
    <3> QED BY <2>2, <3>1, <3>2, <1>6, <1>7, <1>9 DEF TmpOf
  <2> QED BY <2>1, <2>2
<1>10. \A n : n \in File /\ n # f => content'[n] = content[n]
  BY <1>6
<1>11. AloneInv'
  <2> SUFFICES ASSUME NEW g \in File, NEW h \in File, Active(g)', Active(h)',
                      file'[g].id = file'[h].id, file'[g].id \notin contended'
               PROVE  g = h
    BY DEF AloneInv
  <2>1. CASE g # f /\ h # f
    BY <2>1, <1>4, <1>7 DEF ContentInv, AloneInv, Active
  <2>2. CASE (g = f \/ h = f) /\ g # h
    BY <2>2, <1>4, <1>5, <1>7 DEF Active
  <2> QED BY <2>1, <2>2
<1>12. ASSUME NEW j \in Id \ contended' PROVE TmpOf(j)'
  <2>1. CASE j = i
    BY <2>1, <1>2, <1>9, <1>12 DEF TmpOf
  <2>2. CASE j # i
    <3> SUFFICES ASSUME tmp'[j] # None, \A g \in File : Active(g)' => file'[g].id # j
                 PROVE  content'[tmp'[j]] = <<>>
      BY DEF TmpOf
    <3>1. tmp'[j] = tmp[j] /\ tmp[j] \in File /\ tmp[j] # f
      <4>1. tmp \in [Id -> File \cup {None}]
        BY DEF BaseInv, TypeOK
      <4>2. tmp'[j] = tmp[j]
        BY <2>2, <1>2
      <4> QED BY <4>1, <4>2, <1>1
    <3>2. \A g \in File : Active(g) => file[g].id # j
      BY <1>1, <1>4 DEF Active
    <3>3. content[tmp[j]] = <<>>
      BY <2>2, <3>1, <3>2, <1>7 DEF ContentInv, TmpOf
    <3> QED BY <3>1, <3>3, <1>6
  <2> QED BY <2>1, <2>2
<1>13. ASSUME NEW g \in File, Active(g)', file'[g].id \notin contended'
       PROVE  FetchOf(g)'
  <2>1. CASE g = f
    <3>1. Upto(content'[inode], 0) /\ tmp'[i] = inode
      BY <2>1, <1>2, <1>5, <1>9, <1>13 DEF Upto
    <3>2. Length[i] \in Nat
      OBVIOUS
    <3>3. thread'[f].pc = "read"
      BY <1>5, <1>13, <2>1 DEF Active
    <3>4. Upto(content[thread[g].inode], file[g].fetched)'
      BY <2>1, <3>1, <1>5 DEF Upto
    <3> QED BY <2>1, <3>1, <3>2, <3>3, <3>4, <1>5 DEF FetchOf, Fetching
  <2>2. CASE g # f
    <3>1. PICK j \in Id : j = file[g].id /\ thread[g].inode \in File
      BY <1>4, <1>13, <2>2 DEF BaseInv, ThreadInv, Active
    <3>2. j # i /\ j \notin contended /\ Active(g)
      BY <3>1, <1>4, <1>7, <1>13, <2>2 DEF Active
    <3>3. FetchOf(g) /\ tmp'[j] = tmp[j]
      BY <3>1, <3>2, <1>2 DEF ContentInv
    <3>4. content'[thread[g].inode] = content[thread[g].inode]
      BY <3>1, <1>1, <1>6
    <3>5. /\ thread'[g] = thread[g] /\ file'[g].id = j
          /\ file'[g].fetched = file[g].fetched /\ (~file'[g].invalid => ~file[g].invalid)
      BY <2>2, <3>1, <1>4
    <3>6. Upto(content[thread[g].inode], file[g].fetched)' <=> Upto(content[thread[g].inode], file[g].fetched)
      BY <3>4, <3>5 DEF Upto
    <3> QED BY <3>1, <3>3, <3>4, <3>5, <3>6 DEF FetchOf, Fetching, Whole
  <2> QED BY <2>1, <2>2
<1>14. ASSUME NEW g \in File, file'[g].id \in Id \ contended'
       PROVE  FetchedOf(g)'
  <2>1. CASE g = f
    <3>1. Length[i] \in Nat
      OBVIOUS
    <3> QED BY <2>1, <3>1, <1>5 DEF FetchedOf
  <2>2. CASE g # f
    <3>1. PICK j \in Id \ contended : j = file[g].id
      BY <2>2, <1>4, <1>7, <1>14
    <3>2. FetchedOf(g)
      BY <3>1 DEF ContentInv
    <3>3. /\ thread'[g] = thread[g] /\ file'[g].id = j
          /\ file'[g].fetched = file[g].fetched /\ (~file'[g].invalid => ~file[g].invalid)
      BY <2>2, <3>1, <1>4
    <3>4. cachedFiles'[j] = g => cachedFiles[j] = g /\ tmp'[j] = tmp[j]
      BY <2>2, <3>1, <1>2, <1>8
    <3> QED BY <3>1, <3>2, <3>3, <3>4 DEF FetchedOf, Active
  <2> QED BY <2>1, <2>2
<1>15. ASSUME NEW s \in Stream PROVE ReadOf(s)'
  <2>1. CASE stream[s].state = "open" /\ stream[s].fd # None
    <3>1. PICK g \in File : g = stream[s].file
      BY <2>1 DEF BaseInv, StreamInv
    <3>2. PICK n \in File : n = stream[s].fd
      BY <2>1 DEF BaseInv, TypeOK
    <3>3. g # f /\ n # f
      BY <1>1, <3>1, <3>2
    <3>4. PICK j \in Id : j = file[g].id
      BY <2>1, <3>1 DEF BaseInv, StreamInv
    <3>5. content'[n] = content[n]
      BY <3>3, <1>6
    <3>6. n # tmp[j] => n # tmp'[j]
      BY <3>3, <1>2, <1>5
    <3>7. /\ thread'[g] = thread[g] /\ file'[g].id = j
          /\ file'[g].fetched = file[g].fetched /\ (~file'[g].invalid => ~file[g].invalid)
      BY <3>3, <3>4, <1>4
    <3>8. ReadOf(s) /\ (j \notin contended' => j \notin contended)
      BY <1>7 DEF ContentInv
    <3>9. stream'[s] = stream[s] /\ Fetching(g)' = Fetching(g) /\ Whole(j)' = Whole(j)
      BY <1>5, <3>7 DEF Fetching, Whole
    <3> QED BY <2>1, <3>1, <3>2, <3>4, <3>5, <3>6, <3>7, <3>8, <3>9 DEF ReadOf
  <2>2. CASE ~(stream[s].state = "open" /\ stream[s].fd # None)
    BY <2>2, <1>5 DEF ReadOf
  <2> QED BY <2>1, <2>2
<1>16. CompleteAlone'
  <2> SUFFICES ASSUME NEW j \in Id \ contended', final'[j] # None
               PROVE  content'[final'[j]] = Whole(j)
    BY DEF CompleteAlone, Whole
  <2>1. final'[j] = final[j] /\ final[j] \in File /\ final[j] # f
    <3>1. final \in [Id -> File \cup {None}]
      BY DEF BaseInv, TypeOK
    <3> QED BY <3>1, <1>1, <1>3
  <2>2. content[final[j]] = Whole(j)
    BY <2>1, <1>7 DEF ContentInv, CompleteAlone
  <2> QED BY <2>1, <2>2, <1>6
<1> QED BY <1>11, <1>12, <1>13, <1>14, <1>15, <1>16 DEF ContentInv

\* A step of a thread touches its own file, and the names of its own id.
LEMMA FetchSteps ==
  ASSUME BaseInv, NEW f \in File, Fetch(f)
  PROVE  /\ Active(f) /\ file[f].id \in Id /\ thread[f].inode \in File
         /\ UNCHANGED <<cachedFiles, stream, contended>>
         /\ \A g \in File \ {f} : thread'[g] = thread[g] /\ file'[g] = file[g]
         /\ file'[f].id = file[f].id
         /\ \A n \in File : n # thread[f].inode => content'[n] = content[n]
         /\ ~Fetching(f) => content' = content
         /\ \A j \in Id : /\ tmp'[j] \in {None, tmp[j]}
                          /\ j # file[f].id => tmp'[j] = tmp[j] /\ final'[j] = final[j]
<1>1. Active(f) /\ UNCHANGED <<cachedFiles, stream, contended>>
  BY DEF Active, Fetch, ReadSource, Write, Done, Check, Rename, Finish, OfThread, At
<1>2. PICK i \in Id, inode \in File : i = file[f].id /\ inode = thread[f].inode
  BY <1>1 DEF BaseInv, ThreadInv
<1>3. \A g \in File \ {f} : thread'[g] = thread[g]
  <2>1. PICK r : thread' = [thread EXCEPT ![f] = r]
    BY DEF Fetch, ReadSource, Write, Done, Check, Rename, Finish
  <2> QED BY <2>1 DEF BaseInv, TypeOK
<1>4. \A g \in File \ {f} : file'[g] = file[g]
  <2>1. PICK r : file' = [file EXCEPT ![f] = r] \/ file' = file
    BY DEF Fetch, ReadSource, Write, Done, Check, Rename, Finish
  <2> QED BY <2>1 DEF BaseInv, TypeOK
<1>5. file'[f].id = file[f].id
  BY FetchBase DEF SameFiles
<1>6. /\ \A n \in File : n # inode => content'[n] = content[n]
      /\ ~Fetching(f) => content' = content
  <2>1. PICK c : content' = content \/ (content' = [content EXCEPT ![inode] = c] /\ At(f, "write"))
    BY <1>2 DEF Fetch, ReadSource, Write, Done, Check, Rename, Finish, diskVars
  <2> QED BY <2>1 DEF BaseInv, TypeOK, At, Fetching
<1>7. \A j \in Id : /\ tmp'[j] \in {None, tmp[j]}
                    /\ j # i => tmp'[j] = tmp[j] /\ final'[j] = final[j]
  <2>1. \/ UNCHANGED <<tmp, final>>
        \/ final' = [final EXCEPT ![i] = tmp[i]] /\ tmp' = [tmp EXCEPT ![i] = None]
        \/ tmp' = [tmp EXCEPT ![i] = None] /\ UNCHANGED final
    BY <1>2 DEF Fetch, ReadSource, Write, Done, Check, Rename, Finish
  <2> QED BY <2>1 DEF BaseInv, TypeOK
<1> QED BY <1>1, <1>2, <1>3, <1>4, <1>5, <1>6, <1>7

\* What a thread sees to when it moves, if it is the only one of its id.
Moves(f, i) ==
  /\ Active(f)' => FetchOf(f)'
  /\ Active(f)' \/ tmp'[i] = None
  /\ final'[i] # None => content'[final'[i]] = Whole(i)
  /\ FetchedOf(f)'
  /\ ~file'[f].invalid => ~file[f].invalid
  /\ ~file'[f].invalid /\ Fetching(f) =>
       \/ Fetching(f)' /\ thread'[f].inode = thread[f].inode
       \/ content'[thread[f].inode] = Whole(i) /\ tmp'[i] = None

\* What a thread knows when it is the only one of its id.
LEMMA Knows ==
  ASSUME BaseInv, OwnInv, ContentInv, NEW f \in File, NEW i \in Id \ contended, i = file[f].id,
         Active(f)
  PROVE  /\ FetchOf(f) /\ FetchedOf(f)
         /\ final[i] # None => content[final[i]] = Whole(i)
         /\ tmp[i] # None => tmp[i] # final[i]
         /\ thread[f].inode \in File /\ file[f].fetched \in Nat /\ thread[f].read \in Nat
         /\ Length[i] \in Nat
<1>1. FetchOf(f) /\ FetchedOf(f) /\ (final[i] # None => content[final[i]] = Whole(i))
  BY DEF ContentInv, CompleteAlone
<1>2. tmp[i] # None => tmp[i] # final[i]
  BY DEF OwnInv, NameInv
<1>3. thread[f].inode \in File /\ file[f].fetched \in Nat /\ thread[f].read \in Nat
  BY DEF BaseInv, ThreadInv, TypeOK
<1> QED BY <1>1, <1>2, <1>3

\* It reads what comes next, ends when all is read, and gives up with an invalid file.
LEMMA ReadSourceMoves ==
  ASSUME BaseInv, OwnInv, ContentInv, NEW f \in File, NEW i \in Id \ contended, i = file[f].id,
         ReadSource(f)
  PROVE  Moves(f, i)
<1>1. Active(f) /\ thread[f].pc = "read" /\ UNCHANGED <<tmp, final, content, cachedFiles>>
  BY DEF ReadSource, At, Active, diskVars, OfThread
<1>2. /\ FetchOf(f) /\ FetchedOf(f)
      /\ final[i] # None => content[final[i]] = Whole(i)
      /\ thread[f].read \in Nat /\ Length[i] \in Nat /\ file[f].fetched \in Nat
  BY <1>1, Knows
<1>3. /\ thread'[f].inode = thread[f].inode /\ thread'[f].offset = thread[f].offset
      /\ file'[f].id = i /\ file'[f].fetched = file[f].fetched
      /\ \/ /\ thread[f].read = Length[i] /\ file'[f].invalid = file[f].invalid
            /\ thread'[f].pc = "done" /\ thread'[f].read = thread[f].read
         \/ /\ file'[f].invalid = TRUE
            /\ thread'[f].pc = "done" /\ thread'[f].read = thread[f].read
         \/ /\ thread[f].read < Length[i] /\ file'[f].invalid = file[f].invalid
            /\ thread'[f].pc = "write" /\ thread'[f].read = thread[f].read + 1
  <2>1. \/ /\ thread[f].read = Length[i] /\ file' = file
           /\ thread' = [thread EXCEPT ![f].pc = "done"]
        \/ file' = [file EXCEPT ![f].invalid = TRUE] /\ thread' = [thread EXCEPT ![f].pc = "done"]
        \/ /\ thread[f].read < Length[i] /\ file' = file
           /\ thread' = [thread EXCEPT ![f].pc = "write", ![f].read = @ + 1]
    BY DEF ReadSource
  <2>2. /\ file \in [File -> FileRecord]
        /\ thread \in [File -> [pc : {"none", "read", "write", "done", "check", "rename", "finish"},
                                read : Nat, offset : Nat, inode : File \cup {None}]]
    BY DEF BaseInv, TypeOK
  <2>3. CASE file' = file /\ thread' = [thread EXCEPT ![f].pc = "done"] /\ thread[f].read = Length[i]
    BY <2>2, <2>3
  <2>4. CASE file' = [file EXCEPT ![f].invalid = TRUE] /\ thread' = [thread EXCEPT ![f].pc = "done"]
    BY <2>2, <2>4
  <2>5. CASE /\ file' = file /\ thread[f].read < Length[i]
             /\ thread' = [thread EXCEPT ![f].pc = "write", ![f].read = @ + 1]
    BY <2>2, <2>5
  <2> QED BY <2>1, <2>3, <2>4, <2>5
<1>4. Upto(content[thread[f].inode], file[f].fetched)' = Upto(content[thread[f].inode], file[f].fetched)
  BY <1>1, <1>3 DEF Upto
<1>5. FetchOf(f)'
  BY <1>1, <1>2, <1>3, <1>4 DEF FetchOf, Fetching
<1>6. FetchedOf(f)'
  BY <1>1, <1>2, <1>3 DEF FetchedOf, Active
<1>7. Active(f)' /\ Fetching(f)' /\ (~file'[f].invalid => ~file[f].invalid)
  BY <1>3 DEF Active, Fetching
<1> QED BY <1>1, <1>2, <1>3, <1>5, <1>6, <1>7 DEF Moves

\* It adds the chunk to the end of the file, or the file is invalid.
LEMMA WriteMoves ==
  ASSUME BaseInv, OwnInv, ContentInv, NEW f \in File, NEW i \in Id \ contended, i = file[f].id,
         Write(f)
  PROVE  Moves(f, i)
<1>1. Active(f) /\ thread[f].pc = "write" /\ UNCHANGED <<tmp, final, cachedFiles>>
  BY DEF Write, At, Active, diskVars, OfThread
<1>2. /\ FetchOf(f) /\ FetchedOf(f)
      /\ final[i] # None => content[final[i]] = Whole(i)
      /\ thread[f].read \in Nat /\ Length[i] \in Nat /\ file[f].fetched \in Nat
      /\ tmp[i] # None => tmp[i] # final[i]
  BY <1>1, Knows
<1>3. PICK m \in File : m = thread[f].inode /\ tmp[i] = m
  BY <1>1, <1>2 DEF FetchOf, Fetching, BaseInv, ThreadInv
<1>4. /\ thread'[f].inode = m /\ thread'[f].read = thread[f].read /\ thread'[f].pc = "read"
      /\ file'[f].id = i
      /\ \/ /\ thread'[f].offset = thread[f].offset + 1
            /\ file'[f].invalid = FALSE /\ file[f].invalid = FALSE /\ file'[f].fetched = file[f].fetched + 1
            /\ content' = [content EXCEPT ![m] = Written(@, thread[f].offset, thread[f].read)]
         \/ file'[f].invalid = TRUE
  <2>1. \/ /\ thread' = [thread EXCEPT ![f].pc = "read", ![f].offset = @ + 1]
           /\ content' = [content EXCEPT ![m] = Written(@, thread[f].offset, thread[f].read)]
           /\ file' = [file EXCEPT ![f].invalid = @ \/ file[f].pendingClose,
                                   ![f].fetched = IF file[f].pendingClose THEN @ ELSE @ + 1]
        \/ /\ thread' = [thread EXCEPT ![f].pc = "read"]
           /\ file' = [file EXCEPT ![f].invalid = TRUE]
    BY <1>3 DEF Write
  <2>2. /\ file \in [File -> FileRecord]
        /\ thread \in [File -> [pc : {"none", "read", "write", "done", "check", "rename", "finish"},
                                read : Nat, offset : Nat, inode : File \cup {None}]]
    BY DEF BaseInv, TypeOK
  <2>3. CASE /\ thread' = [thread EXCEPT ![f].pc = "read", ![f].offset = @ + 1]
             /\ content' = [content EXCEPT ![m] = Written(@, thread[f].offset, thread[f].read)]
             /\ file' = [file EXCEPT ![f].invalid = @ \/ file[f].pendingClose,
                                     ![f].fetched = IF file[f].pendingClose THEN @ ELSE @ + 1]
    <3>1. /\ thread'[f].inode = m /\ thread'[f].read = thread[f].read /\ thread'[f].pc = "read"
          /\ thread'[f].offset = thread[f].offset + 1
      BY <1>3, <2>2, <2>3
    <3>2. PICK b \in BOOLEAN, n \in Nat :
            /\ file' = [file EXCEPT ![f].invalid = b, ![f].fetched = n]
            /\ b = (file[f].invalid \/ file[f].pendingClose)
            /\ n = IF file[f].pendingClose THEN file[f].fetched ELSE file[f].fetched + 1
      <4>1. /\ (file[f].invalid \/ file[f].pendingClose) \in BOOLEAN
            /\ (IF file[f].pendingClose THEN file[f].fetched ELSE file[f].fetched + 1) \in Nat
        BY <2>2
      <4> QED BY <2>3, <4>1
    <3>3. file'[f].invalid = b /\ file'[f].fetched = n /\ file'[f].id = i
      BY <2>2, <3>2
    <3>4. b = TRUE \/ (b = FALSE /\ file[f].invalid = FALSE /\ n = file[f].fetched + 1)
      <4>1. file[f].invalid \in BOOLEAN /\ file[f].pendingClose \in BOOLEAN
        BY <2>2
      <4> QED BY <3>2, <4>1
    <3> QED BY <2>3, <3>1, <3>3, <3>4
  <2>4. CASE thread' = [thread EXCEPT ![f].pc = "read"] /\ file' = [file EXCEPT ![f].invalid = TRUE]
    BY <1>3, <2>2, <2>4
  <2> QED BY <2>1, <2>3, <2>4
<1>5. CASE file'[f].invalid = TRUE
  <2>1. FetchOf(f)'
    BY <1>1, <1>2, <1>3, <1>4, <1>5 DEF FetchOf, Fetching
  <2>2. FetchedOf(f)' /\ Active(f)'
    BY <1>4, <1>5 DEF FetchedOf, Active
  <2>3. final'[i] # None => content'[final'[i]] = Whole(i)
    <3>1. final[i] # None => final[i] \in File /\ final[i] # m
      BY <1>2, <1>3 DEF BaseInv, TypeOK
    <3>2. \A n \in File : n # m => content'[n] = content[n]
      BY <1>3, FetchSteps DEF Fetch
    <3> QED BY <1>1, <1>2, <3>1, <3>2
  <2> QED BY <1>5, <2>1, <2>2, <2>3 DEF Moves
<1>6. CASE /\ thread'[f].offset = thread[f].offset + 1
           /\ file'[f].invalid = FALSE /\ file[f].invalid = FALSE
           /\ file'[f].fetched = file[f].fetched + 1
           /\ content' = [content EXCEPT ![m] = Written(@, thread[f].offset, thread[f].read)]
  <2>1. PICK n \in Nat : /\ n = file[f].fetched /\ thread[f].offset = n /\ thread[f].read = n + 1
                         /\ Upto(content[m], n) /\ n + 1 <= Length[i]
    BY <1>1, <1>2, <1>3, <1>6 DEF FetchOf
  <2>2. content'[m] = Written(content[m], n, n + 1) /\ content[m] \in Seq(Nat)
    BY <1>6, <2>1 DEF BaseInv, TypeOK
  <2>3. Upto(content'[m], n + 1)
    BY <2>1, <2>2, UptoAppend
  <2>4. Upto(content[thread[f].inode], file[f].fetched)'
    BY <1>4, <1>6, <2>1, <2>3 DEF Upto
  <2>5. FetchOf(f)'
    BY <1>1, <1>3, <1>4, <1>6, <2>1, <2>4 DEF FetchOf, Fetching
  <2>6. FetchedOf(f)' /\ Active(f)' /\ Fetching(f)'
    BY <1>4, <1>6, <2>1 DEF FetchedOf, Active, Fetching
  <2>7. final'[i] # None => content'[final'[i]] = Whole(i)
    <3>1. final[i] # None => final[i] \in File /\ final[i] # m
      BY <1>2, <1>3 DEF BaseInv, TypeOK
    <3> QED BY <1>1, <1>2, <1>6, <3>1 DEF BaseInv, TypeOK
  <2> QED BY <1>3, <1>4, <1>6, <2>5, <2>6, <2>7 DEF Moves
<1> QED BY <1>4, <1>5, <1>6

\* What it read is all there is, unless the file is invalid.
LEMMA DoneMoves ==
  ASSUME BaseInv, OwnInv, ContentInv, NEW f \in File, NEW i \in Id \ contended, i = file[f].id,
         Done(f)
  PROVE  Moves(f, i)
<1>1. Active(f) /\ thread[f].pc = "done" /\ UNCHANGED <<tmp, final, content, cachedFiles>>
  BY DEF Done, At, Active, diskVars, OfThread
<1>2. FetchOf(f) /\ FetchedOf(f) /\ (final[i] # None => content[final[i]] = Whole(i))
  BY <1>1, Knows
<1>3. /\ thread'[f].inode = thread[f].inode /\ thread'[f].offset = thread[f].offset
      /\ thread'[f].pc = "check" /\ thread'[f].read = thread[f].read
      /\ file'[f].id = i /\ file'[f].fetched = file[f].fetched /\ file'[f].invalid = file[f].invalid
  <2>1. thread' = [thread EXCEPT ![f].pc = "check"] /\ file' = [file EXCEPT ![f].fetching = FALSE]
    BY DEF Done
  <2>2. /\ file \in [File -> FileRecord]
        /\ thread \in [File -> [pc : {"none", "read", "write", "done", "check", "rename", "finish"},
                                read : Nat, offset : Nat, inode : File \cup {None}]]
    BY DEF BaseInv, TypeOK
  <2> QED BY <2>1, <2>2
<1>4. Upto(content[thread[f].inode], file[f].fetched)' = Upto(content[thread[f].inode], file[f].fetched)
  BY <1>1, <1>3 DEF Upto
<1>5. FetchOf(f)'
  BY <1>1, <1>2, <1>3, <1>4 DEF FetchOf, Fetching
<1>6. FetchedOf(f)'
  BY <1>1, <1>2, <1>3 DEF FetchedOf, Active
<1>7. Active(f)' /\ Fetching(f)'
  BY <1>3 DEF Active, Fetching
<1> QED BY <1>1, <1>2, <1>3, <1>5, <1>6, <1>7 DEF Moves

\* What it goes on to rename is complete.
LEMMA CheckMoves ==
  ASSUME BaseInv, OwnInv, ContentInv, NEW f \in File, NEW i \in Id \ contended, i = file[f].id,
         Check(f)
  PROVE  Moves(f, i)
<1>1. Active(f) /\ thread[f].pc = "check" /\ UNCHANGED <<file, tmp, final, content, cachedFiles>>
  BY DEF Check, At, Active, diskVars, OfThread
<1>2. /\ FetchOf(f) /\ FetchedOf(f) /\ (final[i] # None => content[final[i]] = Whole(i))
      /\ thread[f].inode \in File
  BY <1>1, Knows
<1>3. /\ thread'[f].inode = thread[f].inode /\ thread'[f].read = thread[f].read
      /\ thread'[f].pc = IF file[f].invalid THEN "finish" ELSE "rename"
  BY DEF Check, BaseInv, TypeOK
<1>4. CASE file[f].invalid
  <2>1. FetchOf(f)'
    BY <1>1, <1>2, <1>3, <1>4 DEF FetchOf, Fetching
  <2>2. FetchedOf(f)' /\ Active(f)'
    BY <1>1, <1>3, <1>4 DEF FetchedOf, Active
  <2> QED BY <1>1, <1>2, <1>4, <2>1, <2>2 DEF Moves
<1>5. CASE ~file[f].invalid
  <2>1. Upto(content[thread[f].inode], Length[i])
    <3>1. PICK n \in Nat : n = file[f].fetched
      BY DEF BaseInv, TypeOK
    <3>2. Upto(content[thread[f].inode], n) /\ thread[f].read = n /\ thread[f].read = Length[i]
      BY <1>1, <1>2, <1>5, <3>1 DEF FetchOf
    <3> QED BY <3>2
  <2>2. content[thread[f].inode] = Whole(i)
    <3>1. content[thread[f].inode] \in Seq(Nat)
      BY <1>2 DEF BaseInv, TypeOK
    <3> QED BY <2>1, <3>1, UptoWhole
  <2>3. FetchOf(f)'
    BY <1>1, <1>2, <1>3, <1>5, <2>2 DEF FetchOf, Fetching, Whole
  <2>4. FetchedOf(f)' /\ Active(f)' /\ Fetching(f)'
    BY <1>1, <1>2, <1>3, <1>5 DEF FetchedOf, Active, Fetching
  <2> QED BY <1>1, <1>2, <1>3, <2>3, <2>4 DEF Moves
<1> QED BY <1>4, <1>5

\* The complete file gets its name, and the .tmp file is gone.
LEMMA RenameMoves ==
  ASSUME BaseInv, OwnInv, ContentInv, NEW f \in File, NEW i \in Id \ contended, i = file[f].id,
         Rename(f)
  PROVE  Moves(f, i)
<1>1. Active(f) /\ thread[f].pc = "rename" /\ UNCHANGED <<content, cachedFiles>>
  BY DEF Rename, At, Active, OfThread
<1>2. /\ FetchOf(f) /\ FetchedOf(f) /\ (final[i] # None => content[final[i]] = Whole(i))
      /\ thread[f].inode \in File
  BY <1>1, Knows
<1>3. tmp[i] = thread[f].inode /\ content[thread[f].inode] = Whole(i)
  BY <1>1, <1>2 DEF FetchOf, Fetching
<1>4. /\ thread'[f].inode = thread[f].inode /\ thread'[f].read = thread[f].read
      /\ thread'[f].pc = "finish"
  BY DEF Rename, BaseInv, TypeOK
<1>5. Active(f)'
  BY <1>4 DEF Active
<1>6. CASE /\ file' = file /\ final' = [final EXCEPT ![i] = tmp[i]]
           /\ tmp' = [tmp EXCEPT ![i] = None]
  <2>1. final'[i] = thread[f].inode /\ tmp'[i] = None
    BY <1>3, <1>6 DEF BaseInv, TypeOK
  <2>2. FetchOf(f)'
    BY <1>2, <1>4, <1>6, <2>1 DEF FetchOf, Fetching
  <2>3. FetchedOf(f)'
    BY <1>1, <1>2, <1>6, <2>1 DEF FetchedOf, Active
  <2> QED BY <1>1, <1>3, <1>5, <1>6, <2>1, <2>2, <2>3 DEF Moves
<1>7. CASE file' = [file EXCEPT ![f].invalid = TRUE] /\ UNCHANGED <<tmp, final>>
  <2>1. file'[f].invalid = TRUE /\ file'[f].id = i
    BY <1>7 DEF BaseInv, TypeOK
  <2>2. FetchOf(f)'
    BY <1>2, <1>4, <2>1 DEF FetchOf, Fetching
  <2>3. FetchedOf(f)'
    BY <1>5, <2>1 DEF FetchedOf
  <2> QED BY <1>1, <1>2, <1>5, <1>7, <2>1, <2>2, <2>3 DEF Moves
<1> QED BY <1>6, <1>7 DEF Rename

\* No .tmp file stays.
LEMMA FinishMoves ==
  ASSUME BaseInv, OwnInv, ContentInv, NEW f \in File, NEW i \in Id \ contended, i = file[f].id,
         Finish(f)
  PROVE  Moves(f, i)
<1>1. Active(f) /\ thread[f].pc = "finish" /\ UNCHANGED <<final, content, cachedFiles>>
  BY DEF Finish, At, Active, OfThread
<1>2. FetchOf(f) /\ FetchedOf(f) /\ (final[i] # None => content[final[i]] = Whole(i))
  BY <1>1, Knows
<1>3. thread'[f].pc = "none"
  BY DEF Finish, BaseInv, TypeOK
<1>4. ~Active(f)' /\ ~Fetching(f)
  BY <1>1, <1>3 DEF Active, Fetching
<1>5. CASE file[f].invalid /\ tmp' = [tmp EXCEPT ![i] = None] /\ file' = file
  <2>1. tmp'[i] = None
    BY <1>5 DEF BaseInv, TypeOK
  <2>2. FetchedOf(f)'
    BY <1>5 DEF FetchedOf
  <2> QED BY <1>1, <1>2, <1>4, <1>5, <2>1, <2>2 DEF Moves
<1>6. CASE ~file[f].invalid /\ tmp' = tmp /\ file' = [file EXCEPT ![f].expected = file[f].fetched]
  <2>1. tmp[i] = None
    BY <1>1, <1>2, <1>6 DEF FetchOf
  <2>2. file'[f].id = i /\ file'[f].fetched = file[f].fetched /\ file'[f].invalid = file[f].invalid
    <3>1. PICK n \in Nat : n = file[f].fetched
      BY DEF BaseInv, TypeOK
    <3> QED BY <1>6, <3>1 DEF BaseInv, TypeOK
  <2>3. FetchedOf(f)'
    BY <1>2, <1>6, <2>1, <2>2 DEF FetchedOf
  <2> QED BY <1>1, <1>2, <1>4, <1>6, <2>1, <2>2, <2>3 DEF Moves
<1> QED BY <1>5, <1>6 DEF Finish

\* A step of a thread keeps the content of every uncontended id.
LEMMA FetchContent == ASSUME BaseInv, OwnInv, ContentInv, NEW f \in File, Fetch(f) PROVE ContentInv'
<1>1. PICK i \in Id, m \in File : i = file[f].id /\ m = thread[f].inode
  BY FetchSteps
<1>2. /\ Active(f) /\ UNCHANGED <<cachedFiles, stream, contended>>
      /\ \A g \in File \ {f} : thread'[g] = thread[g] /\ file'[g] = file[g]
      /\ file'[f].id = i
      /\ \A n \in File : n # m => content'[n] = content[n]
      /\ ~Fetching(f) => content' = content
      /\ \A j \in Id : /\ tmp'[j] \in {None, tmp[j]}
                       /\ j # i => tmp'[j] = tmp[j] /\ final'[j] = final[j]
  BY <1>1, FetchSteps
<1>3. i \notin contended => Moves(f, i) /\ FetchOf(f)
  <2>1. i \notin contended => FetchOf(f)
    BY <1>1, <1>2 DEF ContentInv
  <2> QED BY <2>1, <1>1, ReadSourceMoves, WriteMoves, DoneMoves, CheckMoves, RenameMoves, FinishMoves
       DEF Fetch
<1>4. \A n \in File, j \in Id : Uses(n, j) /\ n = m => j = i
  <2>1. Uses(m, i)
    BY <1>1 DEF Uses
  <2> QED BY <2>1 DEF OwnInv, UseInv
<1>5. \A n \in File, j \in Id : Uses(n, j) /\ j # i => content'[n] = content[n]
  BY <1>2, <1>4
<1>6. AloneInv'
  BY <1>1, <1>2 DEF ContentInv, AloneInv, Active
<1>7. ASSUME NEW j \in Id \ contended' PROVE TmpOf(j)'
  <2>1. CASE j = i
    BY <1>2, <1>3, <1>7, <2>1 DEF Moves, TmpOf
  <2>2. CASE j # i
    <3> SUFFICES ASSUME tmp'[j] # None, \A g \in File : Active(g)' => file'[g].id # j
                 PROVE  content'[tmp'[j]] = <<>>
      BY DEF TmpOf
    <3>1. tmp'[j] = tmp[j] /\ tmp[j] \in File /\ Uses(tmp[j], j)
      <4>1. tmp'[j] = tmp[j]
        BY <1>2, <2>2
      <4>2. tmp \in [Id -> File \cup {None}]
        BY Zenon DEF BaseInv, TypeOK
      <4>3. tmp[j] \in File
        BY <4>1, <4>2
      <4> QED BY <4>1, <4>3, Zenon DEF Uses
    <3>2. \A g \in File : Active(g) => file[g].id # j
      BY <1>1, <1>2, <2>2 DEF Active
    <3>3. content[tmp[j]] = <<>>
      BY <1>2, <1>7, <3>1, <3>2 DEF ContentInv, TmpOf
    <3> QED BY <3>1, <3>3, <1>5, <2>2
  <2> QED BY <2>1, <2>2
<1>8. ASSUME NEW g \in File, Active(g)', file'[g].id \notin contended'
      PROVE  FetchOf(g)'
  <2>1. CASE g = f
    BY <1>2, <1>3, <1>8, <2>1 DEF Moves
  <2>2. CASE g # f
    <3>1. thread'[g] = thread[g] /\ file'[g] = file[g] /\ Active(g)
      BY <1>2, <1>8, <2>2 DEF Active
    <3>2. PICK j \in Id \ contended : j = file[g].id /\ thread[g].inode \in File
      BY <1>2, <1>8, <3>1 DEF BaseInv, ThreadInv
    <3>3. j # i
      BY <1>1, <1>2, <2>2, <3>1, <3>2 DEF ContentInv, AloneInv
    <3>4. Uses(thread[g].inode, j)
      BY <3>2 DEF Uses
    <3>5. content'[thread[g].inode] = content[thread[g].inode] /\ tmp'[j] = tmp[j]
      BY <1>2, <1>5, <3>2, <3>3, <3>4
    <3>6. FetchOf(g)
      BY <3>1, <3>2 DEF ContentInv
    <3>7. Upto(content[thread[g].inode], file[g].fetched)' = Upto(content[thread[g].inode], file[g].fetched)
      BY <3>1, <3>5 DEF Upto
    <3> QED BY <3>1, <3>2, <3>5, <3>6, <3>7 DEF FetchOf, Fetching, Whole
  <2> QED BY <2>1, <2>2
<1>9. ASSUME NEW g \in File, file'[g].id \in Id \ contended'
      PROVE  FetchedOf(g)'
  <2>1. CASE g = f
    BY <1>2, <1>3, <1>9, <2>1 DEF Moves
  <2>2. CASE g # f
    <3>1. thread'[g] = thread[g] /\ file'[g] = file[g]
      BY <1>2, <2>2
    <3>2. FetchedOf(g) /\ tmp'[file[g].id] \in {None, tmp[file[g].id]}
      BY <1>2, <1>9, <3>1 DEF ContentInv
    <3> QED BY <1>2, <3>1, <3>2 DEF FetchedOf, Active
  <2> QED BY <2>1, <2>2
<1>10. ASSUME NEW s \in Stream PROVE ReadOf(s)'
  <2>1. CASE /\ stream[s].state = "open" /\ stream[s].fd # None
             /\ ~file'[stream[s].file].invalid /\ file'[stream[s].file].id \notin contended
    <3>1. PICK g \in File, j \in Id : g = stream[s].file /\ j = file[g].id
      BY <2>1 DEF BaseInv, StreamInv
    <3>2. PICK n \in File : n = stream[s].fd
      BY <2>1 DEF BaseInv, TypeOK
    <3>3. Uses(n, j)
      BY <2>1, <3>1, <3>2 DEF Uses
    <3>4. file'[g].id = j /\ j \notin contended /\ (g = f => j = i)
      BY <1>1, <1>2, <2>1, <3>1
    <3>5. ~file'[g].invalid /\ ~file[g].invalid
      BY <1>2, <1>3, <2>1, <3>1, <3>4 DEF Moves
    <3>6. \/ file[g].fetched = 0 /\ thread[g].pc = "none"
          \/ content[n] = Whole(j) /\ n # tmp[j]
          \/ Fetching(g) /\ thread[g].inode = n
      BY <2>1, <3>1, <3>2, <3>4, <3>5 DEF ContentInv, ReadOf
    <3>7. SUFFICES \/ file'[g].fetched = 0 /\ thread'[g].pc = "none"
                   \/ content'[n] = Whole(j) /\ n # tmp'[j]
                   \/ Fetching(g)' /\ thread'[g].inode = n
      <4>1. stream'[s] = stream[s] /\ Whole(j)' = Whole(j)
        BY <1>2 DEF Whole
      <4> QED BY <4>1, <3>1, <3>2, <3>4 DEF ReadOf
    <3>8. CASE file[g].fetched = 0 /\ thread[g].pc = "none"
      BY <1>2, <3>8 DEF Active
    <3>9. CASE content[n] = Whole(j) /\ n # tmp[j]
      <4>1. n # tmp'[j]
        BY <1>2, <3>9
      <4>2. CASE j # i
        BY <1>5, <3>3, <3>9, <4>1, <4>2
      <4>3. CASE j = i /\ Fetching(f)
        <5>1. tmp[i] = m
          BY <1>1, <1>3, <3>4, <4>3 DEF FetchOf
        <5> QED BY <1>2, <3>9, <4>1, <4>3, <5>1
      <4>4. CASE ~Fetching(f)
        BY <1>2, <3>9, <4>1, <4>4
      <4> QED BY <4>2, <4>3, <4>4
    <3>10. CASE Fetching(g) /\ thread[g].inode = n
      <4>1. CASE g = f
        BY <1>1, <1>3, <3>4, <3>5, <3>10, <4>1 DEF Moves
      <4>2. CASE g # f
        BY <1>2, <3>10, <4>2 DEF Fetching
      <4> QED BY <4>1, <4>2
    <3> QED BY <3>6, <3>8, <3>9, <3>10
  <2>2. CASE ~(/\ stream[s].state = "open" /\ stream[s].fd # None
               /\ ~file'[stream[s].file].invalid /\ file'[stream[s].file].id \notin contended)
    BY <1>2, <2>2 DEF ReadOf
  <2> QED BY <2>1, <2>2
<1>11. CompleteAlone'
  <2> SUFFICES ASSUME NEW j \in Id \ contended', final'[j] # None
               PROVE  content'[final'[j]] = Whole(j)
    BY DEF CompleteAlone, Whole
  <2>1. CASE j = i
    BY <1>2, <1>3, <2>1 DEF Moves
  <2>2. CASE j # i
    <3>1. final'[j] = final[j] /\ final[j] \in File /\ Uses(final[j], j)
      <4>1. final'[j] = final[j]
        BY <1>2, <2>2
      <4>2. final \in [Id -> File \cup {None}]
        BY Zenon DEF BaseInv, TypeOK
      <4>3. final[j] \in File
        BY <4>1, <4>2
      <4> QED BY <4>1, <4>3, Zenon DEF Uses
    <3>2. content[final[j]] = Whole(j)
      BY <1>2, <3>1 DEF ContentInv, CompleteAlone
    <3> QED BY <3>1, <3>2, <1>5, <2>2
  <2> QED BY <2>1, <2>2
<1> QED BY <1>6, <1>7, <1>8, <1>9, <1>10, <1>11 DEF ContentInv

-----------------------------------------------------------------------------
\* The invariant, and what follows from it.

SafeInv == BaseInv /\ OwnInv /\ ContentInv

\* The cache starts empty.
LEMMA InitSafe == ASSUME Init PROVE SafeInv
<1> USE DEF Init
<1>1. TypeOK
  <2>1. /\ cachedFiles \in [Id -> File \cup {None}] /\ maxSize \in MaxSizes
        /\ tmp \in [Id -> File \cup {None}] /\ final \in [Id -> File \cup {None}]
        /\ content \in [File -> Seq(Nat)] /\ used \in [Id -> Nat] /\ contended \subseteq Id
        /\ restarts \in 0 .. MaxRestarts /\ app \in {Idle}
    OBVIOUS
  <2>2. file \in [File -> FileRecord]
    OBVIOUS
  <2>3. thread \in [File -> [pc : {"none", "read", "write", "done", "check", "rename", "finish"},
                             read : Nat, offset : Nat, inode : File \cup {None}]]
    OBVIOUS
  <2>4. stream \in [Stream -> [state : {"closed", "open", "eof", "error"},
                               file : File \cup {None}, fd : File \cup {None},
                               position : Nat \cup {-1}]]
    OBVIOUS
  <2> QED BY <2>1, <2>2, <2>3, <2>4 DEF TypeOK
<1>2. ListInv /\ AppInv /\ ThreadInv /\ StreamInv
  BY DEF ListInv, AppInv, ThreadInv, StreamInv, Active
<1>3. CountInv
  <2> SUFFICES ASSUME NEW f \in File PROVE Cardinality(Readers(f)) <= file[f].active
    BY DEF CountInv
  <2>1. Readers(f) = {} /\ file[f].active = 0
    BY DEF Readers
  <2> QED BY <2>1, FS_EmptySet
<1>4. \A n \in File, i \in Id : ~Uses(n, i)
  BY DEF Uses
<1>5. OwnInv
  BY <1>4 DEF OwnInv, UseInv, NameInv
<1>6. \A f \in File : ~Active(f) /\ file[f].id = None
  BY DEF Active
<1>7. ContentInv
  BY <1>6 DEF ContentInv, AloneInv, TmpOf, ReadOf, CompleteAlone
<1> QED BY <1>1, <1>2, <1>3, <1>5, <1>7 DEF SafeInv, BaseInv

\* The program starts anew, with the files that are complete or with some of them.
LEMMA RebootSafe ==
  ASSUME SafeInv, NEW dir \in [Id -> File \cup {None}], Reboot(dir), restarts' \in 0 .. MaxRestarts,
         \A i \in Id : dir[i] \in {None, final[i]}
  PROVE  SafeInv'
<1>1. \A i, j \in Id : dir[i] # None /\ dir[i] = dir[j] => i = j
  BY OwnNames DEF SafeInv
<1> QED BY <1>1, RebootBase, RebootOwn, RebootContent DEF SafeInv

\* The list of what may go ended: the program does, too.
LEMMA CrashSafe == ASSUME SafeInv, Crash PROVE SafeInv' /\ ReadersKeepFile'
<1>1. final \in [Id -> File \cup {None}] /\ restarts \in 0 .. MaxRestarts
  BY DEF SafeInv, BaseInv, TypeOK
<1>2. PICK dir : dir = Unlinked(InactiveFiles)
  OBVIOUS
<1>3. dir \in [Id -> File \cup {None}] /\ \A i \in Id : dir[i] \in {None, final[i]}
  BY <1>1, <1>2 DEF Unlinked
<1>4. Reboot(dir) /\ restarts' = restarts
  BY <1>2 DEF Crash
<1>5. ReadersKeepFile'
  BY <1>4 DEF Reboot, ReadersKeepFile
<1> QED BY <1>1, <1>3, <1>4, <1>5, RebootSafe

\* A restart in the middle of whatever goes on.
LEMMA RestartSafe == ASSUME SafeInv, Restart PROVE SafeInv' /\ ReadersKeepFile'
<1>1. final \in [Id -> File \cup {None}] /\ restarts' \in 0 .. MaxRestarts
  BY DEF SafeInv, BaseInv, TypeOK, Restart
<1>2. PICK dir : dir = final
  OBVIOUS
<1>3. Reboot(dir)
  BY <1>2 DEF Restart
<1>4. ReadersKeepFile'
  BY <1>3 DEF Reboot, ReadersKeepFile
<1> QED BY <1>1, <1>2, <1>3, <1>4, RebootSafe

\* Room is made and a download begins.
LEMMA EvictSafe ==
  ASSUME SafeInv, NEW s \in Stream, NEW i \in Id, NEW expected \in Announced[i],
         Evict(s, i, expected)
  PROVE  SafeInv' /\ (ReadersKeepFile => ReadersKeepFile')
<1>1. CASE ListExhausted(maxSize, expected)
  BY <1>1, CrashSafe DEF Evict
<1>2. CASE ~ListExhausted(maxSize, expected)
  <2>1. PICK gone \in SUBSET File, f \in File, inode \in File : Evicts(i, gone, f, inode)
    BY <1>2, EvictFacts DEF SafeInv
  <2>2. cachedFiles[i] = None
    BY <1>2, EvictFacts DEF SafeInv
  <2>3. BaseInv'
    BY <1>2, EvictBase DEF SafeInv
  <2> QED BY <2>1, <2>2, <2>3, EvictOwn, EvictContent, EvictKeep DEF SafeInv
<1> QED BY <1>1, <1>2

\* Files leave the table, and those that nobody reads the disk.
LEMMA RemoveSafe ==
  ASSUME SafeInv, NEW gone \in SUBSET File, NEW dropped \in SUBSET File, maxSize' \in MaxSizes,
         file' = [g \in File |-> IF g \in gone THEN Removed(g) ELSE file[g]],
         final' = Unlinked(gone), cachedFiles' = Dropped(dropped), app = Idle,
         UNCHANGED <<thread, tmp, content, stream, app, used, contended, restarts>>
  PROVE  /\ SafeInv'
         /\ (ReadersKeepFile /\ \A f \in dropped : ~(file[f].active > 0)) => ReadersKeepFile'
<1>1. BaseInv' /\ SameFiles
  BY RemoveBase DEF SafeInv
<1>2. \A i \in Id : final'[i] \in {None, final[i]} /\ cachedFiles'[i] \in {None, cachedFiles[i]}
  BY DEF Unlinked, Dropped
<1>3. OwnInv'
  BY <1>1, <1>2, RemoveOwn DEF SafeInv
<1>4. ASSUME NEW f \in File
      PROVE  /\ file'[f].id = file[f].id /\ file'[f].fetched = file[f].fetched
             /\ ~file'[f].invalid => ~file[f].invalid
  <2>1. file[f] \in FileRecord /\ file'[f] = IF f \in gone THEN Removed(f) ELSE file[f]
    BY DEF SafeInv, BaseInv, TypeOK
  <2>2. Removed(f).id = file[f].id /\ Removed(f).fetched = file[f].fetched /\ Removed(f).invalid = TRUE
    BY RemovedSizes DEF SafeInv, BaseInv
  <2> QED BY <2>1, <2>2
<1>5. ContentInv'
  BY <1>2, <1>4, ContentFrame DEF SafeInv
<1>6. (ReadersKeepFile /\ \A f \in dropped : ~(file[f].active > 0)) => ReadersKeepFile'
  BY <1>1, RemoveKeep DEF SafeInv
<1> QED BY <1>1, <1>3, <1>5, <1>6 DEF SafeInv

\* The cache is given another size.
LEMMA SetMaxSizeSafe ==
  ASSUME SafeInv, NEW max \in MaxSizes, SetMaxSize(max)
  PROVE  SafeInv' /\ (ReadersKeepFile => ReadersKeepFile')
<1>1. CASE ListExhausted(max, 0)
  BY <1>1, CrashSafe DEF SetMaxSize
<1>2. CASE ~ListExhausted(max, 0)
  <2>1. PICK gone \in OldFiles(max, 0) :
          /\ file' = [g \in File |-> IF g \in gone THEN Removed(g) ELSE file[g]]
          /\ final' = Unlinked(gone)
          /\ cachedFiles' = Dropped(gone)
    BY <1>2 DEF SetMaxSize
  <2>2. gone \in SUBSET File /\ \A f \in gone : ~(file[f].active > 0)
    BY OldFilesFacts
  <2>3. app = Idle /\ maxSize' \in MaxSizes
        /\ UNCHANGED <<thread, tmp, content, stream, app, used, contended, restarts>>
    BY <1>2 DEF SetMaxSize
  <2> QED BY <2>1, <2>2, <2>3, RemoveSafe
<1> QED BY <1>1, <1>2

\* The application removes files.
LEMMA RemoveFilteredSafe ==
  ASSUME SafeInv, NEW I \in SUBSET Id, RemoveFiltered(I)
  PROVE  SafeInv' /\ (ReadersKeepFile /\ ~RemoveActive => ReadersKeepFile')
<1>1. PICK chosen \in SUBSET File, gone \in SUBSET File :
        /\ gone = {f \in chosen : ~IsActive(f)} /\ (RemoveActive \/ gone = chosen)
        /\ file' = [g \in File |-> IF g \in gone THEN Removed(g) ELSE file[g]]
        /\ final' = Unlinked(gone) /\ cachedFiles' = Dropped(chosen)
  BY DEF RemoveFiltered
<1>2. app = Idle /\ maxSize' = maxSize
      /\ UNCHANGED <<thread, tmp, content, stream, app, used, contended, restarts>>
  BY DEF RemoveFiltered
<1>3. maxSize' \in MaxSizes
  BY <1>2 DEF SafeInv, BaseInv, TypeOK
<1>4. ~RemoveActive => \A f \in chosen : ~(file[f].active > 0)
  BY <1>1 DEF IsActive
<1> QED BY <1>1, <1>2, <1>3, <1>4, RemoveSafe

\* The call of the application moves on without touching files or streams.
LEMMA CallSafe ==
  ASSUME SafeInv, BaseInv',
         UNCHANGED <<cachedFiles, file, thread, tmp, final, content, stream, contended>>
  PROVE  SafeInv' /\ (ReadersKeepFile => ReadersKeepFile')
<1>1. OwnInv'
  BY DEF SafeInv, OwnInv, UseInv, NameInv, Uses
<1>2. ContentInv'
  BY ContentFrame DEF SafeInv
<1> QED BY <1>1, <1>2 DEF SafeInv, ReadersKeepFile

\* Streams are read and closed.
LEMMA ReadSafe ==
  ASSUME SafeInv, NEW s \in Stream, SeeEos(s) \/ ReadStream(s) \/ Close(s)
  PROVE  SafeInv' /\ (ReadersKeepFile => ReadersKeepFile')
<1>1. BaseInv' /\ OwnInv'
  BY ReadBase, CloseBase, ReadOwn DEF SafeInv
<1>2. UNCHANGED <<cachedFiles, thread, tmp, final, content, contended>>
  BY ReadSame DEF SafeInv
<1>3. \A f \in File : /\ file'[f].id = file[f].id /\ file'[f].fetched = file[f].fetched
                      /\ ~file'[f].invalid => ~file[f].invalid
  BY ReadSame DEF SafeInv
<1>4. \A r \in Stream : stream'[r].state = "open" =>
           /\ stream[r].state = "open" /\ stream'[r].file = stream[r].file
           /\ stream'[r].fd = stream[r].fd
  BY ReadSame DEF SafeInv
<1>5. ContentInv'
  BY <1>2, <1>3, <1>4, ContentFrame DEF SafeInv
<1> QED BY <1>1, <1>5, ReadKeep DEF SafeInv

\* A thread moves on.
LEMMA FetchSafe ==
  ASSUME SafeInv, NEW f \in File, Fetch(f)
  PROVE  SafeInv' /\ (ReadersKeepFile => ReadersKeepFile')
<1>1. BaseInv' /\ OwnInv' /\ ContentInv'
  BY FetchBase, FetchOwn, FetchContent DEF SafeInv
<1>2. UNCHANGED <<cachedFiles, stream>> /\ SameFiles
  BY FetchBase, FetchSteps DEF SafeInv
<1>3. \A s \in Stream : stream[s].state # "closed" => stream[s].file \in File
  BY DEF SafeInv, BaseInv, StreamInv
<1> QED BY <1>1, <1>2, <1>3, KeepFrame DEF SafeInv, SameFiles

\* Every step keeps the invariant, and the files of readers listed.
LEMMA NextSafe ==
  ASSUME SafeInv, [Next]_vars
  PROVE  SafeInv' /\ (ReadersKeepFile /\ ~RemoveActive => ReadersKeepFile')
<1>1. ASSUME NEW s \in Stream, NEW i \in Id, GetStream(s, i)
      PROVE  SafeInv' /\ (ReadersKeepFile => ReadersKeepFile')
  <2>1. UNCHANGED <<cachedFiles, file, thread, tmp, final, content, stream, contended>>
    BY <1>1 DEF GetStream
  <2> QED BY <1>1, <2>1, GetStreamBase, CallSafe DEF SafeInv
<1>2. ASSUME NEW s \in Stream, NEW f \in File, Choose(s, f)
      PROVE  SafeInv' /\ (ReadersKeepFile => ReadersKeepFile')
  <2>1. UNCHANGED <<cachedFiles, file, thread, tmp, final, content, stream, contended>>
    BY <1>2 DEF Choose
  <2> QED BY <1>2, <2>1, ChooseBase, CallSafe DEF SafeInv
<1>3. ASSUME NEW s \in Stream, NEW f \in File, NEW temp \in BOOLEAN, Open(s, f, temp)
      PROVE  SafeInv' /\ (ReadersKeepFile => ReadersKeepFile')
  BY <1>3, OpenBase, OpenOwn, OpenContent, OpenKeep DEF SafeInv
<1>4. CASE UNCHANGED vars
  <2>1. UNCHANGED <<cachedFiles, file, thread, tmp, final, content, stream, contended, app, maxSize,
                    used, restarts>>
    BY <1>4
  <2>2. BaseInv'
    BY <2>1 DEF SafeInv, BaseInv, TypeOK, ListInv, AppInv, ThreadInv, StreamInv, CountInv, Active,
                Readers
  <2> QED BY <2>1, <2>2, CallSafe
<1>5. CASE Next
  BY <1>1, <1>2, <1>3, <1>5, EvictSafe, SetMaxSizeSafe, RemoveFilteredSafe, FetchSafe, ReadSafe,
     RestartSafe DEF Next
<1> QED BY <1>4, <1>5

\* What a reader is told is there.
LEMMA SafeSeen == ASSUME SafeInv PROVE ReadersSeeData
<1> SUFFICES ASSUME NEW s \in Stream, NEW f \in File, NEW m \in File, NEW i \in Id \ contended,
                    f = stream[s].file, m = stream[s].fd, i = file[f].id,
                    stream[s].state = "open", ~file[f].invalid, NEW n \in 1 .. file[f].fetched
             PROVE  n <= Len(content[m]) /\ content[m][n] = n
  <2>1. \A s \in Stream : stream[s].state = "open" =>
          stream[s].file \in File /\ file[stream[s].file].id \in Id
    BY DEF SafeInv, BaseInv, StreamInv
  <2>2. \A s \in Stream : stream[s].fd # None => stream[s].fd \in File
    BY DEF SafeInv, BaseInv, TypeOK
  <2> QED BY <2>1, <2>2 DEF ReadersSeeData
<1>1. /\ file[f].fetched \in Nat /\ Length[i] \in Nat /\ file[f].fetched <= Length[i]
      /\ ReadOf(s)
  BY DEF SafeInv, BaseInv, TypeOK, ContentInv, FetchedOf
<1>2. ASSUME content[m] = Whole(i) PROVE n <= Len(content[m]) /\ content[m][n] = n
  BY <1>1, <1>2, WholeLength
<1>3. ASSUME Fetching(f), thread[f].inode = m PROVE n <= Len(content[m]) /\ content[m][n] = n
  <2>1. FetchOf(f)
    BY <1>3 DEF SafeInv, ContentInv, Active, Fetching
  <2>2. CASE thread[f].pc = "rename"
    BY <1>2, <1>3, <2>1, <2>2 DEF FetchOf
  <2>3. CASE thread[f].pc # "rename"
    <3>1. Upto(content[m], file[f].fetched)
      BY <1>3, <2>1, <2>3 DEF FetchOf, Fetching
    <3> QED BY <1>1, <3>1 DEF Upto
  <2> QED BY <2>2, <2>3
<1>4. \/ file[f].fetched = 0
      \/ content[m] = Whole(i)
      \/ Fetching(f) /\ thread[f].inode = m
  BY <1>1 DEF ReadOf
<1> QED BY <1>1, <1>2, <1>3, <1>4

\* The invariant holds in every state.
LEMMA Safety == Spec => []SafeInv
<1>1. Init => SafeInv
  BY InitSafe
<1>2. SafeInv /\ [Next]_vars => SafeInv'
  BY NextSafe
<1> QED BY <1>1, <1>2, PTL DEF Spec

-----------------------------------------------------------------------------
\* How much of a stream there is, and how much of it its readers think there is.

\* A download that is over fetched all and says so, unless it never began.
OverOf(f) ==
  file[f].id \in Id \ contended /\ ~file[f].invalid =>
    /\ thread[f].pc \in {"rename", "finish"} => file[f].fetched = Length[file[f].id]
    /\ thread[f].pc = "none" =>
         \/ file[f].fetched = Length[file[f].id] /\ file[f].expected = Length[file[f].id]
         \/ file[f].fetched = 0 /\ file[f].expected > 0

\* A reader has read no more than was fetched.
SeenOf(s) == stream[s].state = "open" => stream[s].position <= file[stream[s].file].fetched

SizeInv == (\A f \in File : OverOf(f)) /\ (\A s \in Stream : SeenOf(s))

\* A file whose download could not be started was announced with something in it.
NoEmptyFailure == "thread" \in Faults => \A i \in Id : 0 \notin Announced[i]

\* A step that leaves the downloads alone, and opens no stream.
LEMMA SizeFrame ==
  ASSUME SafeInv, SizeInv, UNCHANGED <<thread, contended>>,
         \A f \in File : /\ file'[f].id = file[f].id /\ file'[f].fetched = file[f].fetched
                         /\ file'[f].expected = file[f].expected
                         /\ ~file'[f].invalid => ~file[f].invalid,
         \A s \in Stream : stream'[s].state = "open" =>
           /\ stream[s].state = "open" /\ stream'[s].file = stream[s].file
           /\ stream'[s].position <= file[stream[s].file].fetched
  PROVE  SizeInv'
<1>1. \A s \in Stream : stream[s].state = "open" => stream[s].file \in File
  BY DEF SafeInv, BaseInv, StreamInv
<1>2. ASSUME NEW f \in File PROVE OverOf(f)'
  BY DEF SizeInv, OverOf
<1>3. ASSUME NEW s \in Stream PROVE SeenOf(s)'
  BY <1>1 DEF SeenOf
<1> QED BY <1>2, <1>3 DEF SizeInv

\* What a step leaves alone stays read as far as it was.
LEMMA SizeSame ==
  ASSUME SafeInv, SizeInv, UNCHANGED <<file, thread, stream, contended>>
  PROVE  SizeInv'
<1>1. \A s \in Stream : stream[s].state = "open" =>
        stream[s].position <= file[stream[s].file].fetched
  BY DEF SizeInv, SeenOf
<1> QED BY <1>1, SizeFrame

\* A program that starts knows the complete files, and how long they are.
LEMMA RebootSize ==
  ASSUME SafeInv, NEW dir \in [Id -> File \cup {None}], Reboot(dir),
         \A i \in Id : dir[i] \in {None, final[i]}
  PROVE  SizeInv'
<1>1. /\ thread' = [f \in File |-> NoThread] /\ stream' = [s \in Stream |-> Closed]
      /\ contended' = contended
  BY DEF Reboot
<1>2. ASSUME NEW f \in File PROVE OverOf(f)'
  <2>1. CASE \E i \in Id : dir[i] = f
    <3>1. PICK i \in Id : i = (CHOOSE j \in Id : dir[j] = f) /\ dir[i] = f
      BY <2>1
    <3>2. file'[f] = FromDisk(f, i)
      BY <2>1, <3>1 DEF Reboot
    <3>3. /\ file'[f].id = i /\ file'[f].fetched = Len(content[f])
          /\ file'[f].expected = Len(content[f])
      BY <3>2 DEF FromDisk
    <3>4. i \notin contended => content[f] = Whole(i)
      BY <3>1 DEF SafeInv, ContentInv, CompleteAlone
    <3>5. i \notin contended => Len(content[f]) = Length[i]
      BY <3>4, WholeLength
    <3> QED BY <1>1, <3>3, <3>5 DEF OverOf
  <2>2. CASE ~(\E i \in Id : dir[i] = f)
    <3>1. file'[f] = NoFile
      BY <2>2 DEF Reboot
    <3> QED BY <3>1 DEF OverOf
  <2> QED BY <2>1, <2>2
<1>3. \A s \in Stream : SeenOf(s)'
  BY <1>1 DEF SeenOf
<1> QED BY <1>2, <1>3 DEF SizeInv

\* So does one that starts after it came to the end of the list.
LEMMA CrashSize == ASSUME SafeInv, Crash PROVE SizeInv'
<1>1. PICK dir : dir = Unlinked(InactiveFiles)
  OBVIOUS
<1>2. dir \in [Id -> File \cup {None}] /\ \A i \in Id : dir[i] \in {None, final[i]}
  BY <1>1 DEF Unlinked, SafeInv, BaseInv, TypeOK
<1>3. Reboot(dir)
  BY <1>1 DEF Crash
<1> QED BY <1>2, <1>3, RebootSize

\* A new download has fetched nothing, and those that go on nothing more.
LEMMA EvictSize ==
  ASSUME SafeInv, SizeInv, NoEmptyFailure, NEW s \in Stream, NEW i \in Id,
         NEW expected \in Announced[i], Evict(s, i, expected)
  PROVE  SizeInv'
<1>1. CASE ListExhausted(maxSize, expected)
  BY <1>1, CrashSize DEF Evict
<1>2. CASE ~ListExhausted(maxSize, expected)
  <2>1. PICK gone \in SUBSET File, f \in File, inode \in File : Evicts(i, gone, f, inode)
    BY <1>2, EvictFacts DEF SafeInv
  <2>2. /\ file'[f].id = i /\ file'[f].fetched = 0 /\ thread'[f].pc \in {"read", "none"}
        /\ thread'[f].pc = "none" => file'[f].expected > 0
    BY <2>1 DEF Evicts, NoEmptyFailure
  <2>3. ASSUME NEW g \in File, g # f
        PROVE  /\ thread'[g] = thread[g] /\ file'[g].id = file[g].id
               /\ file'[g].fetched = file[g].fetched /\ file'[g].expected = file[g].expected
               /\ ~file'[g].invalid => ~file[g].invalid
    <3>1. thread'[g] = thread[g] /\ file'[g] = IF g \in gone THEN Removed(g) ELSE file[g]
      BY <2>1, <2>3 DEF Evicts
    <3>2. file[g] \in FileRecord
      BY DEF SafeInv, BaseInv, TypeOK
    <3>3. /\ Removed(g).id = file[g].id /\ Removed(g).fetched = file[g].fetched
          /\ Removed(g).expected = file[g].expected /\ Removed(g).invalid = TRUE
      BY <3>2 DEF Removed
    <3> QED BY <3>1, <3>3
  <2>4. stream' = stream /\ contended \subseteq contended'
    BY <2>1 DEF Evicts
  <2>5. \A r \in Stream : stream[r].state = "open" => stream[r].file \in File \ {f}
    BY <2>1 DEF Evicts, Spare, SafeInv, BaseInv, StreamInv
  <2>6. ASSUME NEW g \in File PROVE OverOf(g)'
    <3>1. CASE g = f
      BY <2>2, <3>1 DEF OverOf
    <3>2. CASE g # f
      BY <2>3, <2>4, <3>2 DEF SizeInv, OverOf
    <3> QED BY <3>1, <3>2
  <2>7. ASSUME NEW r \in Stream PROVE SeenOf(r)'
    BY <2>3, <2>4, <2>5 DEF SizeInv, SeenOf
  <2> QED BY <2>6, <2>7 DEF SizeInv
<1> QED BY <1>1, <1>2

\* Nothing that was removed is fetched or read further.
LEMMA RemoveSize ==
  ASSUME SafeInv, SizeInv, NEW gone \in SUBSET File, UNCHANGED <<thread, stream, contended>>,
         file' = [g \in File |-> IF g \in gone THEN Removed(g) ELSE file[g]]
  PROVE  SizeInv'
<1>1. ASSUME NEW f \in File
      PROVE  /\ file'[f].id = file[f].id /\ file'[f].fetched = file[f].fetched
             /\ file'[f].expected = file[f].expected
             /\ ~file'[f].invalid => ~file[f].invalid
  <2>1. file[f] \in FileRecord /\ file'[f] = IF f \in gone THEN Removed(f) ELSE file[f]
    BY DEF SafeInv, BaseInv, TypeOK
  <2>2. /\ Removed(f).id = file[f].id /\ Removed(f).fetched = file[f].fetched
        /\ Removed(f).expected = file[f].expected /\ Removed(f).invalid = TRUE
    BY RemovedSizes DEF SafeInv, BaseInv
  <2> QED BY <2>1, <2>2
<1>2. \A s \in Stream : stream[s].state = "open" =>
        stream[s].position <= file[stream[s].file].fetched
  BY DEF SizeInv, SeenOf
<1> QED BY <1>1, <1>2, SizeFrame

\* A new stream has read nothing.
LEMMA OpenSize ==
  ASSUME SafeInv, SizeInv, NEW s \in Stream, NEW f \in File, NEW temp \in BOOLEAN, Open(s, f, temp)
  PROVE  SizeInv'
<1>1. UNCHANGED <<thread, contended>>
  BY DEF Open
<1>2. ASSUME NEW g \in File
      PROVE  /\ file'[g].id = file[g].id /\ file'[g].fetched = file[g].fetched
             /\ file'[g].expected = file[g].expected /\ file'[g].invalid = file[g].invalid
             /\ file[g].fetched \in Nat
  <2>1. PICK n : file' = [file EXCEPT ![f].active = n]
    BY DEF Open
  <2>2. /\ file[g] \in FileRecord
        /\ file'[g] = IF g = f THEN [file[g] EXCEPT !.active = n] ELSE file[g]
    <3> HIDE DEF FileRecord
    <3> QED BY <2>1 DEF SafeInv, BaseInv, TypeOK
  <2> QED BY <2>2
<1>3. /\ stream'[s].file = f /\ stream'[s].position = 0
      /\ \A r \in Stream : r # s => stream'[r] = stream[r]
  <2>1. PICK fd : stream' = [stream EXCEPT ![s] = [state |-> "open", file |-> f,
                                                   position |-> 0, fd |-> fd]]
    BY DEF Open
  <2> QED BY <2>1 DEF SafeInv, BaseInv, TypeOK
<1>4. ASSUME NEW g \in File PROVE OverOf(g)'
  BY <1>1, <1>2 DEF SizeInv, OverOf
<1>5. ASSUME NEW r \in Stream PROVE SeenOf(r)'
  <2>1. CASE r = s
    BY <1>2, <1>3, <2>1 DEF SeenOf
  <2>2. CASE r # s
    <3>1. stream[r].state = "open" => stream[r].file \in File
      BY DEF SafeInv, BaseInv, StreamInv
    <3> QED BY <1>2, <1>3, <2>2, <3>1 DEF SizeInv, SeenOf
  <2> QED BY <2>1, <2>2
<1> QED BY <1>4, <1>5 DEF SizeInv

\* A reader goes on where something was fetched.
LEMMA ReadSize ==
  ASSUME SafeInv, SizeInv, NEW s \in Stream, SeeEos(s) \/ ReadStream(s) \/ Close(s)
  PROVE  SizeInv'
<1>1. UNCHANGED <<thread, contended>>
  BY ReadSame DEF SafeInv
<1>2. ASSUME NEW g \in File
      PROVE  /\ file'[g].id = file[g].id /\ file'[g].fetched = file[g].fetched
             /\ file'[g].expected = file[g].expected
             /\ ~file'[g].invalid => ~file[g].invalid
  <2>1. file[g] \in FileRecord
    BY DEF SafeInv, BaseInv, TypeOK
  <2>2. CASE file' = file
    BY <2>2
  <2>3. CASE Close(s) /\ file' # file
    <3>1. PICK f \in File : f = stream[s].file
      BY <2>3 DEF Close, SafeInv, BaseInv, StreamInv
    <3>2. file' = [file EXCEPT ![f].active = @ - 1]
      BY <2>3, <3>1 DEF Close
    <3>3. file'[g] = file[g] \/ file'[g] = [file[g] EXCEPT !.active = @ - 1]
      BY <3>2 DEF SafeInv, BaseInv, TypeOK
    <3> QED BY <2>1, <3>3
  <2> QED BY <2>2, <2>3 DEF SeeEos, ReadStream, OfStream
<1>3. ASSUME NEW r \in Stream, stream'[r].state = "open"
      PROVE  /\ stream[r].state = "open" /\ stream'[r].file = stream[r].file
             /\ stream'[r].position <= file[stream[r].file].fetched
  <2>1. stream[r].state = "open" /\ stream'[r].file = stream[r].file
    BY <1>3, ReadSame DEF SafeInv
  <2>2. stream[r].position <= file[stream[r].file].fetched
    BY <2>1 DEF SizeInv, SeenOf
  <2>3. PICK f \in File, p \in Nat : f = stream[r].file /\ p = stream[r].position
    BY <2>1 DEF SafeInv, BaseInv, StreamInv
  <2>4. file[f].fetched \in Nat
    BY DEF SafeInv, BaseInv, TypeOK
  <2>5. stream'[r].position = p \/ (stream'[r].position = p + 1 /\ p < file[f].fetched)
    <3>1. stream \in [Stream -> [state : {"closed", "open", "eof", "error"},
                                 file : File \cup {None}, fd : File \cup {None},
                                 position : Nat \cup {-1}]]
      BY DEF SafeInv, BaseInv, TypeOK
    <3>2. CASE r # s
      BY <2>3, <3>1, <3>2 DEF SeeEos, ReadStream, Close
    <3>3. CASE r = s /\ ReadStream(s)
      <4>1. \/ stream' = [stream EXCEPT ![s].state = "error"]
            \/ stream' = [stream EXCEPT ![s].state = "error", ![s].position = p - 1]
            \/ stream' = [stream EXCEPT ![s].position = p + 1] /\ p < file[f].fetched
            \/ stream' = stream
        BY <2>3, <3>1, <3>3 DEF ReadStream
      <4>2. PICK q \in [state : {"closed", "open", "eof", "error"}, file : File \cup {None},
                        fd : File \cup {None}, position : Nat \cup {-1}] : q = stream[r]
        BY <3>1
      <4>3. \/ stream'[r].state = "error"
            \/ stream'[r].position = p + 1 /\ p < file[f].fetched
            \/ stream'[r].position = p
        BY <2>3, <3>1, <3>3, <4>1, <4>2
      <4> QED BY <1>3, <4>3
    <3>4. CASE r = s /\ (SeeEos(s) \/ Close(s))
      <4>1. stream'[s].state \in {"eof", "closed"}
        BY <3>1, <3>4 DEF SeeEos, Close
      <4> QED BY <1>3, <3>4, <4>1
    <3> QED BY <3>2, <3>3, <3>4
  <2> QED BY <2>1, <2>2, <2>3, <2>4, <2>5
<1> QED BY <1>1, <1>2, <1>3, SizeFrame

\* A thread that ends fetched all, and then corrects what was announced.
LEMMA FetchSize ==
  ASSUME SafeInv, SizeInv, NEW f \in File, Fetch(f)
  PROVE  SizeInv'
<1>1. /\ file[f].id \in Id /\ UNCHANGED <<stream, contended>> /\ file'[f].id = file[f].id
      /\ \A g \in File \ {f} : thread'[g] = thread[g] /\ file'[g] = file[g]
  BY FetchSteps DEF SafeInv
<1>2. PICK i \in Id : i = file[f].id
  BY <1>1
<1>3. /\ file[f].fetched \in Nat /\ file'[f].fetched >= file[f].fetched
      /\ file'[f].invalid \/ file'[f].invalid = file[f].invalid
      /\ thread[f].pc # "write" => file'[f].fetched = file[f].fetched
      /\ \/ thread'[f].pc \in {"read", "write", "done", "check"}
         \/ thread'[f].pc = "rename" /\ thread[f].pc = "check"
         \/ thread'[f].pc = "finish" /\ thread[f].pc \in {"check", "rename"}
            /\ (thread[f].pc = "check" => file'[f].invalid)
         \/ /\ thread'[f].pc = "none" /\ thread[f].pc = "finish"
            /\ file'[f].invalid \/ file'[f].expected = file[f].fetched
  <2>1. /\ file \in [File -> FileRecord]
        /\ thread \in [File -> [pc : {"none", "read", "write", "done", "check", "rename", "finish"},
                                read : Nat, offset : Nat, inode : File \cup {None}]]
    BY DEF SafeInv, BaseInv, TypeOK
  <2>2. PICK n \in Nat, bad \in BOOLEAN : n = file[f].fetched /\ bad = file[f].invalid
    BY <2>1
  <2>3. CASE ReadSource(f)
    <3>1. /\ thread[f].pc = "read"
          /\ file' = file \/ file' = [file EXCEPT ![f].invalid = TRUE]
          /\ \/ thread' = [thread EXCEPT ![f].pc = "done"]
             \/ thread' = [thread EXCEPT ![f].pc = "write", ![f].read = @ + 1]
      BY <2>3 DEF ReadSource, At
    <3>2. thread'[f].pc \in {"done", "write"}
      BY <2>1, <3>1
    <3>3. file'[f].fetched = n /\ (file'[f].invalid \/ file'[f].invalid = bad)
      BY <2>1, <2>2, <3>1
    <3> QED BY <2>2, <3>1, <3>2, <3>3
  <2>4. CASE Write(f)
    <3>1. /\ thread[f].pc = "write"
          /\ \/ thread' = [thread EXCEPT ![f].pc = "read", ![f].offset = @ + 1]
             \/ thread' = [thread EXCEPT ![f].pc = "read"]
      BY <2>4 DEF Write, At
    <3>2. PICK b \in BOOLEAN, m \in {n, n + 1} :
            /\ \/ file' = [file EXCEPT ![f].invalid = b, ![f].fetched = m]
               \/ file' = [file EXCEPT ![f].invalid = b]
            /\ b \/ b = bad
      <4>1. CASE file' = [file EXCEPT ![f].invalid = TRUE]
        BY <4>1
      <4>2. CASE file' = [file EXCEPT ![f].invalid = @ \/ file[f].pendingClose,
                                      ![f].fetched = IF file[f].pendingClose THEN @ ELSE @ + 1]
        <5>1. file[f].pendingClose \in BOOLEAN
          BY <2>1
        <5>2. CASE file[f].pendingClose
          <6>1. file' = [file EXCEPT ![f].invalid = TRUE, ![f].fetched = n]
            BY <2>1, <2>2, <4>2, <5>2
          <6> QED BY <6>1
        <5>3. CASE ~file[f].pendingClose
          <6>1. file' = [file EXCEPT ![f].invalid = bad, ![f].fetched = n + 1]
            BY <2>1, <2>2, <4>2, <5>3
          <6> QED BY <6>1
        <5> QED BY <5>2, <5>3
      <4> QED BY <2>4, <4>1, <4>2 DEF Write
    <3>3. thread'[f].pc = "read"
      BY <2>1, <3>1
    <3>4. file'[f].fetched \in {n, n + 1} /\ file'[f].invalid = b
      BY <2>1, <2>2, <3>2
    <3> QED BY <2>2, <3>1, <3>2, <3>3, <3>4
  <2>5. CASE Done(f)
    <3>1. /\ thread[f].pc = "done" /\ thread' = [thread EXCEPT ![f].pc = "check"]
          /\ file' = [file EXCEPT ![f].fetching = FALSE]
      BY <2>5 DEF Done, At
    <3>2. file'[f].fetched = n /\ file'[f].invalid = bad /\ thread'[f].pc = "check"
      BY <2>1, <2>2, <3>1
    <3> QED BY <2>2, <3>1, <3>2
  <2>6. CASE Check(f)
    <3>1. /\ thread[f].pc = "check" /\ file' = file
          /\ thread' = [thread EXCEPT ![f].pc = IF file[f].invalid THEN "finish" ELSE "rename"]
      BY <2>6 DEF Check, At
    <3>2. thread'[f].pc = IF bad THEN "finish" ELSE "rename"
      BY <2>1, <2>2, <3>1
    <3> QED BY <2>2, <3>1, <3>2
  <2>7. CASE Rename(f)
    <3>1. /\ thread[f].pc = "rename" /\ thread' = [thread EXCEPT ![f].pc = "finish"]
          /\ file' = file \/ file' = [file EXCEPT ![f].invalid = TRUE]
      BY <2>7 DEF Rename, At
    <3>2. thread'[f].pc = "finish"
      BY <2>1, <3>1
    <3>3. file'[f].fetched = n /\ (file'[f].invalid \/ file'[f].invalid = bad)
      BY <2>1, <2>2, <3>1
    <3> QED BY <2>2, <3>1, <3>2, <3>3
  <2>8. CASE Finish(f)
    <3>1. /\ thread[f].pc = "finish" /\ thread' = [thread EXCEPT ![f] = NoThread]
          /\ \/ bad /\ file' = file
             \/ file' = [file EXCEPT ![f].expected = n]
      BY <2>2, <2>8 DEF Finish, At
    <3>2. thread'[f].pc = "none"
      BY <2>1, <3>1
    <3>3. /\ file'[f].fetched = n /\ file'[f].invalid = bad
          /\ bad \/ file'[f].expected = n
      BY <2>1, <2>2, <3>1
    <3> QED BY <2>2, <3>1, <3>2, <3>3
  <2> QED BY <2>3, <2>4, <2>5, <2>6, <2>7, <2>8 DEF Fetch
<1>4. ASSUME i \notin contended, ~file[f].invalid
      PROVE  thread[f].pc \in {"check", "rename", "finish"} => file[f].fetched = Length[i]
  <2>1. thread[f].pc = "check" => FetchOf(f)
    BY <1>2, <1>4 DEF SafeInv, ContentInv, Active
  <2>2. thread[f].pc = "check" => file[f].fetched = Length[i]
    BY <1>2, <1>3, <1>4, <2>1 DEF FetchOf
  <2>3. thread[f].pc \in {"rename", "finish"} => file[f].fetched = Length[i]
    BY <1>2, <1>4 DEF SizeInv, OverOf
  <2> QED BY <2>2, <2>3
<1>5. OverOf(f)'
  <2> SUFFICES ASSUME i \notin contended, ~file'[f].invalid
               PROVE  /\ thread'[f].pc \in {"rename", "finish"} => file'[f].fetched = Length[i]
                      /\ thread'[f].pc = "none" =>
                           file'[f].fetched = Length[i] /\ file'[f].expected = Length[i]
    BY <1>1, <1>2 DEF OverOf
  <2>1. ~file[f].invalid
    BY <1>3
  <2> QED BY <1>3, <1>4, <2>1
<1>6. ASSUME NEW g \in File, g # f PROVE OverOf(g)'
  BY <1>1, <1>6 DEF SizeInv, OverOf
<1>7. ASSUME NEW s \in Stream PROVE SeenOf(s)'
  <2> SUFFICES ASSUME stream[s].state = "open"
               PROVE  stream[s].position <= file'[stream[s].file].fetched
    BY <1>1 DEF SeenOf
  <2>1. stream[s].file \in File /\ stream[s].position \in Nat
    BY DEF SafeInv, BaseInv, StreamInv
  <2>2. stream[s].position <= file[stream[s].file].fetched
    BY DEF SizeInv, SeenOf
  <2>3. CASE stream[s].file = f
    <3>1. file'[f].fetched \in Nat
      BY <1>3, FetchBase DEF SafeInv, BaseInv, TypeOK
    <3> QED BY <1>3, <2>1, <2>2, <2>3, <3>1
  <2>4. CASE stream[s].file # f
    BY <1>1, <2>1, <2>2, <2>4
  <2> QED BY <2>3, <2>4
<1> QED BY <1>5, <1>6, <1>7 DEF SizeInv

\* Every step keeps what is known of the sizes.
LEMMA NextSize ==
  ASSUME SafeInv, SizeInv, NoEmptyFailure, [Next]_vars
  PROVE  SizeInv'
<1>1. ASSUME NEW s \in Stream, NEW i \in Id, GetStream(s, i) PROVE SizeInv'
  BY <1>1, SizeSame DEF GetStream
<1>2. ASSUME NEW s \in Stream, NEW f \in File, Choose(s, f) PROVE SizeInv'
  BY <1>2, SizeSame DEF Choose
<1>3. ASSUME NEW max \in MaxSizes, SetMaxSize(max) PROVE SizeInv'
  <2>1. CASE ListExhausted(max, 0)
    BY <1>3, <2>1, CrashSize DEF SetMaxSize
  <2>2. CASE ~ListExhausted(max, 0)
    <3>1. PICK gone \in OldFiles(max, 0) :
            file' = [g \in File |-> IF g \in gone THEN Removed(g) ELSE file[g]]
      BY <1>3, <2>2 DEF SetMaxSize
    <3>2. gone \in SUBSET File /\ UNCHANGED <<thread, stream, contended>>
      BY <1>3, <2>2, OldFilesFacts DEF SetMaxSize
    <3> QED BY <3>1, <3>2, RemoveSize
  <2> QED BY <2>1, <2>2
<1>4. ASSUME NEW I \in SUBSET Id, RemoveFiltered(I) PROVE SizeInv'
  <2>1. PICK gone \in SUBSET File :
          file' = [g \in File |-> IF g \in gone THEN Removed(g) ELSE file[g]]
    BY <1>4 DEF RemoveFiltered
  <2>2. UNCHANGED <<thread, stream, contended>>
    BY <1>4 DEF RemoveFiltered
  <2> QED BY <2>1, <2>2, RemoveSize
<1>5. ASSUME Restart PROVE SizeInv'
  <2>1. final \in [Id -> File \cup {None}] /\ Reboot(final)
    BY <1>5 DEF Restart, SafeInv, BaseInv, TypeOK
  <2> QED BY <2>1, RebootSize
<1>6. CASE UNCHANGED vars
  BY <1>6, SizeSame
<1>7. CASE Next
  BY <1>1, <1>2, <1>3, <1>4, <1>5, <1>7, EvictSize, OpenSize, FetchSize, ReadSize DEF Next
<1> QED BY <1>6, <1>7

\* Only the test for the end comes to it.
LEMMA EosSeen ==
  ASSUME BaseInv, Next, NEW s \in Stream, stream[s].state = "open", stream'[s].state = "eof"
  PROVE  SeeEos(s)
<1>1. stream \in [Stream -> [state : {"closed", "open", "eof", "error"},
                             file : File \cup {None}, fd : File \cup {None},
                             position : Nat \cup {-1}]]
  BY DEF BaseInv, TypeOK
<1>2. stream' # stream /\ stream' # [r \in Stream |-> Closed]
  OBVIOUS
<1>3. ~Restart /\ ~Crash
  BY <1>2 DEF Restart, Crash, Reboot
<1>4. ASSUME NEW r \in Stream, NEW i \in Id
      PROVE  ~GetStream(r, i) /\ \A n \in Announced[i] : ~Evict(r, i, n)
  <2>1. ~GetStream(r, i)
    BY <1>2 DEF GetStream
  <2>2. ASSUME NEW n \in Announced[i], Evict(r, i, n) PROVE FALSE
    <3>1. ~ListExhausted(maxSize, n)
      BY <1>3, <2>2, Zenon DEF Evict
    <3>2. stream' = stream
      BY <2>2, <3>1, EvictTakes
    <3> QED BY <1>2, <3>2
  <2> QED BY <2>1, <2>2
<1>5. ASSUME NEW r \in Stream, NEW f \in File
      PROVE  ~Choose(r, f) /\ \A temp \in BOOLEAN : ~Open(r, f, temp)
  <2>1. ~Choose(r, f)
    BY <1>2 DEF Choose
  <2>2. ASSUME NEW temp \in BOOLEAN, Open(r, f, temp) PROVE FALSE
    <3>1. PICK fd : stream' = [stream EXCEPT ![r] = [state |-> "open", file |-> f,
                                                     position |-> 0, fd |-> fd]]
      BY <2>2 DEF Open
    <3>2. stream'[s].state = "open"
      BY <1>1, <3>1
    <3> QED BY <3>2
  <2> QED BY <2>1, <2>2
<1>6. (\A max \in MaxSizes : ~SetMaxSize(max)) /\ (\A I \in SUBSET Id : ~RemoveFiltered(I))
  BY <1>2, <1>3 DEF SetMaxSize, RemoveFiltered
<1>7. \A f \in File : ~Fetch(f)
  BY <1>2 DEF Fetch, ReadSource, Write, Done, Check, Rename, Finish, OfThread
<1>8. ASSUME NEW r \in Stream, SeeEos(r) \/ ReadStream(r) \/ Close(r)
      PROVE  r = s /\ SeeEos(s)
  <2>1. r = s
    BY <1>1, <1>8 DEF SeeEos, ReadStream, Close
  <2>2. ~Close(s)
    BY <1>1 DEF Close
  <2>3. ASSUME ReadStream(s) PROVE FALSE
    <3>1. PICK q \in [state : {"closed", "open", "eof", "error"}, file : File \cup {None},
                      fd : File \cup {None}, position : Nat \cup {-1}] : q = stream[s]
      BY <1>1
    <3>2. stream'[s].state \in {"error", "open"}
      <4>1. \/ stream'[s] = [q EXCEPT !.state = "error"]
            \/ stream'[s] = [q EXCEPT !.state = "error", !.position = q.position - 1]
            \/ stream'[s] = [q EXCEPT !.position = q.position + 1]
            \/ stream'[s] = q
        BY <1>1, <2>3, <3>1 DEF ReadStream
      <4> QED BY <3>1, <4>1
    <3> QED BY <3>2
  <2> QED BY <1>8, <2>1, <2>2, <2>3
<1> QED BY <1>3, <1>4, <1>5, <1>6, <1>7, <1>8 DEF Next

-----------------------------------------------------------------------------
\* Sums of sizes.  MapThenSumSet is a recursive function of the subsets of a set.  What it
\* computes is shown by induction, said with a set of subsets instead of a predicate: the
\* induction theorems of the library take an operator, but WFMin takes a set.

\* The sum of what a table w of files says that is expected of the files in S.
SumOf(w, S) == MapThenSumSet(LAMBDA f : w[f].expected, S)

\* One step of the recursion, and the function that it defines.
Adds(w, s, g) ==
  IF s = {} THEN 0 ELSE LET x == CHOOSE x \in s : TRUE IN w[x].expected + g[s \ {x}]
Sums(w, S) == CHOOSE g : g = [s \in SUBSET S |-> Adds(w, s, g)]

\* What holds of a finite set when it holds of its strict subsets holds of all.
LEMMA SubsetInduction ==
  ASSUME NEW S, IsFiniteSet(S), NEW G,
         \A T \in SUBSET S : (\A U \in SUBSET T : U # T => U \in G) => T \in G
  PROVE  \A T \in SUBSET S : T \in G
<1> DEFINE bad == (SUBSET S) \ G
<1> SUFFICES ASSUME bad # {} PROVE FALSE
  OBVIOUS
<1>1. IsWellFoundedOn(StrictSubsetOrdering(S), SUBSET S)
  <2>1. FiniteSubsetsOf(S) = SUBSET S
    BY FS_FiniteSubsetsOfFinite
  <2>2. IsWellFoundedOn(StrictSubsetOrdering(S), FiniteSubsetsOf(S))
    BY FS_StrictSubsetOrderingWellFounded
  <2> QED BY <2>1, <2>2
<1>2. \E T \in bad : \A U \in bad : <<U, T>> \notin StrictSubsetOrdering(S)
  <2>1. bad \subseteq SUBSET S
    OBVIOUS
  <2> HIDE DEF bad
  <2> QED BY <1>1, <2>1, WFMin
<1>3. PICK T \in SUBSET S : T \notin G /\ \A U \in bad : <<U, T>> \notin StrictSubsetOrdering(S)
  BY <1>2
<1>4. \A U \in SUBSET T : U # T => U \in G
  BY <1>3 DEF StrictSubsetOrdering
<1> QED BY <1>3, <1>4

\* Induction over the naturals, for a set of them.
LEMMA SetOfNat ==
  ASSUME NEW G, 0 \in G, \A n \in Nat : n \in G => n + 1 \in G
  PROVE  Nat \subseteq G
<1> DEFINE bad == Nat \ G
           R == OpToRel(<, Nat)
<1> SUFFICES ASSUME bad # {} PROVE FALSE
  OBVIOUS
<1>1. PICK n \in bad : \A m \in bad : <<m, n>> \notin R
  <2>1. bad \subseteq Nat
    OBVIOUS
  <2>2. IsWellFoundedOn(R, Nat)
    BY NatLessThanWellFounded, Zenon
  <2> HIDE DEF bad, R
  <2> QED BY <2>1, <2>2, WFMin
<1>2. \A m \in bad : ~(m < n)
  BY <1>1 DEF OpToRel
<1>3. n # 0 /\ n - 1 \in Nat /\ n - 1 < n /\ (n - 1) + 1 = n
  OBVIOUS
<1>4. n - 1 \in G
  BY <1>2, <1>3
<1>5. (n - 1) + 1 \in G
  BY <1>3, <1>4
<1> QED BY <1>3, <1>5

\* The subsets of S with at most n elements.
Level(S, n) == {s \in SUBSET S : Cardinality(s) <= n}

\* The recursion has a solution.
LEMMA SumsDefined ==
  ASSUME NEW w, NEW S, IsFiniteSet(S)
  PROVE  Sums(w, S) = [s \in SUBSET S |-> Adds(w, s, Sums(w, S))]
<1> DEFINE Solves(n, g) == g = [s \in Level(S, n) |-> Adds(w, s, g)]
           G == {n \in Nat : \E g : Solves(n, g)}
<1>1. \A s \in SUBSET S : IsFiniteSet(s) /\ Cardinality(s) \in Nat
  BY FS_Subset, FS_CardinalityType
<1>2. 0 \in G
  <2>1. \A s \in Level(S, 0) : s = {}
    BY <1>1, FS_EmptySet DEF Level
  <2> DEFINE z == [s \in Level(S, 0) |-> 0]
  <2>2. \A s \in Level(S, 0) : Adds(w, s, z) = 0
    BY <2>1 DEF Adds
  <2>3. z = [s \in Level(S, 0) |-> Adds(w, s, z)]
    BY <2>2
  <2> QED BY <2>3
<1>3. ASSUME NEW n \in Nat, n \in G PROVE n + 1 \in G
  <2>1. PICK g : Solves(n, g)
    BY <1>3
  <2> DEFINE h == [s \in Level(S, n + 1) |-> Adds(w, s, g)]
  <2>2. \A s \in Level(S, n) : s \in Level(S, n + 1)
    BY <1>1 DEF Level
  <2>3. \A s \in Level(S, n) : h[s] = g[s]
    BY <2>1, <2>2
  <2>4. ASSUME NEW s \in Level(S, n + 1) PROVE Adds(w, s, g) = Adds(w, s, h)
    <3>1. CASE s = {}
      BY <3>1 DEF Adds
    <3>2. CASE s # {}
      <4>1. PICK x : x = (CHOOSE y \in s : TRUE) /\ x \in s
        BY <3>2
      <4>2. s \in SUBSET S /\ Cardinality(s) <= n + 1
        BY DEF Level
      <4>3. s \ {x} \in SUBSET S /\ Cardinality(s \ {x}) = Cardinality(s) - 1
        BY <1>1, <4>1, <4>2, FS_RemoveElement
      <4>4. s \ {x} \in Level(S, n)
        BY <1>1, <4>2, <4>3 DEF Level
      <4>5. g[s \ {x}] = h[s \ {x}]
        BY <2>3, <4>4
      <4> HIDE DEF h
      <4>6. /\ Adds(w, s, g) = w[x].expected + g[s \ {x}]
            /\ Adds(w, s, h) = w[x].expected + h[s \ {x}]
        BY <3>2, <4>1 DEF Adds
      <4> QED BY <4>5, <4>6
    <3> QED BY <3>1, <3>2
  <2>5. h = [s \in Level(S, n + 1) |-> Adds(w, s, h)]
    BY <2>4
  <2>6. n + 1 \in Nat /\ Solves(n + 1, h)
    BY <2>5
  <2> HIDE DEF h, Solves
  <2> QED BY <2>6
<1>4. Cardinality(S) \in G
  <2> HIDE DEF G
  <2>1. Nat \subseteq G
    BY <1>2, <1>3, SetOfNat
  <2> QED BY <1>1, <2>1
<1>5. Level(S, Cardinality(S)) = SUBSET S
  BY FS_Subset DEF Level
<1>6. \E g : g = [s \in SUBSET S |-> Adds(w, s, g)]
  BY <1>4, <1>5
<1> QED BY <1>6 DEF Sums

\* The sum of no files, and of one file and the others.
LEMMA SumOfSteps ==
  ASSUME NEW w, NEW S, IsFiniteSet(S)
  PROVE  /\ SumOf(w, {}) = 0
         /\ \A T \in SUBSET S : T # {} =>
              \E x \in T : /\ x = (CHOOSE y \in T : TRUE)
                          /\ SumOf(w, T) = w[x].expected + SumOf(w, T \ {x})
<1>1. \A T : SumOf(w, T) = Sums(w, T)[T]
  BY DEF SumOf, MapThenSumSet, MapThenFoldSet, Sums, Adds
<1>2. ASSUME NEW T \in SUBSET S
      PROVE  /\ IsFiniteSet(T)
             /\ \A s \in SUBSET T : Sums(w, T)[s] = Adds(w, s, Sums(w, T))
  <2>1. IsFiniteSet(T)
    BY FS_Subset
  <2>2. Sums(w, T) = [s \in SUBSET T |-> Adds(w, s, Sums(w, T))]
    BY <2>1, SumsDefined, Zenon
  <2> QED BY <2>1, <2>2
<1> DEFINE G == {T \in SUBSET S : \A A \in SUBSET S : T \subseteq A => Sums(w, A)[T] = SumOf(w, T)}
<1>3. ASSUME NEW T \in SUBSET S, T # {}, \A U \in SUBSET T : U # T => U \in G
      PROVE  \E x \in T : /\ x = (CHOOSE y \in T : TRUE)
                          /\ SumOf(w, T) = w[x].expected + SumOf(w, T \ {x})
                          /\ \A A \in SUBSET S : T \subseteq A =>
                               Sums(w, A)[T] = w[x].expected + SumOf(w, T \ {x})
  <2>1. PICK x \in T : x = (CHOOSE y \in T : TRUE)
    BY <1>3
  <2>2. T \ {x} \in G
    BY <1>3, <2>1
  <2>3. ASSUME NEW A \in SUBSET S, T \subseteq A
        PROVE  Sums(w, A)[T] = w[x].expected + SumOf(w, T \ {x})
    <3>1. Sums(w, A)[T] = Adds(w, T, Sums(w, A))
      BY <1>2, <2>3
    <3>2. Adds(w, T, Sums(w, A)) = w[x].expected + Sums(w, A)[T \ {x}]
      BY <1>3, <2>1 DEF Adds
    <3>3. Sums(w, A)[T \ {x}] = SumOf(w, T \ {x})
      BY <2>2, <2>3
    <3> QED BY <3>1, <3>2, <3>3
  <2>4. SumOf(w, T) = w[x].expected + SumOf(w, T \ {x})
    BY <1>1, <2>3
  <2> QED BY <2>1, <2>3, <2>4
<1>4. ASSUME NEW T \in SUBSET S, T = {}
      PROVE  SumOf(w, {}) = 0 /\ T \in G
  <2>1. \A A \in SUBSET S : Sums(w, A)[{}] = 0
    BY <1>2 DEF Adds
  <2> QED BY <1>1, <1>4, <2>1
<1>5. ASSUME NEW T \in SUBSET S, \A U \in SUBSET T : U # T => U \in G
      PROVE  T \in G
  <2>1. CASE T = {}
    BY <1>4, <2>1
  <2>2. CASE T # {}
    BY <1>3, <1>5, <2>2
  <2> QED BY <2>1, <2>2
<1>6. \A T \in SUBSET S : T \in G
  <2> HIDE DEF G
  <2> QED BY <1>5, SubsetInduction
<1>7. \A T \in SUBSET S : T # {} =>
        \E x \in T : /\ x = (CHOOSE y \in T : TRUE)
                    /\ SumOf(w, T) = w[x].expected + SumOf(w, T \ {x})
  <2> SUFFICES ASSUME NEW T \in SUBSET S, T # {}
               PROVE  \E x \in T : /\ x = (CHOOSE y \in T : TRUE)
                                   /\ SumOf(w, T) = w[x].expected + SumOf(w, T \ {x})
    OBVIOUS
  <2>1. \A U \in SUBSET T : U # T => U \in G
    <3> HIDE DEF G
    <3> QED BY <1>6
  <2> HIDE DEF G
  <2> QED BY <1>3, <2>1
<1> QED BY <1>4, <1>7

\* The sizes are naturals, and so is their sum; only what is in S counts.
LEMMA SumOfSame ==
  ASSUME NEW w, NEW v, NEW S, IsFiniteSet(S),
         \A f \in S : w[f].expected \in Nat /\ v[f].expected = w[f].expected
  PROVE  SumOf(w, S) \in Nat /\ SumOf(v, S) = SumOf(w, S)
<1> DEFINE G == {T \in SUBSET S : SumOf(w, T) \in Nat /\ SumOf(v, T) = SumOf(w, T)}
<1>1. ASSUME NEW T \in SUBSET S, \A U \in SUBSET T : U # T => U \in G
      PROVE  SumOf(w, T) \in Nat /\ SumOf(v, T) = SumOf(w, T)
  <2>1. CASE T = {}
    BY <2>1, SumOfSteps
  <2>2. CASE T # {}
    <3>1. PICK x \in T : /\ x = (CHOOSE y \in T : TRUE)
                         /\ SumOf(w, T) = w[x].expected + SumOf(w, T \ {x})
      BY <2>2, SumOfSteps
    <3>2. SumOf(v, T) = v[x].expected + SumOf(v, T \ {x})
      <4>1. PICK z \in T : /\ z = (CHOOSE y \in T : TRUE)
                           /\ SumOf(v, T) = v[z].expected + SumOf(v, T \ {z})
        BY <2>2, SumOfSteps
      <4>2. z = x
        BY <3>1, <4>1
      <4> QED BY <4>1, <4>2
    <3>3. T \ {x} \in G
      BY <1>1, <3>1
    <3> QED BY <3>1, <3>2, <3>3
  <2> QED BY <2>1, <2>2
<1>2. \A T \in SUBSET S : T \in G
  <2>1. ASSUME NEW T \in SUBSET S, \A U \in SUBSET T : U # T => U \in G PROVE T \in G
    BY <1>1, <2>1
  <2> HIDE DEF G
  <2> QED BY <2>1, SubsetInduction
<1> QED BY <1>2

\* Any element can be taken out of a sum.
LEMMA SumOfOne ==
  ASSUME NEW w, NEW S, IsFiniteSet(S), \A f \in S : w[f].expected \in Nat, NEW f \in S
  PROVE  SumOf(w, S) = w[f].expected + SumOf(w, S \ {f})
<1> DEFINE G == {T \in SUBSET S : \A y \in T : SumOf(w, T) = w[y].expected + SumOf(w, T \ {y})}
<1>1. \A T \in SUBSET S : SumOf(w, T) \in Nat
  <2> TAKE T \in SUBSET S
  <2>1. IsFiniteSet(T)
    BY FS_Subset
  <2> QED BY <2>1, SumOfSame
<1>2. ASSUME NEW T \in SUBSET S, \A U \in SUBSET T : U # T => U \in G, NEW y \in T
      PROVE  SumOf(w, T) = w[y].expected + SumOf(w, T \ {y})
  <2>1. PICK x \in T : /\ x = (CHOOSE z \in T : TRUE)
                       /\ SumOf(w, T) = w[x].expected + SumOf(w, T \ {x})
    BY SumOfSteps
  <2>2. CASE x = y
    BY <2>1, <2>2
  <2>3. CASE x # y
    <3>1. T \ {x} \in G /\ T \ {y} \in G /\ y \in T \ {x} /\ x \in T \ {y}
      BY <1>2, <2>3
    <3>2. /\ SumOf(w, T \ {x}) = w[y].expected + SumOf(w, (T \ {x}) \ {y})
          /\ SumOf(w, T \ {y}) = w[x].expected + SumOf(w, (T \ {y}) \ {x})
      BY <3>1
    <3>3. (T \ {x}) \ {y} = (T \ {y}) \ {x}
      OBVIOUS
    <3>4. PICK n \in Nat, m \in Nat, k \in Nat :
            n = SumOf(w, (T \ {x}) \ {y}) /\ m = w[x].expected /\ k = w[y].expected
      BY <1>1
    <3>5. SumOf(w, T) = m + (k + n)
      BY <2>1, <3>2, <3>4
    <3>6. SumOf(w, T \ {y}) = m + n
      BY <3>2, <3>3, <3>4
    <3> QED BY <3>4, <3>5, <3>6
  <2> QED BY <2>2, <2>3
<1>3. \A T \in SUBSET S : T \in G
  <2>1. ASSUME NEW T \in SUBSET S, \A U \in SUBSET T : U # T => U \in G PROVE T \in G
    BY <1>2, <2>1
  <2> HIDE DEF G
  <2> QED BY <2>1, SubsetInduction
<1> QED BY <1>3

\* A part of a set and the rest add up.
LEMMA SumOfParts ==
  ASSUME NEW w, NEW S, IsFiniteSet(S), \A f \in S : w[f].expected \in Nat, NEW P \in SUBSET S
  PROVE  /\ SumOf(w, S) = SumOf(w, P) + SumOf(w, S \ P)
         /\ SumOf(w, S) \in Nat /\ SumOf(w, P) \in Nat /\ SumOf(w, S \ P) \in Nat
<1> DEFINE G == {T \in SUBSET P : SumOf(w, S) = SumOf(w, T) + SumOf(w, S \ T)}
<1>1. ASSUME NEW T \in SUBSET S PROVE IsFiniteSet(T) /\ SumOf(w, T) \in Nat
  <2>1. IsFiniteSet(T)
    BY FS_Subset
  <2> QED BY <2>1, SumOfSame
<1>2. ASSUME NEW T \in SUBSET P, \A U \in SUBSET T : U # T => U \in G
      PROVE  T \in G
  <2>1. CASE T = {}
    <3>1. SumOf(w, T) = 0 /\ SumOf(w, S) \in Nat
      BY <1>1, <2>1, SumOfSteps
    <3>2. SumOf(w, S \ T) = SumOf(w, S)
      <4>1. PICK R : R = S \ T
        OBVIOUS
      <4>2. R = S
        BY <2>1, <4>1
      <4> QED BY <4>1, <4>2, Zenon
    <3>3. SumOf(w, S) = SumOf(w, T) + SumOf(w, S \ T)
      BY <3>1, <3>2
    <3> QED BY <3>3
  <2>2. CASE T # {}
    <3>1. PICK x : x \in T
      BY <2>2
    <3>2. T \ {x} \in G
      BY <1>2, <3>1
    <3>3. SumOf(w, T) = w[x].expected + SumOf(w, T \ {x})
      BY <1>1, <3>1, SumOfOne
    <3>4. SumOf(w, S \ (T \ {x})) = w[x].expected + SumOf(w, S \ T)
      <4>1. x \in S \ (T \ {x}) /\ (S \ (T \ {x})) \ {x} = S \ T
        BY <3>1
      <4> DEFINE R == S \ (T \ {x})
      <4>2. IsFiniteSet(R) /\ \A f \in R : w[f].expected \in Nat
        BY <1>1
      <4>3. x \in R /\ R \ {x} = S \ T
        BY <4>1
      <4> HIDE DEF R
      <4>4. SumOf(w, R) = w[x].expected + SumOf(w, R \ {x})
        BY <4>2, <4>3, SumOfOne
      <4> QED BY <4>3, <4>4 DEF R
    <3>5. /\ SumOf(w, T \ {x}) \in Nat /\ SumOf(w, S \ T) \in Nat /\ w[x].expected \in Nat
          /\ SumOf(w, S) = SumOf(w, T \ {x}) + SumOf(w, S \ (T \ {x}))
      BY <1>1, <3>1, <3>2
    <3>6. SumOf(w, S) = SumOf(w, T) + SumOf(w, S \ T)
      BY <3>3, <3>4, <3>5
    <3> QED BY <3>6
  <2> QED BY <2>1, <2>2
<1>3. P \in G
  <2>1. IsFiniteSet(P)
    BY <1>1
  <2> HIDE DEF G
  <2> QED BY <1>2, <2>1, SubsetInduction
<1> QED BY <1>1, <1>3

\* The cache's sum of the sizes of files is one of these sums.
LEMMA SumExpectedIs == ASSUME NEW S PROVE SumExpected(S) = SumOf(file, S)
BY DEF SumExpected, SumOf

\* What a call takes into the table fits in it with what it does not remove.
LEMMA EvictFits ==
  ASSUME BaseInv, NEW s \in Stream, NEW i \in Id, NEW expected \in Announced[i],
         Evict(s, i, expected), ~ListExhausted(maxSize, expected)
  PROVE  SumOf(file', Listed') <= maxSize
<1> USE DEF BaseInv
<1>1. PICK gone \in OldFiles(maxSize, expected), f \in {g \in File : Spare(g)} :
        /\ file' = [g \in File |->
                      IF g = f THEN [NoFile EXCEPT !.id = i, !.expected = expected,
                                                   !.fetching = TRUE]
                      ELSE IF g \in gone THEN Removed(g) ELSE file[g]]
        /\ cachedFiles' = [Dropped(gone) EXCEPT ![i] = f]
  <2>1. PICK gone \in OldFiles(maxSize, expected), f \in {g \in File : Spare(g)} :
          \E inode, start : Takes(s, i, expected, gone, f, inode, start)
    BY EvictTakes
  <2> QED BY <2>1, Zenon DEF Takes
<1>2. PICK q \in RemoveOrders, n \in Nat :
        gone = ToSet(SubSeq(q, 1, n)) /\ Enough(q, n, maxSize, expected)
  BY DEF OldFiles
<1>3. FreeSpace(maxSize) + SumExpected(gone) >= expected
  BY <1>2 DEF Enough
<1>4. gone \in SUBSET InactiveFiles /\ f \in File /\ f \notin Listed /\ expected \in Nat
  <2>1. gone \in SUBSET InactiveFiles
    BY DEF OldFiles
  <2>2. f \in File /\ f \notin Listed
    BY DEF Spare
  <2> QED BY <2>1, <2>2
<1>5. gone \in SUBSET Listed /\ Listed \in SUBSET File
  BY <1>4 DEF InactiveFiles, Listed
<1>6. IsFiniteSet(Listed) /\ \A g \in File : file[g].expected \in Nat
  <2>1. IsFiniteSet(Listed)
    BY <1>5, FS_Subset
  <2> QED BY <2>1 DEF TypeOK
<1>7. /\ SumOf(file, Listed) = SumOf(file, gone) + SumOf(file, Listed \ gone)
      /\ SumOf(file, Listed) \in Nat /\ SumOf(file, gone) \in Nat
      /\ SumOf(file, Listed \ gone) \in Nat
  BY <1>5, <1>6, SumOfParts
<1>8. cachedFiles[i] = None
  <2>1. app = <<"evict", s, i, expected>>
    BY EvictTakes
  <2> QED BY <2>1 DEF AppInv
<1>9. Listed' = (Listed \ gone) \cup {f}
  <2>1. cachedFiles \in [Id -> File \cup {None}]
    BY DEF TypeOK
  <2>2. \A j \in Id : cachedFiles'[j] = IF j = i THEN f ELSE
                                        IF cachedFiles[j] \in gone THEN None ELSE cachedFiles[j]
    BY <1>1, <2>1 DEF Dropped
  <2>3. ASSUME NEW g \in File PROVE g \in Listed' <=> g \in (Listed \ gone) \cup {f}
    BY <1>4, <1>8, <2>1, <2>2 DEF Listed
  <2>4. Listed' \subseteq File
    BY DEF Listed
  <2> QED BY <1>4, <1>5, <2>3, <2>4
<1>10. /\ file'[f].expected = expected
       /\ \A g \in Listed \ gone : file'[g].expected = file[g].expected
  BY <1>1, <1>4, <1>5
<1>11. SumOf(file', Listed \ gone) = SumOf(file, Listed \ gone)
  <2>1. IsFiniteSet(Listed \ gone)
    BY <1>6, FS_Difference
  <2> QED BY <1>5, <1>6, <1>10, <2>1, SumOfSame
<1>12. SumOf(file', Listed') = expected + SumOf(file', Listed \ gone)
  <2>1. IsFiniteSet(Listed') /\ Listed' \ {f} = Listed \ gone /\ f \in Listed'
    <3>1. IsFiniteSet(Listed')
      BY FS_Subset DEF Listed
    <3> QED BY <1>4, <1>9, <3>1
  <2>2. \A g \in Listed' : file'[g].expected \in Nat
    BY <1>4, <1>5, <1>6, <1>9, <1>10
  <2> QED BY <1>10, <2>1, <2>2, SumOfOne
<1>13. FreeSpace(maxSize) = maxSize - SumOf(file, Listed) /\ SumExpected(gone) = SumOf(file, gone)
  BY SumExpectedIs DEF FreeSpace
<1>14. maxSize \in Nat
  BY DEF TypeOK
<1> QED BY <1>3, <1>4, <1>7, <1>11, <1>12, <1>13, <1>14

\* Only the call that takes a new stream goes on to hand it out.
LEMMA EvictSeen ==
  ASSUME BaseInv, Next, app[1] = "evict", app'[1] = "choose"
  PROVE  \E s \in Stream, i \in Id : \E n \in Announced[i] :
           Evict(s, i, n) /\ ~ListExhausted(maxSize, n)
<1>1. app # Idle /\ app' # Idle /\ app' # app
  OBVIOUS
<1>2. ~Restart /\ ~Crash
  BY <1>1 DEF Restart, Crash, Reboot
<1>3. \A s \in Stream, i \in Id : ~GetStream(s, i)
  BY <1>1 DEF GetStream
<1>4. \A s \in Stream, f \in File : ~Choose(s, f) /\ \A temp \in BOOLEAN : ~Open(s, f, temp)
  BY DEF Choose, Open
<1>5. (\A max \in MaxSizes : ~SetMaxSize(max)) /\ (\A I \in SUBSET Id : ~RemoveFiltered(I))
  BY <1>1 DEF SetMaxSize, RemoveFiltered
<1>6. \A f \in File : ~Fetch(f)
  BY <1>1 DEF Fetch, ReadSource, Write, Done, Check, Rename, Finish, OfThread
<1>7. \A s \in Stream : ~SeeEos(s) /\ ~ReadStream(s) /\ ~Close(s)
  BY <1>1 DEF SeeEos, ReadStream, Close, OfStream
<1>8. PICK s \in Stream, i \in Id : \E n \in Announced[i] : Evict(s, i, n)
  BY <1>2, <1>3, <1>4, <1>5, <1>6, <1>7 DEF Next
<1>9. PICK n \in Announced[i] : Evict(s, i, n)
  BY <1>8
<1>10. ~ListExhausted(maxSize, n)
  BY <1>2, <1>9, Zenon DEF Evict
<1> QED BY <1>9, <1>10

-----------------------------------------------------------------------------
\* Who a reader or a .tmp file waits for.

\* A download that is over says that it is, and corrected the size, or never began.
StartOf(f) ==
  /\ thread[f].pc = "none" /\ ~file[f].invalid
       => file[f].fetching \/ file[f].expected = file[f].fetched
  /\ file[f].fetching => \/ thread[f].pc \in {"read", "write", "done"}
                         \/ thread[f].pc = "none" /\ "thread" \in Faults

StartInv == \A f \in File : StartOf(f)

\* A .tmp file is written by a thread, unless a thread of its id could not be started.
TmpWritten ==
  \A i \in Id \ contended : tmp[i] # None =>
    "thread" \in Faults \/ \E f \in File : Active(f) /\ file[f].id = i

\* A reader that is neither at the end nor told of an error, and for which nothing is there.
Waits(s) ==
  LET f == stream[s].file IN
  /\ stream[s].state = "open" /\ stream[s].fd # None /\ ~file[f].invalid
  /\ stream[s].position < file[f].expected
  /\ ~(stream[s].position < file[f].fetched /\ stream[s].position < Len(content[stream[s].fd]))

\* It waits for a thread that runs, or for one that could not be started.
WaitsForThread ==
  \A s \in Stream : Waits(s) =>
    LET f == stream[s].file IN
    Active(f) \/ (file[f].fetching /\ "thread" \in Faults) \/ file[f].id \in contended

\* Steps that leave the downloads alone.
LEMMA StartFrame ==
  ASSUME StartInv, UNCHANGED thread,
         \A f \in File : /\ file'[f].fetched = file[f].fetched
                         /\ file'[f].expected = file[f].expected
                         /\ file'[f].fetching = file[f].fetching
                         /\ ~file'[f].invalid => ~file[f].invalid
  PROVE  StartInv'
BY DEF StartInv, StartOf

\* Steps that also leave the .tmp files alone.
LEMMA WrittenFrame ==
  ASSUME TmpWritten, UNCHANGED <<thread, tmp, contended>>, \A f \in File : file'[f].id = file[f].id
  PROVE  TmpWritten'
<1> SUFFICES ASSUME NEW i \in Id \ contended', tmp'[i] # None, "thread" \notin Faults
             PROVE  \E f \in File : Active(f)' /\ file'[f].id = i
  BY DEF TmpWritten
<1>1. PICK f \in File : Active(f) /\ file[f].id = i
  BY DEF TmpWritten
<1> QED BY <1>1 DEF Active

\* A program that starts has no downloads.
LEMMA RebootWaits == ASSUME NEW dir, Reboot(dir) PROVE StartInv' /\ TmpWritten'
<1>1. thread' = [f \in File |-> NoThread] /\ tmp' = [i \in Id |-> None]
  BY DEF Reboot
<1>2. ASSUME NEW f \in File
      PROVE  file'[f].fetching = FALSE /\ file'[f].expected = file'[f].fetched
  <2>1. PICK i : file'[f] \in {FromDisk(f, i), NoFile}
    BY DEF Reboot
  <2>2. PICK r : r = FromDisk(f, i)
    OBVIOUS
  <2>3. r.fetching = FALSE /\ r.expected = r.fetched
    BY <2>2 DEF FromDisk
  <2> QED BY <2>1, <2>2, <2>3
<1>3. StartInv'
  BY <1>1, <1>2 DEF StartInv, StartOf
<1> QED BY <1>1, <1>3 DEF TmpWritten

\* A new download has a thread, if it can be started.
LEMMA EvictWaits ==
  ASSUME SafeInv, StartInv, TmpWritten, NEW s \in Stream, NEW i \in Id,
         NEW expected \in Announced[i], Evict(s, i, expected)
  PROVE  StartInv' /\ TmpWritten'
<1>1. CASE ListExhausted(maxSize, expected)
  <2>1. Crash
    BY <1>1 DEF Evict
  <2> QED BY <2>1, RebootWaits DEF Crash
<1>2. CASE ~ListExhausted(maxSize, expected)
  <2>1. PICK gone \in OldFiles(maxSize, expected), f \in {g \in File : Spare(g)} :
          \E inode, start : Takes(s, i, expected, gone, f, inode, start)
    BY <1>2, EvictTakes
  <2>2. PICK inode, start : Takes(s, i, expected, gone, f, inode, start)
    BY <2>1, Zenon
  <2>3. /\ thread'[f].pc = start /\ start \in {"read", "none"}
        /\ start = "none" => "thread" \in Faults
        /\ \A g \in File \ {f} : thread'[g] = thread[g]
    BY <2>2 DEF Takes, SafeInv, BaseInv, TypeOK
  <2>4. file'[f].id = i /\ file'[f].fetching = TRUE /\ thread[f].pc = "none"
    BY <2>2 DEF Takes, Spare
  <2>5. ASSUME NEW g \in File, g # f
        PROVE  /\ file'[g].id = file[g].id /\ file'[g].fetched = file[g].fetched
               /\ file'[g].expected = file[g].expected /\ file'[g].fetching = file[g].fetching
               /\ ~file'[g].invalid => ~file[g].invalid
    <3>1. file'[g] = IF g \in gone THEN Removed(g) ELSE file[g]
      BY <2>2, <2>5 DEF Takes
    <3> QED BY <3>1, RemovedSizes DEF SafeInv, BaseInv
  <2>6. ASSUME NEW g \in File PROVE StartOf(g)'
    <3>1. CASE g = f
      BY <2>3, <2>4, <3>1 DEF StartOf
    <3>2. CASE g # f
      BY <2>3, <2>5, <3>2 DEF StartInv, StartOf
    <3> QED BY <3>1, <3>2
  <2>7. ASSUME NEW j \in Id \ contended', tmp'[j] # None, "thread" \notin Faults
        PROVE  \E g \in File : Active(g)' /\ file'[g].id = j
    <3>1. CASE j = i
      BY <2>3, <2>4, <2>7, <3>1 DEF Active
    <3>2. CASE j # i
      <4>1. tmp[j] # None
        BY <2>2, <2>7, <3>2 DEF Takes, SafeInv, BaseInv, TypeOK
      <4>2. contended \subseteq contended'
        BY <1>2, EvictTakes
      <4>3. PICK g \in File : Active(g) /\ file[g].id = j
        BY <2>7, <4>1, <4>2 DEF TmpWritten
      <4> QED BY <2>3, <2>4, <2>5, <4>3 DEF Active
    <3> QED BY <3>1, <3>2
  <2> QED BY <2>6, <2>7 DEF StartInv, TmpWritten
<1> QED BY <1>1, <1>2

\* Files that are removed are left to their threads.
LEMMA RemoveWaits ==
  ASSUME SafeInv, StartInv, TmpWritten, NEW gone \in SUBSET File, UNCHANGED <<thread, tmp, contended>>,
         file' = [g \in File |-> IF g \in gone THEN Removed(g) ELSE file[g]]
  PROVE  StartInv' /\ TmpWritten'
<1>1. ASSUME NEW f \in File
      PROVE  /\ file'[f].id = file[f].id /\ file'[f].fetched = file[f].fetched
             /\ file'[f].expected = file[f].expected /\ file'[f].fetching = file[f].fetching
             /\ ~file'[f].invalid => ~file[f].invalid
  BY RemovedSizes DEF SafeInv, BaseInv
<1> QED BY <1>1, StartFrame, WrittenFrame

\* Streams come and go without the threads.
LEMMA CountWaits ==
  ASSUME SafeInv, StartInv, TmpWritten, UNCHANGED <<thread, tmp, contended>>,
         file' = file \/ \E f, n : file' = [file EXCEPT ![f].active = n]
  PROVE  StartInv' /\ TmpWritten'
<1>1. ASSUME NEW g \in File
      PROVE  /\ file'[g].id = file[g].id /\ file'[g].fetched = file[g].fetched
             /\ file'[g].expected = file[g].expected /\ file'[g].fetching = file[g].fetching
             /\ file'[g].invalid = file[g].invalid
  <2>1. PICK f, n : file' = file \/ file' = [file EXCEPT ![f].active = n]
    OBVIOUS
  <2>2. PICK r \in FileRecord : r = file[g]
    BY DEF SafeInv, BaseInv, TypeOK
  <2>3. CASE file' = [file EXCEPT ![f].active = n]
    <3>1. file'[g] = r \/ file'[g] = [r EXCEPT !.active = n]
      BY <2>2, <2>3 DEF SafeInv, BaseInv, TypeOK
    <3> QED BY <2>2, <3>1
  <2> QED BY <2>1, <2>2, <2>3
<1> QED BY <1>1, StartFrame, WrittenFrame

\* A thread says that it is done before it ends, and leaves no .tmp file.
LEMMA FetchWaits ==
  ASSUME SafeInv, StartInv, TmpWritten, NEW f \in File, Fetch(f)
  PROVE  StartInv' /\ TmpWritten'
<1>1. /\ Active(f) /\ file[f].id \in Id /\ UNCHANGED contended /\ file'[f].id = file[f].id
      /\ \A g \in File \ {f} : thread'[g] = thread[g] /\ file'[g] = file[g]
      /\ \A j \in Id : tmp'[j] \in {None, tmp[j]}
  BY FetchSteps DEF SafeInv
<1>2. /\ file \in [File -> FileRecord]
      /\ thread \in [File -> [pc : {"none", "read", "write", "done", "check", "rename", "finish"},
                              read : Nat, offset : Nat, inode : File \cup {None}]]
  BY DEF SafeInv, BaseInv, TypeOK
<1>3. PICK n \in Nat, bad \in BOOLEAN, fetching \in BOOLEAN :
        n = file[f].fetched /\ bad = file[f].invalid /\ fetching = file[f].fetching
  BY <1>2
<1>4. fetching => thread[f].pc \in {"read", "write", "done"}
  BY <1>1, <1>3 DEF StartInv, StartOf, Active
<1>5. StartOf(f)'
  <2>1. CASE ReadSource(f)
    <3>1. /\ thread[f].pc = "read"
          /\ file' = file \/ file' = [file EXCEPT ![f].invalid = TRUE]
          /\ \/ thread' = [thread EXCEPT ![f].pc = "done"]
             \/ thread' = [thread EXCEPT ![f].pc = "write", ![f].read = @ + 1]
      BY <2>1 DEF ReadSource, At
    <3>2. thread'[f].pc \in {"done", "write"}
      BY <1>2, <3>1
    <3> QED BY <3>2 DEF StartOf
  <2>2. CASE Write(f)
    <3>1. \/ thread' = [thread EXCEPT ![f].pc = "read", ![f].offset = @ + 1]
          \/ thread' = [thread EXCEPT ![f].pc = "read"]
      BY <2>2 DEF Write
    <3>2. thread'[f].pc = "read"
      BY <1>2, <3>1
    <3> QED BY <3>2 DEF StartOf
  <2>3. CASE Done(f)
    <3>1. thread'[f].pc = "check" /\ file'[f].fetching = FALSE
      BY <1>2, <2>3 DEF Done
    <3> QED BY <3>1 DEF StartOf
  <2>4. CASE Check(f)
    <3>1. /\ thread[f].pc = "check" /\ file' = file
          /\ thread' = [thread EXCEPT ![f].pc = IF file[f].invalid THEN "finish" ELSE "rename"]
      BY <2>4 DEF Check, At
    <3>2. thread'[f].pc \in {"finish", "rename"}
      BY <1>2, <3>1
    <3>3. ~file'[f].fetching
      BY <1>3, <1>4, <3>1
    <3> QED BY <3>2, <3>3 DEF StartOf
  <2>5. CASE Rename(f)
    <3>1. /\ thread[f].pc = "rename" /\ thread' = [thread EXCEPT ![f].pc = "finish"]
          /\ file' = file \/ file' = [file EXCEPT ![f].invalid = TRUE]
      BY <2>5 DEF Rename, At
    <3>2. thread'[f].pc = "finish"
      BY <1>2, <3>1
    <3>3. file'[f].fetching = fetching
      BY <1>2, <1>3, <3>1
    <3> QED BY <1>4, <3>1, <3>2, <3>3 DEF StartOf
  <2>6. CASE Finish(f)
    <3>1. /\ thread[f].pc = "finish"
          /\ \/ bad /\ file' = file
             \/ file' = [file EXCEPT ![f].expected = n]
      BY <1>3, <2>6 DEF Finish, At
    <3>2. /\ file'[f].fetched = n /\ file'[f].invalid = bad /\ file'[f].fetching = fetching
          /\ bad \/ file'[f].expected = n
      BY <1>2, <1>3, <3>1
    <3> QED BY <1>4, <3>1, <3>2 DEF StartOf
  <2> QED BY <2>1, <2>2, <2>3, <2>4, <2>5, <2>6 DEF Fetch
<1>6. ASSUME NEW g \in File, g # f PROVE StartOf(g)'
  BY <1>1, <1>6 DEF StartInv, StartOf
<1>7. ASSUME NEW i \in Id \ contended', tmp'[i] # None, "thread" \notin Faults
      PROVE  \E g \in File : Active(g)' /\ file'[g].id = i
  <2>1. PICK g \in File : Active(g) /\ file[g].id = i
    BY <1>1, <1>7 DEF TmpWritten
  <2>2. CASE g # f
    BY <1>1, <2>1, <2>2 DEF Active
  <2>3. CASE g = f
    <3>1. i \in Id \ contended /\ i = file[f].id
      BY <1>1, <2>1, <2>3
    <3>2. Moves(f, i)
      BY <3>1, ReadSourceMoves, WriteMoves, DoneMoves, CheckMoves, RenameMoves, FinishMoves
         DEF Fetch, SafeInv
    <3>3. Active(f)'
      BY <1>7, <3>2 DEF Moves
    <3> QED BY <1>1, <3>1, <3>3
  <2> QED BY <2>2, <2>3
<1> QED BY <1>5, <1>6, <1>7 DEF StartInv, TmpWritten

\* Every step keeps a thread for what is waited for.
LEMMA NextWaits ==
  ASSUME SafeInv, StartInv, TmpWritten, [Next]_vars
  PROVE  StartInv' /\ TmpWritten'
<1>1. ASSUME NEW s \in Stream, NEW i \in Id, GetStream(s, i) PROVE StartInv' /\ TmpWritten'
  BY <1>1, CountWaits DEF GetStream
<1>2. ASSUME NEW s \in Stream, NEW f \in File, Choose(s, f) PROVE StartInv' /\ TmpWritten'
  BY <1>2, CountWaits DEF Choose
<1>3. ASSUME NEW max \in MaxSizes, SetMaxSize(max) PROVE StartInv' /\ TmpWritten'
  <2>1. CASE ListExhausted(max, 0)
    <3>1. Crash
      BY <1>3, <2>1 DEF SetMaxSize
    <3> QED BY <3>1, RebootWaits DEF Crash
  <2>2. CASE ~ListExhausted(max, 0)
    <3>1. PICK gone \in OldFiles(max, 0) :
            file' = [g \in File |-> IF g \in gone THEN Removed(g) ELSE file[g]]
      BY <1>3, <2>2 DEF SetMaxSize
    <3>2. gone \in SUBSET File /\ UNCHANGED <<thread, tmp, contended>>
      BY <1>3, <2>2, OldFilesFacts DEF SetMaxSize
    <3> QED BY <3>1, <3>2, RemoveWaits
  <2> QED BY <2>1, <2>2
<1>4. ASSUME NEW I \in SUBSET Id, RemoveFiltered(I) PROVE StartInv' /\ TmpWritten'
  <2>1. PICK gone \in SUBSET File :
          file' = [g \in File |-> IF g \in gone THEN Removed(g) ELSE file[g]]
    BY <1>4 DEF RemoveFiltered
  <2>2. UNCHANGED <<thread, tmp, contended>>
    BY <1>4 DEF RemoveFiltered
  <2> QED BY <2>1, <2>2, RemoveWaits
<1>5. ASSUME Restart PROVE StartInv' /\ TmpWritten'
  BY <1>5, RebootWaits DEF Restart
<1>6. ASSUME NEW s \in Stream, NEW f \in File, NEW temp \in BOOLEAN, Open(s, f, temp)
      PROVE  StartInv' /\ TmpWritten'
  <2>1. /\ UNCHANGED <<thread, tmp, contended>>
        /\ \E n : file' = [file EXCEPT ![f].active = n]
    BY <1>6 DEF Open
  <2> QED BY <2>1, CountWaits, Zenon
<1>7. ASSUME NEW s \in Stream, SeeEos(s) \/ ReadStream(s) \/ Close(s)
      PROVE  StartInv' /\ TmpWritten'
  <2>1. UNCHANGED <<thread, tmp, contended>>
    BY <1>7, ReadSame DEF SafeInv
  <2>2. file' = file \/ \E f, n : file' = [file EXCEPT ![f].active = n]
    BY <1>7 DEF SeeEos, ReadStream, Close, OfStream
  <2> QED BY <2>1, <2>2, CountWaits
<1>8. CASE UNCHANGED vars
  BY <1>8, CountWaits
<1>9. CASE Next
  BY <1>1, <1>2, <1>3, <1>4, <1>5, <1>6, <1>7, <1>9, EvictWaits, FetchWaits DEF Next
<1> QED BY <1>8, <1>9

\* What is known of the downloads tells who a reader waits for.
LEMMA WaitsSeen == ASSUME SafeInv, StartInv PROVE WaitsForThread
<1> SUFFICES ASSUME NEW s \in Stream, Waits(s), ~Active(stream[s].file),
                    file[stream[s].file].id \notin contended
             PROVE  file[stream[s].file].fetching /\ "thread" \in Faults
  BY DEF WaitsForThread
<1>1. PICK f \in File, p \in Nat, m \in File :
        f = stream[s].file /\ p = stream[s].position /\ m = stream[s].fd
  BY DEF SafeInv, BaseInv, StreamInv, TypeOK, Waits
<1>2. PICK n \in Nat, e \in Nat : n = file[f].fetched /\ e = file[f].expected
  BY DEF SafeInv, BaseInv, TypeOK
<1>3. p < e /\ ~(p < n /\ p < Len(content[m]))
  BY <1>1, <1>2 DEF Waits
<1>4. \A k \in 1 .. n : k <= Len(content[m])
  BY <1>1, <1>2, SafeSeen DEF ReadersSeeData, Waits
<1>5. e # n
  <2>1. Len(content[m]) \in Nat
    BY DEF SafeInv, BaseInv, TypeOK
  <2>2. n > 0 => n <= Len(content[m])
    BY <1>4
  <2> QED BY <1>3, <2>1, <2>2
<1>6. file[f].fetching
  BY <1>1, <1>2, <1>5 DEF StartInv, StartOf, Waits, Active
<1> QED BY <1>1, <1>6 DEF StartInv, StartOf, Active

-----------------------------------------------------------------------------
\* The theorems.

\* The variables of the cache keep their types, and the count of the streams of a file
\* its range: it does not fall below the streams that are open.
THEOREM CacheTyped == Spec => [](TypeOK /\ CountInv)
<1>1. SafeInv => TypeOK /\ CountInv
  BY DEF SafeInv, BaseInv
<1> QED BY <1>1, Safety, PTL

\* "If @fetcher and @userdata are %NULL, then it assumes the file is already in
\* @stream_cache": what a file without .tmp holds is complete.
THEOREM DiskComplete == Spec => []CompleteAlone
<1>1. SafeInv => CompleteAlone
  BY DEF SafeInv, ContentInv
<1> QED BY <1>1, Safety, PTL

\* What a stream is told that it may read is there to read.
THEOREM FetchedIsThere == Spec => []ReadersSeeData
<1>1. SafeInv => ReadersSeeData
  BY SafeSeen
<1> QED BY <1>1, Safety, PTL

\* No file is taken from its readers to make room.
THEOREM ReadersKept ==
  ASSUME RemoveActive = FALSE PROVE Spec => []ReadersKeepFile
<1>1. Init => ReadersKeepFile
  BY DEF Init, ReadersKeepFile
<1>2. SafeInv /\ ReadersKeepFile /\ [Next]_vars => ReadersKeepFile'
  BY NextSafe
<1> QED BY <1>1, <1>2, Safety, PTL DEF Spec

\* "Tests if there are bytes left to read": a stream that ends before it was all read was
\* told a size that its download has not yet corrected, or two downloads wrote to its file.
\* A download that cannot be started keeps what was announced, so that must not be nothing.
THEOREM EosOnlyAtTheEnd ==
  ASSUME NoEmptyFailure PROVE Spec => EosEarlyWhileFetching
<1>1. Init => SizeInv
  BY DEF Init, SizeInv, OverOf, SeenOf
<1>2. SafeInv /\ SizeInv /\ [Next]_vars => SizeInv'
  BY NextSize
<1>3. SafeInv /\ SizeInv /\ [Next]_vars =>
        [\A s \in Stream : LET f == stream[s].file IN
           stream[s].state = "open" /\ stream'[s].state = "eof" /\ ~file[f].invalid
             => \/ stream[s].position = Length[file[f].id]
                \/ thread[f].pc # "none" \/ file[f].id \in contended]_vars
  <2> SUFFICES ASSUME SafeInv, SizeInv, Next, NEW s \in Stream, stream[s].state = "open",
                      stream'[s].state = "eof", ~file[stream[s].file].invalid,
                      thread[stream[s].file].pc = "none",
                      file[stream[s].file].id \notin contended
               PROVE  stream[s].position = Length[file[stream[s].file].id]
    OBVIOUS
  <2>1. SeeEos(s)
    BY EosSeen DEF SafeInv
  <2>2. PICK f \in File, i \in Id, p \in Nat :
          f = stream[s].file /\ i = file[f].id /\ p = stream[s].position
    BY DEF SafeInv, BaseInv, StreamInv
  <2>3. p >= file[f].expected /\ p <= file[f].fetched
    BY <2>1, <2>2 DEF SeeEos, SizeInv, SeenOf
  <2>4. \/ file[f].fetched = Length[i] /\ file[f].expected = Length[i]
        \/ file[f].fetched = 0 /\ file[f].expected > 0
    BY <2>2 DEF SizeInv, OverOf
  <2>5. file[f].fetched \in Nat /\ file[f].expected \in Nat /\ Length[i] \in Nat
    BY DEF SafeInv, BaseInv, TypeOK
  <2> QED BY <2>2, <2>3, <2>4, <2>5
<1> QED BY <1>1, <1>2, <1>3, Safety, PTL DEF Spec, EosEarlyWhileFetching

\* When the cache takes a new stream, all its files together fit by what it knows of
\* their sizes: what is removed for it is enough.
THEOREM FilesFit == Spec => Accounted
<1>1. SafeInv /\ [Next]_vars =>
        [app[1] = "evict" /\ app'[1] = "choose"
           => MapThenSumSet(LAMBDA f : file'[f].expected,
                            {f \in File : \E i \in Id : cachedFiles'[i] = f}) <= maxSize]_vars
  <2> SUFFICES ASSUME SafeInv, Next, app[1] = "evict", app'[1] = "choose"
               PROVE  SumOf(file', Listed') <= maxSize
    BY DEF SumOf, Listed
  <2>1. PICK s \in Stream, i \in Id :
          \E n \in Announced[i] : Evict(s, i, n) /\ ~ListExhausted(maxSize, n)
    BY EvictSeen DEF SafeInv
  <2> QED BY <2>1, EvictFits DEF SafeInv
<1> QED BY <1>1, Safety, PTL DEF Spec, Accounted

\* A reader that finds nothing to read, though it is neither at the end nor told of an
\* error, and every .tmp file, wait for a thread that runs, unless the thread could not be
\* started or two downloads wrote to the same file.
THEOREM NoReaderIsForgotten == Spec => [](WaitsForThread /\ TmpWritten)
<1>1. Init => StartInv /\ TmpWritten
  BY DEF Init, StartInv, StartOf, TmpWritten
<1>2. SafeInv /\ StartInv /\ TmpWritten /\ [Next]_vars => StartInv' /\ TmpWritten'
  BY NextWaits
<1>3. SafeInv /\ StartInv => WaitsForThread
  BY WaitsSeen
<1> QED BY <1>1, <1>2, <1>3, Safety, PTL DEF Spec
=============================================================================
