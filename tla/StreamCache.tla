------------------------------ MODULE StreamCache ------------------------------
(***************************************************************************)
(* TnyFsStreamCache with its TnyCachedFiles and the streams it hands out   *)
(* (tny-fs-stream-cache.c, tny-cached-file.c, tny-cached-file-stream.c).   *)
(*                                                                         *)
(* The cache keeps what it downloads in files named after an id.  A thread *)
(* per download writes <id>.tmp and renames it to <id> when it is          *)
(* complete, while readers already read from the same file.  To make room  *)
(* the cache removes files that nobody reads, first those whose download   *)
(* goes on, then old ones.                                                 *)
(*                                                                         *)
(* Sizes are counted in chunks of what one read and one write move.  The   *)
(* n-th chunk of every stream is the number n, so that a file is a         *)
(* sequence of numbers.  One thread calls the cache, whose table has no    *)
(* lock; readers and downloads run beside it.                              *)
(***************************************************************************)
EXTENDS Integers, FiniteSets, FiniteSetsExt, Sequences, SequencesExt

CONSTANTS Id,           \* the ids of the streams
          File,         \* TnyCachedFile objects, and the files on disk they create
          Stream,       \* TnyCachedFileStream objects
          None,         \* NULL, or no file
          Length,       \* how many chunks the stream of an id has
          Announced,    \* what the fetcher of an id may say that it has
          MaxSizes,     \* the sizes the cache is given
          Faults,       \* what may fail, of: "read", "write", "rename", "thread"
          RemoveActive, \* may the application remove what it reads?
          MaxActive,    \* bound: the count of streams per file
          MaxRestarts   \* bound: restarts of the program

ASSUME NoneAssumption == None \notin File /\ None \notin Id
ASSUME FiniteAssumption == IsFiniteSet(Id) /\ IsFiniteSet(File) /\ IsFiniteSet(Stream)
ASSUME SizeAssumption ==
  /\ Length \in [Id -> Nat] /\ Announced \in [Id -> SUBSET Nat] /\ MaxSizes \subseteq Nat
  /\ MaxActive \in Nat /\ MaxRestarts \in Nat /\ RemoveActive \in BOOLEAN

VARIABLES
  \* TnyFsStreamCachePriv.
  cachedFiles,   \* cached_files: the file of an id, or None
  maxSize,       \* max_size
  \* TnyCachedFilePriv of every file, and the thread that downloads it.
  file, thread,
  \* The directory, and what is in the files.
  tmp, final,    \* the file that is named <id>.tmp, and the one named <id>
  content,
  \* The streams, and the call the application is in the middle of.
  stream, app,
  \* History.
  used,          \* the place of an id in the order of last uses, 0 when it was never used
  contended,     \* the ids that two threads downloaded at one time
  restarts

diskVars == <<tmp, final, content>>
vars == <<cachedFiles, maxSize, file, thread, diskVars, stream, app, used, contended, restarts>>

\* A file nobody uses, and a thread that does not run.
NoFile == [id |-> None, expected |-> 0, fetched |-> 0, fetching |-> FALSE, invalid |-> FALSE,
           pendingClose |-> FALSE, active |-> 0, timestamp |-> 0]
NoThread == [pc |-> "none", read |-> 0, offset |-> 0, inode |-> None]
Closed == [state |-> "closed", file |-> None, fd |-> None, position |-> 0]
Idle == <<"idle">>

FileRecord == [id : Id \cup {None}, expected : Nat, fetched : Nat, fetching : BOOLEAN,
               invalid : BOOLEAN, pendingClose : BOOLEAN, active : 0 .. MaxActive,
               timestamp : Nat]

TypeOK ==
  /\ cachedFiles \in [Id -> File \cup {None}] /\ maxSize \in MaxSizes
  /\ file \in [File -> FileRecord]
  /\ thread \in [File -> [pc : {"none", "read", "write", "done", "check", "rename", "finish"},
                          read : Nat, offset : Nat, inode : File \cup {None}]]
  /\ tmp \in [Id -> File \cup {None}] /\ final \in [Id -> File \cup {None}]
  /\ content \in [File -> Seq(Nat)]
  /\ stream \in [Stream -> [state : {"closed", "open", "eof", "error"},
                            file : File \cup {None}, fd : File \cup {None},
                            position : Nat \cup {-1}]]
  /\ app \in {Idle} \cup ({"choose"} \X Stream \X File)
               \cup ({"evict"} \X Stream \X Id \X Nat)
               \cup ({"open"} \X Stream \X File \X BOOLEAN)
  /\ used \in [Id -> Nat] /\ contended \subseteq Id /\ restarts \in 0 .. MaxRestarts

Init ==
  /\ cachedFiles = [i \in Id |-> None] /\ maxSize \in MaxSizes
  /\ file = [f \in File |-> NoFile] /\ thread = [f \in File |-> NoThread]
  /\ tmp = [i \in Id |-> None] /\ final = [i \in Id |-> None]
  /\ content = [f \in File |-> <<>>]
  /\ stream = [s \in Stream |-> Closed] /\ app = Idle
  /\ used = [i \in Id |-> 0] /\ contended = {} /\ restarts = 0
-----------------------------------------------------------------------------
(* Sizes, and the choice of what to remove.                                *)

Listed == {f \in File : \E i \in Id : cachedFiles[i] = f}

IsActive(f) == file[f].active > 0

SumExpected(S) == MapThenSumSet(LAMBDA f : file[f].expected, S)

AvailableSize == maxSize - SumExpected({f \in Listed : IsActive(f)})

\* A slip: only the files that are read count.
FreeSpaceActive(max) == max - SumExpected({f \in Listed : IsActive(f)})

FreeSpace(max) == max - SumExpected(Listed)

\* A slip: files that are read may go, too.
InactiveFilesAll == Listed

InactiveFiles == {f \in Listed : ~IsActive(f)}

\* remove_priority: downloads before finished files, then the older timestamp.
Before(f, g) ==
  \/ file[f].fetching /\ ~file[g].fetching
  \/ file[f].fetching = file[g].fetching /\ file[f].timestamp < file[g].timestamp

\* Equals come in the order of the hash table, which is any.
RemoveOrders ==
  {q \in SetToSeqs(InactiveFiles) : \A i, j \in DOMAIN q : i < j => ~Before(q[j], q[i])}

\* The loop of remove_old_files ends after n of q, as soon as there is enough room.
Enough(q, n, max, required) ==
  FreeSpace(max) + SumExpected(ToSet(SubSeq(q, 1, n))) >= required

\* The loop of remove_old_files runs past the end of the list.
ListExhausted(max, required) ==
  FreeSpace(max) + SumExpected(InactiveFiles) < required

\* The sets of files that the loop may remove.
OldFiles(max, required) ==
  {S \in SUBSET InactiveFiles : \E q \in RemoveOrders : \E n \in 0 .. Len(q) :
     /\ S = ToSet(SubSeq(q, 1, n))
     /\ Enough(q, n, max, required) /\ \A k \in 0 .. n - 1 : ~Enough(q, k, max, required)}

\* tny_cached_file_remove, for a file nobody reads: <id> is deleted, <id>.tmp is
\* left to the thread that writes it.
Removed(f) == [file[f] EXCEPT !.invalid = TRUE, !.pendingClose = @ \/ file[f].fetching]

Unlinked(S) ==
  [i \in Id |-> IF \E f \in S : file[f].id = i /\ ~file[f].fetching THEN None ELSE final[i]]

Dropped(S) == [i \in Id |-> IF cachedFiles[i] \in S THEN None ELSE cachedFiles[i]]
-----------------------------------------------------------------------------
(* The program ends and starts anew: fill_from_cache.                      *)

FromDisk(f, i) == [NoFile EXCEPT !.id = i, !.expected = Len(content[f]),
                                 !.fetched = Len(content[f]), !.timestamp = used[i]]

Reboot(dir) ==
  /\ maxSize' \in MaxSizes
  /\ final' = dir /\ tmp' = [i \in Id |-> None]
  /\ content' = [f \in File |-> IF \E i \in Id : dir[i] = f THEN content[f] ELSE <<>>]
  /\ cachedFiles' = dir
  /\ file' = [f \in File |-> IF \E i \in Id : dir[i] = f
                               THEN FromDisk(f, CHOOSE i \in Id : dir[i] = f) ELSE NoFile]
  /\ thread' = [f \in File |-> NoThread]
  /\ stream' = [s \in Stream |-> Closed] /\ app' = Idle
  /\ UNCHANGED <<used, contended>>

Restart == /\ restarts < MaxRestarts
           /\ restarts' = restarts + 1
           /\ Reboot(final)

\* Everything that may be removed is, and the NULL at the end of the list is
\* dereferenced.
Crash == Reboot(Unlinked(InactiveFiles)) /\ UNCHANGED restarts
-----------------------------------------------------------------------------
(* The cache.                                                              *)

\* tny_fs_stream_cache_get_stream: the id is listed, or it is fetched and what the
\* fetcher says fits.  Otherwise NULL is returned and nothing changes.
GetStream(s, i) ==
  /\ app = Idle /\ stream[s] = Closed
  /\ \/ cachedFiles[i] # None /\ app' = <<"choose", s, cachedFiles[i]>>
     \/ /\ cachedFiles[i] = None
        /\ \E expected \in Announced[i] :
             expected <= AvailableSize /\ app' = <<"evict", s, i, expected>>
  /\ UNCHANGED <<cachedFiles, maxSize, file, thread, diskVars, stream, used, contended, restarts>>

\* An object that nothing refers to any more, and whose file is gone from the disk.
Spare(f) == /\ f \notin Listed /\ thread[f].pc = "none"
            /\ \A i \in Id : f # tmp[i] /\ f # final[i]
            /\ \A s \in Stream : f # stream[s].file /\ f # stream[s].fd
            /\ \A g \in File : f # thread[g].inode

\* remove_old_files, then tny_cached_file_new, which opens <id>.tmp, creates it
\* when it is not there, and starts the download.
Evict(s, i, expected) ==
  /\ app = <<"evict", s, i, expected>>
  /\ IF ListExhausted(maxSize, expected) THEN Crash
     ELSE
     /\ \E gone \in OldFiles(maxSize, expected), f \in {g \in File : Spare(g)} :
          LET inode == IF tmp[i] = None THEN f ELSE tmp[i] IN
          /\ file' = [g \in File |->
                        IF g = f THEN [NoFile EXCEPT !.id = i, !.expected = expected,
                                                     !.fetching = TRUE]
                        ELSE IF g \in gone THEN Removed(g) ELSE file[g]]
          /\ final' = Unlinked(gone)
          /\ cachedFiles' = [Dropped(gone) EXCEPT ![i] = f]
          /\ tmp' = [tmp EXCEPT ![i] = inode]
          /\ content' = [content EXCEPT ![f] = <<>>]
          /\ \E start \in {"read"} \cup (IF "thread" \in Faults THEN {"none"} ELSE {}) :
               thread' = [thread EXCEPT ![f] = [NoThread EXCEPT !.pc = start, !.inode = inode]]
          /\ app' = <<"choose", s, f>>
     /\ contended' = IF \E g \in File : file[g].id = i /\ thread[g].pc # "none"
                       THEN contended \cup {i} ELSE contended
     /\ UNCHANGED <<maxSize, stream, used, restarts>>

\* tny_cached_file_get_stream: nothing for an invalid file, else the name to open.
Choose(s, f) ==
  /\ app = <<"choose", s, f>>
  /\ app' = IF file[f].invalid THEN Idle ELSE <<"open", s, f, file[f].fetching>>
  /\ UNCHANGED <<cachedFiles, maxSize, file, thread, diskVars, stream, used, contended, restarts>>

\* Open it, if it is there, and count the stream.
Open(s, f, temp) ==
  LET i == file[f].id IN
  /\ app = <<"open", s, f, temp>> /\ file[f].active < MaxActive
  /\ file' = [file EXCEPT ![f].active = @ + 1]
  /\ stream' = [stream EXCEPT ![s] = [state |-> "open", file |-> f, position |-> 0,
                                      fd |-> IF temp THEN tmp[i] ELSE final[i]]]
  /\ used' = [j \in Id |-> IF j = i THEN Cardinality(Id)
                          ELSE IF used[j] > used[i] THEN used[j] - 1 ELSE used[j]]
  /\ app' = Idle
  /\ UNCHANGED <<cachedFiles, maxSize, thread, diskVars, contended, restarts>>

\* tny_fs_stream_cache_set_max_size.
SetMaxSize(max) ==
  /\ app = Idle /\ max # maxSize
  /\ IF ListExhausted(max, 0) THEN Crash
     ELSE
     /\ maxSize' = max
     /\ \E gone \in OldFiles(max, 0) :
          /\ file' = [g \in File |-> IF g \in gone THEN Removed(g) ELSE file[g]]
          /\ final' = Unlinked(gone)
          /\ cachedFiles' = Dropped(gone)
     /\ UNCHANGED <<thread, tmp, content, stream, app, used, contended, restarts>>

\* tny_fs_stream_cache_remove: every file the filter chooses leaves the table; one
\* that is read is not removed from the disk.
RemoveFiltered(I) ==
  LET chosen == {f \in File : \E i \in I : cachedFiles[i] = f}
      gone == {f \in chosen : ~IsActive(f)}
  IN /\ app = Idle /\ chosen # {}
     /\ RemoveActive \/ gone = chosen
     /\ file' = [g \in File |-> IF g \in gone THEN Removed(g) ELSE file[g]]
     /\ final' = Unlinked(gone)
     /\ cachedFiles' = Dropped(chosen)
     /\ UNCHANGED <<maxSize, thread, tmp, content, stream, app, used, contended, restarts>>
-----------------------------------------------------------------------------
(* The download of a file: async_fetch_stream.                             *)

\* The steps of a thread leave the cache, the streams and the application alone.
OfThread(f) == UNCHANGED <<cachedFiles, maxSize, stream, app, used, contended, restarts>>

At(f, pc) == thread[f].pc = pc

ReadSource(f) ==
  /\ At(f, "read")
  /\ \/ /\ thread[f].read = Length[file[f].id]
        /\ thread' = [thread EXCEPT ![f].pc = "done"]
        /\ UNCHANGED file
     \/ /\ thread[f].read < Length[file[f].id]
        /\ file[f].pendingClose \/ "read" \in Faults
        /\ thread' = [thread EXCEPT ![f].pc = "done"]
        /\ file' = [file EXCEPT ![f].invalid = TRUE]
     \/ /\ thread[f].read < Length[file[f].id] /\ ~file[f].pendingClose
        /\ thread' = [thread EXCEPT ![f].pc = "write", ![f].read = @ + 1]
        /\ UNCHANGED file
  /\ UNCHANGED diskVars /\ OfThread(f)

\* What a chunk written at an offset makes of a file.
Written(c, offset, chunk) ==
  IF offset < Len(c) THEN [c EXCEPT ![offset + 1] = chunk] ELSE Append(c, chunk)

\* A slip: a chunk that was not written counts.
WriteShort(f) ==
  /\ At(f, "write")
  /\ \/ thread' = [thread EXCEPT ![f].pc = "read", ![f].offset = @ + 1]
        /\ content' = [content EXCEPT ![thread[f].inode] =
                         Written(@, thread[f].offset, thread[f].read)]
     \/ thread' = [thread EXCEPT ![f].pc = "read"] /\ UNCHANGED content
  /\ file' = [file EXCEPT ![f].fetched = @ + 1]
  /\ UNCHANGED <<tmp, final>> /\ OfThread(f)

\* Write the chunk and tell the readers, unless the write fails or the file was
\* removed.  The loop that reads goes on in either case.
Write(f) ==
  /\ At(f, "write")
  /\ \/ /\ thread' = [thread EXCEPT ![f].pc = "read", ![f].offset = @ + 1]
        /\ content' = [content EXCEPT ![thread[f].inode] =
                         Written(@, thread[f].offset, thread[f].read)]
        /\ file' = [file EXCEPT ![f].invalid = @ \/ file[f].pendingClose,
                                ![f].fetched = IF file[f].pendingClose THEN @ ELSE @ + 1]
     \/ /\ "write" \in Faults
        /\ thread' = [thread EXCEPT ![f].pc = "read"]
        /\ file' = [file EXCEPT ![f].invalid = TRUE]
        /\ UNCHANGED content
  /\ UNCHANGED <<tmp, final>> /\ OfThread(f)

\* fetch_stream is closed and set to NULL.
Done(f) ==
  /\ At(f, "done")
  /\ thread' = [thread EXCEPT ![f].pc = "check"]
  /\ file' = [file EXCEPT ![f].fetching = FALSE]
  /\ UNCHANGED diskVars /\ OfThread(f)

\* A slip: what could not be fetched is kept, too.
CheckNothing(f) ==
  /\ At(f, "check")
  /\ thread' = [thread EXCEPT ![f].pc = "rename"]
  /\ UNCHANGED <<file, diskVars>> /\ OfThread(f)

Check(f) ==
  /\ At(f, "check")
  /\ thread' = [thread EXCEPT ![f].pc = IF file[f].invalid THEN "finish" ELSE "rename"]
  /\ UNCHANGED <<file, diskVars>> /\ OfThread(f)

\* <id>.tmp, whoever created it, becomes <id>.
Rename(f) ==
  LET i == file[f].id IN
  /\ At(f, "rename")
  /\ thread' = [thread EXCEPT ![f].pc = "finish"]
  /\ \/ /\ tmp[i] # None
        /\ final' = [final EXCEPT ![i] = tmp[i]] /\ tmp' = [tmp EXCEPT ![i] = None]
        /\ UNCHANGED file
     \/ /\ tmp[i] = None \/ "rename" \in Faults
        /\ file' = [file EXCEPT ![f].invalid = TRUE]
        /\ UNCHANGED <<tmp, final>>
  /\ UNCHANGED content /\ OfThread(f)

\* A slip: a failed download stays on the disk.
FinishLeaves(f) ==
  /\ At(f, "finish")
  /\ thread' = [thread EXCEPT ![f] = NoThread]
  /\ file' = IF file[f].invalid THEN file
                                ELSE [file EXCEPT ![f].expected = file[f].fetched]
  /\ UNCHANGED diskVars /\ OfThread(f)

\* A slip: the size that was announced stays.
FinishKeeps(f) ==
  /\ At(f, "finish")
  /\ thread' = [thread EXCEPT ![f] = NoThread]
  /\ tmp' = IF file[f].invalid THEN [tmp EXCEPT ![file[f].id] = None] ELSE tmp
  /\ UNCHANGED <<file, final, content>> /\ OfThread(f)

\* <id>.tmp is deleted, whoever created it, or the size is corrected.
Finish(f) ==
  /\ At(f, "finish")
  /\ thread' = [thread EXCEPT ![f] = NoThread]
  /\ IF file[f].invalid
       THEN tmp' = [tmp EXCEPT ![file[f].id] = None] /\ UNCHANGED file
       ELSE file' = [file EXCEPT ![f].expected = file[f].fetched] /\ UNCHANGED tmp
  /\ UNCHANGED <<final, content>> /\ OfThread(f)

Fetch(f) == \/ ReadSource(f) \/ Write(f) \/ Done(f) \/ Check(f) \/ Rename(f) \/ Finish(f)
-----------------------------------------------------------------------------
(* A reader: tny_stream_is_eos, tny_stream_read, again and again.          *)

OfStream(s) ==
  /\ stream[s].state = "open"
  /\ UNCHANGED <<cachedFiles, maxSize, file, thread, diskVars, app, used, contended, restarts>>

\* tny_cached_file_stream_is_eos.
SeeEos(s) ==
  /\ OfStream(s) /\ stream[s].position >= file[stream[s].file].expected
  /\ stream' = [stream EXCEPT ![s].state = "eof"]

\* tny_cached_file_stream_read: what is fetched, at most one chunk; -1 when the
\* file is invalid, and when it could not be opened: then -1 is also added to the
\* position.
ReadStream(s) ==
  LET f == stream[s].file
      fd == stream[s].fd
      position == stream[s].position
  IN /\ OfStream(s) /\ position < file[f].expected
     /\ stream' = [stream EXCEPT ![s] =
          IF file[f].invalid THEN [@ EXCEPT !.state = "error"]
          ELSE IF fd = None THEN [@ EXCEPT !.state = "error", !.position = position - 1]
          ELSE IF position < file[f].fetched /\ position < Len(content[fd])
                 THEN [@ EXCEPT !.position = position + 1]
                 ELSE @]

\* tny_cached_file_stream_close.
Close(s) ==
  /\ stream[s].state # "closed"
  /\ stream' = [stream EXCEPT ![s] = Closed]
  /\ file' = IF stream[s].position > -1
               THEN [file EXCEPT ![stream[s].file].active = @ - 1] ELSE file
  /\ UNCHANGED <<cachedFiles, maxSize, thread, diskVars, app, used, contended, restarts>>
-----------------------------------------------------------------------------
Next ==
  \/ \E s \in Stream, i \in Id : GetStream(s, i) \/ \E n \in Announced[i] : Evict(s, i, n)
  \/ \E s \in Stream, f \in File : Choose(s, f) \/ \E temp \in BOOLEAN : Open(s, f, temp)
  \/ \E max \in MaxSizes : SetMaxSize(max)
  \/ \E I \in SUBSET Id : RemoveFiltered(I)
  \/ \E f \in File : Fetch(f)
  \/ \E s \in Stream : SeeEos(s) \/ ReadStream(s) \/ Close(s)
  \/ Restart

\* Every download runs, and who opened a stream reads it.
Fairness == /\ \A f \in File : WF_vars(Fetch(f))
            /\ \A s \in Stream : WF_vars(SeeEos(s) \/ ReadStream(s))

Spec == Init /\ [][Next]_vars
FairSpec == Spec /\ Fairness
-----------------------------------------------------------------------------
(* Safety.                                                                 *)

Whole(i) == [n \in 1 .. Length[i] |-> n]

\* "If @fetcher and @userdata are %NULL, then it assumes the file is already in
\* @stream_cache": what fill_from_cache finds under an id is complete, because a file
\* only loses its .tmp when it is.  That holds of an id that was never downloaded twice
\* at one time, wherever the program ends, whatever fails and is removed meanwhile.
CompleteAlone ==
  \A i \in Id \ contended : final[i] # None => content[final[i]] = Whole(i)

\* What a stream is told that it may read is there to read, in the right order, under
\* the same condition.
ReadersSeeData ==
  \A s \in Stream : LET f == stream[s].file IN
    stream[s].state = "open" /\ stream[s].fd # None /\ ~file[f].invalid
    /\ file[f].id \notin contended
      => \A n \in 1 .. file[f].fetched :
           n <= Len(content[stream[s].fd]) /\ content[stream[s].fd][n] = n

\* No file is taken from its readers to make room: the table holds every file that
\* is read, while the application only removes what it does not read.
ReadersKeepFile ==
  \A s \in Stream : stream[s].state # "closed"
                      => cachedFiles[file[stream[s].file].id] = stream[s].file

\* When the cache takes a new stream, all its files together fit by what it knows of
\* their sizes.
Accounted ==
  [][app[1] = "evict" /\ app'[1] = "choose"
       => MapThenSumSet(LAMBDA f : file'[f].expected,
                        {f \in File : \E i \in Id : cachedFiles'[i] = f}) <= maxSize]_vars

\* "Tests if there are bytes left to read": a reader that sees the end of a stream
\* before it was all read was told a size that the download has not yet corrected,
\* unless two downloads wrote to the same file.
EosEarlyWhileFetching ==
  [][\A s \in Stream : LET f == stream[s].file IN
       stream[s].state = "open" /\ stream'[s].state = "eof" /\ ~file[f].invalid
         => \/ stream[s].position = Length[file[f].id]
            \/ thread[f].pc # "none" \/ file[f].id \in contended]_vars
-----------------------------------------------------------------------------
(* Liveness.                                                               *)

\* Every stream comes to its end or to an error, whatever the fetcher announced, unless
\* two downloads wrote to the same file.
ReadEnds ==
  \A s \in Stream :
    stream[s].state = "open"
      ~> stream[s].state # "open" \/ file[stream[s].file].id \in contended

\* No .tmp file stays.
TmpCleared == \A i \in Id : tmp[i] # None ~> tmp[i] = None
=============================================================================
