----------------------------- MODULE AvosSocket -----------------------------
(***************************************************************************)
(* AvosSocket (avossocket.cpp): messages between an application and the    *)
(* firmware's main program over a stream socket.                           *)
(*                                                                         *)
(* A message is a header, which starts with a magic number and has the     *)
(* length of the data, and the data.  The socket delivers what was written *)
(* in pieces of any size; handleMsg puts the pieces together and keeps a   *)
(* partial message in static variables until more arrives.                 *)
(*                                                                         *)
(* The unit of the stream is <<n, k>>: the k-th of the n-th message.  Only *)
(* the first unit of a message has the magic number.                       *)
(***************************************************************************)
EXTENDS Naturals, Sequences

CONSTANTS
    HeaderLen,     \* HEADER_LEN, in units
    MaxDataLength, \* EXTAPP_MSG_MAX_DATA_LENGTH, in units
    Lengths,       \* the lengths of data that are sent
    MaxSent,       \* bound: messages
    MaxErrors      \* bound: failing reads

ASSUME LengthAssumption == HeaderLen \in Nat \ {0} /\ MaxDataLength \in Nat /\ Lengths \subseteq Nat
ASSUME BoundAssumption == MaxSent \in Nat /\ MaxErrors \in Nat

VARIABLES
    sent,            \* the length of the data of every message that was sent
    wire,            \* units that have not arrived
    socket,          \* units that QSocket has read and handleMsg has not
    ready,           \* QSocket will emit readyRead
    running,         \* handleMsg runs
    header_complete, \* the header of the current message is there
    header,          \* and the message it belongs to
    part,            \* the units of the current header or data: buffer_fill of them
    room,            \* the size that msg->data was allocated with; 0 for NULL
    received,        \* the messages of packetReady, with their data
    errors           \* failing reads

statics == <<header_complete, header, part, room>>
vars == <<sent, wire, socket, ready, running, statics, received, errors>>

Unit == (1 .. MaxSent) \X Nat

TypeOK ==
    /\ sent \in Seq(Lengths) /\ Len(sent) <= MaxSent
    /\ wire \in Seq(Unit) /\ socket \in Seq(Unit)
    /\ ready \in BOOLEAN /\ running \in BOOLEAN /\ header_complete \in BOOLEAN
    /\ header \in 0 .. Len(sent) /\ (header_complete => header # 0)
    /\ part \in Seq(Unit)
    /\ Len(part) < IF header_complete /\ sent[header] > 0 THEN sent[header] ELSE HeaderLen
    /\ room \in Lengths \cup {0}
    /\ received \in Seq([message : 1 .. MaxSent, data : Seq(Unit)])
    /\ errors \in 0 .. MaxErrors

Init ==
    /\ sent = <<>> /\ wire = <<>> /\ socket = <<>> /\ ready = FALSE /\ running = FALSE
    /\ header_complete = FALSE /\ header = 0 /\ part = <<>> /\ room = 0
    /\ received = <<>> /\ errors = 0

-----------------------------------------------------------------------------
DataOf(n) == [k \in 1 .. sent[n] |-> <<n, HeaderLen + k>>]

\* sendMsg: header and data are written one after the other; QSocket takes all.
SendMsg(length) ==
    /\ Len(sent) < MaxSent
    /\ sent' = Append(sent, length)
    /\ wire' = wire \o [k \in 1 .. HeaderLen + length |-> <<Len(sent) + 1, k>>]
    /\ UNCHANGED <<socket, ready, running, statics, received, errors>>

\* The event loop, when it is not in handleMsg, reads what there is.
Arrive(n) ==
    /\ ~running
    /\ socket' = socket \o SubSeq(wire, 1, n)
    /\ wire' = SubSeq(wire, n + 1, Len(wire))
    /\ ready' = TRUE
    /\ UNCHANGED <<sent, running, statics, received, errors>>

HandleMsg ==
    /\ ready /\ ~running
    /\ ready' = FALSE /\ running' = TRUE
    /\ UNCHANGED <<sent, wire, socket, statics, received, errors>>

\* readBlock: as much as there is, at most what is missing of length units.
Missing(length) == length - Len(part)
Available(length) == IF Missing(length) < Len(socket) THEN Missing(length) ELSE Len(socket)
Got(length) == part \o SubSeq(socket, 1, Available(length))

ReadBlock(length) == socket' = SubSeq(socket, Available(length) + 1, Len(socket))

\* The magic number is there and the data is not too long.
Accepted(units) == units[1][2] = 1 /\ sent[units[1][1]] <= MaxDataLength

\* A slip: the header is not looked at.
ReadHeaderBlindly ==
    /\ running /\ ~header_complete
    /\ ReadBlock(HeaderLen)
    /\ IF Len(Got(HeaderLen)) < HeaderLen
       THEN /\ part' = Got(HeaderLen)
            /\ running' = FALSE
            /\ UNCHANGED <<header_complete, header>>
       ELSE /\ part' = <<>>
            /\ header_complete' = TRUE /\ header' = Got(HeaderLen)[1][1]
            /\ UNCHANGED running
    /\ UNCHANGED <<sent, wire, ready, room, received, errors>>

\* A slip: a partial header is forgotten.
ReadHeaderForgets ==
    /\ running /\ ~header_complete
    /\ ReadBlock(HeaderLen)
    /\ part' = <<>>
    /\ IF Len(Got(HeaderLen)) = HeaderLen /\ Accepted(Got(HeaderLen))
       THEN header_complete' = TRUE /\ header' = Got(HeaderLen)[1][1] /\ UNCHANGED running
       ELSE running' = FALSE /\ UNCHANGED <<header_complete, header>>
    /\ UNCHANGED <<sent, wire, ready, room, received, errors>>

\* A header that is not accepted is dropped and its data is not: the next read
\* takes HeaderLen units of that for a header.
ReadHeader ==
    /\ running /\ ~header_complete
    /\ ReadBlock(HeaderLen)
    /\ part' = IF Len(Got(HeaderLen)) < HeaderLen THEN Got(HeaderLen) ELSE <<>>
    /\ IF Len(Got(HeaderLen)) = HeaderLen /\ Accepted(Got(HeaderLen))
       THEN header_complete' = TRUE /\ header' = Got(HeaderLen)[1][1] /\ UNCHANGED running
       ELSE running' = FALSE /\ UNCHANGED <<header_complete, header>>
    /\ UNCHANGED <<sent, wire, ready, room, received, errors>>

\* A slip: handleMsg returns after a message.
ReadDataOnce ==
    /\ running /\ header_complete
    /\ ReadBlock(sent[header])
    /\ running' = FALSE
    /\ IF Len(Got(sent[header])) < sent[header]
       THEN /\ part' = Got(sent[header])
            /\ room' = IF room = 0 THEN sent[header] ELSE room
            /\ UNCHANGED <<header_complete, received>>
       ELSE /\ part' = <<>> /\ header_complete' = FALSE /\ room' = 0
            /\ received' = Append(received, [message |-> header, data |-> Got(sent[header])])
    /\ UNCHANGED <<sent, wire, ready, header, errors>>

\* A buffer that a failed read left behind is used again, whatever its size.  What
\* the program does after it wrote behind the end of one is undefined, and here
\* it does nothing more.
Fits == room \in {0} \cup {length \in Lengths : length >= sent[header]}

\* The data, if there is any, and packetReady when it is complete.
ReadData ==
    /\ running /\ header_complete /\ Fits
    /\ ReadBlock(sent[header])
    /\ IF Len(Got(sent[header])) < sent[header]
       THEN /\ part' = Got(sent[header])
            /\ room' = IF room = 0 THEN sent[header] ELSE room
            /\ running' = FALSE
            /\ UNCHANGED <<header_complete, received>>
       ELSE /\ part' = <<>> /\ header_complete' = FALSE /\ room' = 0
            /\ received' = Append(received, [message |-> header, data |-> Got(sent[header])])
            /\ UNCHANGED running
    /\ UNCHANGED <<sent, wire, ready, header, errors>>

\* A read fails: what was read of the message is forgotten, its buffer is kept.
ReadError ==
    /\ running /\ errors < MaxErrors
    /\ header_complete => sent[header] > 0
    /\ room' = IF header_complete /\ room = 0 THEN sent[header] ELSE room
    /\ part' = <<>> /\ header_complete' = FALSE
    /\ running' = FALSE
    /\ errors' = errors + 1
    /\ UNCHANGED <<sent, wire, socket, ready, header, received>>

Next ==
    \/ \E length \in Lengths : SendMsg(length)
    \/ \E n \in 1 .. Len(wire) : Arrive(n)
    \/ HandleMsg \/ ReadHeader \/ ReadData \/ ReadError

Spec == Init /\ [][Next]_vars

\* What was sent arrives, and the event loop runs.
FairSpec ==
    /\ Spec
    /\ WF_vars(\E n \in 1 .. Len(wire) : Arrive(n))
    /\ WF_vars(HandleMsg \/ ReadHeader \/ ReadData)

-----------------------------------------------------------------------------
Faulty == errors > 0 \/ \E n \in DOMAIN sent : sent[n] > MaxDataLength

\* Every message that packetReady announces is one that was sent, with all of
\* its data and nothing else, even after reads have failed and headers were
\* refused and the stream is no longer read from where messages begin.
Intact ==
    \A i \in DOMAIN received : LET n == received[i].message IN
        received[i].data = DataOf(n) /\ sent[n] <= MaxDataLength

\* Every message is received, unless a read failed or a length was refused.
AllReceived ==
    \A n \in 1 .. MaxSent :
        n \in DOMAIN sent ~> Faulty \/ \E i \in DOMAIN received : received[i].message = n

\* Once, and in the order of sending.
Last == IF received = <<>> THEN 0 ELSE received[Len(received)].message

Stream == INSTANCE MessageStream WITH
    Message <- 1 .. MaxSent,
    queue <- [i \in 1 .. Len(sent) - Last |-> Last + i],
    received <- [i \in DOMAIN received |-> received[i].message],
    faulty <- Faulty

ImplementsStream == Stream!Spec
=============================================================================
