---------------------------- MODULE MessageStream ----------------------------
(***************************************************************************)
(* What a stream of framed messages promises: every message is received    *)
(* once and in the order of sending, however it was cut into pieces.  A    *)
(* stream that became faulty may skip messages.                            *)
(***************************************************************************)
EXTENDS Naturals, Sequences

CONSTANT Message

VARIABLES queue,     \* the messages sent and not received, oldest first
          received,  \* the messages received
          faulty     \* something went wrong

vars == <<queue, received, faulty>>

Init == queue = <<>> /\ received = <<>> /\ faulty = FALSE

Send(m) ==
    /\ queue' = Append(queue, m)
    /\ UNCHANGED received
    /\ faulty' \in {faulty, TRUE}

Receive(n) ==
    /\ n = 1 \/ faulty
    /\ received' = Append(received, queue[n])
    /\ queue' = SubSeq(queue, n + 1, Len(queue))
    /\ UNCHANGED faulty

Fail == faulty' = TRUE /\ UNCHANGED <<queue, received>>

Next ==
    \/ \E m \in Message : Send(m)
    \/ \E n \in 1 .. Len(queue) : Receive(n)
    \/ Fail

Spec == Init /\ [][Next]_vars
=============================================================================
