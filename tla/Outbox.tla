-------------------------------- MODULE Outbox --------------------------------
(***************************************************************************)
(* What a send queue promises of the messages given to it: each waits in   *)
(* the outbox until it was delivered, then goes to the sentbox; the only   *)
(* other way out is that somebody removes it.  Delivery is at least once:  *)
(* a message may be delivered again while it waits, and one that is on its *)
(* way may still be delivered after it left.                               *)
(***************************************************************************)
EXTENDS Naturals

CONSTANT Message

VARIABLES place,      \* where each message is
          delivered   \* how often each was delivered

Place == {"new", "outbox", "sentbox", "removed"}

Init == /\ place = [m \in Message |-> "new"]
        /\ delivered = [m \in Message |-> 0]

Move(m, from, to) == /\ place[m] = from
                     /\ place' = [place EXCEPT ![m] = to]
                     /\ UNCHANGED delivered

Deliver(m) == /\ place[m] # "new"
              /\ delivered' = [delivered EXCEPT ![m] = @ + 1]
              /\ UNCHANGED place

\* Several messages are removed at once.
Remove == /\ \E M \in SUBSET {m \in Message : place[m] = "outbox"} :
               place' = [m \in Message |-> IF m \in M THEN "removed" ELSE place[m]]
          /\ UNCHANGED delivered

Next == \/ \E m \in Message : \/ Move(m, "new", "outbox")
                              \/ Deliver(m)
                              \/ delivered[m] > 0 /\ Move(m, "outbox", "sentbox")
        \/ Remove

Spec == Init /\ [][Next]_<<place, delivered>>
=============================================================================
