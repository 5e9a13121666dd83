------------------------------ MODULE TaskQueue ------------------------------
(***************************************************************************)
(* What a queue of asynchronous operations promises to its callers, with   *)
(* nothing about threads, locks or main loops.                             *)
(*                                                                         *)
(* A task is submitted once.  Tasks are served one at a time, priority     *)
(* tasks first and, within a class, in the order of submission.  A task    *)
(* that waits may be withdrawn; a withdrawn task still takes its turn, but *)
(* is then only told that it was cancelled.  A task that is being served   *)
(* can no longer be withdrawn.  When the owner of the queue goes away the  *)
(* tasks that still wait are abandoned.                                    *)
(***************************************************************************)
EXTENDS Naturals

CONSTANTS Task,       \* the tasks that can be submitted
          Urgent      \* the ones that go before the others

VARIABLES status,     \* status[k]: where task k is
          ticket,     \* ticket[k]: when k was submitted, 0 before that
          clock       \* the last ticket handed out

vars == <<status, ticket, clock>>

Status == {"idle", "queued", "withdrawn", "running", "dropping",
           "done", "cancelled", "abandoned"}

TypeOK == /\ status \in [Task -> Status]
          /\ ticket \in [Task -> Nat]
          /\ clock \in Nat

Waiting(k) == status[k] \in {"queued", "withdrawn"}
OnStage(k) == status[k] \in {"running", "dropping"}

\* k goes before l: an urgent task before one that is not, otherwise the
\* older one first.
Precedes(k, l) == \/ k \in Urgent /\ l \notin Urgent
                  \/ (k \in Urgent <=> l \in Urgent) /\ ticket[k] < ticket[l]

Init == /\ status = [k \in Task |-> "idle"]
        /\ ticket = [k \in Task |-> 0]
        /\ clock = 0

Submit(k) == /\ status[k] = "idle"
             /\ status' = [status EXCEPT ![k] = "queued"]
             /\ clock' = clock + 1
             /\ ticket' = [ticket EXCEPT ![k] = clock + 1]

Withdraw(S) == /\ \A k \in S : status[k] = "queued"
               /\ status' = [k \in Task |-> IF k \in S THEN "withdrawn" ELSE status[k]]
               /\ UNCHANGED <<ticket, clock>>

Serve(k) == /\ Waiting(k)
            /\ \A l \in Task : ~OnStage(l)
            /\ \A l \in Task \ {k} : Waiting(l) => Precedes(k, l)
            /\ status' = [status EXCEPT ![k] = IF @ = "queued" THEN "running" ELSE "dropping"]
            /\ UNCHANGED <<ticket, clock>>

Conclude(k) == /\ OnStage(k)
               /\ status' = [status EXCEPT ![k] = IF @ = "running" THEN "done" ELSE "cancelled"]
               /\ UNCHANGED <<ticket, clock>>

Abandon == /\ status' = [k \in Task |-> IF Waiting(k) THEN "abandoned" ELSE status[k]]
           /\ UNCHANGED <<ticket, clock>>

Next == \/ \E k \in Task : Submit(k) \/ Serve(k) \/ Conclude(k)
        \/ \E S \in SUBSET Task : Withdraw(S)
        \/ Abandon

Spec == Init /\ [][Next]_vars
=============================================================================
