--------------------------- MODULE WriteDelivery ---------------------------
(***************************************************************************)
(* What the write queue promises to its callers, without threads, locks or  *)
(* events: accepted jobs wait in a line, at most one is written at a time,  *)
(* always the first of the line, each job once; a waiting job may be        *)
(* withdrawn; nothing starts after the line is closed.                      *)
(***************************************************************************)
EXTENDS Naturals, Sequences

CONSTANTS MaxJobs, Capacity

Jobs  == 1..MaxJobs
NoJob == 0

VARIABLES pending, writing, done, closed

vars == <<pending, writing, done, closed>>

Waiting == {pending[i] : i \in 1..Len(pending)}
Without(i) == SubSeq(pending, 1, i - 1) \o SubSeq(pending, i + 1, Len(pending))

Init == pending = <<>> /\ writing = NoJob /\ done = {} /\ closed = FALSE

\* One job more than the queue holds may wait: the one the worker has taken.
Accept(j) ==
    /\ j \notin Waiting \union {writing} \union done
    /\ Len(pending) <= Capacity
    /\ pending' = Append(pending, j)
    /\ UNCHANGED <<writing, done, closed>>

Start ==
    /\ ~closed /\ writing = NoJob /\ pending # <<>>
    /\ writing' = Head(pending) /\ pending' = Tail(pending)
    /\ UNCHANGED <<done, closed>>

Finish ==
    /\ writing # NoJob
    /\ writing' = NoJob /\ done' = done \union {writing}
    /\ UNCHANGED <<pending, closed>>

Withdraw(i) ==
    /\ pending' = Without(i) /\ done' = done \union {pending[i]}
    /\ UNCHANGED <<writing, closed>>

Close == closed' = TRUE /\ UNCHANGED <<pending, writing, done>>

Next ==
    \/ \E j \in Jobs : Accept(j)
    \/ Start \/ Finish \/ Close
    \/ \E i \in 1..Len(pending) : Withdraw(i)

Spec == Init /\ [][Next]_vars

=============================================================================
