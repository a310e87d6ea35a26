---------------------------- MODULE QdmaIntrQueue ----------------------------
(***************************************************************************)
(* What interrupt aggregation promises to the queues of a function: the    *)
(* events the hardware reports wait in one bounded queue, in order, and    *)
(* each of them schedules the work of the queue it names, once.            *)
(***************************************************************************)
EXTENDS Naturals, Sequences

CONSTANTS Queues,       \* the queues that report events
          Capacity      \* how many events may wait

VARIABLES pending,      \* the events reported and not yet handled
          work          \* the queues whose work is scheduled

Init == pending = <<>> /\ work = {}

Report(q) ==
    /\ Len(pending) < Capacity
    /\ pending' = Append(pending, q)
    /\ UNCHANGED work

Handle ==
    /\ pending # <<>>
    /\ work' = work \cup {Head(pending)}
    /\ pending' = Tail(pending)

Run(q) ==
    /\ q \in work
    /\ work' = work \ {q}
    /\ UNCHANGED pending

\* The device goes offline: what waits is dropped with its queues.
Drop == pending' = <<>> /\ UNCHANGED work

Next == Handle \/ Drop \/ \E q \in Queues : Report(q) \/ Run(q)

Spec == Init /\ [][Next]_<<pending, work>>
==============================================================================
