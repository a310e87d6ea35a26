-------------------------- MODULE QdmaResourceInv ---------------------------
(***************************************************************************)
(* The inductive invariant of QdmaResource: what is true at every step of  *)
(* a call that holds the lock, and strong enough to imply itself after the *)
(* next step.  QdmaResourceProofs proves it.                               *)
(***************************************************************************)
EXTENDS QdmaResource

(***************************************************************************)
(* Free lists.  Lo and Hi are the first queue of node k and the one behind *)
(* its last; the lemmas about lists speak of these numbers only.           *)
(***************************************************************************)
Lo(l, k) == l[k].qbase
Hi(l, k) == End(l[k])
Nodes(l) == 1 .. Len(l)

Sorted(l) == \A j, k \in Nodes(l) : j < k => Hi(l, j) <= Lo(l, k)
InBoard(l) == \A k \in Nodes(l) : QBase <= Lo(l, k) /\ Hi(l, k) <= QBase + TotalQ
GoodList(l) == l \in Seq(Chunks) /\ Sorted(l) /\ InBoard(l)

\* The list has no queue of lo .. hi-1.
ApartFrom(l, lo, hi) == \A k \in Nodes(l) : Hi(l, k) <= lo \/ hi <= Lo(l, k)
\* A single node has all of lo .. hi-1.
HoldsRange(l, lo, hi) == \E k \in Nodes(l) : Lo(l, k) <= lo /\ hi <= Hi(l, k)
ListCovers(l, q) == \E k \in Nodes(l) : Lo(l, k) <= q /\ q < Hi(l, k)

(***************************************************************************)
(* The ranges of the functions.                                            *)
(***************************************************************************)
Owns(f) == dev[f].total_q # 0
ApartRanges(c, d) == End(c) <= d.qbase \/ End(d) <= c.qbase

RangesOK ==
    \A f \in Funcs : Owns(f) =>
        /\ f \in entries
        /\ QBase <= dev[f].qbase /\ End(dev[f]) <= QBase + TotalQ
        /\ ApartFrom(free, dev[f].qbase, End(dev[f]))

RangesApart ==
    \A f, g \in Funcs : f # g /\ Owns(f) /\ Owns(g) => ApartRanges(dev[f], dev[g])

\* The lock holder and its arguments.
CallOK ==
    /\ pc = "idle" => call = NoCall
    /\ pc # "idle" => call.func \in entries
    /\ pc \in {"take", "remove"} => call.op = pc
    /\ pc = "defrag" => call.op \in {"take", "remove"}

\* The range of the lock holder's function is back on the list.
GivenBack == pc # "idle" /\ ~ AllocMayFail => ~ Owns(call.func)

Covered ==
    ~ AllocMayFail =>
        \A q \in Queues :
            ListCovers(free, q) \/ \E f \in Funcs : Owns(f) /\ Covers(dev[f], q)

\* Active queues are within the range; the range of the function a call is
\* about may change, so it has none if the call is an update.
ActiveOK ==
    /\ \A f \in Funcs, t \in QTypes : call.func = f \/ active[f][t] <= dev[f].total_q
    /\ call.op = "take" => \A t \in QTypes : active[call.func][t] = 0

\* An update that gave a range back.
GaveBack ==
    pc # "idle" /\ call.op = "take" /\ ~ AllocMayFail /\ call.old.total_q # 0

\* What an update gave back is in one node.
OldHeld ==
    GaveBack => /\ call.old.qbase \in Nat
                /\ HoldsRange(free, call.old.qbase, End(call.old))

\* The nodes up to n are not adjacent to their successors.
SeparateUpTo(l, n) == \A k \in 1 .. n : Hi(l, k) < Lo(l, k + 1)

MergedSoFar ==
    /\ pc = "defrag" => /\ streach \in 1 .. Len(free)
                        /\ SeparateUpTo(free, streach - 1)
    /\ pc = "take" /\ GaveBack => SeparateUpTo(free, Len(free) - 1)

\* The free list is sorted, its chunks, like the ranges of the functions, lie
\* apart from each other, from the ranges and inside the board, whoever holds
\* the lock and wherever in a call of the resource manager they are.
IInv ==
    /\ TypeOK
    /\ GoodList(free)
    /\ RangesOK
    /\ RangesApart
    /\ CallOK
    /\ GivenBack
    /\ Covered
    /\ ActiveOK
    /\ OldHeld
    /\ MergedSoFar
=============================================================================
