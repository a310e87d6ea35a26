---------------------------- MODULE QdmaIntrRing ----------------------------
(***************************************************************************)
(* Interrupt aggregation (libqdma/qdma_intr.c): the hardware writes one    *)
(* entry per queue event into a ring in host memory and raises one vector; *)
(* data_intr_aggregate walks the ring, schedules the work of each queue it *)
(* finds, and tells the hardware how far it got.                           *)
(*                                                                         *)
(* An entry is new when its colour is the one the driver expects; both     *)
(* sides change colour when they wrap.  QDMA_NUM_DATA_VEC_FOR_INTR_CXT is  *)
(* 1, so a function has one ring.  The hardware's side is external: it is  *)
(* modelled from how the driver uses it.                                   *)
(***************************************************************************)
EXTENDS Naturals, Sequences

CONSTANTS
    Queues,     \* the hardware queues of the function
    N,          \* intr_rng_num_entries
    NoQueue     \* a NULL descq, and the qid of a zeroed entry

ASSUME IntrAssumption ==
    /\ N \in Nat /\ N >= 2
    /\ NoQueue \notin Queues

VARIABLES
    ring,       \* the entries: coal_color and qid
    live,       \* whether intr_coal_list and its ring are allocated
    sw_cidx,    \* intr_cidx_info.sw_cidx
    color,      \* coal_entry->color
    prev,       \* what xdev->prev_descq points to: nothing, a queue, freed memory
    pc, descq,  \* data_intr_aggregate: where it is, its local descq
    work,       \* queues whose descq->work is scheduled
    pidx, hwColor, hwCidx,      \* the hardware's side of the ring
    armed, irq  \* whether it may raise the vector, and whether it did

sw == <<live, sw_cidx, color, prev, pc, descq, work>>
hw == <<pidx, hwColor, hwCidx, armed, irq>>
vars == <<ring, sw, hw>>

Entries == 0 .. N - 1
Following(i) == IF i + 1 = N THEN 0 ELSE i + 1
Wrapped(i, c) == IF i + 1 = N THEN 1 - c ELSE c

ZeroedRing == [i \in Entries |-> [color |-> 0, qid |-> NoQueue]]

\* qdma_device_interrupt_setup has succeeded.
Init ==
    /\ ring = ZeroedRing
    /\ live = TRUE /\ sw_cidx = 0 /\ color = 1 /\ prev = "none"
    /\ pc = "idle" /\ descq = NoQueue /\ work = {}
    /\ pidx = 0 /\ hwColor = 1 /\ hwCidx = 0 /\ armed = TRUE /\ irq = FALSE

-----------------------------------------------------------------------------
(***************************************************************************)
(* The hardware                                                            *)
(***************************************************************************)
\* It keeps one entry free, so that equal indices mean an empty ring.
HwReport(q) ==
    /\ live /\ Following(pidx) # hwCidx
    /\ ring' = [ring EXCEPT ![pidx] = [color |-> hwColor, qid |-> q]]
    /\ pidx' = Following(pidx) /\ hwColor' = Wrapped(pidx, hwColor)
    /\ UNCHANGED <<sw, hwCidx, armed, irq>>

\* One interrupt per update of the consumer index.
HwInterrupt ==
    /\ live /\ armed /\ pidx # hwCidx
    /\ irq' = TRUE /\ armed' = FALSE
    /\ UNCHANGED <<ring, sw, pidx, hwColor, hwCidx>>

\* An interrupt that may find no entry, the case of the "stale update"; none
\* comes before the first entry, where the driver could not answer it.
HwSpurious ==
    /\ live /\ armed /\ prev # "none"
    /\ irq' = TRUE /\ armed' = FALSE
    /\ UNCHANGED <<ring, sw, pidx, hwColor, hwCidx>>

-----------------------------------------------------------------------------
(***************************************************************************)
(* data_intr_aggregate                                                     *)
(***************************************************************************)
Enter ==
    /\ pc = "idle" /\ irq
    /\ pc' = IF live THEN "walk" ELSE "oops"
    /\ descq' = NoQueue /\ irq' = FALSE
    /\ UNCHANGED <<ring, live, sw_cidx, color, prev, work, pidx, hwColor, hwCidx, armed>>

\* ++sw_cidx, back to 0 at intr_rng_num_entries.
NextCidx(i) == IF i + 1 = N THEN 0 ELSE i + 1

\* Mutant: the expected colour does not change when the index wraps.
WrapKeepsColor(i, c) == c

\* The colour the driver expects of the entry after i.
NextColor(i, c) == IF i + 1 = N THEN 1 - c ELSE c

\* An entry of the expected colour: schedule its queue's work, step on.
Walk ==
    /\ pc = "walk" /\ live /\ ring[sw_cidx].color = color
    /\ descq' = ring[sw_cidx].qid /\ prev' = "queue"
    /\ work' = work \cup {ring[sw_cidx].qid}
    /\ sw_cidx' = NextCidx(sw_cidx) /\ color' = NextColor(sw_cidx, color)
    /\ UNCHANGED <<ring, live, pc, hw>>

\* Mutant: no stale update when the walk found nothing.
LeaveQuietly ==
    /\ pc = "walk" /\ live /\ ring[sw_cidx].color # color
    /\ IF descq # NoQueue
       THEN hwCidx' = sw_cidx /\ armed' = TRUE
       ELSE UNCHANGED <<hwCidx, armed>>
    /\ pc' = "idle"
    /\ UNCHANGED <<ring, live, sw_cidx, color, prev, descq, work, pidx, hwColor, irq>>

\* An old entry: report the consumer index through the last queue found, or,
\* when this walk found none, through prev_descq.
Leave ==
    /\ pc = "walk" /\ live /\ ring[sw_cidx].color # color
    /\ IF descq # NoQueue \/ prev = "queue"
       THEN hwCidx' = sw_cidx /\ armed' = TRUE /\ pc' = "idle"
       ELSE /\ UNCHANGED <<hwCidx, armed>>
            /\ pc' = IF prev = "freed" THEN "oops" ELSE "idle"
    /\ UNCHANGED <<ring, live, sw_cidx, color, prev, descq, work, pidx, hwColor, irq>>

\* The ring was freed under the handler.
WalkFreed ==
    /\ pc = "walk" /\ ~live
    /\ pc' = "oops"
    /\ UNCHANGED <<ring, live, sw_cidx, color, prev, descq, work, hw>>

\* intr_work of a queue begins: it may be scheduled again from here on.
RunWork(q) ==
    /\ q \in work
    /\ work' = work \ {q}
    /\ UNCHANGED <<ring, live, sw_cidx, color, prev, pc, descq, hw>>

-----------------------------------------------------------------------------
(***************************************************************************)
(* qdma_device_offline and qdma_device_online                              *)
(***************************************************************************)
\* qdma_device_cleanup frees the queues, intr_ring_teardown invalidates the
\* context and frees the ring; only then does intr_teardown free the vector.
Teardown ==
    /\ live /\ pc # "oops"
    /\ live' = FALSE /\ armed' = FALSE
    /\ prev' = IF prev = "none" THEN "none" ELSE "freed"
    /\ UNCHANGED <<ring, sw_cidx, color, pc, descq, work, pidx, hwColor, hwCidx, irq>>

\* Mutant: the ring that comes back is not zeroed.
SetupDirty ==
    /\ ~live /\ pc = "idle" /\ ~irq
    /\ live' = TRUE /\ sw_cidx' = 0 /\ color' = 1
    /\ pidx' = 0 /\ hwColor' = 1 /\ hwCidx' = 0 /\ armed' = TRUE
    /\ UNCHANGED <<ring, prev, pc, descq, work, irq>>

\* A new zeroed ring, and a context of colour 1 at index 0 (make_intr_context).
Setup ==
    /\ ~live /\ pc = "idle" /\ ~irq
    /\ ring' = ZeroedRing
    /\ live' = TRUE /\ sw_cidx' = 0 /\ color' = 1
    /\ pidx' = 0 /\ hwColor' = 1 /\ hwCidx' = 0 /\ armed' = TRUE
    /\ UNCHANGED <<prev, pc, descq, work, irq>>

-----------------------------------------------------------------------------
Handler == Enter \/ Walk \/ Leave \/ WalkFreed

Next ==
    \/ Handler \/ HwInterrupt \/ HwSpurious \/ Teardown \/ Setup
    \/ \E q \in Queues : HwReport(q) \/ RunWork(q)

\* The vector is delivered, the handler runs to its end, scheduled work is run.
Spec ==
    /\ Init /\ [][Next]_vars
    /\ WF_vars(Handler) /\ WF_vars(HwInterrupt)

-----------------------------------------------------------------------------
(***************************************************************************)
(* Properties                                                              *)
(***************************************************************************)
\* How many entries wait between two indices, and how many of them are new to
\* the driver: the hardware is ahead by a lap when the colours differ.
Used == IF pidx >= hwCidx THEN pidx - hwCidx ELSE pidx + N - hwCidx
Unread == IF hwColor = color THEN pidx - sw_cidx ELSE pidx + N - sw_cidx

At(k) == IF sw_cidx + k < N THEN sw_cidx + k ELSE sw_cidx + k - N
ColorAt(k) == IF sw_cidx + k < N THEN color ELSE 1 - color

\* The events that wait for data_intr_aggregate, oldest first.
Pending == IF live THEN [k \in 1 .. Unread |-> ring[At(k - 1)].qid] ELSE <<>>

\* Every variable has the type its declaration in xdev.h and qdma_intr.c gives it.
TypeOK ==
    /\ ring \in [Entries -> [color : 0 .. 1, qid : Queues \cup {NoQueue}]]
    /\ live \in BOOLEAN /\ sw_cidx \in Entries /\ color \in 0 .. 1
    /\ prev \in {"none", "queue", "freed"} /\ pc \in {"idle", "walk", "oops"}
    /\ descq \in Queues \cup {NoQueue} /\ work \subseteq Queues
    /\ pidx \in Entries /\ hwColor \in 0 .. 1 /\ hwCidx \in Entries
    /\ armed \in BOOLEAN /\ irq \in BOOLEAN

\* The colours tell new entries from old ones: exactly the entries the hardware
\* wrote and data_intr_aggregate has not walked carry the colour it will expect
\* when it gets there, and none of them has been given back to the hardware.
ColorsTellNewEntries ==
    live =>
        /\ 0 <= Unread /\ Unread <= Used
        /\ \A k \in Entries :
              (k < Unread) <=> (ring[At(k)].color = ColorAt(k))
        /\ \A k \in Entries : k < Unread => ring[At(k)].qid \in Queues

\* The ring implements the queue of events: whatever the hardware reports is
\* handled once, in order, and schedules the work of the queue it names.
Queue == INSTANCE QdmaIntrQueue WITH pending <- Pending, Capacity <- N - 1
ImplementsQueue == Queue!Spec

\* Every event that waits is handled, whatever the interrupts it came with,
\* unless the device goes offline or the handler has run into freed memory.
EventsAreHandled ==
    \A q \in Queues :
        (\E k \in DOMAIN Pending : Pending[k] = q)
            ~> (q \in work \/ ~live \/ pc = "oops")

\* data_intr_aggregate never follows intr_coal_list or prev_descq into memory
\* that qdma_device_offline has freed.
NoFreedMemory == pc # "oops"
=============================================================================
