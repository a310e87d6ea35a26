---------------------------- MODULE QdmaResource ----------------------------
(***************************************************************************)
(* The queue resource manager of one board (qdma_resource_mgmt.c): the     *)
(* hardware queues QBase .. QBase+TotalQ-1 are handed out to the PCIe      *)
(* functions as contiguous ranges; what nobody owns is on a free list of   *)
(* chunks.  The manager runs under one lock.  A call is modelled from the  *)
(* moment it takes the lock to the moment it gives it back: pc is the      *)
(* place of the lock holder and call its arguments and locals, so that the *)
(* loop which merges the free list is one step per list node.  The         *)
(* look-ups of the master and of the device entry are part of the first    *)
(* step of a call: the calls about one function are made by one thread.    *)
(***************************************************************************)
EXTENDS Integers, Sequences

CONSTANTS
    Funcs,         \* PCIe functions (PFs and VFs) of the board
    QTypes,        \* queue directions that are counted: h2c, c2h, cmpt
    QBase,         \* q_base of the master resource
    TotalQ,        \* total_q of the master resource
    ReqQmax,       \* qmax arguments of qdma_dev_update that are tried
    ReqQbase,      \* qbase arguments that are tried; negative: anywhere
    AllocMayFail,  \* whether qdma_calloc may return NULL
    CountMod,      \* 2^32 in the code: the counters' width
    NoFunc         \* the function of no call

ASSUME ConstantsAssumption ==
    /\ QBase \in Nat
    /\ TotalQ \in Nat \ {0}
    /\ ReqQmax \subseteq Nat
    /\ ReqQbase \subseteq Int
    /\ AllocMayFail \in BOOLEAN
    /\ CountMod \in Nat \ {0}
    /\ NoFunc \notin Funcs

VARIABLES
    free,          \* free_list, in list order
    entries,       \* functions that have a dev_entry on dev_list
    dev,           \* the range (qbase, total_q) of each dev_entry
    active,        \* active_h2c_qcnt, active_c2h_qcnt, active_cmpt_qcnt
    active_qcnt,   \* the master's own count of active queues
    pc,            \* where the lock holder is; "idle": the lock is free
    call,          \* arguments and locals of the lock holder
    streach,       \* streach_node: the node the merge loop grows
    rv             \* return value of the last qdma_dev_update

vars == <<free, entries, dev, active, active_qcnt, pc, call, streach, rv>>

(***************************************************************************)
(* Ranges of queues.                                                       *)
(***************************************************************************)
Chunk(qbase, total_q) == [qbase |-> qbase, total_q |-> total_q]
NoRange == Chunk(-1, 0)
End(c) == c.qbase + c.total_q
Covers(c, q) == c.qbase <= q /\ q < End(c)

\* The operations of qdma_list.c on a list, by position: put a node before
\* node i (or at the tail), take node i off, and store into node i.
ListInsert(l, i, e) == SubSeq(l, 1, i - 1) \o <<e>> \o SubSeq(l, i, Len(l))
ListDel(l, i) == SubSeq(l, 1, i - 1) \o SubSeq(l, i + 1, Len(l))
ListStore(l, i, e) == [l EXCEPT ![i] = e]

NoCall == [op |-> "none", func |-> NoFunc, qmax |-> 0, qbase |-> -1,
           old |-> NoRange]

\* qdma_dev_is_queue_in_range: the check made on behalf of a function
\* before one of its queues is touched.
IsQueueInRange(f, q) ==
    /\ f \in entries
    /\ dev[f].total_q # 0
    /\ Covers(dev[f], q)

(***************************************************************************)
(* qdma_get_resource_node.  IsNode: node i of list l serves a request: the *)
(* first node that holds the requested range, else the last of the         *)
(* smallest nodes that are large enough.  NodeBase: the first queue served.*)
(***************************************************************************)
Holds(c, qmax, qbase) == qbase >= c.qbase /\ End(c) >= qbase + qmax

Honoured(l, qmax, qbase) ==
    qbase >= 0 /\ \E i \in DOMAIN l : Holds(l[i], qmax, qbase)

IsNode(l, qmax, qbase, i) ==
    IF Honoured(l, qmax, qbase)
    THEN /\ Holds(l[i], qmax, qbase)
         /\ \A j \in DOMAIN l : Holds(l[j], qmax, qbase) => i <= j
    ELSE /\ l[i].total_q >= qmax
         /\ \A j \in DOMAIN l :
               l[j].total_q >= qmax =>
                   \/ l[i].total_q < l[j].total_q
                   \/ l[i].total_q = l[j].total_q /\ j <= i

\* Mutant: the requested base is ignored.
NodeBaseAnywhere(l, qmax, qbase, i) == l[i].qbase

NodeBase(l, qmax, qbase, i) ==
    IF Honoured(l, qmax, qbase) THEN qbase ELSE l[i].qbase

\* Mutant: the tail of a three-way split is dropped.
CarveDropsTail(l, i, base, qmax) ==
    IF base > l[i].qbase THEN ListStore(l, i, Chunk(l[i].qbase, base - l[i].qbase))
    ELSE IF End(l[i]) = base + qmax THEN ListDel(l, i)
    ELSE ListStore(l, i, Chunk(base + qmax, End(l[i]) - (base + qmax)))

\* The list once base .. base+qmax-1 has been cut out of node i: what is
\* left of the node before and after the range stays on the list.
Carve(l, i, base, qmax) ==
    LET before == Chunk(l[i].qbase, base - l[i].qbase)
        after  == Chunk(base + qmax, End(l[i]) - (base + qmax))
    IN  CASE before.total_q = 0 /\ after.total_q = 0 -> ListDel(l, i)
          [] before.total_q = 0 /\ after.total_q # 0 -> ListStore(l, i, after)
          [] before.total_q # 0 /\ after.total_q = 0 -> ListStore(l, i, before)
          [] before.total_q # 0 /\ after.total_q # 0 ->
                ListInsert(ListStore(l, i, after), i, before)

\* Mutant: the chosen node is not shortened.
HalfCarveOverlaps(l, i, base) ==
    ListInsert(l, i, Chunk(l[i].qbase, base - l[i].qbase))

\* The list when the second node of a three-way split cannot be allocated:
\* the first one is already on the list.
HalfCarve(l, i, base) ==
    ListInsert(ListStore(l, i, Chunk(base, End(l[i]) - base)), i,
             Chunk(l[i].qbase, base - l[i].qbase))

\* The lists that a look-up which returns NULL may leave: no node is large
\* enough, or a node needed to split the chosen one cannot be allocated.
ListsOnNull(l, qmax, qbase) ==
    LET split == {i \in DOMAIN l :
                    /\ AllocMayFail
                    /\ IsNode(l, qmax, qbase, i)
                    /\ l[i] # Chunk(NodeBase(l, qmax, qbase, i), qmax)}
        three == {i \in split :
                    LET base == NodeBase(l, qmax, qbase, i)
                    IN  base > l[i].qbase /\ base + qmax # End(l[i])}
    IN  {m \in {l} : split # {} \/ \A i \in DOMAIN l : l[i].total_q < qmax}
        \union {HalfCarve(l, i, NodeBase(l, qmax, qbase, i)) : i \in three}

-----------------------------------------------------------------------------
Busy(f) == \E t \in QTypes : active[f][t] # 0

\* qdma_submit_to_free_list up to its merge loop: the function's range is
\* put on the list in qbase order and its entry is reset.  Nothing happens
\* when it owns nothing or the list node cannot be allocated.
SubmitToFreeList(f, next) ==
    \/ /\ dev[f].total_q = 0 \/ AllocMayFail
       /\ pc' = next
       /\ UNCHANGED <<free, dev, streach>>
    \/ /\ dev[f].total_q # 0
       /\ \E k \in 1 .. Len(free) + 1 :
            /\ \A j \in 1 .. k - 1 : free[j].qbase <= dev[f].qbase
            /\ k <= Len(free) => free[k].qbase > dev[f].qbase
            /\ free' = ListInsert(free, k, dev[f])
       /\ dev' = [dev EXCEPT ![f] = NoRange]
       /\ pc' = "defrag"
       /\ streach' = 1

\* Mutants of the merge loop: the merged node is not compared with its new
\* neighbour, and the loop does not advance past a gap.
DefragSkips ==
    /\ pc = "defrag"
    /\ streach < Len(free)
    /\ streach' = streach + 1
    /\ free' = IF End(free[streach]) = free[streach + 1].qbase
               THEN ListDel(ListStore(free, streach,
                      Chunk(free[streach].qbase,
                            free[streach].total_q + free[streach + 1].total_q)),
                      streach + 1)
               ELSE free
    /\ UNCHANGED <<entries, dev, active, active_qcnt, pc, call, rv>>

DefragStays ==
    /\ pc = "defrag"
    /\ streach < Len(free)
    /\ End(free[streach]) = free[streach + 1].qbase
    /\ free' = ListDel(ListStore(free, streach,
                 Chunk(free[streach].qbase,
                       free[streach].total_q + free[streach + 1].total_q)),
                 streach + 1)
    /\ UNCHANGED <<streach, entries, dev, active, active_qcnt, pc, call, rv>>

\* One round of the merge loop: the next node is adjacent to streach_node
\* and is merged into it, or becomes the streach_node.
Defrag ==
    /\ pc = "defrag"
    /\ streach < Len(free)
    /\ IF End(free[streach]) = free[streach + 1].qbase
       THEN /\ free' = ListDel(
                 ListStore(free, streach,
                    Chunk(free[streach].qbase,
                          free[streach].total_q + free[streach + 1].total_q)),
                 streach + 1)
            /\ UNCHANGED streach
       ELSE /\ streach' = streach + 1
            /\ UNCHANGED free
    /\ UNCHANGED <<entries, dev, active, active_qcnt, pc, call, rv>>

DefragDone ==
    /\ pc = "defrag"
    /\ streach >= Len(free)
    /\ pc' = call.op
    /\ streach' = 1
    /\ UNCHANGED <<free, entries, dev, active, active_qcnt, call, rv>>

-----------------------------------------------------------------------------
\* qdma_dev_entry_create (an entry that exists already is left alone).
DevEntryCreate(f) ==
    /\ pc = "idle"
    /\ f \notin entries
    /\ entries' = entries \union {f}
    /\ dev' = [dev EXCEPT ![f] = NoRange]
    /\ active' = [active EXCEPT ![f] = [t \in QTypes |-> 0]]
    /\ UNCHANGED <<free, active_qcnt, pc, call, streach, rv>>

\* qdma_dev_entry_destroy: the range goes back to the free list, then the
\* entry is removed.
DevEntryDestroy(f) ==
    /\ pc = "idle"
    /\ f \in entries
    /\ call' = [NoCall EXCEPT !.op = "remove", !.func = f]
    /\ SubmitToFreeList(f, "remove")
    /\ UNCHANGED <<entries, active, active_qcnt, rv>>

RemoveEntry ==
    /\ pc = "remove"
    /\ entries' = entries \ {call.func}
    /\ dev' = [dev EXCEPT ![call.func] = NoRange]
    /\ active' = [active EXCEPT ![call.func] = [t \in QTypes |-> 0]]
    /\ pc' = "idle"
    /\ call' = NoCall
    /\ UNCHANGED <<free, active_qcnt, streach, rv>>

\* qdma_dev_update: refused while a queue of the function is active, else
\* qdma_request_q_resource, which first gives the old range back.
DevUpdateRejected(f) ==
    /\ pc = "idle"
    /\ f \in entries
    /\ Busy(f)
    /\ rv' = "rejected"
    /\ UNCHANGED <<free, entries, dev, active, active_qcnt, pc, call, streach>>

\* Mutant: the active queues are not looked at.
DevUpdateUnguarded(f, qmax, qbase) ==
    /\ pc = "idle"
    /\ f \in entries
    /\ call' = [op |-> "take", func |-> f, qmax |-> qmax, qbase |-> qbase,
                old |-> dev[f]]
    /\ SubmitToFreeList(f, "take")
    /\ UNCHANGED <<entries, active, active_qcnt, rv>>

DevUpdate(f, qmax, qbase) ==
    /\ pc = "idle"
    /\ f \in entries
    /\ ~ Busy(f)
    /\ call' = [op |-> "take", func |-> f, qmax |-> qmax, qbase |-> qbase,
                old |-> dev[f]]
    /\ SubmitToFreeList(f, "take")
    /\ UNCHANGED <<entries, active, active_qcnt, rv>>

\* The rest of qdma_request_q_resource.  A request for no queue is done.
\* A node for the request is looked for; when there is none a node for the
\* old range is, and when there is none of that either the entry is reset.
UpdateDone(range, list, result) ==
    /\ pc' = "idle"
    /\ call' = NoCall
    /\ free' = list
    /\ dev' = [dev EXCEPT ![call.func] = range]
    /\ rv' = result
    /\ UNCHANGED <<entries, active, active_qcnt, streach>>

TakeNothing ==
    /\ pc = "take"
    /\ call.qmax = 0
    /\ UpdateDone(dev[call.func], free, "ok")

TakeFrom(l, qmax, qbase, result) ==
    \E i \in DOMAIN l :
        /\ IsNode(l, qmax, qbase, i)
        /\ LET base == NodeBase(l, qmax, qbase, i)
           IN  UpdateDone(Chunk(base, qmax), Carve(l, i, base, qmax), result)

TakeNew ==
    /\ pc = "take"
    /\ call.qmax # 0
    /\ TakeFrom(free, call.qmax, call.qbase, "ok")

TakeOld ==
    /\ pc = "take"
    /\ call.qmax # 0
    /\ \E l \in ListsOnNull(free, call.qmax, call.qbase) :
          \/ TakeFrom(l, call.old.total_q, call.old.qbase, "no_queues_left")
          \/ \E m \in ListsOnNull(l, call.old.total_q, call.old.qbase) :
                UpdateDone(NoRange, m, "no_queues_left")

-----------------------------------------------------------------------------
\* Mutant: one queue too many is let through.
IncrementOneMore(f, t) ==
    /\ pc = "idle"
    /\ f \in entries
    /\ dev[f].total_q >= active[f][t]
    /\ active' = [active EXCEPT ![f][t] = @ + 1]
    /\ active_qcnt' = (active_qcnt + 1) % CountMod
    /\ UNCHANGED <<free, entries, dev, pc, call, streach, rv>>

\* qdma_dev_increment_active_queue: refused when the function has no queue
\* left of its range.
IncrementActiveQueue(f, t) ==
    /\ pc = "idle"
    /\ f \in entries
    /\ dev[f].total_q >= active[f][t] + 1
    /\ active' = [active EXCEPT ![f][t] = @ + 1]
    /\ active_qcnt' = (active_qcnt + 1) % CountMod
    /\ UNCHANGED <<free, entries, dev, pc, call, streach, rv>>

\* qdma_dev_decrement_active_queue: the function's count stops at zero, the
\* master's does not.
DecrementActiveQueue(f, t) ==
    /\ pc = "idle"
    /\ f \in entries
    /\ active' = [active EXCEPT ![f][t] = IF @ # 0 THEN @ - 1 ELSE @]
    /\ active_qcnt' = (active_qcnt - 1) % CountMod
    /\ UNCHANGED <<free, entries, dev, pc, call, streach, rv>>

-----------------------------------------------------------------------------
\* qdma_master_resource_create: one free chunk, no device entry.
Init ==
    /\ free = <<Chunk(QBase, TotalQ)>>
    /\ entries = {}
    /\ dev = [f \in Funcs |-> NoRange]
    /\ active = [f \in Funcs |-> [t \in QTypes |-> 0]]
    /\ active_qcnt = 0
    /\ pc = "idle"
    /\ call = NoCall
    /\ streach = 1
    /\ rv = "ok"

\* The steps of a call that holds the lock.
CallStep == Defrag \/ DefragDone \/ RemoveEntry \/ TakeNothing \/ TakeNew \/ TakeOld

Next ==
    \/ CallStep
    \/ \E f \in Funcs :
         \/ DevEntryCreate(f)
         \/ DevEntryDestroy(f)
         \/ DevUpdateRejected(f)
         \/ \E qmax \in ReqQmax, qbase \in ReqQbase : DevUpdate(f, qmax, qbase)
         \/ \E t \in QTypes : IncrementActiveQueue(f, t) \/ DecrementActiveQueue(f, t)

Spec == Init /\ [][Next]_vars /\ WF_vars(CallStep)

-----------------------------------------------------------------------------
Queues == QBase .. QBase + TotalQ - 1
InFreeList(q) == \E i \in DOMAIN free : Covers(free[i], q)

QRange == [qbase : Int, total_q : Nat]
Chunks == [qbase : Nat, total_q : Nat \ {0}]
Calls == [op : {"none", "take", "remove"}, func : Funcs \union {NoFunc},
          qmax : Nat, qbase : Int, old : QRange]

\* The types of the manager's state; a chunk on the free list is not empty.
TypeOK ==
    /\ free \in Seq(Chunks)
    /\ entries \subseteq Funcs
    /\ dev \in [Funcs -> QRange]
    /\ active \in [Funcs -> [QTypes -> Nat]]
    /\ active_qcnt \in 0 .. CountMod - 1
    /\ pc \in {"idle", "defrag", "take", "remove"}
    /\ call \in Calls
    /\ streach \in Nat \ {0}
    /\ rv \in {"ok", "rejected", "no_queues_left"}

\* No queue is handed out twice: a queue passes the range check of at most
\* one function, no queue of a function is on the free list and no queue is
\* on the list twice.  This is what keeps the functions of a board apart.
QueueHasOneOwner ==
    \A q \in Queues :
        /\ \A f, g \in Funcs : IsQueueInRange(f, q) /\ IsQueueInRange(g, q) => f = g
        /\ \A f \in Funcs : IsQueueInRange(f, q) => ~ InFreeList(q)
        /\ \A i, j \in DOMAIN free : Covers(free[i], q) /\ Covers(free[j], q) => i = j

\* No queue is lost: as long as no allocation fails, giving ranges back,
\* merging, splitting and the return of the old range after a failed request
\* leave every queue with a function or on the free list.
NoQueueLost ==
    ~ AllocMayFail =>
        \A q \in Queues : InFreeList(q) \/ \E f \in Funcs : IsQueueInRange(f, q)

\* A function never has more active queues of a direction than queues, until
\* its entry is being destroyed: the check of qdma_dev_increment_active_queue
\* stays true through every later qdma_dev_update.
ActiveWithinRange ==
    \A f \in entries, t \in QTypes :
        call.func = f \/ active[f][t] <= dev[f].total_q

\* The range of a function with an active queue does not move: nothing but the
\* destruction of its entry changes it, not even calls of other functions.
RangeKeptWhileActive ==
    [][\A f \in entries : Busy(f) /\ call'.op # "remove" /\ call.op # "remove"
                            => dev'[f] = dev[f]]_vars

\* The step in which qdma_dev_update returns -QDMA_ERR_RM_NO_QUEUES_LEFT.
UpdateFails == pc = "take" /\ pc' = "idle" /\ rv' = "no_queues_left"

\* A request that cannot be served leaves a function that owned queues with
\* the very range it had, whatever the shape of the free list.
FailedUpdateKeepsRange ==
    [][UpdateFails /\ ~ AllocMayFail /\ call.old.total_q # 0
         => dev'[call.func] = call.old]_vars

\* A function that owns queues is refused only when no contiguous run of the
\* size it asks for exists among the free queues, its own given back included.
RefusedOnlyWhenFull ==
    [][UpdateFails /\ ~ AllocMayFail /\ call.old.total_q # 0
         => \A b \in Queues :
               \E q \in b .. b + call.qmax - 1 : ~ InFreeList(q)]_vars

\* A call that holds the lock gives it back: the merge loop ends.
LockIsReleased == pc # "idle" ~> pc = "idle"

\* Contiguous chunks of the free list are merged (the comment in
\* qdma_submit_to_free_list).  This one is refuted: see ResourceMerged.cfg.
FreeListMerged ==
    pc = "idle" =>
        \A i \in 1 .. Len(free) - 1 : End(free[i]) # free[i + 1].qbase
=============================================================================
