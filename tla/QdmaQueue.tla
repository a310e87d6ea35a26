----------------------------- MODULE QdmaQueue -----------------------------
(***************************************************************************)
(* The life of the queues of one physical function: qdma_queue_add,        *)
(* qdma_queue_start, qdma_queue_stop, qdma_queue_remove and                *)
(* qdma_device_cleanup of libqdma, under the table of queues and character *)
(* devices of the qdma-pf driver (qdma_mod.c) and its netlink commands     *)
(* (nl.c).                                                                 *)
(*                                                                         *)
(* Netlink commands come one after the other. A start is done by a work    *)
(* item that the command waits for, unless a signal ends the wait.         *)
(***************************************************************************)
EXTENDS Integers, FiniteSets

CONSTANTS
    QMax,       \* the queues of each type when qmax is set
    AnyIdx,     \* whether queues are added with qidx 0xFFFF
    Patient,    \* whether the wait for a start always lasts until it is done
    MayFail,    \* which steps may fail: "prep", "prog", "cdev"
    Tidy        \* whether completion queues are removed before a reset

ASSUME QueueAssumption ==
    /\ QMax \in Nat \ {0} /\ {AnyIdx, Patient, Tidy} \subseteq BOOLEAN
    /\ MayFail \subseteq {"prep", "prog", "cdev"}

VARIABLES
    descq,      \* q_state and conf.st of each descriptor queue
    res,        \* ring allocations of each queue that are not freed
    intr,       \* how often each queue is on its vector's intr_list
    hw,         \* queues whose context the hardware holds
    active,     \* active_h2c_qcnt, active_c2h_qcnt, active_cmpt_qcnt
    qmax,       \* conf.qsets_max: 0 until it is set
    ready,      \* qdev->init_qrange
    qdata,      \* the driver's table: qhndl, and whether there is an xcdev
    dir_init,   \* the directions of each index's xcdev
    nl,         \* what the netlink thread is doing, to which queue
    work        \* what nl_work_handler_q_start is doing, to which queue

qVars == <<descq, res, intr, hw>>
tableVars == <<qdata, dir_init>>
devVars == <<active, qmax, ready>>
vars == <<qVars, devVars, tableVars, nl, work>>

Idx == 0 .. QMax - 1
Types == {"H2C", "C2H", "CMPT"}
Dirs == {"H2C", "C2H"}
OtherDir(t) == IF t = "H2C" THEN "C2H" ELSE "H2C"
Queues == Types \X Idx

\* The handle of a queue, and the queue a handle stands for
\* (qdma_device_get_descq_by_id).
Handle(t, i) == i + QMax * (CASE t = "H2C" -> 0 [] t = "C2H" -> 1 [] t = "CMPT" -> 2)
QueueOf(h) == CHOOSE q \in Queues : Handle(q[1], q[2]) = h

Fresh == [q_state |-> "disabled", st |-> "MM"]
NoQdata == [qhndl |-> 0, xcdev |-> "none"]
Idle == [pc |-> "idle", q |-> <<"H2C", 0>>]

Init ==
    /\ descq = [q \in Queues |-> Fresh] /\ hw = {}
    /\ res = [q \in Queues |-> 0] /\ intr = [q \in Queues |-> 0]
    /\ active = [t \in Types |-> 0] /\ qmax = 0 /\ ready = FALSE
    /\ qdata = [q \in Queues |-> NoQdata] /\ dir_init = [i \in Idx |-> {}]
    /\ nl = Idle /\ work = Idle

-----------------------------------------------------------------------------
(***************************************************************************)
(* Adding a queue                                                          *)
(***************************************************************************)
Present(t, i) == descq[<<t, i>>].q_state # "disabled"
Streams(t, i) == Present(t, i) /\ descq[<<t, i>>].st = "ST"

\* A version of is_usable_queue that only looks at the queue itself.
UsableIfFree(i, t, st) == ~Present(t, i)

\* is_usable_queue: what is at an index already must go with the new queue.
is_usable_queue(i, t, st) ==
    IF t = "CMPT"
    THEN ~Present(t, i) /\ ~Streams("H2C", i) /\ ~Streams("C2H", i)
    ELSE /\ ~Present(t, i)
         /\ ~(st = "ST" /\ Present("CMPT", i))
         /\ Present(OtherDir(t), i) => descq[<<OtherDir(t), i>>].st = st

\* The counters a queue is counted in: a streaming C2H queue has a completion
\* ring of its own.
CountedIn(t, st) == {t} \cup (IF st = "ST" /\ t = "C2H" THEN {"CMPT"} ELSE {})

\* qdma_dev_decrement_active_queue stops at 0.
Decremented(cnt, n) == IF cnt < n THEN 0 ELSE cnt - n

\* The descriptor queue that qdma_queue_add takes for index i. Searching for a
\* free index it advances descq at every round, and then by i once more.
Claimed(i, auto) == IF auto THEN 2 * i ELSE i

\* A version of Register that forgets the direction of a shared xcdev.
RegisterKeepsDirs(t, i) ==
    /\ qdata' = [qdata EXCEPT ![<<t, i>>] = [qhndl |-> Handle(t, i), xcdev |-> IF t \in Dirs THEN "cdev" ELSE "none"]]
    /\ dir_init' = IF t \in Dirs /\ dir_init[i] = {}
                   THEN [dir_init EXCEPT ![i] = {t}] ELSE dir_init

\* xpdev_queue_add after qdma_queue_add: the xcdev of the other direction is
\* shared, or a new one is made; the queue stays when that fails.
Register(t, i) ==
    LET shared == t \in Dirs /\ qdata[<<OtherDir(t), i>>].xcdev # "none" IN
    \E made \in BOOLEAN :
        /\ ~made => t \in Dirs /\ ~shared /\ "cdev" \in MayFail
        /\ qdata' = [qdata EXCEPT ![<<t, i>>] =
                        [qhndl |-> Handle(t, i),
                         xcdev |-> IF t \in Dirs /\ made THEN "cdev" ELSE "none"]]
        /\ dir_init' = IF t \in Dirs /\ made
                       THEN [dir_init EXCEPT ![i] = IF shared THEN @ \cup {t} ELSE {t}]
                       ELSE dir_init

\* qdma_queue_add of queue q for index i, from the moment the queue is enabled:
\* the first queue needs the queue range; then it is configured and counted. A
\* queue stays enabled when one of these fails.
qdma_queue_add(t, st, i, q) ==
    \E prepared \in BOOLEAN :
        /\ ~prepared => ~ready /\ "prep" \in MayFail
        /\ ready' = (ready \/ prepared)
        /\ descq' = [descq EXCEPT ![q] = [q_state |-> "enabled",
                                         st |-> IF prepared THEN st ELSE @.st]]
        /\ IF prepared /\ \A c \in CountedIn(t, st) : active[c] < qmax
           THEN /\ active' = [c \in Types |-> IF c \in CountedIn(t, st)
                                               THEN active[c] + 1 ELSE active[c]]
                /\ Register(t, i)
           ELSE UNCHANGED <<active, tableVars>>

\* XNL_CMD_Q_ADD. Refused requests change nothing.
AddQueue(t, st) ==
    /\ nl.pc = "idle" /\ qmax > 0 /\ (t = "CMPT" => st = "MM") /\ active[t] < qmax
    /\ \E auto \in {FALSE, AnyIdx}, i \in Idx :
        /\ is_usable_queue(i, t, st)
        /\ auto => \A j \in Idx : is_usable_queue(j, t, st) => i <= j
        /\ IF Claimed(i, auto) \in Idx
           THEN qdma_queue_add(t, st, i, <<t, Claimed(i, auto)>>) /\ UNCHANGED nl
           ELSE nl' = [nl EXCEPT !.pc = "oops"] /\ UNCHANGED <<descq, active, ready, tableVars>>
    /\ UNCHANGED <<res, intr, hw, qmax, work>>

-----------------------------------------------------------------------------
(***************************************************************************)
(* Starting a queue                                                        *)
(***************************************************************************)
\* What a command on a queue is given: xpdev_queue_get with its check (the zero
\* handle is H2C queue 0 too), and the queue that the handle stands for.
Configured(t, i) == qmax > 0 /\ (qdata[<<t, i>>].qhndl # 0 \/ qdata[<<t, i>>].xcdev # "none")
Stands(t, i) == QueueOf(qdata[<<t, i>>].qhndl)

\* XNL_CMD_Q_START: qdma_queue_config wants an enabled queue; the rest is left
\* to the work item. A start behind another work item waits for it.
StartQueue(t, i) ==
    /\ nl.pc = "idle" /\ work.pc = "idle" /\ Configured(t, i)
    /\ descq[Stands(t, i)].q_state = "enabled"
    /\ nl' = [pc |-> "waiting", q |-> <<t, i>>]
    /\ work' = [pc |-> "queued", q |-> <<t, i>>]
    /\ UNCHANGED <<qVars, devVars, tableVars>>

\* The work item looks the queue up again, and qdma_queue_start looks at its
\* state with the queue's lock held ...
StartCheck ==
    LET t == work.q[1]  i == work.q[2] IN
    /\ work.pc = "queued"
    /\ work' = IF Configured(t, i) /\ descq[Stands(t, i)].q_state = "enabled"
               THEN [pc |-> "checked", q |-> Stands(t, i)] ELSE Idle
    /\ UNCHANGED <<qVars, devVars, tableVars, nl>>

\* A version of StartSetUp in which a failing start keeps the rings.
StartKeepsRings ==
    /\ work.pc = "checked"
    /\ work' = Idle
    /\ res' = [res EXCEPT ![work.q] = @ + 1]
    /\ UNCHANGED <<descq, intr, hw, devVars, tableVars, nl>>

\* ... and sets the queue up without it. A context that cannot be programmed
\* is cleared, and the rings are freed.
StartSetUp ==
    /\ work.pc = "checked"
    /\ \/ /\ work' = [pc |-> "set up", q |-> work.q]
          /\ res' = [res EXCEPT ![work.q] = @ + 1]
          /\ intr' = [intr EXCEPT ![work.q] = @ + 1]
          /\ hw' = hw \cup {work.q}
       \/ /\ "prog" \in MayFail
          /\ work' = Idle
          /\ hw' = hw \ {work.q}
          /\ UNCHANGED <<res, intr>>
    /\ UNCHANGED <<descq, devVars, tableVars, nl>>

StartOnline ==
    /\ work.pc = "set up"
    /\ work' = Idle
    /\ descq' = [descq EXCEPT ![work.q].q_state = "online"]
    /\ UNCHANGED <<res, intr, hw, devVars, tableVars, nl>>

\* xpdev_nl_queue_start goes on when the work is done, or on a signal.
StartReturns ==
    /\ nl.pc = "waiting" /\ (Patient => work.pc = "idle")
    /\ nl' = Idle
    /\ UNCHANGED <<qVars, devVars, tableVars, work>>

-----------------------------------------------------------------------------
(***************************************************************************)
(* Stopping and removing queues                                            *)
(***************************************************************************)
\* XNL_CMD_Q_STOP: qdma_queue_stop sets the state with the lock held ...
StopQueue(t, i) ==
    /\ nl.pc = "idle" /\ Configured(t, i)
    /\ descq[Stands(t, i)].q_state = "online"
    /\ descq' = [descq EXCEPT ![Stands(t, i)].q_state = "enabled"]
    /\ nl' = [pc |-> "stopping", q |-> Stands(t, i)]
    /\ UNCHANGED <<res, intr, hw, devVars, tableVars, work>>

\* ... and takes the queue down without it.
StopTakeDown ==
    /\ nl.pc = "stopping"
    /\ nl' = Idle
    /\ res' = [res EXCEPT ![nl.q] = Decremented(@, 1)]
    /\ intr' = [intr EXCEPT ![nl.q] = Decremented(@, 1)]
    /\ hw' = hw \ {nl.q}
    /\ UNCHANGED <<descq, devVars, tableVars, work>>

\* A version of DeleteQueue that leaves the entry of the table.
DeleteKeepsEntry(t, i) ==
    /\ nl.pc = "idle" /\ Configured(t, i)
    /\ t \in Dirs => qdata[<<t, i>>].xcdev # "none"
    /\ LET q == Stands(t, i) IN
        /\ descq[q].q_state = "enabled"
        /\ descq' = [descq EXCEPT ![q].q_state = "disabled"]
        /\ active' = [c \in Types |-> IF c \in CountedIn(q[1], descq[q].st)
                                       THEN Decremented(active[c], 1) ELSE active[c]]
    /\ dir_init' = [dir_init EXCEPT ![i] = @ \ {t}]
    /\ UNCHANGED <<res, intr, hw, qdata, qmax, ready, nl, work>>

\* XNL_CMD_Q_DEL: qdma_queue_remove of an enabled queue, then xpdev_queue_delete
\* takes its direction from the xcdev, and the xcdev goes with the last one.
DeleteQueue(t, i) ==
    /\ nl.pc = "idle" /\ Configured(t, i)
    /\ t \in Dirs => qdata[<<t, i>>].xcdev # "none"
    /\ LET q == Stands(t, i) IN
        /\ descq[q].q_state = "enabled"
        /\ descq' = [descq EXCEPT ![q].q_state = "disabled"]
        /\ active' = [c \in Types |-> IF c \in CountedIn(q[1], descq[q].st)
                                       THEN Decremented(active[c], 1) ELSE active[c]]
    /\ qdata' = [qdata EXCEPT ![<<t, i>>] = NoQdata]
    /\ dir_init' = [dir_init EXCEPT ![i] = @ \ {t}]
    /\ UNCHANGED <<res, intr, hw, qmax, ready, nl, work>>

\* A version of qdma_device_cleanup that forgets the completion rings of the
\* streaming queues it removes.
CleanupKeepsCmptCount ==
    /\ active' = [c \in Types |-> IF c = "CMPT" THEN active[c] ELSE
                    Decremented(active[c], Cardinality({i \in Idx : Present(c, i)}))]
    /\ descq' = [q \in Queues |-> Fresh] /\ ready' = FALSE
    /\ res' = [q \in Queues |-> 0] /\ intr' = [q \in Queues |-> 0] /\ hw' = {}

\* qdma_device_cleanup stops and removes the queues of both directions and frees
\* all of them; qdma_device_init makes new ones.
qdma_device_cleanup ==
    LET present(t) == {i \in Idx : Present(t, i)}
        counted(c) == IF c = "CMPT" THEN {i \in Idx : Streams("C2H", i)} ELSE present(c) IN
    /\ active' = [c \in Types |-> Decremented(active[c], Cardinality(counted(c)))]
    /\ descq' = [q \in Queues |-> Fresh] /\ ready' = FALSE
    /\ res' = [q \in Queues |-> IF q[1] = "CMPT" THEN res[q] ELSE 0]
    /\ intr' = [q \in Queues |-> IF q[1] = "CMPT" THEN intr[q] ELSE 0]
    /\ hw' = {q \in hw : q[1] = "CMPT"}

\* qdma_reset_prepare and qdma_reset_done, with nothing else going on:
\* xpdev_device_cleanup clears the table of both directions.
Reset ==
    /\ nl.pc = "idle" /\ work.pc = "idle"
    /\ Tidy => \A i \in Idx : ~Present("CMPT", i)
    /\ qdma_device_cleanup
    /\ qmax' = 0
    /\ qdata' = [q \in Queues |-> IF q[1] = "CMPT" THEN qdata[q] ELSE NoQdata]
    /\ dir_init' = [i \in Idx |-> {}]
    /\ UNCHANGED <<nl, work>>

\* qmax written in sysfs: qdma_set_qmax is refused while queues are counted;
\* xpdev_qdata_realloc makes a new table.
set_qmax ==
    /\ nl.pc = "idle" /\ work.pc = "idle"
    /\ \A t \in Types : active[t] = 0
    /\ qdma_device_cleanup
    /\ qmax' = QMax
    /\ qdata' = [q \in Queues |-> NoQdata]
    /\ UNCHANGED <<dir_init, nl, work>>

-----------------------------------------------------------------------------
Worker == StartCheck \/ StartSetUp \/ StartOnline

Next ==
    \/ \E t \in Types, st \in {"MM", "ST"} : AddQueue(t, st)
    \/ \E t \in Types, i \in Idx : StartQueue(t, i) \/ StopQueue(t, i) \/ DeleteQueue(t, i)
    \/ Worker \/ StartReturns \/ StopTakeDown \/ Reset \/ set_qmax

Spec == Init /\ [][Next]_vars

-----------------------------------------------------------------------------
(***************************************************************************)
(* Properties                                                              *)
(***************************************************************************)
\* The values stay in their sets: no counter of active queues passes qmax, and a
\* queue's rings and list entries are not given back more often than taken.
TypeOK ==
    /\ descq \in [Queues -> [q_state : {"disabled", "enabled", "online"}, st : {"MM", "ST"}]]
    /\ res \in [Queues -> Nat] /\ intr \in [Queues -> Nat] /\ hw \subseteq Queues
    /\ active \in [Types -> 0 .. QMax] /\ qmax \in {0, QMax} /\ ready \in BOOLEAN
    /\ qdata \in [Queues -> [qhndl : 0 .. 3 * QMax - 1, xcdev : {"none", "cdev"}]]
    /\ dir_init \in [Idx -> SUBSET Dirs]
    /\ nl \in [pc : {"idle", "waiting", "stopping", "oops"}, q : Queues]
    /\ work \in [pc : {"idle", "queued", "checked", "set up"}, q : Queues]

\* The queues at one index go together, whatever was added, removed and reset in
\* which order: both directions have one mode (is_usable_queue), and a completion
\* queue of its own is never beside a streaming queue, whose completion ring has
\* the same hardware queue.
PairsAgree ==
    \A i \in Idx :
        /\ Present("H2C", i) /\ Present("C2H", i)
              => descq[<<"H2C", i>>].st = descq[<<"C2H", i>>].st
        /\ Present("CMPT", i) => ~Streams("H2C", i) /\ ~Streams("C2H", i)

\* The active counters are the numbers of queues, with the completion rings of
\* streaming C2H queues: after a reset, qdma_dev_update sees none and qmax can be
\* set again.
CountsExact ==
    \A c \in Types : active[c] = Cardinality({q \in Queues :
        descq[q].q_state # "disabled" /\ c \in CountedIn(q[1], descq[q].st)})

\* Except while qdma_queue_start or qdma_queue_stop is at it, a queue has its
\* rings, its context and its place on the interrupt list when it is online, each
\* once, and none of them when it is not: after failed starts, stops, resets.
NothingLeaks ==
    nl.pc # "stopping" /\ work.pc # "set up" =>
        \A q \in Queues :
            LET up == IF descq[q].q_state = "online" THEN 1 ELSE 0 IN
            res[q] = up /\ intr[q] = up /\ (q \in hw <=> up = 1)

\* Every queue that is in use can be named in a command, and its character device
\* knows its direction (xpdev_queue_add, xpdev_queue_delete): it can be stopped
\* and deleted again.
QueueIsReachable ==
    \A q \in Queues : descq[q].q_state # "disabled" =>
        /\ Configured(q[1], q[2]) /\ Stands(q[1], q[2]) = q
        /\ q[1] \in Dirs => qdata[q].xcdev # "none" /\ q[1] \in dir_init[q[2]]

\* The handle that qdma_queue_add returns, which the driver keeps in its table,
\* stands for a queue that is in use, as long as it is in the table.
HandleIsLive ==
    \A t \in Types, i \in Idx :
        Configured(t, i) => descq[Stands(t, i)].q_state # "disabled"
=============================================================================
