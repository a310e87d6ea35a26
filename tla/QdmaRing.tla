------------------------------ MODULE QdmaRing ------------------------------
(***************************************************************************)
(* The descriptor ring of one memory-mapped or streaming H2C queue: the    *)
(* request lists and ring bookkeeping of qdma_descq.c, the callers that    *)
(* submit requests and wait (qdma_request_submit, batch submission), the   *)
(* completion thread or the interrupt worker, qdma_queue_stop and          *)
(* qdma_queue_start.  The device is external: it fetches descriptors up to *)
(* the producer index it was told and writes its consumer index back.      *)
(*                                                                         *)
(* descq->lock is held while pc # "idle"; pc is the place of its holder,   *)
(* so that the device may run between the steps of a critical section.     *)
(* The unit of data is what one descriptor moves.  proc_req_running is set *)
(* and cleared inside one critical section and is left out: it stays set   *)
(* only if the write of the producer index fails, which it cannot.         *)
(***************************************************************************)
EXTENDS Integers, Sequences

CONSTANTS
    Reqs,      \* the requests that are submitted, each once
    Size,      \* Size[r]: the descriptors that request r needs
    Sync,      \* requests without fp_done: the caller waits
    Timed,     \* requests of Sync with a timeout_ms
    Batch,     \* requests submitted by qdma_batch_request_submit
    RngSz,     \* conf.rngsz
    Mode,      \* qdma_drv_mode: "poll", "auto" or "direct" (interrupts)
    Stops,     \* whether qdma_queue_stop is called
    Expires,   \* whether the wait of a stop may time out
    MaxStarts, \* bound: how often the queue is started
    CountMod,  \* 2^32 in the code: the width of work_req_pend
    NoReq      \* no request

ASSUME RingAssumption ==
    /\ Size \in [Reqs -> Nat \ {0}]
    /\ Sync \subseteq Reqs
    /\ Timed \subseteq Sync
    /\ Batch \subseteq Reqs \ Sync
    /\ RngSz \in Nat \ {0, 1}
    /\ Mode \in {"poll", "auto", "direct"}
    /\ Stops \in BOOLEAN
    /\ Expires \in BOOLEAN
    /\ MaxStarts \in Nat \ {0}
    /\ CountMod \in Nat \ {0}
    /\ NoReq \notin Reqs

VARIABLES
    q_state,         \* "enabled" or "online"
    q_stop_wait,     \* a stop waits for the ring to drain
    pend_list_empty, \* what the stop waits for
    avail,           \* free descriptors
    pidx, cidx,      \* producer and consumer index of the driver
    credit,          \* completed descriptors not yet given to a request
    work_list,       \* requests with data left to be put on the ring
    pend_list,       \* requests that are on the ring with all their data
    work_req_pend,   \* the count kept of work_list
    offset,          \* cb->offset: data put on the ring so far
    desc_nr,         \* cb->desc_nr: descriptors not yet completed
    done, status,    \* cb->done and cb->status
    ring,            \* the request each descriptor belongs to
    hw_pidx,         \* producer index the device was told
    hw_cidx,         \* consumer index the device has written back
    moved,           \* data of each request the device has moved
    irq,             \* the interrupt work of the queue is scheduled
    worker,          \* the interrupt worker: "idle", "busy", "proc"
    pc,              \* place of the holder of descq->lock
    next,            \* where the holder goes after the completion loop
    written,         \* desc_written # 0
    caller,          \* "new", "queued", "waiting" or "returned"
    result,          \* what qdma_request_submit returned to the caller
    stop,            \* the place of qdma_queue_stop; "no" outside of it
    starts           \* number of starts so far

ringv == <<avail, pidx, cidx, credit, ring>>
lists == <<work_list, pend_list, work_req_pend, offset, desc_nr>>
cbs == <<done, status, pend_list_empty>>
device == <<hw_pidx, hw_cidx, moved>>
threads == <<irq, worker, caller, result>>
queue == <<q_state, q_stop_wait, stop, starts>>
holder == <<pc, next, written>>
vars == <<ringv, lists, cbs, device, threads, queue, holder>>

Slots == 0 .. RngSz - 1

\* ring_idx_delta: how far index a has to go to reach index b.
Dist(a, b) == IF a <= b THEN b - a ELSE b + (RngSz - a)

\* incr_pidx: index i moved on by n places.
Incr(i, n) == IF i + n >= RngSz THEN i + n - RngSz ELSE i + n

\* descq_poll_mm_n_h2c_cmpl_status: whether requests are completed in passing.
Polls == Mode \in {"poll", "auto"}

\* list_del: list l without its i-th entry.
ListDel(l, i) == SubSeq(l, 1, i - 1) \o SubSeq(l, i + 1, Len(l))

-----------------------------------------------------------------------------
\* The device: moves the data of the next descriptor and writes its index
\* back; except in polled mode an interrupt follows, whose handler schedules
\* the queue's work.
DeviceMoves ==
    /\ hw_cidx # hw_pidx
    /\ moved' = [moved EXCEPT ![ring[hw_cidx]] = @ + 1]
    /\ hw_cidx' = Incr(hw_cidx, 1)
    /\ irq' = (irq \/ Mode # "poll")
    /\ UNCHANGED <<ringv, lists, cbs, queue, holder, hw_pidx, worker, caller, result>>

-----------------------------------------------------------------------------
\* descq_mm_n_h2c_cmpl_status up to its loop: read the index the device has
\* written back and collect the credits.  The holder goes on at after.
ReadStatus(after) ==
    IF pidx = cidx \/ hw_cidx = cidx
    THEN /\ pc' = after
         /\ UNCHANGED <<cidx, avail, credit, next>>
    ELSE /\ cidx' = hw_cidx
         /\ avail' = avail + Dist(cidx, hw_cidx)
         /\ credit' = credit + Dist(cidx, hw_cidx)
         /\ pc' = "cmpl"
         /\ next' = after

\* Mutant of CompleteOne: a request that is not done yet takes its credits and
\* leaves them to the next round.
CompleteKeepsCredit ==
    /\ pc = "cmpl"
    /\ pend_list # <<>>
    /\ credit # 0
    /\ LET r == Head(pend_list)
       IN  IF credit >= desc_nr[r]
           THEN /\ credit' = credit - desc_nr[r]
                /\ pend_list' = Tail(pend_list)
                /\ done' = [done EXCEPT ![r] = TRUE]
                /\ status' = [status EXCEPT ![r] =
                                IF r \notin Sync /\ offset[r] # Size[r]
                                THEN "einval" ELSE "ok"]
                /\ pend_list_empty' = (avail = RngSz - 1)
                /\ UNCHANGED desc_nr
           ELSE /\ desc_nr' = [desc_nr EXCEPT ![r] = @ - credit]
                /\ UNCHANGED <<credit, pend_list, cbs>>
    /\ UNCHANGED <<avail, pidx, cidx, ring, work_list, work_req_pend, offset>>
    /\ UNCHANGED <<device, threads, queue, holder>>

\* One round of its loop: the first pending request is done
\* (qdma_sgt_req_done), or takes the credits there are.
CompleteOne ==
    /\ pc = "cmpl"
    /\ pend_list # <<>>
    /\ credit # 0
    /\ LET r == Head(pend_list)
       IN  IF credit >= desc_nr[r]
           THEN /\ credit' = credit - desc_nr[r]
                /\ pend_list' = Tail(pend_list)
                /\ done' = [done EXCEPT ![r] = TRUE]
                /\ status' = [status EXCEPT ![r] =
                                IF r \notin Sync /\ offset[r] # Size[r]
                                THEN "einval" ELSE "ok"]
                /\ pend_list_empty' = (avail = RngSz - 1)
                /\ UNCHANGED desc_nr
           ELSE /\ desc_nr' = [desc_nr EXCEPT ![r] = @ - credit]
                /\ credit' = 0
                /\ UNCHANGED <<pend_list, cbs>>
    /\ UNCHANGED <<avail, pidx, cidx, ring, work_list, work_req_pend, offset>>
    /\ UNCHANGED <<device, threads, queue, holder>>

\* The end of the loop.  The producer index is written again, which rearms
\* the interrupt: the device has it already.
CompleteEnd ==
    /\ pc = "cmpl"
    /\ pend_list = <<>> \/ credit = 0
    /\ pc' = next
    /\ UNCHANGED <<ringv, lists, cbs, device, threads, queue, next, written>>

-----------------------------------------------------------------------------
\* descq_mm_proc_request, descq_proc_st_h2c_request: the critical section is
\* entered; a stopping queue is only drained, and a queue that is not online
\* is left alone.
Enter ==
    /\ pc = "idle"
    /\ written' = FALSE
    /\ IF q_stop_wait THEN ReadStatus("idle")
       ELSE IF q_state # "online"
       THEN pc' = "idle" /\ UNCHANGED <<cidx, avail, credit, next>>
       ELSE IF Polls THEN ReadStatus("fill")
       ELSE pc' = "fill" /\ UNCHANGED <<cidx, avail, credit, next>>
    /\ UNCHANGED <<pidx, ring, lists, cbs, device, queue>>

\* Mutant of Fill: the number of free descriptors is not looked at.
FillTooMany ==
    /\ pc = "fill"
    /\ work_list # <<>>
    /\ LET r == Head(work_list)
           left == Size[r] - offset[r]
           n == IF left < RngSz THEN left ELSE RngSz - 1
       IN  /\ ring' = [i \in Slots |-> IF Dist(pidx, i) < n THEN r ELSE ring[i]]
           /\ pidx' = Incr(pidx, n)
           /\ avail' = IF n <= avail THEN avail - n ELSE 0
           /\ offset' = [offset EXCEPT ![r] = @ + n]
           /\ desc_nr' = [desc_nr EXCEPT ![r] = @ + n]
           /\ IF offset[r] + n >= Size[r]
              THEN /\ work_list' = Tail(work_list)
                   /\ work_req_pend' = (work_req_pend - 1) % CountMod
                   /\ pend_list' = Append(pend_list, r)
              ELSE UNCHANGED <<work_list, work_req_pend, pend_list>>
    /\ written' = TRUE
    /\ UNCHANGED <<cidx, credit, cbs, device, threads, queue, pc, next>>

\* The loop over work_list: as much of the first request as there are free
\* descriptors is put on the ring; qdma_update_request moves the request to
\* pend_list when all of it is there.
Fill ==
    /\ pc = "fill"
    /\ work_list # <<>>
    /\ avail # 0
    /\ LET r == Head(work_list)
           left == Size[r] - offset[r]
           n == IF left <= avail THEN left ELSE avail
       IN  /\ ring' = [i \in Slots |-> IF Dist(pidx, i) < n THEN r ELSE ring[i]]
           /\ pidx' = Incr(pidx, n)
           /\ avail' = avail - n
           /\ offset' = [offset EXCEPT ![r] = @ + n]
           /\ desc_nr' = [desc_nr EXCEPT ![r] = @ + n]
           /\ IF offset[r] + n >= Size[r]
              THEN /\ work_list' = Tail(work_list)
                   /\ work_req_pend' = (work_req_pend - 1) % CountMod
                   /\ pend_list' = Append(pend_list, r)
              ELSE UNCHANGED <<work_list, work_req_pend, pend_list>>
    /\ written' = TRUE
    /\ UNCHANGED <<cidx, credit, cbs, device, threads, queue, pc, next>>

\* No descriptor is free: with polling the device is asked once more.
FillFull ==
    /\ pc = "fill"
    /\ work_list # <<>>
    /\ avail = 0
    /\ IF Polls THEN ReadStatus("refill")
       ELSE pc' = "notify" /\ UNCHANGED <<cidx, avail, credit, next>>
    /\ UNCHANGED <<pidx, ring, lists, cbs, device, threads, queue, written>>

Refill ==
    /\ pc = "refill"
    /\ pc' = IF avail = 0 THEN "notify" ELSE "fill"
    /\ UNCHANGED <<ringv, lists, cbs, device, threads, queue, next, written>>

FillEnd ==
    /\ pc = "fill"
    /\ work_list = <<>>
    /\ pc' = "notify"
    /\ UNCHANGED <<ringv, lists, cbs, device, threads, queue, next, written>>

\* The device is told the new producer index when anything was written.
Notify ==
    /\ pc = "notify"
    /\ IF written
       THEN /\ pend_list_empty' = FALSE
            /\ hw_pidx' = pidx
            /\ pc' = IF Polls THEN "repoll" ELSE "idle"
       ELSE /\ pc' = "idle"
            /\ UNCHANGED <<pend_list_empty, hw_pidx>>
    /\ UNCHANGED <<ringv, lists, done, status, hw_cidx, moved, threads, queue>>
    /\ UNCHANGED <<next, written>>

Repoll ==
    /\ pc = "repoll"
    /\ ReadStatus("idle")
    /\ UNCHANGED <<pidx, ring, lists, cbs, device, threads, queue, written>>

-----------------------------------------------------------------------------
\* Who enters the critical section: the completion thread of polled mode, the
\* interrupt worker, and a caller that has queued its request.  The thread
\* sleeps while both lists of all its queues are empty, but then may run for
\* another queue; entering a queue with empty lists and an idle ring, or one
\* that is not online, would change nothing.
PollThread ==
    /\ Mode = "poll"
    /\ pend_list # <<>> \/ work_list # <<>> \/ pidx # cidx
    /\ q_state = "online"
    /\ Enter
    /\ UNCHANGED threads

\* The ring is freed: between a stop and the next start.
Freed == q_state = "enabled" /\ stop = "no"

\* intr_work: qdma_descq_service_cmpl_update.  Nothing keeps it from running
\* after a stop; if descriptors are outstanding then, it reads the index
\* through the NULL pointer that a freed ring leaves, and dies with the lock.
ServiceInterrupt ==
    /\ pc = "idle"
    /\ irq
    /\ worker = "idle"
    /\ irq' = FALSE
    /\ worker' = IF Polls THEN "proc" ELSE "busy"
    /\ IF Polls THEN UNCHANGED <<cidx, avail, credit, pc, next>>
       ELSE IF Freed /\ pidx # cidx
       THEN pc' = "oops" /\ UNCHANGED <<cidx, avail, credit, next>>
       ELSE ReadStatus("serviced")
    /\ UNCHANGED <<pidx, ring, lists, cbs, device, caller, result, queue, written>>

\* It goes on to the requests that wait when work_req_pend says there are any.
Serviced ==
    /\ pc = "serviced"
    /\ pc' = "idle"
    /\ worker' = IF work_req_pend # 0 THEN "proc" ELSE "idle"
    /\ UNCHANGED <<ringv, lists, cbs, device, irq, caller, result, queue, next, written>>

WorkerProcess ==
    /\ worker = "proc"
    /\ Enter
    /\ worker' = "idle"
    /\ UNCHANGED <<irq, caller, result>>

\* Mutant of Submit: every request is added as the batch submission does.
SubmitUncounted(r) ==
    /\ caller[r] = "new"
    /\ pc = "idle"
    /\ IF q_state # "online"
       THEN /\ caller' = [caller EXCEPT ![r] = "returned"]
            /\ result' = [result EXCEPT ![r] = "einval"]
            /\ UNCHANGED <<work_list, work_req_pend>>
       ELSE /\ caller' = [caller EXCEPT ![r] = "queued"]
            /\ work_list' = Append(work_list, r)
            /\ work_req_pend' = work_req_pend
            /\ UNCHANGED result
    /\ UNCHANGED <<ringv, pend_list, offset, desc_nr, cbs, device, irq, worker>>
    /\ UNCHANGED <<queue, holder>>

\* qdma_request_submit and qdma_batch_request_submit up to the unlock.
Submit(r) ==
    /\ caller[r] = "new"
    /\ pc = "idle"
    /\ IF q_state # "online"
       THEN /\ caller' = [caller EXCEPT ![r] = "returned"]
            /\ result' = [result EXCEPT ![r] = "einval"]
            /\ UNCHANGED <<work_list, work_req_pend>>
       ELSE /\ caller' = [caller EXCEPT ![r] = "queued"]
            /\ work_list' = Append(work_list, r)
            /\ work_req_pend' = IF r \in Batch THEN work_req_pend
                                ELSE (work_req_pend + 1) % CountMod
            /\ UNCHANGED result
    /\ UNCHANGED <<ringv, pend_list, offset, desc_nr, cbs, device, irq, worker>>
    /\ UNCHANGED <<queue, holder>>

\* The caller processes the list; then it waits, or is done when the request
\* has an fp_done.
CallerProcess(r) ==
    /\ caller[r] = "queued"
    /\ Enter
    /\ caller' = [caller EXCEPT ![r] = IF r \in Sync THEN "waiting" ELSE "returned"]
    /\ result' = [result EXCEPT ![r] = IF r \in Sync THEN @ ELSE "queued"]
    /\ UNCHANGED <<irq, worker>>

\* qdma_request_wait_for_cmpl: the request is done, or its time is up and it
\* is taken off the list it is on.
WaitDone(r) ==
    /\ caller[r] = "waiting"
    /\ pc = "idle"
    /\ done[r]
    /\ caller' = [caller EXCEPT ![r] = "returned"]
    /\ result' = [result EXCEPT ![r] = IF status[r] = "ok" THEN "bytes" ELSE "eio"]
    /\ UNCHANGED <<ringv, lists, cbs, device, irq, worker, queue, holder>>

WaitTimeout(r) ==
    /\ caller[r] = "waiting"
    /\ r \in Timed
    /\ pc = "idle"
    /\ ~ done[r]
    /\ \/ /\ \E i \in DOMAIN work_list : work_list[i] = r /\ work_list' = ListDel(work_list, i)
          /\ UNCHANGED pend_list
       \/ /\ \E i \in DOMAIN pend_list : pend_list[i] = r /\ pend_list' = ListDel(pend_list, i)
          /\ UNCHANGED work_list
    /\ caller' = [caller EXCEPT ![r] = "returned"]
    /\ result' = [result EXCEPT ![r] = "eio"]
    /\ UNCHANGED <<ringv, work_req_pend, offset, desc_nr, cbs, device, irq, worker>>
    /\ UNCHANGED <<queue, holder>>

-----------------------------------------------------------------------------
\* Mutant of Stop: no wait for the ring to drain.
StopAtOnce ==
    /\ stop = "no"
    /\ pc = "idle"
    /\ q_state = "online"
    /\ q_stop_wait' = TRUE
    /\ stop' = "finish"
    /\ UNCHANGED <<ringv, lists, cbs, device, threads, holder, q_state, starts>>

\* qdma_queue_stop.  It waits until pend_list_empty, or for
\* QDMA_Q_PEND_LIST_COMPLETION_TIMEOUT.
Stop ==
    /\ stop = "no"
    /\ pc = "idle"
    /\ q_state = "online"
    /\ q_stop_wait' = TRUE
    /\ stop' = IF pend_list_empty THEN "finish" ELSE "wait"
    /\ UNCHANGED <<ringv, lists, cbs, device, threads, holder, q_state, starts>>

StopWaited ==
    /\ stop = "wait"
    /\ pend_list_empty \/ Expires
    /\ stop' = "finish"
    /\ UNCHANGED <<ringv, lists, cbs, device, threads, holder, q_state, q_stop_wait, starts>>

\* The queue is taken offline, and all requests that are left fail: first
\* those of pend_list, then those of work_list.  The ones with an fp_done leave
\* the lists, the others stay there.
StopFinish ==
    /\ stop = "finish"
    /\ pc = "idle"
    /\ stop' = "fail"
    /\ pc' = "fail"
    /\ q_state' = "enabled"
    /\ q_stop_wait' = FALSE
    /\ UNCHANGED <<ringv, lists, cbs, device, threads, next, written, starts>>

Undone(l) == {i \in DOMAIN l : ~ done[l[i]]}

Fail(r) ==
    /\ done' = [done EXCEPT ![r] = TRUE]
    /\ status' = [status EXCEPT ![r] = "enxio"]
    /\ UNCHANGED pend_list_empty

StopFailPend ==
    /\ pc = "fail"
    /\ \E i \in Undone(pend_list) :
          /\ \A j \in Undone(pend_list) : i <= j
          /\ Fail(pend_list[i])
          /\ pend_list' = IF pend_list[i] \in Sync THEN pend_list ELSE ListDel(pend_list, i)
    /\ UNCHANGED <<ringv, work_list, work_req_pend, offset, desc_nr>>
    /\ UNCHANGED <<device, threads, queue, holder>>

StopFailWork ==
    /\ pc = "fail"
    /\ Undone(pend_list) = {}
    /\ \E i \in Undone(work_list) :
          /\ \A j \in Undone(work_list) : i <= j
          /\ Fail(work_list[i])
          /\ IF work_list[i] \in Sync
             THEN UNCHANGED <<work_list, work_req_pend>>
             ELSE /\ work_list' = ListDel(work_list, i)
                  /\ work_req_pend' = (work_req_pend - 1) % CountMod
    /\ UNCHANGED <<ringv, pend_list, offset, desc_nr, device, threads, queue, holder>>

StopFailed ==
    /\ pc = "fail"
    /\ Undone(pend_list) = {}
    /\ Undone(work_list) = {}
    /\ pc' = "idle"
    /\ stop' = "clean"
    /\ UNCHANGED <<ringv, lists, cbs, device, threads, next, written>>
    /\ UNCHANGED <<q_state, q_stop_wait, starts>>

\* The thread lets go of the queue, its context is cleared and the ring freed:
\* the device fetches no more descriptors.
StopClean ==
    /\ stop = "clean"
    /\ stop' = "no"
    /\ hw_pidx' = hw_cidx
    /\ ring' = [i \in Slots |-> NoReq]
    /\ UNCHANGED <<avail, pidx, cidx, credit, lists, cbs, hw_cidx, moved, threads, holder>>
    /\ UNCHANGED <<q_state, q_stop_wait, starts>>

\* Mutant of Start: all descriptors are free.
StartFullRing ==
    /\ stop = "no"
    /\ q_state = "enabled"
    /\ pc = "idle"
    /\ starts < MaxStarts
    /\ starts' = starts + 1
    /\ \E ok \in BOOLEAN : q_state' = IF ok THEN "online" ELSE "enabled"
    /\ avail' = RngSz
    /\ pend_list_empty' = TRUE
    /\ pidx' = 0 /\ cidx' = 0 /\ credit' = 0 /\ work_req_pend' = 0
    /\ hw_pidx' = 0 /\ hw_cidx' = 0
    /\ UNCHANGED <<ring, work_list, pend_list, offset, desc_nr, done, status, moved>>
    /\ UNCHANGED <<threads, holder, q_stop_wait, stop>>

\* qdma_queue_start: qdma_descq_config_complete, a new ring, a new context;
\* one of the last two may fail (ok is FALSE).  The queue is not online until
\* the end, so that its lists and indices are left alone meanwhile.
Start ==
    /\ stop = "no"
    /\ q_state = "enabled"
    /\ pc = "idle"
    /\ starts < MaxStarts
    /\ starts' = starts + 1
    /\ \E ok \in BOOLEAN : q_state' = IF ok THEN "online" ELSE "enabled"
    /\ avail' = RngSz - 1
    /\ pend_list_empty' = TRUE
    /\ pidx' = 0 /\ cidx' = 0 /\ credit' = 0 /\ work_req_pend' = 0
    /\ hw_pidx' = 0 /\ hw_cidx' = 0
    /\ UNCHANGED <<ring, work_list, pend_list, offset, desc_nr, done, status, moved>>
    /\ UNCHANGED <<threads, holder, q_stop_wait, stop>>

Init ==
    /\ q_state = "enabled" /\ q_stop_wait = FALSE /\ pend_list_empty = FALSE
    /\ avail = 0 /\ pidx = 0 /\ cidx = 0 /\ credit = 0
    /\ work_list = <<>> /\ pend_list = <<>> /\ work_req_pend = 0
    /\ offset = [r \in Reqs |-> 0] /\ desc_nr = [r \in Reqs |-> 0]
    /\ done = [r \in Reqs |-> FALSE] /\ status = [r \in Reqs |-> "ok"]
    /\ ring = [i \in Slots |-> NoReq]
    /\ hw_pidx = 0 /\ hw_cidx = 0 /\ moved = [r \in Reqs |-> 0]
    /\ irq = FALSE /\ worker = "idle"
    /\ pc = "idle" /\ next = "idle" /\ written = FALSE
    /\ caller = [r \in Reqs |-> "new"] /\ result = [r \in Reqs |-> "none"]
    /\ stop = "no" /\ starts = 0

\* The steps of the holder of descq->lock.
HolderStep ==
    \/ CompleteOne \/ CompleteEnd \/ Fill \/ FillFull \/ Refill \/ FillEnd
    \/ Notify \/ Repoll \/ Serviced \/ StopFailPend \/ StopFailWork \/ StopFailed

\* The steps of the driver's own threads, and of a caller that is in a call.
ThreadStep == PollThread \/ ServiceInterrupt \/ WorkerProcess
CallerStep(r) == CallerProcess(r) \/ WaitDone(r)
StopStep == StopWaited \/ StopFinish \/ StopClean

Next ==
    \/ DeviceMoves
    \/ HolderStep
    \/ ThreadStep
    \/ \E r \in Reqs : Submit(r) \/ CallerStep(r) \/ WaitTimeout(r)
    \/ Stops /\ Stop
    \/ StopStep
    \/ Start

\* The device makes progress; a lock holder runs on; descq->lock is a fair
\* spinlock, so a thread that keeps asking for it gets it; the wait of a stop
\* ends at the latest with its timeout.
Fairness ==
    /\ WF_vars(DeviceMoves)
    /\ WF_vars(HolderStep)
    /\ SF_vars(pend_list \o work_list # <<>> /\ PollThread)
    /\ SF_vars(ServiceInterrupt)
    /\ SF_vars(WorkerProcess)
    /\ \A r \in Reqs : SF_vars(CallerStep(r))
    /\ SF_vars(StopStep)

Spec == Init /\ [][Next]_vars /\ Fairness

-----------------------------------------------------------------------------
\* The types of the queue's state: indices stay on the ring, and avail within
\* what the ring can hold.
TypeOK ==
    /\ q_state \in {"enabled", "online"}
    /\ q_stop_wait \in BOOLEAN /\ pend_list_empty \in BOOLEAN
    /\ avail \in 0 .. RngSz - 1
    /\ pidx \in Slots /\ cidx \in Slots
    /\ credit \in Nat
    /\ work_list \in Seq(Reqs) /\ pend_list \in Seq(Reqs)
    /\ work_req_pend \in 0 .. CountMod - 1
    /\ offset \in [Reqs -> Nat] /\ desc_nr \in [Reqs -> Nat]
    /\ done \in [Reqs -> BOOLEAN]
    /\ status \in [Reqs -> {"ok", "einval", "enxio"}]
    /\ ring \in [Slots -> Reqs \union {NoReq}]
    /\ hw_pidx \in Slots /\ hw_cidx \in Slots
    /\ moved \in [Reqs -> Nat]
    /\ irq \in BOOLEAN /\ worker \in {"idle", "busy", "proc"}
    /\ pc \in {"idle", "cmpl", "fill", "refill", "notify", "repoll", "serviced", "fail", "oops"}
    /\ next \in {"idle", "fill", "refill", "serviced"}
    /\ written \in BOOLEAN
    /\ caller \in [Reqs -> {"new", "queued", "waiting", "returned"}]
    /\ result \in [Reqs -> {"none", "einval", "queued", "bytes", "eio"}]
    /\ stop \in {"no", "wait", "finish", "fail", "clean"}
    /\ starts \in 0 .. MaxStarts

\* The descriptors the device has been told of and has not fetched yet.
ToFetch == {i \in Slots : Dist(hw_cidx, i) < Dist(hw_cidx, hw_pidx)}

\* The ring's counters agree with its indices, and the device's indices are
\* between the driver's: the free descriptors and those between the consumer
\* and the producer index are all but one of the ring.  (The comment at
\* "we can never use the full ring" in qdma_descq_config_complete.)
RingAccounting ==
    q_state = "online" =>
        /\ avail + Dist(cidx, pidx) = RngSz - 1
        /\ Dist(cidx, hw_cidx) + Dist(hw_cidx, hw_pidx) + Dist(hw_pidx, pidx)
              = Dist(cidx, pidx)

\* The pages of a request are mapped until it is done, or its caller gives up.
Mapped(r) == ~ done[r] /\ (r \in Sync => caller[r] # "returned")

\* The device only fetches descriptors of requests whose pages are mapped: a
\* request is completed, and its pages unmapped (qdma_sgt_req_done), only after
\* the device is through with the last of its descriptors, however the credits
\* of several requests and of partly submitted ones are lumped together.
FetchesMappedPages == \A i \in ToFetch : ring[i] \in Reqs /\ Mapped(ring[i])

\* qdma_request_submit returns the # of bytes transferred: when it reports the
\* bytes of a request, the device has moved all of them.
BytesReportedAreMoved == \A r \in Reqs : result[r] = "bytes" => moved[r] = Size[r]

\* A descriptor that the device may still fetch is not overwritten by the
\* descriptors of other requests (descq_mm_proc_request,
\* descq_proc_st_h2c_request); only a stop takes the ring away.
DescriptorsKept == [][stop # "clean" => \A i \in ToFetch : ring'[i] = ring[i]]_vars

\* A request that was queued ends, whether the queue goes on or is stopped: the
\* caller that waits gets an answer, and the fp_done of one that does not wait
\* is called (qdma_request_submit, qdma_queue_stop).  The one exception is
\* interrupt work that runs into the freed ring, see FreedRingNotRead.
RequestsEnd ==
    \A r \in Reqs :
        caller[r] = "queued" ~> (done[r] /\ caller[r] = "returned") \/ pc = "oops"

\* The ring is not read after qdma_queue_stop has removed the work of the queue
\* and freed its resources.  This one is refuted: see RingFreed.cfg.
FreedRingNotRead == pc # "oops"
=============================================================================
