------------------------------ MODULE QdmaC2h ------------------------------
(***************************************************************************)
(* A streaming C2H queue that is online (qdma_st_c2h.c): the ring of       *)
(* receive buffers, the completion ring, and what takes the packets away.  *)
(* That is either the requests of qdma_request_submit, to which received   *)
(* data is copied, or the handler fp_descq_c2h_packet, which keeps the     *)
(* buffers, so that the ring is filled from a list of pages.               *)
(*                                                                         *)
(* descq->lock is held while pc is not "idle"; a loop under the lock makes *)
(* one step per round. The device receives packets between any two steps.  *)
(* A packet is its length; the units of data are numbered as they arrive.  *)
(***************************************************************************)
EXTENDS Integers, Sequences, FiniteSets, FiniteSetsExt

CONSTANTS
    RngSz,      \* conf.rngsz
    RngSzCmpt,  \* conf.rngsz_cmpt
    BufSz,      \* conf.c2h_bufsz, in units of data
    PerPage,    \* buffers on a page: max_pg_offset / desc_buf_size
    Lens,       \* lengths of packets
    Reqs,       \* requests
    Count,      \* what each request asks for
    Timed,      \* requests whose wait may time out
    NoReq,
    Handler,    \* whether there is a fp_descq_c2h_packet: a set of BOOLEANs
    Refuses,    \* whether the handler may refuse a packet
    UddEn,      \* conf.cmpl_udd_en
    Faults,     \* whether the device may report an error
    AllocFails, \* whether there may be no new page
    Budgets,    \* budgets of qdma_queue_service; 0 is none
    MaxPkts     \* bound on the packets of a behaviour

ASSUME C2hAssumption ==
    /\ RngSz \in Nat \ {0, 1} /\ RngSzCmpt \in Nat \ {0, 1}
    /\ BufSz \in Nat \ {0} /\ PerPage \in Nat \ {0} /\ MaxPkts \in Nat
    /\ Lens \subseteq Nat /\ Count \in [Reqs -> Nat \ {0}] /\ Timed \subseteq Reqs
    /\ NoReq \notin Reqs
    /\ Handler \subseteq BOOLEAN /\ Budgets \subseteq Nat
    /\ {Refuses, UddEn, Faults, AllocFails} \subseteq BOOLEAN

VARIABLES
    uld,        \* whether conf.fp_descq_c2h_packet is set
    pidx,       \* descq->pidx: the buffer of the next packet
    pidx_pend,  \* flq->pidx_pend: the first buffer that is not read
    avail,      \* descq->avail
    cidx_cmpt, color, err,
    sdesc,      \* page, slot, what was read of it and length of each buffer
    pages, alloc_idx, recycle_idx,
    pend_list, left, caller,
    pidx_info, wrb_cidx,                \* what the device is told next
    pc, at, todo, from, proc, req,      \* the lock holder and its locals
    hw_pidx, hw_cidx, hw_cmpt_cidx,     \* what the device was told, and uses next
    cmpt, cs_pidx, hw_color,            \* the completion ring and its status
    mem, sent, pkts,                    \* buffers, data and packets so far
    held,       \* buffers the handler keeps
    rd, garbled, shifted    \* data read; whether any was wrong; whether a buffer
                            \* was reused that had been read in parts

drvVars == <<pidx, pidx_pend, avail, cidx_cmpt, color, err, sdesc>>
pageVars == <<pages, alloc_idx, recycle_idx>>
reqVars == <<pend_list, left, caller>>
lockVars == <<pc, at, todo, from, proc, req>>
toldVars == <<hw_pidx, hw_cmpt_cidx, pidx_info, wrb_cidx>>
hwVars == <<hw_cidx, cmpt, cs_pidx, hw_color, mem, sent, pkts>>
readVars == <<rd, garbled, shifted>>
vars == <<uld, drvVars, pageVars, reqVars, lockVars, toldVars, hwVars, held, readVars>>

-----------------------------------------------------------------------------
Ring == 0 .. RngSz - 1
CmptRing == 0 .. RngSzCmpt - 1

\* ring_idx_delta, ring_idx_incr, ring_idx_decr.
Delta(new, old, sz) == IF new >= old THEN new - old ELSE new + (sz - old)
Incr(i, n, sz) == IF i + n >= sz THEN i + n - sz ELSE i + n
Decr(i, n, sz) == IF i >= n THEN i - n ELSE sz - (n - i)

Next1(i) == Incr(i, 1, RngSz)

get_next_powof2(v) == CHOOSE n \in {2 ^ k : k \in 0 .. v} : v <= n /\ n < 2 * v

\* desc_buf_size: what a buffer takes of its page.
DescBufSz == get_next_powof2(BufSz)

ASSUME DescBufSzAssumption == DescBufSz \in Nat \ {0}

\* Mutant: the number of pages is not doubled.
NumPagesTight == get_next_powof2((RngSz + PerPage - 1) \div PerPage)

\* The number of pages: as many as the buffers need, rounded up and doubled.
NumPages ==
    LET n == get_next_powof2((RngSz + PerPage - 1) \div PerPage) IN
    IF n < RngSz THEN 2 * n ELSE n

\* get_fl_nr: the buffers of a packet, and what is in the last one. Lengths that
\* are a power of two are divided by desc_buf_size, the others by c2h_bufsz.
IsPowOf2(n) == n = 0 \/ \E k \in 0 .. n : n = 2 ^ k
get_fl_nr(len) ==
    IF len = 0 THEN 1
    ELSE IF IsPowOf2(len) THEN (len + DescBufSz - 1) \div DescBufSz
    ELSE (len + BufSz - 1) \div BufSz
\* Mutant: what the full buffers hold is not taken off.
LastLenWhole(len) == len
LastLen(len) ==
    LET l == IF IsPowOf2(len) THEN len % DescBufSz ELSE len % BufSz IN
    IF len > 0 /\ l = 0 THEN BufSz ELSE l

\* The buffers the device uses for a packet.
HwBufs(len) == IF len = 0 THEN 1 ELSE (len + BufSz - 1) \div BufSz

Buffer(page, slot) == [page |-> page, slot |-> slot, read |-> 0, len |-> BufSz]

\* qdma_queue_start: qdma_descq_config_complete, descq_flq_alloc_resource (which
\* fills the ring from the pages in order) and qdma_descq_prog_hw.
Init ==
    /\ uld \in Handler
    /\ pidx = 0 /\ pidx_pend = 0 /\ avail = RngSz - 1
    /\ cidx_cmpt = 0 /\ color = 1 /\ err = FALSE
    /\ sdesc = [i \in Ring |-> Buffer(i \div PerPage, i % PerPage)]
    /\ pages = [k \in 0 .. NumPages - 1 |->
                    [base |-> k, mapped |-> TRUE,
                     offset |-> IF (k + 1) * PerPage <= RngSz THEN PerPage
                                ELSE IF k * PerPage < RngSz THEN RngSz % PerPage ELSE 0]]
    /\ alloc_idx = RngSz \div PerPage /\ recycle_idx = 0
    /\ pend_list = <<>> /\ left = Count /\ caller = [r \in Reqs |-> "new"]
    /\ pc = "idle" /\ at = 0 /\ todo = 0 /\ from = 0 /\ proc = 0 /\ req = NoReq
    /\ pidx_info = RngSz - 1 /\ wrb_cidx = 0
    /\ hw_pidx = RngSz - 1 /\ hw_cidx = 0 /\ hw_cmpt_cidx = 0
    /\ cmpt = [i \in CmptRing |-> [len |-> 0, desc_used |-> FALSE, color |-> 0, err |-> FALSE]]
    /\ cs_pidx = 0 /\ hw_color = 1
    /\ mem = [i \in Ring |-> [j \in 1 .. BufSz |-> 0]] /\ sent = 0 /\ pkts = 0
    /\ held = {} /\ rd = 0 /\ garbled = FALSE /\ shifted = FALSE

-----------------------------------------------------------------------------
(***************************************************************************)
(* The device (external): it puts a packet into the next buffers that were *)
(* posted, and an entry on the completion ring.                            *)
(***************************************************************************)
HwEntry(len, used, bad) ==
    /\ pkts < MaxPkts /\ pkts' = pkts + 1
    /\ Incr(cs_pidx, 1, RngSzCmpt) # hw_cmpt_cidx
    /\ cmpt' = [cmpt EXCEPT ![cs_pidx] = [len |-> len, desc_used |-> used,
                                          color |-> hw_color, err |-> bad]]
    /\ cs_pidx' = Incr(cs_pidx, 1, RngSzCmpt)
    /\ hw_color' = IF cs_pidx + 1 = RngSzCmpt THEN 1 - hw_color ELSE hw_color
    /\ UNCHANGED <<uld, drvVars, pageVars, reqVars, lockVars, toldVars, held, readVars>>

HwPacket(len) ==
    /\ Delta(hw_pidx, hw_cidx, RngSz) >= HwBufs(len)
    /\ HwEntry(len, TRUE, FALSE)
    /\ hw_cidx' = Incr(hw_cidx, HwBufs(len), RngSz)
    /\ sent' = IF uld THEN sent ELSE sent + len
    /\ mem' = [i \in Ring |-> [j \in 1 .. BufSz |->
                LET n == Delta(i, hw_cidx, RngSz) * BufSz + j IN
                IF n <= len /\ ~uld THEN sent + n ELSE mem[i][j]]]

HwUdd == UddEn /\ HwEntry(0, FALSE, FALSE) /\ UNCHANGED <<hw_cidx, sent, mem>>
HwFault == Faults /\ HwEntry(0, TRUE, TRUE) /\ UNCHANGED <<hw_cidx, sent, mem>>

-----------------------------------------------------------------------------
(***************************************************************************)
(* Receiving: descq_process_completion_st_c2h                              *)
(***************************************************************************)
Unlock == pc' = "idle" /\ at' = 0 /\ todo' = 0 /\ from' = 0 /\ proc' = 0 /\ req' = NoReq

\* Mutant: the last entry is left for later.
ServiceButOne(budget) ==
    LET pend == Delta(cs_pidx, cidx_cmpt, RngSzCmpt) IN
    /\ pc = "idle" /\ ~err /\ pend > 0
    /\ pc' = "rcv" /\ at' = pidx /\ from' = pidx_pend /\ proc' = 0
    /\ todo' = pend - 1
    /\ UNCHANGED <<uld, drvVars, pageVars, reqVars, req, toldVars, hwVars, held, readVars>>

\* Mutant: packets are taken to begin where reading has got to.
ServiceUnread(budget) ==
    LET pend == Delta(cs_pidx, cidx_cmpt, RngSzCmpt) IN
    /\ pc = "idle" /\ ~err /\ pend > 0
    /\ pc' = "rcv" /\ at' = pidx_pend /\ from' = pidx_pend /\ proc' = 0
    /\ todo' = IF budget = 0 THEN pend ELSE Min({budget, pend})
    /\ UNCHANGED <<uld, drvVars, pageVars, reqVars, req, toldVars, hwVars, held, readVars>>

\* The interrupt work, the completion thread or qdma_queue_service gets the lock
\* and sees how many entries are new.
Service(budget) ==
    LET pend == Delta(cs_pidx, cidx_cmpt, RngSzCmpt) IN
    /\ pc = "idle" /\ ~err /\ pend > 0
    /\ pc' = "rcv" /\ at' = pidx /\ from' = pidx_pend /\ proc' = 0
    /\ todo' = IF budget = 0 THEN pend ELSE Min({budget, pend})
    /\ UNCHANGED <<uld, drvVars, pageVars, reqVars, req, toldVars, hwVars, held, readVars>>

Entry == cmpt[cidx_cmpt]
Faulty == Entry.err \/ (~Entry.desc_used /\ ~UddEn)

cmpt_next ==
    /\ cidx_cmpt' = Incr(cidx_cmpt, 1, RngSzCmpt)
    /\ color' = IF cidx_cmpt + 1 = RngSzCmpt THEN 1 - color ELSE color
    /\ proc' = proc + 1 /\ todo' = todo - 1

\* descq_cmpl_err_check: the queue is halted, and the packets of this round are
\* not accounted for.
RcvFault ==
    /\ pc = "rcv" /\ todo > 0 /\ Faulty
    /\ err' = TRUE
    /\ Unlock
    /\ UNCHANGED <<uld, pidx, pidx_pend, avail, cidx_cmpt, color, sdesc, pageVars, reqVars,
                   toldVars, hwVars, held, readVars>>

\* What the handler may say to a packet.
Accepts == IF uld /\ Refuses THEN BOOLEAN ELSE {TRUE}

\* A packet: is_new_cmpl_entry, then rcv_pkt. A packet that the handler refuses
\* is left for the next time.
RcvPkt ==
    LET nr == get_fl_nr(Entry.len)
        last == Incr(at, nr - 1, RngSz)
        bufs == {i \in Ring : Delta(i, at, RngSz) < nr} IN
    /\ pc = "rcv" /\ todo > 0 /\ ~Faulty /\ Entry.desc_used
    /\ sdesc' = IF Entry.color = color
                THEN [sdesc EXCEPT ![last].len = LastLen(Entry.len)] ELSE sdesc
    /\ IF Entry.color # color \/ avail < nr
       THEN todo' = 0 /\ UNCHANGED <<avail, pidx_pend, at, cidx_cmpt, color, proc, held>>
       ELSE /\ avail' = avail - nr
            /\ \E ok \in Accepts :
                IF ok
                THEN /\ cmpt_next /\ at' = Next1(last)
                     /\ pidx_pend' = IF uld THEN Next1(last) ELSE pidx_pend
                     /\ held' = IF uld THEN held \cup {<<sdesc[i].page, sdesc[i].slot>> : i \in bufs}
                                ELSE held
                ELSE todo' = 0 /\ UNCHANGED <<pidx_pend, at, cidx_cmpt, color, proc, held>>
    /\ UNCHANGED <<uld, pidx, err, pageVars, reqVars, pc, from, req, toldVars, hwVars, readVars>>

\* User-defined data alone: rcv_udd_only.
RcvUdd ==
    /\ pc = "rcv" /\ todo > 0 /\ ~Faulty /\ ~Entry.desc_used
    /\ \E ok \in Accepts :
        IF Entry.color = color /\ ok THEN cmpt_next
        ELSE todo' = 0 /\ UNCHANGED <<cidx_cmpt, color, proc>>
    /\ UNCHANGED <<uld, pidx, pidx_pend, avail, err, sdesc, pageVars, reqVars, pc, at, from, req,
                   toldVars, hwVars, held, readVars>>

\* The end of the loop: requests are served, or the ring is filled again.
RcvEnd ==
    /\ pc = "rcv" /\ todo = 0
    /\ IF proc = 0 THEN Unlock /\ UNCHANGED <<pidx, wrb_cidx, hw_cmpt_cidx>>
       ELSE /\ pidx' = at /\ wrb_cidx' = cidx_cmpt
            /\ hw_cmpt_cidx' = IF uld THEN hw_cmpt_cidx ELSE cidx_cmpt
            /\ IF uld /\ pidx_pend = from THEN Unlock
               ELSE /\ pc' = IF uld THEN "pages" ELSE "read"
                    /\ at' = IF uld THEN recycle_idx ELSE 0
                    /\ todo' = Delta(pidx_pend, from, RngSz)
                    /\ UNCHANGED <<from, proc, req>>
    /\ UNCHANGED <<uld, pidx_pend, avail, cidx_cmpt, color, err, sdesc, pageVars, reqVars,
                   hw_pidx, pidx_info, hwVars, held, readVars>>

-----------------------------------------------------------------------------
(***************************************************************************)
(* Copying to requests: descq_st_c2h_read                                  *)
(***************************************************************************)
\* What is left of the first unread buffer, or as much as request r wants.
Copy(r) ==
    LET d == sdesc[pidx_pend]
        n == Min({d.len, left[r]})
        Unit(k) == IF d.read + k <= BufSz THEN mem[pidx_pend][d.read + k] ELSE 0 IN
    /\ left' = [left EXCEPT ![r] = @ - n]
    /\ rd' = rd + n
    /\ garbled' = (garbled \/ \E k \in 1 .. n : Unit(k) # rd + k)

\* Whether that is all of the buffer.
Whole(r) == sdesc[pidx_pend].len <= left[r]

\* Mutant: the rest is thought to begin where the buffer does.
InPartsNoOffset(r) == [sdesc EXCEPT ![pidx_pend].len = @ - left[r]]
InParts(r) == [sdesc EXCEPT ![pidx_pend].read = @ + left[r], ![pidx_pend].len = @ - left[r]]

\* Mutant: counted once, however many there are.
RefilledOnce(n) == IF n > 0 THEN avail + 1 ELSE avail

\* What is available once n buffers are filled again (qdma_flq_refill).
Refilled(n) == avail + n

list_del(s, i) == SubSeq(s, 1, i - 1) \o SubSeq(s, i + 1, Len(s))

\* qdma_c2h_packets_proc_dflt: the first request gets what it still wants.
ReadPending ==
    LET r == Head(pend_list)
        ends == left[r] <= sdesc[pidx_pend].len IN
    /\ pc = "read" /\ pend_list # <<>> /\ pidx_pend # pidx
    /\ Copy(r)
    /\ pidx_pend' = IF Whole(r) THEN Next1(pidx_pend) ELSE pidx_pend
    /\ sdesc' = IF Whole(r) THEN sdesc ELSE InParts(r)
    /\ pend_list' = IF ends THEN Tail(pend_list) ELSE pend_list
    /\ caller' = IF ends THEN [caller EXCEPT ![r] = "done"] ELSE caller
    /\ UNCHANGED <<uld, pidx, avail, cidx_cmpt, color, err, pageVars, lockVars, toldVars, hwVars,
                   held, shifted>>

\* What was read is refilled, that is, made as long as it was (qdma_flq_refill with
\* recycle set); the device is told.
ReadEnd ==
    LET reused == {i \in Ring : Delta(i, from, RngSz) < Delta(pidx_pend, from, RngSz)} IN
    /\ pc = "read" /\ (pend_list = <<>> \/ pidx_pend = pidx)
    /\ sdesc' = [i \in Ring |-> IF i \in reused THEN [sdesc[i] EXCEPT !.len = BufSz] ELSE sdesc[i]]
    /\ shifted' = (shifted \/ \E i \in reused : sdesc[i].read > 0)
    /\ avail' = Refilled(Delta(pidx_pend, from, RngSz))
    /\ pidx_info' = IF pidx_pend = from THEN pidx_info ELSE Decr(pidx_pend, 1, RngSz)
    /\ hw_pidx' = IF pidx_pend = from THEN hw_pidx ELSE Decr(pidx_pend, 1, RngSz)
    /\ Unlock
    /\ UNCHANGED <<uld, pidx, pidx_pend, cidx_cmpt, color, err, pageVars, reqVars, wrb_cidx,
                   hw_cmpt_cidx, hwVars, held, rd, garbled>>

\* Mutant: only the next packet is looked for.
SubmitOnly(r) ==
    /\ pc = "idle" /\ ~uld /\ caller[r] = "new"
    /\ pend_list' = Append(pend_list, r)
    /\ caller' = [caller EXCEPT ![r] = "queued"]
    /\ UNCHANGED <<uld, drvVars, pageVars, left, lockVars, toldVars, hwVars, held, readVars>>

\* qdma_request_submit_st_c2h: a request is put on the list ...
Submit(r) ==
    /\ pc = "idle" /\ ~uld /\ caller[r] = "new"
    /\ pend_list' = Append(pend_list, r)
    /\ caller' = [caller EXCEPT ![r] = "queued"]
    /\ pc' = "copy" /\ req' = r /\ from' = pidx_pend
    /\ UNCHANGED <<uld, drvVars, pageVars, left, at, todo, proc, toldVars, hwVars, held, readVars>>

\* ... and gets what was received and not read; each buffer is refilled ...
SubmitCopy ==
    /\ pc = "copy" /\ left[req] > 0 /\ pidx_pend # pidx
    /\ Copy(req)
    /\ IF Whole(req)
       THEN /\ pidx_pend' = Next1(pidx_pend) /\ avail' = Refilled(1)
            /\ sdesc' = [sdesc EXCEPT ![pidx_pend].len = BufSz]
            /\ shifted' = (shifted \/ sdesc[pidx_pend].read > 0)
       ELSE sdesc' = InParts(req) /\ UNCHANGED <<pidx_pend, avail, shifted>>
    /\ UNCHANGED <<uld, pidx, cidx_cmpt, color, err, pageVars, pend_list, caller, lockVars, toldVars,
                   hwVars, held>>

\* ... and the device is told. A request that wants more waits.
SubmitEnd ==
    /\ pc = "copy" /\ (left[req] = 0 \/ pidx_pend = pidx)
    /\ pidx_info' = IF pidx_pend = from THEN pidx_info ELSE Decr(pidx_pend, 1, RngSz)
    /\ hw_pidx' = IF pidx_pend = from THEN hw_pidx ELSE Decr(pidx_pend, 1, RngSz)
    /\ IF left[req] = 0
       THEN /\ \E i \in DOMAIN pend_list :
                pend_list[i] = req /\ pend_list' = list_del(pend_list, i)
            /\ caller' = [caller EXCEPT ![req] = "done"]
       ELSE UNCHANGED <<pend_list, caller>>
    /\ Unlock
    /\ UNCHANGED <<uld, drvVars, pageVars, left, wrb_cidx, hw_cmpt_cidx, hwVars, held, readVars>>

\* qdma_request_wait_for_cmpl gives up on a request that is not done, that is, on
\* the list.
WaitTimeout(r) ==
    /\ pc = "idle" /\ r \in Timed
    /\ \E i \in DOMAIN pend_list : pend_list[i] = r /\ pend_list' = list_del(pend_list, i)
    /\ caller' = [caller EXCEPT ![r] = "failed"]
    /\ UNCHANGED <<uld, drvVars, pageVars, left, lockVars, toldVars, hwVars, held, readVars>>

-----------------------------------------------------------------------------
(***************************************************************************)
(* Filling the ring for the handler: qdma_flq_refill without recycle       *)
(***************************************************************************)
PageAt(i) == i % NumPages

\* The running page indices matter up to a multiple of the number of pages, and
\* when they are compared.
NextPage(i) == (i + 1) % (2 * NumPages)

\* flq_refill_pages: the buffers that were taken are taken off their pages ...
TakeOff ==
    LET k == PageAt(at)
        n == Min({pages[k].offset, todo}) IN
    /\ pc = "pages"
    /\ IF todo = 0 THEN pc' = "newpage" /\ UNCHANGED <<pages, at, todo>>
       ELSE /\ pages' = [pages EXCEPT ![k].offset = @ - n]
            /\ todo' = todo - n
            /\ at' = IF pages[k].offset = n THEN NextPage(at) ELSE at
            /\ UNCHANGED pc
    /\ UNCHANGED <<uld, drvVars, alloc_idx, recycle_idx, reqVars, from, proc, req, toldVars,
                   hwVars, held, readVars>>

\* Memory that is neither on the list of pages nor kept by the handler (external);
\* which does not matter, so that the page just given up is preferred.
FreeMemory(k) ==
    LET kept == {b[1] : b \in held}
        listed == {pages[l].base : l \in {l \in DOMAIN pages \ {k} : pages[l].mapped}} IN
    IF pages[k].base \notin kept \cup listed THEN pages[k].base
    ELSE Min((0 .. 2 * NumPages + RngSz) \ (kept \cup listed))

\* ... and pages that are empty are replaced, up to the one in use.
NewPage ==
    LET k == PageAt(recycle_idx)
        Go == pc' = "fill" /\ at' = from /\ todo' = Delta(pidx_pend, from, RngSz) IN
    /\ pc = "newpage"
    /\ IF pages[k].offset > 0 \/ recycle_idx = alloc_idx
       THEN Go /\ UNCHANGED <<pages, recycle_idx>>
       ELSE \E ok \in IF AllocFails THEN BOOLEAN ELSE {TRUE} :
            IF ok
            THEN /\ pages' = [pages EXCEPT ![k] =
                                [base |-> FreeMemory(k), mapped |-> TRUE, offset |-> 0]]
                 /\ recycle_idx' = NextPage(recycle_idx)
                 /\ UNCHANGED <<pc, at, todo>>
            ELSE /\ pages' = [pages EXCEPT ![k].mapped = FALSE]
                 /\ Go /\ UNCHANGED recycle_idx
    /\ UNCHANGED <<uld, drvVars, alloc_idx, reqVars, from, proc, req, toldVars, hwVars, held, readVars>>

\* flq_fill_one: the next buffer gets its place on the page in use.
Fill ==
    LET k == PageAt(alloc_idx)
        p == pages[k] IN
    /\ pc = "fill" /\ todo > 0
    /\ IF p.offset = PerPage
       THEN /\ sdesc' = [sdesc EXCEPT ![at].page = -1, ![at].slot = 0]
            /\ todo' = 0
            /\ UNCHANGED <<avail, pages, alloc_idx, at>>
       ELSE /\ sdesc' = [sdesc EXCEPT ![at] = Buffer(p.base, p.offset)]
            /\ pages' = [pages EXCEPT ![k].offset = @ + 1]
            /\ alloc_idx' = IF p.offset + 1 = PerPage THEN NextPage(alloc_idx) ELSE alloc_idx
            /\ avail' = Refilled(1) /\ todo' = todo - 1 /\ at' = Next1(at)
    /\ UNCHANGED <<uld, pidx, pidx_pend, cidx_cmpt, color, err, recycle_idx, reqVars, pc, from, proc,
                   req, toldVars, hwVars, held, readVars>>

\* The handler's owner is the one to tell the device: qdma_queue_update_pointers.
FillEnd ==
    /\ pc = "fill" /\ todo = 0
    /\ pidx_info' = Decr(pidx_pend, 1, RngSz)
    /\ Unlock
    /\ UNCHANGED <<uld, drvVars, pageVars, reqVars, hw_pidx, hw_cmpt_cidx, wrb_cidx, hwVars, held,
                   readVars>>

qdma_queue_update_pointers ==
    /\ pc = "idle" /\ uld
    /\ hw_pidx' = pidx_info /\ hw_cmpt_cidx' = wrb_cidx
    /\ UNCHANGED <<uld, drvVars, pageVars, reqVars, lockVars, pidx_info, wrb_cidx, hwVars, held,
                   readVars>>

\* The handler's owner is done with the buffers it keeps (external). It may give
\* them up at any time and one by one, but only a search for memory depends on it.
Release ==
    /\ pc = "newpage" /\ held # {}
    /\ held' = {}
    /\ UNCHANGED <<uld, drvVars, pageVars, reqVars, lockVars, toldVars, hwVars, readVars>>

-----------------------------------------------------------------------------
LockHolder ==
    RcvFault \/ RcvPkt \/ RcvUdd \/ RcvEnd \/ ReadPending \/ ReadEnd \/ SubmitCopy \/ SubmitEnd
        \/ TakeOff \/ NewPage \/ Fill \/ FillEnd

Next ==
    \/ \E len \in Lens : HwPacket(len)
    \/ HwUdd \/ HwFault
    \/ \E b \in Budgets : Service(b)
    \/ LockHolder
    \/ \E r \in Reqs : Submit(r) \/ WaitTimeout(r)
    \/ qdma_queue_update_pointers
    \/ Release

Spec == Init /\ [][Next]_vars

\* A lock holder goes on. The queue is served while a request waits for data (an
\* interrupt announces each entry, and qdma_thread_cmpl_status_pend has the thread
\* go round while pend_list is not empty), and a handler's queue by its owner, who
\* also tells the device where the ring is.
Fairness ==
    /\ WF_vars(LockHolder)
    /\ WF_vars((uld \/ pend_list # <<>>) /\ Service(0))
    /\ WF_vars(qdma_queue_update_pointers)

FairSpec == Spec /\ Fairness

-----------------------------------------------------------------------------
(***************************************************************************)
(* Properties                                                              *)
(***************************************************************************)
\* Every index stays on its ring and the count of available buffers between
\* nothing and all of the ring (ring_idx_incr, descq->avail).
TypeOK ==
    /\ {pidx, pidx_pend, pidx_info, hw_pidx, hw_cidx} \subseteq Ring
    /\ {cidx_cmpt, wrb_cidx, hw_cmpt_cidx, cs_pidx} \subseteq CmptRing
    /\ {color, hw_color} \subseteq 0 .. 1 /\ err \in BOOLEAN
    /\ avail \in 0 .. RngSz - 1
    /\ \A i \in Ring : sdesc[i].len \in 0 .. BufSz /\ sdesc[i].read \in 0 .. BufSz
    /\ \A k \in DOMAIN pages : pages[k].offset \in 0 .. PerPage
    /\ {alloc_idx, recycle_idx} \subseteq 0 .. 2 * NumPages - 1
    /\ \A r \in Reqs : left[r] \in 0 .. Count[r]
    /\ pc \in {"idle", "rcv", "read", "copy", "pages", "newpage", "fill"}

\* Between two holders of the lock, the buffers are those that are available and
\* those received and not yet read, but for one: descq->avail, pidx and pidx_pend,
\* which rcv_pkt, descq_st_c2h_read and qdma_flq_refill move one at a time, agree.
BuffersAccounted ==
    pc = "idle" /\ ~err => avail = RngSz - 1 - Delta(pidx, pidx_pend, RngSz)

\* A packet on the completion ring never needs more buffers than are available:
\* rcv_pkt would answer -EBUSY, and nothing would bring the buffers back.
PacketFits ==
    pc = "idle" /\ ~err /\ cs_pidx # cidx_cmpt /\ ~Faulty /\ Entry.desc_used =>
        get_fl_nr(Entry.len) <= avail

\* The requests together read every unit of data once and in the order in which
\* the device received it, whatever the packets, the requests and the way in which
\* both end within a buffer, until a buffer is reused that was read in parts.
DataInOrder == shifted \/ ~garbled

\* The same with no exception.
EveryUnitRight == ~garbled

\* No request waits while there is received data that nobody has read: the
\* submitter and descq_process_completion_st_c2h leave none behind.
NobodyWaitsOnData == pc = "idle" /\ pend_list # <<>> => pidx_pend = pidx

\* The buffers the device may write to.
Posted == {i \in Ring : Delta(i, hw_cidx, RngSz) < Delta(hw_pidx, hw_cidx, RngSz)}

\* The device never writes to memory that a handler keeps, that is not mapped, or
\* that is posted twice: a page is replaced before it is filled again.
BuffersApart ==
    uld => /\ \A i \in Posted :
                /\ <<sdesc[i].page, sdesc[i].slot>> \notin held
                /\ \E k \in DOMAIN pages : pages[k].mapped /\ pages[k].base = sdesc[i].page
           /\ \A i, j \in Posted : i # j =>
                <<sdesc[i].page, sdesc[i].slot>> # <<sdesc[j].page, sdesc[j].slot>>

\* Packets do not stay on the completion ring: while a request waits, or there is
\* a handler, they are received, unless the queue was halted.
PacketsAreReceived ==
    LET Waiting == ~err /\ cs_pidx # cidx_cmpt /\ (uld \/ pend_list # <<>>) IN
    Waiting ~> ~Waiting
=============================================================================
