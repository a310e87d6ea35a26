--------------------------- MODULE QdmaRingProofs ---------------------------
(***************************************************************************)
(* The bookkeeping of the descriptor ring, proved for every ring size, any *)
(* requests and any mode: the counters agree with the indices, and no      *)
(* descriptor is overwritten before the device has fetched it.             *)
(***************************************************************************)
EXTENDS QdmaRing, SequenceTheorems, TLAPS

\* The indices of driver and device lie around the ring in this order.
InOrder(c, hc, hp, p) == Dist(c, hc) + Dist(hc, hp) + Dist(hp, p) = Dist(c, p)

\* A ring that is in use: the queue is online, or its stop has not freed it yet.
InUse == q_state = "online" \/ stop \in {"fail", "clean"}

\* Where the holder of the lock can be, and the queue's state there.
Places ==
    /\ pc \in {"fill", "refill", "notify", "repoll"} => q_state = "online"
    /\ pc = "cmpl" /\ next \in {"fill", "refill"} => q_state = "online"
    /\ q_stop_wait => q_state = "online"
    /\ stop \in {"wait", "finish"} => q_state = "online"
    /\ stop \in {"fail", "clean"} => q_state = "enabled"
    /\ pc = "fail" <=> stop = "fail"

\* No more than all of a request is put on the ring.
OffsetFits == \A r \in Reqs : offset[r] <= Size[r]

\* The inductive invariant.
RingInv ==
    /\ TypeOK
    /\ Places
    /\ OffsetFits
    /\ InUse => /\ avail + Dist(cidx, pidx) = RngSz - 1
                /\ InOrder(cidx, hw_cidx, hw_pidx, pidx)

-----------------------------------------------------------------------------
\* Arithmetic of the ring indices.

\* ring_idx_delta is less than the ring size.
LEMMA DistType ==
    ASSUME NEW a \in Slots, NEW b \in Slots
    PROVE  Dist(a, b) \in 0 .. RngSz - 1 /\ Dist(a, a) = 0 /\ (Dist(a, b) = 0 => a = b)
BY RingAssumption DEF Slots, Dist, RingAssumption

\* incr_pidx stays on the ring.
LEMMA IncrType ==
    ASSUME NEW a \in Slots, NEW n \in 0 .. RngSz - 1
    PROVE  Incr(a, n) \in Slots
BY RingAssumption DEF Slots, Incr, RingAssumption

\* The consumer index catches up with the one the device has written back.
LEMMA Consumed ==
    ASSUME NEW c \in Slots, NEW hc \in Slots, NEW hp \in Slots, NEW p \in Slots,
           InOrder(c, hc, hp, p)
    PROVE  /\ InOrder(hc, hc, hp, p)
           /\ Dist(c, hc) + Dist(hc, p) = Dist(c, p)
BY RingAssumption DEF Slots, Dist, InOrder, RingAssumption

\* The device moves on by one descriptor.
LEMMA DeviceMoved ==
    ASSUME NEW c \in Slots, NEW hc \in Slots, NEW hp \in Slots, NEW p \in Slots,
           InOrder(c, hc, hp, p), hc # hp
    PROVE  InOrder(c, Incr(hc, 1), hp, p)
BY RingAssumption DEF Slots, Dist, Incr, InOrder, RingAssumption

\* Descriptors are added at the producer index.
LEMMA Produced ==
    ASSUME NEW c \in Slots, NEW hc \in Slots, NEW hp \in Slots, NEW p \in Slots,
           NEW n \in 0 .. RngSz - 1,
           InOrder(c, hc, hp, p), Dist(c, p) + n <= RngSz - 1
    PROVE  /\ InOrder(c, hc, hp, Incr(p, n))
           /\ Dist(c, Incr(p, n)) = Dist(c, p) + n
BY RingAssumption DEF Slots, Dist, Incr, InOrder, RingAssumption

\* The device is told the producer index.
LEMMA Told ==
    ASSUME NEW c \in Slots, NEW hc \in Slots, NEW hp \in Slots, NEW p \in Slots,
           InOrder(c, hc, hp, p)
    PROVE  InOrder(c, hc, p, p)
BY RingAssumption DEF Slots, Dist, InOrder, RingAssumption

\* The descriptors that are added are none of those the device may fetch.
LEMMA Disjoint ==
    ASSUME NEW c \in Slots, NEW hc \in Slots, NEW hp \in Slots, NEW p \in Slots,
           NEW n \in 0 .. RngSz - 1, NEW i \in Slots,
           InOrder(c, hc, hp, p), Dist(c, p) + n <= RngSz - 1,
           Dist(hc, i) < Dist(hc, hp)
    PROVE  ~ (Dist(p, i) < n)
BY RingAssumption DEF Slots, Dist, InOrder, RingAssumption

\* The counter of work_list wraps around.
LEMMA CountType ==
    ASSUME NEW a \in Int
    PROVE  a % CountMod \in 0 .. CountMod - 1
BY RingAssumption DEF RingAssumption

\* list_del of an entry leaves a list of requests.
LEMMA ListDelType ==
    ASSUME NEW l \in Seq(Reqs), NEW i \in DOMAIN l
    PROVE  ListDel(l, i) \in Seq(Reqs)
<1>1. SubSeq(l, 1, i - 1) \in Seq(Reqs)
  BY SubSeqProperties
<1>2. SubSeq(l, i + 1, Len(l)) \in Seq(Reqs)
  BY SubSeqProperties
<1> QED
  BY <1>1, <1>2, ConcatProperties DEF ListDel

-----------------------------------------------------------------------------
\* Reading the index that the device has written back keeps the counters and
\* the indices of a ring in use in step (descq_mm_n_h2c_cmpl_status).
LEMMA ReadStatusKeeps ==
    ASSUME RingInv, NEW after \in {"idle", "fill", "refill", "serviced"},
           ReadStatus(after), InUse \/ pidx = cidx
    PROVE  /\ avail' \in 0 .. RngSz - 1 /\ cidx' \in Slots /\ credit' \in Nat
           /\ pc' \in {"cmpl", after} /\ next' \in {next, after}
           /\ pc' = "cmpl" => next' = after
           /\ InUse => /\ avail' + Dist(cidx', pidx) = RngSz - 1
                       /\ InOrder(cidx', hw_cidx, hw_pidx, pidx)
<1>1. /\ cidx \in Slots /\ pidx \in Slots /\ hw_cidx \in Slots /\ hw_pidx \in Slots
      /\ avail \in 0 .. RngSz - 1 /\ credit \in Nat
  BY DEF RingInv, TypeOK
<1>2. CASE pidx = cidx \/ hw_cidx = cidx
  <2>1. pc' = after /\ UNCHANGED <<cidx, avail, credit, next>>
    BY <1>2 DEF ReadStatus
  <2> QED
    BY <1>1, <2>1 DEF RingInv
<1>3. CASE ~ (pidx = cidx \/ hw_cidx = cidx)
  <2>1. /\ cidx' = hw_cidx
        /\ avail' = avail + Dist(cidx, hw_cidx)
        /\ credit' = credit + Dist(cidx, hw_cidx)
        /\ pc' = "cmpl" /\ next' = after
    BY <1>3 DEF ReadStatus
  <2>2. avail + Dist(cidx, pidx) = RngSz - 1 /\ InOrder(cidx, hw_cidx, hw_pidx, pidx)
    BY <1>3 DEF RingInv
  <2>3. /\ InOrder(hw_cidx, hw_cidx, hw_pidx, pidx)
        /\ Dist(cidx, hw_cidx) + Dist(hw_cidx, pidx) = Dist(cidx, pidx)
    BY <1>1, <2>2, Consumed
  <2>4. Dist(cidx, hw_cidx) \in 0 .. RngSz - 1 /\ Dist(hw_cidx, pidx) \in 0 .. RngSz - 1
    BY <1>1, DistType
  <2> QED
    BY <1>1, <2>1, <2>2, <2>3, <2>4, RingAssumption DEF RingAssumption
<1> QED
  BY <1>2, <1>3

\* Initially, and in every state that is reached, the invariant holds.
LEMMA InitHolds == Init => RingInv
<1> SUFFICES ASSUME Init PROVE RingInv
  OBVIOUS
<1>1. TypeOK
  <2>1. /\ done \in [Reqs -> BOOLEAN] /\ q_stop_wait \in BOOLEAN /\ pend_list_empty \in BOOLEAN
        /\ irq \in BOOLEAN /\ written \in BOOLEAN
    BY Zenon DEF Init
  <2>2. work_list \in Seq(Reqs) /\ pend_list \in Seq(Reqs)
    BY DEF Init
  <2>3. /\ offset \in [Reqs -> Nat] /\ desc_nr \in [Reqs -> Nat] /\ moved \in [Reqs -> Nat]
        /\ status \in [Reqs -> {"ok", "einval", "enxio"}]
        /\ ring \in [Slots -> Reqs \union {NoReq}]
        /\ caller \in [Reqs -> {"new", "queued", "waiting", "returned"}]
        /\ result \in [Reqs -> {"none", "einval", "queued", "bytes", "eio"}]
    BY DEF Init
  <2>4. /\ avail \in 0 .. RngSz - 1 /\ 0 \in Slots /\ 0 \in 0 .. CountMod - 1
        /\ 0 \in 0 .. MaxStarts /\ credit \in Nat
    BY RingAssumption DEF Init, RingAssumption, Slots
  <2> QED
    BY <2>1, <2>2, <2>3, <2>4 DEF Init, TypeOK
<1> QED
  BY <1>1, RingAssumption DEF Init, RingInv, Places, OffsetFits, InUse, RingAssumption

\* The device's step.
LEMMA DeviceMovesKeeps ==
    ASSUME RingInv, DeviceMoves
    PROVE  RingInv'
<1>0. /\ UNCHANGED <<ringv, lists, cbs, queue, holder, hw_pidx, worker, caller, result>>
      /\ hw_cidx' = Incr(hw_cidx, 1) /\ hw_cidx # hw_pidx
      /\ moved' = [moved EXCEPT ![ring[hw_cidx]] = @ + 1]
      /\ irq' = (irq \/ Mode # "poll")
  BY DEF DeviceMoves
<1>1. TypeOK'
  <2>0. moved \in [Reqs -> Nat]
    BY DEF RingInv, TypeOK
  <2>1. moved' \in [Reqs -> Nat]
    <3>1. moved' = [r \in Reqs |-> IF r = ring[hw_cidx] THEN moved[r] + 1 ELSE moved[r]]
      BY <1>0, <2>0, Zenon
    <3> QED
      BY <2>0, <3>1
  <2>2. irq' \in BOOLEAN
    BY <1>0, Zenon DEF RingInv, TypeOK
  <2>3. hw_cidx' \in Slots
    BY <1>0, IncrType, RingAssumption DEF RingInv, TypeOK, RingAssumption
  <2> QED
    BY SMTT(60), <1>0, <2>1, <2>2, <2>3 DEF RingInv, TypeOK, ringv, lists, cbs, queue, holder
<1>2. Places' /\ OffsetFits'
  BY <1>0 DEF RingInv, Places, OffsetFits, ringv, lists, cbs, queue, holder
<1>3. InOrder(cidx, hw_cidx, hw_pidx, pidx) => InOrder(cidx, Incr(hw_cidx, 1), hw_pidx, pidx)
  BY <1>0, DeviceMoved DEF RingInv, TypeOK
<1> QED
  BY <1>0, <1>1, <1>2, <1>3 DEF RingInv, InUse, InOrder, Dist, ringv, queue

\* The completion loop leaves the ring alone.
LEMMA CompleteOneKeeps ==
    ASSUME RingInv, CompleteOne
    PROVE  RingInv'
<1>0. /\ UNCHANGED <<avail, pidx, cidx, ring, work_list, work_req_pend, offset>>
      /\ UNCHANGED <<device, threads, queue, holder>>
  BY DEF CompleteOne
<1>1. PICK r : r = Head(pend_list)
  OBVIOUS
<1>2. r \in Reqs /\ Tail(pend_list) \in Seq(Reqs)
  BY <1>1 DEF RingInv, TypeOK, CompleteOne
<1>3. TypeOK'
  <2>0. credit \in Nat /\ desc_nr \in [Reqs -> Nat]
    BY DEF RingInv, TypeOK
  <2>1. CASE credit >= desc_nr[r]
    <3>1. /\ credit' = credit - desc_nr[r] /\ pend_list' = Tail(pend_list)
          /\ done' = [done EXCEPT ![r] = TRUE]
          /\ status' = [status EXCEPT ![r] =
                IF r \notin Sync /\ offset[r] # Size[r] THEN "einval" ELSE "ok"]
          /\ pend_list_empty' = (avail = RngSz - 1)
          /\ UNCHANGED desc_nr
      BY <1>1, <2>1 DEF CompleteOne
    <3>2. credit' \in Nat
      BY <1>2, <2>0, <2>1, <3>1
    <3>3. done' \in [Reqs -> BOOLEAN] /\ pend_list_empty' \in BOOLEAN
      BY <3>1, Zenon DEF RingInv, TypeOK
    <3>4. status' \in [Reqs -> {"ok", "einval", "enxio"}]
      <4>1. PICK x \in {"ok", "einval", "enxio"} : status' = [status EXCEPT ![r] = x]
        BY Zenon, <3>1
      <4>2. status \in [Reqs -> {"ok", "einval", "enxio"}]
        BY DEF RingInv, TypeOK
      <4> QED
        BY <1>2, <4>1, <4>2
    <3>5. /\ UNCHANGED <<avail, pidx, cidx, ring, work_list, work_req_pend, offset, desc_nr>>
          /\ UNCHANGED <<hw_pidx, hw_cidx, moved, irq, worker, caller, result>>
          /\ UNCHANGED <<q_state, q_stop_wait, stop, starts, pc, next, written>>
      BY <1>0, <3>1, Zenon DEF device, threads, queue, holder
    <3>6. pend_list' \in Seq(Reqs)
      BY <1>2, <3>1
    <3> QED
      BY <3>2, <3>3, <3>4, <3>5, <3>6 DEF RingInv, TypeOK
  <2>2. CASE ~ (credit >= desc_nr[r])
    <3>1. /\ desc_nr' = [desc_nr EXCEPT ![r] = @ - credit] /\ credit' = 0
          /\ UNCHANGED <<pend_list, cbs>>
      BY <1>1, <2>2 DEF CompleteOne
    <3>2. desc_nr' \in [Reqs -> Nat]
      BY <1>2, <2>0, <2>2, <3>1
    <3> QED
      BY SMTT(60), <1>0, <3>1, <3>2 DEF RingInv, TypeOK, cbs, device, threads, queue, holder
  <2> QED
    BY <2>1, <2>2
<1>4. Places' /\ OffsetFits'
  BY <1>0 DEF RingInv, Places, OffsetFits, queue, holder
<1> QED
  BY <1>0, <1>3, <1>4 DEF RingInv, InUse, InOrder, Dist, device, queue

\* The steps of the lock holder that only move it on.
LEMMA MovesOnKeeps ==
    ASSUME RingInv, CompleteEnd \/ Refill \/ FillEnd
    PROVE  RingInv'
<1>0. UNCHANGED <<ringv, lists, cbs, device, threads, queue, next, written>>
  BY DEF CompleteEnd, Refill, FillEnd
<1>1. /\ pc \in {"cmpl", "refill", "fill"}
      /\ \/ pc = "cmpl" /\ pc' = next
         \/ pc # "cmpl" /\ pc' \in {"notify", "fill"}
  BY DEF CompleteEnd, Refill, FillEnd
<1>2. TypeOK'
  BY <1>0, <1>1 DEF RingInv, TypeOK, ringv, lists, cbs, device, threads, queue
<1>3. Places' /\ OffsetFits'
  BY <1>0, <1>1 DEF RingInv, TypeOK, Places, OffsetFits, lists, queue
<1> QED
  BY <1>0, <1>2, <1>3 DEF RingInv, InUse, InOrder, Dist, ringv, device, queue

\* Entering the critical section (any caller of Enter leaves the rest alone).
LEMMA EnterKeeps ==
    ASSUME RingInv, Enter,
           irq' \in BOOLEAN, worker' \in {"idle", "busy", "proc"},
           caller' \in [Reqs -> {"new", "queued", "waiting", "returned"}],
           result' \in [Reqs -> {"none", "einval", "queued", "bytes", "eio"}]
    PROVE  RingInv'
<1>0. UNCHANGED <<pidx, ring, lists, cbs, device, queue>> /\ written' = FALSE /\ pc = "idle"
  BY DEF Enter
<1>1. CASE pc' = "idle" /\ UNCHANGED <<cidx, avail, credit, next>>
  <2>1. TypeOK'
    BY <1>0, <1>1, Zenon DEF RingInv, TypeOK, lists, cbs, device, queue
  <2>2. Places' /\ OffsetFits'
    BY <1>0, <1>1 DEF RingInv, Places, OffsetFits, lists, queue
  <2> QED
    BY <1>0, <1>1, <2>1, <2>2 DEF RingInv, InUse, InOrder, Dist, device, queue
<1>2. CASE pc' = "fill" /\ q_state = "online" /\ UNCHANGED <<cidx, avail, credit, next>>
  <2>1. TypeOK'
    BY <1>0, <1>2, Zenon DEF RingInv, TypeOK, lists, cbs, device, queue
  <2>2. Places' /\ OffsetFits'
    BY <1>0, <1>2 DEF RingInv, Places, OffsetFits, lists, queue
  <2> QED
    BY <1>0, <1>2, <2>1, <2>2 DEF RingInv, InUse, InOrder, Dist, device, queue
<1>3. ASSUME NEW after \in {"idle", "fill"}, ReadStatus(after), q_state = "online"
      PROVE  RingInv'
  <2>0. InUse
    BY <1>3 DEF InUse
  <2>1. /\ avail' \in 0 .. RngSz - 1 /\ cidx' \in Slots /\ credit' \in Nat
        /\ pc' \in {"cmpl", after} /\ next' \in {next, after}
        /\ pc' = "cmpl" => next' = after
        /\ avail' + Dist(cidx', pidx) = RngSz - 1
        /\ InOrder(cidx', hw_cidx, hw_pidx, pidx)
    BY <1>3, <2>0, ReadStatusKeeps
  <2>2. TypeOK'
    <3>1. /\ UNCHANGED <<pidx, ring, work_list, pend_list, work_req_pend, offset, desc_nr>>
          /\ UNCHANGED <<done, status, pend_list_empty, hw_pidx, hw_cidx, moved>>
          /\ UNCHANGED <<q_state, q_stop_wait, stop, starts>>
      BY <1>0, Zenon DEF lists, cbs, device, queue
    <3>2. next' \in {"idle", "fill", "refill", "serviced"} /\ written' \in BOOLEAN
      BY <1>0, <2>1, Zenon DEF RingInv, TypeOK
    <3>3. pc' \in {"cmpl", "idle", "fill"}
      BY <2>1
    <3> QED
      BY <2>1, <3>1, <3>2, <3>3, Zenon DEF RingInv, TypeOK
  <2>3. Places' /\ OffsetFits'
    BY Zenon, <1>0, <1>3, <2>1 DEF RingInv, Places, OffsetFits, lists, queue
  <2> QED
    BY <1>0, <2>1, <2>2, <2>3 DEF RingInv, InUse, InOrder, Dist, device, queue
<1>4. q_stop_wait => q_state = "online"
  BY DEF RingInv, Places
<1> QED
  BY <1>1, <1>2, <1>3, <1>4, Zenon DEF Enter

\* As much of a request as fits is put on the ring: the descriptors are free,
\* and the counters follow the producer index.
LEMMA FillFacts ==
    ASSUME RingInv, Fill
    PROVE  \E r \in Reqs, n \in 0 .. RngSz - 1 :
              /\ r = Head(work_list)
              /\ n <= avail /\ n <= Size[r] - offset[r]
              /\ ring' = [i \in Slots |-> IF Dist(pidx, i) < n THEN r ELSE ring[i]]
              /\ pidx' = Incr(pidx, n) /\ avail' = avail - n
              /\ offset' = [offset EXCEPT ![r] = @ + n]
              /\ desc_nr' = [desc_nr EXCEPT ![r] = @ + n]
              /\ \/ /\ work_list' = Tail(work_list)
                    /\ work_req_pend' = (work_req_pend - 1) % CountMod
                    /\ pend_list' = Append(pend_list, r)
                 \/ UNCHANGED <<work_list, work_req_pend, pend_list>>
<1> DEFINE r == Head(work_list)
           left == Size[r] - offset[r]
           n == IF left <= avail THEN left ELSE avail
<1>1. r \in Reqs
  BY DEF RingInv, TypeOK, Fill
<1>2. Size[r] \in Nat /\ offset[r] \in Nat /\ offset[r] <= Size[r] /\ avail \in 0 .. RngSz - 1
  BY <1>1, RingAssumption DEF RingInv, TypeOK, OffsetFits, RingAssumption
<1>3. n \in 0 .. RngSz - 1 /\ n <= avail /\ n <= Size[r] - offset[r]
  BY <1>2, RingAssumption DEF RingAssumption
<1>4. /\ ring' = [i \in Slots |-> IF Dist(pidx, i) < n THEN r ELSE ring[i]]
      /\ pidx' = Incr(pidx, n) /\ avail' = avail - n
      /\ offset' = [offset EXCEPT ![r] = @ + n]
      /\ desc_nr' = [desc_nr EXCEPT ![r] = @ + n]
      /\ \/ /\ work_list' = Tail(work_list)
            /\ work_req_pend' = (work_req_pend - 1) % CountMod
            /\ pend_list' = Append(pend_list, r)
         \/ UNCHANGED <<work_list, work_req_pend, pend_list>>
  BY Zenon DEF Fill
<1> HIDE DEF r, n
<1> QED
  BY <1>1, <1>3, <1>4, Zenon DEF r, n

\* Putting a request on the ring keeps the invariant.
LEMMA FillKeeps ==
    ASSUME RingInv, Fill
    PROVE  RingInv'
<1>0. /\ pc = "fill" /\ work_list # <<>> /\ written' = TRUE
      /\ UNCHANGED <<cidx, credit, cbs, device, threads, queue, pc, next>>
  BY DEF Fill
<1>1. PICK r \in Reqs, n \in 0 .. RngSz - 1 :
              /\ r = Head(work_list)
              /\ n <= avail /\ n <= Size[r] - offset[r]
              /\ ring' = [i \in Slots |-> IF Dist(pidx, i) < n THEN r ELSE ring[i]]
              /\ pidx' = Incr(pidx, n) /\ avail' = avail - n
              /\ offset' = [offset EXCEPT ![r] = @ + n]
              /\ desc_nr' = [desc_nr EXCEPT ![r] = @ + n]
              /\ \/ /\ work_list' = Tail(work_list)
                    /\ work_req_pend' = (work_req_pend - 1) % CountMod
                    /\ pend_list' = Append(pend_list, r)
                 \/ UNCHANGED <<work_list, work_req_pend, pend_list>>
  BY FillFacts
<1>2. /\ avail \in 0 .. RngSz - 1 /\ pidx \in Slots /\ cidx \in Slots
      /\ hw_cidx \in Slots /\ hw_pidx \in Slots
      /\ offset \in [Reqs -> Nat] /\ desc_nr \in [Reqs -> Nat] /\ Size[r] \in Nat
      /\ work_list \in Seq(Reqs) /\ pend_list \in Seq(Reqs) /\ work_req_pend \in Int
      /\ ring \in [Slots -> Reqs \union {NoReq}]
  BY RingAssumption DEF RingInv, TypeOK, RingAssumption
<1>3. q_state = "online"
  BY <1>0 DEF RingInv, Places
<1>4. avail + Dist(cidx, pidx) = RngSz - 1 /\ InOrder(cidx, hw_cidx, hw_pidx, pidx)
  BY <1>3 DEF RingInv, InUse
<1>5. Dist(cidx, pidx) \in 0 .. RngSz - 1
  BY <1>2, DistType
<1>6. Dist(cidx, pidx) + n <= RngSz - 1
  BY <1>1, <1>2, <1>4, <1>5, RingAssumption DEF RingAssumption
<1>7. InOrder(cidx, hw_cidx, hw_pidx, pidx') /\ Dist(cidx, pidx') = Dist(cidx, pidx) + n
  BY <1>1, <1>2, <1>4, <1>6, Produced
<1>8. avail' + Dist(cidx, pidx') = RngSz - 1 /\ avail' \in 0 .. RngSz - 1
  <2>1. /\ avail' = avail - n /\ n <= avail
        /\ Dist(cidx, pidx') = Dist(cidx, pidx) + n
        /\ avail + Dist(cidx, pidx) = RngSz - 1
    BY Zenon, <1>1, <1>4, <1>7
  <2>2. avail \in 0 .. RngSz - 1 /\ n \in 0 .. RngSz - 1 /\ RngSz \in Nat
    BY <1>1, <1>2, RingAssumption DEF RingAssumption
  <2> QED
    BY <1>5, <2>1, <2>2
<1>9. TypeOK'
  <2>1. pidx' \in Slots
    BY <1>1, <1>2, IncrType
  <2>2. ring' \in [Slots -> Reqs \union {NoReq}]
    BY <1>1, <1>2
  <2>3. offset' \in [Reqs -> Nat] /\ desc_nr' \in [Reqs -> Nat]
    <3>1. offset[r] + n \in Nat /\ desc_nr[r] + n \in Nat
      BY <1>2, RingAssumption DEF RingAssumption
    <3> QED
      BY <1>1, <1>2, <3>1, Zenon
  <2>4. /\ work_list' \in Seq(Reqs) /\ pend_list' \in Seq(Reqs)
        /\ work_req_pend' \in 0 .. CountMod - 1
    <3>1. Tail(work_list) \in Seq(Reqs) /\ Append(pend_list, r) \in Seq(Reqs)
      BY <1>0, <1>2
    <3>2. (work_req_pend - 1) % CountMod \in 0 .. CountMod - 1
      <4>1. work_req_pend - 1 \in Int
        BY <1>2
      <4> QED
        BY <4>1, CountType, Zenon
    <3>3. work_req_pend \in 0 .. CountMod - 1
      BY DEF RingInv, TypeOK
    <3> QED
      BY <1>1, <1>2, <3>1, <3>2, <3>3, Zenon
  <2>5. /\ UNCHANGED <<cidx, credit, done, status, pend_list_empty, hw_pidx, hw_cidx, moved>>
        /\ UNCHANGED <<irq, worker, caller, result, q_state, q_stop_wait, stop, starts, pc, next>>
    BY <1>0, Zenon DEF cbs, device, threads, queue
  <2>6. written' \in BOOLEAN
    BY <1>0, Zenon
  <2> QED
    BY <1>8, <2>1, <2>2, <2>3, <2>4, <2>5, <2>6, SMTT(60) DEF RingInv, TypeOK
<1>10. OffsetFits'
  <2>1. offset[r] + n <= Size[r]
    BY <1>1, <1>2
  <2>2. ASSUME NEW q \in Reqs
        PROVE  offset'[q] <= Size[q]
    <3>1. offset'[q] = IF q = r THEN offset[r] + n ELSE offset[q]
      BY Zenon, <1>1, <1>2
    <3> QED
      BY Zenon, <2>1, <3>1 DEF RingInv, OffsetFits
  <2> QED
    BY Zenon, <2>2 DEF OffsetFits
<1>11. Places'
  BY <1>0 DEF RingInv, Places, queue
<1> QED
  BY <1>0, <1>7, <1>8, <1>9, <1>10, <1>11 DEF RingInv, InOrder, Dist, device

\* The other reads of the device's index: a full ring, and after a notification.
LEMMA PollKeeps ==
    ASSUME RingInv, FillFull \/ Repoll
    PROVE  RingInv'
<1>0. /\ UNCHANGED <<pidx, ring, lists, cbs, device, threads, queue, written>>
      /\ pc \in {"fill", "repoll"}
  BY DEF FillFull, Repoll
<1>1. q_state = "online"
  BY <1>0 DEF RingInv, Places
<1>2. InUse
  BY <1>1 DEF InUse
<1>3. CASE pc' = "notify" /\ UNCHANGED <<cidx, avail, credit, next>>
  <2>1. TypeOK'
    BY <1>0, <1>3 DEF RingInv, TypeOK, lists, cbs, device, threads, queue
  <2>2. Places' /\ OffsetFits'
    BY Zenon, <1>0, <1>1, <1>3 DEF RingInv, Places, OffsetFits, lists, queue
  <2> QED
    BY <1>0, <1>3, <2>1, <2>2 DEF RingInv, InUse, InOrder, Dist, device, queue
<1>4. ASSUME NEW after \in {"refill", "idle"}, ReadStatus(after)
      PROVE  RingInv'
  <2>1. /\ avail' \in 0 .. RngSz - 1 /\ cidx' \in Slots /\ credit' \in Nat
        /\ pc' \in {"cmpl", after} /\ next' \in {next, after}
        /\ pc' = "cmpl" => next' = after
        /\ avail' + Dist(cidx', pidx) = RngSz - 1
        /\ InOrder(cidx', hw_cidx, hw_pidx, pidx)
    BY <1>2, <1>4, ReadStatusKeeps
  <2>2. TypeOK'
    <3>1. /\ UNCHANGED <<pidx, ring, work_list, pend_list, work_req_pend, offset, desc_nr>>
          /\ UNCHANGED <<done, status, pend_list_empty, hw_pidx, hw_cidx, moved, irq, worker>>
          /\ UNCHANGED <<caller, result, q_state, q_stop_wait, stop, starts, written>> /\ TypeOK
      BY Zenon, <1>0 DEF RingInv, lists, cbs, device, threads, queue
    <3> QED
      BY SMTT(60), <2>1, <3>1 DEF TypeOK
  <2>3. Places' /\ OffsetFits'
    BY Zenon, <1>0, <1>1, <2>1 DEF RingInv, Places, OffsetFits, lists, queue
  <2> QED
    BY <1>0, <2>1, <2>2, <2>3 DEF RingInv, InUse, InOrder, Dist, device, queue
<1> QED
  BY <1>3, <1>4, Zenon DEF FillFull, Repoll

\* Telling the device the producer index.
LEMMA NotifyKeeps ==
    ASSUME RingInv, Notify
    PROVE  RingInv'
<1>0. /\ UNCHANGED <<ringv, lists, done, status, hw_cidx, moved, threads, queue, next, written>>
      /\ pc = "notify" /\ pc' \in {"repoll", "idle"}
      /\ \/ hw_pidx' = pidx /\ pend_list_empty' = FALSE
         \/ UNCHANGED <<pend_list_empty, hw_pidx>>
  BY DEF Notify
<1>1. /\ cidx \in Slots /\ pidx \in Slots /\ hw_cidx \in Slots /\ hw_pidx \in Slots
      /\ pend_list_empty \in BOOLEAN
  BY DEF RingInv, TypeOK
<1>2. hw_pidx' \in Slots /\ pend_list_empty' \in BOOLEAN
  BY <1>0, <1>1, Zenon
<1>3. q_state = "online"
  BY <1>0 DEF RingInv, Places
<1>4. avail + Dist(cidx, pidx) = RngSz - 1 /\ InOrder(cidx, hw_cidx, hw_pidx, pidx)
  BY <1>3 DEF RingInv, InUse
<1>5. InOrder(cidx, hw_cidx, hw_pidx', pidx)
  <2>1. InOrder(cidx, hw_cidx, pidx, pidx)
    BY <1>1, <1>4, Told
  <2> QED
    BY <1>0, <1>4, <2>1
<1>6. TypeOK'
  BY SMTT(60), <1>0, <1>2 DEF RingInv, TypeOK, ringv, lists, threads, queue
<1>7. Places' /\ OffsetFits'
  BY Zenon, <1>0, <1>3 DEF RingInv, Places, OffsetFits, lists, queue
<1> QED
  BY Zenon, <1>0, <1>4, <1>5, <1>6, <1>7 DEF RingInv, InOrder, Dist, ringv

\* The interrupt worker, which may run whatever the state of the queue is.
LEMMA ServiceInterruptKeeps ==
    ASSUME RingInv, ServiceInterrupt
    PROVE  RingInv'
<1>0. /\ UNCHANGED <<pidx, ring, lists, cbs, device, caller, result, queue, written>>
      /\ pc = "idle" /\ worker' \in {"proc", "busy"}
  BY DEF ServiceInterrupt
<1>i. irq' \in BOOLEAN
  BY Zenon DEF ServiceInterrupt
<1>1. CASE pc' \in {"idle", "oops"} /\ UNCHANGED <<cidx, avail, credit, next>>
  <2>1. TypeOK'
    BY ZenonT(60), <1>0, <1>i, <1>1 DEF RingInv, TypeOK, lists, cbs, device, queue
  <2>2. Places' /\ OffsetFits'
    BY <1>0, <1>1, Zenon DEF RingInv, Places, OffsetFits, lists, queue
  <2> QED
    BY <1>0, <1>1, <2>1, <2>2 DEF RingInv, InUse, InOrder, Dist, device, queue
<1>2. CASE ReadStatus("serviced") /\ ~ (Freed /\ pidx # cidx)
  <2>0. InUse \/ pidx = cidx
    BY <1>2 DEF RingInv, TypeOK, Places, InUse, Freed
  <2>1. /\ avail' \in 0 .. RngSz - 1 /\ cidx' \in Slots /\ credit' \in Nat
        /\ pc' \in {"cmpl", "serviced"} /\ next' \in {next, "serviced"}
        /\ pc' = "cmpl" => next' = "serviced"
        /\ InUse => /\ avail' + Dist(cidx', pidx) = RngSz - 1
                    /\ InOrder(cidx', hw_cidx, hw_pidx, pidx)
    BY <1>2, <2>0, ReadStatusKeeps
  <2>2. TypeOK'
    BY ZenonT(60), <1>0, <1>i, <2>1 DEF RingInv, TypeOK, lists, cbs, device, queue
  <2>3. Places' /\ OffsetFits'
    BY <1>0, <2>1, Zenon DEF RingInv, Places, OffsetFits, lists, queue
  <2> QED
    BY Zenon, <1>0, <2>1, <2>2, <2>3 DEF RingInv, InUse, InOrder, Dist, device, queue
<1> QED
  BY <1>0, <1>1, <1>2, Zenon DEF ServiceInterrupt

\* The end of the worker's critical section.
LEMMA ServicedKeeps ==
    ASSUME RingInv, Serviced
    PROVE  RingInv'
<1>0. /\ UNCHANGED <<ringv, lists, cbs, device, irq, caller, result, queue, next, written>>
      /\ pc = "serviced" /\ pc' = "idle" /\ worker' \in {"proc", "idle"}
  BY DEF Serviced
<1>1. TypeOK'
  BY SMTT(60), <1>0 DEF RingInv, TypeOK, ringv, lists, cbs, device, queue
<1>2. Places' /\ OffsetFits'
  BY Zenon, <1>0 DEF RingInv, Places, OffsetFits, lists, queue
<1> QED
  BY <1>0, <1>1, <1>2 DEF RingInv, InUse, InOrder, Dist, ringv, device, queue

\* Whoever enters the critical section.
LEMMA EntersKeeps ==
    ASSUME RingInv, PollThread \/ WorkerProcess \/ \E r \in Reqs : CallerProcess(r)
    PROVE  RingInv'
<1>0. /\ irq \in BOOLEAN /\ worker \in {"idle", "busy", "proc"}
      /\ caller \in [Reqs -> {"new", "queued", "waiting", "returned"}]
      /\ result \in [Reqs -> {"none", "einval", "queued", "bytes", "eio"}]
  BY Zenon DEF RingInv, TypeOK
<1>1. CASE PollThread
  BY <1>0, <1>1, EnterKeeps DEF PollThread, threads
<1>2. CASE WorkerProcess
  BY <1>0, <1>2, EnterKeeps DEF WorkerProcess
<1>3. ASSUME NEW r \in Reqs, CallerProcess(r)
      PROVE  RingInv'
  <2>1. caller' = [caller EXCEPT ![r] = IF r \in Sync THEN "waiting" ELSE "returned"]
    BY <1>3 DEF CallerProcess
  <2>2. result' = [result EXCEPT ![r] = IF r \in Sync THEN @ ELSE "queued"]
    BY <1>3 DEF CallerProcess
  <2>3. caller' \in [Reqs -> {"new", "queued", "waiting", "returned"}]
    BY <1>0, <2>1
  <2>4. result' \in [Reqs -> {"none", "einval", "queued", "bytes", "eio"}]
    BY <1>0, <2>2
  <2> QED
    BY <1>0, <1>3, <2>3, <2>4, EnterKeeps DEF CallerProcess
<1> QED
  BY <1>1, <1>2, <1>3

\* Submitting a request.
LEMMA SubmitKeeps ==
    ASSUME RingInv, NEW r \in Reqs, Submit(r)
    PROVE  RingInv'
<1>0. UNCHANGED <<ringv, pend_list, offset, desc_nr, cbs, device, irq, worker, queue, holder>>
  BY DEF Submit
<1>1. /\ caller \in [Reqs -> {"new", "queued", "waiting", "returned"}]
      /\ result \in [Reqs -> {"none", "einval", "queued", "bytes", "eio"}]
      /\ work_list \in Seq(Reqs) /\ work_req_pend \in 0 .. CountMod - 1
      /\ work_req_pend + 1 \in Int
  <2>1. TypeOK /\ CountMod \in Nat
    BY Zenon, RingAssumption DEF RingInv, RingAssumption
  <2> QED
    BY SMTT(60), <2>1 DEF TypeOK
<1>2. caller' \in [Reqs -> {"new", "queued", "waiting", "returned"}]
  BY Zenon, <1>1 DEF Submit
<1>3. result' \in [Reqs -> {"none", "einval", "queued", "bytes", "eio"}]
  BY <1>1 DEF Submit
<1>4. work_list' \in Seq(Reqs)
  <2>1. Append(work_list, r) \in Seq(Reqs)
    BY <1>1
  <2> QED
    BY <1>1, <2>1, Zenon DEF Submit
<1>5. work_req_pend' \in 0 .. CountMod - 1
  <2>1. (work_req_pend + 1) % CountMod \in 0 .. CountMod - 1
    BY <1>1, CountType, Zenon
  <2> QED
    BY <1>1, <2>1, Zenon DEF Submit
<1>6. TypeOK'
  <2>1. /\ UNCHANGED <<avail, pidx, cidx, credit, ring, pend_list, offset, desc_nr>>
        /\ UNCHANGED <<done, status, pend_list_empty, hw_pidx, hw_cidx, moved, irq, worker>>
        /\ UNCHANGED <<q_state, q_stop_wait, stop, starts, pc, next, written>> /\ TypeOK
    BY Zenon, <1>0 DEF RingInv, ringv, cbs, device, queue, holder
  <2> QED
    BY <1>2, <1>3, <1>4, <1>5, <2>1, SMTT(60) DEF TypeOK
<1>7. Places' /\ OffsetFits'
  BY Zenon, <1>0 DEF RingInv, Places, OffsetFits, queue, holder
<1> QED
  BY <1>0, <1>6, <1>7 DEF RingInv, InUse, InOrder, Dist, ringv, device, queue

\* A caller that stops waiting.
LEMMA WaitKeeps ==
    ASSUME RingInv, NEW r \in Reqs, WaitDone(r) \/ WaitTimeout(r)
    PROVE  RingInv'
<1>0. UNCHANGED <<ringv, work_req_pend, offset, desc_nr, cbs, device, irq, worker, queue, holder>>
  BY Zenon DEF WaitDone, WaitTimeout, lists
<1>1. /\ caller \in [Reqs -> {"new", "queued", "waiting", "returned"}]
      /\ result \in [Reqs -> {"none", "einval", "queued", "bytes", "eio"}]
      /\ work_list \in Seq(Reqs) /\ pend_list \in Seq(Reqs)
  BY Zenon DEF RingInv, TypeOK
<1>2. caller' \in [Reqs -> {"new", "queued", "waiting", "returned"}]
  BY <1>1, Zenon DEF WaitDone, WaitTimeout
<1>3. result' \in [Reqs -> {"none", "einval", "queued", "bytes", "eio"}]
  BY <1>1, Zenon DEF WaitDone, WaitTimeout
<1>4. work_list' \in Seq(Reqs) /\ pend_list' \in Seq(Reqs)
  <2>1. CASE WaitDone(r)
    BY <1>1, <2>1, Zenon DEF WaitDone, lists
  <2>2. ASSUME NEW i \in DOMAIN work_list, work_list' = ListDel(work_list, i), UNCHANGED pend_list
        PROVE  work_list' \in Seq(Reqs) /\ pend_list' \in Seq(Reqs)
    BY <1>1, <2>2, ListDelType
  <2>3. ASSUME NEW i \in DOMAIN pend_list, pend_list' = ListDel(pend_list, i), UNCHANGED work_list
        PROVE  work_list' \in Seq(Reqs) /\ pend_list' \in Seq(Reqs)
    BY <1>1, <2>3, ListDelType
  <2> QED
    BY <2>1, <2>2, <2>3, Zenon DEF WaitTimeout
<1>5. TypeOK'
  BY SMTT(60), <1>0, <1>2, <1>3, <1>4 DEF RingInv, TypeOK, ringv, cbs, device, queue, holder
<1>6. Places' /\ OffsetFits'
  BY <1>0, Zenon DEF RingInv, Places, OffsetFits, queue, holder
<1> QED
  BY Zenon, <1>0, <1>5, <1>6 DEF RingInv, InUse, InOrder, Dist, ringv, device, queue

\* The steps of a stop up to the end of its wait.
LEMMA StopKeeps ==
    ASSUME RingInv, Stop \/ StopWaited
    PROVE  RingInv'
<1>0. /\ UNCHANGED <<ringv, lists, cbs, device, threads, holder, q_state, starts>>
      /\ q_state = "online" /\ stop \in {"no", "wait"} /\ stop' \in {"wait", "finish"}
  BY DEF Stop, StopWaited, RingInv, Places
<1>1. q_stop_wait' \in BOOLEAN
  BY Zenon DEF Stop, StopWaited, RingInv, TypeOK
<1>2. TypeOK'
  BY ZenonT(60), <1>0, <1>1 DEF RingInv, TypeOK, ringv, lists, cbs, device, threads, holder
<1>3. Places' /\ OffsetFits'
  BY Zenon, <1>0 DEF RingInv, TypeOK, Places, OffsetFits, lists, holder
<1> QED
  BY <1>0, <1>2, <1>3 DEF RingInv, InUse, InOrder, Dist, ringv, device

\* The queue is taken offline.
LEMMA StopFinishKeeps ==
    ASSUME RingInv, StopFinish
    PROVE  RingInv'
<1>0. /\ UNCHANGED <<ringv, lists, cbs, device, threads, next, written, starts>>
      /\ stop = "finish" /\ pc = "idle" /\ stop' = "fail" /\ pc' = "fail"
      /\ q_state' = "enabled" /\ q_stop_wait' = FALSE
  BY DEF StopFinish
<1>1. q_state = "online"
  BY <1>0 DEF RingInv, Places
<1>2. TypeOK'
  BY <1>0, Zenon DEF RingInv, TypeOK, ringv, lists, cbs, device, threads
<1>3. Places' /\ OffsetFits'
  BY <1>0, Zenon DEF RingInv, Places, OffsetFits, lists
<1> QED
  BY Zenon, <1>0, <1>1, <1>2, <1>3 DEF RingInv, InUse, InOrder, Dist, ringv, device

\* The requests that are left fail one by one.
LEMMA StopFailKeeps ==
    ASSUME RingInv, StopFailPend \/ StopFailWork
    PROVE  RingInv'
<1>0. /\ UNCHANGED <<ringv, offset, desc_nr, device, threads, queue, holder>>
      /\ UNCHANGED pend_list_empty
  BY Zenon DEF StopFailPend, StopFailWork, Fail
<1>1. /\ work_list \in Seq(Reqs) /\ pend_list \in Seq(Reqs)
      /\ work_req_pend \in 0 .. CountMod - 1 /\ work_req_pend - 1 \in Int
      /\ done \in [Reqs -> BOOLEAN] /\ status \in [Reqs -> {"ok", "einval", "enxio"}]
  BY RingAssumption DEF RingInv, TypeOK, RingAssumption
<1>2. \A r : Fail(r) => /\ done' \in [Reqs -> BOOLEAN]
                        /\ status' \in [Reqs -> {"ok", "einval", "enxio"}]
  <2> SUFFICES ASSUME NEW r, Fail(r)
               PROVE  /\ done' \in [Reqs -> BOOLEAN]
                      /\ status' \in [Reqs -> {"ok", "einval", "enxio"}]
    OBVIOUS
  <2>1. done' \in [Reqs -> BOOLEAN]
    BY <1>1, Zenon DEF Fail
  <2>2. status' \in [Reqs -> {"ok", "einval", "enxio"}]
    BY <1>1, Zenon DEF Fail
  <2> QED
    BY <2>1, <2>2
<1>3. \A l \in Seq(Reqs) : \A i \in Undone(l) : ListDel(l, i) \in Seq(Reqs)
  BY ListDelType, Zenon DEF Undone
<1>4. (work_req_pend - 1) % CountMod \in 0 .. CountMod - 1
  BY <1>1, CountType, Zenon
<1>5. /\ work_list' \in Seq(Reqs) /\ pend_list' \in Seq(Reqs)
      /\ work_req_pend' \in 0 .. CountMod - 1
      /\ done' \in [Reqs -> BOOLEAN] /\ status' \in [Reqs -> {"ok", "einval", "enxio"}]
  <2>1. CASE StopFailPend
    BY <1>1, <1>2, <1>3, <2>1, Zenon DEF StopFailPend
  <2>2. CASE StopFailWork
    BY <1>1, <1>2, <1>3, <1>4, <2>2, Zenon DEF StopFailWork
  <2> QED
    BY <2>1, <2>2
<1>6. TypeOK'
  <2>1. /\ UNCHANGED <<avail, pidx, cidx, credit, ring, offset, desc_nr, hw_pidx, hw_cidx, moved>>
        /\ UNCHANGED <<irq, worker, caller, result, q_state, q_stop_wait, stop, starts>>
        /\ UNCHANGED <<pc, next, written, pend_list_empty>> /\ TypeOK
    BY Zenon, <1>0 DEF RingInv, ringv, device, threads, queue, holder
  <2> QED
    BY <1>5, <2>1, SMTT(60) DEF TypeOK
<1>7. Places' /\ OffsetFits'
  BY <1>0, Zenon DEF RingInv, Places, OffsetFits, queue, holder
<1> QED
  BY Zenon, <1>0, <1>6, <1>7 DEF RingInv, InUse, InOrder, Dist, ringv, device, queue

\* The end of the critical section in which a stop fails the requests.
LEMMA StopFailedKeeps ==
    ASSUME RingInv, StopFailed
    PROVE  RingInv'
<1>0. /\ UNCHANGED <<ringv, lists, cbs, device, threads, next, written>>
      /\ UNCHANGED <<q_state, q_stop_wait, starts>>
      /\ pc = "fail" /\ pc' = "idle" /\ stop' = "clean"
  BY DEF StopFailed
<1>1. TypeOK'
  BY SMTT(60), <1>0 DEF RingInv, TypeOK, ringv, lists, cbs, device, threads
<1>2. Places' /\ OffsetFits'
  BY <1>0, Zenon DEF RingInv, Places, OffsetFits, lists
<1> QED
  BY Zenon, <1>0, <1>1, <1>2 DEF RingInv, Places, InUse, InOrder, Dist, ringv, device

\* The ring is freed.
LEMMA StopCleanKeeps ==
    ASSUME RingInv, StopClean
    PROVE  RingInv'
<1>0. /\ UNCHANGED <<avail, pidx, cidx, credit, lists, cbs, hw_cidx, moved, threads, holder>>
      /\ UNCHANGED <<q_state, q_stop_wait, starts>>
      /\ stop = "clean" /\ stop' = "no" /\ hw_pidx' = hw_cidx
      /\ ring' = [i \in Slots |-> NoReq]
  BY DEF StopClean
<1>1. ring' \in [Slots -> Reqs \union {NoReq}]
  BY <1>0
<1>2. TypeOK'
  BY SMTT(60), <1>0, <1>1 DEF RingInv, TypeOK, lists, cbs, threads, holder
<1>3. Places' /\ OffsetFits'
  BY <1>0, Zenon DEF RingInv, Places, OffsetFits, lists, holder
<1>4. ~ InUse'
  BY <1>0 DEF RingInv, Places, InUse
<1> QED
  BY <1>2, <1>3, <1>4 DEF RingInv

\* A start gives the queue an empty ring.
LEMMA StartKeeps ==
    ASSUME RingInv, Start
    PROVE  RingInv'
<1>0. /\ UNCHANGED <<ring, work_list, pend_list, offset, desc_nr, done, status, moved>>
      /\ UNCHANGED <<threads, holder, q_stop_wait, stop>>
      /\ stop = "no" /\ pc = "idle" /\ q_state' \in {"online", "enabled"}
      /\ starts < MaxStarts /\ starts' = starts + 1
      /\ avail' = RngSz - 1 /\ pidx' = 0 /\ cidx' = 0 /\ credit' = 0
      /\ hw_pidx' = 0 /\ hw_cidx' = 0 /\ work_req_pend' = 0
  BY DEF Start
<1>1. pend_list_empty' \in BOOLEAN
  BY Zenon DEF Start
<1>2. /\ 0 \in Slots /\ avail' \in 0 .. RngSz - 1 /\ starts' \in 0 .. MaxStarts
      /\ 0 \in 0 .. CountMod - 1
  BY SMTT(60), <1>0, RingAssumption DEF RingInv, TypeOK, RingAssumption, Slots
<1>3. TypeOK'
  BY <1>0, <1>1, <1>2, Zenon DEF RingInv, TypeOK, threads, holder
<1>4. q_state = "enabled" /\ ~ q_stop_wait
  BY DEF Start, RingInv, Places
<1>5. Places' /\ OffsetFits'
  BY Zenon, <1>0, <1>4 DEF RingInv, Places, OffsetFits, holder
<1>6. avail' + Dist(cidx', pidx') = RngSz - 1 /\ InOrder(cidx', hw_cidx', hw_pidx', pidx')
  BY <1>0, RingAssumption DEF InOrder, Dist, RingAssumption
<1> QED
  BY Zenon, <1>3, <1>5, <1>6 DEF RingInv, InUse, InOrder, Dist

\* Every step of the queue keeps the invariant.
LEMMA StepKeeps == RingInv /\ [Next]_vars => RingInv'
<1> SUFFICES ASSUME RingInv, [Next]_vars
             PROVE  RingInv'
  OBVIOUS
<1>1. CASE UNCHANGED vars
  <2>0. /\ UNCHANGED <<avail, pidx, cidx, credit, ring, work_list, pend_list, work_req_pend>>
        /\ UNCHANGED <<offset, desc_nr, done, status, pend_list_empty, hw_pidx, hw_cidx, moved>>
        /\ UNCHANGED <<irq, worker, caller, result, q_state, q_stop_wait, stop, starts>>
        /\ UNCHANGED <<pc, next, written>> /\ TypeOK
    BY Zenon, <1>1 DEF RingInv, vars, ringv, lists, cbs, device, threads, queue, holder
  <2>1. TypeOK'
    BY <2>0, SMTT(60) DEF TypeOK
  <2>2. Places' /\ OffsetFits'
    BY <1>1, Zenon DEF RingInv, Places, OffsetFits, vars, lists, queue, holder
  <2> QED
    BY Zenon, <1>1, <2>1, <2>2 DEF RingInv, InUse, InOrder, Dist, vars, ringv, device, queue
<1>2. CASE HolderStep
  BY <1>2, CompleteOneKeeps, MovesOnKeeps, FillKeeps, PollKeeps, NotifyKeeps,
     ServicedKeeps, StopFailKeeps, StopFailedKeeps, Zenon DEF HolderStep
<1>3. CASE ThreadStep
  BY <1>3, EntersKeeps, ServiceInterruptKeeps, Zenon DEF ThreadStep
<1>4. CASE \E r \in Reqs : Submit(r) \/ CallerStep(r) \/ WaitTimeout(r)
  BY <1>4, SubmitKeeps, EntersKeeps, WaitKeeps, Zenon DEF CallerStep
<1>5. CASE StopStep
  BY <1>5, StopKeeps, StopFinishKeeps, StopCleanKeeps, Zenon DEF StopStep
<1> QED
  BY <1>1, <1>2, <1>3, <1>4, <1>5, DeviceMovesKeeps, StopKeeps, StartKeeps, Zenon DEF Next

\* The inductive invariant holds in every state the queue reaches.
THEOREM RingInvHolds == Spec => []RingInv
BY InitHolds, StepKeeps, PTL DEF Spec

\* Type correctness of the queue's state: the indices stay on the ring and the
\* count of free descriptors never exceeds what the ring can hold.
THEOREM RingTypeCorrect == Spec => []TypeOK
<1>1. RingInv => TypeOK
  BY DEF RingInv
<1> QED
  BY <1>1, RingInvHolds, PTL

\* For every ring size, mode and set of requests: as long as the queue is
\* online, its free descriptors and those between the consumer and the producer
\* index are all but one of the ring, and the device is between the two.
THEOREM RingAccounted == Spec => []RingAccounting
<1>1. RingInv => RingAccounting
  BY DEF RingInv, RingAccounting, InUse, InOrder
<1> QED
  BY <1>1, RingInvHolds, PTL

\* For every ring size, mode and set of requests: putting requests on the ring
\* overwrites no descriptor that the device may still fetch.
THEOREM DescriptorsAreKept == Spec => DescriptorsKept
<1> DEFINE Kept == stop # "clean" => \A i \in ToFetch : ring'[i] = ring[i]
<1>1. RingInv /\ [Next]_vars => [Kept]_vars
  <2> SUFFICES ASSUME RingInv, Next, stop # "clean", NEW i \in ToFetch
               PROVE  ring'[i] = ring[i]
    OBVIOUS
  <2>1. i \in Slots /\ Dist(hw_cidx, i) < Dist(hw_cidx, hw_pidx)
    BY DEF ToFetch
  <2>2. CASE Fill
    <3>1. PICK r \in Reqs, n \in 0 .. RngSz - 1 :
             /\ n <= avail
             /\ ring' = [k \in Slots |-> IF Dist(pidx, k) < n THEN r ELSE ring[k]]
      BY Zenon, <2>2, FillFacts
    <3>2. /\ cidx \in Slots /\ hw_cidx \in Slots /\ hw_pidx \in Slots /\ pidx \in Slots
          /\ avail \in 0 .. RngSz - 1
      BY Zenon DEF RingInv, TypeOK
    <3>3. avail + Dist(cidx, pidx) = RngSz - 1 /\ InOrder(cidx, hw_cidx, hw_pidx, pidx)
      BY Zenon, <2>2 DEF RingInv, Places, InUse, Fill
    <3>4. Dist(cidx, pidx) \in 0 .. RngSz - 1
      BY <3>2, DistType
    <3>5. Dist(cidx, pidx) + n <= RngSz - 1
      BY <3>1, <3>2, <3>3, <3>4, RingAssumption DEF RingAssumption
    <3>6. ~ (Dist(pidx, i) < n)
      BY Zenon, <2>1, <3>2, <3>3, <3>5, Disjoint
    <3> QED
      BY <2>1, <3>1, <3>6, Zenon
  <2>3. CASE ~ Fill
    <3>1. UNCHANGED ring
      BY <2>3, Zenon DEF Next, HolderStep, ThreadStep, CallerStep, StopStep,
         DeviceMoves, CompleteOne, CompleteEnd, FillFull, Refill, FillEnd, Notify, Repoll,
         Serviced, StopFailPend, StopFailWork, StopFailed, PollThread, Enter,
         ServiceInterrupt, WorkerProcess, Submit, CallerProcess, WaitDone, WaitTimeout,
         Stop, StopWaited, StopFinish, StopClean, Start, ringv
    <3> QED
      BY <3>1
  <2> QED
    BY <2>2, <2>3
<1> HIDE DEF Kept
<1>2. Spec => [][Kept]_vars
  BY <1>1, RingInvHolds, PTL DEF Spec
<1> QED
  BY <1>2 DEF Kept, DescriptorsKept

=============================================================================
