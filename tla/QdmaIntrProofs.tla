--------------------------- MODULE QdmaIntrProofs ---------------------------
(***************************************************************************)
(* The aggregation ring implements the queue of events, for every size of  *)
(* the ring and every set of queues.                                       *)
(***************************************************************************)
EXTENDS QdmaIntrRing, SequenceTheorems, TLAPS

\* What a step needs to know of the state before it.
IntrInv == TypeOK /\ ColorsTellNewEntries

\* The ring starts zeroed, colour 0, and the driver expects colour 1.
LEMMA InitInv == Init => IntrInv
<1> SUFFICES ASSUME Init PROVE IntrInv
  OBVIOUS
<1> USE IntrAssumption
<1>1. TypeOK
  <2>1. 0 \in Entries /\ 0 \in 0 .. 1 /\ 1 \in 0 .. 1
    BY DEF Entries
  <2>2. ZeroedRing \in [Entries -> [color : 0 .. 1, qid : Queues \cup {NoQueue}]]
    BY <2>1 DEF ZeroedRing
  <2> QED
    BY <2>1, <2>2, Zenon DEF Init, TypeOK
<1>2. Unread = 0 /\ Used = 0
  BY DEF Init, Unread, Used
<1>3. \A k \in Entries : ring[At(k)].color = 0 /\ ColorAt(k) = 1
  BY DEF Init, At, ColorAt, ZeroedRing, Entries
<1>4. ColorsTellNewEntries
  BY <1>2, <1>3 DEF ColorsTellNewEntries, Entries
<1> QED
  BY <1>1, <1>4 DEF IntrInv

\* Where the hardware writes next is just behind the last unread entry, in the
\* colour the driver will expect there.
LEMMA NextSlot ==
  ASSUME IntrInv, live
  PROVE  /\ Unread \in Nat /\ Unread < N
         /\ pidx = At(Unread) /\ hwColor = ColorAt(Unread)
<1> USE IntrAssumption DEF IntrInv, TypeOK, Entries
<1>1. Used \in Nat /\ Used < N
  BY DEF Used
<1>2. Unread \in Nat /\ Unread < N
  BY <1>1 DEF ColorsTellNewEntries, Unread
<1>3. pidx = At(Unread) /\ hwColor = ColorAt(Unread)
  <2>1. CASE hwColor = color
    BY <2>1, <1>2 DEF At, ColorAt, Unread
  <2>2. CASE hwColor # color
    BY <2>2, <1>2 DEF At, ColorAt, Unread
  <2> QED
    BY <2>1, <2>2
<1> QED
  BY <1>2, <1>3

\* The positions of the ring counted from the driver's index are distinct.
LEMMA AtDistinct ==
  ASSUME TypeOK, NEW j \in Entries, NEW k \in Entries
  PROVE  At(j) \in Entries /\ (At(j) = At(k) => j = k)
BY IntrAssumption DEF TypeOK, Entries, At

\* What HwReport changes: one more unread entry, everything else in its place.
LEMMA ReportEffect ==
  ASSUME IntrInv, NEW q \in Queues, HwReport(q)
  PROVE  /\ TypeOK'
         /\ Unread' = Unread + 1 /\ Unread' <= Used'
         /\ \A k \in Entries : At(k)' = At(k) /\ ColorAt(k)' = ColorAt(k)
         /\ ring'[At(Unread)] = [color |-> ColorAt(Unread), qid |-> q]
         /\ \A k \in Entries : k # Unread => ring'[At(k)] = ring[At(k)]
<1> USE IntrAssumption
<1> live /\ Unread \in Nat /\ Unread < N /\ pidx = At(Unread) /\ hwColor = ColorAt(Unread)
  BY NextSlot DEF HwReport
<1>1. TypeOK'
  <2>1. ring' \in [Entries -> [color : 0 .. 1, qid : Queues \cup {NoQueue}]]
    BY DEF IntrInv, TypeOK, HwReport
  <2>2. pidx' \in Entries /\ hwColor' \in 0 .. 1
    BY DEF IntrInv, TypeOK, HwReport, Following, Wrapped, Entries
  <2> QED
    BY <2>1, <2>2, Zenon DEF IntrInv, TypeOK, HwReport, sw, Entries
<1>2. \A k \in Entries : At(k)' = At(k) /\ ColorAt(k)' = ColorAt(k)
  BY DEF HwReport, sw, At, ColorAt
<1>3. Used' = Used + 1
  <2>1. pidx \in 0 .. N - 1 /\ hwCidx \in 0 .. N - 1 /\ hwCidx' = hwCidx
    BY DEF IntrInv, TypeOK, HwReport, Entries
  <2>2. pidx' = IF pidx + 1 = N THEN 0 ELSE pidx + 1
    BY DEF HwReport, Following
  <2>3. pidx' # hwCidx
    BY DEF HwReport
  <2> QED
    BY <2>1, <2>2, <2>3 DEF Used
<1>4. Unread' = Unread + 1
  <2>1. CASE pidx + 1 # N
    BY <2>1 DEF IntrInv, TypeOK, HwReport, sw, Following, Wrapped, Unread, Entries
  <2>2. CASE pidx + 1 = N
    <3>1. hwColor = color
      BY <2>2 DEF IntrInv, TypeOK, Unread, Entries
    <3>2. pidx' = 0 /\ hwColor' # color'
      BY <2>2, <3>1 DEF IntrInv, TypeOK, HwReport, sw, Following, Wrapped
    <3>3. sw_cidx' = sw_cidx /\ sw_cidx \in Nat /\ pidx \in Nat
      BY DEF IntrInv, TypeOK, HwReport, sw, Entries
    <3> QED
      BY <2>2, <3>1, <3>2, <3>3 DEF Unread
  <2> QED
    BY <2>1, <2>2
<1>5. Unread <= Used /\ Used \in Nat
  BY DEF IntrInv, TypeOK, ColorsTellNewEntries, Used, Entries
<1>6. ring'[At(Unread)] = [color |-> ColorAt(Unread), qid |-> q]
  BY DEF IntrInv, TypeOK, HwReport
<1>7. \A k \in Entries : k # Unread => ring'[At(k)] = ring[At(k)]
  BY AtDistinct DEF IntrInv, TypeOK, HwReport, Entries
<1> QED
  BY <1>1, <1>2, <1>3, <1>4, <1>5, <1>6, <1>7

\* What Walk changes: the first unread entry is behind the driver, which has
\* just scheduled the work of the queue it names.
LEMMA WalkEffect ==
  ASSUME IntrInv, Walk
  PROVE  /\ TypeOK'
         /\ Unread > 0 /\ Unread' = Unread - 1 /\ Used' = Used
         /\ \A k \in Entries : k + 1 < N =>
                At(k)' = At(k + 1) /\ ColorAt(k)' = ColorAt(k + 1)
         /\ At(N - 1)' = At(0) /\ ColorAt(N - 1)' = 1 - ColorAt(0)
<1> USE IntrAssumption
<1> live /\ Unread \in Nat /\ Unread < N /\ pidx = At(Unread) /\ hwColor = ColorAt(Unread)
  BY NextSlot DEF Walk
<1>1. At(0) = sw_cidx /\ ColorAt(0) = color
  BY DEF IntrInv, TypeOK, At, ColorAt, Entries
<1>2. 0 < Unread /\ ring[sw_cidx].qid \in Queues
  BY <1>1 DEF IntrInv, ColorsTellNewEntries, Walk, Entries
<1>3. TypeOK'
  BY <1>2 DEF IntrInv, TypeOK, Walk, NextCidx, NextColor, Entries, hw
<1>4. \A k \in Entries : k + 1 < N => At(k)' = At(k + 1) /\ ColorAt(k)' = ColorAt(k + 1)
  BY DEF IntrInv, TypeOK, Walk, NextCidx, NextColor, At, ColorAt, Entries
<1>5. At(N - 1)' = At(0) /\ ColorAt(N - 1)' = 1 - ColorAt(0)
  BY DEF IntrInv, TypeOK, Walk, NextCidx, NextColor, At, ColorAt, Entries
<1>6. Unread' = Unread - 1
  BY <1>2 DEF IntrInv, TypeOK, Walk, hw, NextCidx, NextColor, Unread, Entries
<1>7. Used' = Used
  BY DEF Walk, hw, Used
<1> QED
  BY <1>2, <1>3, <1>4, <1>5, <1>6, <1>7

\* Every action keeps the invariant.
LEMMA StepInv == IntrInv /\ [Next]_vars => IntrInv'
<1> SUFFICES ASSUME IntrInv, [Next]_vars PROVE IntrInv'
  OBVIOUS
<1> USE IntrAssumption
<1>1. ASSUME NEW q \in Queues, HwReport(q) PROVE IntrInv'
  <2>0. /\ TypeOK'
        /\ Unread' = Unread + 1 /\ Unread' <= Used'
        /\ \A k \in Entries : At(k)' = At(k) /\ ColorAt(k)' = ColorAt(k)
        /\ ring'[At(Unread)] = [color |-> ColorAt(Unread), qid |-> q]
        /\ \A k \in Entries : k # Unread => ring'[At(k)] = ring[At(k)]
    BY <1>1, ReportEffect, Zenon
  <2>1. Unread \in Nat /\ Unread < N /\ Unread \in Entries /\ live
    BY <1>1, NextSlot DEF HwReport, Entries
  <2>2. ASSUME NEW k \in Entries
        PROVE  (k < Unread + 1) <=> (ring'[At(k)].color = ColorAt(k))
    <3>1. CASE k = Unread
      BY <2>0, <2>1, <3>1
    <3>2. CASE k # Unread
      BY <2>0, <2>1, <3>2 DEF IntrInv, ColorsTellNewEntries, Entries
    <3> QED
      BY <3>1, <3>2
  <2>3. ASSUME NEW k \in Entries, k < Unread + 1
        PROVE  ring'[At(k)].qid \in Queues
    <3>1. CASE k = Unread
      BY <2>0, <2>1, <3>1
    <3>2. CASE k # Unread
      BY <2>0, <2>1, <2>3, <3>2 DEF IntrInv, ColorsTellNewEntries, Entries
    <3> QED
      BY <3>1, <3>2
  <2>4. ColorsTellNewEntries'
    <3>1. \A k \in Entries : (k < Unread') <=> (ring'[At(k)'].color = ColorAt(k)')
      BY <2>0, <2>2
    <3>2. \A k \in Entries : k < Unread' => ring'[At(k)'].qid \in Queues
      BY <2>0, <2>3
    <3>3. 0 <= Unread' /\ Unread' <= Used'
      BY <2>0, <2>1
    <3> QED
      BY <3>1, <3>2, <3>3 DEF ColorsTellNewEntries
  <2> QED
    BY <2>0, <2>4 DEF IntrInv
<1>2. ASSUME Walk PROVE IntrInv'
  <2>0. /\ TypeOK'
        /\ Unread > 0 /\ Unread' = Unread - 1 /\ Used' = Used
        /\ \A k \in Entries : k + 1 < N =>
               At(k)' = At(k + 1) /\ ColorAt(k)' = ColorAt(k + 1)
        /\ At(N - 1)' = At(0) /\ ColorAt(N - 1)' = 1 - ColorAt(0)
    BY <1>2, WalkEffect
  <2>1. Unread \in Nat /\ Unread < N /\ Unread > 0 /\ live /\ live'
    BY <1>2, <2>0, NextSlot DEF Walk
  <2>2. ring' = ring /\ Unread' <= Used'
    <3>1. Unread <= Used /\ Used \in Int /\ ring' = ring
      BY <1>2, <2>1 DEF Walk, IntrInv, ColorsTellNewEntries, TypeOK, Used, Entries
    <3> QED
      BY <2>0, <2>1, <3>1
  <2>3. ASSUME NEW k \in Entries
        PROVE  (k < Unread') <=> (ring'[At(k)'].color = ColorAt(k)')
    <3>1. CASE k + 1 < N
      <4>1. k + 1 \in Entries
        BY <3>1 DEF Entries
      <4>2. (k + 1 < Unread) <=> (ring[At(k + 1)].color = ColorAt(k + 1))
        BY <2>1, <4>1 DEF IntrInv, ColorsTellNewEntries
      <4>3. (k < Unread') <=> (k + 1 < Unread)
        BY <2>0, <2>1 DEF Entries
      <4> QED
        BY <2>0, <2>2, <3>1, <4>2, <4>3
    <3>2. CASE k = N - 1
      <4>1. ring[At(0)].color = ColorAt(0) /\ ColorAt(0) \in 0 .. 1
        BY <2>1 DEF IntrInv, TypeOK, ColorsTellNewEntries, ColorAt, Entries
      <4> QED
        BY <2>0, <2>1, <2>2, <3>2, <4>1
    <3> QED
      BY <3>1, <3>2 DEF Entries
  <2>4. ASSUME NEW k \in Entries, k < Unread'
        PROVE  ring'[At(k)'].qid \in Queues
    <3>1. k + 1 \in Entries /\ k + 1 < Unread /\ k + 1 < N
      BY <2>0, <2>1, <2>4 DEF Entries
    <3> QED
      BY <2>0, <2>1, <2>2, <3>1 DEF IntrInv, ColorsTellNewEntries
  <2>5. ColorsTellNewEntries'
    BY <2>0, <2>1, <2>2, <2>3, <2>4 DEF ColorsTellNewEntries
  <2> QED
    BY <2>0, <2>5 DEF IntrInv
<1>3. ASSUME Leave PROVE IntrInv'
  <2>1. Unread \in Nat /\ Unread < N /\ live
    BY <1>3, NextSlot DEF Leave
  <2>2. TypeOK'
    BY <1>3, Zenon DEF IntrInv, TypeOK, Leave
  <2>3. Unread' = Unread /\ Unread <= Used'
    <3>1. UNCHANGED <<sw_cidx, color, pidx, hwColor>> /\ hwCidx' \in {hwCidx, sw_cidx}
      BY <1>3 DEF Leave
    <3>2. CASE hwCidx' = hwCidx
      BY <2>1, <3>1, <3>2 DEF IntrInv, ColorsTellNewEntries, Unread, Used
    <3>3. CASE hwCidx' = sw_cidx
      BY <2>1, <3>1, <3>3 DEF IntrInv, TypeOK, Unread, Used, Entries
    <3> QED
      BY <3>1, <3>2, <3>3
  <2>4. ring' = ring /\ \A k \in Entries : At(k)' = At(k) /\ ColorAt(k)' = ColorAt(k)
    BY <1>3 DEF Leave, At, ColorAt
  <2>5. ColorsTellNewEntries'
    BY <2>1, <2>3, <2>4 DEF IntrInv, ColorsTellNewEntries
  <2> QED
    BY <2>2, <2>5 DEF IntrInv
<1>4. ASSUME Setup PROVE IntrInv'
  <2>1. TypeOK'
    <3>1. 0 \in Entries /\ 0 \in 0 .. 1 /\ 1 \in 0 .. 1
      BY DEF Entries
    <3>2. ZeroedRing \in [Entries -> [color : 0 .. 1, qid : Queues \cup {NoQueue}]]
      BY <3>1 DEF ZeroedRing
    <3> QED
      BY <1>4, <3>1, <3>2, Zenon DEF IntrInv, TypeOK, Setup, Entries
  <2>2. Unread' = 0 /\ Used' = 0
    BY <1>4 DEF Setup, Unread, Used
  <2>3. \A k \in Entries : ring'[At(k)'].color = 0 /\ ColorAt(k)' = 1
    BY <1>4 DEF Setup, At, ColorAt, ZeroedRing, Entries
  <2>4. ColorsTellNewEntries'
    BY <2>2, <2>3 DEF ColorsTellNewEntries, Entries
  <2> QED
    BY <2>1, <2>4 DEF IntrInv
<1>5. ASSUME Teardown PROVE IntrInv'
  <2>1. TypeOK' /\ ~live'
    BY <1>5, Zenon DEF IntrInv, TypeOK, Teardown
  <2> QED
    BY <2>1 DEF IntrInv, ColorsTellNewEntries
<1>6. ASSUME \/ Enter \/ WalkFreed \/ HwInterrupt \/ HwSpurious
             \/ (\E q \in Queues : RunWork(q)) \/ UNCHANGED vars
      PROVE  IntrInv'
  <2>1. TypeOK'
    BY <1>6, Zenon DEF IntrInv, TypeOK, Enter, WalkFreed, HwInterrupt, HwSpurious, RunWork, vars, sw, hw
  <2>2. UNCHANGED <<ring, live, sw_cidx, color, pidx, hwColor, hwCidx>>
    BY <1>6 DEF Enter, WalkFreed, HwInterrupt, HwSpurious, RunWork, vars, sw, hw
  <2>3. ColorsTellNewEntries'
    BY <2>2 DEF IntrInv, ColorsTellNewEntries, Unread, Used, At, ColorAt, Entries
  <2> QED
    BY <2>1, <2>3 DEF IntrInv
<1> QED
  BY <1>1, <1>2, <1>3, <1>4, <1>5, <1>6 DEF Next, Handler

\* The invariant holds of every behaviour, for every ring size.
THEOREM IntrInvHolds == Spec => []IntrInv
<1> QED
  BY InitInv, StepInv, PTL DEF Spec

\* Types, whatever the interleaving of handler, hardware, offline and online.
THEOREM IntrTypeCorrect == Spec => []TypeOK
BY IntrInvHolds, PTL DEF IntrInv

\* The colours are never ambiguous: an old entry is not taken for a new one
\* and no new one is missed, however often the ring wraps.
THEOREM ColorsAreExact == Spec => []ColorsTellNewEntries
BY IntrInvHolds, PTL DEF IntrInv

-----------------------------------------------------------------------------
(***************************************************************************)
(* The refinement                                                          *)
(***************************************************************************)
\* The events that wait form a sequence as long as there are unread entries.
LEMMA PendingSeq ==
  ASSUME IntrInv, live
  PROVE  /\ Pending = [k \in 1 .. Unread |-> ring[At(k - 1)].qid]
         /\ Pending \in Seq(Queues) /\ Len(Pending) = Unread
<1> Unread \in Nat /\ Unread < N
  BY NextSlot
<1>1. Pending = [k \in 1 .. Unread |-> ring[At(k - 1)].qid]
  BY DEF Pending
<1>2. \A k \in 1 .. Unread : ring[At(k - 1)].qid \in Queues
  BY IntrAssumption DEF IntrInv, ColorsTellNewEntries, Entries
<1>3. Pending \in [1 .. Unread -> Queues]
  BY <1>1, <1>2
<1> QED
  BY <1>1, <1>3

\* Steps that leave the ring and the two sides' indices alone leave the events.
LEMMA PendingKept ==
  ASSUME UNCHANGED <<ring, live, sw_cidx, color, pidx, hwColor>>
  PROVE  Pending' = Pending
BY DEF Pending, Unread, At

\* HwReport appends the event to the queue.
LEMMA ReportRefines ==
  ASSUME IntrInv, IntrInv', NEW q \in Queues, HwReport(q)
  PROVE  Queue!Report(q)
<1> live /\ live'
  BY DEF HwReport, sw
<1> Unread \in Nat /\ Unread < N
  BY NextSlot
<1>0. /\ Unread' = Unread + 1 /\ Unread' <= Used'
      /\ \A k \in Entries : At(k)' = At(k)
      /\ ring'[At(Unread)] = [color |-> ColorAt(Unread), qid |-> q]
      /\ \A k \in Entries : k # Unread => ring'[At(k)] = ring[At(k)]
  BY ReportEffect, Zenon
<1>1. Pending = [k \in 1 .. Unread |-> ring[At(k - 1)].qid] /\ Pending \in Seq(Queues) /\ Len(Pending) = Unread
  BY PendingSeq
<1>2. Pending' = [k \in 1 .. Unread + 1 |-> ring'[At(k - 1)'].qid]
  BY <1>0 DEF Pending
<1>3. \A k \in 1 .. Unread : ring'[At(k - 1)'].qid = Pending[k]
  BY <1>0, <1>1, IntrAssumption DEF Entries
<1>4. \A k \in 1 .. Unread + 1 : k = Unread + 1 => ring'[At(k - 1)'].qid = q
  BY <1>0, IntrAssumption DEF Entries
<1>5. /\ Append(Pending, q) \in Seq(Queues)
      /\ Len(Append(Pending, q)) = Unread + 1
      /\ \A k \in 1 .. Unread : Append(Pending, q)[k] = Pending[k]
      /\ Append(Pending, q)[Unread + 1] = q
  BY <1>1, AppendProperties
<1>6. Pending' = Append(Pending, q)
  <2>1. Pending' \in Seq(Queues) /\ Len(Pending') = Unread + 1
    <3>1. \A k \in 1 .. Unread : Pending[k] \in Queues
      BY <1>1, ElementOfSeq
    <3>2. \A k \in 1 .. Unread + 1 : ring'[At(k - 1)'].qid \in Queues
      <4>1. ASSUME NEW k \in 1 .. Unread + 1 PROVE k \in 1 .. Unread \/ k = Unread + 1
        OBVIOUS
      <4> QED
        BY <1>3, <1>4, <3>1, <4>1, Zenon
    <3>3. Pending' \in [1 .. Unread + 1 -> Queues]
      BY <1>2, <3>2, Zenon
    <3> QED
      BY <1>2, <3>3
  <2>2. ASSUME NEW k \in 1 .. Unread + 1 PROVE Pending'[k] = Append(Pending, q)[k]
    BY <1>2, <1>3, <1>4, <1>5
  <2> QED
    BY <1>5, <2>1, <2>2, SeqEqual
<1>7. Len(Pending) < N - 1
  <2>1. Used' \in Nat /\ Used' < N
    <3>1. pidx' \in Entries /\ hwCidx' \in Entries
      BY DEF IntrInv, TypeOK, Entries
    <3>2. \A p, c \in Entries :
             (IF p >= c THEN p - c ELSE p + N - c) \in 0 .. N - 1
      BY IntrAssumption DEF Entries
    <3>3. Used' = IF pidx' >= hwCidx' THEN pidx' - hwCidx' ELSE pidx' + N - hwCidx'
      BY Zenon DEF Used
    <3>4. Used' \in 0 .. N - 1
      BY <3>1, <3>2, <3>3, Zenon
    <3> QED
      BY <3>4, IntrAssumption
  <2>2. Unread + 1 <= Used'
    BY <1>0
  <2> HIDE DEF Unread, Used
  <2> QED
    BY <1>1, <2>1, <2>2, IntrAssumption
<1> QED
  BY <1>6, <1>7 DEF Queue!Report, HwReport, sw

\* Walk takes the oldest event and schedules the work of its queue.
LEMMA WalkRefines ==
  ASSUME IntrInv, IntrInv', Walk
  PROVE  Queue!Handle
<1> live /\ live'
  BY DEF Walk
<1> Unread \in Nat /\ Unread < N
  BY NextSlot
<1>0. /\ Unread > 0 /\ Unread' = Unread - 1
      /\ \A k \in Entries : k + 1 < N => At(k)' = At(k + 1)
  BY WalkEffect, Zenon
<1>1. Pending = [k \in 1 .. Unread |-> ring[At(k - 1)].qid] /\ Pending \in Seq(Queues) /\ Len(Pending) = Unread
  BY PendingSeq
<1>2. Pending # <<>>
  BY <1>0, <1>1
<1>3. Head(Pending) = ring[sw_cidx].qid
  <2>1. At(0) = sw_cidx
    BY IntrAssumption DEF IntrInv, TypeOK, At, Entries
  <2>2. Head(Pending) = Pending[1]
    BY <1>1, <1>2
  <2> QED
    BY <1>0, <1>1, <2>1, <2>2
<1>4. Pending' = [k \in 1 .. Unread - 1 |-> ring[At(k - 1)'].qid]
  BY <1>0 DEF Pending, Walk
<1>5. /\ Tail(Pending) \in Seq(Queues) /\ Len(Tail(Pending)) = Unread - 1
      /\ \A k \in 1 .. Unread - 1 : Tail(Pending)[k] = Pending[k + 1]
  <2>1. Len(Tail(Pending)) = Len(Pending) - 1 /\ Tail(Pending) \in Seq(Queues)
    BY <1>1, <1>2, HeadTailProperties, Zenon
  <2>2. \A k \in 1 .. Len(Tail(Pending)) : Tail(Pending)[k] = Pending[k + 1]
    BY <1>1, <1>2, HeadTailProperties, Zenon
  <2> QED
    BY <1>1, <2>1, <2>2, Zenon
<1>6. \A k \in 1 .. Unread - 1 : ring[At(k - 1)'].qid = Pending[k + 1]
  BY <1>0, <1>1, IntrAssumption DEF Entries
<1>7. Pending' = Tail(Pending)
  <2>1. \A k \in 1 .. Unread - 1 : Pending[k + 1] \in Queues
    <3>1. \A j \in 1 .. Unread : Pending[j] \in Queues
      BY <1>1, ElementOfSeq
    <3>2. \A k \in 1 .. Unread - 1 : k + 1 \in 1 .. Unread
      OBVIOUS
    <3> QED
      BY <3>1, <3>2
  <2>2. Pending' \in [1 .. Unread - 1 -> Queues]
    BY <1>4, <1>6, <2>1
  <2>3. Pending' \in Seq(Queues) /\ Len(Pending') = Unread - 1
    BY <1>0, <1>4, <2>2
  <2>4. ASSUME NEW k \in 1 .. Unread - 1 PROVE Pending'[k] = Tail(Pending)[k]
    BY <1>4, <1>5, <1>6
  <2> QED
    BY <1>5, <2>3, <2>4, SeqEqual
<1> QED
  BY <1>2, <1>3, <1>7 DEF Queue!Handle, Walk

\* The ring's steps are steps of the queue, or leave it alone.
LEMMA StepRefines ==
  ASSUME IntrInv, IntrInv', [Next]_vars
  PROVE  [Queue!Next]_<<Pending, work>>
<1>1. ASSUME NEW q \in Queues, HwReport(q) PROVE Queue!Next
  BY <1>1, ReportRefines DEF Queue!Next
<1>2. CASE Walk
  BY <1>2, WalkRefines DEF Queue!Next
<1>3. ASSUME NEW q \in Queues, RunWork(q) PROVE Queue!Next
  <2>1. Pending' = Pending
    BY <1>3, PendingKept DEF RunWork, hw
  <2> QED
    BY <1>3, <2>1 DEF Queue!Next, Queue!Run, RunWork
<1>4. CASE Teardown
  <2>1. Pending' = <<>> /\ work' = work
    BY <1>4 DEF Teardown, Pending
  <2> QED
    BY <2>1 DEF Queue!Next, Queue!Drop
<1>5. CASE Setup
  <2>1. Unread' = 0 /\ live' /\ ~live /\ work' = work
    BY <1>5 DEF Setup, Unread
  <2>2. Pending = <<>> /\ Pending' = <<>>
    BY <2>1 DEF Pending
  <2> QED
    BY <2>1, <2>2
<1>6. CASE Enter \/ WalkFreed \/ Leave \/ HwInterrupt \/ HwSpurious \/ UNCHANGED vars
  <2>1. UNCHANGED <<ring, live, sw_cidx, color, pidx, hwColor, work>>
    BY <1>6 DEF Enter, WalkFreed, Leave, HwInterrupt, HwSpurious, vars, sw, hw
  <2> QED
    BY <2>1, PendingKept
<1> QED
  BY <1>1, <1>2, <1>3, <1>4, <1>5, <1>6 DEF Next, Handler

\* A ring just set up is an empty queue.
LEMMA InitRefines == Init => Queue!Init
<1> SUFFICES ASSUME Init PROVE Queue!Init
  OBVIOUS
<1>1. Unread = 0 /\ live /\ work = {}
  BY DEF Init, Unread
<1>2. Pending = <<>>
  BY <1>1 DEF Pending
<1> QED
  BY <1>1, <1>2 DEF Queue!Init

\* data_intr_aggregate over a ring of any size implements the queue of events:
\* every event reported is handled once, in order, for the queue it names.
THEOREM RingImplementsQueue == Spec => ImplementsQueue
<1>1. IntrInv /\ IntrInv' /\ [Next]_vars => [Queue!Next]_<<Pending, work>>
  BY StepRefines
<1> QED
  BY InitRefines, <1>1, IntrInvHolds, PTL DEF Spec, ImplementsQueue, Queue!Spec
=============================================================================
