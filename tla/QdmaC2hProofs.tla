--------------------------- MODULE QdmaC2hProofs ---------------------------
(***************************************************************************)
(* A streaming C2H queue without a handler keeps account of its buffers,   *)
(* and no request waits on data that was received, for every size of the   *)
(* rings and of the buffers, and whatever the packets and the requests.    *)
(***************************************************************************)
EXTENDS QdmaC2h, SequenceTheorems, TLAPS

\* The types that the argument needs.
Types ==
    /\ uld = FALSE
    /\ pidx \in Ring /\ pidx_pend \in Ring /\ at \in Ring /\ from \in Ring
    /\ cidx_cmpt \in CmptRing /\ cs_pidx \in CmptRing
    /\ avail \in Int /\ proc \in Nat
    /\ DOMAIN cmpt = CmptRing /\ (\A i \in CmptRing : cmpt[i].len \in Lens \cup {0})
    /\ pend_list \in Seq(Reqs)
    /\ pc \in {"idle", "rcv", "read", "copy"}

\* What is available while the lock is held: a packet is taken off before pidx
\* moves, and a buffer that was read is put back after pidx_pend has moved.
Account ==
    /\ pc \in {"idle", "copy"} /\ ~err => avail = RngSz - 1 - Delta(pidx, pidx_pend, RngSz)
    /\ pc = "rcv" => /\ ~err /\ from = pidx_pend
                     /\ avail = RngSz - 1 - Delta(at, from, RngSz)
                     /\ (proc = 0 => at = pidx)
    /\ pc = "read" => /\ ~err
                      /\ avail = RngSz - 1 - Delta(pidx, from, RngSz)
                      /\ Delta(pidx_pend, from, RngSz) <= Delta(pidx, from, RngSz)

\* While somebody waited before, there is nothing to read.
Waits ==
    /\ pc \in {"idle", "rcv"} /\ pend_list # <<>> => pidx_pend = pidx
    /\ pc = "copy" /\ Len(pend_list) > 1 => pidx_pend = pidx

C2hInv == Types /\ Account /\ Waits

-----------------------------------------------------------------------------
(***************************************************************************)
(* Arithmetic on the ring                                                  *)
(***************************************************************************)
\* Distances on the ring are below its size, and none for equal indices.
LEMMA DeltaRange ==
  ASSUME NEW a \in Ring, NEW b \in Ring
  PROVE  /\ Delta(a, b, RngSz) \in 0 .. RngSz - 1
         /\ Delta(a, b, RngSz) = 0 <=> a = b
BY C2hAssumption DEF Ring, Delta

\* rcv_pkt: the index moves over n buffers that were available.
LEMMA Advance ==
  ASSUME NEW a \in Ring, NEW b \in Ring, NEW n \in Nat \ {0},
         n <= RngSz - 1 - Delta(a, b, RngSz)
  PROVE  /\ Next1(Incr(a, n - 1, RngSz)) \in Ring
         /\ Delta(Next1(Incr(a, n - 1, RngSz)), b, RngSz) = Delta(a, b, RngSz) + n
BY C2hAssumption DEF Ring, Delta, Next1, Incr

\* descq_st_c2h_read: the index of what is read comes closer to what was received.
LEMMA Consume ==
  ASSUME NEW a \in Ring, NEW b \in Ring, a # b
  PROVE  /\ Next1(b) \in Ring
         /\ Delta(a, Next1(b), RngSz) = Delta(a, b, RngSz) - 1
BY C2hAssumption DEF Ring, Delta, Next1, Incr

\* Distances from one index: what lies between two others.
LEMMA Between ==
  ASSUME NEW a \in Ring, NEW b \in Ring, NEW c \in Ring,
         Delta(b, c, RngSz) <= Delta(a, c, RngSz)
  PROVE  /\ Delta(a, b, RngSz) = Delta(a, c, RngSz) - Delta(b, c, RngSz)
         /\ b # a => Delta(Next1(b), c, RngSz) = Delta(b, c, RngSz) + 1
BY C2hAssumption DEF Ring, Delta, Next1, Incr

\* get_fl_nr: every packet takes a buffer, the empty one too.
LEMMA RoundUp ==
  ASSUME NEW n \in Nat \ {0}, NEW d \in Nat \ {0}
  PROVE  (n + d - 1) \div d \in Nat \ {0}
OBVIOUS

LEMMA FlNrPositive ==
  ASSUME NEW len \in Lens \cup {0}
  PROVE  get_fl_nr(len) \in Nat \ {0}
<1>1. len \in Nat /\ BufSz \in Nat \ {0} /\ DescBufSz \in Nat \ {0}
  BY C2hAssumption, DescBufSzAssumption
<1>2. CASE len = 0
  BY <1>2 DEF get_fl_nr
<1>3. CASE len # 0
  <2>1. /\ (len + DescBufSz - 1) \div DescBufSz \in Nat \ {0}
        /\ (len + BufSz - 1) \div BufSz \in Nat \ {0}
    BY <1>1, <1>3, RoundUp
  <2> QED
    BY <2>1, <1>3 DEF get_fl_nr
<1> QED
  BY <1>2, <1>3

\* list_del of an element leaves a list that is shorter by one.
LEMMA ListDel ==
  ASSUME NEW s \in Seq(Reqs), NEW i \in DOMAIN s
  PROVE  /\ list_del(s, i) \in Seq(Reqs)
         /\ Len(list_del(s, i)) = Len(s) - 1
         /\ s # <<>>
<1> DEFINE x == SubSeq(s, 1, i - 1)
           y == SubSeq(s, i + 1, Len(s))
<1>1. i \in 1 .. Len(s) /\ Len(s) \in Nat
  OBVIOUS
<1>2. x \in Seq(Reqs) /\ Len(x) = i - 1
  BY <1>1, SubSeqProperties
<1>3. y \in Seq(Reqs) /\ Len(y) = Len(s) - i
  BY <1>1, SubSeqProperties
<1>4. x \o y \in Seq(Reqs) /\ Len(x \o y) = Len(x) + Len(y)
  BY <1>2, <1>3, ConcatProperties
<1>5. list_del(s, i) = x \o y
  BY DEF list_del
<1> HIDE DEF x, y
<1>6. list_del(s, i) \in Seq(Reqs) /\ Len(list_del(s, i)) = Len(x) + Len(y)
  BY Zenon, <1>4, <1>5
<1>7. (i - 1) + (Len(s) - i) = Len(s) - 1
  BY <1>1
<1>8. s # <<>>
  OBVIOUS
<1> QED
  BY Zenon, <1>2, <1>3, <1>6, <1>7, <1>8

-----------------------------------------------------------------------------
\* The queue starts with nothing received and everything but one buffer posted.
LEMMA InitInv == ASSUME Handler = {FALSE} PROVE Init => C2hInv
<1> SUFFICES ASSUME Init PROVE C2hInv
  OBVIOUS
<1>1. 0 \in Ring /\ 0 \in CmptRing /\ RngSz \in Nat
  BY C2hAssumption DEF Ring, CmptRing
<1>2. DOMAIN cmpt = CmptRing /\ \A i \in CmptRing : cmpt[i].len = 0
  BY DEF Init
<1>3. pend_list \in Seq(Reqs)
  BY DEF Init
<1>4. Types
  <2>1. uld = FALSE
    BY DEF Init
  <2> QED
    BY <1>1, <1>2, <1>3, <2>1 DEF Init, Types
<1>5. Delta(0, 0, RngSz) = 0
  BY <1>1 DEF Delta
<1>6. Account /\ Waits
  BY <1>1, <1>5 DEF Init, Account, Waits
<1> QED
  BY <1>4, <1>6 DEF C2hInv

\* The device only adds an entry.
LEMMA HwStep ==
  ASSUME C2hInv, NEW len \in Lens \cup {0}, NEW used, NEW bad, HwEntry(len, used, bad)
  PROVE  C2hInv'
<1> USE DEF HwEntry, drvVars, reqVars, lockVars
<1>1. cs_pidx' \in CmptRing
  BY C2hAssumption DEF C2hInv, Types, CmptRing, Incr
<1>2. DOMAIN cmpt' = CmptRing /\ \A i \in CmptRing : cmpt'[i].len \in Lens \cup {0}
  BY DEF C2hInv, Types
<1>3. Types'
  BY <1>1, <1>2 DEF C2hInv, Types
<1>4. Account' /\ Waits'
  BY DEF C2hInv, Types, Account, Waits
<1> QED
  BY <1>3, <1>4 DEF C2hInv

\* Service: the packets are counted from pidx.
LEMMA ServiceStep ==
  ASSUME C2hInv, NEW b \in Budgets, Service(b)
  PROVE  C2hInv'
<1> USE DEF Service, drvVars, reqVars, hwVars
<1>1. Types'
  BY DEF C2hInv, Types
<1>2. Account' /\ Waits'
  BY DEF C2hInv, Types, Account, Waits
<1> QED
  BY <1>1, <1>2 DEF C2hInv

\* A faulty entry halts the queue: nothing is said of what is available then.
LEMMA RcvFaultStep ==
  ASSUME C2hInv, RcvFault
  PROVE  C2hInv'
<1> USE DEF RcvFault, Unlock, reqVars, hwVars
<1>1. Types'
  BY C2hAssumption DEF C2hInv, Types, Ring
<1>2. Account' /\ Waits'
  BY DEF C2hInv, Types, Account, Waits
<1> QED
  BY <1>1, <1>2 DEF C2hInv

\* cmpt_next stays on the completion ring.
LEMMA CmptNext ==
  ASSUME cidx_cmpt \in CmptRing, proc \in Nat, cmpt_next
  PROVE  cidx_cmpt' \in CmptRing /\ proc' \in Nat /\ proc' # 0
BY C2hAssumption DEF cmpt_next, CmptRing, Incr

\* rcv_pkt takes the buffers of a packet off what is available and moves over them.
LEMMA RcvPktStep ==
  ASSUME C2hInv, RcvPkt
  PROVE  C2hInv'
<1> DEFINE nr == get_fl_nr(Entry.len)
           next == Next1(Incr(at, nr - 1, RngSz))
<1>1. nr \in Nat \ {0}
  BY FlNrPositive DEF C2hInv, Types, Entry
<1>2. UNCHANGED <<uld, pidx, err, pend_list, pc, from, cs_pidx, cmpt>> /\ pc = "rcv" /\ uld = FALSE
  BY DEF RcvPkt, C2hInv, Types, reqVars, hwVars
<1> HIDE DEF nr
<1>3. CASE UNCHANGED <<avail, pidx_pend, at, cidx_cmpt, color, proc, held>>
  <2>1. Types'
    BY <1>2, <1>3 DEF C2hInv, Types
  <2>2. Account' /\ Waits'
    BY <1>2, <1>3 DEF C2hInv, Types, Account, Waits
  <2> QED
    BY <2>1, <2>2 DEF C2hInv
<1>4. CASE avail >= nr /\ avail' = avail - nr /\ cmpt_next /\ at' = next /\ pidx_pend' = pidx_pend
  <2>1. /\ at \in Ring /\ from \in Ring /\ avail \in Int /\ from = pidx_pend /\ ~err
        /\ avail = RngSz - 1 - Delta(at, from, RngSz)
    BY <1>2 DEF C2hInv, Types, Account
  <2>2. nr <= RngSz - 1 - Delta(at, from, RngSz)
    BY <2>1, <1>1, <1>4
  <2>3. next \in Ring /\ Delta(next, from, RngSz) = Delta(at, from, RngSz) + nr
    BY <2>1, <2>2, <1>1, Advance
  <2>4. cidx_cmpt' \in CmptRing /\ proc' \in Nat /\ proc' # 0
    BY <1>4, CmptNext DEF C2hInv, Types
  <2>5. Delta(at, from, RngSz) \in Int /\ RngSz \in Int
    BY <2>1, DeltaRange, C2hAssumption
  <2>6. avail' \in Int /\ avail' = RngSz - 1 - Delta(at', from', RngSz)
    BY <2>1, <2>3, <2>5, <1>1, <1>2, <1>4
  <2>7. Types'
    BY <2>3, <2>4, <2>6, <1>2, <1>4 DEF C2hInv, Types
  <2>8. Account' /\ Waits'
    BY <2>1, <2>4, <2>6, <1>2, <1>4 DEF C2hInv, Types, Account, Waits
  <2> QED
    BY <2>7, <2>8 DEF C2hInv
<1> QED
  <2>1. Accepts = {TRUE}
    BY <1>2 DEF Accepts
  <2>2. avail \in Int
    BY DEF C2hInv, Types
  <2> QED
    BY <2>1, <2>2, <1>1, <1>2, <1>3, <1>4 DEF RcvPkt, nr

\* Data without a packet takes no buffer.
LEMMA RcvUddStep ==
  ASSUME C2hInv, RcvUdd
  PROVE  C2hInv'
<1>1. /\ UNCHANGED <<uld, pidx, pidx_pend, avail, err, pend_list, pc, at, from, cs_pidx, cmpt>>
      /\ pc = "rcv" /\ (cmpt_next \/ UNCHANGED <<cidx_cmpt, color, proc>>)
  BY DEF RcvUdd, reqVars, hwVars
<1>2. cidx_cmpt' \in CmptRing /\ proc' \in Nat /\ (proc' = 0 => proc = 0)
  BY <1>1, CmptNext DEF C2hInv, Types
<1>3. Types'
  BY <1>1, <1>2 DEF C2hInv, Types
<1>4. Account' /\ Waits'
  BY <1>1, <1>2 DEF C2hInv, Types, Account, Waits
<1> QED
  BY <1>3, <1>4 DEF C2hInv

\* The loop ends: pidx moves to where it has got, or has not moved.
LEMMA RcvEndStep ==
  ASSUME C2hInv, RcvEnd
  PROVE  C2hInv'
<1>1. /\ UNCHANGED <<uld, pidx_pend, avail, cidx_cmpt, err, pend_list, cs_pidx, cmpt>>
      /\ pc = "rcv" /\ uld = FALSE
  BY Zenon DEF RcvEnd, reqVars, hwVars, C2hInv, Types
<1>2. 0 \in Ring /\ 0 \in Nat
  BY C2hAssumption DEF Ring
<1>3. CASE proc = 0
  <2>1. pidx' = pidx /\ pc' = "idle" /\ at' = 0 /\ from' = 0 /\ proc' = 0
    BY <1>3 DEF RcvEnd, Unlock
  <2>2. Types'
    BY <1>1, <1>2, <2>1 DEF C2hInv, Types
  <2>3. Account' /\ Waits'
    BY <1>1, <1>3, <2>1 DEF C2hInv, Types, Account, Waits
  <2> QED
    BY <2>2, <2>3 DEF C2hInv
<1>4. CASE proc # 0
  <2>1. pidx' = at /\ pc' = "read" /\ at' = 0 /\ from' = from /\ proc' = proc
    BY <1>1, <1>4 DEF RcvEnd
  <2>2. Types'
    BY <1>1, <1>2, <2>1 DEF C2hInv, Types
  <2>3. /\ at \in Ring /\ from \in Ring /\ from = pidx_pend /\ ~err
        /\ avail = RngSz - 1 - Delta(at, from, RngSz)
    BY <1>1 DEF C2hInv, Types, Account
  <2>4. Delta(pidx_pend, from, RngSz) = 0 /\ Delta(at, from, RngSz) \in 0 .. RngSz - 1
    BY <2>3, DeltaRange
  <2>5. Account' /\ Waits'
    BY <1>1, <2>1, <2>3, <2>4 DEF Account, Waits
  <2> QED
    BY <2>2, <2>5 DEF C2hInv
<1> QED
  BY <1>3, <1>4

\* What is read lies between where reading began and what was received.
LEMMA ReadPendingStep ==
  ASSUME C2hInv, ReadPending
  PROVE  C2hInv'
<1>1. /\ UNCHANGED <<uld, pidx, avail, cidx_cmpt, err, pc, at, from, proc, cs_pidx, cmpt>>
      /\ pc = "read" /\ pend_list # <<>> /\ pidx_pend # pidx
      /\ pidx_pend' \in {pidx_pend, Next1(pidx_pend)}
      /\ pend_list' \in {pend_list, Tail(pend_list)}
  BY DEF ReadPending, lockVars, hwVars
<1>2. /\ pidx \in Ring /\ pidx_pend \in Ring /\ from \in Ring
      /\ avail = RngSz - 1 - Delta(pidx, from, RngSz) /\ ~err
      /\ Delta(pidx_pend, from, RngSz) <= Delta(pidx, from, RngSz)
      /\ pend_list \in Seq(Reqs)
  BY <1>1 DEF C2hInv, Types, Account
<1>3. Tail(pend_list) \in Seq(Reqs)
  BY <1>1, <1>2
<1>4. /\ Next1(pidx_pend) \in Ring
      /\ Delta(Next1(pidx_pend), from, RngSz) = Delta(pidx_pend, from, RngSz) + 1
      /\ Delta(pidx, pidx_pend, RngSz) = Delta(pidx, from, RngSz) - Delta(pidx_pend, from, RngSz)
  BY <1>1, <1>2, Consume, Between
<1>5. /\ Delta(pidx, pidx_pend, RngSz) \in Nat \ {0}
      /\ Delta(pidx, from, RngSz) \in Nat /\ Delta(pidx_pend, from, RngSz) \in Nat
  BY <1>1, <1>2, DeltaRange, C2hAssumption
<1>6. pidx_pend' \in Ring /\ Delta(pidx_pend', from, RngSz) <= Delta(pidx, from, RngSz)
  BY <1>1, <1>2, <1>4, <1>5
<1>7. Types'
  BY <1>1, <1>3, <1>6 DEF C2hInv, Types
<1>8. Account' /\ Waits'
  BY <1>1, <1>2, <1>6 DEF Account, Waits
<1> QED
  BY <1>7, <1>8 DEF C2hInv

\* What was read is available again.
LEMMA ReadEndStep ==
  ASSUME C2hInv, ReadEnd
  PROVE  C2hInv'
<1>1. /\ UNCHANGED <<uld, pidx, pidx_pend, cidx_cmpt, err, pend_list, cs_pidx, cmpt>>
      /\ pc = "read" /\ (pend_list = <<>> \/ pidx_pend = pidx)
      /\ avail' = avail + Delta(pidx_pend, from, RngSz)
      /\ pc' = "idle" /\ at' = 0 /\ from' = 0 /\ proc' = 0
  BY DEF ReadEnd, Refilled, Unlock, reqVars, hwVars
<1>2. /\ pidx \in Ring /\ pidx_pend \in Ring /\ from \in Ring /\ avail \in Int
      /\ avail = RngSz - 1 - Delta(pidx, from, RngSz)
      /\ Delta(pidx_pend, from, RngSz) <= Delta(pidx, from, RngSz)
  BY Zenon, <1>1 DEF C2hInv, Types, Account
<1>3. /\ Delta(pidx, pidx_pend, RngSz) = Delta(pidx, from, RngSz) - Delta(pidx_pend, from, RngSz)
      /\ Delta(pidx, from, RngSz) \in Int /\ Delta(pidx_pend, from, RngSz) \in Int
  BY <1>2, Between, DeltaRange
<1>4. avail' \in Int /\ avail' = RngSz - 1 - Delta(pidx, pidx_pend, RngSz)
  BY <1>1, <1>2, <1>3, C2hAssumption
<1>5. Types'
  BY <1>1, <1>4, C2hAssumption DEF C2hInv, Types, Ring
<1>6. Account' /\ Waits'
  BY <1>1, <1>4 DEF Account, Waits
<1> QED
  BY <1>5, <1>6 DEF C2hInv

\* A request is appended: the others are those that waited before.
LEMMA SubmitStep ==
  ASSUME C2hInv, NEW r \in Reqs, Submit(r)
  PROVE  C2hInv'
<1>1. /\ UNCHANGED <<uld, pidx, pidx_pend, avail, cidx_cmpt, err, at, proc, cs_pidx, cmpt>>
      /\ pc = "idle" /\ pend_list' = Append(pend_list, r)
      /\ pc' = "copy" /\ from' = pidx_pend
  BY DEF Submit, drvVars, hwVars
<1>2. pend_list \in Seq(Reqs) /\ pidx_pend \in Ring
  BY DEF C2hInv, Types
<1>3. pend_list' \in Seq(Reqs) /\ (Len(pend_list') > 1 => pend_list # <<>>)
  BY <1>1, <1>2
<1>4. Types'
  BY <1>1, <1>2, <1>3 DEF C2hInv, Types
<1>5. Account' /\ Waits'
  BY Zenon, <1>1, <1>3 DEF C2hInv, Types, Account, Waits
<1> QED
  BY <1>4, <1>5 DEF C2hInv

\* Each buffer the submitter reads is available at once.
LEMMA SubmitCopyStep ==
  ASSUME C2hInv, SubmitCopy
  PROVE  C2hInv'
<1>1. /\ UNCHANGED <<uld, pidx, cidx_cmpt, err, pend_list, pc, at, from, proc, cs_pidx, cmpt>>
      /\ pc = "copy" /\ pidx_pend # pidx
      /\ \/ pidx_pend' = Next1(pidx_pend) /\ avail' = avail + 1
         \/ UNCHANGED <<pidx_pend, avail>>
  BY DEF SubmitCopy, Refilled, lockVars, hwVars
<1>2. pidx \in Ring /\ pidx_pend \in Ring /\ avail \in Int
  BY DEF C2hInv, Types
<1>3. /\ Next1(pidx_pend) \in Ring
      /\ Delta(pidx, Next1(pidx_pend), RngSz) = Delta(pidx, pidx_pend, RngSz) - 1
      /\ Delta(pidx, pidx_pend, RngSz) \in Int
  BY <1>1, <1>2, Consume, DeltaRange
<1>4. Types'
  BY <1>1, <1>2, <1>3 DEF C2hInv, Types
<1>5. ~err => avail' = RngSz - 1 - Delta(pidx, pidx_pend', RngSz)
  <2>1. ~err => avail = RngSz - 1 - Delta(pidx, pidx_pend, RngSz)
    BY <1>1 DEF C2hInv, Account
  <2> QED
    BY <2>1, <1>1, <1>2, <1>3, C2hAssumption
<1>6. Account' /\ Waits'
  BY <1>1, <1>5 DEF C2hInv, Account, Waits
<1> QED
  BY <1>4, <1>6 DEF C2hInv

\* A submitter that does not wait leaves nobody behind who does; one that waits has
\* read everything.
LEMMA SubmitEndStep ==
  ASSUME C2hInv, SubmitEnd
  PROVE  C2hInv'
<1>1. /\ UNCHANGED <<uld, pidx, pidx_pend, avail, cidx_cmpt, err, cs_pidx, cmpt>>
      /\ pc = "copy" /\ pc' = "idle" /\ at' = 0 /\ from' = 0 /\ proc' = 0
  BY Zenon DEF SubmitEnd, Unlock, drvVars, hwVars
<1>2. pend_list \in Seq(Reqs) /\ (Len(pend_list) > 1 => pidx_pend = pidx)
  BY Zenon, <1>1 DEF C2hInv, Types, Waits
<1>3. pend_list' \in Seq(Reqs) /\ (pend_list' # <<>> => pidx_pend = pidx)
  <2>1. CASE left[req] = 0
    <3>1. PICK i \in DOMAIN pend_list : pend_list' = list_del(pend_list, i)
      BY Zenon, <2>1 DEF SubmitEnd
    <3>2. pend_list' \in Seq(Reqs) /\ Len(pend_list') = Len(pend_list) - 1
      BY <3>1, <1>2, ListDel
    <3> QED
      BY <3>2, <1>2
  <2>2. CASE left[req] # 0
    BY <2>2, <1>2 DEF SubmitEnd
  <2> QED
    BY <2>1, <2>2
<1>4. Types'
  BY <1>1, <1>3, C2hAssumption DEF C2hInv, Types, Ring
<1>5. Account' /\ Waits'
  BY Zenon, <1>1, <1>3 DEF C2hInv, Types, Account, Waits
<1> QED
  BY <1>4, <1>5 DEF C2hInv

\* A request that is given up was waiting.
LEMMA WaitTimeoutStep ==
  ASSUME C2hInv, NEW r \in Reqs, WaitTimeout(r)
  PROVE  C2hInv'
<1>1. /\ UNCHANGED <<uld, pidx, pidx_pend, avail, cidx_cmpt, err, cs_pidx, cmpt, pc, at, from, proc>>
      /\ pc = "idle"
  BY DEF WaitTimeout, drvVars, hwVars, lockVars
<1>2. pend_list \in Seq(Reqs)
  BY Zenon DEF C2hInv, Types
<1>3. PICK i \in DOMAIN pend_list : pend_list' = list_del(pend_list, i)
  BY DEF WaitTimeout
<1>4. pend_list' \in Seq(Reqs) /\ pend_list # <<>>
  BY <1>2, <1>3, ListDel
<1>5. Types'
  BY Zenon, <1>1, <1>4 DEF C2hInv, Types
<1>6. Account' /\ Waits'
  BY Zenon, <1>1, <1>4 DEF C2hInv, Types, Account, Waits
<1> QED
  BY <1>5, <1>6 DEF C2hInv

\* Every step keeps the invariant; the steps for a handler are not taken.
LEMMA StepInv == C2hInv /\ [Next]_vars => C2hInv'
<1> SUFFICES ASSUME C2hInv, [Next]_vars PROVE C2hInv'
  OBVIOUS
<1>0. uld = FALSE /\ pc \notin {"pages", "newpage", "fill"}
  BY DEF C2hInv, Types
<1>1. ASSUME NEW len \in Lens, HwPacket(len) PROVE C2hInv'
  BY Zenon, <1>1, HwStep DEF HwPacket
<1>2. CASE HwUdd
  BY Zenon, <1>2, HwStep DEF HwUdd
<1>3. CASE HwFault
  BY Zenon, <1>3, HwStep DEF HwFault
<1>4. ASSUME NEW b \in Budgets, Service(b) PROVE C2hInv'
  BY <1>4, ServiceStep
<1>5. CASE LockHolder
  <2>1. ~TakeOff /\ ~NewPage /\ ~Fill /\ ~FillEnd
    BY Zenon, <1>0 DEF TakeOff, NewPage, Fill, FillEnd
  <2> QED
    BY <1>5, <2>1, RcvFaultStep, RcvPktStep, RcvUddStep, RcvEndStep, ReadPendingStep, ReadEndStep,
       SubmitCopyStep, SubmitEndStep DEF LockHolder
<1>6. ASSUME NEW r \in Reqs, Submit(r) \/ WaitTimeout(r) PROVE C2hInv'
  BY <1>6, SubmitStep, WaitTimeoutStep
<1>7. ~qdma_queue_update_pointers /\ ~Release
  BY <1>0 DEF qdma_queue_update_pointers, Release
<1>8. CASE UNCHANGED vars
  BY Zenon, <1>8 DEF vars, drvVars, reqVars, lockVars, hwVars, C2hInv, Types, Account, Waits
<1> QED
  BY <1>1, <1>2, <1>3, <1>4, <1>5, <1>6, <1>7, <1>8 DEF Next

-----------------------------------------------------------------------------
\* The invariant holds throughout, for a queue without a handler.
THEOREM C2hInvHolds == ASSUME Handler = {FALSE} PROVE Spec => []C2hInv
<1>1. Init => C2hInv
  BY InitInv
<1> QED
  BY <1>1, StepInv, PTL DEF Spec

\* descq->avail counts exactly the buffers that are neither received nor read,
\* between any two holders of descq->lock.
THEOREM BuffersAlwaysAccounted == ASSUME Handler = {FALSE} PROVE Spec => []BuffersAccounted
<1>1. C2hInv => BuffersAccounted
  BY DEF C2hInv, Account, BuffersAccounted
<1> QED
  BY <1>1, C2hInvHolds, PTL

\* Whoever waits in qdma_request_submit_st_c2h waits for a packet, never for data
\* that was received: neither the submitter nor the receiving side leaves any.
THEOREM NobodyEverWaitsOnData == ASSUME Handler = {FALSE} PROVE Spec => []NobodyWaitsOnData
<1>1. C2hInv => NobodyWaitsOnData
  BY DEF C2hInv, Waits, NobodyWaitsOnData
<1> QED
  BY <1>1, C2hInvHolds, PTL
=============================================================================
