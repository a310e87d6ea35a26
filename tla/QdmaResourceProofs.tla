------------------------- MODULE QdmaResourceProofs -------------------------
(***************************************************************************)
(* Machine-checked proofs about QdmaResource, for every set of functions,  *)
(* every board size and every request, with and without failing            *)
(* allocations.                                                            *)
(***************************************************************************)
EXTENDS QdmaResourceLists

(***************************************************************************)
(* Ranges.                                                                 *)
(***************************************************************************)

\* The numbers of a range of queues.
LEMMA RangeNumbers ==
    ASSUME NEW c \in QRange
    PROVE  c.qbase \in Int /\ c.total_q \in Nat /\ End(c) \in Int
BY DEF QRange, End

\* The range of a function that owns no queues.
LEMMA NoRangeType == NoRange \in QRange /\ NoRange.total_q = 0
BY DEF NoRange, Chunk, QRange

\* The range that is made of a first queue and a number of queues.
LEMMA ChunkType ==
    ASSUME NEW b \in Int, NEW n \in Nat
    PROVE  /\ Chunk(b, n) \in QRange
           /\ Chunk(b, n).qbase = b /\ Chunk(b, n).total_q = n
           /\ End(Chunk(b, n)) = b + n
BY DEF Chunk, QRange, End

\* A range that owns queues and starts at a natural number is a chunk.
LEMMA RangeIsChunk ==
    ASSUME NEW c \in QRange, c.total_q # 0, c.qbase \in Nat
    PROVE  c \in Chunks /\ c = Chunk(c.qbase, c.total_q)
BY DEF QRange, Chunks, Chunk

\* The call that no call is.
LEMMA NoCallType ==
    /\ NoCall.op = "none" /\ NoCall.func = NoFunc
    /\ NoCall \in Calls
<1>1. NoRange \in QRange
  BY NoRangeType
<1> QED BY <1>1 DEF NoCall, Calls

(***************************************************************************)
(* Initially.                                                              *)
(***************************************************************************)
LEMMA InitIInv == Init => IInv
<1> SUFFICES ASSUME Init PROVE IInv
  OBVIOUS
<1> USE DEF Init
<1>0. /\ QBase \in Nat /\ TotalQ \in Nat /\ TotalQ # 0 /\ CountMod \in Nat /\ CountMod # 0
      /\ NoFunc \notin Funcs
  BY ConstantsAssumption
<1>1. PICK c : c = Chunk(QBase, TotalQ)
  OBVIOUS
<1>2. c \in Chunks /\ c.qbase = QBase /\ End(c) = QBase + TotalQ
  BY Zenon, <1>0, <1>1, ChunkMade
<1>3. free = <<c>>
  BY <1>1
<1>4. free \in Seq(Chunks) /\ Len(free) = 1 /\ free[1] = c
  BY <1>2, <1>3
<1>5. Nodes(free) = {1} /\ Lo(free, 1) = QBase /\ Hi(free, 1) = QBase + TotalQ
  BY <1>2, <1>4 DEF Nodes, Lo, Hi
<1>6. TypeOK
  <2>1. dev \in [Funcs -> QRange]
    BY NoRangeType
  <2>2. active \in [Funcs -> [QTypes -> Nat]]
    OBVIOUS
  <2>3. active_qcnt \in 0 .. CountMod - 1
    BY <1>0
  <2> QED BY <1>4, <2>1, <2>2, <2>3, NoCallType DEF TypeOK
<1>7. GoodList(free)
  BY <1>0, <1>4, <1>5 DEF GoodList, Sorted, InBoard
<1>8. \A f \in Funcs : ~ Owns(f) /\ dev[f].total_q = 0
  BY Zenon, NoRangeType DEF Owns
<1>9. RangesOK /\ RangesApart
  BY <1>8 DEF RangesOK, RangesApart
<1>10. CallOK /\ GivenBack /\ OldHeld /\ MergedSoFar
  BY DEF CallOK, GivenBack, OldHeld, GaveBack, MergedSoFar
<1>11. ASSUME NEW q \in Queues PROVE ListCovers(free, q)
  BY <1>0, <1>5 DEF ListCovers, Queues
<1>12. Covered
  BY <1>11 DEF Covered
<1>13. ActiveOK
  BY <1>8, NoCallType DEF ActiveOK
<1> QED BY <1>6, <1>7, <1>9, <1>10, <1>12, <1>13 DEF IInv

(***************************************************************************)
(* The node that serves a request, and the list when there is none.        *)
(***************************************************************************)
LEMMA NodeServes ==
    ASSUME NEW l, GoodList(l), NEW qmax \in Nat, NEW qbase \in Int,
           NEW i \in DOMAIN l, IsNode(l, qmax, qbase, i),
           NEW base, base = NodeBase(l, qmax, qbase, i)
    PROVE  /\ i \in 1 .. Len(l) /\ base \in Nat
           /\ Lo(l, i) <= base /\ base + qmax <= Hi(l, i)
<1>1. l \in Seq(Chunks)
  BY DEF GoodList
<1>2. i \in 1 .. Len(l) /\ i \in Nodes(l)
  BY <1>1 DEF Nodes
<1>3. l[i] \in Chunks
  BY <1>1, <1>2, ListNumbers
<1>4. PICK x \in Nat, n \in Nat : x = l[i].qbase /\ n = l[i].total_q
  BY <1>3, ChunkNumbers
<1>5. Lo(l, i) = x /\ Hi(l, i) = x + n /\ End(l[i]) = x + n
  BY <1>4 DEF Lo, Hi, End
<1>6. CASE Honoured(l, qmax, qbase)
  <2>1. base = qbase /\ Holds(l[i], qmax, qbase) /\ qbase >= 0
    BY <1>6 DEF NodeBase, IsNode, Honoured
  <2>2. qbase >= x /\ x + n >= qbase + qmax
    BY <1>4, <1>5, <2>1 DEF Holds
  <2> QED BY <1>2, <1>5, <2>1, <2>2
<1>7. CASE ~ Honoured(l, qmax, qbase)
  <2>1. base = x /\ n >= qmax
    BY <1>4, <1>7 DEF NodeBase, IsNode
  <2> QED BY <1>2, <1>5, <2>1
<1> QED BY <1>6, <1>7

\* A list with the same queues that is apart from whatever the list was.
Kept(m, l) ==
    /\ GoodList(m)
    /\ KeepsApart(m, l)
    /\ \A q \in Int : ListCovers(l, q) => ListCovers(m, q)

\* A free list keeps itself.
LEMMA KeptSelf == ASSUME NEW l, GoodList(l) PROVE Kept(l, l)
BY DEF Kept, KeepsApart

\* Keeping the free list is transitive.
LEMMA KeptTrans ==
    ASSUME NEW l, NEW m, NEW n, Kept(m, l), Kept(n, m) PROVE Kept(n, l)
BY DEF Kept, KeepsApart

\* When qdma_get_resource_node returns NULL the free list still has all its
\* queues; without a failed allocation it is unchanged and has no chunk that is
\* large enough.
LEMMA NullLists ==
    ASSUME NEW l, GoodList(l), NEW qmax \in Nat, NEW qbase \in Int,
           NEW m \in ListsOnNull(l, qmax, qbase)
    PROVE  /\ Kept(m, l)
           /\ ~ AllocMayFail => m = l /\ \A k \in DOMAIN l : l[k].total_q < qmax
<1> DEFINE split == {i \in DOMAIN l :
                       /\ AllocMayFail
                       /\ IsNode(l, qmax, qbase, i)
                       /\ l[i] # Chunk(NodeBase(l, qmax, qbase, i), qmax)}
           three == {i \in split :
                       LET base == NodeBase(l, qmax, qbase, i)
                       IN  base > l[i].qbase /\ base + qmax # End(l[i])}
<1>1. \/ m = l /\ (split # {} \/ \A i \in DOMAIN l : l[i].total_q < qmax)
      \/ \E i \in three : m = HalfCarve(l, i, NodeBase(l, qmax, qbase, i))
  BY DEF ListsOnNull
<1>2. CASE m = l /\ (split # {} \/ \A i \in DOMAIN l : l[i].total_q < qmax)
  <2>1. ~ AllocMayFail => split = {}
    OBVIOUS
  <2> QED BY <1>2, <2>1, KeptSelf
<1>3. CASE \E i \in three : m = HalfCarve(l, i, NodeBase(l, qmax, qbase, i))
  <2>1. PICK i \in three : m = HalfCarve(l, i, NodeBase(l, qmax, qbase, i))
    BY <1>3
  <2>2. PICK base : base = NodeBase(l, qmax, qbase, i)
    OBVIOUS
  <2>3. /\ i \in DOMAIN l /\ AllocMayFail /\ IsNode(l, qmax, qbase, i)
        /\ base > Lo(l, i) /\ base + qmax # Hi(l, i)
    BY <2>2 DEF Lo, Hi
  <2>4. /\ i \in 1 .. Len(l) /\ base \in Nat
        /\ Lo(l, i) <= base /\ base + qmax <= Hi(l, i)
    BY <2>2, <2>3, NodeServes
  <2>5. Lo(l, i) \in Nat /\ Hi(l, i) \in Nat
    <3>1. l \in Seq(Chunks)
      BY DEF GoodList
    <3> QED BY <2>4, <3>1, ListNumbers DEF Nodes
  <2>6. Lo(l, i) < base /\ base < Hi(l, i)
    BY <2>3, <2>4, <2>5
  <2>7. Cut(m, l, base, base)
    BY <2>1, <2>2, <2>4, <2>6, HalfCarveCuts
  <2>8. \A q \in Int : ~ (base <= q /\ q < base)
    BY <2>4
  <2>9. Kept(m, l)
    BY <2>7, <2>8 DEF Cut, Kept
  <2> QED BY <2>3, <2>9
<1> QED BY <1>1, <1>2, <1>3

(***************************************************************************)
(* The end of an update: the function gets a range and the list loses it.  *)
(***************************************************************************)
\* Range r fits: it is inside the board and apart from the list m and from
\* the ranges of the other functions.
Fits(r, m, f) ==
    r.total_q # 0 =>
        /\ QBase <= r.qbase /\ End(r) <= QBase + TotalQ
        /\ ApartFrom(m, r.qbase, End(r))
        /\ \A g \in Funcs \ {f} : Owns(g) => ApartRanges(r, dev[g])

\* The end of qdma_dev_update, whichever range the function is given: the
\* invariant holds if that range was free and is off the free list.
LEMMA AssignKeeps ==
    ASSUME IInv, pc = "take", NEW r \in QRange, NEW m, NEW result,
           result \in {"ok", "no_queues_left"},
           UpdateDone(r, m, result), GoodList(m), KeepsApart(m, free),
           Fits(r, m, call.func),
           ~ AllocMayFail => \A q \in Int : ListCovers(free, q) =>
                ListCovers(m, q) \/ (r.total_q # 0 /\ Covers(r, q))
    PROVE  IInv'
<1>1. /\ TypeOK /\ RangesOK /\ RangesApart /\ CallOK /\ GivenBack /\ Covered /\ ActiveOK
  BY DEF IInv
<1>2. PICK f : f = call.func
  OBVIOUS
<1>3. f \in entries /\ f \in Funcs /\ call.op = "take"
  BY <1>1, <1>2 DEF CallOK, TypeOK
<1>4. /\ pc' = "idle" /\ call' = NoCall /\ free' = m /\ rv' = result
      /\ dev' = [dev EXCEPT ![f] = r]
      /\ entries' = entries /\ active' = active /\ active_qcnt' = active_qcnt
      /\ streach' = streach
  BY <1>2 DEF UpdateDone
<1>5. dev \in [Funcs -> QRange] /\ dev' \in [Funcs -> QRange]
  BY <1>1, <1>3, <1>4 DEF TypeOK
<1>6. dev'[f] = r /\ \A g \in Funcs : g # f => dev'[g] = dev[g]
  BY <1>3, <1>4, <1>5
<1>7. TypeOK'
  <2>1. free' \in Seq(Chunks)
    BY <1>4 DEF GoodList
  <2> QED BY <1>1, <1>4, <1>5, <2>1, NoCallType DEF TypeOK
<1>8. RangesOK'
  <2> SUFFICES ASSUME NEW g \in Funcs, dev'[g].total_q # 0
               PROVE  /\ g \in entries'
                      /\ QBase <= dev'[g].qbase /\ End(dev'[g]) <= QBase + TotalQ
                      /\ ApartFrom(free', dev'[g].qbase, End(dev'[g]))
    BY DEF RangesOK, Owns
  <2>1. CASE g = f
    BY <1>2, <1>3, <1>4, <1>6, <2>1 DEF Fits
  <2>2. CASE g # f
    <3>1. dev'[g] = dev[g] /\ Owns(g)
      BY <1>6, <2>2 DEF Owns
    <3>2. /\ g \in entries
          /\ QBase <= dev[g].qbase /\ End(dev[g]) <= QBase + TotalQ
          /\ ApartFrom(free, dev[g].qbase, End(dev[g]))
      BY <1>1, <3>1 DEF RangesOK
    <3>3. dev[g].qbase \in Int /\ End(dev[g]) \in Int /\ dev[g].qbase < End(dev[g])
      <4>1. dev[g] \in QRange /\ dev[g].total_q # 0
        BY <1>5, <3>1 DEF Owns
      <4>2. dev[g].qbase \in Int /\ dev[g].total_q \in Nat
        BY <4>1, RangeNumbers
      <4> QED BY <4>1, <4>2 DEF End
    <3>4. ApartFrom(m, dev[g].qbase, End(dev[g]))
      BY <3>2, <3>3 DEF KeepsApart
    <3> QED BY <1>4, <3>1, <3>2, <3>4
  <2> QED BY <2>1, <2>2
<1>9. RangesApart'
  <2> SUFFICES ASSUME NEW g \in Funcs, NEW h \in Funcs, g # h,
                      dev'[g].total_q # 0, dev'[h].total_q # 0
               PROVE  ApartRanges(dev'[g], dev'[h])
    BY DEF RangesApart, Owns
  <2>1. CASE g # f /\ h # f
    BY <1>1, <1>6, <2>1 DEF RangesApart, Owns
  <2>2. CASE g = f
    BY <1>2, <1>6, <2>2 DEF Fits, Owns
  <2>3. CASE h = f
    <3>1. ApartRanges(dev'[h], dev'[g])
      BY <1>2, <1>6, <2>3 DEF Fits, Owns
    <3> QED BY <3>1 DEF ApartRanges
  <2> QED BY <2>1, <2>2, <2>3
<1>10. CallOK' /\ GivenBack' /\ OldHeld' /\ MergedSoFar'
  BY <1>4 DEF CallOK, GivenBack, OldHeld, GaveBack, MergedSoFar
<1>11. Covered'
  <2> SUFFICES ASSUME ~ AllocMayFail, NEW q \in Queues
               PROVE  \/ ListCovers(free', q)
                      \/ \E g \in Funcs : dev'[g].total_q # 0 /\ Covers(dev'[g], q)
    BY DEF Covered, Owns
  <2>1. q \in Int
    BY ConstantsAssumption DEF Queues
  <2>2. CASE ListCovers(free, q)
    BY <1>3, <1>4, <1>6, <2>1, <2>2
  <2>3. CASE ~ ListCovers(free, q)
    <3>1. PICK g \in Funcs : Owns(g) /\ Covers(dev[g], q)
      BY <1>1, <2>3 DEF Covered
    <3>2. g # f
      BY <1>1, <1>2, <3>1 DEF GivenBack
    <3> QED BY <1>6, <3>1, <3>2 DEF Owns
  <2> QED BY <2>2, <2>3
<1>12. ActiveOK'
  <2>1. call'.op = "none" /\ call'.func = NoFunc
    BY <1>4, NoCallType
  <2>2. ASSUME NEW g \in Funcs, NEW t \in QTypes
        PROVE  active'[g][t] <= dev'[g].total_q
    <3>1. CASE g = f
      <4>1. active'[g][t] = 0
        BY Zenon, <1>1, <1>2, <1>3, <1>4, <3>1 DEF ActiveOK
      <4>2. dev'[g].total_q \in Nat
        BY <1>6, <3>1, RangeNumbers
      <4> QED BY <4>1, <4>2
    <3>2. CASE g # f
      BY <1>1, <1>2, <1>4, <1>6, <3>2 DEF ActiveOK
    <3> QED BY <3>1, <3>2
  <2> QED BY <2>1, <2>2 DEF ActiveOK
<1>13. GoodList(free)'
  BY <1>4
<1> QED BY <1>7, <1>8, <1>9, <1>10, <1>11, <1>12, <1>13 DEF IInv

\* A range that qdma_get_resource_node has cut out of the free list may be given
\* to the function.
LEMMA TakeFromKeeps ==
    ASSUME IInv, pc = "take", NEW l, Kept(l, free),
           NEW qmax \in Nat, NEW qbase \in Int, NEW result,
           result \in {"ok", "no_queues_left"}, TakeFrom(l, qmax, qbase, result)
    PROVE  IInv'
<1>1. PICK i \in DOMAIN l :
        /\ IsNode(l, qmax, qbase, i)
        /\ LET base == NodeBase(l, qmax, qbase, i)
           IN  UpdateDone(Chunk(base, qmax), Carve(l, i, base, qmax), result)
  BY DEF TakeFrom
<1>2. PICK base : base = NodeBase(l, qmax, qbase, i)
  OBVIOUS
<1>3. PICK m : m = Carve(l, i, base, qmax)
  OBVIOUS
<1>4. PICK r : r = Chunk(base, qmax)
  OBVIOUS
<1>5. UpdateDone(r, m, result)
  BY <1>1, <1>2, <1>3, <1>4
<1>6. GoodList(l) /\ KeepsApart(l, free)
  BY DEF Kept
<1>7. /\ i \in 1 .. Len(l) /\ base \in Nat
      /\ Lo(l, i) <= base /\ base + qmax <= Hi(l, i)
  BY <1>1, <1>2, <1>6, NodeServes
<1>8. Cut(m, l, base, base + qmax)
  BY <1>3, <1>6, <1>7, CarveCuts
<1>9. r \in QRange /\ r.qbase = base /\ r.total_q = qmax /\ End(r) = base + qmax
  <2>1. base \in Int
    BY <1>7
  <2> QED BY Zenon, <1>4, <2>1, ChunkType
<1>10. GoodList(m) /\ KeepsApart(m, free)
  <2>1. GoodList(m) /\ KeepsApart(m, l)
    BY <1>8 DEF Cut
  <2> QED BY <1>6, <2>1 DEF KeepsApart
<1>11. /\ i \in Nodes(l) /\ Lo(l, i) \in Nat /\ Hi(l, i) \in Nat
       /\ QBase <= Lo(l, i) /\ Hi(l, i) <= QBase + TotalQ
  <2>1. l \in Seq(Chunks) /\ InBoard(l)
    BY <1>6 DEF GoodList
  <2>2. i \in Nodes(l)
    BY <1>7 DEF Nodes
  <2> QED BY <2>1, <2>2, ListNumbers DEF InBoard
<1>12. QBase <= r.qbase /\ End(r) <= QBase + TotalQ
  BY <1>7, <1>9, <1>11, ConstantsAssumption
<1>13. ApartFrom(m, r.qbase, End(r))
  BY <1>8, <1>9 DEF Cut
<1>14. ASSUME NEW g \in Funcs, Owns(g)
       PROVE  ApartRanges(r, dev[g])
  <2>1. PICK x \in Int, n \in Nat, y \in Int :
            x = dev[g].qbase /\ n = dev[g].total_q /\ y = End(dev[g]) /\ y = x + n /\ x < y
    <3>1. dev[g] \in QRange /\ dev[g].total_q # 0
      BY <1>14 DEF IInv, TypeOK, Owns
    <3>2. dev[g].qbase \in Int /\ dev[g].total_q \in Nat
      BY <3>1, RangeNumbers
    <3> QED BY <3>1, <3>2 DEF End
  <2>2. ApartFrom(free, x, y)
    BY Zenon, <1>14, <2>1 DEF IInv, RangesOK
  <2>3. ApartFrom(l, x, y)
    BY <1>6, <2>1, <2>2 DEF KeepsApart
  <2>4. Hi(l, i) <= x \/ y <= Lo(l, i)
    BY <1>11, <2>3 DEF ApartFrom
  <2>5. End(r) <= x \/ y <= r.qbase
    BY SMTT(60), <1>7, <1>9, <1>11, <2>4
  <2> QED BY <2>1, <2>5 DEF ApartRanges
<1>15. Fits(r, m, call.func)
  BY <1>12, <1>13, <1>14 DEF Fits
<1>16. ASSUME NEW q \in Int, ListCovers(free, q)
       PROVE  ListCovers(m, q) \/ (r.total_q # 0 /\ Covers(r, q))
  <2>1. ListCovers(l, q)
    BY <1>16 DEF Kept
  <2>2. ListCovers(m, q) \/ (base <= q /\ q < base + qmax)
    BY <1>8, <2>1 DEF Cut
  <2>3. CASE base <= q /\ q < base + qmax
    <3>1. qmax # 0
      BY <1>7, <2>3
    <3> QED BY <1>9, <2>3, <3>1 DEF Covers
  <2> QED BY <2>2, <2>3
<1> QED BY <1>5, <1>9, <1>10, <1>15, <1>16, AssignKeeps

(***************************************************************************)
(* The start of a call: the range of the function is given back.           *)
(***************************************************************************)
LEMMA SubmitKeeps ==
    ASSUME IInv, pc = "idle", NEW f \in entries, NEW c \in Calls,
           c.func = f, c.op \in {"take", "remove"},
           c.op = "take" => c.old = dev[f] /\ \A t \in QTypes : active[f][t] = 0,
           call' = c, SubmitToFreeList(f, c.op),
           UNCHANGED <<entries, active, active_qcnt, rv>>
    PROVE  IInv'
<1>1. /\ TypeOK /\ RangesOK /\ RangesApart /\ CallOK /\ Covered /\ ActiveOK
      /\ GoodList(free)
  BY DEF IInv
<1>2. /\ f \in Funcs /\ dev \in [Funcs -> QRange] /\ dev[f] \in QRange
      /\ call = NoCall /\ call.func = NoFunc /\ NoFunc \notin Funcs
  BY <1>1, NoCallType, ConstantsAssumption DEF TypeOK, CallOK
<1>3. \A g \in Funcs, t \in QTypes : active[g][t] <= dev[g].total_q
  BY <1>1, <1>2 DEF ActiveOK
<1>4. ASSUME dev' = dev \/ dev' = [dev EXCEPT ![f] = NoRange]
      PROVE  ActiveOK'
  <2>1. ASSUME NEW g \in Funcs, NEW t \in QTypes, g # f
        PROVE  active'[g][t] <= dev'[g].total_q
    <3>1. dev'[g] = dev[g]
      BY <1>2, <1>4, <2>1
    <3> QED BY <1>3, <3>1
  <2>2. ASSUME c.op = "take", NEW t \in QTypes
        PROVE  active'[f][t] = 0
    BY <2>2
  <2> QED BY <2>1, <2>2 DEF ActiveOK
<1>5. CASE /\ dev[f].total_q = 0 \/ AllocMayFail
           /\ pc' = c.op
           /\ UNCHANGED <<free, dev, streach>>
  <2>1. TypeOK'
    BY <1>1, <1>5 DEF TypeOK
  <2>2. RangesOK'
    BY <1>1, <1>5 DEF RangesOK, Owns
  <2>3. RangesApart'
    BY <1>1, <1>5 DEF RangesApart, Owns
  <2>4. CallOK'
    BY <1>5 DEF CallOK
  <2>5. GivenBack'
    BY <1>5 DEF GivenBack, Owns
  <2>6. Covered'
    BY <1>1, <1>5 DEF Covered, Owns
  <2>7. ~ GaveBack'
    BY <1>5 DEF GaveBack
  <2>8. OldHeld' /\ MergedSoFar'
    BY <1>5, <2>7 DEF OldHeld, MergedSoFar
  <2>9. GoodList(free)'
    BY <1>1, <1>5
  <2> QED BY <1>4, <1>5, <2>1, <2>2, <2>3, <2>4, <2>5, <2>6, <2>8, <2>9 DEF IInv
<1>6. CASE /\ dev[f].total_q # 0
           /\ \E k \in 1 .. Len(free) + 1 :
                /\ \A j \in 1 .. k - 1 : free[j].qbase <= dev[f].qbase
                /\ k <= Len(free) => free[k].qbase > dev[f].qbase
                /\ free' = ListInsert(free, k, dev[f])
           /\ dev' = [dev EXCEPT ![f] = NoRange]
           /\ pc' = "defrag"
           /\ streach' = 1
  <2>1. PICK k \in 1 .. Len(free) + 1 :
                /\ \A j \in 1 .. k - 1 : free[j].qbase <= dev[f].qbase
                /\ k <= Len(free) => free[k].qbase > dev[f].qbase
                /\ free' = ListInsert(free, k, dev[f])
    BY <1>6
  <2>2. PICK e : e = dev[f]
    OBVIOUS
  <2>3. /\ e \in QRange /\ e.total_q # 0 /\ QBase <= e.qbase /\ End(e) <= QBase + TotalQ
        /\ ApartFrom(free, e.qbase, End(e))
    BY Zenon, <1>1, <1>2, <1>6, <2>2 DEF RangesOK, Owns
  <2>4. e.qbase \in Nat /\ e \in Chunks
    <3>1. e.qbase \in Int /\ QBase \in Nat
      BY <2>3, RangeNumbers, ConstantsAssumption
    <3>2. e.qbase \in Nat
      BY <2>3, <3>1
    <3> QED BY <2>3, <3>2, RangeIsChunk
  <2>5. Placed(free, k, e)
    <3>1. Len(free) \in Nat /\ \A j \in Nodes(free) : Lo(free, j) \in Nat
      BY <1>1, ListNumbers DEF GoodList
    <3>2. \A j \in 1 .. k - 1 : Lo(free, j) <= e.qbase
      BY <2>1, <2>2 DEF Lo
    <3>3. k <= Len(free) => Lo(free, k) > e.qbase /\ Lo(free, k) \in Nat
      BY <2>1, <2>2, <3>1 DEF Lo, Nodes
    <3> QED BY <2>4, <3>2, <3>3 DEF Placed
  <2>6. Grown(free', free, e)
    BY Zenon, <1>1, <2>1, <2>2, <2>3, <2>4, <2>5, InsertGrows
  <2>7. GoodList(free')
    BY <2>6 DEF Grown
  <2>8. /\ dev' \in [Funcs -> QRange] /\ dev'[f] = NoRange
        /\ \A g \in Funcs : g # f => dev'[g] = dev[g]
    BY <1>2, <1>6, NoRangeType
  <2>9. ASSUME NEW g \in Funcs, dev'[g].total_q # 0
        PROVE  g # f /\ Owns(g) /\ dev'[g] = dev[g]
    BY <2>8, <2>9, NoRangeType DEF Owns
  <2>10. TypeOK'
    <3>1. free' \in Seq(Chunks)
      BY <2>7 DEF GoodList
    <3> QED BY SMTT(60), <1>1, <1>6, <2>8, <3>1 DEF TypeOK
  <2>11. RangesOK'
    <3> SUFFICES ASSUME NEW g \in Funcs, dev'[g].total_q # 0
                 PROVE  /\ g \in entries'
                        /\ QBase <= dev'[g].qbase /\ End(dev'[g]) <= QBase + TotalQ
                        /\ ApartFrom(free', dev'[g].qbase, End(dev'[g]))
      BY DEF RangesOK, Owns
    <3>1. g # f /\ Owns(g) /\ dev'[g] = dev[g]
      BY Zenon, <2>9
    <3>2. /\ g \in entries
          /\ QBase <= dev[g].qbase /\ End(dev[g]) <= QBase + TotalQ
          /\ ApartFrom(free, dev[g].qbase, End(dev[g]))
      BY <1>1, <3>1 DEF RangesOK
    <3>3. dev[g].qbase \in Int /\ End(dev[g]) \in Int
      BY <1>2, RangeNumbers
    <3>4. End(e) <= dev[g].qbase \/ End(dev[g]) <= e.qbase
      BY Zenon, <1>1, <1>2, <1>6, <2>2, <3>1 DEF RangesApart, ApartRanges, Owns
    <3>5. ApartFrom(free', dev[g].qbase, End(dev[g]))
      BY Zenon, <2>6, <3>2, <3>3, <3>4 DEF Grown
    <3> QED BY <3>1, <3>2, <3>5
  <2>12. RangesApart'
    BY Zenon, <1>1, <2>9 DEF RangesApart, Owns
  <2>13. CallOK'
    BY Zenon, <1>6 DEF CallOK
  <2>14. GivenBack'
    BY Zenon, <2>8, NoRangeType DEF GivenBack, Owns
  <2>15. Covered'
    <3> SUFFICES ASSUME ~ AllocMayFail, NEW q \in Queues
                 PROVE  \/ ListCovers(free', q)
                        \/ \E g \in Funcs : dev'[g].total_q # 0 /\ Covers(dev'[g], q)
      BY Zenon DEF Covered, Owns
    <3>1. q \in Int
      BY ConstantsAssumption DEF Queues
    <3>2. CASE ListCovers(free, q)
      BY Zenon, <2>6, <3>1, <3>2 DEF Grown
    <3>3. CASE ~ ListCovers(free, q)
      <4>1. PICK g \in Funcs : Owns(g) /\ Covers(dev[g], q)
        BY Zenon, <1>1, <3>3 DEF Covered
      <4>2. CASE g = f
        BY Zenon, <2>2, <2>6, <3>1, <4>1, <4>2 DEF Grown
      <4>3. CASE g # f
        BY Zenon, <2>8, <4>1, <4>3 DEF Owns
      <4> QED BY Zenon, <4>2, <4>3
    <3> QED BY Zenon, <3>2, <3>3
  <2>16. OldHeld'
    BY Zenon, <2>2, <2>4, <2>6 DEF OldHeld, GaveBack, Grown
  <2>17. MergedSoFar'
    <3>1. Len(free') \in Nat /\ Len(free') >= 1
      <4>1. HoldsRange(free', e.qbase, End(e))
        BY Zenon, <2>6 DEF Grown
      <4>2. Len(free') \in Nat
        BY Zenon, <2>7, ListNumbers DEF GoodList
      <4> QED BY <4>1, <4>2 DEF HoldsRange, Nodes
    <3>2. SeparateUpTo(free', streach' - 1)
      BY SMTT(60), <1>6 DEF SeparateUpTo
    <3> QED BY SMTT(60), <1>6, <3>1, <3>2 DEF MergedSoFar
  <2> QED BY <1>4, <1>6, <2>7, <2>10, <2>11, <2>12, <2>13, <2>14, <2>15, <2>16, <2>17 DEF IInv
<1> QED BY <1>5, <1>6 DEF SubmitToFreeList

(***************************************************************************)
(* Every step.                                                             *)
(***************************************************************************)
LEMMA NextIInv == IInv /\ [Next]_vars => IInv'
<1> SUFFICES ASSUME IInv, [Next]_vars PROVE IInv'
  OBVIOUS
<1>0. /\ TypeOK /\ GoodList(free) /\ RangesOK /\ RangesApart /\ CallOK /\ GivenBack
      /\ Covered /\ ActiveOK /\ OldHeld /\ MergedSoFar
  BY DEF IInv
<1>1. CASE Defrag
  <2>1. /\ pc = "defrag" /\ streach < Len(free)
        /\ UNCHANGED <<entries, dev, active, active_qcnt, pc, call, rv>>
        /\ streach \in 1 .. Len(free) /\ streach \in Nat /\ Len(free) \in Nat
        /\ SeparateUpTo(free, streach - 1)
    <3>1. Len(free) \in Nat
      BY <1>0, ListNumbers DEF GoodList
    <3> QED BY <1>0, <1>1, <3>1 DEF Defrag, MergedSoFar, TypeOK
  <2>2. CallOK' /\ GivenBack' /\ ActiveOK' /\ RangesApart'
    BY Zenon, <1>0, <2>1 DEF CallOK, GivenBack, ActiveOK, RangesApart, Owns
  <2>3. CASE End(free[streach]) = free[streach + 1].qbase
    <3>1. /\ free' = ListDel(ListStore(free, streach,
                        Chunk(free[streach].qbase,
                              free[streach].total_q + free[streach + 1].total_q)),
                      streach + 1)
          /\ streach' = streach
      BY <1>1, <2>3 DEF Defrag
    <3>2. Hi(free, streach) = Lo(free, streach + 1)
      BY <2>3 DEF Hi, Lo
    <3>3. Merged(free', free, streach)
      BY SMTT(60), <1>0, <2>1, <3>1, <3>2, MergeKeeps
    <3>4. GoodList(free') /\ KeepsApart(free', free) /\ Len(free') = Len(free) - 1
      BY <3>3 DEF Merged
    <3>5. TypeOK'
      BY Zenon, <1>0, <2>1, <3>1, <3>4 DEF TypeOK, GoodList
    <3>6. RangesOK'
      <4> SUFFICES ASSUME NEW g \in Funcs, Owns(g)
                   PROVE  /\ g \in entries
                          /\ QBase <= dev[g].qbase /\ End(dev[g]) <= QBase + TotalQ
                          /\ ApartFrom(free', dev[g].qbase, End(dev[g]))
        BY <2>1 DEF RangesOK, Owns
      <4>1. dev[g].qbase \in Int /\ End(dev[g]) \in Int /\ dev[g].qbase < End(dev[g])
        <5>1. dev[g] \in QRange /\ dev[g].total_q # 0
          BY <1>0 DEF TypeOK, Owns
        <5>2. dev[g].qbase \in Int /\ dev[g].total_q \in Nat
          BY <5>1, RangeNumbers
        <5> QED BY <5>1, <5>2 DEF End
      <4>2. /\ g \in entries
            /\ QBase <= dev[g].qbase /\ End(dev[g]) <= QBase + TotalQ
            /\ ApartFrom(free, dev[g].qbase, End(dev[g]))
        BY Zenon, <1>0 DEF RangesOK
      <4>3. ApartFrom(free', dev[g].qbase, End(dev[g]))
        BY <3>4, <4>1, <4>2 DEF KeepsApart
      <4> QED BY <4>2, <4>3
    <3>7. Covered'
      <4>1. \A q \in Queues : q \in Int
        BY ConstantsAssumption DEF Queues
      <4>2. \A q \in Queues : ListCovers(free, q) => ListCovers(free', q)
        BY <3>3, <4>1 DEF Merged
      <4> QED BY Zenon, <1>0, <2>1, <4>2 DEF Covered, Owns
    <3>8. OldHeld'
      <4> SUFFICES ASSUME GaveBack
                   PROVE  /\ call.old.qbase \in Nat
                          /\ HoldsRange(free', call.old.qbase, End(call.old))
        BY Zenon, <2>1 DEF OldHeld, GaveBack
      <4>1. call.old.qbase \in Nat /\ HoldsRange(free, call.old.qbase, End(call.old))
        BY <1>0 DEF OldHeld
      <4>2. End(call.old) \in Int
        BY <1>0, RangeNumbers DEF TypeOK, Calls
      <4> QED BY <3>3, <4>1, <4>2 DEF Merged
    <3>9. MergedSoFar'
      <4>1. streach \in 1 .. Len(free')
        BY <2>1, <3>4
      <4>2. ASSUME NEW k \in 1 .. streach - 1
            PROVE  Hi(free', k) < Lo(free', k + 1)
        <5>1. Hi(free, k) < Lo(free, k + 1)
          BY <2>1 DEF SeparateUpTo
        <5>2. k + 1 \in 1 .. streach
          BY <2>1
        <5>3. Hi(free', k) = Hi(free, k) /\ Lo(free', k + 1) = Lo(free, k + 1)
          BY <3>3, <5>2 DEF Merged
        <5> QED BY <5>1, <5>3
      <4> QED BY Zenon, <2>1, <3>1, <4>1, <4>2 DEF MergedSoFar, SeparateUpTo
    <3> QED BY <2>2, <3>4, <3>5, <3>6, <3>7, <3>8, <3>9 DEF IInv
  <2>4. CASE End(free[streach]) # free[streach + 1].qbase
    <3>1. free' = free /\ streach' = streach + 1
      BY <1>1, <2>4 DEF Defrag
    <3>2. TypeOK'
      BY <1>0, <2>1, <3>1 DEF TypeOK
    <3>3. RangesOK' /\ Covered' /\ OldHeld'
      BY Zenon, <1>0, <2>1, <3>1 DEF RangesOK, Covered, OldHeld, GaveBack, Owns
    <3>4. Hi(free, streach) < Lo(free, streach + 1)
      <4>1. streach \in Nodes(free) /\ streach + 1 \in Nodes(free)
        BY <2>1 DEF Nodes
      <4>2. Hi(free, streach) <= Lo(free, streach + 1)
        BY <1>0, <4>1 DEF GoodList, Sorted, Nodes
      <4>3. Hi(free, streach) \in Nat /\ Lo(free, streach + 1) \in Nat
        BY <1>0, <4>1, ListNumbers DEF GoodList
      <4>4. Hi(free, streach) # Lo(free, streach + 1)
        BY <2>4 DEF Hi, Lo
      <4> QED BY <4>2, <4>3, <4>4
    <3>5. MergedSoFar'
      <4>1. streach' \in 1 .. Len(free')
        BY <2>1, <3>1
      <4>2. ASSUME NEW k \in 1 .. streach' - 1
            PROVE  Hi(free', k) < Lo(free', k + 1)
        <5>1. k \in 1 .. streach - 1 \/ k = streach
          BY <2>1, <3>1
        <5> QED BY <2>1, <3>1, <3>4, <5>1 DEF SeparateUpTo
      <4> QED BY Zenon, <2>1, <4>1, <4>2 DEF MergedSoFar, SeparateUpTo
    <3>6. GoodList(free)'
      BY <1>0, <3>1
    <3> QED BY <2>2, <3>2, <3>3, <3>5, <3>6 DEF IInv
  <2> QED BY <2>3, <2>4
<1>2. CASE DefragDone
  <2>1. /\ pc = "defrag" /\ streach >= Len(free) /\ pc' = call.op /\ streach' = 1
        /\ UNCHANGED <<free, entries, dev, active, active_qcnt, call, rv>>
        /\ streach \in 1 .. Len(free) /\ SeparateUpTo(free, streach - 1)
        /\ call.op \in {"take", "remove"} /\ Len(free) \in Nat
    <3>1. Len(free) \in Nat
      BY <1>0, ListNumbers DEF GoodList
    <3> QED BY <1>0, <1>2, <3>1 DEF DefragDone, MergedSoFar, CallOK
  <2>2. TypeOK'
    BY <1>0, <2>1 DEF TypeOK
  <2>3. RangesOK' /\ RangesApart' /\ Covered' /\ ActiveOK'
    BY Zenon, <1>0, <2>1 DEF RangesOK, RangesApart, Covered, ActiveOK, Owns
  <2>4. CallOK' /\ GivenBack' /\ OldHeld'
    BY Zenon, <1>0, <2>1 DEF CallOK, GivenBack, OldHeld, GaveBack, Owns
  <2>5. MergedSoFar'
    <3>1. streach = Len(free)
      BY <2>1
    <3> QED BY <2>1, <3>1 DEF MergedSoFar
  <2>6. GoodList(free)'
    BY <1>0, <2>1
  <2> QED BY <2>2, <2>3, <2>4, <2>5, <2>6 DEF IInv
<1>3. CASE RemoveEntry
  <2>1. PICK f : f = call.func
    OBVIOUS
  <2>2. /\ f \in entries /\ f \in Funcs /\ dev \in [Funcs -> QRange]
        /\ active \in [Funcs -> [QTypes -> Nat]]
        /\ pc = "remove" /\ pc' = "idle" /\ call' = NoCall
        /\ entries' = entries \ {f}
        /\ dev' = [dev EXCEPT ![f] = NoRange]
        /\ active' = [active EXCEPT ![f] = [t \in QTypes |-> 0]]
        /\ UNCHANGED <<free, active_qcnt, streach, rv>>
    BY <1>0, <1>3, <2>1 DEF RemoveEntry, CallOK, TypeOK
  <2>3. /\ dev' \in [Funcs -> QRange] /\ dev'[f] = NoRange
        /\ active' \in [Funcs -> [QTypes -> Nat]] /\ active'[f] = [t \in QTypes |-> 0]
        /\ \A g \in Funcs : g # f => dev'[g] = dev[g] /\ active'[g] = active[g]
    BY <2>2, NoRangeType
  <2>4. ASSUME NEW g \in Funcs, dev'[g].total_q # 0
        PROVE  g # f /\ Owns(g) /\ dev'[g] = dev[g]
    BY <2>3, <2>4, NoRangeType DEF Owns
  <2>5. TypeOK'
    BY <1>0, <2>2, <2>3, NoCallType DEF TypeOK
  <2>6. RangesOK'
    BY <1>0, <2>2, <2>4 DEF RangesOK, Owns
  <2>7. RangesApart'
    BY <1>0, <2>4 DEF RangesApart, Owns
  <2>8. CallOK' /\ GivenBack' /\ OldHeld' /\ MergedSoFar'
    BY Zenon, <2>2 DEF CallOK, GivenBack, OldHeld, GaveBack, MergedSoFar
  <2>9. Covered'
    <3>1. ~ AllocMayFail => ~ Owns(f)
      BY <1>0, <2>1, <2>2 DEF GivenBack
    <3>2. ASSUME NEW q \in Queues, NEW g \in Funcs, Owns(g), Covers(dev[g], q), ~ AllocMayFail
          PROVE  dev'[g].total_q # 0 /\ Covers(dev'[g], q)
      BY Zenon, <2>3, <3>1, <3>2 DEF Owns
    <3> QED BY <1>0, <2>2, <3>2 DEF Covered, Owns
  <2>10. ActiveOK'
    <3>1. call'.op = "none"
      BY <2>2, NoCallType
    <3>2. ASSUME NEW g \in Funcs, NEW t \in QTypes
          PROVE  active'[g][t] <= dev'[g].total_q
      <4>1. CASE g = f
        <5>1. active'[g][t] = 0 /\ dev'[g].total_q = 0
          BY <2>3, <4>1, NoRangeType
        <5> QED BY <5>1
      <4>2. CASE g # f
        BY <1>0, <2>1, <2>3, <4>2 DEF ActiveOK
      <4> QED BY <4>1, <4>2
    <3> QED BY <3>1, <3>2 DEF ActiveOK
  <2>11. GoodList(free)'
    BY <1>0, <2>2
  <2> QED BY <2>5, <2>6, <2>7, <2>8, <2>9, <2>10, <2>11 DEF IInv
\* Facts for the end of an update.
<1>4. ASSUME pc = "take"
      PROVE  /\ call.func \in Funcs /\ call.qmax \in Nat /\ call.qbase \in Int
             /\ call.old \in QRange /\ call.old.qbase \in Int /\ call.old.total_q \in Nat
             /\ Kept(free, free)
  <2>1. /\ call.func \in Funcs /\ call.qmax \in Nat /\ call.qbase \in Int
        /\ call.old \in QRange
    BY <1>0, <1>4 DEF TypeOK, CallOK, Calls
  <2> QED BY <1>0, <2>1, RangeNumbers, KeptSelf
<1>5. CASE TakeNothing
  <2>1. PICK f \in Funcs : f = call.func
    BY Zenon, <1>4, <1>5 DEF TakeNothing
  <2>2. PICK r \in QRange : r = dev[f]
    BY <1>0, <2>1 DEF TypeOK
  <2>3. pc = "take" /\ UpdateDone(r, free, "ok")
    BY <1>5, <2>1, <2>2 DEF TakeNothing
  <2>4. Fits(r, free, call.func)
    BY Zenon, <1>0, <2>1, <2>2 DEF Fits, RangesOK, RangesApart, Owns
  <2>5. KeepsApart(free, free)
    BY DEF KeepsApart
  <2> QED BY <1>0, <2>3, <2>4, <2>5, AssignKeeps
<1>6. CASE TakeNew
  <2>1. pc = "take" /\ TakeFrom(free, call.qmax, call.qbase, "ok")
    BY <1>6 DEF TakeNew
  <2> QED BY <1>4, <2>1, TakeFromKeeps
<1>7. CASE TakeOld
  <2>1. pc = "take"
    BY <1>7 DEF TakeOld
  <2>2. PICK l \in ListsOnNull(free, call.qmax, call.qbase) :
          \/ TakeFrom(l, call.old.total_q, call.old.qbase, "no_queues_left")
          \/ \E m \in ListsOnNull(l, call.old.total_q, call.old.qbase) :
                UpdateDone(NoRange, m, "no_queues_left")
    BY Zenon, <1>7 DEF TakeOld
  <2>3. Kept(l, free) /\ GoodList(l)
    BY Zenon, <1>0, <1>4, <2>1, NullLists DEF Kept
  <2>4. CASE TakeFrom(l, call.old.total_q, call.old.qbase, "no_queues_left")
    BY Zenon, <1>4, <2>1, <2>3, <2>4, TakeFromKeeps
  <2>5. CASE \E m \in ListsOnNull(l, call.old.total_q, call.old.qbase) :
                UpdateDone(NoRange, m, "no_queues_left")
    <3>1. PICK m \in ListsOnNull(l, call.old.total_q, call.old.qbase) :
                UpdateDone(NoRange, m, "no_queues_left")
      BY Zenon, <2>5
    <3>2. Kept(m, l)
      BY Zenon, <1>4, <2>1, <2>3, NullLists
    <3>3. Kept(m, free)
      BY <2>3, <3>2, KeptTrans
    <3>4. Fits(NoRange, m, call.func)
      BY Zenon, NoRangeType DEF Fits
    <3> QED BY Zenon, <2>1, <3>1, <3>3, <3>4, NoRangeType, AssignKeeps DEF Kept
  <2> QED BY <2>2, <2>4, <2>5
\* When nobody holds the lock.
<1>8. ASSUME pc = "idle"
      PROVE  /\ call = NoCall /\ call.func = NoFunc /\ call.op = "none"
             /\ NoFunc \notin Funcs
             /\ \A f \in Funcs, t \in QTypes : active[f][t] <= dev[f].total_q
  <2>1. call = NoCall /\ call.func = NoFunc /\ call.op = "none" /\ NoFunc \notin Funcs
    BY <1>0, <1>8, NoCallType, ConstantsAssumption DEF CallOK
  <2> QED BY Zenon, <1>0, <2>1 DEF ActiveOK
<1>9. ASSUME NEW f \in Funcs, DevEntryCreate(f)
      PROVE  IInv'
  <2>1. /\ pc = "idle" /\ f \notin entries /\ entries' = entries \union {f}
        /\ dev' = [dev EXCEPT ![f] = NoRange]
        /\ active' = [active EXCEPT ![f] = [t \in QTypes |-> 0]]
        /\ UNCHANGED <<free, active_qcnt, pc, call, streach, rv>>
        /\ dev \in [Funcs -> QRange] /\ active \in [Funcs -> [QTypes -> Nat]]
    BY Zenon, <1>0, <1>9 DEF DevEntryCreate, TypeOK
  <2>2. /\ dev' \in [Funcs -> QRange] /\ dev'[f] = NoRange
        /\ active' \in [Funcs -> [QTypes -> Nat]] /\ active'[f] = [t \in QTypes |-> 0]
        /\ \A g \in Funcs : g # f => dev'[g] = dev[g] /\ active'[g] = active[g]
    BY <2>1, NoRangeType
  <2>3. ASSUME NEW g \in Funcs, dev'[g].total_q # 0
        PROVE  g # f /\ Owns(g) /\ dev'[g] = dev[g]
    BY Zenon, <2>2, <2>3, NoRangeType DEF Owns
  <2>4. TypeOK'
    BY Zenon, <1>0, <2>1, <2>2 DEF TypeOK
  <2>5. RangesOK'
    BY Zenon, <1>0, <2>1, <2>3 DEF RangesOK, Owns
  <2>6. RangesApart'
    BY Zenon, <1>0, <2>3 DEF RangesApart, Owns
  <2>7. CallOK' /\ GivenBack' /\ OldHeld' /\ MergedSoFar'
    BY Zenon, <1>8, <2>1 DEF CallOK, GivenBack, OldHeld, GaveBack, MergedSoFar
  <2>8. Covered'
    <3>1. ~ Owns(f)
      BY <1>0, <2>1 DEF RangesOK
    <3>2. ASSUME NEW q \in Queues, NEW g \in Funcs, Owns(g), Covers(dev[g], q)
          PROVE  dev'[g].total_q # 0 /\ Covers(dev'[g], q)
      BY Zenon, <2>2, <3>1, <3>2 DEF Owns
    <3> QED BY <1>0, <2>1, <3>2 DEF Covered, Owns
  <2>9. ActiveOK'
    <3>1. ASSUME NEW g \in Funcs, NEW t \in QTypes
          PROVE  active'[g][t] <= dev'[g].total_q
      <4>1. CASE g = f
        <5>1. active'[g][t] = 0 /\ dev'[g].total_q = 0
          BY <2>2, <4>1, NoRangeType
        <5> QED BY <5>1
      <4>2. CASE g # f
        BY Zenon, <1>8, <2>1, <2>2, <4>2
      <4> QED BY <4>1, <4>2
    <3> QED BY Zenon, <1>8, <2>1, <3>1 DEF ActiveOK
  <2>10. GoodList(free)'
    BY <1>0, <2>1
  <2> QED BY <2>4, <2>5, <2>6, <2>7, <2>8, <2>9, <2>10 DEF IInv
<1>10. ASSUME NEW f \in Funcs, DevEntryDestroy(f)
       PROVE  IInv'
  <2>1. PICK c : c = [NoCall EXCEPT !.op = "remove", !.func = f]
    OBVIOUS
  <2>2. c \in Calls /\ c.func = f /\ c.op = "remove"
    BY Zenon, <2>1, NoCallType DEF NoCall, Calls
  <2>3. /\ pc = "idle" /\ f \in entries /\ call' = c /\ SubmitToFreeList(f, c.op)
        /\ UNCHANGED <<entries, active, active_qcnt, rv>>
    BY <1>10, <2>1, <2>2 DEF DevEntryDestroy
  <2> QED BY <2>2, <2>3, SubmitKeeps
<1>11. ASSUME NEW f \in Funcs, NEW qmax \in ReqQmax, NEW qbase \in ReqQbase,
              DevUpdate(f, qmax, qbase)
       PROVE  IInv'
  <2>1. PICK c : c = [op |-> "take", func |-> f, qmax |-> qmax, qbase |-> qbase,
                      old |-> dev[f]]
    BY Zenon
  <2>2. c \in Calls /\ c.func = f /\ c.op = "take" /\ c.old = dev[f]
    <3>1. dev[f] \in QRange /\ qmax \in Nat /\ qbase \in Int
      BY <1>0, ConstantsAssumption DEF TypeOK
    <3> QED BY <2>1, <3>1 DEF Calls
  <2>3. /\ pc = "idle" /\ f \in entries /\ call' = c /\ SubmitToFreeList(f, c.op)
        /\ UNCHANGED <<entries, active, active_qcnt, rv>>
        /\ \A t \in QTypes : active[f][t] = 0
    BY Zenon, <1>11, <2>1, <2>2 DEF DevUpdate, Busy
  <2> QED BY Zenon, <2>2, <2>3, SubmitKeeps
<1>12. ASSUME NEW f \in Funcs, NEW t \in QTypes,
              IncrementActiveQueue(f, t) \/ DecrementActiveQueue(f, t)
       PROVE  IInv'
  <2>1. /\ pc = "idle" /\ UNCHANGED <<free, entries, dev, pc, call, streach, rv>>
        /\ active \in [Funcs -> [QTypes -> Nat]]
        /\ active_qcnt \in Int /\ CountMod \in Nat /\ CountMod # 0
    BY <1>0, <1>12, ConstantsAssumption
       DEF IncrementActiveQueue, DecrementActiveQueue, TypeOK
  <2>2. active_qcnt' \in 0 .. CountMod - 1
    <3>1. \/ active_qcnt' = (active_qcnt + 1) % CountMod
          \/ active_qcnt' = (active_qcnt - 1) % CountMod
      BY Zenon, <1>12 DEF IncrementActiveQueue, DecrementActiveQueue
    <3>2. active_qcnt \in Int /\ CountMod \in Nat \ {0}
      BY <2>1
    <3> QED
      BY <3>1, <3>2
  <2>3. PICK n \in Nat : /\ n <= dev[f].total_q
                         /\ active' = [active EXCEPT ![f] = [@ EXCEPT ![t] = n]]
    <3>1. PICK a \in Nat, x \in Nat : a = active[f][t] /\ x = dev[f].total_q /\ a <= x
      <4>1. dev[f].total_q \in Nat /\ active[f][t] \in Nat
        BY <1>0, RangeNumbers DEF TypeOK
      <4> QED BY <1>8, <2>1, <4>1
    <3>2. CASE IncrementActiveQueue(f, t)
      <4>1. x >= a + 1 /\ active' = [active EXCEPT ![f] = [@ EXCEPT ![t] = a + 1]]
        BY <3>1, <3>2 DEF IncrementActiveQueue
      <4>2. a + 1 \in Nat /\ a + 1 <= x
        BY <4>1
      <4> QED BY Zenon, <3>1, <4>1, <4>2
    <3>3. CASE DecrementActiveQueue(f, t)
      <4>1. (IF a # 0 THEN a - 1 ELSE a) \in Nat /\ (IF a # 0 THEN a - 1 ELSE a) <= x
        BY <3>1
      <4> QED BY Zenon, <3>1, <3>3, <4>1 DEF DecrementActiveQueue
    <3> QED BY <1>12, <3>2, <3>3
  <2>4. /\ active' \in [Funcs -> [QTypes -> Nat]]
        /\ \A g \in Funcs, u \in QTypes : active'[g][u] <= dev[g].total_q
    <3>1. active' \in [Funcs -> [QTypes -> Nat]]
      BY <2>1, <2>3
    <3>2. ASSUME NEW g \in Funcs, NEW u \in QTypes
          PROVE  active'[g][u] <= dev[g].total_q
      <4>1. CASE g = f /\ u = t
        BY <2>1, <2>3, <4>1
      <4>2. CASE ~ (g = f /\ u = t)
        <5>1. active'[g][u] = active[g][u]
          BY <2>1, <2>3, <4>2
        <5> QED BY <1>8, <2>1, <5>1
      <4> QED BY <4>1, <4>2
    <3> QED BY <3>1, <3>2
  <2>5. TypeOK'
    BY Zenon, <1>0, <2>1, <2>2, <2>4 DEF TypeOK
  <2>6. RangesOK' /\ RangesApart' /\ Covered'
    BY Zenon, <1>0, <2>1 DEF RangesOK, RangesApart, Covered, Owns
  <2>7. CallOK' /\ GivenBack' /\ OldHeld' /\ MergedSoFar'
    BY Zenon, <1>8, <2>1 DEF CallOK, GivenBack, OldHeld, GaveBack, MergedSoFar
  <2>8. ActiveOK'
    BY Zenon, <1>8, <2>1, <2>4 DEF ActiveOK
  <2>9. GoodList(free)'
    BY <1>0, <2>1
  <2> QED BY <2>5, <2>6, <2>7, <2>8, <2>9 DEF IInv
\* A step that changes nothing but the return value.
<1>13. ASSUME UNCHANGED <<free, entries, dev, active, active_qcnt, pc, call, streach>>,
              rv' \in {"ok", "rejected", "no_queues_left"}
       PROVE  IInv'
  <2>1. TypeOK'
    BY <1>0, <1>13 DEF TypeOK
  <2>2. RangesOK' /\ RangesApart' /\ Covered' /\ ActiveOK'
    BY Zenon, <1>0, <1>13 DEF RangesOK, RangesApart, Covered, ActiveOK, Owns
  <2>3. CallOK' /\ GivenBack' /\ OldHeld' /\ MergedSoFar'
    BY Zenon, <1>0, <1>13 DEF CallOK, GivenBack, OldHeld, GaveBack, MergedSoFar, Owns
  <2>4. GoodList(free)'
    BY <1>0, <1>13
  <2> QED BY <2>1, <2>2, <2>3, <2>4 DEF IInv
<1>14. ASSUME NEW f \in Funcs, DevUpdateRejected(f)
       PROVE  IInv'
  BY <1>13, <1>14 DEF DevUpdateRejected
<1>15. CASE UNCHANGED vars
  BY <1>0, <1>13, <1>15 DEF vars, TypeOK
<1>16. CASE CallStep
  BY <1>1, <1>2, <1>3, <1>5, <1>6, <1>7, <1>16 DEF CallStep
<1> QED BY <1>9, <1>10, <1>11, <1>12, <1>14, <1>15, <1>16 DEF Next

\* The inductive invariant holds in every state that calls of the resource
\* manager reach.
THEOREM InvariantHolds == Spec => []IInv
<1>1. Init => IInv
  BY InitIInv
<1>2. IInv /\ [Next]_vars => IInv'
  BY NextIInv
<1> QED BY <1>1, <1>2, PTL DEF Spec

(***************************************************************************)
(* The properties.                                                         *)
(***************************************************************************)

\* The state of the resource manager has its types at every step of every call.
THEOREM TypeCorrect == Spec => []TypeOK
<1>1. IInv => TypeOK
  BY DEF IInv
<1> QED BY <1>1, InvariantHolds, PTL

\* A queue is in the free list when it is one of the queues of a node.
LEMMA FreeListCovers ==
    ASSUME GoodList(free), NEW q
    PROVE  /\ DOMAIN free = Nodes(free)
           /\ InFreeList(q) <=> ListCovers(free, q)
<1>1. DOMAIN free = Nodes(free)
  BY DEF GoodList, Nodes
<1> QED BY <1>1 DEF InFreeList, ListCovers, Covers, Lo, Hi

\* No queue is ever handed out twice: qdma_dev_is_queue_in_range is true of a
\* queue for one function at most, and then the queue is not on the free list,
\* for any number of functions, any board and any allocation failures.
THEOREM OneOwner == Spec => []QueueHasOneOwner
<1>1. IInv => QueueHasOneOwner
  <2> SUFFICES ASSUME IInv, NEW q \in Queues
               PROVE
                 /\ \A f, g \in Funcs : IsQueueInRange(f, q) /\ IsQueueInRange(g, q) => f = g
                 /\ \A f \in Funcs : IsQueueInRange(f, q) => ~ InFreeList(q)
                 /\ \A i, j \in DOMAIN free : Covers(free[i], q) /\ Covers(free[j], q) => i = j
    BY DEF QueueHasOneOwner
  <2>0. /\ GoodList(free) /\ free \in Seq(Chunks) /\ Sorted(free)
        /\ TypeOK /\ RangesOK /\ RangesApart
    BY DEF IInv, GoodList
  <2>1. /\ q \in Int /\ DOMAIN free = Nodes(free)
        /\ InFreeList(q) <=> ListCovers(free, q)
    BY <2>0, FreeListCovers, ConstantsAssumption DEF Queues
  <2>2. \A f \in Funcs : dev[f].qbase \in Int /\ End(dev[f]) \in Int
    BY <2>0, RangeNumbers DEF TypeOK
  <2>3. /\ Len(free) \in Nat
        /\ \A k \in Nodes(free) : Lo(free, k) \in Nat /\ Hi(free, k) \in Nat
    BY <2>0, ListNumbers
  <2>4. ASSUME NEW f \in Funcs, NEW g \in Funcs, f # g,
               IsQueueInRange(f, q), IsQueueInRange(g, q)
        PROVE  FALSE
    <3>1. Owns(f) /\ Owns(g) /\ Covers(dev[f], q) /\ Covers(dev[g], q)
      BY Zenon, <2>4 DEF IsQueueInRange, Owns
    <3>2. End(dev[f]) <= dev[g].qbase \/ End(dev[g]) <= dev[f].qbase
      BY Zenon, <2>0, <2>4, <3>1 DEF RangesApart, ApartRanges
    <3>3. dev[f].qbase <= q /\ q < End(dev[f]) /\ dev[g].qbase <= q /\ q < End(dev[g])
      BY Zenon, <3>1 DEF Covers
    <3> QED BY <2>1, <2>2, <3>2, <3>3
  <2>5. ASSUME NEW f \in Funcs, IsQueueInRange(f, q), ListCovers(free, q)
        PROVE  FALSE
    <3>1. Owns(f) /\ dev[f].qbase <= q /\ q < End(dev[f])
      BY Zenon, <2>5 DEF IsQueueInRange, Owns, Covers
    <3>2. PICK k \in Nodes(free) : Lo(free, k) <= q /\ q < Hi(free, k)
      BY <2>5 DEF ListCovers
    <3>3. Hi(free, k) <= dev[f].qbase \/ End(dev[f]) <= Lo(free, k)
      BY Zenon, <2>0, <3>1 DEF RangesOK, ApartFrom
    <3> QED BY <2>1, <2>2, <2>3, <3>1, <3>2, <3>3
  <2>6. ASSUME NEW i \in Nodes(free), NEW j \in Nodes(free), i # j,
               Covers(free[i], q), Covers(free[j], q)
        PROVE  FALSE
    <3>1. Lo(free, i) <= q /\ q < Hi(free, i) /\ Lo(free, j) <= q /\ q < Hi(free, j)
      BY <2>6 DEF Covers, Lo, Hi
    <3>2. Hi(free, i) <= Lo(free, j) \/ Hi(free, j) <= Lo(free, i)
      BY <2>0, <2>6 DEF Sorted, Nodes
    <3> QED BY <2>1, <2>3, <3>1, <3>2
  <2> QED BY <2>1, <2>4, <2>5, <2>6
<1> QED BY <1>1, InvariantHolds, PTL

\* No queue is lost as long as no allocation fails.
THEOREM NoneLost == Spec => []NoQueueLost
<1>1. IInv => NoQueueLost
  <2> SUFFICES ASSUME IInv, ~ AllocMayFail, NEW q \in Queues
               PROVE  InFreeList(q) \/ \E f \in Funcs : IsQueueInRange(f, q)
    BY DEF NoQueueLost
  <2>1. GoodList(free) /\ RangesOK /\ Covered
    BY DEF IInv
  <2>2. InFreeList(q) <=> ListCovers(free, q)
    BY <2>1, FreeListCovers
  <2>3. ASSUME NEW f \in Funcs, Owns(f), Covers(dev[f], q)
        PROVE  IsQueueInRange(f, q)
    BY Zenon, <2>1, <2>3 DEF RangesOK, IsQueueInRange, Owns
  <2> QED BY <2>1, <2>2, <2>3 DEF Covered
<1> QED BY <1>1, InvariantHolds, PTL

\* The active queues of a function fit into its range.
THEOREM ActiveFits == Spec => []ActiveWithinRange
<1>1. IInv => ActiveWithinRange
  BY DEF IInv, ActiveOK, ActiveWithinRange, TypeOK
<1> QED BY <1>1, InvariantHolds, PTL

\* Nothing moves the range of a function with an active queue but the
\* destruction of its entry.
THEOREM RangeKept == Spec => RangeKeptWhileActive
<1> DEFINE A == \A f \in entries : Busy(f) /\ call'.op # "remove" /\ call.op # "remove"
                                     => dev'[f] = dev[f]
<1>1. IInv /\ [Next]_vars => [A]_vars
  <2> SUFFICES ASSUME IInv, Next,
                      NEW f \in entries, Busy(f), call'.op # "remove", call.op # "remove"
               PROVE  dev'[f] = dev[f]
    OBVIOUS
  <2>0. TypeOK /\ CallOK /\ ActiveOK /\ f \in Funcs /\ dev \in [Funcs -> QRange]
    BY DEF IInv, TypeOK
  <2>1. ASSUME NEW g, dev' = [dev EXCEPT ![g] = dev'[g]], g # f
        PROVE  dev'[f] = dev[f]
    BY <2>0, <2>1
  <2>2. ASSUME pc = "take" PROVE call.func # f
    <3>1. call.op = "take"
      BY <2>0, <2>2 DEF CallOK
    <3> QED BY Zenon, <2>0, <3>1 DEF ActiveOK, Busy
  <2>3. ASSUME NEW r, NEW m, NEW x, pc = "take", UpdateDone(r, m, x)
        PROVE  dev'[f] = dev[f]
    BY <2>0, <2>2, <2>3 DEF UpdateDone
  <2>4. CASE CallStep
    <3>1. CASE Defrag \/ DefragDone
      BY Zenon, <3>1 DEF Defrag, DefragDone
    <3>2. CASE RemoveEntry
      BY <2>0, <3>2 DEF RemoveEntry, CallOK
    <3>3. CASE TakeNothing
      BY Zenon, <2>3, <3>3 DEF TakeNothing
    <3>4. CASE TakeNew
      BY Zenon, <2>3, <3>4 DEF TakeNew, TakeFrom
    <3>5. CASE TakeOld
      BY Zenon, <2>3, <3>5 DEF TakeOld, TakeFrom
    <3> QED BY Zenon, <2>4, <3>1, <3>2, <3>3, <3>4, <3>5 DEF CallStep
  <2>5. ASSUME NEW g \in Funcs, DevEntryCreate(g) PROVE dev'[f] = dev[f]
    BY <2>0, <2>5 DEF DevEntryCreate
  <2>6. ASSUME NEW g \in Funcs, DevEntryDestroy(g) PROVE FALSE
    BY <2>6, NoCallType DEF DevEntryDestroy, NoCall
  <2>7. ASSUME NEW g \in Funcs, NEW qmax \in ReqQmax, NEW qbase \in ReqQbase,
               DevUpdate(g, qmax, qbase)
        PROVE  dev'[f] = dev[f]
    <3>1. g # f
      BY <2>7 DEF DevUpdate
    <3>2. dev' = dev \/ dev' = [dev EXCEPT ![g] = NoRange]
      BY Zenon, <2>7 DEF DevUpdate, SubmitToFreeList
    <3> QED BY <2>0, <3>1, <3>2
  <2>8. ASSUME NEW g \in Funcs, NEW t \in QTypes,
               IncrementActiveQueue(g, t) \/ DecrementActiveQueue(g, t)
        PROVE  dev'[f] = dev[f]
    BY <2>8 DEF IncrementActiveQueue, DecrementActiveQueue
  <2>9. ASSUME NEW g \in Funcs, DevUpdateRejected(g) PROVE dev'[f] = dev[f]
    BY <2>9 DEF DevUpdateRejected
  <2> QED BY Zenon, <2>4, <2>5, <2>6, <2>7, <2>8, <2>9 DEF Next
<1> HIDE DEF A
<1>2. Spec => [][A]_vars
  BY <1>1, InvariantHolds, PTL DEF Spec
<1> QED BY <1>2 DEF RangeKeptWhileActive, A

\* The step in which an update is refused: the look-up found no node, and the
\* one for the range that was given back did.
LEMMA RefusingStep ==
    ASSUME IInv, Next, UpdateFails, ~ AllocMayFail, call.old.total_q # 0
    PROVE  /\ \A k \in DOMAIN free : free[k].total_q < call.qmax
           /\ call.qmax \in Nat
           /\ SeparateUpTo(free, Len(free) - 1)
           /\ dev'[call.func] = call.old
<1>0. /\ TypeOK /\ CallOK /\ GoodList(free) /\ OldHeld /\ MergedSoFar
      /\ pc = "take" /\ pc' = "idle" /\ rv' = "no_queues_left"
  BY DEF IInv, UpdateFails
<1>1. /\ call.op = "take" /\ call.func \in Funcs /\ call.qmax \in Nat
      /\ call.qbase \in Int /\ call.old \in QRange /\ dev \in [Funcs -> QRange]
  BY <1>0 DEF CallOK, TypeOK, Calls
<1>2. GaveBack
  BY Zenon, <1>0, <1>1 DEF GaveBack
<1>3. SeparateUpTo(free, Len(free) - 1) /\ HoldsRange(free, call.old.qbase, End(call.old))
      /\ call.old.qbase \in Nat /\ call.old.total_q \in Nat
  BY Zenon, <1>0, <1>1, <1>2, RangeNumbers DEF OldHeld, MergedSoFar
<1>4. TakeOld
  <2>1. ~ (TakeNothing \/ TakeNew)
    BY <1>0 DEF TakeNothing, TakeNew, TakeFrom, UpdateDone
  <2>2. ~ (Defrag \/ DefragDone \/ RemoveEntry)
    BY Zenon, <1>0 DEF Defrag, DefragDone, RemoveEntry
  <2>3. \A f \in Funcs :
          /\ ~ (DevEntryCreate(f) \/ DevEntryDestroy(f) \/ DevUpdateRejected(f))
          /\ \A qmax \in ReqQmax, qbase \in ReqQbase : ~ DevUpdate(f, qmax, qbase)
          /\ \A t \in QTypes : ~ (IncrementActiveQueue(f, t) \/ DecrementActiveQueue(f, t))
    BY <1>0 DEF DevEntryCreate, DevEntryDestroy, DevUpdateRejected, DevUpdate,
                IncrementActiveQueue, DecrementActiveQueue
  <2> QED BY Zenon, <2>1, <2>2, <2>3 DEF Next, CallStep
<1>5. PICK l \in ListsOnNull(free, call.qmax, call.qbase) :
        \/ TakeFrom(l, call.old.total_q, call.old.qbase, "no_queues_left")
        \/ \E m \in ListsOnNull(l, call.old.total_q, call.old.qbase) :
              UpdateDone(NoRange, m, "no_queues_left")
  BY Zenon, <1>4 DEF TakeOld
<1>6. l = free /\ \A k \in DOMAIN free : free[k].total_q < call.qmax
  BY Zenon, <1>0, <1>1, <1>5, NullLists
<1>7. PICK k \in DOMAIN free : Holds(free[k], call.old.total_q, call.old.qbase)
  <2>1. PICK k \in Nodes(free) : Lo(free, k) <= call.old.qbase /\ End(call.old) <= Hi(free, k)
    BY Zenon, <1>3 DEF HoldsRange
  <2>2. k \in DOMAIN free
    BY <1>0 DEF GoodList, Nodes
  <2>3. Lo(free, k) \in Nat /\ Hi(free, k) \in Nat
    BY Zenon, <1>0, ListNumbers DEF GoodList
  <2>4. free[k].qbase = Lo(free, k) /\ End(free[k]) = Hi(free, k)
        /\ End(call.old) = call.old.qbase + call.old.total_q
    BY DEF Lo, Hi, End
  <2>5. call.old.qbase >= Lo(free, k) /\ Hi(free, k) >= call.old.qbase + call.old.total_q
    BY Zenon, <1>3, <2>1, <2>3, <2>4
  <2> QED BY Zenon, <2>2, <2>4, <2>5 DEF Holds
<1>8. Honoured(free, call.old.total_q, call.old.qbase)
  <2>1. call.old.qbase \in Nat
    BY Zenon, <1>3
  <2>2. call.old.qbase >= 0
    BY <2>1
  <2> QED BY Zenon, <1>7, <2>2 DEF Honoured
<1>9. CASE TakeFrom(l, call.old.total_q, call.old.qbase, "no_queues_left")
  <2>1. PICK i : UpdateDone(Chunk(call.old.qbase, call.old.total_q),
                    Carve(l, i, call.old.qbase, call.old.total_q), "no_queues_left")
    BY Zenon, <1>6, <1>8, <1>9 DEF TakeFrom, NodeBase
  <2>2. call.old = Chunk(call.old.qbase, call.old.total_q)
    BY Zenon, <1>1, <1>3, RangeIsChunk
  <2>3. dev'[call.func] = Chunk(call.old.qbase, call.old.total_q)
    BY Zenon, <1>1, <2>1 DEF UpdateDone
  <2> QED BY Zenon, <1>1, <1>3, <1>6, <2>2, <2>3
<1>10. CASE \E m \in ListsOnNull(l, call.old.total_q, call.old.qbase) :
              UpdateDone(NoRange, m, "no_queues_left")
  <2>1. PICK t \in Nat, b \in Int : t = call.old.total_q /\ b = call.old.qbase
    BY <1>3
  <2>2. GoodList(free) /\ free[k] \in Chunks
    BY <1>0 DEF GoodList
  <2>3. PICK x \in Nat, n \in Nat : x = free[k].qbase /\ n = free[k].total_q
    BY Zenon, <2>2, ChunkNumbers
  <2>4. n < t
    <3>1. PICK m \in ListsOnNull(free, t, b) : TRUE
      BY Zenon, <1>6, <1>10, <2>1
    <3>2. \A j \in DOMAIN free : free[j].total_q < t
      BY Zenon, <2>2, <3>1, NullLists
    <3> QED BY Zenon, <2>3, <3>2
  <2>5. b >= x /\ x + n >= b + t
    <3>1. Holds(free[k], t, b)
      BY Zenon, <1>7, <2>1
    <3> QED BY Zenon, <2>3, <3>1 DEF Holds, End
  <2> HIDE <1>10
  <2>6. FALSE
    BY <2>4, <2>5
  <2> QED BY Zenon, <2>6
<1> QED BY Zenon, <1>5, <1>9, <1>10

\* A refused request leaves the range that was given back where it was.
THEOREM FailedKeeps == Spec => FailedUpdateKeepsRange
<1> DEFINE A == UpdateFails /\ ~ AllocMayFail /\ call.old.total_q # 0
                  => dev'[call.func] = call.old
<1>1. IInv /\ [Next]_vars => [A]_vars
  BY RefusingStep
<1> HIDE DEF A
<1>2. Spec => [][A]_vars
  BY <1>1, InvariantHolds, PTL DEF Spec
<1> QED BY <1>2 DEF FailedUpdateKeepsRange, A

\* Nodes that are not adjacent and all too small leave no run of free queues
\* of the requested size.
LEMMA NoRunLeft ==
    ASSUME NEW l, GoodList(l), NEW qmax \in Nat, NEW b \in Int,
           \A k \in Nodes(l) : Hi(l, k) - Lo(l, k) < qmax,
           SeparateUpTo(l, Len(l) - 1), qmax # 0
    PROVE  \E q \in b .. b + qmax - 1 : ~ ListCovers(l, q)
<1> SUFFICES ASSUME \A q \in b .. b + qmax - 1 : ListCovers(l, q)
             PROVE  FALSE
  OBVIOUS
<1>1. l \in Seq(Chunks) /\ Sorted(l)
  BY DEF GoodList
<1>2. /\ Len(l) \in Nat
      /\ \A k \in Nodes(l) : Lo(l, k) \in Nat /\ Hi(l, k) \in Nat /\ Lo(l, k) < Hi(l, k)
  BY <1>1, ListNumbers
<1>3. PICK k \in Nodes(l) : Lo(l, k) <= b /\ b < Hi(l, k)
  <2>1. b \in b .. b + qmax - 1
    OBVIOUS
  <2> QED BY <2>1 DEF ListCovers
<1>4. PICK q \in Nat : q = Hi(l, k)
  BY <1>2
<1>5. PICK j \in Nodes(l) : Lo(l, j) <= q /\ q < Hi(l, j)
  <2>1. Hi(l, k) - Lo(l, k) < qmax /\ Lo(l, k) \in Nat
    BY <1>2
  <2>2. q \in b .. b + qmax - 1
    BY <1>3, <1>4, <2>1
  <2> QED BY <2>2 DEF ListCovers
<1>6. /\ Lo(l, j) \in Nat /\ Hi(l, j) \in Nat
      /\ Lo(l, k) \in Nat /\ Hi(l, k) \in Nat /\ Lo(l, k) < Hi(l, k)
  BY <1>2
<1>7. CASE j = k
  BY <1>4, <1>5, <1>6, <1>7
<1>8. CASE j < k
  <2>1. Hi(l, j) <= Lo(l, k)
    BY <1>1, <1>8 DEF Sorted
  <2> QED BY <1>4, <1>5, <1>6, <2>1
<1>9. CASE j > k
  <2>1. k \in 1 .. Len(l) - 1 /\ k + 1 \in Nodes(l) /\ (j = k + 1 \/ k + 1 < j)
    BY <1>2, <1>9 DEF Nodes
  <2>2. Hi(l, k) < Lo(l, k + 1)
    BY <2>1 DEF SeparateUpTo
  <2>3. /\ Lo(l, k + 1) \in Nat /\ Hi(l, k + 1) \in Nat
        /\ Lo(l, k + 1) < Hi(l, k + 1)
    BY <1>2, <2>1
  <2>4. CASE j = k + 1
    BY <1>4, <1>5, <1>6, <2>2, <2>4
  <2>5. CASE k + 1 < j
    <3>1. Hi(l, k + 1) <= Lo(l, j)
      BY <1>1, <2>1, <2>5 DEF Sorted
    <3> QED BY SMTT(60), <1>4, <1>5, <1>6, <2>2, <2>3, <3>1
  <2> QED BY <2>1, <2>4, <2>5
<1> QED BY <1>7, <1>8, <1>9 DEF Nodes

\* A function that owns queues is refused only when no run of free queues of
\* the size it asks for exists: the merge loop and the look-up miss none.
THEOREM RefusedOnlyIfFull == Spec => RefusedOnlyWhenFull
<1> DEFINE A == UpdateFails /\ ~ AllocMayFail /\ call.old.total_q # 0
                  => \A b \in Queues : \E q \in b .. b + call.qmax - 1 : ~ InFreeList(q)
<1>1. IInv /\ [Next]_vars => [A]_vars
  <2> SUFFICES ASSUME IInv, Next, UpdateFails, ~ AllocMayFail, call.old.total_q # 0,
                      NEW b \in Queues
               PROVE  \E q \in b .. b + call.qmax - 1 : ~ InFreeList(q)
    OBVIOUS
  <2>1. /\ \A k \in DOMAIN free : free[k].total_q < call.qmax
        /\ call.qmax \in Nat
        /\ SeparateUpTo(free, Len(free) - 1)
    BY RefusingStep
  <2>2. GoodList(free) /\ HoldsRange(free, call.old.qbase, End(call.old))
    BY Zenon DEF IInv, OldHeld, GaveBack, UpdateFails, CallOK
  <2>3. DOMAIN free = Nodes(free) /\ \A q : InFreeList(q) <=> ListCovers(free, q)
    BY Zenon, <2>2, FreeListCovers
  <2>4. ASSUME NEW k \in Nodes(free)
        PROVE  Hi(free, k) - Lo(free, k) < call.qmax
    <3>1. free[k] \in Chunks
      BY Zenon, <2>2, ListNumbers DEF GoodList
    <3>2. PICK x \in Nat, n \in Nat : x = free[k].qbase /\ n = free[k].total_q
      BY <3>1, ChunkNumbers
    <3>3. Hi(free, k) = x + n /\ Lo(free, k) = x /\ n < call.qmax
      BY Zenon, <2>1, <2>3, <3>2 DEF Hi, Lo, End
    <3> QED BY <2>1, <3>3
  <2>5. call.qmax # 0
    <3>1. PICK k \in Nodes(free) : TRUE
      BY Zenon, <2>2 DEF HoldsRange
    <3>2. free[k] \in Chunks
      BY Zenon, <2>2, ListNumbers DEF GoodList
    <3>3. free[k].total_q \in Nat /\ free[k].total_q < call.qmax
      BY Zenon, <2>1, <2>3, <3>2, ChunkNumbers
    <3> QED BY <2>1, <3>3
  <2>6. b \in Int
    BY ConstantsAssumption DEF Queues
  <2>7. \E q \in b .. b + call.qmax - 1 : ~ ListCovers(free, q)
    BY Zenon, <2>1, <2>2, <2>4, <2>5, <2>6, NoRunLeft
  <2> QED BY <2>3, <2>7
<1> HIDE DEF A
<1>2. Spec => [][A]_vars
  BY <1>1, InvariantHolds, PTL DEF Spec
<1> QED BY <1>2 DEF RefusedOnlyWhenFull, A
=============================================================================
