------------------------- MODULE QdmaResourceLists --------------------------
(***************************************************************************)
(* What the operations of qdma_resource_mgmt.c on the free list do to it:  *)
(* lemmas about lists of every length, which QdmaResourceProofs builds on. *)
(***************************************************************************)
EXTENDS QdmaResourceInv, SequenceTheorems, TLAPS

(***************************************************************************)
(* What the list operations do to the positions of a list.                 *)
(***************************************************************************)

Joined(s, a, b) ==
    /\ Len(s) = Len(a) + Len(b)
    /\ \A k \in 1 .. Len(a) : s[k] = a[k]
    /\ \A k \in 1 .. Len(b) : s[Len(a) + k] = b[k]
Removed(m, s, i) ==
    /\ Len(m) = Len(s) - 1
    /\ \A k \in 1 .. i - 1 : m[k] = s[k]
    /\ \A k \in i .. Len(s) - 1 : m[k] = s[k + 1]
Inserted(m, s, i, e) ==
    /\ Len(m) = Len(s) + 1
    /\ \A k \in 1 .. i - 1 : m[k] = s[k]
    /\ m[i] = e
    /\ \A k \in i .. Len(s) : m[k + 1] = s[k]
Replaced(m, s, i, e) ==
    /\ Len(m) = Len(s)
    /\ \A k \in 1 .. Len(s) : k # i => m[k] = s[k]
    /\ m[i] = e

\* Positions of a concatenation, in the form the lemmas below use.
LEMMA ConcatPositions ==
    ASSUME NEW S, NEW a \in Seq(S), NEW b \in Seq(S), NEW s, s = a \o b
    PROVE  s \in Seq(S) /\ Joined(s, a, b)
<1>1. /\ s \in Seq(S)
      /\ Len(s) = Len(a) + Len(b)
      /\ \A k \in 1 .. Len(a) + Len(b) :
            s[k] = IF k <= Len(a) THEN a[k] ELSE b[k - Len(a)]
  BY ConcatProperties
<1>2. Len(a) \in Nat /\ Len(b) \in Nat
  BY LenProperties
<1>3. ASSUME NEW k \in 1 .. Len(a) PROVE s[k] = a[k]
  BY <1>1, <1>2
<1>4. ASSUME NEW k \in 1 .. Len(b) PROVE s[Len(a) + k] = b[k]
  <2>1. Len(a) + k \in 1 .. Len(a) + Len(b) /\ ~ (Len(a) + k <= Len(a))
    BY <1>2
  <2>2. Len(a) + k - Len(a) = k
    BY <1>2
  <2> QED BY <1>1, <2>1, <2>2
<1> QED BY <1>1, <1>3, <1>4 DEF Joined

\* Positions of the front and of the back of a sequence.
LEMMA FrontPositions ==
    ASSUME NEW S, NEW s \in Seq(S), NEW i \in 1 .. Len(s) + 1,
           NEW a, a = SubSeq(s, 1, i - 1)
    PROVE  a \in Seq(S) /\ Len(a) = i - 1 /\ \A k \in 1 .. i - 1 : a[k] = s[k]
BY SubSeqProperties

\* The nodes of a list from place i on.
LEMMA BackPositions ==
    ASSUME NEW S, NEW s \in Seq(S), NEW i \in 1 .. Len(s) + 1,
           NEW b, b = SubSeq(s, i, Len(s))
    PROVE  /\ b \in Seq(S)
           /\ Len(b) = Len(s) - i + 1
           /\ \A k \in 1 .. Len(s) - i + 1 : b[k] = s[i + k - 1]
BY SubSeqProperties

\* Removing node i moves the nodes behind it one place forward.
LEMMA ListDelPositions ==
    ASSUME NEW S, NEW s \in Seq(S), NEW i \in 1 .. Len(s),
           NEW m, m = ListDel(s, i)
    PROVE  m \in Seq(S) /\ Removed(m, s, i)
<1>1. PICK a : a = SubSeq(s, 1, i - 1)
  BY Zenon
<1>2. PICK b : b = SubSeq(s, i + 1, Len(s))
  BY Zenon
<1>3. Len(s) \in Nat /\ i + 1 \in 1 .. Len(s) + 1 /\ i \in 1 .. Len(s) + 1
  BY LenProperties
<1>4. a \in Seq(S) /\ Len(a) = i - 1 /\ \A k \in 1 .. i - 1 : a[k] = s[k]
  BY <1>1, <1>3, FrontPositions
<1>5. /\ b \in Seq(S)
      /\ Len(b) = Len(s) - (i + 1) + 1
      /\ \A k \in 1 .. Len(s) - (i + 1) + 1 : b[k] = s[(i + 1) + k - 1]
  BY <1>2, <1>3, BackPositions
<1>6. m = a \o b
  BY <1>1, <1>2 DEF ListDel
<1>7. m \in Seq(S) /\ Joined(m, a, b)
  <2>1. a \in Seq(S) /\ b \in Seq(S)
    BY <1>4, <1>5
  <2> QED BY Zenon, <1>6, <2>1, ConcatPositions
<1>8. Len(m) = Len(s) - 1
  <2>1. Len(a) = i - 1 /\ Len(b) = Len(s) - (i + 1) + 1 /\ Len(m) = Len(a) + Len(b)
    BY <1>4, <1>5, <1>7 DEF Joined
  <2> QED BY <1>3, <2>1
<1>9. ASSUME NEW k \in 1 .. i - 1 PROVE m[k] = s[k]
  BY <1>4, <1>7 DEF Joined
<1>10. ASSUME NEW k \in i .. Len(s) - 1 PROVE m[k] = s[k + 1]
  <2>1. PICK j \in 1 .. Len(s) - (i + 1) + 1 : k = i - 1 + j
    <3>1. k - i + 1 \in 1 .. Len(s) - (i + 1) + 1 /\ k = i - 1 + (k - i + 1)
      BY <1>3
    <3> QED BY <3>1
  <2>2. m[Len(a) + j] = b[j] /\ b[j] = s[(i + 1) + j - 1]
    BY <1>5, <1>7 DEF Joined
  <2>3. Len(a) + j = k /\ (i + 1) + j - 1 = k + 1
    <3>1. Len(a) = i - 1
      BY <1>4
    <3> QED BY <1>3, <2>1, <3>1
  <2> QED BY <2>2, <2>3
<1> QED BY <1>7, <1>8, <1>9, <1>10 DEF Removed

\* Inserting at place i moves the nodes from there on one place back.
LEMMA ListInsertPositions ==
    ASSUME NEW S, NEW s \in Seq(S), NEW i \in 1 .. Len(s) + 1, NEW e \in S,
           NEW m, m = ListInsert(s, i, e)
    PROVE  m \in Seq(S) /\ Inserted(m, s, i, e)
<1>1. PICK a : a = SubSeq(s, 1, i - 1)
  BY Zenon
<1>2. PICK b : b = SubSeq(s, i, Len(s))
  BY Zenon
<1>3. PICK x : x = <<e>>
  BY Zenon
<1>4. PICK c : c = a \o x
  BY Zenon
<1>5. Len(s) \in Nat
  BY LenProperties
<1>6. a \in Seq(S) /\ Len(a) = i - 1 /\ \A k \in 1 .. i - 1 : a[k] = s[k]
  BY <1>1, FrontPositions
<1>7. /\ b \in Seq(S)
      /\ Len(b) = Len(s) - i + 1
      /\ \A k \in 1 .. Len(s) - i + 1 : b[k] = s[i + k - 1]
  BY <1>2, BackPositions
<1>8. x \in Seq(S) /\ Len(x) = 1 /\ x[1] = e
  BY <1>3
<1>9. c \in Seq(S) /\ Joined(c, a, x)
  <2>1. a \in Seq(S) /\ x \in Seq(S)
    BY <1>6, <1>8
  <2> QED BY Zenon, <1>4, <2>1, ConcatPositions
<1>10. Len(c) = i
  <2>1. Len(a) = i - 1 /\ Len(x) = 1 /\ Len(c) = Len(a) + Len(x)
    BY <1>6, <1>8, <1>9 DEF Joined
  <2> QED BY <2>1
<1>11. m = c \o b
  BY <1>1, <1>2, <1>3, <1>4 DEF ListInsert
<1>12. m \in Seq(S) /\ Joined(m, c, b)
  <2>1. c \in Seq(S) /\ b \in Seq(S)
    BY <1>7, <1>9
  <2> QED BY Zenon, <1>11, <2>1, ConcatPositions
<1>13. Len(m) = Len(s) + 1
  <2>1. Len(c) = i /\ Len(b) = Len(s) - i + 1 /\ Len(m) = Len(c) + Len(b)
    BY <1>7, <1>10, <1>12 DEF Joined
  <2> QED BY <1>5, <2>1
<1>14. ASSUME NEW k \in 1 .. i - 1 PROVE m[k] = s[k]
  <2>1. k \in 1 .. Len(a) /\ k \in 1 .. Len(c)
    BY <1>6, <1>10
  <2> QED BY <1>6, <1>9, <1>12, <2>1 DEF Joined
<1>15. m[i] = e
  <2>1. i \in 1 .. Len(c) /\ 1 \in 1 .. Len(x) /\ Len(a) + 1 = i
    BY <1>6, <1>8, <1>10
  <2>2. m[i] = c[i] /\ c[Len(a) + 1] = x[1]
    BY <1>9, <1>12, <2>1 DEF Joined
  <2> QED BY <1>8, <2>1, <2>2
<1>16. ASSUME NEW k \in i .. Len(s) PROVE m[k + 1] = s[k]
  <2>1. PICK j \in 1 .. Len(s) - i + 1 : k = i + j - 1
    <3>1. k - i + 1 \in 1 .. Len(s) - i + 1 /\ k = i + (k - i + 1) - 1
      BY <1>5
    <3> QED BY <3>1
  <2>2. m[Len(c) + j] = b[j] /\ b[j] = s[i + j - 1]
    BY <1>7, <1>12 DEF Joined
  <2>3. Len(c) + j = k + 1
    BY <1>5, <1>10, <2>1
  <2> QED BY <2>1, <2>2, <2>3
<1> QED BY <1>12, <1>13, <1>14, <1>15, <1>16 DEF Inserted

\* Replacing node i leaves the others alone.
LEMMA ListStorePositions ==
    ASSUME NEW S, NEW s \in Seq(S), NEW i \in 1 .. Len(s), NEW e \in S,
           NEW m, m = ListStore(s, i, e)
    PROVE  m \in Seq(S) /\ Replaced(m, s, i, e)
BY DEF ListStore, Replaced

(***************************************************************************)
(* The numbers behind chunks and lists.                                    *)
(***************************************************************************)
\* The numbers a chunk is made of.
LEMMA ChunkNumbers ==
    ASSUME NEW c \in Chunks
    PROVE  /\ c.qbase \in Nat /\ c.total_q \in Nat /\ c.total_q > 0
           /\ End(c) \in Nat /\ c.qbase < End(c)
BY DEF Chunks, End

\* A chunk that is made from two numbers.
LEMMA ChunkMade ==
    ASSUME NEW b \in Nat, NEW n \in Nat, n # 0
    PROVE  /\ Chunk(b, n) \in Chunks
           /\ Chunk(b, n).qbase = b /\ End(Chunk(b, n)) = b + n
BY DEF Chunks, Chunk, End

\* The numbers a list is made of.
LEMMA ListNumbers ==
    ASSUME NEW l \in Seq(Chunks)
    PROVE  /\ Len(l) \in Nat
           /\ \A k \in Nodes(l) : l[k] \in Chunks
           /\ \A k \in Nodes(l) :
                Lo(l, k) \in Nat /\ Hi(l, k) \in Nat /\ Lo(l, k) < Hi(l, k)
<1>1. Len(l) \in Nat /\ \A k \in Nodes(l) : l[k] \in Chunks
  BY DEF Nodes
<1> QED BY <1>1, ChunkNumbers DEF Lo, Hi

\* The same positions, in numbers: a node removed, replaced, inserted.
RemovedN(m, l, i) ==
    /\ Len(m) = Len(l) - 1
    /\ \A k \in 1 .. i - 1 : Lo(m, k) = Lo(l, k) /\ Hi(m, k) = Hi(l, k)
    /\ \A k \in i .. Len(l) - 1 :
         Lo(m, k) = Lo(l, k + 1) /\ Hi(m, k) = Hi(l, k + 1)
ReplacedN(m, l, i, e) ==
    /\ Len(m) = Len(l)
    /\ \A k \in 1 .. Len(l) :
         k # i => Lo(m, k) = Lo(l, k) /\ Hi(m, k) = Hi(l, k)
    /\ Lo(m, i) = e.qbase /\ Hi(m, i) = End(e)
InsertedN(m, l, i, e) ==
    /\ Len(m) = Len(l) + 1
    /\ \A k \in 1 .. i - 1 : Lo(m, k) = Lo(l, k) /\ Hi(m, k) = Hi(l, k)
    /\ Lo(m, i) = e.qbase /\ Hi(m, i) = End(e)
    /\ \A k \in i .. Len(l) :
         Lo(m, k + 1) = Lo(l, k) /\ Hi(m, k + 1) = Hi(l, k)

\* qdma_list_del, in terms of the first queues and ends of the nodes.
LEMMA ListDelNumbers ==
    ASSUME NEW l \in Seq(Chunks), NEW i \in 1 .. Len(l), NEW m, m = ListDel(l, i)
    PROVE  m \in Seq(Chunks) /\ RemovedN(m, l, i)
<1>1. m \in Seq(Chunks) /\ Removed(m, l, i)
  BY ListDelPositions
<1> QED BY <1>1 DEF Removed, RemovedN, Lo, Hi

\* A node that is overwritten in place, in the same terms.
LEMMA ListStoreNumbers ==
    ASSUME NEW l \in Seq(Chunks), NEW i \in 1 .. Len(l), NEW e \in Chunks,
           NEW m, m = ListStore(l, i, e)
    PROVE  m \in Seq(Chunks) /\ ReplacedN(m, l, i, e)
<1>1. m \in Seq(Chunks) /\ Replaced(m, l, i, e)
  BY ListStorePositions
<1> QED BY <1>1 DEF Replaced, ReplacedN, Lo, Hi

\* qdma_list_insert_before, in the same terms.
LEMMA ListInsertNumbers ==
    ASSUME NEW l \in Seq(Chunks), NEW i \in 1 .. Len(l) + 1, NEW e \in Chunks,
           NEW m, m = ListInsert(l, i, e)
    PROVE  m \in Seq(Chunks) /\ InsertedN(m, l, i, e)
<1>1. m \in Seq(Chunks) /\ Inserted(m, l, i, e)
  BY ListInsertPositions
<1> QED BY <1>1 DEF Inserted, InsertedN, Lo, Hi

(***************************************************************************)
(* Cutting lo .. hi-1 out of a list.                                       *)
(***************************************************************************)
KeepsApart(m, l) ==
    \A a, b \in Int : a < b /\ ApartFrom(l, a, b) => ApartFrom(m, a, b)

Cut(m, l, lo, hi) ==
    /\ GoodList(m)
    /\ KeepsApart(m, l)
    /\ ApartFrom(m, lo, hi)
    /\ \A q \in Int : ListCovers(l, q) => ListCovers(m, q) \/ (lo <= q /\ q < hi)

\* Node k of m lies inside node src[k] of l, and the order is kept.
InsideOf(m, l, src) ==
    /\ src \in [1 .. Len(m) -> 1 .. Len(l)]
    /\ \A k \in Nodes(m) : Lo(l, src[k]) <= Lo(m, k) /\ Hi(m, k) <= Hi(l, src[k])
    /\ \A j, k \in Nodes(m) : j < k => src[j] < src[k] \/ Hi(m, j) <= Lo(m, k)

\* Nodes that lie inside nodes of a good list, in the same order, are a good
\* list that is apart from everything the list was apart from.
LEMMA InsideKeepsList ==
    ASSUME NEW l, GoodList(l), NEW m \in Seq(Chunks), NEW src, InsideOf(m, l, src)
    PROVE  GoodList(m) /\ KeepsApart(m, l)
<1>0. /\ src \in [1 .. Len(m) -> 1 .. Len(l)]
      /\ \A k \in Nodes(m) : Lo(l, src[k]) <= Lo(m, k) /\ Hi(m, k) <= Hi(l, src[k])
      /\ \A j, k \in Nodes(m) : j < k => src[j] < src[k] \/ Hi(m, j) <= Lo(m, k)
  BY DEF InsideOf
<1>1. l \in Seq(Chunks) /\ Sorted(l) /\ InBoard(l)
  BY DEF GoodList
<1>2. \A k \in Nodes(l) : Lo(l, k) \in Nat /\ Hi(l, k) \in Nat
  BY <1>1, ListNumbers
<1>3. \A k \in Nodes(m) : Lo(m, k) \in Nat /\ Hi(m, k) \in Nat
  BY ListNumbers
<1>4. \A k \in Nodes(m) : src[k] \in Nodes(l)
  BY <1>0 DEF Nodes
<1>5. ASSUME NEW j \in Nodes(m), NEW k \in Nodes(m), j < k
      PROVE  Hi(m, j) <= Lo(m, k)
  <2>1. CASE src[j] < src[k]
    <3>1. /\ Hi(l, src[j]) <= Lo(l, src[k])
          /\ Hi(m, j) <= Hi(l, src[j]) /\ Lo(l, src[k]) <= Lo(m, k)
      BY <1>0, <1>1, <1>4, <2>1 DEF Sorted
    <3>2. /\ Hi(l, src[j]) \in Nat /\ Lo(l, src[k]) \in Nat
          /\ Hi(m, j) \in Nat /\ Lo(m, k) \in Nat
      BY <1>2, <1>3, <1>4
    <3> QED BY <3>1, <3>2
  <2> QED BY <1>0, <1>5, <2>1
<1>6. ASSUME NEW k \in Nodes(m)
      PROVE  QBase <= Lo(m, k) /\ Hi(m, k) <= QBase + TotalQ
  <2>1. /\ QBase <= Lo(l, src[k]) /\ Lo(l, src[k]) <= Lo(m, k)
        /\ Hi(l, src[k]) <= QBase + TotalQ /\ Hi(m, k) <= Hi(l, src[k])
    BY <1>0, <1>1, <1>4 DEF InBoard
  <2>2. /\ Lo(l, src[k]) \in Nat /\ Lo(m, k) \in Nat /\ QBase \in Nat
        /\ Hi(l, src[k]) \in Nat /\ Hi(m, k) \in Nat /\ TotalQ \in Nat
    BY <1>2, <1>3, <1>4, ConstantsAssumption
  <2> QED BY <2>1, <2>2
<1>7. ASSUME NEW a \in Int, NEW b \in Int, ApartFrom(l, a, b), NEW k \in Nodes(m)
      PROVE  Hi(m, k) <= a \/ b <= Lo(m, k)
  <2>1. /\ Lo(l, src[k]) <= Lo(m, k) /\ Hi(m, k) <= Hi(l, src[k])
        /\ Hi(l, src[k]) <= a \/ b <= Lo(l, src[k])
    BY <1>0, <1>4, <1>7 DEF ApartFrom
  <2>2. /\ Lo(l, src[k]) \in Nat /\ Lo(m, k) \in Nat
        /\ Hi(l, src[k]) \in Nat /\ Hi(m, k) \in Nat
    BY <1>2, <1>3, <1>4
  <2> QED BY <2>1, <2>2
<1>8. Sorted(m)
  BY <1>5 DEF Sorted
<1>9. InBoard(m)
  BY <1>6 DEF InBoard
<1> QED BY <1>7, <1>8, <1>9 DEF GoodList, KeepsApart, ApartFrom

\* The whole node is taken.
LEMMA CutAll ==
    ASSUME NEW l, GoodList(l), NEW i \in 1 .. Len(l), NEW m, m = ListDel(l, i)
    PROVE  Cut(m, l, Lo(l, i), Hi(l, i))
<1>1. l \in Seq(Chunks) /\ Sorted(l)
  BY DEF GoodList
<1>2. /\ m \in Seq(Chunks)
      /\ Len(m) = Len(l) - 1
      /\ \A k \in 1 .. i - 1 : Lo(m, k) = Lo(l, k) /\ Hi(m, k) = Hi(l, k)
      /\ \A k \in i .. Len(l) - 1 :
           Lo(m, k) = Lo(l, k + 1) /\ Hi(m, k) = Hi(l, k + 1)
  <2>1. m \in Seq(Chunks) /\ RemovedN(m, l, i)
    BY <1>1, ListDelNumbers
  <2> QED BY <2>1 DEF RemovedN
<1>3. /\ Len(l) \in Nat
      /\ \A k \in Nodes(l) :
           Lo(l, k) \in Nat /\ Hi(l, k) \in Nat /\ Lo(l, k) < Hi(l, k)
  BY <1>1, ListNumbers
<1> DEFINE src == [k \in 1 .. Len(m) |-> IF k < i THEN k ELSE k + 1]
<1>4. src \in [1 .. Len(m) -> 1 .. Len(l)]
  BY <1>2, <1>3
<1>5. \A k \in Nodes(m) : src[k] = IF k < i THEN k ELSE k + 1
  BY DEF Nodes
<1> HIDE DEF src
<1>6. \A k \in Nodes(m) :
        /\ Lo(l, src[k]) = Lo(m, k) /\ Hi(m, k) = Hi(l, src[k])
        /\ src[k] \in Nodes(l) /\ src[k] # i
  <2> SUFFICES ASSUME NEW k \in Nodes(m)
               PROVE  /\ Lo(l, src[k]) = Lo(m, k) /\ Hi(m, k) = Hi(l, src[k])
                      /\ src[k] \in Nodes(l) /\ src[k] # i
    OBVIOUS
  <2>1. CASE k < i
    <3>1. k \in 1 .. i - 1 /\ src[k] = k /\ k \in Nodes(l) /\ k # i
      BY <1>2, <1>3, <1>5, <2>1 DEF Nodes
    <3> QED BY <1>2, <3>1
  <2>2. CASE ~ (k < i)
    <3>1. k \in i .. Len(l) - 1 /\ src[k] = k + 1 /\ k + 1 \in Nodes(l) /\ k + 1 # i
      BY <1>2, <1>3, <1>5, <2>2 DEF Nodes
    <3> QED BY <1>2, <3>1
  <2> QED BY <2>1, <2>2
<1>7. \A j, k \in Nodes(m) : j < k => src[j] < src[k]
  BY <1>5 DEF Nodes
<1>8. \A k \in Nodes(m) : Lo(l, src[k]) <= Lo(m, k) /\ Hi(m, k) <= Hi(l, src[k])
  BY <1>3, <1>6
<1>9. GoodList(m) /\ KeepsApart(m, l)
  <2>1. InsideOf(m, l, src)
    BY <1>4, <1>7, <1>8 DEF InsideOf
  <2> QED BY <1>2, <2>1, InsideKeepsList
<1>10. ASSUME NEW k \in Nodes(m)
       PROVE  Hi(m, k) <= Lo(l, i) \/ Hi(l, i) <= Lo(m, k)
  BY <1>1, <1>6 DEF Sorted, Nodes
<1>11. ASSUME NEW q \in Int, ListCovers(l, q), ~ (Lo(l, i) <= q /\ q < Hi(l, i))
       PROVE  ListCovers(m, q)
  <2>1. PICK k \in Nodes(l) : Lo(l, k) <= q /\ q < Hi(l, k)
    BY <1>11 DEF ListCovers
  <2>2. PICK j \in Nodes(m) : src[j] = k
    <3>1. CASE k < i
      <4>1. k \in Nodes(m)
        BY <1>2, <1>3, <3>1 DEF Nodes
      <4> QED BY <1>5, <3>1, <4>1
    <3>2. CASE k > i
      <4>1. k - 1 \in Nodes(m) /\ ~ (k - 1 < i) /\ (k - 1) + 1 = k
        BY <1>2, <1>3, <3>2 DEF Nodes
      <4> QED BY <1>5, <4>1
    <3>3. k # i
      BY <1>11, <2>1
    <3> QED BY <1>3, <3>1, <3>2, <3>3 DEF Nodes
  <2> QED BY <1>6, <2>1, <2>2 DEF ListCovers
<1> QED BY <1>9, <1>10, <1>11 DEF Cut, ApartFrom

\* One end of the node is taken: the node is replaced by what is left of it.
LEMMA CutEnd ==
    ASSUME NEW l, GoodList(l), NEW i \in 1 .. Len(l), NEW e \in Chunks,
           NEW lo \in Nat, NEW hi \in Nat,
           \/ e.qbase = Lo(l, i) /\ End(e) = lo /\ hi = Hi(l, i)
           \/ lo = Lo(l, i) /\ hi = e.qbase /\ End(e) = Hi(l, i),
           lo <= hi,
           NEW m, m = ListStore(l, i, e)
    PROVE  Cut(m, l, lo, hi)
<1>1. l \in Seq(Chunks) /\ Sorted(l)
  BY DEF GoodList
<1>2. /\ m \in Seq(Chunks)
      /\ Len(m) = Len(l)
      /\ \A k \in 1 .. Len(l) :
           k # i => Lo(m, k) = Lo(l, k) /\ Hi(m, k) = Hi(l, k)
      /\ Lo(m, i) = e.qbase /\ Hi(m, i) = End(e)
  <2>1. m \in Seq(Chunks) /\ ReplacedN(m, l, i, e)
    BY <1>1, ListStoreNumbers
  <2> QED BY <2>1 DEF ReplacedN
<1>3. /\ Len(l) \in Nat
      /\ \A k \in Nodes(l) :
           Lo(l, k) \in Nat /\ Hi(l, k) \in Nat /\ Lo(l, k) < Hi(l, k)
  BY <1>1, ListNumbers
<1>4. e.qbase \in Nat /\ End(e) \in Nat /\ e.qbase < End(e)
  BY ChunkNumbers
<1>5. Nodes(m) = Nodes(l) /\ i \in Nodes(l)
  BY <1>2 DEF Nodes
<1> DEFINE src == [k \in 1 .. Len(m) |-> k]
<1>6. src \in [1 .. Len(m) -> 1 .. Len(l)] /\ \A k \in Nodes(m) : src[k] = k
  BY <1>2 DEF Nodes
<1> HIDE DEF src
<1>7. /\ Lo(l, i) <= Lo(m, i) /\ Hi(m, i) <= Hi(l, i)
      /\ Lo(l, i) <= lo /\ hi <= Hi(l, i)
      /\ Hi(m, i) <= lo \/ hi <= Lo(m, i)
      /\ \A q \in Int : Lo(l, i) <= q /\ q < Hi(l, i) =>
            (Lo(m, i) <= q /\ q < Hi(m, i)) \/ (lo <= q /\ q < hi)
  <2>1. Lo(l, i) \in Nat /\ Hi(l, i) \in Nat /\ Lo(l, i) < Hi(l, i)
    BY <1>3, <1>5
  <2>2. Lo(m, i) = e.qbase /\ Hi(m, i) = End(e)
    BY <1>2
  <2> QED BY <1>4, <2>1, <2>2
<1>8. \A k \in Nodes(m) : Lo(l, src[k]) <= Lo(m, k) /\ Hi(m, k) <= Hi(l, src[k])
  BY <1>2, <1>3, <1>5, <1>6, <1>7 DEF Nodes
<1>9. \A j, k \in Nodes(m) : j < k => src[j] < src[k]
  BY <1>6
<1>10. GoodList(m) /\ KeepsApart(m, l)
  <2>1. InsideOf(m, l, src)
    BY <1>6, <1>8, <1>9 DEF InsideOf
  <2> QED BY <1>2, <2>1, InsideKeepsList
<1>11. ASSUME NEW k \in Nodes(m)
       PROVE  Hi(m, k) <= lo \/ hi <= Lo(m, k)
  <2>1. CASE k # i
    <3>1. /\ Lo(m, k) = Lo(l, k) /\ Hi(m, k) = Hi(l, k)
          /\ Lo(l, k) \in Nat /\ Hi(l, k) \in Nat
          /\ Lo(l, i) \in Nat /\ Hi(l, i) \in Nat
      BY <1>2, <1>3, <1>5, <2>1 DEF Nodes
    <3>2. Hi(l, k) <= Lo(l, i) \/ Hi(l, i) <= Lo(l, k)
      BY <1>1, <1>5, <2>1 DEF Sorted, Nodes
    <3> QED BY <1>7, <3>1, <3>2
  <2> QED BY <1>7, <2>1
<1>12. ASSUME NEW q \in Int, ListCovers(l, q), ~ (lo <= q /\ q < hi)
       PROVE  ListCovers(m, q)
  <2>1. PICK k \in Nodes(l) : Lo(l, k) <= q /\ q < Hi(l, k)
    BY <1>12 DEF ListCovers
  <2>2. Lo(m, k) <= q /\ q < Hi(m, k)
    <3>1. CASE k = i
      BY <1>7, <1>12, <2>1, <3>1
    <3>2. CASE k # i
      BY <1>2, <2>1, <3>2 DEF Nodes
    <3> QED BY <3>1, <3>2
  <2> QED BY <1>5, <2>2 DEF ListCovers
<1> QED BY <1>10, <1>11, <1>12 DEF Cut, ApartFrom

\* A node is split in two: e before f.  What lies between them is cut out.
LEMMA CutMiddle ==
    ASSUME NEW l, GoodList(l), NEW i \in 1 .. Len(l),
           NEW e \in Chunks, NEW f \in Chunks,
           e.qbase = Lo(l, i), End(e) <= f.qbase, End(f) = Hi(l, i),
           NEW m, m = ListInsert(ListStore(l, i, f), i, e)
    PROVE  Cut(m, l, End(e), f.qbase)
<1>1. l \in Seq(Chunks) /\ Sorted(l)
  BY DEF GoodList
<1>2. PICK x : x = ListStore(l, i, f)
  OBVIOUS
<1>3. x \in Seq(Chunks) /\ ReplacedN(x, l, i, f)
  BY <1>1, <1>2, ListStoreNumbers
<1>4. /\ Len(l) \in Nat
      /\ \A k \in Nodes(l) :
           Lo(l, k) \in Nat /\ Hi(l, k) \in Nat /\ Lo(l, k) < Hi(l, k)
  BY <1>1, ListNumbers
<1>5. m \in Seq(Chunks) /\ InsertedN(m, x, i, e)
  <2>1. i \in 1 .. Len(x) + 1
    BY <1>3, <1>4 DEF ReplacedN
  <2> QED BY <1>2, <1>3, <2>1, ListInsertNumbers
<1>6. /\ Len(m) = Len(l) + 1
      /\ \A k \in 1 .. i - 1 : Lo(m, k) = Lo(l, k) /\ Hi(m, k) = Hi(l, k)
      /\ Lo(m, i) = e.qbase /\ Hi(m, i) = End(e)
      /\ Lo(m, i + 1) = f.qbase /\ Hi(m, i + 1) = End(f)
      /\ \A k \in i + 1 .. Len(l) :
            Lo(m, k + 1) = Lo(l, k) /\ Hi(m, k + 1) = Hi(l, k)
  <2>1. Len(m) = Len(l) + 1
    BY <1>3, <1>5 DEF ReplacedN, InsertedN
  <2>2. ASSUME NEW k \in 1 .. i - 1
        PROVE  Lo(m, k) = Lo(l, k) /\ Hi(m, k) = Hi(l, k)
    BY <1>3, <1>4, <1>5 DEF ReplacedN, InsertedN
  <2>3. Lo(m, i) = e.qbase /\ Hi(m, i) = End(e)
    BY <1>5 DEF InsertedN
  <2>4. i \in i .. Len(x)
    BY <1>3, <1>4 DEF ReplacedN
  <2>5. Lo(m, i + 1) = f.qbase /\ Hi(m, i + 1) = End(f)
    BY <1>3, <1>5, <2>4 DEF ReplacedN, InsertedN
  <2>6. ASSUME NEW k \in i + 1 .. Len(l)
        PROVE  Lo(m, k + 1) = Lo(l, k) /\ Hi(m, k + 1) = Hi(l, k)
    <3>1. k \in i .. Len(x) /\ k \in 1 .. Len(l) /\ k # i
      BY <1>3, <1>4 DEF ReplacedN
    <3> QED BY <1>3, <1>5, <3>1 DEF ReplacedN, InsertedN
  <2> QED BY <2>1, <2>2, <2>3, <2>5, <2>6
<1>7. /\ e.qbase \in Nat /\ End(e) \in Nat /\ e.qbase < End(e)
      /\ f.qbase \in Nat /\ End(f) \in Nat /\ f.qbase < End(f)
  BY ChunkNumbers
<1> DEFINE src == [k \in 1 .. Len(m) |-> IF k <= i THEN k ELSE k - 1]
<1>8. src \in [1 .. Len(m) -> 1 .. Len(l)]
  BY <1>4, <1>6
<1>9. \A k \in Nodes(m) : src[k] = IF k <= i THEN k ELSE k - 1
  BY DEF Nodes
<1> HIDE DEF src
<1>10. i \in Nodes(m) /\ i + 1 \in Nodes(m) /\ i \in Nodes(l) /\ src[i] = i /\ src[i + 1] = i
  <2>1. i \in Nodes(m) /\ i + 1 \in Nodes(m) /\ i \in Nodes(l) /\ (i + 1) - 1 = i
    BY <1>4, <1>6 DEF Nodes
  <2> QED BY <1>9, <2>1
<1>11. ASSUME NEW k \in Nodes(m), k # i, k # i + 1
       PROVE  /\ Lo(m, k) = Lo(l, src[k]) /\ Hi(m, k) = Hi(l, src[k])
              /\ src[k] \in Nodes(l) /\ src[k] # i
  <2>1. CASE k < i
    <3>1. k \in 1 .. i - 1 /\ src[k] = k /\ k \in Nodes(l)
      BY <1>4, <1>6, <1>9, <2>1 DEF Nodes
    <3> QED BY <1>6, <2>1, <3>1
  <2>2. CASE k > i + 1
    <3>1. /\ k - 1 \in i + 1 .. Len(l) /\ src[k] = k - 1 /\ k - 1 \in Nodes(l)
          /\ (k - 1) + 1 = k /\ k - 1 # i
      BY <1>4, <1>6, <1>9, <2>2 DEF Nodes
    <3> QED BY <1>6, <3>1
  <2> QED BY <1>11, <2>1, <2>2 DEF Nodes
<1>12. ASSUME NEW k \in Nodes(m)
       PROVE  Lo(l, src[k]) <= Lo(m, k) /\ Hi(m, k) <= Hi(l, src[k])
  <2>1. CASE k = i \/ k = i + 1
    <3>1. src[k] = i /\ Lo(l, i) \in Nat /\ Hi(l, i) \in Nat
      BY <1>4, <1>10, <2>1
    <3>2. \/ Lo(m, k) = e.qbase /\ Hi(m, k) = End(e)
          \/ Lo(m, k) = f.qbase /\ Hi(m, k) = End(f)
      BY <1>6, <2>1
    <3> QED BY <1>7, <3>1, <3>2
  <2>2. CASE k # i /\ k # i + 1
    BY <1>4, <1>11, <2>2
  <2> QED BY <2>1, <2>2
<1>13. ASSUME NEW j \in Nodes(m), NEW k \in Nodes(m), j < k
       PROVE  src[j] < src[k] \/ Hi(m, j) <= Lo(m, k)
  <2>1. CASE j = i /\ k = i + 1
    BY <1>6, <2>1
  <2>2. CASE ~ (j = i /\ k = i + 1)
    <3>1. src[j] < src[k]
      BY <1>9, <1>13, <2>2 DEF Nodes
    <3> QED BY <3>1
  <2> QED BY <2>1, <2>2
<1>14. GoodList(m) /\ KeepsApart(m, l)
  <2>1. InsideOf(m, l, src)
    BY <1>8, <1>12, <1>13 DEF InsideOf
  <2> QED BY <1>5, <2>1, InsideKeepsList
<1>15. ASSUME NEW k \in Nodes(m)
       PROVE  Hi(m, k) <= End(e) \/ f.qbase <= Lo(m, k)
  <2>1. CASE k = i \/ k = i + 1
    BY <1>6, <1>7, <2>1
  <2>2. CASE k # i /\ k # i + 1
    <3>1. /\ Lo(m, k) = Lo(l, src[k]) /\ Hi(m, k) = Hi(l, src[k])
          /\ src[k] \in Nodes(l) /\ src[k] # i
      BY <1>11, <2>2
    <3>2. Hi(l, src[k]) <= Lo(l, i) \/ Hi(l, i) <= Lo(l, src[k])
      BY <1>1, <1>10, <3>1 DEF Sorted, Nodes
    <3>3. /\ Lo(l, src[k]) \in Nat /\ Hi(l, src[k]) \in Nat
          /\ Lo(l, i) = e.qbase /\ Hi(l, i) = End(f)
      BY <1>4, <3>1
    <3> QED BY <1>7, <3>1, <3>2, <3>3
  <2> QED BY <2>1, <2>2
<1>16. ASSUME NEW q \in Int, ListCovers(l, q), ~ (End(e) <= q /\ q < f.qbase)
       PROVE  ListCovers(m, q)
  <2>1. PICK k \in Nodes(l) : Lo(l, k) <= q /\ q < Hi(l, k)
    BY <1>16 DEF ListCovers
  <2>2. CASE k = i
    <3>1. \/ Lo(m, i) <= q /\ q < Hi(m, i)
          \/ Lo(m, i + 1) <= q /\ q < Hi(m, i + 1)
      <4>1. e.qbase <= q /\ q < End(f)
        BY <2>1, <2>2
      <4> QED BY <1>6, <1>7, <1>16, <4>1
    <3> QED BY <1>10, <3>1 DEF ListCovers
  <2>3. CASE k < i
    <3>1. k \in 1 .. i - 1 /\ k \in Nodes(m)
      BY <1>4, <1>6, <2>3 DEF Nodes
    <3> QED BY <1>6, <2>1, <3>1 DEF ListCovers
  <2>4. CASE k > i
    <3>1. k \in i + 1 .. Len(l) /\ k + 1 \in Nodes(m)
      BY <1>4, <1>6, <2>4 DEF Nodes
    <3> QED BY <1>6, <2>1, <3>1 DEF ListCovers
  <2> QED BY <1>4, <2>2, <2>3, <2>4 DEF Nodes
<1> QED BY <1>14, <1>15, <1>16 DEF Cut, ApartFrom

\* Carve cuts the range that is handed out, whatever part of the node it is.
LEMMA CarveCuts ==
    ASSUME NEW l, GoodList(l), NEW i \in 1 .. Len(l),
           NEW base \in Nat, NEW qmax \in Nat,
           Lo(l, i) <= base, base + qmax <= Hi(l, i),
           NEW m, m = Carve(l, i, base, qmax)
    PROVE  Cut(m, l, base, base + qmax)
<1>1. l \in Seq(Chunks)
  BY DEF GoodList
<1>2. Lo(l, i) \in Nat /\ Hi(l, i) \in Nat
  BY <1>1, ListNumbers DEF Nodes
<1>3. PICK x \in Nat : x = base - Lo(l, i)
  BY <1>2
<1>4. PICK y \in Nat : y = Hi(l, i) - (base + qmax)
  BY <1>2
<1>5. PICK e : e = Chunk(Lo(l, i), x)
  OBVIOUS
<1>6. PICK f : f = Chunk(base + qmax, y)
  OBVIOUS
<1>7. m = CASE x = 0 /\ y = 0 -> ListDel(l, i)
            [] x = 0 /\ y # 0 -> ListStore(l, i, f)
            [] x # 0 /\ y = 0 -> ListStore(l, i, e)
            [] x # 0 /\ y # 0 -> ListInsert(ListStore(l, i, f), i, e)
  <2>1. /\ e = Chunk(l[i].qbase, base - l[i].qbase)
        /\ f = Chunk(base + qmax, End(l[i]) - (base + qmax))
    BY <1>3, <1>4, <1>5, <1>6 DEF Lo, Hi
  <2>2. e.total_q = x /\ f.total_q = y
    BY <1>5, <1>6 DEF Chunk
  <2> QED BY <2>1, <2>2, Zenon DEF Carve
<1>8. x # 0 => e \in Chunks /\ e.qbase = Lo(l, i) /\ End(e) = base
  <2>1. x # 0 => e \in Chunks /\ e.qbase = Lo(l, i) /\ End(e) = Lo(l, i) + x
    BY Zenon, <1>2, <1>5, ChunkMade
  <2> QED BY <1>2, <1>3, <2>1
<1>9. y # 0 => f \in Chunks /\ f.qbase = base + qmax /\ End(f) = Hi(l, i)
  <2>1. PICK z \in Nat : z = base + qmax
    OBVIOUS
  <2>2. f = Chunk(z, y)
    BY <1>6, <2>1
  <2>3. y # 0 => f \in Chunks /\ f.qbase = z /\ End(f) = z + y
    BY Zenon, <2>2, ChunkMade
  <2> QED BY <1>2, <1>4, <2>1, <2>3
<1>10. CASE x = 0 /\ y = 0
  <2>1. base = Lo(l, i) /\ base + qmax = Hi(l, i)
    BY <1>2, <1>3, <1>4, <1>10
  <2>2. m = ListDel(l, i)
    BY <1>7, <1>10
  <2>3. Cut(m, l, Lo(l, i), Hi(l, i))
    BY <2>2, CutAll
  <2> QED BY <2>1, <2>3
<1>11. CASE x = 0 /\ y # 0
  <2>1. base = Lo(l, i) /\ base + qmax \in Nat /\ base <= base + qmax
    BY <1>2, <1>3, <1>11
  <2>2. m = ListStore(l, i, f)
    BY <1>7, <1>11
  <2> QED BY <1>9, <1>11, <2>1, <2>2, CutEnd
<1>12. CASE x # 0 /\ y = 0
  <2>1. base + qmax = Hi(l, i) /\ base + qmax \in Nat /\ base <= base + qmax
    BY <1>2, <1>4, <1>12
  <2>2. m = ListStore(l, i, e)
    BY <1>7, <1>12
  <2> QED BY <1>8, <1>12, <2>1, <2>2, CutEnd
<1>13. CASE x # 0 /\ y # 0
  <2>1. m = ListInsert(ListStore(l, i, f), i, e)
    BY <1>7, <1>13
  <2>2. End(e) <= f.qbase
    BY <1>8, <1>9, <1>13
  <2>3. Cut(m, l, End(e), f.qbase)
    BY <1>8, <1>9, <1>13, <2>1, <2>2, CutMiddle
  <2> QED BY <1>8, <1>9, <1>13, <2>3
<1> QED BY <1>10, <1>11, <1>12, <1>13

\* HalfCarve splits a node and cuts nothing.
LEMMA HalfCarveCuts ==
    ASSUME NEW l, GoodList(l), NEW i \in 1 .. Len(l), NEW base \in Nat,
           Lo(l, i) < base, base < Hi(l, i),
           NEW m, m = HalfCarve(l, i, base)
    PROVE  Cut(m, l, base, base)
<1>1. l \in Seq(Chunks)
  BY DEF GoodList
<1>2. Lo(l, i) \in Nat /\ Hi(l, i) \in Nat
  BY <1>1, ListNumbers DEF Nodes
<1>3. PICK x \in Nat : x = base - Lo(l, i) /\ x # 0
  BY <1>2
<1>4. PICK y \in Nat : y = Hi(l, i) - base /\ y # 0
  BY <1>2
<1>5. PICK e : e = Chunk(Lo(l, i), x)
  OBVIOUS
<1>6. PICK f : f = Chunk(base, y)
  OBVIOUS
<1>7. m = ListInsert(ListStore(l, i, f), i, e)
  BY <1>3, <1>4, <1>5, <1>6 DEF HalfCarve, Lo, Hi
<1>8. e \in Chunks /\ e.qbase = Lo(l, i) /\ End(e) = base
  <2>1. e \in Chunks /\ e.qbase = Lo(l, i) /\ End(e) = Lo(l, i) + x
    BY Zenon, <1>2, <1>3, <1>5, ChunkMade
  <2> QED BY <1>2, <1>3, <2>1
<1>9. f \in Chunks /\ f.qbase = base /\ End(f) = Hi(l, i)
  <2>1. f \in Chunks /\ f.qbase = base /\ End(f) = base + y
    BY Zenon, <1>4, <1>6, ChunkMade
  <2> QED BY <1>2, <1>4, <2>1
<1>10. Cut(m, l, End(e), f.qbase)
  BY <1>7, <1>8, <1>9, CutMiddle
<1> QED BY <1>8, <1>9, <1>10

(***************************************************************************)
(* Giving a range back: it is inserted in order, then neighbours are merged.*)
(***************************************************************************)

\* The place qdma_submit_to_free_list puts a range keeps the list good.
Placed(l, i, e) ==
    /\ \A j \in 1 .. i - 1 : Lo(l, j) <= e.qbase
    /\ i <= Len(l) => e.qbase < Lo(l, i)

Grown(m, l, e) ==
    /\ GoodList(m)
    /\ \A a, b \in Int :
         ApartFrom(l, a, b) /\ (End(e) <= a \/ b <= e.qbase) => ApartFrom(m, a, b)
    /\ \A q \in Int : ListCovers(l, q) \/ Covers(e, q) => ListCovers(m, q)
    /\ HoldsRange(m, e.qbase, End(e))

\* Inserting a range that is apart from all others at its place in the order
\* adds its queues to the free list, keeps the list sorted and loses nothing.
LEMMA InsertGrows ==
    ASSUME NEW l, GoodList(l), NEW i \in 1 .. Len(l) + 1, NEW e \in Chunks,
           QBase <= e.qbase, End(e) <= QBase + TotalQ,
           ApartFrom(l, e.qbase, End(e)), Placed(l, i, e),
           NEW m, m = ListInsert(l, i, e)
    PROVE  Grown(m, l, e)
<1>1. l \in Seq(Chunks) /\ Sorted(l) /\ InBoard(l)
  BY DEF GoodList
<1>2. m \in Seq(Chunks) /\ InsertedN(m, l, i, e)
  BY <1>1, ListInsertNumbers
<1>3. /\ Len(l) \in Nat
      /\ \A k \in Nodes(l) :
           Lo(l, k) \in Nat /\ Hi(l, k) \in Nat /\ Lo(l, k) < Hi(l, k)
  BY <1>1, ListNumbers
<1>4. e.qbase \in Nat /\ End(e) \in Nat /\ e.qbase < End(e)
  BY ChunkNumbers
<1>5. /\ Len(m) = Len(l) + 1
      /\ Lo(m, i) = e.qbase /\ Hi(m, i) = End(e)
  BY <1>2 DEF InsertedN
<1>6. ASSUME NEW k \in Nodes(l), k < i
      PROVE  /\ k \in Nodes(m) /\ Lo(m, k) = Lo(l, k) /\ Hi(m, k) = Hi(l, k)
             /\ Hi(l, k) <= e.qbase
  <2>1. k \in 1 .. i - 1 /\ k \in Nodes(m)
    BY <1>3, <1>5, <1>6 DEF Nodes
  <2>2. Lo(l, k) <= e.qbase /\ (Hi(l, k) <= e.qbase \/ End(e) <= Lo(l, k))
    BY <2>1 DEF Placed, ApartFrom
  <2>3. Lo(l, k) \in Nat /\ Hi(l, k) \in Nat
    BY <1>3
  <2>4. Hi(l, k) <= e.qbase
    BY <1>4, <2>2, <2>3
  <2> QED BY <1>2, <2>1, <2>4 DEF InsertedN
<1>7. ASSUME NEW k \in Nodes(l), k >= i
      PROVE  /\ k + 1 \in Nodes(m) /\ Lo(m, k + 1) = Lo(l, k) /\ Hi(m, k + 1) = Hi(l, k)
             /\ End(e) <= Lo(l, k)
  <2>1. k \in i .. Len(l) /\ k + 1 \in Nodes(m) /\ i \in Nodes(l)
    BY <1>3, <1>5, <1>7 DEF Nodes
  <2>2. /\ e.qbase < Lo(l, i)
        /\ i < k => Hi(l, i) <= Lo(l, k)
        /\ Hi(l, k) <= e.qbase \/ End(e) <= Lo(l, k)
    BY <1>1, <2>1 DEF Placed, ApartFrom, Sorted, Nodes
  <2>3. /\ Lo(l, k) \in Nat /\ Hi(l, k) \in Nat /\ Lo(l, k) < Hi(l, k)
        /\ Lo(l, i) \in Nat /\ Hi(l, i) \in Nat /\ Lo(l, i) < Hi(l, i)
    BY <1>3, <2>1
  <2>4. e.qbase < Lo(l, k)
    <3>1. CASE i = k
      BY <2>2, <3>1
    <3>2. CASE i < k
      BY <1>4, <2>2, <2>3, <3>2
    <3> QED BY <1>7, <3>1, <3>2 DEF Nodes
  <2>5. End(e) <= Lo(l, k)
    BY <1>4, <2>2, <2>3, <2>4
  <2> QED BY <1>2, <2>1, <2>5 DEF InsertedN
<1>8. ASSUME NEW k \in Nodes(m)
      PROVE  \/ k = i
             \/ /\ k < i /\ k \in Nodes(l)
             \/ /\ k > i /\ k - 1 \in Nodes(l) /\ k - 1 >= i /\ (k - 1) + 1 = k
  BY <1>3, <1>5 DEF Nodes
<1>9. ASSUME NEW j \in Nodes(m), NEW k \in Nodes(m), j < k
      PROVE  Hi(m, j) <= Lo(m, k)
  <2>1. CASE j < i /\ k < i
    <3>1. j \in Nodes(l) /\ k \in Nodes(l)
      BY <1>3, <1>5, <2>1 DEF Nodes
    <3> QED BY <1>1, <1>6, <1>9, <2>1, <3>1 DEF Sorted
  <2>2. CASE j < i /\ k = i
    BY <1>5, <1>6, <1>8, <2>2
  <2>3. CASE j < i /\ k > i
    <3>0. j \in Nodes(l) /\ k - 1 \in Nodes(l) /\ k - 1 >= i /\ (k - 1) + 1 = k
      BY <1>3, <1>5, <2>3 DEF Nodes
    <3>1. PICK p \in Nodes(l) : Lo(m, k) = Lo(l, p) /\ End(e) <= Lo(l, p)
      BY <1>7, <3>0
    <3>2. Hi(m, j) = Hi(l, j) /\ Hi(l, j) <= e.qbase
      BY <1>6, <2>3, <3>0
    <3>3. Hi(l, j) \in Nat /\ Lo(l, p) \in Nat
      BY <1>3, <3>0
    <3> QED BY <1>4, <3>1, <3>2, <3>3
  <2>4. CASE j = i /\ k > i
    BY <1>5, <1>7, <1>8, <2>4
  <2>5. CASE j > i /\ k > i
    <3>1. /\ j - 1 \in Nodes(l) /\ k - 1 \in Nodes(l) /\ j - 1 < k - 1
          /\ j - 1 >= i /\ k - 1 >= i /\ (j - 1) + 1 = j /\ (k - 1) + 1 = k
      BY <1>8, <1>9, <2>5 DEF Nodes
    <3>2. Hi(m, j) = Hi(l, j - 1) /\ Lo(m, k) = Lo(l, k - 1)
      BY <1>7, <3>1
    <3> QED BY <1>1, <3>1, <3>2 DEF Sorted
  <2> QED BY <1>9, <2>1, <2>2, <2>3, <2>4, <2>5 DEF Nodes
<1>10. ASSUME NEW k \in Nodes(m)
       PROVE  \/ Lo(m, k) = e.qbase /\ Hi(m, k) = End(e)
              \/ \E p \in Nodes(l) : Lo(m, k) = Lo(l, p) /\ Hi(m, k) = Hi(l, p)
  BY <1>5, <1>6, <1>7, <1>8
<1>11. InBoard(m)
  BY <1>1, <1>10 DEF InBoard
<1>12. ASSUME NEW a \in Int, NEW b \in Int, ApartFrom(l, a, b),
              End(e) <= a \/ b <= e.qbase
       PROVE  ApartFrom(m, a, b)
  BY <1>10, <1>12 DEF ApartFrom
<1>13. ASSUME NEW q \in Int, ListCovers(l, q)
       PROVE  ListCovers(m, q)
  <2>1. PICK k \in Nodes(l) : Lo(l, k) <= q /\ q < Hi(l, k)
    BY <1>13 DEF ListCovers
  <2>2. k < i \/ k >= i
    BY DEF Nodes
  <2> QED BY <1>6, <1>7, <2>1, <2>2 DEF ListCovers
<1>14. ASSUME NEW q \in Int, Covers(e, q)
       PROVE  ListCovers(m, q)
  <2>1. i \in Nodes(m)
    BY <1>3, <1>5 DEF Nodes
  <2> QED BY <1>5, <1>14, <2>1 DEF Covers, ListCovers
<1>15. Sorted(m)
  BY <1>9 DEF Sorted
<1>16. HoldsRange(m, e.qbase, End(e))
  <2>1. i \in Nodes(m)
    BY <1>3, <1>5 DEF Nodes
  <2>2. Lo(m, i) <= e.qbase /\ End(e) <= Hi(m, i)
    BY <1>4, <1>5
  <2> QED BY <2>1, <2>2 DEF HoldsRange
<1> QED BY <1>2, <1>11, <1>12, <1>13, <1>14, <1>15, <1>16 DEF Grown, GoodList

\* A round of the merge loop that joins node i with the next one: the list
\* stays good, keeps its queues and its ranges, and what lies before node i
\* does not change.
Merged(m, l, i) ==
    /\ GoodList(m)
    /\ KeepsApart(m, l)
    /\ \A q \in Int : ListCovers(l, q) => ListCovers(m, q)
    /\ \A a, b \in Int : HoldsRange(l, a, b) => HoldsRange(m, a, b)
    /\ Len(m) = Len(l) - 1
    /\ \A k \in 1 .. i : Lo(m, k) = Lo(l, k)
    /\ \A k \in 1 .. i - 1 : Hi(m, k) = Hi(l, k)

\* The chunk that the merge loop of qdma_submit_to_free_list makes of two neighbours begins where
\* the first one does and ends where the second one does.
LEMMA MergeNumbers ==
    ASSUME NEW l \in Seq(Chunks), NEW i \in Nat, i >= 1, i < Len(l),
           Hi(l, i) = Lo(l, i + 1), NEW c,
           c = Chunk(l[i].qbase, l[i].total_q + l[i + 1].total_q)
    PROVE  c \in Chunks /\ c.qbase = Lo(l, i) /\ End(c) = Hi(l, i + 1)
<1>0. Len(l) \in Nat
  BY ListNumbers
<1>1. i \in Nodes(l) /\ i + 1 \in Nodes(l)
  BY <1>0 DEF Nodes
<1>2. l[i] \in Chunks /\ l[i + 1] \in Chunks
  BY <1>1, ListNumbers
<1>3. PICK x \in Nat, n \in Nat, y \in Nat, p \in Nat :
        /\ x = l[i].qbase /\ n = l[i].total_q /\ n > 0
        /\ y = l[i + 1].qbase /\ p = l[i + 1].total_q
  BY Zenon, <1>2, ChunkNumbers
<1>4. Lo(l, i) = x /\ Hi(l, i) = x + n /\ Lo(l, i + 1) = y /\ Hi(l, i + 1) = y + p
  BY <1>3 DEF Lo, Hi, End
<1>5. c = Chunk(x, n + p) /\ n + p \in Nat /\ n + p # 0
  BY <1>3
<1>6. c \in Chunks /\ c.qbase = x /\ End(c) = x + (n + p)
  BY Zenon, <1>5, ChunkMade
<1>7. x + (n + p) = y + p
  <2>1. x + n = y
    BY Zenon, <1>4
  <2>2. x \in Nat /\ n \in Nat /\ y \in Nat /\ p \in Nat
    BY Zenon, <1>3
  <2>3. x + n = y => x + (n + p) = y + p
    BY <2>2
  <2> QED BY Zenon, <2>1, <2>3
<1> QED BY <1>4, <1>6, <1>7

\* One merge of that loop keeps the queues of the free list, its
\* order, and every range it held in one piece.
LEMMA MergeKeeps ==
    ASSUME NEW l, GoodList(l), NEW i \in Nat, i >= 1, i < Len(l),
           Hi(l, i) = Lo(l, i + 1), NEW m,
           m = ListDel(ListStore(l, i,
                    Chunk(l[i].qbase, l[i].total_q + l[i + 1].total_q)), i + 1)
    PROVE  Merged(m, l, i)
<1>1. l \in Seq(Chunks) /\ Sorted(l) /\ InBoard(l)
  BY DEF GoodList
<1>2. /\ Len(l) \in Nat
      /\ \A k \in Nodes(l) :
           Lo(l, k) \in Nat /\ Hi(l, k) \in Nat /\ Lo(l, k) < Hi(l, k)
  BY <1>1, ListNumbers
<1>3. i \in 1 .. Len(l) /\ i + 1 \in 1 .. Len(l) /\ i \in Nodes(l) /\ i + 1 \in Nodes(l)
  BY SMTT(60), <1>2 DEF Nodes
<1>4. PICK c : c = Chunk(l[i].qbase, l[i].total_q + l[i + 1].total_q)
  OBVIOUS
<1>5. c \in Chunks /\ c.qbase = Lo(l, i) /\ End(c) = Hi(l, i + 1)
  BY Zenon, <1>1, <1>4, MergeNumbers
<1>6. PICK x : x = ListStore(l, i, c)
  OBVIOUS
<1>7. x \in Seq(Chunks) /\ ReplacedN(x, l, i, c)
  BY Zenon, <1>1, <1>3, <1>5, <1>6, ListStoreNumbers
<1>8. m \in Seq(Chunks) /\ RemovedN(m, x, i + 1)
  <2>1. i + 1 \in 1 .. Len(x)
    BY <1>3, <1>7 DEF ReplacedN
  <2> QED BY Zenon, <1>4, <1>6, <1>7, <2>1, ListDelNumbers
<1>9. Len(m) = Len(l) - 1 /\ i \in Nodes(m)
  <2>1. Len(m) = Len(l) - 1
    BY Zenon, <1>7, <1>8 DEF ReplacedN, RemovedN
  <2> QED BY <1>2, <2>1 DEF Nodes
<1>10. Lo(m, i) = Lo(l, i) /\ Hi(m, i) = Hi(l, i + 1)
  <2>1. i \in 1 .. (i + 1) - 1
    OBVIOUS
  <2>2. Lo(m, i) = Lo(x, i) /\ Hi(m, i) = Hi(x, i)
    BY Zenon, <1>8, <2>1 DEF RemovedN
  <2>3. Lo(x, i) = c.qbase /\ Hi(x, i) = End(c)
    BY <1>7 DEF ReplacedN
  <2> QED BY Zenon, <1>5, <2>2, <2>3
<1>11. ASSUME NEW k \in 1 .. i - 1
       PROVE  /\ k \in Nodes(m) /\ k \in Nodes(l)
              /\ Lo(m, k) = Lo(l, k) /\ Hi(m, k) = Hi(l, k)
  <2>1. k \in 1 .. (i + 1) - 1 /\ k \in 1 .. Len(l) /\ k # i /\ k \in Nodes(m) /\ k \in Nodes(l)
    BY <1>2, <1>9 DEF Nodes
  <2>2. Lo(m, k) = Lo(x, k) /\ Hi(m, k) = Hi(x, k)
    BY Zenon, <1>8, <2>1 DEF RemovedN
  <2>3. Lo(x, k) = Lo(l, k) /\ Hi(x, k) = Hi(l, k)
    BY Zenon, <1>7, <2>1 DEF ReplacedN
  <2> QED BY Zenon, <2>1, <2>2, <2>3
<1>12. ASSUME NEW k \in i + 1 .. Len(l) - 1
       PROVE  /\ k \in Nodes(m) /\ k + 1 \in Nodes(l)
              /\ Lo(m, k) = Lo(l, k + 1) /\ Hi(m, k) = Hi(l, k + 1)
  <2>1. /\ k \in i + 1 .. Len(x) - 1 /\ k + 1 \in 1 .. Len(l) /\ k + 1 # i
        /\ k \in Nodes(m) /\ k + 1 \in Nodes(l)
    BY <1>2, <1>7, <1>9 DEF Nodes, ReplacedN
  <2>2. Lo(m, k) = Lo(x, k + 1) /\ Hi(m, k) = Hi(x, k + 1)
    BY Zenon, <1>8, <2>1 DEF RemovedN
  <2>3. Lo(x, k + 1) = Lo(l, k + 1) /\ Hi(x, k + 1) = Hi(l, k + 1)
    BY Zenon, <1>7, <2>1 DEF ReplacedN
  <2> QED BY Zenon, <2>1, <2>2, <2>3
<1>13. ASSUME NEW k \in Nodes(m)
       PROVE  k \in 1 .. i - 1 \/ k = i \/ k \in i + 1 .. Len(l) - 1
  BY <1>2, <1>9 DEF Nodes
\* first(k) and last(k): the nodes of l that node k of m is made of.
<1> DEFINE first(k) == IF k <= i THEN k ELSE k + 1
           last(k) == IF k < i THEN k ELSE k + 1
<1>14. ASSUME NEW k \in Nodes(m)
       PROVE  /\ first(k) \in Nodes(l) /\ last(k) \in Nodes(l)
              /\ Lo(m, k) = Lo(l, first(k)) /\ Hi(m, k) = Hi(l, last(k))
  <2>1. CASE k \in 1 .. i - 1
    <3>1. first(k) = k /\ last(k) = k
      BY <2>1
    <3> HIDE DEF first, last
    <3> QED BY <1>11, <2>1, <3>1
  <2>2. CASE k = i
    <3>1. first(k) = i /\ last(k) = i + 1
      BY <2>2
    <3> HIDE DEF first, last
    <3> QED BY Zenon, <1>3, <1>10, <2>2, <3>1
  <2>3. CASE k \in i + 1 .. Len(l) - 1
    <3>1. first(k) = k + 1 /\ last(k) = k + 1
      BY <1>2, <2>3
    <3> HIDE DEF first, last
    <3> QED BY <1>12, <2>3, <3>1
  <2> QED BY Zenon, <1>13, <2>1, <2>2, <2>3
<1>15. ASSUME NEW j \in Nodes(m), NEW k \in Nodes(m), j < k
       PROVE  last(j) < first(k)
  BY <1>15 DEF Nodes
<1> HIDE DEF first, last
<1>16. ASSUME NEW j \in Nodes(m), NEW k \in Nodes(m), j < k
       PROVE  Hi(m, j) <= Lo(m, k)
  <2>1. last(j) \in Nodes(l) /\ first(k) \in Nodes(l) /\ last(j) < first(k)
    BY Zenon, <1>14, <1>15, <1>16
  <2>2. Hi(m, j) = Hi(l, last(j)) /\ Lo(m, k) = Lo(l, first(k))
    BY Zenon, <1>14
  <2> QED BY Zenon, <1>1, <2>1, <2>2 DEF Sorted
<1>17. GoodList(m)
  <2>1. Sorted(m)
    BY <1>16 DEF Sorted
  <2>2. InBoard(m)
    BY Zenon, <1>1, <1>14 DEF InBoard
  <2> QED BY Zenon, <1>8, <2>1, <2>2 DEF GoodList
<1>18. ASSUME NEW a \in Int, NEW b \in Int, a < b, ApartFrom(l, a, b), NEW k \in Nodes(m)
       PROVE  Hi(m, k) <= a \/ b <= Lo(m, k)
  <2>1. CASE k = i
    <3>1. /\ Hi(l, i) <= a \/ b <= Lo(l, i)
          /\ Hi(l, i + 1) <= a \/ b <= Lo(l, i + 1)
      BY Zenon, <1>3, <1>18 DEF ApartFrom
    <3>2. Hi(l, i) \in Nat
      BY <1>2, <1>3
    <3> QED BY <1>10, <1>18, <2>1, <3>1, <3>2
  <2>2. CASE k # i
    BY Zenon, <1>11, <1>12, <1>13, <1>18, <2>2 DEF ApartFrom
  <2> QED BY Zenon, <2>1, <2>2
\* Every node of l lies in a node of m.
<1>19. ASSUME NEW k \in Nodes(l)
       PROVE  \E j \in Nodes(m) : Lo(m, j) <= Lo(l, k) /\ Hi(l, k) <= Hi(m, j)
  <2>1. CASE k < i
    <3>1. k \in 1 .. i - 1
      BY <2>1 DEF Nodes
    <3> QED BY SMTT(60), <1>2, <1>11, <3>1
  <2>2. CASE k = i \/ k = i + 1
    <3>1. /\ Lo(l, i) \in Nat /\ Hi(l, i) \in Nat /\ Lo(l, i) < Hi(l, i)
          /\ Lo(l, i + 1) \in Nat /\ Hi(l, i + 1) \in Nat /\ Lo(l, i + 1) < Hi(l, i + 1)
      BY Zenon, <1>2, <1>3
    <3>2. Lo(m, i) <= Lo(l, k) /\ Hi(l, k) <= Hi(m, i)
      BY SMTT(60), <1>10, <2>2, <3>1
    <3> QED BY Zenon, <1>9, <3>2
  <2>3. CASE k > i + 1
    <3>1. k - 1 \in i + 1 .. Len(l) - 1 /\ (k - 1) + 1 = k
      BY <1>2, <2>3 DEF Nodes
    <3>2. /\ k - 1 \in Nodes(m)
          /\ Lo(m, k - 1) = Lo(l, k) /\ Hi(m, k - 1) = Hi(l, k)
      BY Zenon, <1>12, <3>1
    <3>3. Lo(m, k - 1) <= Lo(l, k) /\ Hi(l, k) <= Hi(m, k - 1)
      BY SMTT(60), <1>2, <3>2
    <3> QED BY Zenon, <3>2, <3>3
  <2> QED BY SMTT(60), <2>1, <2>2, <2>3 DEF Nodes
<1>20. \A k \in Nodes(m) : Lo(m, k) \in Nat /\ Hi(m, k) \in Nat
  BY Zenon, <1>8, ListNumbers
<1>21. ASSUME NEW q \in Int, ListCovers(l, q) PROVE ListCovers(m, q)
  <2>1. PICK k \in Nodes(l) : Lo(l, k) <= q /\ q < Hi(l, k)
    BY <1>21 DEF ListCovers
  <2>2. PICK j \in Nodes(m) : Lo(m, j) <= Lo(l, k) /\ Hi(l, k) <= Hi(m, j)
    BY Zenon, <1>19
  <2>3. /\ Lo(l, k) \in Nat /\ Hi(l, k) \in Nat
        /\ Lo(m, j) \in Nat /\ Hi(m, j) \in Nat
    BY Zenon, <1>2, <1>20
  <2>4. Lo(m, j) <= q /\ q < Hi(m, j)
    BY SMTT(60), <2>1, <2>2, <2>3
  <2> QED BY Zenon, <2>4 DEF ListCovers
<1>22. ASSUME NEW a \in Int, NEW b \in Int, HoldsRange(l, a, b)
       PROVE  HoldsRange(m, a, b)
  <2>1. PICK k \in Nodes(l) : Lo(l, k) <= a /\ b <= Hi(l, k)
    BY <1>22 DEF HoldsRange
  <2>2. PICK j \in Nodes(m) : Lo(m, j) <= Lo(l, k) /\ Hi(l, k) <= Hi(m, j)
    BY Zenon, <1>19
  <2>3. /\ Lo(l, k) \in Nat /\ Hi(l, k) \in Nat
        /\ Lo(m, j) \in Nat /\ Hi(m, j) \in Nat
    BY Zenon, <1>2, <1>20
  <2>4. Lo(m, j) <= a /\ b <= Hi(m, j)
    BY SMTT(60), <2>1, <2>2, <2>3
  <2> QED BY Zenon, <2>4 DEF HoldsRange
<1>23. ASSUME NEW k \in 1 .. i PROVE Lo(m, k) = Lo(l, k)
  <2>1. k \in 1 .. i - 1 \/ k = i
    OBVIOUS
  <2> QED BY Zenon, <1>10, <1>11, <2>1
<1>24. KeepsApart(m, l)
  BY Zenon, <1>18 DEF KeepsApart, ApartFrom
<1> QED BY Zenon, <1>9, <1>11, <1>17, <1>21, <1>22, <1>23, <1>24 DEF Merged
=============================================================================
