--------------------------- MODULE QdmaQueueProofs ---------------------------
(***************************************************************************)
(* The properties of QdmaQueue, for any number of queues, as long as       *)
(* indexes are chosen by the user, starts are waited for, only the         *)
(* programming of a context fails, and completion queues are removed       *)
(* before a reset.                                                         *)
(***************************************************************************)
EXTENDS QdmaQueue, FiniteSetTheorems, TLAPS

Orderly == ~AnyIdx /\ Patient /\ Tidy /\ MayFail \subseteq {"prog"}

\* Whether a queue holds what qdma_queue_start takes.
Taken(q) ==
    \/ descq[q].q_state = "online"
    \/ work.pc = "set up" /\ work.q = q
    \/ nl.pc = "stopping" /\ nl.q = q

\* A queue that is being started or stopped is enabled, and is the only one.
StepInv ==
    /\ nl.pc # "oops"
    /\ work.pc # "idle" => nl.pc = "waiting"
    /\ work.pc \in {"checked", "set up"} => descq[work.q].q_state = "enabled"
    /\ nl.pc = "stopping" => descq[nl.q].q_state = "enabled"

ResInv ==
    \A q \in Queues :
        /\ Taken(q) => res[q] = 1 /\ intr[q] = 1 /\ q \in hw
        /\ ~Taken(q) => res[q] = 0 /\ intr[q] = 0 /\ q \notin hw

\* The table has the queues that are in use, and no others.
TableInv ==
    \A t \in Types, i \in Idx :
        /\ Present(t, i) => /\ qmax = QMax
                            /\ qdata[<<t, i>>].qhndl = Handle(t, i)
                            /\ qdata[<<t, i>>].xcdev = IF t \in Dirs THEN "cdev" ELSE "none"
        /\ ~Present(t, i) => qdata[<<t, i>>].qhndl = 0 /\ qdata[<<t, i>>].xcdev = "none"

DirInv == \A i \in Idx : dir_init[i] = {t \in Dirs : Present(t, i)}

IInv == TypeOK /\ StepInv /\ ResInv /\ TableInv /\ DirInv /\ PairsAgree /\ CountsExact

-----------------------------------------------------------------------------
\* Handles are numbers below 3 * QMax, and no two queues have the same one.
LEMMA HandleFacts ==
    \A t \in Types, i \in Idx :
        /\ Handle(t, i) \in 0 .. 3 * QMax - 1
        /\ QueueOf(Handle(t, i)) = <<t, i>>
        /\ t \notin Dirs => Handle(t, i) # 0
  <1>1. \A t \in Types, i \in Idx :
            /\ Handle(t, i) \in 0 .. 3 * QMax - 1
            /\ t \notin Dirs => Handle(t, i) # 0
    BY QueueAssumption DEF Handle, Types, Dirs, Idx
  <1>2. \A t, s \in Types, i, j \in Idx : Handle(t, i) = Handle(s, j) => t = s /\ i = j
    BY QueueAssumption DEF Handle, Types, Idx
  <1>3. ASSUME NEW t \in Types, NEW i \in Idx
        PROVE  QueueOf(Handle(t, i)) = <<t, i>>
    <2> DEFINE q == QueueOf(Handle(t, i))
    <2>1. <<t, i>> \in Queues
      BY DEF Queues
    <2>2. q \in Queues /\ Handle(q[1], q[2]) = Handle(t, i)
      BY <2>1 DEF QueueOf
    <2>3. q = <<q[1], q[2]>> /\ q[1] \in Types /\ q[2] \in Idx
      BY <2>2 DEF Queues
    <2>4. q[1] = t /\ q[2] = i
      BY <2>2, <2>3, <1>2
    <2>. QED
      BY <2>3, <2>4
  <1>. QED
    BY <1>1, <1>3

\* What a command finds in the table is the queue at that place, in use.
LEMMA StandsForIt ==
    ASSUME IInv, NEW t \in Types, NEW i \in Idx, Configured(t, i)
    PROVE  Stands(t, i) = <<t, i>> /\ Present(t, i)
  <1>1. Present(t, i)
    BY DEF IInv, TableInv, Configured, NoQdata
  <1>2. qdata[<<t, i>>].qhndl = Handle(t, i)
    BY <1>1 DEF IInv, TableInv
  <1>. QED
    BY <1>1, <1>2, HandleFacts DEF Stands

\* And every queue in use can be found.
LEMMA PresentIsConfigured ==
    ASSUME IInv, NEW t \in Types, NEW i \in Idx, Present(t, i)
    PROVE  Configured(t, i)
  <1>1. qmax = QMax
    BY Zenon DEF IInv, TableInv
  <1>2. qdata[<<t, i>>].qhndl = Handle(t, i) /\ (t \in Dirs => qdata[<<t, i>>].xcdev = "cdev")
    BY DEF IInv, TableInv
  <1>. QED
    BY <1>1, <1>2, HandleFacts, QueueAssumption DEF Configured

-----------------------------------------------------------------------------
\* The queues a counter stands for.
Counted(c) == {q \in Queues : descq[q].q_state # "disabled" /\ c \in CountedIn(q[1], descq[q].st)}

\* There are finitely many queues, hence of those counted.
LEMMA QueuesFinite == IsFiniteSet(Queues) /\ \A c : IsFiniteSet(Counted(c))
  <1>1. IsFiniteSet(Idx)
    BY QueueAssumption, FS_Interval DEF Idx
  <1>2. IsFiniteSet(Types)
    <2>1. IsFiniteSet({"H2C"}) /\ IsFiniteSet({"C2H"}) /\ IsFiniteSet({"CMPT"})
      BY Zenon, FS_Singleton
    <2>2. IsFiniteSet({"H2C"} \cup {"C2H"})
      BY Zenon, <2>1, FS_Union
    <2>3. IsFiniteSet({"H2C"} \cup {"C2H"} \cup {"CMPT"})
      BY Zenon, <2>1, <2>2, FS_Union
    <2>4. Types = {"H2C"} \cup {"C2H"} \cup {"CMPT"}
      BY DEF Types
    <2>. QED
      BY <2>3, <2>4
  <1>3. IsFiniteSet(Queues)
    BY <1>1, <1>2, FS_Product DEF Queues
  <1>. QED
    BY <1>3, FS_Subset DEF Counted

\* As many pairs <<t, i>> as indexes i.
LEMMA PairCount ==
    ASSUME NEW t, NEW S \in SUBSET Idx
    PROVE  IsFiniteSet(S) /\ Cardinality({<<t, i>> : i \in S}) = Cardinality(S)
  <1> DEFINE P == {<<t, i>> : i \in S}
             f == [i \in S |-> <<t, i>>]
  <1>0. IsFiniteSet(Idx)
    BY QueueAssumption, FS_Interval DEF Idx
  <1>1. IsFiniteSet(S)
    BY <1>0, FS_Subset
  <1>2. f \in Bijection(S, P)
    BY DEF Bijection, Injection, Surjection, IsInjective
  <1>3. ExistsBijection(S, P)
    BY <1>2 DEF ExistsBijection
  <1>. QED
    BY <1>1, <1>3, FS_Bijection

\* When a streaming C2H queue can be added, there is room for its completion ring:
\* the queues counted there are at different indexes, and none at the new one.
LEMMA CmptRoom ==
    ASSUME IInv, NEW i \in Idx, is_usable_queue(i, "C2H", "ST")
    PROVE  active["CMPT"] < QMax
  <1> DEFINE C == Counted("CMPT")
             f == [q \in C |-> q[2]]
             J == Idx \ {i}
  <1>1. \A q \in C : /\ q[1] \in {"C2H", "CMPT"} /\ q[2] \in Idx /\ q = <<q[1], q[2]>>
                     /\ Present(q[1], q[2])
                     /\ q[1] = "C2H" => Streams("C2H", q[2])
    BY DEF Counted, CountedIn, Queues, Types, Present, Streams
  <1>2. \A q \in C : q[2] # i
    BY <1>1 DEF is_usable_queue
  <1>3. \A q, r \in C : q[2] = r[2] => q = r
    <2>1. \A q, r \in C : q[2] = r[2] /\ q[1] = "C2H" => r[1] # "CMPT"
      BY Zenon, <1>1 DEF IInv, PairsAgree
    <2>. QED
      BY <1>1, <2>1
  <1>4. f \in Injection(C, J)
    BY <1>1, <1>2, <1>3 DEF Injection, IsInjective
  <1>5. IsFiniteSet(Idx) /\ Cardinality(Idx) = QMax
    BY QueueAssumption, FS_Interval DEF Idx
  <1>6. IsFiniteSet(J) /\ Cardinality(J) = QMax - 1
    BY <1>5, FS_RemoveElement
  <1>7. Cardinality(C) <= QMax - 1
    BY <1>4, <1>6, FS_Injection
  <1>8. active["CMPT"] = Cardinality(C)
    BY DEF IInv, CountsExact, Counted, Types
  <1>9. active["CMPT"] \in 0 .. QMax
    BY DEF IInv, TypeOK, Types
  <1>. QED
    BY <1>7, <1>8, <1>9, QueueAssumption

-----------------------------------------------------------------------------
(***************************************************************************)
(* The actions, one by one                                                 *)
(***************************************************************************)
\* What an added queue changes.
Added(t, st, i) ==
    /\ is_usable_queue(i, t, st) /\ (t = "CMPT" => st = "MM")
    /\ qmax = QMax /\ \A c \in CountedIn(t, st) : active[c] < QMax
    /\ descq' = [descq EXCEPT ![<<t, i>>] = [q_state |-> "enabled", st |-> st]]
    /\ active' = [c \in Types |-> IF c \in CountedIn(t, st) THEN active[c] + 1 ELSE active[c]]
    /\ qdata' = [qdata EXCEPT ![<<t, i>>] =
                    [qhndl |-> Handle(t, i), xcdev |-> IF t \in Dirs THEN "cdev" ELSE "none"]]
    /\ dir_init' = IF t \in Dirs
                   THEN [dir_init EXCEPT ![i] = IF Present(OtherDir(t), i) THEN @ \cup {t} ELSE {t}]
                   ELSE dir_init
    /\ ready' \in BOOLEAN
    /\ UNCHANGED <<res, intr, hw, qmax, nl, work>>

\* Under these assumptions, a command that adds a queue adds it as Added says.
LEMMA AddQueueAdds ==
    ASSUME Orderly, IInv, NEW t \in Types, NEW st \in {"MM", "ST"}, AddQueue(t, st)
    PROVE  nl.pc = "idle" /\ \E i \in Idx : Added(t, st, i)
  <1>1. PICK i \in Idx :
            /\ is_usable_queue(i, t, st)
            /\ Claimed(i, FALSE) \in Idx
            /\ qdma_queue_add(t, st, i, <<t, Claimed(i, FALSE)>>) /\ UNCHANGED nl
    <2>1. PICK auto \in {FALSE, AnyIdx}, i \in Idx :
            /\ is_usable_queue(i, t, st)
            /\ IF Claimed(i, auto) \in Idx
               THEN qdma_queue_add(t, st, i, <<t, Claimed(i, auto)>>) /\ UNCHANGED nl
               ELSE nl' = [nl EXCEPT !.pc = "oops"] /\ UNCHANGED <<descq, active, ready, tableVars>>
      BY Zenon DEF AddQueue
    <2>2. auto = FALSE
      BY Zenon, <2>1, QueueAssumption DEF Orderly
    <2>3. Claimed(i, FALSE) \in Idx
      BY DEF Claimed
    <2>. QED
      BY Zenon, <2>1, <2>2, <2>3
  <1>2. Claimed(i, FALSE) = i
    BY DEF Claimed
  <1>3. /\ nl.pc = "idle" /\ qmax > 0 /\ (t = "CMPT" => st = "MM") /\ active[t] < qmax
        /\ UNCHANGED <<res, intr, hw, qmax, work>>
    BY DEF AddQueue
  <1>4. qmax = QMax
    <2>1. qmax \in {0, QMax}
      BY DEF IInv, TypeOK
    <2>. QED
      BY <2>1, <1>3
  <1>5. \A c \in CountedIn(t, st) : active[c] < qmax
    BY <1>1, <1>3, <1>4, CmptRoom DEF CountedIn
  <1>6. PICK prepared \in BOOLEAN :
            /\ ~prepared => ~ready /\ "prep" \in MayFail
            /\ ready' = (ready \/ prepared)
            /\ descq' = [descq EXCEPT ![<<t, i>>] = [q_state |-> "enabled",
                                                    st |-> IF prepared THEN st ELSE @.st]]
            /\ IF prepared /\ \A c \in CountedIn(t, st) : active[c] < qmax
               THEN /\ active' = [c \in Types |-> IF c \in CountedIn(t, st)
                                                   THEN active[c] + 1 ELSE active[c]]
                    /\ Register(t, i)
               ELSE UNCHANGED <<active, tableVars>>
    BY Zenon, <1>1, <1>2 DEF qdma_queue_add
  <1>7. prepared
    BY <1>6 DEF Orderly
  <1>8. Register(t, i)
    BY <1>5, <1>6, <1>7
  <1>9. t \in Dirs => (qdata[<<OtherDir(t), i>>].xcdev # "none" <=> Present(OtherDir(t), i))
    BY DEF IInv, TableInv, OtherDir, Dirs, Types
  <1>10. /\ qdata' = [qdata EXCEPT ![<<t, i>>] =
                    [qhndl |-> Handle(t, i), xcdev |-> IF t \in Dirs THEN "cdev" ELSE "none"]]
         /\ dir_init' = IF t \in Dirs
                   THEN [dir_init EXCEPT ![i] = IF Present(OtherDir(t), i) THEN @ \cup {t} ELSE {t}]
                   ELSE dir_init
    BY Zenon, <1>8, <1>9 DEF Register, Orderly
  <1>11. ready' \in BOOLEAN
    BY <1>6, Zenon DEF IInv, TypeOK
  <1>12. descq' = [descq EXCEPT ![<<t, i>>] = [q_state |-> "enabled", st |-> st]]
    BY <1>6, <1>7
  <1>13. active' = [c \in Types |-> IF c \in CountedIn(t, st) THEN active[c] + 1 ELSE active[c]]
    BY <1>5, <1>6, <1>7
  <1>14. Added(t, st, i)
    BY <1>1, <1>3, <1>4, <1>5, <1>10, <1>11, <1>12, <1>13 DEF Added
  <1>. QED
    BY <1>3, <1>14

\* A queue that is added is counted and listed, and goes with its neighbours.
LEMMA AddedKeeps ==
    ASSUME IInv, NEW t \in Types, NEW st \in {"MM", "ST"}, NEW i \in Idx,
           nl.pc = "idle", Added(t, st, i)
    PROVE  IInv'
  <1> DEFINE q == <<t, i>>
  <1>0. q \in Queues /\ ~Present(t, i)
    BY DEF Queues, Added, is_usable_queue
  <1>1. \A s \in Types, j \in Idx :
            /\ <<s, j>> # q => descq'[<<s, j>>] = descq[<<s, j>>]
            /\ <<s, j>> = q => descq'[<<s, j>>] = [q_state |-> "enabled", st |-> st]
    BY <1>0 DEF Added, IInv, TypeOK, Queues
  <1>2. \A s \in Types, j \in Idx : Present(s, j)' <=> Present(s, j) \/ (s = t /\ j = i)
    <2>1. Present(t, i)'
      BY <1>1 DEF Present
    <2>2. \A s \in Types, j \in Idx : ~(s = t /\ j = i) => (Present(s, j)' <=> Present(s, j))
      BY <1>1 DEF Present
    <2>. QED
      BY <2>1, <2>2
  <1>3. TypeOK'
    <2>1. descq' \in [Queues -> [q_state : {"disabled", "enabled", "online"}, st : {"MM", "ST"}]]
      BY <1>0 DEF Added, IInv, TypeOK
    <2>2. active' \in [Types -> 0 .. QMax]
      <3>1. \A c \in Types : active[c] \in 0 .. QMax
        BY DEF IInv, TypeOK
      <3>2. \A c \in CountedIn(t, st) : active[c] < QMax
        BY DEF Added
      <3>3. \A c \in Types : (IF c \in CountedIn(t, st) THEN active[c] + 1 ELSE active[c]) \in 0 .. QMax
        BY <3>1, <3>2, QueueAssumption
      <3>. QED
        BY <3>3 DEF Added
    <2>3. qdata' \in [Queues -> [qhndl : 0 .. 3 * QMax - 1, xcdev : {"none", "cdev"}]]
      BY <1>0, HandleFacts DEF Added, IInv, TypeOK
    <2>4. dir_init' \in [Idx -> SUBSET Dirs]
      BY DEF Added, IInv, TypeOK
    <2>. QED
      BY <2>1, <2>2, <2>3, <2>4 DEF Added, IInv, TypeOK
  <1>4. StepInv'
    <2>1. work.pc = "idle"
      BY DEF IInv, StepInv
    <2>. QED
      BY Zenon, <2>1 DEF Added, IInv, StepInv
  <1>5. ResInv'
    <2>0. descq[q].q_state # "online" /\ descq'[q].q_state # "online"
      BY <1>0, <1>1 DEF Present
    <2>1. \A r \in Queues : descq'[r].q_state = "online" <=> descq[r].q_state = "online"
      BY <2>0, <1>0 DEF Added, IInv, TypeOK
    <2>2. \A r \in Queues : Taken(r)' <=> Taken(r)
      BY <2>1 DEF Taken, Added
    <2>. QED
      BY Zenon, <2>2 DEF ResInv, IInv, Added
  <1>6. TableInv'
    <2>1. \A s \in Types, j \in Idx : <<s, j>> # q => qdata'[<<s, j>>] = qdata[<<s, j>>]
      BY DEF Added, IInv, TypeOK, Queues
    <2>2. qdata'[q] = [qhndl |-> Handle(t, i), xcdev |-> IF t \in Dirs THEN "cdev" ELSE "none"]
      BY <1>0 DEF Added, IInv, TypeOK
    <2>3. qmax' = QMax
      BY DEF Added
    <2>4. ASSUME NEW s \in Types, NEW j \in Idx, <<s, j>> # q
          PROVE  /\ Present(s, j)' => /\ qmax' = QMax
                                      /\ qdata'[<<s, j>>].qhndl = Handle(s, j)
                                      /\ qdata'[<<s, j>>].xcdev = IF s \in Dirs THEN "cdev" ELSE "none"
                 /\ ~Present(s, j)' => qdata'[<<s, j>>].qhndl = 0 /\ qdata'[<<s, j>>].xcdev = "none"
      BY <2>1, <2>3, <2>4, <1>2 DEF IInv, TableInv
    <2>5. /\ Present(t, i)'
          /\ qdata'[<<t, i>>].qhndl = Handle(t, i)
          /\ qdata'[<<t, i>>].xcdev = IF t \in Dirs THEN "cdev" ELSE "none"
      BY <2>2, <1>2
    <2>. QED
      BY <2>3, <2>4, <2>5 DEF TableInv
  <1>7. DirInv'
    <2>1. ASSUME NEW j \in Idx, j # i \/ t \notin Dirs
          PROVE  dir_init'[j] = {s \in Dirs : Present(s, j)'}
      <3>1. dir_init'[j] = dir_init[j]
        BY <2>1 DEF Added, IInv, TypeOK
      <3>2. \A s \in Dirs : Present(s, j)' <=> Present(s, j)
        BY <1>2, <2>1 DEF Dirs, Types
      <3>. QED
        BY <3>1, <3>2 DEF IInv, DirInv
    <2>2. ASSUME t \in Dirs
          PROVE  dir_init'[i] = {s \in Dirs : Present(s, i)'}
      <3>1. dir_init'[i] = IF Present(OtherDir(t), i) THEN dir_init[i] \cup {t} ELSE {t}
        BY Zenon, <2>2 DEF Added, IInv, TypeOK
      <3>2. dir_init[i] = {s \in Dirs : Present(s, i)}
        BY DEF IInv, DirInv
      <3>3. Dirs = {t, OtherDir(t)} /\ Dirs \subseteq Types
        BY <2>2 DEF Dirs, OtherDir, Types
      <3>. QED
        BY <3>1, <3>2, <3>3, <1>0, <1>2
    <2>. QED
      BY <2>1, <2>2 DEF DirInv
  <1>8. PairsAgree'
    <2>1. ASSUME NEW j \in Idx, j # i
          PROVE  \A s \in Types : (Present(s, j)' <=> Present(s, j)) /\ descq'[<<s, j>>] = descq[<<s, j>>]
      BY <1>1, <1>2, <2>1
    <2>2. ASSUME NEW j \in Idx, j # i
          PROVE  /\ Present("H2C", j)' /\ Present("C2H", j)'
                      => descq'[<<"H2C", j>>].st = descq'[<<"C2H", j>>].st
                 /\ Present("CMPT", j)' => ~Streams("H2C", j)' /\ ~Streams("C2H", j)'
      BY Zenon, <2>1, <2>2 DEF IInv, PairsAgree, Streams, Types
    <2>3. /\ Present("H2C", i)' /\ Present("C2H", i)'
               => descq'[<<"H2C", i>>].st = descq'[<<"C2H", i>>].st
          /\ Present("CMPT", i)' => ~Streams("H2C", i)' /\ ~Streams("C2H", i)'
      <3>1. is_usable_queue(i, t, st)
        BY DEF Added
      <3>2. CASE t = "CMPT"
        BY <3>1, <3>2, <1>1, <1>2 DEF IInv, PairsAgree, Streams, Types, is_usable_queue
      <3>3. CASE t = "H2C"
        BY <3>1, <3>3, <1>1, <1>2 DEF IInv, PairsAgree, Streams, Types, is_usable_queue, OtherDir
      <3>4. CASE t = "C2H"
        BY <3>1, <3>4, <1>1, <1>2 DEF IInv, PairsAgree, Streams, Types, is_usable_queue, OtherDir
      <3>. QED
        BY <3>2, <3>3, <3>4 DEF Types
    <2>. QED
      BY <2>2, <2>3 DEF PairsAgree
  <1>9. CountsExact'
    <2>1. ASSUME NEW c \in Types
          PROVE  active'[c] = Cardinality(Counted(c)')
      <3>1. active[c] = Cardinality(Counted(c)) /\ IsFiniteSet(Counted(c)) /\ q \notin Counted(c)
        BY Zenon, <1>0, QueuesFinite DEF IInv, CountsExact, Counted, Present
      <3>2. CASE c \in CountedIn(t, st)
        <4>1. Counted(c)' = Counted(c) \cup {q}
          BY <3>2, <1>0, <1>1 DEF Counted, Queues, Present
        <4>. QED
          BY ZenonT(60), <4>1, <3>1, <3>2, FS_AddElement DEF Added
      <3>3. CASE c \notin CountedIn(t, st)
        <4>1. Counted(c)' = Counted(c)
          BY <3>3, <1>0, <1>1 DEF Counted, Queues, Present
        <4>. QED
          BY <4>1, <3>1, <3>3 DEF Added
      <3>. QED
        BY <3>2, <3>3
    <2>. QED
      BY <2>1 DEF CountsExact, Counted
  <1>. QED
    BY <1>3, <1>4, <1>5, <1>6, <1>7, <1>8, <1>9 DEF IInv

\* A step that leaves the set of queues, their modes and the table alone.
LEMMA SameQueues ==
    ASSUME IInv,
           \A q \in Queues : /\ descq'[q].q_state = "disabled" <=> descq[q].q_state = "disabled"
                             /\ descq'[q].st = descq[q].st,
           UNCHANGED <<active, qmax, tableVars>>
    PROVE  TableInv' /\ DirInv' /\ PairsAgree' /\ CountsExact'
  <1>1. \A t \in Types, i \in Idx :
            /\ Present(t, i)' <=> Present(t, i)
            /\ Streams(t, i)' <=> Streams(t, i)
            /\ descq'[<<t, i>>].st = descq[<<t, i>>].st
    BY DEF Queues, Present, Streams
  <1>2. TableInv'
    BY <1>1 DEF IInv, TableInv, tableVars
  <1>3. DirInv'
    <2>1. \A i \in Idx : {t \in Dirs : Present(t, i)'} = {t \in Dirs : Present(t, i)}
      BY Zenon, <1>1 DEF Dirs, Types
    <2>. QED
      BY <2>1 DEF IInv, DirInv, tableVars
  <1>4. PairsAgree'
    BY <1>1 DEF IInv, PairsAgree, Types
  <1>5. CountsExact'
    <2>1. \A c \in Types : Counted(c)' = Counted(c)
      BY DEF Counted
    <2>2. \A c \in Types : active[c] = Cardinality(Counted(c))
      BY DEF IInv, CountsExact, Counted
    <2>3. \A c \in Types : active'[c] = Cardinality(Counted(c)')
      BY <2>1, <2>2
    <2>. QED
      BY <2>3 DEF CountsExact, Counted
  <1>. QED
    BY <1>2, <1>3, <1>4, <1>5

\* One more, and one less, at one place of a table of numbers.
LEMMA Bump ==
    ASSUME NEW S, NEW f \in [S -> Nat], NEW x \in S
    PROVE  LET g == [f EXCEPT ![x] = @ + 1] IN
           g \in [S -> Nat] /\ g[x] = f[x] + 1 /\ \A y \in S \ {x} : g[y] = f[y]
  <1>1. f[x] + 1 \in Nat
    OBVIOUS
  <1>. QED
    BY <1>1

LEMMA Drop ==
    ASSUME NEW S, NEW f \in [S -> Nat], NEW x \in S, f[x] = 1
    PROVE  LET g == [f EXCEPT ![x] = Decremented(@, 1)] IN
           g \in [S -> Nat] /\ g[x] = 0 /\ \A y \in S \ {x} : g[y] = f[y]
  <1>1. Decremented(f[x], 1) = 0
    BY DEF Decremented
  <1>. QED
    BY <1>1

\* The queues the two threads are at.
LEMMA ThreadTypes ==
    /\ Idle \in [pc : {"idle"}, q : Queues]
    /\ IInv => work.q \in Queues /\ nl.q \in Queues
  <1>1. <<"H2C", 0>> \in Queues
    BY QueueAssumption DEF Queues, Types, Idx
  <1>2. Idle \in [pc : {"idle"}, q : Queues]
    BY <1>1 DEF Idle
  <1>3. IInv => work.q \in Queues /\ nl.q \in Queues
    BY DEF IInv, TypeOK
  <1>. QED
    BY <1>2, <1>3

\* The steps of a start: only its own queue has anything taken for it.
LEMMA StartQueueKeeps ==
    ASSUME IInv, NEW t \in Types, NEW i \in Idx, StartQueue(t, i)
    PROVE  IInv'
  <1>1. <<t, i>> \in Queues
    BY DEF Queues
  <1>2. TypeOK'
    BY <1>1 DEF IInv, TypeOK, StartQueue, qVars, devVars, tableVars
  <1>3. StepInv'
    BY Zenon DEF IInv, StepInv, StartQueue, qVars
  <1>4. ResInv'
    <2>1. \A q \in Queues : Taken(q)' <=> Taken(q)
      BY DEF Taken, StartQueue, qVars
    <2>. QED
      BY Zenon, <2>1 DEF IInv, ResInv, StartQueue, qVars
  <1>. QED
    BY <1>2, <1>3, <1>4, SameQueues DEF IInv, StartQueue, qVars, devVars

LEMMA StartCheckKeeps ==
    ASSUME IInv, StartCheck
    PROVE  IInv'
  <1> DEFINE t == work.q[1]  i == work.q[2]
  <1>0. work.q \in Queues /\ Idle \in [pc : {"idle"}, q : Queues]
    BY ThreadTypes
  <1>1. t \in Types /\ i \in Idx /\ work.q = <<t, i>>
    BY <1>0 DEF Queues
  <1>2. Configured(t, i) => Stands(t, i) = <<t, i>>
    BY <1>1, StandsForIt
  <1>3. \/ work' = Idle
        \/ work' = [pc |-> "checked", q |-> work.q] /\ descq[work.q].q_state = "enabled"
    BY <1>1, <1>2 DEF StartCheck
  <1>4. TypeOK'
    BY <1>0, <1>3 DEF IInv, TypeOK, StartCheck, qVars, devVars, tableVars
  <1>5. StepInv'
    BY Zenon, <1>3 DEF IInv, StepInv, StartCheck, qVars, Idle
  <1>6. ResInv'
    <2>1. \A q \in Queues : Taken(q)' <=> Taken(q)
      BY Zenon, <1>3 DEF Taken, StartCheck, qVars, Idle
    <2>. QED
      BY Zenon, <2>1 DEF IInv, ResInv, StartCheck, qVars
  <1>. QED
    BY Zenon, <1>4, <1>5, <1>6, SameQueues DEF IInv, StartCheck, qVars, devVars

LEMMA StartSetUpKeeps ==
    ASSUME IInv, StartSetUp
    PROVE  IInv'
  <1>0. work.q \in Queues /\ Idle \in [pc : {"idle"}, q : Queues]
    BY ThreadTypes
  <1>1. descq[work.q].q_state = "enabled" /\ nl.pc = "waiting" /\ ~Taken(work.q)
    BY DEF IInv, StepInv, StartSetUp, Taken
  <1>2. res[work.q] = 0 /\ intr[work.q] = 0 /\ work.q \notin hw
    BY <1>0, <1>1 DEF IInv, ResInv
  <1>2a. res \in [Queues -> Nat] /\ intr \in [Queues -> Nat] /\ hw \subseteq Queues
    BY DEF IInv, TypeOK
  <1>3. CASE /\ work' = [pc |-> "set up", q |-> work.q]
             /\ res' = [res EXCEPT ![work.q] = @ + 1]
             /\ intr' = [intr EXCEPT ![work.q] = @ + 1]
             /\ hw' = hw \cup {work.q}
    <2>1. TypeOK'
      <3>1. work' \in [pc : {"idle", "queued", "checked", "set up"}, q : Queues]
        BY <1>3 DEF IInv, TypeOK
      <3>2. res' \in [Queues -> Nat]
        BY <1>0, <1>3, <1>2a, Bump
      <3>3. intr' \in [Queues -> Nat]
        BY <1>0, <1>3, <1>2a, Bump
      <3>4. hw' \subseteq Queues
        BY <1>0, <1>3, <1>2a
      <3>. QED
        BY <3>1, <3>2, <3>3, <3>4 DEF IInv, TypeOK, StartSetUp, devVars, tableVars
    <2>2. work'.pc = "set up" /\ work'.q = work.q
      BY <1>3 DEF IInv, TypeOK
    <2>3. StepInv'
      BY <1>1, <2>2 DEF IInv, StepInv, StartSetUp
    <2>4. ResInv'
      <3>1. \A q \in Queues : Taken(q)' <=> Taken(q) \/ q = work.q
        BY <2>2 DEF Taken, StartSetUp
      <3>2. \A q \in Queues \ {work.q} : res'[q] = res[q] /\ intr'[q] = intr[q] /\ (q \in hw' <=> q \in hw)
        BY <1>3 DEF IInv, TypeOK
      <3>3. res'[work.q] = 1 /\ intr'[work.q] = 1 /\ work.q \in hw'
        <4>1. res'[work.q] = res[work.q] + 1
          BY <1>0, <1>3, <1>2a, Bump
        <4>2. intr'[work.q] = intr[work.q] + 1
          BY <1>0, <1>3, <1>2a, Bump
        <4>3. work.q \in hw'
          BY <1>3
        <4>. QED
          BY <4>1, <4>2, <4>3, <1>2
      <3>. QED
        BY <3>1, <3>2, <3>3 DEF IInv, ResInv
    <2>. QED
      BY <2>1, <2>3, <2>4, SameQueues DEF IInv, StartSetUp, devVars
  <1>4. CASE work' = Idle /\ hw' = hw \ {work.q} /\ UNCHANGED <<res, intr>>
    <2>1. TypeOK'
      BY <1>0, <1>4 DEF IInv, TypeOK, StartSetUp, devVars, tableVars
    <2>2. work'.pc = "idle"
      BY <1>4 DEF Idle
    <2>3. StepInv'
      BY <1>1, <2>2 DEF IInv, StepInv, StartSetUp
    <2>4. ResInv'
      <3>1. \A q \in Queues : Taken(q)' <=> Taken(q)
        BY <2>2 DEF Taken, StartSetUp
      <3>2. hw' = hw
        BY <1>2, <1>4
      <3>. QED
        BY <3>1, <3>2, <1>4 DEF IInv, ResInv
    <2>. QED
      BY <2>1, <2>3, <2>4, SameQueues DEF IInv, StartSetUp, devVars
  <1>. QED
    BY <1>3, <1>4 DEF StartSetUp

LEMMA StartOnlineKeeps ==
    ASSUME IInv, StartOnline
    PROVE  IInv'
  <1>0. work.q \in Queues /\ Idle \in [pc : {"idle"}, q : Queues]
    BY ThreadTypes
  <1>1. descq[work.q].q_state = "enabled" /\ nl.pc = "waiting" /\ work.pc = "set up"
    BY DEF IInv, StepInv, StartOnline
  <1>2. \A q \in Queues : /\ descq'[q].q_state = IF q = work.q THEN "online" ELSE descq[q].q_state
                          /\ descq'[q].st = descq[q].st
    <2>1. descq \in [Queues -> [q_state : {"disabled", "enabled", "online"}, st : {"MM", "ST"}]]
      BY DEF IInv, TypeOK
    <2>2. descq' = [descq EXCEPT ![work.q].q_state = "online"]
      BY DEF StartOnline
    <2>. QED
      BY <1>0, <2>1, <2>2
  <1>3. TypeOK'
    <2>1. descq' \in [Queues -> [q_state : {"disabled", "enabled", "online"}, st : {"MM", "ST"}]]
      BY ZenonT(60), <1>0 DEF IInv, TypeOK, StartOnline
    <2>. QED
      BY <1>0, <2>1 DEF IInv, TypeOK, StartOnline, devVars, tableVars
  <1>4. work'.pc = "idle"
    BY DEF StartOnline, Idle
  <1>5. StepInv'
    BY <1>1, <1>4 DEF IInv, StepInv, StartOnline
  <1>6. ResInv'
    <2>1. \A q \in Queues : Taken(q)' <=> Taken(q)
      BY <1>1, <1>2, <1>4 DEF Taken, StartOnline
    <2>. QED
      BY <2>1 DEF IInv, ResInv, StartOnline
  <1>7. \A q \in Queues : descq'[q].q_state = "disabled" <=> descq[q].q_state = "disabled"
    BY <1>1, <1>2
  <1>. QED
    BY <1>2, <1>3, <1>5, <1>6, <1>7, SameQueues DEF IInv, StartOnline, devVars

LEMMA StartReturnsKeeps ==
    ASSUME Orderly, IInv, StartReturns
    PROVE  IInv'
  <1>1. Idle \in [pc : {"idle"}, q : Queues] /\ work.pc = "idle"
    BY ThreadTypes DEF StartReturns, Orderly
  <1>2. TypeOK'
    BY <1>1 DEF IInv, TypeOK, StartReturns, qVars, devVars, tableVars
  <1>3. StepInv'
    BY SMTT(60), <1>1 DEF IInv, StepInv, StartReturns, qVars, Idle
  <1>4. ResInv'
    <2>1. \A q \in Queues : Taken(q)' <=> Taken(q)
      BY DEF Taken, StartReturns, qVars, Idle
    <2>. QED
      BY SMTT(60), <2>1 DEF IInv, ResInv, StartReturns, qVars
  <1>. QED
    BY <1>2, <1>3, <1>4, SameQueues DEF IInv, StartReturns, qVars, devVars

\* The steps of a stop.
LEMMA StopQueueKeeps ==
    ASSUME IInv, NEW t \in Types, NEW i \in Idx, StopQueue(t, i)
    PROVE  IInv'
  <1> DEFINE r == <<t, i>>
  <1>1. r \in Queues /\ Stands(t, i) = r
    BY StandsForIt DEF Queues, StopQueue
  <1>2. /\ descq[r].q_state = "online" /\ nl.pc = "idle" /\ work.pc = "idle"
        /\ descq' = [descq EXCEPT ![r].q_state = "enabled"]
        /\ nl' = [pc |-> "stopping", q |-> r]
    BY <1>1 DEF StopQueue, IInv, StepInv
  <1>3. descq \in [Queues -> [q_state : {"disabled", "enabled", "online"}, st : {"MM", "ST"}]]
    BY DEF IInv, TypeOK
  <1>4. \A q \in Queues : /\ descq'[q].q_state = IF q = r THEN "enabled" ELSE descq[q].q_state
                          /\ descq'[q].st = descq[q].st
    BY SMTT(60), <1>1, <1>2, <1>3
  <1>5. TypeOK'
    <2>1. descq' \in [Queues -> [q_state : {"disabled", "enabled", "online"}, st : {"MM", "ST"}]]
      BY <1>1, <1>2, <1>3
    <2>2. nl' \in [pc : {"idle", "waiting", "stopping", "oops"}, q : Queues]
      BY <1>1, <1>2
    <2>. QED
      BY <2>1, <2>2 DEF IInv, TypeOK, StopQueue, devVars, tableVars
  <1>6. StepInv'
    BY <1>1, <1>2, <1>4 DEF StepInv, StopQueue
  <1>7. ResInv'
    <2>1. \A q \in Queues : Taken(q)' <=> Taken(q)
      BY <1>1, <1>2, <1>4 DEF Taken, StopQueue
    <2>. QED
      BY <2>1 DEF IInv, ResInv, StopQueue
  <1>8. \A q \in Queues : descq'[q].q_state = "disabled" <=> descq[q].q_state = "disabled"
    BY <1>2, <1>4
  <1>. QED
    BY <1>4, <1>5, <1>6, <1>7, <1>8, SameQueues DEF IInv, StopQueue, devVars

LEMMA StopTakeDownKeeps ==
    ASSUME IInv, StopTakeDown
    PROVE  IInv'
  <1>0. nl.q \in Queues /\ Idle \in [pc : {"idle"}, q : Queues]
    BY ThreadTypes
  <1>1. descq[nl.q].q_state = "enabled" /\ work.pc = "idle" /\ Taken(nl.q)
    BY DEF IInv, StepInv, StopTakeDown, Taken
  <1>2. res[nl.q] = 1 /\ intr[nl.q] = 1
    BY <1>0, <1>1 DEF IInv, ResInv
  <1>3. res \in [Queues -> Nat] /\ intr \in [Queues -> Nat] /\ hw \subseteq Queues
    BY DEF IInv, TypeOK
  <1>4. res' \in [Queues -> Nat] /\ res'[nl.q] = 0 /\ \A q \in Queues \ {nl.q} : res'[q] = res[q]
    BY <1>0, <1>2, <1>3, Drop DEF StopTakeDown
  <1>5. intr' \in [Queues -> Nat] /\ intr'[nl.q] = 0 /\ \A q \in Queues \ {nl.q} : intr'[q] = intr[q]
    BY <1>0, <1>2, <1>3, Drop DEF StopTakeDown
  <1>6. TypeOK'
    BY <1>0, <1>3, <1>4, <1>5 DEF IInv, TypeOK, StopTakeDown, devVars, tableVars
  <1>7. StepInv'
    BY SMTT(60), <1>1 DEF StepInv, StopTakeDown, Idle
  <1>8. ResInv'
    <2>1. \A q \in Queues : Taken(q)' <=> Taken(q) /\ q # nl.q
      BY <1>1 DEF Taken, StopTakeDown, Idle
    <2>2. hw' = hw \ {nl.q}
      BY DEF StopTakeDown
    <2>. QED
      BY SMTT(60), <2>1, <2>2, <1>4, <1>5 DEF IInv, ResInv
  <1>. QED
    BY <1>6, <1>7, <1>8, SameQueues DEF IInv, StopTakeDown, devVars

\* A queue that is removed leaves the counters and the table it was in.
LEMMA DeleteQueueKeeps ==
    ASSUME IInv, NEW t \in Types, NEW i \in Idx, DeleteQueue(t, i)
    PROVE  IInv'
  <1> DEFINE r == <<t, i>>
             st == descq[r].st
  <1>1. r \in Queues /\ Stands(t, i) = r
    BY StandsForIt DEF Queues, DeleteQueue
  <1>2a. descq[r].q_state = "enabled" /\ nl.pc = "idle" /\ work.pc = "idle"
    <2>1. descq[r].q_state = "enabled" /\ nl.pc = "idle"
      BY <1>1 DEF DeleteQueue
    <2>. QED
      BY <2>1 DEF IInv, StepInv
  <1>2b. descq' = [descq EXCEPT ![r].q_state = "disabled"]
    BY <1>1 DEF DeleteQueue
  <1>2. /\ active' = [c \in Types |-> IF c \in CountedIn(t, st)
                                       THEN Decremented(active[c], 1) ELSE active[c]]
        /\ qdata' = [qdata EXCEPT ![r] = NoQdata]
        /\ dir_init' = [dir_init EXCEPT ![i] = @ \ {t}]
        /\ UNCHANGED <<res, intr, hw, qmax, ready, nl, work>>
    BY <1>1 DEF DeleteQueue
  <1>3. descq \in [Queues -> [q_state : {"disabled", "enabled", "online"}, st : {"MM", "ST"}]]
    BY DEF IInv, TypeOK
  <1>4. \A q \in Queues : /\ descq'[q].q_state = IF q = r THEN "disabled" ELSE descq[q].q_state
                          /\ descq'[q].st = descq[q].st
    BY Zenon, <1>1, <1>2b, <1>3
  <1>5. \A s \in Types, j \in Idx :
            /\ <<s, j>> \in Queues
            /\ Present(s, j)' <=> Present(s, j) /\ <<s, j>> # r
            /\ Streams(s, j)' <=> Streams(s, j) /\ <<s, j>> # r
            /\ descq'[<<s, j>>].st = descq[<<s, j>>].st
    BY SMTT(60), <1>4 DEF Queues, Present, Streams
  <1>6. \A c \in Types : active[c] = Cardinality(Counted(c)) /\ active[c] \in 0 .. QMax
    BY DEF IInv, TypeOK, CountsExact, Counted
  <1>7. \A c \in CountedIn(t, st) : c \in Types /\ r \in Counted(c)
    BY <1>1, <1>2a DEF Counted, CountedIn, Types
  <1>8. \A c \in CountedIn(t, st) : active[c] > 0
    <2> SUFFICES ASSUME NEW c \in CountedIn(t, st) PROVE active[c] > 0
      OBVIOUS
    <2>1. active[c] # 0
      BY SMTT(60), <1>6, <1>7, QueuesFinite, FS_EmptySet
    <2>. QED
      BY <2>1, <1>6, <1>7
  <1>9. \A c \in CountedIn(t, st) : Decremented(active[c], 1) = active[c] - 1
    BY <1>6, <1>7, <1>8 DEF Decremented
  <1>10. TypeOK'
    <2>1. descq' \in [Queues -> [q_state : {"disabled", "enabled", "online"}, st : {"MM", "ST"}]]
      BY <1>1, <1>2b, <1>3
    <2>2. active' \in [Types -> 0 .. QMax]
      <3>1. \A c \in Types : (IF c \in CountedIn(t, st) THEN Decremented(active[c], 1) ELSE active[c])
                                 \in 0 .. QMax
        BY SMTT(60), <1>6, <1>8, <1>9, QueueAssumption
      <3>. QED
        BY Zenon, <3>1, <1>2
    <2>3. qdata' \in [Queues -> [qhndl : 0 .. 3 * QMax - 1, xcdev : {"none", "cdev"}]]
      <3>1. NoQdata \in [qhndl : 0 .. 3 * QMax - 1, xcdev : {"none", "cdev"}]
        BY QueueAssumption DEF NoQdata
      <3>. QED
        BY <1>1, <1>2, <3>1 DEF IInv, TypeOK
    <2>4. dir_init' \in [Idx -> SUBSET Dirs]
      BY <1>2 DEF IInv, TypeOK
    <2>. QED
      BY <1>2, <2>1, <2>2, <2>3, <2>4 DEF IInv, TypeOK
  <1>11. StepInv'
    BY Zenon, <1>2, <1>2a DEF StepInv
  <1>12. ResInv'
    <2>1. \A q \in Queues : descq'[q].q_state = "online" <=> descq[q].q_state = "online"
      BY <1>2a, <1>4
    <2>2. \A q \in Queues : Taken(q)' <=> Taken(q)
      BY Zenon, <1>2, <2>1 DEF Taken
    <2>. QED
      BY Zenon, <1>2, <2>2 DEF IInv, ResInv
  <1>13. TableInv'
    <2>1. \A s \in Types, j \in Idx : <<s, j>> # r => qdata'[<<s, j>>] = qdata[<<s, j>>]
      BY Zenon, <1>2, <1>5 DEF IInv, TypeOK
    <2>2. qdata'[r].qhndl = 0 /\ qdata'[r].xcdev = "none"
      BY <1>1, <1>2 DEF IInv, TypeOK, NoQdata
    <2>3. qmax' = qmax
      BY Zenon, <1>2
    <2>4. ASSUME NEW s \in Types, NEW j \in Idx, <<s, j>> # r
          PROVE  /\ Present(s, j)' => /\ qmax' = QMax
                                      /\ qdata'[<<s, j>>].qhndl = Handle(s, j)
                                      /\ qdata'[<<s, j>>].xcdev = IF s \in Dirs THEN "cdev" ELSE "none"
                 /\ ~Present(s, j)' => qdata'[<<s, j>>].qhndl = 0 /\ qdata'[<<s, j>>].xcdev = "none"
      <3>1. Present(s, j)' <=> Present(s, j)
        BY Zenon, <1>5, <2>4
      <3>2. qdata'[<<s, j>>] = qdata[<<s, j>>]
        BY <2>1, <2>4
      <3>. QED
        BY ZenonT(60), <3>1, <3>2, <2>3 DEF IInv, TableInv
    <2>5. ~Present(t, i)'
      BY Zenon, <1>5
    <2>. QED
      BY <2>2, <2>4, <2>5 DEF TableInv
  <1>14. DirInv'
    <2>1. \A j \in Idx : dir_init'[j] = IF j = i THEN dir_init[i] \ {t} ELSE dir_init[j]
      BY <1>2 DEF IInv, TypeOK
    <2>2. \A j \in Idx, s \in Dirs : Present(s, j)' <=> Present(s, j) /\ ~(s = t /\ j = i)
      BY Zenon, <1>5 DEF Dirs, Types
    <2>. QED
      BY SMTT(60), <2>1, <2>2 DEF IInv, DirInv
  <1>15. PairsAgree'
    BY <1>5 DEF IInv, PairsAgree, Types
  <1>16. CountsExact'
    <2>1. ASSUME NEW c \in Types
          PROVE  active'[c] = Cardinality(Counted(c)')
      <3>1. CASE c \in CountedIn(t, st)
        <4>1. Counted(c)' = Counted(c) \ {r}
          BY <1>1, <1>4 DEF Counted
        <4>2. Cardinality(Counted(c) \ {r}) = Cardinality(Counted(c)) - 1
          BY Zenon, <3>1, <1>7, QueuesFinite, FS_RemoveElement
        <4>. QED
          BY Zenon, <4>1, <4>2, <3>1, <1>2, <1>6, <1>9
      <3>2. CASE c \notin CountedIn(t, st)
        <4>1. Counted(c)' = Counted(c)
          BY SMTT(60), <3>2, <1>1, <1>4 DEF Counted
        <4>. QED
          BY Zenon, <4>1, <3>2, <1>2, <1>6
      <3>. QED
        BY <3>1, <3>2
    <2>. QED
      BY <2>1 DEF CountsExact, Counted
  <1>. QED
    BY <1>10, <1>11, <1>12, <1>13, <1>14, <1>15, <1>16 DEF IInv

\* Without completion queues, qdma_device_cleanup leaves nothing behind.
LEMMA CleanupCleans ==
    ASSUME IInv, qdma_device_cleanup, nl.pc = "idle", work.pc = "idle",
           \A i \in Idx : ~Present("CMPT", i)
    PROVE  /\ descq' = [q \in Queues |-> Fresh] /\ active' = [c \in Types |-> 0] /\ ready' = FALSE
           /\ res' = [q \in Queues |-> 0] /\ intr' = [q \in Queues |-> 0] /\ hw' = {}
  <1> DEFINE At(c) == IF c = "CMPT" THEN {i \in Idx : Streams("C2H", i)} ELSE {i \in Idx : Present(c, i)}
             Dir(c) == IF c = "CMPT" THEN "C2H" ELSE c
  <1>1. \A c \in Types : Counted(c) = {<<Dir(c), i>> : i \in At(c)}
    <2>1. \A c \in Types, q \in Queues :
              q \in Counted(c) <=> q[1] = Dir(c) /\ q[2] \in At(c)
      <3>1. \A q \in Queues : /\ q = <<q[1], q[2]>> /\ q[1] \in Types /\ q[2] \in Idx
                              /\ descq[q].q_state # "disabled" <=> Present(q[1], q[2])
                              /\ q[1] = "CMPT" => ~Present(q[1], q[2])
        BY DEF Queues, Present
      <3>. QED
        BY <3>1 DEF Counted, CountedIn, Types, Streams, Present
    <2>2. \A c \in Types : Dir(c) \in Types /\ At(c) \subseteq Idx
      BY DEF Types
    <2>3. \A c \in Types : Counted(c) \subseteq Queues
      BY DEF Counted
    <2> HIDE DEF At, Dir
    <2>. QED
      BY SMTT(60), <2>1, <2>2, <2>3 DEF Queues
  <1>2. ASSUME NEW c \in Types
        PROVE  active[c] = Cardinality(At(c)) /\ active[c] \in Nat
    <2>1. At(c) \in SUBSET Idx
      OBVIOUS
    <2>2. Cardinality(Counted(c)) = Cardinality(At(c))
      <3> HIDE DEF At, Dir
      <3>1. Cardinality({<<Dir(c), i>> : i \in At(c)}) = Cardinality(At(c))
        BY Zenon, <2>1, PairCount
      <3>. QED
        BY <3>1, <1>1
    <2>3. active[c] = Cardinality(Counted(c)) /\ active[c] \in 0 .. QMax
      BY DEF IInv, TypeOK, CountsExact, Counted
    <2>. QED
      BY <2>2, <2>3, QueueAssumption
  <1>3. ASSUME NEW c \in Types
        PROVE  Decremented(active[c], Cardinality(At(c))) = 0
    <2> HIDE DEF At
    <2>. QED
      BY <1>2 DEF Decremented
  <1>4. active' = [c \in Types |-> Decremented(active[c], Cardinality(At(c)))]
    BY Zenon DEF qdma_device_cleanup
  <1>5. \A q \in Queues : q[1] = "CMPT" => res[q] = 0 /\ intr[q] = 0 /\ q \notin hw
    <2>1. \A q \in Queues : q[1] = "CMPT" => descq[q].q_state = "disabled"
      BY DEF Queues, Present
    <2>2. \A q \in Queues : q[1] = "CMPT" => ~Taken(q)
      BY <2>1 DEF Taken
    <2>. QED
      BY <2>2 DEF IInv, ResInv
  <1>6. res' = [q \in Queues |-> 0] /\ intr' = [q \in Queues |-> 0]
    BY Zenon, <1>5 DEF qdma_device_cleanup
  <1>7. hw' = {}
    BY <1>5 DEF qdma_device_cleanup, IInv, TypeOK
  <1>8. active' = [c \in Types |-> 0]
    BY <1>3, <1>4
  <1>. QED
    BY Zenon, <1>6, <1>7, <1>8 DEF qdma_device_cleanup

\* The invariant holds when there is nothing.
Nothing ==
    /\ descq = [q \in Queues |-> Fresh] /\ hw = {}
    /\ res = [q \in Queues |-> 0] /\ intr = [q \in Queues |-> 0]
    /\ active = [c \in Types |-> 0] /\ qmax \in {0, QMax} /\ ready = FALSE
    /\ qdata = [q \in Queues |-> NoQdata] /\ dir_init = [i \in Idx |-> {}]
    /\ nl \in [pc : {"idle"}, q : Queues] /\ work \in [pc : {"idle"}, q : Queues]

\* When nothing is there, nothing is wrong.
LEMMA NothingThere == Nothing => IInv
  <1> SUFFICES ASSUME Nothing PROVE IInv
    OBVIOUS
  <1>1. \A t \in Types, i \in Idx : ~Present(t, i) /\ ~Streams(t, i)
    BY DEF Nothing, Present, Streams, Fresh, Queues
  <1>2. TypeOK
    <2>1. Fresh \in [q_state : {"disabled", "enabled", "online"}, st : {"MM", "ST"}]
      BY DEF Fresh
    <2>2. NoQdata \in [qhndl : 0 .. 3 * QMax - 1, xcdev : {"none", "cdev"}]
      BY QueueAssumption DEF NoQdata
    <2>3. 0 \in 0 .. QMax
      BY QueueAssumption
    <2>. QED
      BY <2>1, <2>2, <2>3 DEF Nothing, TypeOK
  <1>3. StepInv
    BY DEF Nothing, StepInv
  <1>4. ResInv
    BY DEF Nothing, ResInv, Taken, Fresh
  <1>5. TableInv
    <2>1. \A t \in Types, i \in Idx : <<t, i>> \in Queues
      BY DEF Queues
    <2>. QED
      BY <1>1, <2>1 DEF Nothing, TableInv, NoQdata
  <1>6. DirInv
    BY <1>1 DEF Nothing, DirInv, Dirs, Types
  <1>7. PairsAgree
    BY <1>1 DEF PairsAgree, Types
  <1>8. CountsExact
    <2>1. \A c \in Types : Counted(c) = {}
      BY DEF Nothing, Counted, Fresh
    <2>2. \A c \in Types : active[c] = Cardinality(Counted(c))
      BY <2>1, FS_EmptySet DEF Nothing
    <2>. QED
      BY <2>2 DEF CountsExact, Counted
  <1>. QED
    BY <1>2, <1>3, <1>4, <1>5, <1>6, <1>7, <1>8 DEF IInv

LEMMA NothingLeft == Nothing' => IInv'
  BY NothingThere, PTL

\* A reset, and a new qmax, leave nothing.
LEMMA ResetKeeps ==
    ASSUME Orderly, IInv, Reset
    PROVE  IInv'
  <1>1. /\ nl.pc = "idle" /\ work.pc = "idle" /\ qdma_device_cleanup
        /\ \A i \in Idx : ~Present("CMPT", i)
    BY DEF Reset, Orderly
  <1>2. qdata' = [q \in Queues |-> NoQdata]
    <2>1. \A q \in Queues : q[1] = "CMPT" => qdata[q] = NoQdata
      <3> SUFFICES ASSUME NEW i \in Idx PROVE qdata[<<"CMPT", i>>] = NoQdata
        BY DEF Queues
      <3>1. qdata[<<"CMPT", i>>].qhndl = 0 /\ qdata[<<"CMPT", i>>].xcdev = "none"
        BY <1>1 DEF IInv, TableInv, Types
      <3>2. qdata[<<"CMPT", i>>] \in [qhndl : 0 .. 3 * QMax - 1, xcdev : {"none", "cdev"}]
        BY DEF IInv, TypeOK, Queues, Types
      <3>. QED
        BY <3>1, <3>2 DEF NoQdata
    <2>. QED
      BY <2>1 DEF Reset
  <1>3. nl' \in [pc : {"idle"}, q : Queues] /\ work' \in [pc : {"idle"}, q : Queues]
    BY <1>1 DEF Reset, IInv, TypeOK
  <1>4. Nothing'
    BY Zenon, <1>1, <1>2, <1>3, CleanupCleans DEF Nothing, Reset
  <1>. QED
    BY <1>4, NothingLeft

LEMMA SetQmaxKeeps ==
    ASSUME IInv, set_qmax
    PROVE  IInv'
  <1>1. nl.pc = "idle" /\ work.pc = "idle" /\ qdma_device_cleanup
    BY DEF set_qmax
  <1>2. \A t \in Types, i \in Idx : ~Present(t, i)
    <2>1. \A t \in Types : Counted(t) = {}
      <3>1. \A t \in Types : active[t] = Cardinality(Counted(t))
        BY DEF IInv, CountsExact, Counted
      <3>2. \A t \in Types : active[t] = 0
        BY DEF set_qmax
      <3>. QED
        BY <3>1, <3>2, QueuesFinite, FS_EmptySet
    <2>. QED
      BY <2>1 DEF Counted, CountedIn, Queues, Present
  <1>3. dir_init' = [i \in Idx |-> {}]
    <2>1. \A i \in Idx : dir_init[i] = {}
      BY <1>2 DEF IInv, DirInv, Dirs, Types
    <2>. QED
      BY <2>1 DEF set_qmax, IInv, TypeOK
  <1>4. nl' \in [pc : {"idle"}, q : Queues] /\ work' \in [pc : {"idle"}, q : Queues]
    BY <1>1 DEF set_qmax, IInv, TypeOK
  <1>5. \A i \in Idx : ~Present("CMPT", i)
    BY <1>2 DEF Types
  <1>6. Nothing'
    BY Zenon, <1>1, <1>3, <1>4, <1>5, CleanupCleans DEF Nothing, set_qmax
  <1>. QED
    BY <1>6, NothingLeft

-----------------------------------------------------------------------------
(***************************************************************************)
(* The theorems                                                            *)
(***************************************************************************)
\* The three facts that make IInv inductive and enough.
LEMMA InitIInv == Init => IInv
  <1> SUFFICES ASSUME Init PROVE IInv
    OBVIOUS
  <1>1. Nothing
    BY ThreadTypes DEF Init, Nothing
  <1>. QED
    BY <1>1, NothingThere

LEMMA NextIInv ==
    ASSUME Orderly, IInv, [Next]_vars
    PROVE  IInv'
  <1>1. ASSUME NEW t \in Types, NEW st \in {"MM", "ST"}, AddQueue(t, st)
        PROVE  IInv'
    BY <1>1, AddQueueAdds, AddedKeeps
  <1>2. ASSUME NEW t \in Types, NEW i \in Idx,
               StartQueue(t, i) \/ StopQueue(t, i) \/ DeleteQueue(t, i)
        PROVE  IInv'
    BY <1>2, StartQueueKeeps, StopQueueKeeps, DeleteQueueKeeps
  <1>3. ASSUME Worker \/ StartReturns \/ StopTakeDown \/ Reset \/ set_qmax
        PROVE  IInv'
    BY <1>3, StartCheckKeeps, StartSetUpKeeps, StartOnlineKeeps, StartReturnsKeeps,
       StopTakeDownKeeps, ResetKeeps, SetQmaxKeeps DEF Worker
  <1>4. CASE UNCHANGED vars
    <2>1. \A q \in Queues : Taken(q)' <=> Taken(q)
      BY <1>4 DEF Taken, vars, qVars
    <2>2. TypeOK' /\ StepInv' /\ ResInv'
      BY Zenon, <1>4, <2>1 DEF IInv, TypeOK, StepInv, ResInv, vars, qVars, devVars, tableVars
    <2>. QED
      BY <1>4, <2>2, SameQueues DEF IInv, vars, qVars, devVars
  <1>. QED
    BY <1>1, <1>2, <1>3, <1>4 DEF Next

LEMMA IInvImplies ==
    IInv => TypeOK /\ PairsAgree /\ CountsExact /\ NothingLeaks /\ QueueIsReachable /\ HandleIsLive
  <1> SUFFICES ASSUME IInv
               PROVE  NothingLeaks /\ QueueIsReachable /\ HandleIsLive
    BY DEF IInv
  <1>0. 0 # 1
    OBVIOUS
  <1>1. NothingLeaks
    <2> SUFFICES ASSUME nl.pc # "stopping", work.pc # "set up", NEW q \in Queues
                 PROVE  LET up == IF descq[q].q_state = "online" THEN 1 ELSE 0 IN
                        res[q] = up /\ intr[q] = up /\ (q \in hw <=> up = 1)
      BY Zenon DEF NothingLeaks
    <2> DEFINE up == IF descq[q].q_state = "online" THEN 1 ELSE 0
    <2>0. Taken(q) <=> descq[q].q_state = "online"
      BY Zenon DEF Taken
    <2>1. CASE Taken(q)
      <3>1. res[q] = 1 /\ intr[q] = 1 /\ q \in hw
        BY Zenon, <2>1 DEF IInv, ResInv
      <3>2. up = 1
        BY Zenon, <2>0, <2>1
      <3>. QED
        BY <3>1, <3>2, Zenon
    <2>2. CASE ~Taken(q)
      <3>1. res[q] = 0 /\ intr[q] = 0 /\ q \notin hw
        BY Zenon, <2>2 DEF IInv, ResInv
      <3>0. descq[q].q_state # "online"
        BY <2>0, <2>2, Zenon
      <3>2. up = 0 /\ up # 1
        <4>1. up = 0
          BY <3>0, Zenon
        <4>. QED
          BY <4>1, <1>0, Zenon
      <3>. QED
        BY <3>1, <3>2, Zenon
    <2>. QED
      BY Zenon, <2>1, <2>2
  <1>2. QueueIsReachable
    <2> SUFFICES ASSUME NEW t \in Types, NEW i \in Idx, Present(t, i)
                 PROVE  /\ Configured(t, i) /\ Stands(t, i) = <<t, i>>
                        /\ t \in Dirs => qdata[<<t, i>>].xcdev # "none" /\ t \in dir_init[i]
      BY DEF QueueIsReachable, Queues, Present
    <2>1. Configured(t, i)
      BY PresentIsConfigured
    <2>2. Stands(t, i) = <<t, i>>
      BY <2>1, StandsForIt
    <2>3. t \in Dirs => qdata[<<t, i>>].xcdev # "none"
      BY SMTT(60) DEF IInv, TableInv
    <2>4. t \in Dirs => t \in dir_init[i]
      BY DEF IInv, DirInv
    <2>. QED
      BY <2>1, <2>2, <2>3, <2>4
  <1>3. HandleIsLive
    BY Zenon, StandsForIt DEF HandleIsLive, Present
  <1>. QED
    BY <1>1, <1>2, <1>3

\* For any number of queues, the inductive invariant holds: what the two threads
\* (netlink and worker) hold, the counters and the table, together.
THEOREM QueueInvHolds ==
    ASSUME Orderly
    PROVE  Spec => []IInv
  <1>1. IInv /\ [Next]_vars => IInv'
    BY NextIInv
  <1>. QED
    BY <1>1, InitIInv, PTL DEF Spec

\* The values stay in their sets, and the counters of active queues within qmax.
THEOREM QueueTypeCorrect ==
    ASSUME Orderly
    PROVE  Spec => []TypeOK
  BY QueueInvHolds, IInvImplies, PTL

\* For any number of queues, the queues at one index go together: is_usable_queue
\* keeps the modes of a pair alike, and completion queues away from streams.
THEOREM PairsAlwaysAgree ==
    ASSUME Orderly
    PROVE  Spec => []PairsAgree
  BY QueueInvHolds, IInvImplies, PTL

\* For any number of queues, the active counters are exact through adding,
\* removing and resets; there is always room for the completion ring of a
\* streaming queue that is_usable_queue lets in.
THEOREM CountsAreExact ==
    ASSUME Orderly
    PROVE  Spec => []CountsExact
  BY QueueInvHolds, IInvImplies, PTL

\* For any number of queues, starts that fail, stops and resets give back what
\* qdma_queue_start took, and nothing is given back twice.
THEOREM NothingEverLeaks ==
    ASSUME Orderly
    PROVE  Spec => []NothingLeaks
  BY QueueInvHolds, IInvImplies, PTL

\* For any number of queues, the driver's table lists exactly the queues in use,
\* under their handles.
THEOREM TableIsExact ==
    ASSUME Orderly
    PROVE  Spec => [](QueueIsReachable /\ HandleIsLive)
  BY QueueInvHolds, IInvImplies, PTL
=============================================================================
