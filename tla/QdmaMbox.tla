------------------------------ MODULE QdmaMbox ------------------------------
(***************************************************************************)
(* The mailbox transport between a physical function (PF) and its virtual  *)
(* functions (VFs): libqdma/qdma_mbox.c over the one-slot hardware         *)
(* mailboxes that qdma_mbox_send and qdma_mbox_rcv drive.                  *)
(*                                                                         *)
(* Each function has a todo list, a list of requests waiting for a reply,  *)
(* and one single-threaded workqueue for tx_work and rx_work.  The senders *)
(* are other threads: they touch the lists under list_lock and sleep until *)
(* resp_op_matched is set, their time is up, or a signal arrives.  Every   *)
(* critical section is one step.  XDEV_FLAG_OFFLINE, RESET_STATE_INVALID,  *)
(* failed allocations and all-zero messages are not modelled.              *)
(***************************************************************************)
EXTENDS Integers, Sequences, FiniteSets

CONSTANTS
    Pf,         \* the physical function
    Vfs,        \* the virtual functions
    Reqs,       \* the messages that senders hand to qdma_mbox_msg_send
    PfReqs,     \* those of them the PF sends (reset prepare, reset done, bye)
    Byes,       \* VF messages sent without waiting (MBOX_OP_VF_BYE)
    Vf,         \* the VF that sends or receives each request
    Op,         \* the op code of each request
    Timed,      \* the requests whose wait may end before the reply
    Late,       \* whether a sender may be delayed before it goes to sleep
    Reused,     \* whether freed memory may be reused at once
    Prompt,     \* whether a peer empties its slot before retry_cnt is used up
    Polls,      \* the functions with rx_poll set
    Retries,    \* the initial retry_cnt
    None

Ends == {Pf} \cup Vfs
Msgs == [req : Reqs, rsp : BOOLEAN]

ASSUME MboxAssumption ==
    /\ Pf \notin Vfs /\ None \notin Ends \cup Reqs \cup Msgs
    /\ PfReqs \subseteq Reqs /\ Byes \subseteq Reqs \ PfReqs
    /\ Timed \subseteq Reqs /\ Polls \subseteq Ends
    /\ Vf \in [Reqs -> Vfs] /\ DOMAIN Op = Reqs
    /\ {Late, Reused, Prompt} \subseteq BOOLEAN
    /\ Retries \in Nat \ {0}

VARIABLES
    mbox,       \* struct qdma_mbox of each function, and its worker's place
    out,        \* the outgoing message register of each function
    msg,        \* struct mbox_msg of each request, and its sender's place
    retry,      \* retry_cnt of the message sent without waiting for a request
    sent,       \* each function's requests in the order they were queued
    handled,    \* each function's requests in the order their handlers ran
    stale,      \* requests read after they were freed
    crashed     \* a list operation hit a freed or an unlinked message

vars == <<mbox, out, msg, retry, sent, handled, stale, crashed>>

Request(m) == [req |-> m, rsp |-> FALSE]
Reply(m) == [req |-> m, rsp |-> TRUE]

From(m) == IF m \in PfReqs THEN Pf ELSE Vf[m]
To(m) == IF m \in PfReqs THEN Vf[m] ELSE Pf
Dest(x) == IF x.rsp THEN From(x.req) ELSE To(x.req)

wait_resp(x) == ~x.rsp /\ x.req \notin Byes

On(s, x) == \E i \in DOMAIN s : s[i] = x

\* list_del, of a message that may be on the list.
Without(s, x) ==
    LET i == CHOOSE i \in DOMAIN s : s[i] = x IN
    IF On(s, x) THEN SubSeq(s, 1, i - 1) \o SubSeq(s, i + 1, Len(s)) ELSE s

\* queue_work does nothing while the work is already pending.
queue_work(b, w) == [b EXCEPT !.workq = IF On(@, w) THEN @ ELSE Append(@, w)]

\* Mutant: a message is queued at the head of the list.
QueuedFirst(b, x) == queue_work([b EXCEPT !.todo = <<x>> \o @], "tx")

\* qdma_mbox_msg_send up to the wait: the tail of the list, then a kick.
Queued(b, x) == queue_work([b EXCEPT !.todo = Append(@, x)], "tx")

Init ==
    /\ mbox = [e \in Ends |->
                [todo |-> <<>>, pend |-> <<>>, workq |-> <<>>, pc |-> "idle",
                 cur |-> None, rx |-> None, snd |-> None, send_busy |-> FALSE,
                 timer |-> e \in Polls]]
    /\ out = [e \in Ends |-> None]
    /\ msg = [m \in Reqs |-> [sender |-> "new", resp_op_matched |-> FALSE,
                              raw |-> None, freed |-> FALSE]]
    /\ retry = [m \in Reqs |-> Retries]
    /\ sent = [e \in Ends |-> <<>>] /\ handled = [e \in Ends |-> <<>>]
    /\ stale = {} /\ crashed = FALSE

-----------------------------------------------------------------------------
(***************************************************************************)
(* The senders                                                             *)
(***************************************************************************)
\* Only the PF's loops over its VFs send PF requests, one VF after the other.
qdma_mbox_msg_send(m) ==
    /\ msg[m].sender = "new"
    /\ m \in PfReqs => \A n \in PfReqs : msg[n].sender \in {"new", "done", "failed"}
    /\ mbox' = [mbox EXCEPT ![From(m)] = Queued(@, Request(m))]
    /\ msg' = [msg EXCEPT ![m].sender = IF m \in Byes THEN "done"
                                        ELSE IF Late THEN "queued" ELSE "asleep"]
    /\ sent' = [sent EXCEPT ![From(m)] = Append(@, m)]
    /\ UNCHANGED <<out, retry, handled, stale, crashed>>

\* The sender sees resp_op_matched and returns 0.  A VF's caller frees the
\* message; the PF's was freed by its receive handler, and reading the flag of
\* reused memory sends the PF to list_del.
MsgReturn(m) ==
    /\ UNCHANGED <<mbox, out, retry, sent, handled>>
    /\ stale' = IF msg[m].freed THEN stale \cup {m} ELSE stale
    /\ crashed' \in IF msg[m].freed /\ Reused THEN BOOLEAN ELSE {FALSE}
    /\ msg' = [msg EXCEPT ![m].sender = "done",
                          ![m].freed = @ \/ From(m) # Pf]

\* wait_event_timeout looks at the condition before it sleeps.
WaitLate(m) ==
    /\ msg[m].sender = "queued"
    /\ IF msg[m].resp_op_matched
       THEN MsgReturn(m)
       ELSE /\ msg' = [msg EXCEPT ![m].sender = "asleep"]
            /\ UNCHANGED <<mbox, out, retry, sent, handled, stale, crashed>>

WaitWoken(m) == msg[m].sender = "woken" /\ MsgReturn(m)

\* The time is up, or a signal ends the interruptible wait.
WaitExpired(m) ==
    /\ m \in Timed /\ msg[m].sender = "asleep"
    /\ IF msg[m].resp_op_matched
       THEN MsgReturn(m)
       ELSE /\ msg' = [msg EXCEPT ![m].sender = "expired"]
            /\ UNCHANGED <<mbox, out, retry, sent, handled, stale, crashed>>

\* list_del from whichever list holds the message; the caller of a VF frees it.
MsgTimeout(m) ==
    LET e == From(m) IN
    /\ msg[m].sender = "expired"
    /\ crashed' = ~(On(mbox[e].todo, Request(m)) \/ On(mbox[e].pend, m))
    /\ mbox' = [mbox EXCEPT ![e].todo = Without(@, Request(m)),
                            ![e].pend = Without(@, m)]
    /\ msg' = [msg EXCEPT ![m].sender = "failed", ![m].freed = e # Pf]
    /\ UNCHANGED <<out, retry, sent, handled, stale>>

-----------------------------------------------------------------------------
(***************************************************************************)
(* The worker of a function: one work item at a time                       *)
(***************************************************************************)
WorkStart(e) ==
    /\ mbox[e].pc = "idle" /\ mbox[e].workq # <<>>
    /\ mbox' = [mbox EXCEPT ![e].pc = Head(mbox[e].workq), ![e].workq = Tail(@)]
    /\ UNCHANGED <<out, msg, retry, sent, handled, stale, crashed>>

\* mbox_tx_work: look at the first message; it stays on the list.
TxPeek(e) ==
    LET empty == mbox[e].todo = <<>> IN
    /\ mbox[e].pc = "tx"
    /\ mbox' = [mbox EXCEPT ![e].pc = IF empty THEN "idle" ELSE "send",
                            ![e].cur = IF empty THEN None ELSE Head(mbox[e].todo)]
    /\ UNCHANGED <<out, msg, retry, sent, handled, stale, crashed>>

\* What reading m->raw for the hardware does to a message its sender freed.
ReadFreed(x) == IF wait_resp(x) /\ msg[x.req].freed THEN stale \cup {x.req} ELSE stale

\* mbox_hw_send finds the register free.  The hardware raises the receiver's
\* interrupt, whose handler queues rx_work.
TxSend(e) ==
    LET x == mbox[e].cur
        d == Dest(x) IN
    /\ mbox[e].pc = "send" /\ out[e] = None
    /\ out' = [out EXCEPT ![e] = x]
    /\ mbox' = [mbox EXCEPT ![e].pc = "sent", ![e].send_busy = FALSE,
                            ![d] = IF d \in Polls THEN @ ELSE queue_work(@, "rx")]
    /\ stale' = ReadFreed(x)
    /\ UNCHANGED <<msg, retry, sent, handled, crashed>>

\* Mutant: a busy register starts no timer.
TxBusyNoTimer(e) ==
    /\ mbox[e].pc = "send" /\ out[e] # None
    /\ mbox' = [mbox EXCEPT ![e].pc = "idle", ![e].cur = None, ![e].send_busy = TRUE]
    /\ UNCHANGED <<out, msg, retry, sent, handled, stale, crashed>>

\* Mutant: the count is tested before it is decremented.
TxBusyPostTest(e) ==
    LET x == mbox[e].cur
        left == IF wait_resp(x) \/ Prompt THEN retry[x.req] ELSE retry[x.req] - 1 IN
    /\ mbox[e].pc = "send" /\ out[e] # None
    /\ retry' = [retry EXCEPT ![x.req] = left]
    /\ mbox' = [mbox EXCEPT ![e] =
                IF ~wait_resp(x) /\ left < 0
                THEN [@ EXCEPT !.todo = Without(mbox[e].todo, x), !.pc = "idle", !.cur = None]
                ELSE [@ EXCEPT !.pc = "idle", !.cur = None, !.send_busy = TRUE,
                               !.timer = TRUE]]
    /\ UNCHANGED <<out, msg, sent, handled, stale, crashed>>

\* mbox_hw_send is busy: the timer retries, or the last retry drops the message.
TxBusy(e) ==
    LET x == mbox[e].cur
        left == IF wait_resp(x) \/ Prompt THEN retry[x.req] ELSE retry[x.req] - 1 IN
    /\ mbox[e].pc = "send" /\ out[e] # None
    /\ retry' = [retry EXCEPT ![x.req] = left]
    /\ mbox' = [mbox EXCEPT ![e] =
                IF ~wait_resp(x) /\ left = 0
                THEN [@ EXCEPT !.todo = Without(mbox[e].todo, x), !.pc = "idle", !.cur = None]
                ELSE [@ EXCEPT !.pc = "idle", !.cur = None, !.send_busy = TRUE,
                               !.timer = TRUE]]
    /\ stale' = ReadFreed(x)
    /\ UNCHANGED <<out, msg, sent, handled, crashed>>

\* The message leaves the todo list; one that waits for no reply is freed.
TxDone(e) ==
    LET x == mbox[e].cur IN
    /\ mbox[e].pc = "sent"
    /\ crashed' = ~On(mbox[e].todo, x)
    /\ mbox' = [mbox EXCEPT ![e].todo = Without(@, x),
                            ![e].pc = IF wait_resp(x) THEN "pend" ELSE "tx",
                            ![e].cur = IF wait_resp(x) THEN x ELSE None]
    /\ UNCHANGED <<out, msg, retry, sent, handled, stale>>

\* Mutant: the request is put on no list.
TxPendLost(e) ==
    /\ mbox[e].pc = "pend"
    /\ mbox' = [mbox EXCEPT ![e].pc = "tx", ![e].cur = None]
    /\ UNCHANGED <<out, msg, retry, sent, handled, stale, crashed>>

\* A second critical section puts the request on the list of waiting ones.
TxPend(e) ==
    LET m == mbox[e].cur.req IN
    /\ mbox[e].pc = "pend"
    /\ crashed' = msg[m].freed
    /\ mbox' = [mbox EXCEPT ![e].pend = Append(@, m), ![e].pc = "tx",
                            ![e].cur = None]
    /\ UNCHANGED <<out, msg, retry, sent, handled, stale>>

\* mbox_rx_work: mbox_hw_rcv reads one message and acknowledges its sender.
RxRcv(e) ==
    /\ mbox[e].pc = "rx"
    /\ \E s \in Ends :
        /\ out[s] # None /\ Dest(out[s]) = e
        /\ out' = [out EXCEPT ![s] = None]
        /\ mbox' = [mbox EXCEPT ![e].rx = out[s], ![e].pc = "rcv"]
    /\ UNCHANGED <<msg, retry, sent, handled, stale, crashed>>

\* No message is left: rx_work ends, in poll mode by starting the timer again.
RxEnd(e) ==
    /\ mbox[e].pc = "rx"
    /\ \A s \in Ends : out[s] # None => Dest(out[s]) # e
    /\ mbox' = [mbox EXCEPT ![e].pc = "idle", ![e].timer = @ \/ e \in Polls]
    /\ UNCHANGED <<out, msg, retry, sent, handled, stale, crashed>>

mbox_timer_handler(e) ==
    LET polled == IF e \in Polls THEN queue_work(mbox[e], "rx") ELSE mbox[e]
        kicked == IF mbox[e].send_busy THEN queue_work(polled, "tx") ELSE polled IN
    /\ mbox[e].timer
    /\ mbox' = [mbox EXCEPT ![e] = [kicked EXCEPT !.timer = FALSE]]
    /\ UNCHANGED <<out, msg, retry, sent, handled, stale, crashed>>

-----------------------------------------------------------------------------
(***************************************************************************)
(* mbox_rcv_one_msg                                                        *)
(***************************************************************************)
\* qdma_mbox_is_msg_response compares op codes and nothing else.
qdma_mbox_is_msg_response(m, x) == x.rsp /\ Op[m] = Op[x.req]

\* Mutant: the last request on the list is taken.
MatchLast(s, x) ==
    LET hits == {i \in DOMAIN s : qdma_mbox_is_msg_response(s[i], x)}
    IN  IF hits = {} THEN None ELSE s[CHOOSE i \in hits : \A j \in hits : i >= j]

\* The first request on the list that the message answers.
Match(s, x) ==
    LET hits == {i \in DOMAIN s : qdma_mbox_is_msg_response(s[i], x)}
    IN  IF hits = {} THEN None ELSE s[CHOOSE i \in hits : \A j \in hits : i <= j]

Handled(m) == [handled EXCEPT ![From(m)] = Append(@, m)]

Woken(s) == IF s = "asleep" THEN "woken" ELSE s

\* The PF handles a VF's request and queues the reply (none to a bye).
PfHandle ==
    LET x == mbox[Pf].rx
        back == [mbox[Pf] EXCEPT !.pc = "rx", !.rx = None] IN
    /\ mbox[Pf].pc = "rcv" /\ ~x.rsp
    /\ handled' = Handled(x.req)
    /\ mbox' = [mbox EXCEPT ![Pf] = IF x.req \in Byes THEN back
                                    ELSE Queued(back, Reply(x.req))]
    /\ UNCHANGED <<out, msg, retry, sent, stale, crashed>>

\* A VF's reply to the PF: match, copy, wake up and free under one lock.
PfMatch ==
    LET x == mbox[Pf].rx
        m == Match(mbox[Pf].pend, x) IN
    /\ mbox[Pf].pc = "rcv" /\ x.rsp
    /\ mbox' = [mbox EXCEPT ![Pf].pc = "rx", ![Pf].rx = None,
                            ![Pf].pend = Without(@, m)]
    /\ msg' = IF m = None THEN msg
              ELSE [msg EXCEPT ![m].resp_op_matched = TRUE, ![m].raw = x.req,
                               ![m].freed = TRUE, ![m].sender = Woken(@)]
    /\ UNCHANGED <<out, retry, sent, handled, stale, crashed>>


\* A VF marks the request matched in one critical section ...
VfMatch(e) ==
    LET m == Match(mbox[e].pend, mbox[e].rx) IN
    /\ mbox[e].pc = "rcv" /\ e # Pf
    /\ mbox' = [mbox EXCEPT ![e].snd = m, ![e].pc = "check"]
    /\ msg' = IF m = None THEN msg ELSE [msg EXCEPT ![m].resp_op_matched = TRUE]
    /\ UNCHANGED <<out, retry, sent, handled, stale, crashed>>

\* ... looks without the lock whether anything is waiting, and handles a
\* message of the PF only if nothing is ...
VfCheck(e) ==
    LET x == mbox[e].rx
        back == [mbox[e] EXCEPT !.pc = "deliver"]
        run == mbox[e].pend = <<>> /\ ~x.rsp IN
    /\ mbox[e].pc = "check"
    /\ mbox' = [mbox EXCEPT ![e] = IF run THEN Queued(back, Reply(x.req)) ELSE back]
    /\ handled' = IF run THEN Handled(x.req) ELSE handled
    /\ UNCHANGED <<out, msg, retry, sent, stale, crashed>>

\* ... and copies the reply and wakes the sender in a second one.
VfDeliver(e) ==
    LET m == mbox[e].snd IN
    /\ mbox[e].pc = "deliver"
    /\ mbox' = [mbox EXCEPT ![e].pc = "rx", ![e].rx = None, ![e].snd = None,
                            ![e].pend = Without(@, m)]
    /\ IF m = None THEN UNCHANGED <<msg, crashed>>
       ELSE /\ crashed' = (msg[m].freed \/ ~On(mbox[e].pend, m))
            /\ msg' = [msg EXCEPT ![m].raw = mbox[e].rx.req, ![m].sender = Woken(@)]
    /\ UNCHANGED <<out, retry, sent, handled, stale>>

-----------------------------------------------------------------------------
Worker(e) ==
    \/ WorkStart(e) \/ TxPeek(e) \/ TxSend(e) \/ TxBusy(e) \/ TxDone(e) \/ TxPend(e)
    \/ RxRcv(e) \/ RxEnd(e) \/ VfMatch(e) \/ VfCheck(e) \/ VfDeliver(e)
    \/ e = Pf /\ (PfHandle \/ PfMatch)

Returns(m) == WaitLate(m) \/ WaitWoken(m) \/ MsgTimeout(m)

\* An oops ends the behaviour.
Next ==
    /\ ~crashed
    /\ \/ \E m \in Reqs : qdma_mbox_msg_send(m) \/ Returns(m) \/ WaitExpired(m)
       \/ \E e \in Ends : Worker(e) \/ mbox_timer_handler(e)

Spec == Init /\ [][Next]_vars

\* Workqueue threads and timers run, and a sender that may return does.
\* Nothing makes a caller send, and no wait need end early.
Fairness ==
    /\ \A e \in Ends : WF_vars(~crashed /\ Worker(e))
    /\ \A e \in Ends : WF_vars(~crashed /\ mbox_timer_handler(e))
    /\ \A m \in Reqs : WF_vars(~crashed /\ Returns(m))

FairSpec == Spec /\ Fairness

-----------------------------------------------------------------------------
(***************************************************************************)
(* Properties                                                              *)
(***************************************************************************)
\* The fields of struct qdma_mbox and struct mbox_msg hold what they declare.
TypeOK ==
    /\ \A e \in Ends :
        /\ mbox[e].todo \in Seq(Msgs) /\ mbox[e].pend \in Seq(Reqs)
        /\ mbox[e].workq \in Seq({"tx", "rx"})
        /\ mbox[e].pc \in {"idle", "tx", "send", "sent", "pend",
                           "rx", "rcv", "check", "deliver"}
        /\ mbox[e].cur \in Msgs \cup {None} /\ mbox[e].rx \in Msgs \cup {None}
        /\ mbox[e].snd \in Reqs \cup {None}
        /\ mbox[e].send_busy \in BOOLEAN /\ mbox[e].timer \in BOOLEAN
    /\ out \in [Ends -> Msgs \cup {None}]
    /\ msg \in [Reqs -> [sender : {"new", "queued", "asleep", "woken", "expired",
                                  "done", "failed"},
                         resp_op_matched : BOOLEAN, raw : Reqs \cup {None},
                         freed : BOOLEAN]]
    /\ retry \in [Reqs -> 0 .. Retries]
    /\ sent \in [Ends -> Seq(Reqs)] /\ handled \in [Ends -> Seq(Reqs)]
    /\ stale \subseteq Reqs /\ crashed \in BOOLEAN

\* When qdma_mbox_msg_send returns 0 for a request that waits, its buffer holds
\* the reply to that very request.  Op codes are all that is compared, so this
\* rests on replies coming back in the order of the requests.
OwnAnswer == \A m \in Reqs \ Byes : msg[m].sender = "done" => msg[m].raw = m

\* A reply is only ever copied into the request it answers: the reply to a
\* request that expired reaches no later one.
OwnReply == \A m \in Reqs : msg[m].raw \in {m, None}

\* "queue up to ensure order": the requests of one function are handled in the
\* order qdma_mbox_msg_send queued them, and each at most once.
InOrder ==
    \A e \in Ends : \A i, j \in DOMAIN handled[e] :
        i < j => \E k, l \in DOMAIN sent[e] :
                    k < l /\ sent[e][k] = handled[e][i] /\ sent[e][l] = handled[e][j]

\* While its sender waits unmatched, a request is in one place: on the todo
\* list, on the list of waiting ones, or in the worker's hand between the two
\* (so a sender that times out has one list to leave).
ListedOnce ==
    \A m \in Reqs :
        LET b == mbox[From(m)]
            todo == {i \in DOMAIN b.todo : b.todo[i] = Request(m)}
            pend == {i \in DOMAIN b.pend : b.pend[i] = m}
            moved == {m} \cap IF b.pc = "pend" THEN {b.cur.req} ELSE {} IN
        ~crashed /\ msg[m].sender \in {"queued", "asleep"} /\ ~msg[m].resp_op_matched
        => Cardinality(todo) + Cardinality(pend) + Cardinality(moved) = 1


\* Every request that waits for a reply is answered.
Answered ==
    \A m \in Reqs \ Byes : msg[m].sender = "asleep" ~> msg[m].sender = "done"

=============================================================================
