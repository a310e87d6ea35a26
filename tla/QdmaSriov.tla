----------------------------- MODULE QdmaSriov -----------------------------
(***************************************************************************)
(* A physical function (PF), its virtual functions (VFs) and the messages  *)
(* by which they tell each other that they come and go: qdma_sriov.c,      *)
(* qdma_pf_trigger_vf_reset and qdma_pf_trigger_vf_offline in              *)
(* qdma_device.c, qdma_device_online, qdma_device_offline and              *)
(* xdev_reset_work in xdev.c, and the cases of mbox_rcv_one_msg for them.  *)
(*                                                                         *)
(* The PF keeps one slot per VF it enabled and a count of the VFs online.  *)
(* The mailboxes under it are QdmaMbox's subject: here each VF has two     *)
(* FIFO channels, and a wait for a message may end before it comes.        *)
(***************************************************************************)
EXTENDS Integers, Sequences, FiniteSets

CONSTANTS
    Vfs,        \* the virtual functions
    NumVfs,     \* vf_count: the slots of vf_info
    NoFunc,     \* QDMA_FUNC_ID_INVALID
    CountMod,   \* vf_count_online is a u8
    Hasty,      \* whether a wait may end while its message is on its way
    Calm,       \* whether VF drivers come and go only while the PF is up
    Timing,     \* when the PF is reset or removed: "full", with every VF online,
                \* "quiet", with no message on its way, or at "any" time
    MaxResets,  \* bound on the resets of the PF
    MaxQueued   \* bound on the messages of a VF on their way when it is probed

ASSUME SriovAssumption ==
    /\ IsFiniteSet(Vfs) /\ NoFunc \notin Vfs
    /\ NumVfs \in Nat \ {0} /\ CountMod \in Nat \ {0} /\ {MaxResets, MaxQueued} \subseteq Nat
    /\ {Hasty, Calm} \subseteq BOOLEAN /\ Timing \in {"full", "quiet", "any"}

VARIABLES
    online,     \* xdev->vf_count_online of the PF
    slots,      \* the func_id of each vf_info slot
    waiting,    \* the PF's reset_state is RESET_STATE_PF_WAIT_FOR_BYES
    pf,         \* the PF's thread: where it is, its loop index, its copy of
                \* vf_count_online, whether its message was answered
    resets,     \* how often the PF was reset
    vf,         \* each VF: where its driver is, its reset_state, whether
                \* reset_work is queued
    entry,      \* VFs with an entry in the resource manager
    toPf, toVf  \* the messages on their way

pfVars == <<online, slots, waiting, pf, resets>>
vars == <<pfVars, vf, entry, toPf, toVf>>

Slots == 1 .. NumVfs

\* qdma_mbox_init reads and discards the message in the mailbox.
Discard(msgs) == IF msgs = <<>> THEN <<>> ELSE Tail(msgs)

\* A message to QDMA_FUNC_ID_INVALID goes nowhere.
Post(ch, v, m) == IF v \in Vfs THEN [ch EXCEPT ![v] = Append(@, m)] ELSE ch

NoDriver == [pc |-> "none", reset_state |-> "idle", work |-> FALSE]

Init ==
    /\ online = 0 /\ slots = [i \in Slots |-> NoFunc] /\ waiting = FALSE
    /\ pf = [pc |-> "up", i |-> 1, saved |-> 0, matched |-> FALSE]
    /\ resets = 0
    /\ vf = [v \in Vfs |-> NoDriver]
    /\ entry = {}
    /\ toPf = [v \in Vfs |-> <<>>] /\ toVf = [v \in Vfs |-> <<>>]

-----------------------------------------------------------------------------
(***************************************************************************)
(* Bookkeeping of the PF (qdma_sriov.c)                                    *)
(***************************************************************************)
FreeSlots == {i \in Slots : slots[i] = NoFunc}

\* xdev_sriov_vf_online: a slot only outside a reset, and only if one is free.
xdev_sriov_vf_online(v) ==
    /\ online' = (online + 1) % CountMod
    /\ slots' = IF waiting \/ FreeSlots = {} THEN slots
                ELSE [slots EXCEPT ![CHOOSE i \in FreeSlots :
                                       \A j \in FreeSlots : i <= j] = v]

\* Three wrong versions of xdev_sriov_vf_offline: the slot is never free again;
\* it is freed during a reset too; the count is not a u8.
OfflineKeepsSlot(v) ==
    /\ online' = (online - 1) % CountMod
    /\ UNCHANGED slots

OfflineInReset(v) ==
    /\ online' = (online - 1) % CountMod
    /\ slots' = [i \in Slots |-> IF slots[i] = v THEN NoFunc ELSE slots[i]]

OfflineSigned(v) ==
    /\ online' = online - 1
    /\ slots' = IF waiting THEN slots
                ELSE [i \in Slots |-> IF slots[i] = v THEN NoFunc ELSE slots[i]]

\* xdev_sriov_vf_offline: the slot keeps its func_id during a reset, so that
\* RESET_DONE can be sent to it.
xdev_sriov_vf_offline(v) ==
    /\ online' = (online - 1) % CountMod
    /\ slots' = IF waiting THEN slots
                ELSE [i \in Slots |-> IF slots[i] = v THEN NoFunc ELSE slots[i]]

\* The message the PF's thread has sent and not seen answered.
Asked == CASE pf.pc = "reset resp" -> "reset_prepare"
           [] pf.pc = "bye resp" -> "pf_bye"
           [] pf.pc = "done resp" -> "reset_done"
           [] OTHER -> "nothing"

Answers == [reset_prepare |-> "reset_prepare_resp", pf_bye |-> "pf_bye_resp",
            reset_done |-> "reset_done_resp", nothing |-> "nothing"]

Listening == pf.pc \notin {"down", "off", "removed", "oops"}

\* mbox_rcv_one_msg of the PF, with qdma_mbox_pf_rcv_msg_handler.
PfRcv(v) ==
    /\ Listening /\ toPf[v] # <<>>
    /\ toPf' = [toPf EXCEPT ![v] = Tail(@)]
    /\ LET m == Head(toPf[v]) IN
       \/ /\ m = "hello"
          /\ entry' = entry \cup {v}
          /\ xdev_sriov_vf_online(v)
          /\ toVf' = Post(toVf, v, "hello_resp")
          /\ UNCHANGED pf
       \/ /\ m \in {"vf_bye", "reset_bye"}
          /\ entry' = entry \ {v}
          /\ xdev_sriov_vf_offline(v)
          /\ toVf' = IF m = "reset_bye" THEN Post(toVf, v, "reset_bye_resp") ELSE toVf
          /\ UNCHANGED pf
       \/ /\ m \notin {"hello", "vf_bye", "reset_bye"}
          /\ pf' = [pf EXCEPT !.matched = @ \/ m = Answers[Asked]]
          /\ UNCHANGED <<online, slots, entry, toVf>>
    /\ UNCHANGED <<waiting, resets, vf>>

-----------------------------------------------------------------------------
(***************************************************************************)
(* The PF's thread                                                         *)
(***************************************************************************)
\* A patient wait ends without its message only when none can come any more.
Settled(v) ==
    v \in Vfs =>
        /\ toPf[v] = <<>> /\ ~vf[v].work
        /\ \/ vf[v].pc \in {"none", "dead", "offline"}
           \/ toVf[v] = <<>> /\ vf[v].pc = "up"
           \/ toVf[v] = <<>> /\ vf[v].pc = "reset wait" /\ vf[v].reset_state # "reset done"

Expires == Hasty \/ Settled(slots[pf.i])

InTime ==
    /\ Timing = "full" => \A v \in Vfs : vf[v].pc # "none"
    /\ Timing # "any" => \A v \in Vfs :
          vf[v].pc \in {"none", "up"} /\ vf[v].reset_state = "idle" /\ toPf[v] = <<>>

\* qdma_device_offline for a reset (qdma_reset_prepare): the VFs are asked only
\* if vf_count_online is not 0.
PfReset ==
    /\ pf.pc = "up" /\ resets < MaxResets
    /\ InTime
    /\ resets' = resets + 1
    /\ IF online = 0
       THEN pf' = [pf EXCEPT !.pc = "down"] /\ UNCHANGED waiting
       ELSE /\ pf' = [pf EXCEPT !.pc = "reset ask", !.i = 1, !.saved = online]
            /\ waiting' = TRUE
    /\ UNCHANGED <<online, slots, vf, entry, toPf, toVf>>

\* qdma_device_offline when the driver is removed.
PfOffline ==
    /\ pf.pc = "up"
    /\ InTime
    /\ pf' = [pf EXCEPT !.pc = "bye ask", !.i = 1, !.saved = online]
    /\ UNCHANGED <<online, slots, waiting, resets, vf, entry, toPf, toVf>>

\* The head of the loop of qdma_pf_trigger_vf_reset over the first
\* vf_count_online slots; vf[i] past the end of vf_info is undefined.
ResetAsk ==
    /\ pf.pc = "reset ask" /\ pf.i <= pf.saved
    /\ IF pf.i \in Slots
       THEN /\ pf' = [pf EXCEPT !.pc = "reset resp", !.matched = FALSE]
            /\ toVf' = Post(toVf, slots[pf.i], "reset_prepare")
       ELSE pf' = [pf EXCEPT !.pc = "oops"] /\ UNCHANGED toVf
    /\ UNCHANGED <<online, slots, waiting, resets, vf, entry, toPf>>

\* Two wrong versions of ResetRound: every VF is counted out; a goodbye is waited
\* for without a timeout.
ResetRoundTwice ==
    /\ \/ pf.pc = "reset resp" /\ ~pf.matched /\ Expires
       \/ pf.pc = "reset bye" /\ (online = pf.saved - pf.i \/ Expires)
    /\ online' = (online - 1) % CountMod
    /\ pf' = [pf EXCEPT !.pc = "reset ask", !.i = @ + 1]
    /\ UNCHANGED <<slots, waiting, resets, vf, entry, toPf, toVf>>

ResetRoundNoTimeout ==
    /\ \/ pf.pc = "reset resp" /\ ~pf.matched /\ Expires
       \/ pf.pc = "reset bye" /\ online = pf.saved - pf.i
    /\ online' = IF online = pf.saved - pf.i THEN online
                 ELSE (online - 1) % CountMod
    /\ pf' = [pf EXCEPT !.pc = "reset ask", !.i = @ + 1]
    /\ UNCHANGED <<slots, waiting, resets, vf, entry, toPf, toVf>>

\* The end of one round: a VF that did not say goodbye is counted out.
ResetRound ==
    /\ \/ pf.pc = "reset resp" /\ ~pf.matched /\ Expires
       \/ pf.pc = "reset bye" /\ (online = pf.saved - pf.i \/ Expires)
    /\ online' = IF online = pf.saved - pf.i THEN online
                 ELSE (online - 1) % CountMod
    /\ pf' = [pf EXCEPT !.pc = "reset ask", !.i = @ + 1]
    /\ UNCHANGED <<slots, waiting, resets, vf, entry, toPf, toVf>>

\* The answer came: the PF goes on to wait for the goodbye.
Answered ==
    /\ pf.pc \in {"reset resp", "bye resp"} /\ pf.matched
    /\ pf' = [pf EXCEPT !.pc = IF @ = "reset resp" THEN "reset bye" ELSE "bye bye"]
    /\ UNCHANGED <<online, slots, waiting, resets, vf, entry, toPf, toVf>>

\* Wrong version of ResetAsked: the loop ends one slot early.
ResetAskedEarly ==
    /\ pf.pc = "reset ask" /\ pf.i >= pf.saved
    /\ pf' = [pf EXCEPT !.pc = "down"] /\ waiting' = FALSE
    /\ UNCHANGED <<online, slots, resets, vf, entry, toPf, toVf>>

\* The loop is over: reset_state is idle again, the device is offline.
ResetAsked ==
    /\ pf.pc = "reset ask" /\ pf.i > pf.saved
    /\ pf' = [pf EXCEPT !.pc = "down"] /\ waiting' = FALSE
    /\ UNCHANGED <<online, slots, resets, vf, entry, toPf, toVf>>

\* qdma_pf_trigger_vf_offline: the same loop with another message, waiting for
\* the slot to be cleared.
ByeAsk ==
    /\ pf.pc = "bye ask" /\ pf.i <= pf.saved
    /\ IF pf.i \in Slots
       THEN /\ pf' = [pf EXCEPT !.pc = "bye resp", !.matched = FALSE]
            /\ toVf' = Post(toVf, slots[pf.i], "pf_bye")
       ELSE pf' = [pf EXCEPT !.pc = "oops"] /\ UNCHANGED toVf
    /\ UNCHANGED <<online, slots, waiting, resets, vf, entry, toPf>>

ByeRound ==
    /\ \/ pf.pc = "bye resp" /\ ~pf.matched /\ Expires
       \/ pf.pc = "bye bye" /\ (slots[pf.i] = NoFunc \/ Expires)
    /\ pf' = [pf EXCEPT !.pc = "bye ask", !.i = @ + 1]
    /\ UNCHANGED <<online, slots, waiting, resets, vf, entry, toPf, toVf>>

\* qdma_device_sriov_config with 0, from sysfs.
SriovConfigZero ==
    /\ pf.pc = "up"
    /\ pf' = [pf EXCEPT !.pc = "unplug"]
    /\ UNCHANGED <<online, slots, waiting, resets, vf, entry, toPf, toVf>>

ByeAsked ==
    /\ pf.pc = "bye ask" /\ pf.i > pf.saved
    /\ pf' = [pf EXCEPT !.pc = "unplug last"]
    /\ UNCHANGED <<online, slots, waiting, resets, vf, entry, toPf, toVf>>

Unplugging == pf.pc \in {"unplug", "unplug last"}

\* xdev_sriov_disable: pci_disable_sriov has removed every VF; the wait after
\* it, for a vf_count that nobody changes, is as long as it takes the PF to
\* read their goodbyes. Then vf_info is freed.
xdev_sriov_disable ==
    /\ Unplugging /\ \A v \in Vfs : vf[v].pc = "none" /\ (Hasty \/ toPf[v] = <<>>)
    /\ pf' = [pf EXCEPT !.pc = IF @ = "unplug" THEN "off" ELSE "removed"]
    /\ slots' = [i \in Slots |-> NoFunc]
    /\ UNCHANGED <<online, waiting, resets, vf, entry, toPf, toVf>>

\* xdev_sriov_enable: new slots, the mailbox is started, the VFs may be probed.
xdev_sriov_enable ==
    /\ pf.pc = "off"
    /\ pf' = [pf EXCEPT !.pc = "up"]
    /\ slots' = [i \in Slots |-> NoFunc]
    /\ UNCHANGED <<online, waiting, resets, vf, entry, toPf, toVf>>

\* qdma_device_online after the reset: qdma_mbox_init reads and discards what
\* came meanwhile, then every slot is told.
PfOnline ==
    /\ pf.pc = "down"
    /\ toPf' = [v \in Vfs |-> Discard(toPf[v])]
    /\ pf' = [pf EXCEPT !.pc = "done ask", !.i = 1]
    /\ UNCHANGED <<online, slots, waiting, resets, vf, entry, toVf>>

DoneAsk ==
    /\ pf.pc = "done ask" /\ pf.i \in Slots
    /\ pf' = [pf EXCEPT !.pc = "done resp", !.saved = online, !.matched = FALSE]
    /\ toVf' = Post(toVf, slots[pf.i], "reset_done")
    /\ UNCHANGED <<online, slots, waiting, resets, vf, entry, toPf>>

\* Whether the answer came or not, the PF waits for one more VF online.
DoneAnswered ==
    /\ pf.pc = "done resp" /\ (pf.matched \/ Expires)
    /\ pf' = [pf EXCEPT !.pc = "done hello"]
    /\ UNCHANGED <<online, slots, waiting, resets, vf, entry, toPf, toVf>>

DoneRound ==
    /\ pf.pc = "done hello" /\ (online = pf.saved + 1 \/ Expires)
    /\ pf' = [pf EXCEPT !.pc = "done ask", !.i = @ + 1]
    /\ UNCHANGED <<online, slots, waiting, resets, vf, entry, toPf, toVf>>

DoneAll ==
    /\ pf.pc = "done ask" /\ pf.i \notin Slots
    /\ pf' = [pf EXCEPT !.pc = "up"]
    /\ UNCHANGED <<online, slots, waiting, resets, vf, entry, toPf, toVf>>

-----------------------------------------------------------------------------
(***************************************************************************)
(* The VF's driver                                                         *)
(***************************************************************************)
\* The request each wait of the VF is for, and what answers it.
Pend(v) == CASE vf[v].pc \in {"hello", "reset hello"} -> "hello_resp"
             [] vf[v].pc = "reset bye" -> "reset_bye_resp"
             [] OTHER -> "none"

\* The PF's thread is between RESET_PREPARE and the last RESET_DONE.
InReset == {"reset ask", "reset resp", "reset bye", "down", "done ask", "done resp", "done hello"}

\* A VF's wait ends without the answer: no answer will come, or it is hasty.
Unanswered(v) == Hasty \/ (toVf[v] = <<>> /\ (toPf[v] = <<>> \/ ~Listening))

\* When the environment loads and unloads VF drivers.
ComeAndGo == Calm => pf.pc = "up"

\* qdma_device_online of a VF that is probed: qdma_mbox_init discards what is
\* in its mailbox, then it says hello.
VfProbe(v) ==
    /\ vf[v].pc = "none" /\ ComeAndGo /\ ~Unplugging /\ pf.pc \notin {"off", "removed"}
    /\ Len(toPf[v]) <= MaxQueued
    /\ vf' = [vf EXCEPT ![v].pc = "hello"]
    /\ toVf' = [toVf EXCEPT ![v] = Discard(@)]
    /\ toPf' = Post(toPf, v, "hello")
    /\ UNCHANGED <<pfVars, entry>>

\* mbox_rcv_one_msg of the VF: while a request is pending only its answer is
\* looked at, everything else is dropped.
VfRcv(v) ==
    /\ vf[v].pc \notin {"none", "dead", "offline"} /\ toVf[v] # <<>>
    /\ toVf' = [toVf EXCEPT ![v] = Tail(@)]
    /\ LET m == Head(toVf[v]) IN
       \/ /\ Pend(v) # "none"
          /\ vf' = IF m # Pend(v) THEN vf
                   ELSE [vf EXCEPT ![v].pc = IF @ = "reset bye" THEN "reset wait" ELSE "up",
                                   ![v].reset_state =
                                       IF vf[v].pc = "reset hello" /\ @ = "reset done"
                                       THEN "idle" ELSE @]
          /\ UNCHANGED toPf
       \/ /\ Pend(v) = "none" /\ m = "reset_prepare"
          /\ vf' = [vf EXCEPT ![v].reset_state = "reset req", ![v].work = TRUE]
          /\ toPf' = Post(toPf, v, "reset_prepare_resp")
       \/ /\ Pend(v) = "none" /\ m = "pf_bye"
          /\ vf' = [vf EXCEPT ![v].reset_state = "offline req", ![v].work = TRUE]
          /\ toPf' = Post(toPf, v, "pf_bye_resp")
       \/ /\ Pend(v) = "none" /\ m = "reset_done"
          /\ vf' = [vf EXCEPT ![v].reset_state = "reset done"]
          /\ toPf' = Post(toPf, v, "reset_done_resp")
       \/ /\ Pend(v) = "none" /\ m \notin {"reset_prepare", "pf_bye", "reset_done"}
          /\ UNCHANGED <<vf, toPf>>
    /\ UNCHANGED <<pfVars, entry>>

\* xdev_reset_work starts: qdma_device_offline says goodbye, in one of two ways.
VfResetWork(v) ==
    /\ vf[v].pc \in {"up", "dead", "offline"} /\ vf[v].work
    /\ \/ /\ vf[v].reset_state = "reset req"
          /\ vf' = [vf EXCEPT ![v].pc = "reset bye", ![v].work = FALSE]
          /\ toPf' = Post(toPf, v, "reset_bye")
       \/ /\ vf[v].reset_state = "offline req"
          /\ vf' = [vf EXCEPT ![v].pc = "offline", ![v].work = FALSE,
                             ![v].reset_state = "offline processing"]
          /\ toPf' = Post(toPf, v, "vf_bye")
       \/ /\ vf[v].reset_state \notin {"reset req", "offline req"}
          /\ vf' = [vf EXCEPT ![v].work = FALSE]
          /\ UNCHANGED toPf
    /\ UNCHANGED <<pfVars, entry, toVf>>

\* The PF said RESET_DONE: qdma_device_online says hello again.
VfResetDone(v) ==
    /\ vf[v].pc = "reset wait" /\ vf[v].reset_state = "reset done"
    /\ vf' = [vf EXCEPT ![v].pc = "reset hello"]
    /\ toVf' = [toVf EXCEPT ![v] = Discard(@)]
    /\ toPf' = Post(toPf, v, "hello")
    /\ UNCHANGED <<pfVars, entry>>

\* The goodbye of a reset is not answered: the VF goes on.
VfByeExpires(v) ==
    /\ vf[v].pc = "reset bye" /\ Unanswered(v)
    /\ vf' = [vf EXCEPT ![v].pc = "reset wait"]
    /\ UNCHANGED <<pfVars, entry, toPf, toVf>>

\* RESET_DONE does not come: the reset_state is invalid and the VF stays offline.
VfWaitExpires(v) ==
    /\ vf[v].pc = "reset wait" /\ vf[v].reset_state # "reset done"
    /\ Hasty \/ (toVf[v] = <<>> /\ pf.pc \notin InReset)
    /\ vf' = [vf EXCEPT ![v].pc = "dead", ![v].reset_state = "invalid"]
    /\ UNCHANGED <<pfVars, entry, toPf, toVf>>

\* A hello is not answered. A probe fails, and takes the device offline with a
\* goodbye; xdev_reset_work does not look at what qdma_device_online returned.
VfHelloExpires(v) ==
    /\ vf[v].pc \in {"hello", "reset hello"} /\ Unanswered(v)
    /\ IF vf[v].pc = "hello"
       THEN /\ vf' = [vf EXCEPT ![v] = NoDriver]
            /\ toPf' = Post(toPf, v, "vf_bye")
       ELSE /\ vf' = [vf EXCEPT ![v].pc = "up",
                                ![v].reset_state = IF @ = "reset done" THEN "idle" ELSE @]
            /\ UNCHANGED toPf
    /\ UNCHANGED <<pfVars, entry, toVf>>

\* The VF's driver is unloaded, or its device goes away with pci_disable_sriov,
\* while no request of the PF is being served.
VfRemove(v) ==
    /\ ComeAndGo \/ Unplugging
    /\ vf[v].pc \in {"up", "offline", "dead"} /\ ~vf[v].work
    /\ vf' = [vf EXCEPT ![v] = NoDriver]
    /\ toPf' = IF vf[v].pc = "up" THEN Post(toPf, v, "vf_bye") ELSE toPf
    /\ UNCHANGED <<pfVars, entry, toVf>>

-----------------------------------------------------------------------------
PfThread ==
    \/ ResetAsk \/ ResetRound \/ Answered \/ ResetAsked \/ ByeAsk \/ ByeRound \/ ByeAsked
    \/ xdev_sriov_disable \/ PfOnline \/ DoneAsk \/ DoneAnswered \/ DoneRound \/ DoneAll

VfDriver(v) ==
    \/ VfRcv(v) \/ VfResetWork(v) \/ VfResetDone(v)
    \/ VfByeExpires(v) \/ VfWaitExpires(v) \/ VfHelloExpires(v)
    \/ Unplugging /\ VfRemove(v)

Next ==
    \/ PfReset \/ PfOffline \/ SriovConfigZero \/ xdev_sriov_enable \/ PfThread
    \/ \E v \in Vfs : PfRcv(v) \/ VfProbe(v) \/ VfDriver(v) \/ VfRemove(v)

\* Messages are received, loops go on, waits end, pci_disable_sriov removes the
\* VFs. Nothing has to be loaded, unloaded or reset.
Spec ==
    /\ Init /\ [][Next]_vars
    /\ WF_vars(PfThread)
    /\ \A v \in Vfs : WF_vars(PfRcv(v)) /\ WF_vars(VfDriver(v))

-----------------------------------------------------------------------------
(***************************************************************************)
(* Properties                                                              *)
(***************************************************************************)
\* Types; the loops over vf_info are at one of its slots while they wait.
TypeOK ==
    /\ online \in 0 .. CountMod - 1 /\ slots \in [Slots -> Vfs \cup {NoFunc}]
    /\ waiting \in BOOLEAN /\ resets \in 0 .. MaxResets /\ entry \subseteq Vfs
    /\ pf.i \in 1 .. CountMod /\ pf.saved \in 0 .. CountMod - 1
    /\ pf.pc \in {"done resp", "done hello", "bye resp", "reset resp"} => pf.i \in Slots

\* vf_count_online, which qdma_pf_trigger_vf_reset takes for the number of slots
\* to go through, counts the VFs that have an entry in the resource manager:
\* hellos, goodbyes, the ones counted out and the ones that say hello after the
\* reset add up, as long as waits are long enough and VF drivers come and go
\* only while the PF is up.
CountIsExact == online = Cardinality(entry)

\* A VF that said hello has a slot whenever no reset is going on: the slots of
\* VFs that left are free again, and those of VFs that went through a reset are
\* still theirs although xdev_sriov_vf_online finds no free one for them.
EveryOneHasASlot == \A v \in entry : ~waiting => \E i \in Slots : slots[i] = v

\* "Function to trigger FLR of all the VFs on PF" (qdma_device.h): when
\* qdma_pf_trigger_vf_reset is done and the PF is about to be reset, no VF is
\* still working. True if every slot is taken; a VF behind a free slot is not
\* asked, because the loop ends after vf_count_online slots.
ResetReachesAll == pf.pc = "down" => \A v \in Vfs : vf[v].pc # "up"

\* A VF that was told of a reset is online again after it: the PF still knows
\* its func_id for RESET_DONE, and its second hello is answered.
BackOnline ==
    \A v \in Vfs : (vf[v].reset_state = "reset req")
                      ~> (vf[v].pc = "up" /\ vf[v].reset_state = "idle")

\* The PF and a VF never wait for each other for ever, whatever is lost while
\* one of them is down: every loop of the PF and every wait of a VF ends.
WaitsEnd ==
    /\ []<>(pf.pc \in {"up", "off", "removed", "oops"})
    /\ \A v \in Vfs : []<>(vf[v].pc \in {"none", "up", "offline", "dead"} /\ ~vf[v].work)

\* The loops over vf_info stay inside it. Violated when VF drivers come and go
\* during a reset: the u8 vf_count_online goes below 0, and the next reset goes
\* through 255 slots.
StaysInVfInfo == pf.pc # "oops"
=============================================================================
