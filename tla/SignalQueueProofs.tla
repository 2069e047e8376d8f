------------------------- MODULE SignalQueueProofs -------------------------
(***************************************************************************)
(* The signal queue keeps its promises for any number of senders, buffers  *)
(* and messages, and for any limits of the installation and the removal of *)
(* the buffers.  QueueInv is the inductive invariant.  It has a part for   *)
(* each question the code answers without the message queue lock: who owns *)
(* the lock, which buffers are alive, what is announced, what the flag     *)
(* covers, who will wake the receiver, and where the messages are that a   *)
(* receive with after 0 must find.                                         *)
(***************************************************************************)
EXTENDS SignalQueueSteps

Holding ==   \* the receiver owns the message queue lock
  rcv.pc \in {"splice", "clear", "raced", "reset", "peek", "wait", "sleep", "deactivate",
              "last fetch", "change"}

(* Who owns the message queue lock, and who may flush. *)
LockInv ==
  /\ msgq = Receiver <=> Holding
  /\ \A s \in Senders : msgq = s <=> At(s, "link")
  /\ fl.pc # "off" => msgq # NoOne
  /\ fl.pc # "off" /\ Holding => rcv.pc \in {"splice", "last fetch", "change"}
  /\ fl.pc \in {"off", "msgs", "take"} => fl.slots = {}

(* The buffers of an array are alive until it is uninstalled; a sender in a    *)
(* buffer keeps its array.                                                     *)
BufferInv ==
  /\ fl.pc # "kill" => buf.alive = IF buf.installed THEN Slots ELSE {}
  /\ fl.pc = "kill" => buf.alive = fl.slots
  /\ fl.pc # "off" => buf.installed
  /\ ~buf.installed => buf.nonempty = {}
  /\ \A i \in Slots \ buf.alive : buf.queue[i] = <<>>
  /\ \A s \in Senders : InSlot(s) => snd[s].array = buf.array /\ SlotOf[s] \in buf.alive

(* A slot is, or was when the flush took nonempty_slots, announced as nonempty. *)
Taken(i) == i \in buf.nonempty \/ i \in fl.slots
(* ... and msgs_in_slots tells the next flush to look. *)
Announced(i) == (i \in buf.nonempty /\ (buf.msgs \/ fl.pc = "take")) \/ i \in fl.slots

(* What a sender relies on in the course of announcing its slot. *)
Placed(s) ==
  /\ At(s, "recheck") \/ (At(s, "nonempty") /\ snd[s].restarted) => Taken(SlotOf[s])
  /\ At(s, "state") \/ At(s, "enqueue") => Announced(SlotOf[s])
  /\ snd[s].restarted => InSlot(s)

AnnounceInv == SlotsAnnounced /\ \A s \in Senders : Placed(s)

(* A message is in the outer queue or in a buffer, or about to be put there by *)
(* a sender that will not set the flag.                                        *)
Outside ==
  \/ ~QueuesEmpty
  \/ \E s \in Senders : At(s, "enqueue") /\ ~snd[s].mark

(* ERTS_PSFLG_MSG_SIG_IN_Q covers what is outside, except while the receiver that has cleared it
   is about to set it again. *)
FlagInv ==
  /\ Outside => "MSG_SIG_IN_Q" \in state \/ rcv.pc \in {"raced", "reset"}
  /\ rcv.pc \in {"clear", "raced", "reset", "peek", "wait", "sleep", "deactivate"} => inq = <<>>
  /\ rcv.pc \in {"splice", "clear"} /\ ~rcv.buffers => ~buf.installed
  /\ RAt("last fetch") \/ RAt("change") =>
       fl.pc \in {"off", "kill"} /\ (fl.pc = "off" => ~buf.installed)

(* No slot is announced, or by a sender that will wake the receiver for it. *)
Fresh == buf.nonempty = {} \/ \E s \in Senders : First(s) \/ At(s, "released")

(* The flush under way will find something. *)
Found ==
  \/ inq # <<>> \/ Peek
  \/ \E i \in fl.slots : buf.queue[i] # <<>>
  \/ \E s \in Senders : InSlot(s) /\ SlotOf[s] \in fl.slots

(* A sender is on its way to wake the receiver. *)
Woken == \E s \in Senders : First(s) \/ snd[s].pc \in {"released", "notify", "schedule"}

(* Whatever is in a queue when the receiver goes to sleep will wake it. *)
SleepInv ==
  /\ RAt("splice") /\ fl.pc \in {"off", "slots"} => Fresh \/ Found
  /\ rcv.pc \in {"clear", "raced", "reset", "peek"} => Fresh \/ Peek
  /\ rcv.pc \in {"wait", "sleep", "deactivate"} => Fresh
  /\ rcv.pc \in {"out", "off"} /\ "ACTIVE" \notin state => QueuesEmpty \/ Woken

(* The scheduling flags of the process and where it is. *)
RunInv ==
  /\ "RUNNING" \in state => "IN_RUNQ" \notin state
  /\ "IN_RUNQ" \in state => "ACTIVE" \in state
  /\ "RUNNING" \in state <=> rcv.pc \notin {"off", "gone"}
  /\ rcv.pc \notin {"out", "off", "gone"} => "ACTIVE" \in state
  /\ RAt("gone") => "ACTIVE" \notin state
  /\ "FREE" \in state <=> rcv.pc \in {"free", "last fetch", "links", "gone"}
  /\ "EXITING" \in state <=> rcv.pc \in {"exiting", "free", "last fetch", "links", "gone"}

(* The timer belongs to a receive with a time limit. *)
TimerInv ==
  /\ "F_INSLPQUEUE" \notin rcv.flags => timer = "none"
  /\ "F_INSLPQUEUE" \in rcv.flags => rcv.after = "finite"
  /\ rcv.after = "zero" => rcv.flags = {}
  /\ ~InReceive => rcv.flags = {}
  /\ RAt("timeout") => rcv.after # "infinity" /\ timer = "none"

(* The save pointer has only stepped over messages that do not match. *)
ScanInv ==
  /\ RAt("match") => Peek
  /\ ~InReceive => save = 1
  /\ InReceive => \A j \in 1 .. (save - 1) : inner[j][1] \notin rcv.want

(* The message is in a queue of the process, or in a buffer. *)
Fetched(m) == m \in Range(inner) \/ m \in Range(inq)
Buffered(m) == m \in Range(buf.queue[SlotOf[m[1]]])

(* Where the messages are that an after 0 receive must not miss. *)
DueInv ==
  /\ rcv.after # "zero" \/ ~InReceive => rcv.due = {}
  /\ \A m \in rcv.due : m[1] \in rcv.want
  /\ rcv.pc \in {"loop", "lock", "blocked", "match", "out", "off", "splice"} =>
       \A m \in rcv.due : Fetched(m) \/ Buffered(m)
  /\ RAt("splice") /\ fl.pc \in {"off", "slots", "kill"} =>
       \A m \in rcv.due : Fetched(m) \/ (SlotOf[m[1]] \in fl.slots /\ Buffered(m))
  /\ rcv.pc \in {"clear", "raced", "reset", "peek"} => rcv.due \subseteq Range(inner)
  /\ rcv.pc \in {"wait", "sleep", "deactivate", "timeout"} => rcv.due = {}

(* The inductive invariant. *)
QueueInv ==
  /\ TypeOK /\ LockInv /\ BufferInv /\ AnnounceInv /\ FlagInv /\ SleepInv /\ RunInv
  /\ TimerInv /\ ScanInv /\ DueInv
(***************************************************************************)
(* Who owns the message queue lock.                                        *)
(***************************************************************************)
(* Only the steps to and from the critical section matter to LockInv. *)
LEMMA LockFrame ==
  ASSUME LockInv, NEW s \in Senders, Others(s), snd[s].pc # "link", snd'[s].pc # "link",
         UNCHANGED <<msgq, fl, rcv>>
  PROVE  LockInv'
BY Zenon DEF LockInv, Holding, Others, At

(* Every step keeps LockInv. *)
LEMMA LockStep ==
  ASSUME TypeOK, LockInv, RAt("match") => Peek, RAt("links") => save = 1, Next
  PROVE  TypeOK' /\ LockInv'
<1>1. ASSUME NEW s \in Senders, queue_messages(s)  PROVE TypeOK' /\ LockInv'
  BY <1>1, queue_messagesEffect, LockFrame DEF lock
<1>2. ASSUME NEW s \in Senders, LockSlot(s)  PROVE TypeOK' /\ LockInv'
  BY <1>2, LockSlotEffect, LockFrame, Zenon DEF lock
<1>3. ASSUME NEW s \in Senders, MarkNonempty(s)  PROVE TypeOK' /\ LockInv'
  BY <1>3, MarkNonemptyEffect, LockFrame, Zenon DEF lock
<1>4. ASSUME NEW s \in Senders, RecheckMsgs(s)  PROVE TypeOK' /\ LockInv'
  BY <1>4, RecheckMsgsEffect, LockFrame, Zenon DEF lock
<1>5. ASSUME NEW s \in Senders, ReadState(s)  PROVE TypeOK' /\ LockInv'
  BY <1>5, ReadStateEffect, LockFrame DEF lock
<1>6. ASSUME NEW s \in Senders, EnqueueToSlot(s)  PROVE TypeOK' /\ LockInv'
  BY <1>6, EnqueueToSlotEffect, LockFrame DEF lock
<1>7. ASSUME NEW s \in Senders,
             \/ WaitUntilReleased(s) \/ WaitForMsgq(s) \/ NotifyPremises(s)
             \/ erts_proc_notify_new_message(s)
      PROVE  TypeOK' /\ LockInv'
  BY <1>7, SenderMovesEffect, LockFrame DEF lock
<1>8. ASSUME NEW s \in Senders, erts_schedule_process(s)  PROVE TypeOK' /\ LockInv'
  BY <1>8, erts_schedule_processEffect, LockFrame DEF lock
<1> USE ThreadsAssumption DEF LockInv, Holding, At
<1>9. ASSUME NEW s \in Senders, LockMsgq(s)  PROVE TypeOK' /\ LockInv'
  BY <1>9, LockMsgqEffect, Zenon DEF Others
<1>10. ASSUME NEW s \in Senders, LINK_MESSAGE(s)  PROVE TypeOK' /\ LockInv'
  BY <1>10, LINK_MESSAGEEffect, Zenon DEF Others
<1>11. CASE ClearMsgs  BY <1>11, ClearMsgsEffect, Zenon DEF lock
<1>12. CASE TakeNonempty  BY <1>12, TakeNonemptyEffect, Zenon DEF lock
<1>13. CASE proc_sig_queue_flush_buffer  BY <1>13, FlushSlotEffect, Zenon DEF lock, Emptied
<1>14. CASE FlushRound  BY <1>14, FlushRoundEffect, Zenon
<1>15. CASE KillSlot  BY <1>15, KillSlotEffect, Zenon DEF lock, Emptied
<1>16. CASE Uninstall  BY <1>16, UninstallEffect, Zenon DEF lock
<1>17. CASE Preempt \/ i_loop_rec \/ RWaitForMsgq \/ ReadNonempty
  BY <1>17, ReceiverMovesEffect, Zenon DEF lock
<1>18. CASE Receive  BY <1>18, ReceiveEffect, Zenon DEF lock
<1>19. CASE erts_proc_sig_fetch  BY <1>19, FetchEffect, Zenon
<1>20. CASE Splice  BY <1>20, SpliceEffect, Zenon DEF lock
<1>21. CASE ClearFlag  BY <1>21, ClearFlagEffect, Zenon DEF lock
<1>22. CASE ResetFlag  BY <1>22, ResetFlagEffect, Zenon DEF lock
<1>23. CASE PeekFetched  BY <1>23, PeekFetchedEffect, Zenon
<1>24. CASE remove_message
  BY <1>24, remove_messageEffect, LeftEffect, Zenon DEF lock
<1>25. CASE loop_rec_end
  <2>1. RAt("match")  BY <1>25, Zenon DEF loop_rec_end
  <2> QED BY <1>25, <2>1, loop_rec_endEffect, Zenon DEF lock
<1>26. CASE wait  BY <1>26, waitEffect, Zenon
<1>27. CASE TestTimer  BY <1>27, TestTimerEffect, Zenon
<1>28. CASE Deactivate  BY <1>28, DeactivateEffect, Zenon
<1>29. CASE timeout  BY <1>29, timeoutEffect, LeftEffect, Zenon DEF lock
<1>30. CASE schedule_out_process  BY <1>30, schedule_out_processEffect, Zenon DEF lock
<1>31. CASE ScheduleIn  BY <1>31, ScheduleInEffect, Zenon DEF lock
<1>32. CASE Timing  BY <1>32, TimingEffect, Zenon DEF lock
<1>33. CASE set_self_exiting \/ SetFree  BY <1>33, ExitBeginsEffect, Zenon DEF lock
<1>34. CASE ExitLocks \/ ChangeLocks  BY <1>34, TakesLockEffect, Zenon
<1>35. CASE ExitFetches  BY <1>35, ExitFetchesEffect, Zenon
<1>36. CASE delete_process
  <2>1. RAt("links")  BY <1>36, Zenon DEF delete_process
  <2> QED BY <1>36, <2>1, delete_processEffect, Zenon DEF lock
<1>37. CASE ChangeSets \/ ChangeClears  BY <1>37, ChangeEffect, Zenon
<1>38. CASE WrongTime  BY <1>38, WrongTimeEffect, LeftEffect, Zenon
<1> QED
  BY <1>1, <1>2, <1>3, <1>4, <1>5, <1>6, <1>7, <1>8, <1>9, <1>10, <1>11, <1>12, <1>13,
     <1>14, <1>15, <1>16, <1>17, <1>18, <1>19, <1>20, <1>21, <1>22, <1>23, <1>24, <1>25,
     <1>26, <1>27, <1>28, <1>29, <1>30, <1>31, <1>32, <1>33, <1>34, <1>35, <1>36, <1>37,
     <1>38, Zenon
  DEF Next, Sending, Receiving, Scheduling, Flush, Exiting, Changing

(***************************************************************************)
(* The steps that are not a sender's or a flush's leave the buffers and    *)
(* the senders alone, and most of them the flush.                          *)
(***************************************************************************)
ReceiverStep ==
  Receive \/ Preempt \/ Receiving \/ Scheduling \/ Timing \/ Exiting \/ Changing

(* The receiver changes neither the buffers nor a sender; it starts a flush only with the lock. *)
LEMMA ReceiverFrame ==
  ASSUME ReceiverStep
  PROVE  /\ UNCHANGED <<buf, snd>>
         /\ UNCHANGED fl \/ erts_proc_sig_fetch \/ ExitLocks \/ ChangeLocks
<1>1. CASE Receive \/ Preempt  BY <1>1, Zenon DEF Receive, Preempt
<1>2. CASE Receiving
  BY <1>2, Zenon
  DEF Receiving, i_loop_rec, RWaitForMsgq, erts_proc_sig_fetch, Splice, ClearFlag, ReadNonempty,
      ResetFlag, PeekFetched, remove_message, loop_rec_end, wait, WrongTime, TestTimer,
      Deactivate, timeout
<1>3. CASE Scheduling \/ Timing
  BY <1>3, Zenon
  DEF Scheduling, Timing, schedule_out_process, ScheduleIn, TimerFires, TimerReads, TimerSchedules
<1>4. CASE Exiting \/ Changing
  BY <1>4, Zenon
  DEF Exiting, Changing, set_self_exiting, SetFree, ExitLocks, ExitFetches, delete_process,
      ChangeLocks, ChangeSets, ChangeClears
<1> QED BY <1>1, <1>2, <1>3, <1>4 DEF ReceiverStep

(***************************************************************************)
(* Which buffers are alive.                                                *)
(***************************************************************************)
(* A sender in a buffer has an array. *)
LEMMA InSlotInstalled ==
  ASSUME TypeOK, BufferInv, NEW s \in Senders, InSlot(s)
  PROVE  buf.installed
BY DEF BufferInv

(* Without an array no buffer holds a message and no sender is in one. *)
LEMMA NoArray ==
  ASSUME TypeOK, BufferInv, ~buf.installed
  PROVE  /\ buf.alive = {} /\ buf.nonempty = {} /\ \A i \in Slots : buf.queue[i] = <<>>
         /\ \A s \in Senders : ~InSlot(s)
BY DEF BufferInv, TypeOK, FlushState

(* A step of a sender with a live buffer, which it keeps, that moves no message. *)
LEMMA BufferKept ==
  ASSUME BufferInv, NEW s \in Senders, Others(s), UNCHANGED fl, BufKeeps,
         snd[s].array = buf.array, SlotOf[s] \in buf.alive, snd'[s].array = snd[s].array,
         buf.installed \/ buf'.nonempty = buf.nonempty
  PROVE  BufferInv'
<1>1. \A t \in Senders : InSlot(t)' => snd'[t].array = buf'.array /\ SlotOf[t] \in buf'.alive
  BY DEF BufferInv, Others, BufKeeps, InSlot
<1> QED BY <1>1 DEF BufferInv, BufKeeps

(* A step of a sender that leaves the buffers alone. *)
LEMMA BufferFrame ==
  ASSUME BufferInv, NEW s \in Senders, Others(s), UNCHANGED <<buf, fl>>,
         InSlot(s)' => InSlot(s) /\ snd'[s].array = snd[s].array
  PROVE  BufferInv'
BY DEF BufferInv, Others, InSlot

(* Every step keeps BufferInv. *)
LEMMA BufferStep ==
  ASSUME TypeOK, LockInv, BufferInv, Next
  PROVE  BufferInv'
<1>1. ASSUME NEW s \in Senders, queue_messages(s)  PROVE BufferInv'
  BY <1>1, queue_messagesEffect, BufferFrame DEF InSlot
<1>2. ASSUME NEW s \in Senders, ReadState(s)  PROVE BufferInv'
  BY <1>2, ReadStateEffect, BufferFrame DEF InSlot
<1>3. ASSUME NEW s \in Senders,
             \/ WaitUntilReleased(s) \/ WaitForMsgq(s) \/ NotifyPremises(s)
             \/ erts_proc_notify_new_message(s)
      PROVE  BufferInv'
  BY <1>3, SenderMovesEffect, BufferFrame DEF InSlot
<1>4. ASSUME NEW s \in Senders, erts_schedule_process(s)  PROVE BufferInv'
  BY <1>4, erts_schedule_processEffect, BufferFrame DEF InSlot
<1>5. ASSUME NEW s \in Senders, LINK_MESSAGE(s)  PROVE BufferInv'
  BY <1>5, LINK_MESSAGEEffect, BufferFrame DEF InSlot
<1>6. ASSUME NEW s \in Senders, LockSlot(s)  PROVE BufferInv'
  <2>1. CASE UNCHANGED buf /\ snd'[s].pc = "lock"
    BY <1>6, <2>1, LockSlotEffect, BufferFrame, Zenon DEF InSlot
  <2>2. CASE /\ snd[s].array = buf.array /\ SlotOf[s] \in buf.alive /\ SndKeeps(s)
             /\ BufKeeps /\ buf'.nonempty = buf.nonempty
    BY <1>6, <2>2, LockSlotEffect, BufferKept, Zenon DEF SndKeeps
  <2> QED BY <1>6, <2>1, <2>2, LockSlotEffect, Zenon
<1>7. ASSUME NEW s \in Senders, MarkNonempty(s)  PROVE BufferInv'
  <2>1. InSlot(s) /\ buf.installed
    BY <1>7, MarkNonemptyEffect, InSlotInstalled, Zenon DEF InSlot
  <2>2. snd[s].array = buf.array /\ SlotOf[s] \in buf.alive  BY <2>1 DEF BufferInv
  <2> QED BY <1>7, <2>1, <2>2, MarkNonemptyEffect, BufferKept, Zenon
<1>8. ASSUME NEW s \in Senders, RecheckMsgs(s)  PROVE BufferInv'
  <2>1. snd[s].array = buf.array /\ SlotOf[s] \in buf.alive
    BY <1>8, RecheckMsgsEffect, Zenon DEF BufferInv, InSlot
  <2>2. CASE UNCHANGED buf
    BY <1>8, <2>1, <2>2, RecheckMsgsEffect, BufferKept, Zenon DEF BufKeeps
  <2>3. CASE BufKeeps /\ buf'.nonempty = buf.nonempty
    BY <1>8, <2>1, <2>3, RecheckMsgsEffect, BufferKept, Zenon
  <2> QED BY <1>8, <2>2, <2>3, RecheckMsgsEffect, Zenon
<1>9. ASSUME NEW s \in Senders, EnqueueToSlot(s)  PROVE BufferInv'
  BY <1>9, EnqueueToSlotEffect, SlotsAssumption DEF BufferInv, Others, InSlot
<1>10. ASSUME NEW s \in Senders, LockMsgq(s)  PROVE BufferInv'
  <2>1. fl.pc = "off"  BY <1>10, LockMsgqEffect, Zenon DEF LockInv
  <2>2. CASE ~buf.installed /\ buf' = NewArray /\ snd'[s].pc = "link" /\ fl'.pc \in {"off", "msgs"}
    <3>1. \A t \in Senders : ~InSlot(t)'
      BY <1>10, <2>2, NoArray, LockMsgqEffect DEF Others, InSlot
    <3> QED BY <2>2, <3>1, NewArrayFields, Zenon DEF BufferInv
  <2>3. CASE buf' = buf
    BY <1>10, <2>1, <2>3, LockMsgqEffect DEF BufferInv, Others, InSlot
  <2> QED BY <1>10, <2>2, <2>3, LockMsgqEffect
<1>11. CASE ClearMsgs  BY <1>11, ClearMsgsEffect DEF BufferInv, BufKeeps, InSlot
<1>12. CASE TakeNonempty  BY <1>12, TakeNonemptyEffect DEF BufferInv, BufKeeps, InSlot
<1>13. CASE proc_sig_queue_flush_buffer
  BY <1>13, FlushSlotEffect DEF BufferInv, Emptied, InSlot
<1>14. CASE FlushRound
  BY <1>14, FlushRoundEffect DEF BufferInv, BufKeeps, InSlot
<1>15. CASE KillSlot
  BY <1>15, KillSlotEffect, Zenon DEF BufferInv, Emptied, InSlot, SlotFree
<1>16. CASE Uninstall  BY <1>16, UninstallEffect, Zenon DEF BufferInv, InSlot
<1>17. CASE ReceiverStep
  <2>1. CASE UNCHANGED fl  BY <1>17, <2>1, ReceiverFrame DEF BufferInv, InSlot
  <2>2. CASE erts_proc_sig_fetch
    BY <1>17, <2>2, ReceiverFrame, FetchEffect, Zenon DEF BufferInv, LockInv, InSlot
  <2>3. CASE ExitLocks \/ ChangeLocks
    BY <1>17, <2>3, ReceiverFrame, TakesLockEffect, Zenon DEF BufferInv, LockInv, InSlot
  <2> QED BY <1>17, <2>1, <2>2, <2>3, ReceiverFrame
<1> QED
  BY <1>1, <1>2, <1>3, <1>4, <1>5, <1>6, <1>7, <1>8, <1>9, <1>10, <1>11, <1>12, <1>13, <1>14,
     <1>15, <1>16, <1>17
  DEF Next, Sending, Flush, ReceiverStep

(***************************************************************************)
(* Every message in a buffer is announced.                                 *)
(***************************************************************************)
(* A step of s takes back no announcement. *)
LEMMA AnnounceKept ==
  ASSUME AnnounceInv, NEW s \in Senders, Others(s), Placed(s)',
         \A i \in Slots : Taken(i) => Taken(i)', \A i \in Slots : Announced(i) => Announced(i)',
         \A i \in Slots : buf'.queue[i] # <<>> => buf.queue[i] # <<>> \/ Announced(i)
  PROVE  AnnounceInv'
<1>1. SlotsAnnounced'  BY DEF AnnounceInv, SlotsAnnounced, Announced
<1>2. ASSUME NEW t \in Senders \ {s}  PROVE Placed(t)'
  BY <1>2, SlotsAssumption, Zenon DEF AnnounceInv, Placed, Others, At, InSlot
<1> QED BY <1>1, <1>2 DEF AnnounceInv

(* A step of s that touches no announcement. *)
LEMMA AnnounceFrame ==
  ASSUME AnnounceInv, NEW s \in Senders, Others(s), UNCHANGED <<buf, fl>>, Placed(s)'
  PROVE  AnnounceInv'
BY AnnounceKept DEF Taken, Announced

(* A slot is emptied: nobody is in it. *)
LEMMA AnnounceEmptied ==
  ASSUME TypeOK, BufferInv, AnnounceInv, NEW i \in Slots, Emptied(i), UNCHANGED snd
  PROVE  AnnounceInv'
<1>1. \A s \in Senders : InSlot(s) => SlotOf[s] # i  BY DEF Emptied, SlotFree, BufferInv
<1>2. SlotsAnnounced'  BY DEF AnnounceInv, SlotsAnnounced, Emptied
<1>3. ASSUME NEW s \in Senders  PROVE Placed(s)'
  BY <1>1 DEF AnnounceInv, Placed, Emptied, At, InSlot, Taken, Announced
<1> QED BY <1>2, <1>3 DEF AnnounceInv

(* Every step keeps AnnounceInv. *)
LEMMA AnnounceStep ==
  ASSUME TypeOK, LockInv, BufferInv, AnnounceInv, Next
  PROVE  AnnounceInv'
<1>1. ASSUME NEW s \in Senders, queue_messages(s)  PROVE AnnounceInv'
  BY <1>1, queue_messagesEffect, AnnounceFrame DEF AnnounceInv, Placed, At, InSlot, NoRestart
<1>2. ASSUME NEW s \in Senders, ReadState(s)  PROVE AnnounceInv'
  BY <1>2, ReadStateEffect, AnnounceFrame DEF AnnounceInv, Placed, At, InSlot, Announced
<1>3. ASSUME NEW s \in Senders,
             \/ WaitUntilReleased(s) \/ WaitForMsgq(s) \/ NotifyPremises(s)
             \/ erts_proc_notify_new_message(s)
      PROVE  AnnounceInv'
  BY <1>3, SenderMovesEffect, AnnounceFrame DEF AnnounceInv, Placed, At, InSlot, NoRestart
<1>4. ASSUME NEW s \in Senders, erts_schedule_process(s)  PROVE AnnounceInv'
  BY <1>4, erts_schedule_processEffect, AnnounceFrame
  DEF AnnounceInv, Placed, At, InSlot, NoRestart
<1>5. ASSUME NEW s \in Senders, LINK_MESSAGE(s)  PROVE AnnounceInv'
  BY <1>5, LINK_MESSAGEEffect, AnnounceFrame DEF AnnounceInv, Placed, At, InSlot, NoRestart
<1>6. ASSUME NEW s \in Senders, LockSlot(s)  PROVE AnnounceInv'
  <2>1. Placed(s)'
    BY <1>6, LockSlotEffect, Zenon DEF AnnounceInv, Placed, At, InSlot, NoRestart
  <2>2. CASE UNCHANGED buf  BY <1>6, <2>1, <2>2, LockSlotEffect, AnnounceFrame, Zenon
  <2>3. CASE BufKeeps /\ buf'.nonempty = buf.nonempty /\ buf'.msgs = TRUE
    BY <1>6, <2>1, <2>3, LockSlotEffect, AnnounceKept, Zenon DEF Taken, Announced, BufKeeps
  <2> QED BY <1>6, <2>2, <2>3, LockSlotEffect, Zenon
<1>7. ASSUME NEW s \in Senders, MarkNonempty(s)  PROVE AnnounceInv'
  <2>1. /\ \A i \in Slots : Taken(i) => Taken(i)'
        /\ \A i \in Slots : Announced(i) => Announced(i)'
    BY <1>7, MarkNonemptyEffect, Zenon DEF Taken, Announced
  <2>2. Placed(s)'
    BY <1>7, MarkNonemptyEffect, SlotsAssumption, Zenon
    DEF AnnounceInv, SlotsAnnounced, Placed, At, InSlot, Taken, Announced
  <2> QED BY <1>7, <2>1, <2>2, MarkNonemptyEffect, AnnounceKept, Zenon DEF BufKeeps
<1>8. ASSUME NEW s \in Senders, RecheckMsgs(s)  PROVE AnnounceInv'
  <2>1. Placed(s)'
    <3>1. Taken(SlotOf[s])  BY <1>8, RecheckMsgsEffect, Zenon DEF AnnounceInv, Placed, At
    <3>2. CASE buf.msgs /\ snd'[s].pc = "state" /\ UNCHANGED buf
      <4>1. Announced(SlotOf[s])'
        BY <1>8, <3>1, <3>2, RecheckMsgsEffect, Zenon DEF Taken, Announced
      <4> QED BY <3>2, <4>1 DEF Placed, At, InSlot
    <3>3. CASE snd'[s].pc = "nonempty" /\ BufKeeps /\ buf'.nonempty = buf.nonempty
      <4>1. Taken(SlotOf[s])'  BY <1>8, <3>1, <3>3, RecheckMsgsEffect, Zenon DEF Taken
      <4> QED BY <3>3, <4>1 DEF Placed, At, InSlot
    <3> QED BY <1>8, <3>2, <3>3, RecheckMsgsEffect, Zenon
  <2>2. CASE UNCHANGED buf  BY <1>8, <2>1, <2>2, RecheckMsgsEffect, AnnounceFrame, Zenon
  <2>3. CASE BufKeeps /\ buf'.nonempty = buf.nonempty /\ buf'.msgs = TRUE
    BY <1>8, <2>1, <2>3, RecheckMsgsEffect, AnnounceKept, Zenon DEF Taken, Announced, BufKeeps
  <2> QED BY <1>8, <2>2, <2>3, RecheckMsgsEffect, Zenon
<1>9. ASSUME NEW s \in Senders, EnqueueToSlot(s)  PROVE AnnounceInv'
  <2>1. Placed(s)'
    BY <1>9, EnqueueToSlotEffect DEF Placed, At, InSlot
  <2>2. Announced(SlotOf[s])  BY <1>9, EnqueueToSlotEffect DEF AnnounceInv, Placed, At
  <2> QED BY <1>9, <2>1, <2>2, EnqueueToSlotEffect, AnnounceKept DEF Taken, Announced
<1>10. ASSUME NEW s \in Senders, LockMsgq(s)  PROVE AnnounceInv'
  <2>1. fl.pc = "off" /\ fl.slots = {}  BY <1>10, LockMsgqEffect, Zenon DEF LockInv
  <2>2. CASE ~buf.installed /\ buf' = NewArray /\ snd'[s].pc = "link"
    <3>1. \A t \in Senders : ~InSlot(t)'
      BY <1>10, <2>2, NoArray, LockMsgqEffect DEF Others, InSlot
    <3>2. \A t \in Senders : ~snd'[t].restarted
      BY <1>10, <2>2, NoArray, LockMsgqEffect DEF Others, InSlot, AnnounceInv, Placed, NoRestart
    <3> QED BY <2>2, <3>1, <3>2, NewArrayFields
       DEF AnnounceInv, SlotsAnnounced, Placed, InSlot, At
  <2>3. CASE buf' = buf
    <3>1. Placed(s)'
      BY <1>10, LockMsgqEffect DEF AnnounceInv, Placed, At, InSlot, NoRestart
    <3> QED BY <1>10, <2>1, <2>3, <3>1, LockMsgqEffect, AnnounceKept DEF Taken, Announced
  <2> QED BY <1>10, <2>2, <2>3, LockMsgqEffect
<1>11. CASE ClearMsgs
  BY <1>11, ClearMsgsEffect, Zenon
  DEF LockInv, AnnounceInv, SlotsAnnounced, Placed, Taken, Announced, BufKeeps, InSlot, At
<1>12. CASE TakeNonempty
  BY <1>12, TakeNonemptyEffect, Zenon
  DEF LockInv, AnnounceInv, SlotsAnnounced, Placed, Taken, Announced, BufKeeps, InSlot, At
<1>13. CASE proc_sig_queue_flush_buffer  BY <1>13, FlushSlotEffect, AnnounceEmptied
<1>14. CASE FlushRound
  BY <1>14, FlushRoundEffect
  DEF AnnounceInv, SlotsAnnounced, Placed, Taken, Announced, BufKeeps, InSlot, At
<1>15. CASE KillSlot  BY <1>15, KillSlotEffect, AnnounceEmptied
<1>16. CASE Uninstall
  <2>1. /\ \A i \in Slots : buf.queue[i] = <<>>
        /\ \A s \in Senders : ~InSlot(s)
    BY <1>16, UninstallEffect DEF BufferInv
  <2> QED BY <1>16, <2>1, UninstallEffect
          DEF AnnounceInv, SlotsAnnounced, Placed, InSlot, At
<1>17. CASE ReceiverStep
  <2>1. CASE UNCHANGED fl
    BY <1>17, <2>1, ReceiverFrame
    DEF AnnounceInv, SlotsAnnounced, Placed, Taken, Announced, InSlot, At
  <2>2. CASE erts_proc_sig_fetch
    BY <1>17, <2>2, ReceiverFrame, FetchEffect, Zenon
    DEF LockInv, AnnounceInv, SlotsAnnounced, Placed, Taken, Announced, InSlot, At
  <2>3. CASE ExitLocks \/ ChangeLocks
    BY <1>17, <2>3, ReceiverFrame, TakesLockEffect, Zenon
    DEF LockInv, AnnounceInv, SlotsAnnounced, Placed, Taken, Announced, InSlot, At
  <2> QED BY <1>17, <2>1, <2>2, <2>3, ReceiverFrame
<1> QED
  BY <1>1, <1>2, <1>3, <1>4, <1>5, <1>6, <1>7, <1>8, <1>9, <1>10, <1>11, <1>12, <1>13, <1>14,
     <1>15, <1>16, <1>17
  DEF Next, Sending, Flush, ReceiverStep

(***************************************************************************)
(* When the process runs, and that it stays dead.                          *)
(***************************************************************************)
LEMMA RunFrame ==
  ASSUME RunInv, UNCHANGED <<state, rcv>>
  PROVE  RunInv'
BY Zenon DEF RunInv, RAt

(* ERTS_PSFLG_MSG_SIG_IN_Q is no matter to RunInv. *)
LEMMA RunMarked ==
  ASSUME RunInv, UNCHANGED rcv, state' = state \cup {"MSG_SIG_IN_Q"}
  PROVE  RunInv'
BY Zenon DEF RunInv, RAt

(* A notification cannot schedule a process that has been freed. *)
LEMMA RunActivate ==
  ASSUME TypeOK, RunInv, Activate, UNCHANGED rcv
  PROVE  RunInv'
BY ActivateEffect, Zenon DEF RunInv, RAt, Flags

(* The steps of a sender and of a flush. *)
LEMMA RunSender ==
  ASSUME TypeOK, RunInv, NEW s \in Senders, queue_messages(s) \/ Sending(s)
  PROVE  RunInv'
<1>1. CASE EnqueueToSlot(s)
  <2>1. CASE snd[s].mark  BY <1>1, <2>1, EnqueueToSlotEffect, RunMarked
  <2>2. CASE ~snd[s].mark  BY <1>1, <2>2, EnqueueToSlotEffect, RunFrame
  <2> QED BY <2>1, <2>2
<1>2. CASE LINK_MESSAGE(s)  BY <1>2, LINK_MESSAGEEffect, RunMarked
<1>3. CASE erts_schedule_process(s)  BY <1>3, erts_schedule_processEffect, RunActivate
<1>4. CASE UNCHANGED <<state, rcv>>  BY <1>4, RunFrame
<1> QED
  BY <1>1, <1>2, <1>3, <1>4, Zenon
  DEF Sending, queue_messages, LockSlot, MarkNonempty, RecheckMsgs, ReadState,
      WaitUntilReleased, erts_proc_notify_new_message, WaitForMsgq, LockMsgq, NotifyPremises

(* Every step keeps RunInv. *)
LEMMA RunStep ==
  ASSUME TypeOK, RunInv, RAt("match") => Peek, RAt("links") => save = 1, Next
  PROVE  RunInv'
<1>1. ASSUME NEW s \in Senders, queue_messages(s) \/ Sending(s)  PROVE RunInv'
  BY <1>1, RunSender
<1>2. CASE Flush
  BY <1>2, RunFrame, Zenon
  DEF Flush, ClearMsgs, TakeNonempty, proc_sig_queue_flush_buffer, FlushRound, KillSlot, Uninstall
<1> USE DEF RunInv, RAt
<1>3. CASE Preempt \/ i_loop_rec \/ RWaitForMsgq \/ ReadNonempty
  BY <1>3, ReceiverMovesEffect, Zenon
<1>4. CASE Receive  BY <1>4, ReceiveEffect, Zenon
<1>5. CASE erts_proc_sig_fetch  BY <1>5, FetchEffect, Zenon
<1>6. CASE Splice  BY <1>6, SpliceEffect, Zenon
<1>7. CASE ClearFlag  BY <1>7, ClearFlagEffect, Zenon
<1>8. CASE ResetFlag  BY <1>8, ResetFlagEffect, Zenon
<1>9. CASE PeekFetched  BY <1>9, PeekFetchedEffect, Zenon
<1>10. CASE remove_message  BY <1>10, remove_messageEffect, LeftEffect, Zenon
<1>11. CASE loop_rec_end
  <2>1. RAt("match")  BY <1>11 DEF loop_rec_end
  <2> QED BY <1>11, <2>1, loop_rec_endEffect, Zenon
<1>12. CASE wait  BY <1>12, waitEffect, Zenon
<1>13. CASE TestTimer  BY <1>13, TestTimerEffect, Zenon
<1>14. CASE Deactivate  BY <1>14, DeactivateEffect, Zenon
<1>15. CASE timeout  BY <1>15, timeoutEffect, LeftEffect, Zenon
<1>16. CASE schedule_out_process  BY <1>16, schedule_out_processEffect, Zenon DEF Flags
<1>17. CASE ScheduleIn  BY <1>17, ScheduleInEffect, Zenon
<1>18. CASE Timing  BY <1>18, TimingEffect, RunActivate, Zenon
<1>19. CASE set_self_exiting \/ SetFree  BY <1>19, ExitBeginsEffect, Zenon
<1>20. CASE ExitLocks \/ ChangeLocks  BY <1>20, TakesLockEffect, Zenon
<1>21. CASE ExitFetches  BY <1>21, ExitFetchesEffect, Zenon
<1>22. CASE delete_process
  <2>1. RAt("links")  BY <1>22 DEF delete_process
  <2> QED BY <1>22, <2>1, delete_processEffect, Zenon
<1>23. CASE ChangeSets \/ ChangeClears  BY <1>23, ChangeEffect, Zenon
<1>24. CASE WrongTime  BY <1>24, WrongTimeEffect, LeftEffect, Zenon
<1> QED
  BY <1>1, <1>2, <1>3, <1>4, <1>5, <1>6, <1>7, <1>8, <1>9, <1>10, <1>11, <1>12, <1>13, <1>14,
     <1>15, <1>16, <1>17, <1>18, <1>19, <1>20, <1>21, <1>22, <1>23, <1>24, Zenon
  DEF Next, Receiving, Scheduling, Exiting, Changing

(***************************************************************************)
(* The timer belongs to the receive that set it.                           *)
(***************************************************************************)
LEMMA TimerStep ==
  ASSUME TypeOK, TimerInv, RAt("match") => Peek, RAt("links") => save = 1, Next
  PROVE  TimerInv'
<1> USE DEF TimerInv, InReceive, RAt
<1>1. CASE UNCHANGED <<rcv, timer>>  BY <1>1, Zenon
<1>2. ASSUME NEW s \in Senders, queue_messages(s) \/ Sending(s)  PROVE TimerInv'
  BY <1>1, <1>2, Zenon
  DEF Sending, queue_messages, LockSlot, MarkNonempty, RecheckMsgs, ReadState, EnqueueToSlot,
      WaitUntilReleased, erts_proc_notify_new_message, erts_schedule_process, WaitForMsgq,
      LockMsgq, LINK_MESSAGE, NotifyPremises
<1>3. CASE Flush
  BY <1>1, <1>3, Zenon
  DEF Flush, ClearMsgs, TakeNonempty, proc_sig_queue_flush_buffer, FlushRound, KillSlot, Uninstall
<1>4. CASE Preempt \/ i_loop_rec \/ RWaitForMsgq \/ ReadNonempty
  BY <1>4, ReceiverMovesEffect, Zenon DEF RcvKeeps
<1>5. CASE Receive  BY <1>5, ReceiveEffect, Zenon
<1>6. CASE erts_proc_sig_fetch  BY <1>6, FetchEffect, Zenon
<1>7. CASE Splice  BY <1>7, SpliceEffect, Zenon DEF RcvKeeps
<1>8. CASE ClearFlag  BY <1>8, ClearFlagEffect, Zenon DEF RcvKeeps
<1>9. CASE ResetFlag  BY <1>9, ResetFlagEffect, Zenon DEF RcvKeeps
<1>10. CASE PeekFetched  BY <1>10, PeekFetchedEffect, Zenon
<1>11. CASE remove_message  BY <1>11, remove_messageEffect, LeftEffect, Zenon
<1>12. CASE loop_rec_end
  <2>1. RAt("match")  BY <1>12 DEF loop_rec_end
  <2> QED BY <1>12, <2>1, loop_rec_endEffect, Zenon DEF RcvKeeps
<1>13. CASE wait  BY <1>13, waitEffect, Zenon
<1>14. CASE TestTimer  BY <1>14, TestTimerEffect, Zenon DEF RcvKeeps
<1>15. CASE Deactivate  BY <1>15, DeactivateEffect, Zenon DEF RcvKeeps
<1>16. CASE timeout  BY <1>16, timeoutEffect, LeftEffect, Zenon
<1>17. CASE schedule_out_process  BY <1>17, schedule_out_processEffect, Zenon DEF RcvKeeps
<1>18. CASE ScheduleIn  BY <1>18, ScheduleInEffect, Zenon
<1>19. CASE Timing  BY <1>19, TimingEffect, Zenon
<1>20. CASE set_self_exiting \/ SetFree  BY <1>20, ExitBeginsEffect, Zenon DEF RcvKeeps
<1>21. CASE ExitLocks \/ ChangeLocks  BY <1>21, TakesLockEffect, Zenon DEF RcvKeeps
<1>22. CASE ExitFetches  BY <1>22, ExitFetchesEffect, Zenon DEF RcvKeeps
<1>23. CASE delete_process
  <2>1. RAt("links")  BY <1>23 DEF delete_process
  <2> QED BY <1>23, <2>1, delete_processEffect, Zenon DEF RcvKeeps
<1>24. CASE ChangeSets \/ ChangeClears  BY <1>24, ChangeEffect, Zenon DEF RcvKeeps
<1>25. CASE WrongTime  BY <1>25, WrongTimeEffect, LeftEffect, Zenon
<1> QED
  BY <1>2, <1>3, <1>4, <1>5, <1>6, <1>7, <1>8, <1>9, <1>10, <1>11, <1>12, <1>13, <1>14,
     <1>15, <1>16, <1>17, <1>18, <1>19, <1>20, <1>21, <1>22, <1>23, <1>24, <1>25, Zenon
  DEF Next, Receiving, Scheduling, Exiting, Changing

(***************************************************************************)
(* The save pointer has passed only what does not match.                   *)
(***************************************************************************)
LEMMA ScanFrame ==
  ASSUME ScanInv, UNCHANGED <<save, inner>>, rcv'.want = rcv.want,
         rcv'.pc # "match" \/ Peek, InReceive' <=> InReceive
  PROVE  ScanInv'
BY DEF ScanInv, RAt, Peek

(* Every step keeps ScanInv. *)
LEMMA ScanStep ==
  ASSUME TypeOK, ScanInv, Next
  PROVE  ScanInv'
<1>1. CASE UNCHANGED <<save, inner, rcv>>
  BY <1>1, ScanFrame, Zenon DEF ScanInv, InReceive, RAt
<1>2. ASSUME NEW s \in Senders, queue_messages(s) \/ Sending(s)  PROVE ScanInv'
  BY <1>1, <1>2, Zenon
  DEF Sending, queue_messages, LockSlot, MarkNonempty, RecheckMsgs, ReadState, EnqueueToSlot,
      WaitUntilReleased, erts_proc_notify_new_message, erts_schedule_process, WaitForMsgq,
      LockMsgq, LINK_MESSAGE, NotifyPremises, queues
<1>3. CASE Flush \/ Timing
  BY <1>1, <1>3, Zenon
 
     DEF Flush, ClearMsgs, TakeNonempty, proc_sig_queue_flush_buffer, FlushRound, KillSlot, Uninstall,
      Timing, TimerFires, TimerReads, TimerSchedules, queues
<1>4. CASE Preempt \/ i_loop_rec \/ RWaitForMsgq \/ ReadNonempty
  <2>1. (rcv'.pc # "match" \/ Peek) /\ (InReceive' <=> InReceive)
    BY <1>4, ReceiverMovesEffect, Zenon DEF InReceive
  <2>2. UNCHANGED <<save, inner>> /\ rcv'.want = rcv.want
    BY <1>4, ReceiverMovesEffect DEF RcvKeeps, queues
  <2> QED BY <2>1, <2>2, ScanFrame
<1>5. CASE Receive
  <2>1. rcv.pc = "idle" /\ rcv'.pc = "loop" /\ save' = save  BY <1>5, ReceiveEffect DEF queues
  <2>2. save' = 1  BY <2>1 DEF ScanInv, InReceive
  <2> QED BY <2>1, <2>2 DEF ScanInv, RAt, InReceive
<1>6. CASE erts_proc_sig_fetch  BY <1>6, FetchEffect, ScanFrame, Zenon DEF InReceive, queues
<1>7. CASE Splice
  <2>1. /\ inner \in Seq(Messages) /\ inq \in Seq(Messages) /\ save \in 1 .. (Len(inner) + 1)
    BY DEF TypeOK
  <2>2. \A j \in 1 .. (save - 1) : (inner \o inq)[j] = inner[j]  BY <2>1
  <2> QED BY <1>7, <2>2, SpliceEffect, Zenon DEF ScanInv, RAt, InReceive, RcvKeeps
<1>8. CASE ClearFlag  BY <1>8, ClearFlagEffect, ScanFrame, Zenon DEF RcvKeeps, InReceive, queues
<1>9. CASE ResetFlag  BY <1>9, ResetFlagEffect, ScanFrame, Zenon DEF RcvKeeps, InReceive, queues
<1>10. CASE PeekFetched  BY <1>10, PeekFetchedEffect, ScanFrame, Zenon DEF InReceive, queues
<1>11. CASE remove_message
  BY <1>11, remove_messageEffect, LeftEffect, Zenon DEF ScanInv, RAt, InReceive
<1>12. CASE loop_rec_end
  <2>1. RAt("match") /\ Peek  BY <1>12 DEF loop_rec_end, ScanInv
  <2>2. save \in Nat /\ save' = save + 1  BY <1>12, <2>1, loop_rec_endEffect DEF TypeOK
  <2>3. \A j \in 1 .. (save' - 1) : j \in 1 .. (save - 1) \/ j = save  BY <2>2
  <2> QED
    BY <1>12, <2>1, <2>3, loop_rec_endEffect, Zenon
    DEF ScanInv, RAt, InReceive, RcvKeeps, Matches
<1>13. CASE wait  BY <1>13, waitEffect, ScanFrame, Zenon DEF InReceive, queues
<1>14. CASE TestTimer
  BY <1>14, TestTimerEffect, ScanFrame, Zenon DEF RcvKeeps, InReceive, queues
<1>15. CASE Deactivate
  BY <1>15, DeactivateEffect, ScanFrame, Zenon DEF RcvKeeps, InReceive, queues
<1>16. CASE timeout  BY <1>16, timeoutEffect, LeftEffect, Zenon DEF ScanInv, RAt, InReceive
<1>17. CASE schedule_out_process
  BY <1>17, schedule_out_processEffect, ScanFrame, Zenon DEF RcvKeeps, InReceive, queues
<1>18. CASE ScheduleIn  BY <1>18, ScheduleInEffect, ScanFrame, Zenon DEF InReceive, queues
<1>19. CASE set_self_exiting \/ SetFree
  BY <1>19, ExitBeginsEffect, ScanFrame, Zenon DEF RcvKeeps, InReceive, queues
<1>20. CASE ExitLocks \/ ChangeLocks
  BY <1>20, TakesLockEffect, ScanFrame, Zenon DEF RcvKeeps, InReceive, queues
<1>21. CASE ExitFetches  BY <1>21, ExitFetchesEffect, Zenon DEF ScanInv, RAt, InReceive
<1>22. CASE delete_process
  <2>1. save = 1  BY <1>22 DEF delete_process, ScanInv, RAt, InReceive
  <2> QED BY <1>22, <2>1, delete_processEffect, Zenon DEF ScanInv, RAt, InReceive
<1>23. CASE ChangeSets \/ ChangeClears
  BY <1>23, ChangeEffect, ScanFrame, Zenon DEF RcvKeeps, InReceive, queues
<1>24. CASE WrongTime  BY <1>24, WrongTimeEffect, LeftEffect, Zenon DEF ScanInv, RAt, InReceive
<1> QED
  BY <1>2, <1>3, <1>4, <1>5, <1>6, <1>7, <1>8, <1>9, <1>10, <1>11, <1>12, <1>13, <1>14,
     <1>15, <1>16, <1>17, <1>18, <1>19, <1>20, <1>21, <1>22, <1>23, <1>24
  DEF Next, Receiving, Scheduling, Exiting, Changing

(***************************************************************************)
(* The flag covers the outer queue and the buffers.                        *)
(***************************************************************************)
(* With the lock held and nothing being flushed, whatever is outside of the    *)
(* inner queue has been announced.                                             *)
LEMMA OutsideAnnounced ==
  ASSUME TypeOK, LockInv, AnnounceInv, fl.pc = "off", inq = <<>>, Outside
  PROVE  buf.nonempty # {} /\ buf.msgs
<1>1. fl.slots = {}  BY DEF LockInv
<1>2. CASE \E i \in Slots : buf.queue[i] # <<>>
  BY <1>1, <1>2 DEF AnnounceInv, SlotsAnnounced
<1>3. CASE \E s \in Senders : At(s, "enqueue")
  BY <1>1, <1>3 DEF AnnounceInv, Placed, Announced
<1> QED BY <1>2, <1>3 DEF Outside, QueuesEmpty

(* Without an array only the outer queue counts. *)
LEMMA OutsideInstalled ==
  ASSUME TypeOK, BufferInv, ~buf.installed, inq = <<>>
  PROVE  ~Outside
BY NoArray DEF Outside, QueuesEmpty, At, InSlot

(* A step that puts no message outside and does not clear the flag. *)
LEMMA FlagFrame ==
  ASSUME FlagInv, Outside' => Outside, UNCHANGED <<inq, buf, rcv, fl>>,
         "MSG_SIG_IN_Q" \in state => "MSG_SIG_IN_Q" \in state'
  PROVE  FlagInv'
BY Zenon DEF FlagInv, RAt

(* A step of a sender other than the last one before it enqueues. *)
LEMMA OutsideKept ==
  ASSUME NEW s \in Senders, Others(s), UNCHANGED inq,
         \A i \in Slots : buf'.queue[i] = buf.queue[i],
         snd'[s].pc # "enqueue"
  PROVE  Outside' => Outside
BY DEF Outside, QueuesEmpty, Others, At

(* A slot is emptied into the outer queue. *)
LEMMA OutsideEmptied ==
  ASSUME TypeOK, NEW i \in Slots, Emptied(i), UNCHANGED snd
  PROVE  Outside' => Outside
<1>1. inq \in Seq(Messages) /\ buf.queue[i] \in Seq(Messages)  BY DEF TypeOK, BufferArray
<1>2. inq = <<>> /\ buf.queue[i] = <<>> => inq' = <<>>  BY <1>1 DEF Emptied
<1> QED BY <1>2 DEF Emptied, Outside, QueuesEmpty, At

(* A sender keeps FlagInv. *)
LEMMA FlagSender ==
  ASSUME TypeOK, LockInv, BufferInv, AnnounceInv, FlagInv,
         NEW s \in Senders, queue_messages(s) \/ Sending(s)
  PROVE  FlagInv'
<1>1. CASE queue_messages(s)
  BY <1>1, queue_messagesEffect, OutsideKept, FlagFrame, Zenon DEF queues
<1>2. CASE LockSlot(s)
  <2>1. Outside' => Outside
    BY <1>2, LockSlotEffect, OutsideKept, Zenon DEF queues, BufKeeps
  <2> QED BY <1>2, <2>1, LockSlotEffect, Zenon DEF FlagInv, RAt, queues, BufKeeps
<1>3. CASE MarkNonempty(s)
  <2>1. Outside' => Outside
    BY <1>3, MarkNonemptyEffect, OutsideKept, Zenon DEF queues, BufKeeps
  <2> QED BY <1>3, <2>1, MarkNonemptyEffect, Zenon DEF FlagInv, RAt, queues, BufKeeps
<1>4. CASE RecheckMsgs(s)
  <2>1. Outside' => Outside
    BY <1>4, RecheckMsgsEffect, OutsideKept, Zenon DEF queues, BufKeeps
  <2> QED BY <1>4, <2>1, RecheckMsgsEffect, Zenon DEF FlagInv, RAt, queues, BufKeeps
<1>5. CASE ReadState(s)
  <2>1. Outside' => Outside \/ "MSG_SIG_IN_Q" \in state
    BY <1>5, ReadStateEffect, Zenon DEF Outside, QueuesEmpty, Others, At, queues
  <2> QED BY <1>5, <2>1, ReadStateEffect, Zenon DEF FlagInv, RAt, queues
<1>6. CASE EnqueueToSlot(s)
  <2>1. Outside' => "MSG_SIG_IN_Q" \in state' \/ rcv.pc \in {"raced", "reset"}
    <3>1. CASE snd[s].mark  BY <1>6, <3>1, EnqueueToSlotEffect, Zenon
    <3>2. CASE ~snd[s].mark
      BY <1>6, <3>2, EnqueueToSlotEffect, Zenon DEF FlagInv, Outside, At
    <3> QED BY <3>1, <3>2
  <2> QED BY <1>6, <2>1, EnqueueToSlotEffect, Zenon DEF FlagInv, RAt, queues
<1>7. CASE \/ WaitUntilReleased(s) \/ WaitForMsgq(s) \/ NotifyPremises(s)
           \/ erts_proc_notify_new_message(s)
  BY <1>7, SenderMovesEffect, OutsideKept, FlagFrame DEF queues
<1>8. CASE erts_schedule_process(s)
  <2>1. "MSG_SIG_IN_Q" \in state' <=> "MSG_SIG_IN_Q" \in state
    BY <1>8, erts_schedule_processEffect, ActivateEffect DEF Flags
  <2> QED BY <1>8, <2>1, erts_schedule_processEffect, OutsideKept, FlagFrame, Zenon DEF queues
<1>9. CASE LockMsgq(s)
  <2>1. rcv.pc \notin {"splice", "clear", "raced", "reset", "peek", "wait", "sleep", "deactivate",
                      "last fetch", "change"}
    BY <1>9, LockMsgqEffect, ThreadsAssumption, Zenon DEF LockInv, Holding
  <2>2. \A i \in Slots : buf'.queue[i] = buf.queue[i]
    BY <1>9, LockMsgqEffect, NewArrayFields, NoArray
  <2>3. Outside' => Outside  BY <1>9, <2>2, LockMsgqEffect, OutsideKept, Zenon DEF queues
  <2> QED BY <1>9, <2>1, <2>3, LockMsgqEffect, Zenon DEF FlagInv, RAt
<1>10. CASE LINK_MESSAGE(s)
  <2>1. rcv.pc \notin {"splice", "clear", "raced", "reset", "peek", "wait", "sleep", "deactivate",
                      "last fetch", "change"}
    BY <1>10, LINK_MESSAGEEffect, ThreadsAssumption, Zenon DEF LockInv, Holding, At
  <2> QED BY <1>10, <2>1, LINK_MESSAGEEffect, Zenon DEF FlagInv, RAt
<1> QED
  BY <1>1, <1>2, <1>3, <1>4, <1>5, <1>6, <1>7, <1>8, <1>9, <1>10 DEF Sending

(* A flush keeps FlagInv. *)
LEMMA FlagFlush ==
  ASSUME TypeOK, LockInv, FlagInv, Flush
  PROVE  FlagInv'
<1>1. fl.pc # "off" =>
        rcv.pc \notin {"clear", "raced", "reset", "peek", "wait", "sleep", "deactivate"}
  BY Zenon DEF LockInv, Holding
<1>2. CASE ClearMsgs
  <2>1. Outside' => Outside
    BY <1>2, ClearMsgsEffect DEF Outside, QueuesEmpty, At, queues, BufKeeps
  <2> QED BY <1>2, <2>1, ClearMsgsEffect, Zenon DEF FlagInv, RAt, queues, BufKeeps
<1>3. CASE TakeNonempty
  <2>1. Outside' => Outside
    BY <1>3, TakeNonemptyEffect DEF Outside, QueuesEmpty, At, queues, BufKeeps
  <2> QED BY <1>3, <2>1, TakeNonemptyEffect, Zenon DEF FlagInv, RAt, queues, BufKeeps
<1>4. CASE proc_sig_queue_flush_buffer
  <2>1. Outside' => Outside  BY <1>4, FlushSlotEffect, OutsideEmptied
  <2> QED BY <1>1, <1>4, <2>1, FlushSlotEffect, Zenon DEF FlagInv, RAt, Emptied
<1>5. CASE FlushRound
  <2>1. Outside' => Outside
    BY <1>5, FlushRoundEffect DEF Outside, QueuesEmpty, At, queues, BufKeeps
  <2> QED BY <1>5, <2>1, FlushRoundEffect, Zenon DEF FlagInv, RAt, queues, BufKeeps
<1>6. CASE KillSlot
  <2>1. Outside' => Outside  BY <1>6, KillSlotEffect, OutsideEmptied
  <2> QED BY <1>1, <1>6, <2>1, KillSlotEffect, Zenon DEF FlagInv, RAt, Emptied
<1>7. CASE Uninstall
  <2>1. Outside' => Outside  BY <1>7, UninstallEffect DEF Outside, QueuesEmpty, At, queues
  <2> QED BY <1>7, <2>1, UninstallEffect, Zenon DEF FlagInv, RAt, queues
<1> QED BY <1>2, <1>3, <1>4, <1>5, <1>6, <1>7 DEF Flush

(* The receiver goes on with the flag as it is. *)
LEMMA FlagMoves ==
  ASSUME FlagInv, Outside' => Outside, UNCHANGED <<buf, fl>>,
         "MSG_SIG_IN_Q" \in state => "MSG_SIG_IN_Q" \in state',
         rcv.pc \notin {"raced", "reset"},
         rcv'.pc \in {"peek", "wait", "sleep", "deactivate"} => inq' = <<>>,
         rcv'.pc \notin {"splice", "clear", "raced", "reset", "last fetch", "change"}
  PROVE  FlagInv'
BY Zenon DEF FlagInv, RAt

(* Every step keeps FlagInv. *)
LEMMA FlagStep ==
  ASSUME TypeOK, LockInv, BufferInv, AnnounceInv, FlagInv,
         RAt("match") => Peek, RAt("links") => save = 1, Next
  PROVE  FlagInv'
<1>1. ASSUME NEW s \in Senders, queue_messages(s) \/ Sending(s)  PROVE FlagInv'
  BY <1>1, FlagSender
<1>2. CASE Flush  BY <1>2, FlagFlush
<1>3. ASSUME ReceiverStep, inq' = inq \/ inq' = <<>>  PROVE Outside' => Outside
  BY <1>3, ReceiverFrame DEF Outside, QueuesEmpty, At
<1>4. Holding /\ rcv.pc \notin {"splice", "last fetch", "change"} => fl.pc = "off"
  BY Zenon DEF LockInv
<1>5. CASE Preempt \/ i_loop_rec \/ RWaitForMsgq \/ ReadNonempty
  <2>1. Outside' => Outside
    BY <1>3, <1>5, ReceiverMovesEffect DEF ReceiverStep, Receiving, queues
  <2>2. CASE rcv.pc = "raced" /\ buf.nonempty = {} /\ rcv'.pc = "peek"
    <3>1. ~Outside
      BY <1>4, <2>2, OutsideAnnounced, Zenon DEF FlagInv, Holding
    <3> QED BY <1>5, <2>1, <2>2, <3>1, ReceiverMovesEffect DEF FlagInv, RAt, queues
  <2>3. CASE rcv.pc = "raced" /\ rcv'.pc = "reset"
    BY <1>5, <2>1, <2>3, ReceiverMovesEffect DEF FlagInv, RAt, queues
  <2>4. CASE rcv.pc \in {"loop", "lock"} /\ rcv'.pc \in {"out", "lock", "match", "blocked"}
    BY <1>5, <2>1, <2>4, ReceiverMovesEffect, FlagMoves, Zenon
  <2> QED BY <1>5, <2>2, <2>3, <2>4, ReceiverMovesEffect
<1>6. CASE Receive
  BY <1>3, <1>6, ReceiveEffect, FlagMoves, Zenon DEF ReceiverStep, queues
<1>7. CASE erts_proc_sig_fetch
  <2>1. Outside' => Outside  BY <1>3, <1>7, FetchEffect DEF ReceiverStep, Receiving, queues
  <2> QED BY <1>7, <2>1, FetchEffect, Zenon DEF FlagInv, RAt, queues
<1>8. CASE Splice
  <2>1. Outside' => Outside  BY <1>3, <1>8, SpliceEffect DEF ReceiverStep, Receiving
  <2> QED BY <1>8, <2>1, SpliceEffect, Zenon DEF FlagInv, RAt, RcvKeeps
<1>9. CASE ClearFlag
  <2>1. Outside' => Outside  BY <1>3, <1>9, ClearFlagEffect DEF ReceiverStep, Receiving, queues
  <2>2. CASE rcv.buffers
    BY <1>9, <2>1, <2>2, ClearFlagEffect, Zenon DEF FlagInv, RAt, queues
  <2>3. CASE ~rcv.buffers
    <3>1. ~Outside  BY <1>9, <2>3, ClearFlagEffect, OutsideInstalled, Zenon DEF FlagInv
    <3> QED BY <1>9, <2>1, <2>3, <3>1, ClearFlagEffect, Zenon DEF FlagInv, RAt, queues
  <2> QED BY <2>2, <2>3
<1>10. CASE ResetFlag
  <2>1. Outside' => Outside  BY <1>3, <1>10, ResetFlagEffect DEF ReceiverStep, Receiving, queues
  <2>2. Outside => buf.msgs
    BY <1>4, <1>10, ResetFlagEffect, OutsideAnnounced, Zenon DEF FlagInv, Holding
  <2> QED BY <1>10, <2>1, <2>2, ResetFlagEffect, Zenon DEF FlagInv, RAt, queues
<1>11. CASE PeekFetched
  <2>1. Outside' => Outside
    BY <1>3, <1>11, PeekFetchedEffect DEF ReceiverStep, Receiving, queues
  <2> QED BY <1>11, <2>1, PeekFetchedEffect, FlagMoves, Zenon DEF FlagInv, queues
<1>12. CASE remove_message
  BY <1>3, <1>12, remove_messageEffect, LeftEffect, FlagMoves, Zenon DEF ReceiverStep, Receiving
<1>13. CASE loop_rec_end
  <2>1. RAt("match")  BY <1>13 DEF loop_rec_end
  <2> QED BY <1>3, <1>13, <2>1, loop_rec_endEffect, FlagMoves, Zenon DEF ReceiverStep, Receiving
<1>14. CASE wait
  <2>1. Outside' => Outside
    BY <1>3, <1>14, waitEffect, Zenon DEF ReceiverStep, Receiving, queues
  <2> QED BY <1>14, <2>1, waitEffect, FlagMoves, Zenon DEF FlagInv, queues
<1>15. CASE TestTimer
  <2>1. Outside' => Outside  BY <1>3, <1>15, TestTimerEffect DEF ReceiverStep, Receiving, queues
  <2> QED BY <1>15, <2>1, TestTimerEffect, FlagMoves, Zenon DEF FlagInv, queues
<1>16. CASE Deactivate
  BY <1>3, <1>16, DeactivateEffect, FlagMoves, Zenon DEF ReceiverStep, Receiving, queues
<1>17. CASE timeout
  BY <1>3, <1>17, timeoutEffect, LeftEffect, FlagMoves, Zenon DEF ReceiverStep, Receiving
<1>18. CASE schedule_out_process
  <2>1. "MSG_SIG_IN_Q" \in state' <=> "MSG_SIG_IN_Q" \in state
    BY <1>18, schedule_out_processEffect DEF Flags
  <2> QED BY <1>3, <1>18, <2>1, schedule_out_processEffect, FlagMoves, Zenon
          DEF ReceiverStep, Scheduling, queues
<1>19. CASE ScheduleIn
  BY <1>3, <1>19, ScheduleInEffect, FlagMoves, Zenon DEF ReceiverStep, Scheduling, queues
<1>20. CASE Timing
  <2>1. "MSG_SIG_IN_Q" \in state' <=> "MSG_SIG_IN_Q" \in state
    BY <1>20, TimingEffect, ActivateEffect DEF Flags
  <2> QED BY <1>3, <1>20, <2>1, TimingEffect, FlagFrame DEF ReceiverStep, queues
<1>21. CASE set_self_exiting \/ SetFree
  BY <1>3, <1>21, ExitBeginsEffect, FlagMoves, Zenon DEF ReceiverStep, Exiting, queues
<1>22. CASE ExitLocks \/ ChangeLocks
  <2>1. Outside' => Outside
    BY <1>3, <1>22, TakesLockEffect, Zenon DEF ReceiverStep, Exiting, Changing, queues
  <2> QED BY <1>22, <2>1, TakesLockEffect, Zenon DEF FlagInv, RAt
<1>23. CASE ExitFetches
  <2>1. ~buf'.installed /\ inq' = <<>>  BY <1>23, ExitFetchesEffect, Zenon DEF FlagInv, RAt
  <2>2. ~Outside'
    BY <1>23, <2>1, ExitFetchesEffect, NoArray, Zenon DEF Outside, QueuesEmpty, At, InSlot
  <2> QED BY <1>23, <2>2, ExitFetchesEffect, Zenon DEF FlagInv, RAt
<1>24. CASE delete_process
  <2>1. RAt("links")  BY <1>24 DEF delete_process
  <2> QED BY <1>3, <1>24, <2>1, delete_processEffect, FlagMoves, Zenon DEF ReceiverStep, Exiting
<1>25. CASE ChangeSets \/ ChangeClears
  BY <1>3, <1>25, ChangeEffect, FlagMoves, Zenon DEF ReceiverStep, Changing, queues
<1>26. CASE WrongTime
  BY <1>3, <1>26, WrongTimeEffect, LeftEffect, FlagMoves, Zenon DEF ReceiverStep, Receiving
<1> QED
  BY <1>1, <1>2, <1>5, <1>6, <1>7, <1>8, <1>9, <1>10, <1>11, <1>12, <1>13, <1>14, <1>15,
     <1>16, <1>17, <1>18, <1>19, <1>20, <1>21, <1>22, <1>23, <1>24, <1>25, <1>26
  DEF Next, Receiving, Scheduling, Exiting, Changing

(***************************************************************************)
(* A receiver that goes to sleep is woken.                                 *)
(***************************************************************************)
(* The receiver and the flush stay where they are. *)
LEMMA SleepFrame ==
  ASSUME LockInv, SleepInv, UNCHANGED <<inner, save, fl, rcv>>,
         Holding /\ Fresh => Fresh' \/ (fl.slots # {} /\ Found'),
         Holding /\ Found => Found',
         "ACTIVE" \notin state' =>
           "ACTIVE" \notin state /\ (QueuesEmpty \/ Woken => QueuesEmpty' \/ Woken')
  PROVE  SleepInv'
<1>1. rcv.pc \in {"clear", "raced", "reset", "peek", "wait", "sleep", "deactivate"} =>
        Holding /\ fl.slots = {}
  BY Zenon DEF LockInv, Holding
<1>2. RAt("splice") => Holding  BY DEF RAt, Holding
<1>3. Peek' <=> Peek  BY DEF Peek
<1> QED BY <1>1, <1>2, <1>3 DEF SleepInv, RAt

(* A sender on its way keeps what the receiver relies on. *)
LEMMA FreshKept ==
  ASSUME NEW s \in Senders, Others(s), buf'.nonempty = buf.nonempty,
         First(s) \/ At(s, "released") => First(s)' \/ At(s, "released")'
  PROVE  Fresh => Fresh'
BY DEF Fresh, First, Others, At

(* A sender takes nothing away that the flush under way will find. *)
LEMMA FoundKept ==
  ASSUME NEW s \in Senders, Others(s), UNCHANGED <<inq, inner, save, fl>>,
         \A i \in Slots : buf.queue[i] # <<>> => buf'.queue[i] # <<>>,
         TypeOK, InSlot(s) => InSlot(s)' \/ buf'.queue[SlotOf[s]] # <<>>
  PROVE  Found => Found'
<1>1. Peek' <=> Peek  BY DEF Peek
<1>2. fl.slots \subseteq Slots  BY DEF TypeOK, FlushState
<1> QED BY <1>1, <1>2 DEF Found, Others, InSlot

(* The sender that is to wake the receiver goes on to do so. *)
LEMMA WokenKept ==
  ASSUME NEW s \in Senders, Others(s),
         First(s) \/ snd[s].pc \in {"released", "notify", "schedule"} =>
           First(s)' \/ snd'[s].pc \in {"released", "notify", "schedule"}
  PROVE  Woken => Woken'
BY DEF Woken, First, Others, At

(* A sender that goes from one place outside of its slot to another. *)
LEMMA SleepOutside ==
  ASSUME TypeOK, LockInv, SleepInv, NEW s \in Senders, Others(s),
         UNCHANGED <<inq, inner, save, buf, fl, rcv>>,
         ~InSlot(s), ~InSlot(s)', ~At(s, "released"),
         state' = state, ~At(s, "schedule"),
         At(s, "notify") => "ACTIVE" \in state \/ At(s, "schedule")'
  PROVE  SleepInv'
<1>1. Fresh => Fresh'  BY FreshKept DEF First, At, InSlot
<1>2. Found => Found'  BY FoundKept
<1>3. QueuesEmpty => QueuesEmpty'  BY DEF QueuesEmpty
<1>4. "ACTIVE" \notin state => (Woken => Woken')
  BY WokenKept DEF First, At, InSlot
<1> QED BY <1>1, <1>2, <1>3, <1>4, SleepFrame

(* A message is announced: the first one waits for the receiver. *)
LEMMA SleepMark ==
  ASSUME TypeOK, LockInv, AnnounceInv, SleepInv, NEW s \in Senders, MarkNonempty(s)
  PROVE  SleepInv'
<1>1. /\ snd[s].pc = "nonempty" /\ snd'[s].pc \in {"state", "recheck"}
      /\ Others(s) /\ BufKeeps /\ UNCHANGED <<state, inq, inner, save, fl, rcv>>
  BY MarkNonemptyEffect, Zenon DEF queues
<1>2. First(s) => First(s)'
  BY MarkNonemptyEffect, Zenon DEF First, At
<1>3. Found => Found'  BY <1>1, FoundKept DEF BufKeeps, InSlot
<1>4. Woken => Woken'  BY <1>1, <1>2, WokenKept
<1>5. QueuesEmpty => QueuesEmpty'  BY <1>1 DEF QueuesEmpty, BufKeeps
<1>6. ASSUME Fresh  PROVE Fresh' \/ (fl.slots # {} /\ Found')
  <2>1. CASE \E t \in Senders : First(t) \/ At(t, "released")
    <3>1. PICK t \in Senders : First(t) \/ At(t, "released")  BY <2>1
    <3>2. CASE t = s  BY <1>1, <1>2, <3>1, <3>2 DEF Fresh, At
    <3>3. CASE t # s  BY <1>1, <3>1, <3>3 DEF Fresh, First, Others, At
    <3> QED BY <3>2, <3>3
  <2>2. CASE buf.nonempty = {} /\ buf.queue[SlotOf[s]] # <<>>
    BY <2>2, MarkNonemptyEffect, Zenon DEF Fresh
  <2>3. CASE buf.nonempty = {} /\ buf.queue[SlotOf[s]] = <<>>
    <3>1. CASE snd[s].restarted
      <4>1. SlotOf[s] \in fl.slots
        BY <1>1, <2>3, <3>1 DEF AnnounceInv, Placed, Taken, At
      <4> QED BY <1>1, <4>1 DEF Found, InSlot
    <3>2. CASE ~snd[s].restarted
      BY <1>1, <2>3, <3>2, MarkNonemptyEffect, Zenon DEF Fresh, First, At
    <3> QED BY <3>1, <3>2
  <2> QED BY <1>6, <2>1, <2>2, <2>3 DEF Fresh
<1> QED BY <1>1, <1>3, <1>4, <1>5, <1>6, SleepFrame

(* A sender keeps SleepInv. *)
LEMMA SleepSender ==
  ASSUME TypeOK, LockInv, BufferInv, AnnounceInv, SleepInv, RunInv,
         NEW s \in Senders, queue_messages(s) \/ Sending(s)
  PROVE  SleepInv'
<1>1. CASE queue_messages(s)
  BY <1>1, queue_messagesEffect, SleepOutside DEF queues, InSlot, At
<1>2. CASE LockSlot(s)
  <2>1. CASE UNCHANGED buf /\ snd'[s].pc = "lock"
    BY <1>2, <2>1, LockSlotEffect, SleepOutside, Zenon DEF queues, InSlot, At
  <2>2. CASE snd'[s].pc = "nonempty" /\ BufKeeps /\ buf'.nonempty = buf.nonempty
    <3>1. ~First(s) /\ ~At(s, "released")  BY <1>2, LockSlotEffect, Zenon DEF First, At
    <3>2. Fresh => Fresh'  BY <1>2, <2>2, <3>1, LockSlotEffect, FreshKept, Zenon
    <3>3. Found => Found'
      BY <1>2, <2>2, LockSlotEffect, FoundKept, Zenon DEF queues, BufKeeps, InSlot
    <3>4. Woken => Woken'  BY <1>2, <3>1, LockSlotEffect, WokenKept, Zenon
    <3>5. QueuesEmpty => QueuesEmpty'
      BY <1>2, <2>2, LockSlotEffect, Zenon DEF QueuesEmpty, BufKeeps, queues
    <3> QED BY <1>2, <3>2, <3>3, <3>4, <3>5, LockSlotEffect, SleepFrame, Zenon DEF queues
  <2> QED BY <1>2, <2>1, <2>2, LockSlotEffect, Zenon
<1>3. CASE MarkNonempty(s)  BY <1>3, SleepMark
<1>4. CASE RecheckMsgs(s) \/ ReadState(s)
  <2>1. /\ Others(s) /\ buf'.nonempty = buf.nonempty /\ buf'.queue = buf.queue
        /\ UNCHANGED <<state, inq, inner, save, fl, rcv>>
    BY <1>4, RecheckMsgsEffect, ReadStateEffect, Zenon DEF queues, BufKeeps
  <2>2. /\ InSlot(s)' /\ ~At(s, "released") /\ snd[s].pc \notin {"notify", "schedule"}
        /\ First(s) => First(s)'
    BY <1>4, RecheckMsgsEffect, ReadStateEffect, Zenon DEF InSlot, First, At
  <2>3. Fresh => Fresh'  BY <2>1, <2>2, FreshKept
  <2>4. Found => Found'  BY <2>1, <2>2, FoundKept
  <2>5. Woken => Woken'  BY <2>1, <2>2, WokenKept DEF At
  <2>6. QueuesEmpty => QueuesEmpty'  BY <2>1 DEF QueuesEmpty
  <2> QED BY <2>1, <2>3, <2>4, <2>5, <2>6, SleepFrame
<1>5. CASE EnqueueToSlot(s)
  <2>1. /\ Others(s) /\ buf'.nonempty = buf.nonempty
        /\ UNCHANGED <<inq, inner, save, fl, rcv>>
        /\ "ACTIVE" \in state => "ACTIVE" \in state'
    BY <1>5, EnqueueToSlotEffect DEF queues
  <2>2. Fresh => Fresh'
    <3>1. First(s) => snd'[s].pc = "released"  BY <1>5, EnqueueToSlotEffect DEF First
    <3>2. ~At(s, "released")  BY <1>5, EnqueueToSlotEffect DEF At
    <3> QED BY <2>1, <3>1, <3>2, FreshKept DEF At
  <2>3. Found => Found'
    <3>1. \A i \in Slots : buf.queue[i] # <<>> => buf'.queue[i] # <<>>
      BY <1>5, EnqueueToSlotEffect, SlotsAssumption, Zenon
    <3> QED BY <1>5, <2>1, <3>1, EnqueueToSlotEffect, FoundKept
  <2>4. Woken'  BY <1>5, EnqueueToSlotEffect DEF Woken
  <2> QED BY <2>1, <2>2, <2>3, <2>4, SleepFrame
<1>6. CASE \/ WaitUntilReleased(s) \/ WaitForMsgq(s) \/ NotifyPremises(s)
           \/ erts_proc_notify_new_message(s)
  <2>1. CASE snd[s].pc = "released" /\ msgq = NoOne /\ snd'[s].pc = "notify"
    <3>1. ~Holding  BY <2>1, ThreadsAssumption, Zenon DEF LockInv
    <3>2. Woken'  BY <2>1 DEF Woken
    <3> QED BY <1>6, <3>1, <3>2, SenderMovesEffect, SleepFrame DEF queues
  <2>2. CASE snd[s].pc # "released"
    BY <1>6, <2>2, SenderMovesEffect, SleepOutside DEF queues, InSlot, At
  <2> QED BY <1>6, <2>1, <2>2, SenderMovesEffect
<1>7. CASE erts_schedule_process(s)
  <2>1. /\ Others(s) /\ UNCHANGED <<inq, inner, save, buf, fl, rcv>>
        /\ ~InSlot(s) /\ ~InSlot(s)' /\ ~First(s) /\ ~At(s, "released")
    BY <1>7, erts_schedule_processEffect DEF queues, InSlot, First, At
  <2>2. Fresh => Fresh'  BY <2>1, FreshKept
  <2>3. Found => Found'  BY <2>1, FoundKept
  <2>4. CASE "ACTIVE" \in state'
    BY <2>1, <2>2, <2>3, <2>4, SleepFrame
  <2>5. CASE "ACTIVE" \notin state'
    <3>1. rcv.pc \in {"free", "last fetch", "links", "gone"}
      BY <1>7, <2>5, erts_schedule_processEffect, ActivateEffect, Zenon DEF RunInv
    <3> QED BY <2>1, <3>1, Zenon DEF SleepInv, RAt
  <2> QED BY <2>4, <2>5
<1>8. CASE LockMsgq(s)
  <2>1. ~Holding  BY <1>8, LockMsgqEffect, ThreadsAssumption, Zenon DEF LockInv
  <2>2. \A i \in Slots : buf'.queue[i] = buf.queue[i]
    BY <1>8, LockMsgqEffect, NewArrayFields, NoArray
  <2>3. QueuesEmpty => QueuesEmpty'  BY <1>8, <2>2, LockMsgqEffect DEF QueuesEmpty, queues
  <2>4. Woken => Woken'  BY <1>8, LockMsgqEffect, WokenKept DEF First, At
  <2> QED BY <1>8, <2>1, <2>3, <2>4, LockMsgqEffect, Zenon DEF SleepInv, RAt, Holding
<1>9. CASE LINK_MESSAGE(s)
  <2>1. ~Holding  BY <1>9, LINK_MESSAGEEffect, ThreadsAssumption, Zenon DEF LockInv, At
  <2>2. Woken'  BY <1>9, LINK_MESSAGEEffect DEF Woken
  <2> QED BY <1>9, <2>1, <2>2, LINK_MESSAGEEffect, Zenon DEF SleepInv, RAt, Holding
<1> QED BY <1>1, <1>2, <1>3, <1>4, <1>5, <1>6, <1>7, <1>8, <1>9 DEF Sending

(* A flush keeps SleepInv. *)
LEMMA SleepFlush ==
  ASSUME TypeOK, LockInv, BufferInv, SleepInv, Flush
  PROVE  SleepInv'
<1>1. rcv.pc \notin {"clear", "raced", "reset", "peek", "wait", "sleep", "deactivate"}
  <2>1. fl.pc # "off"
    BY ClearMsgsEffect, TakeNonemptyEffect, FlushSlotEffect, FlushRoundEffect, KillSlotEffect,
       UninstallEffect, Zenon
    DEF Flush
  <2> QED BY <2>1, Zenon DEF LockInv, Holding
<1>2. ASSUME UNCHANGED <<state, rcv, snd>>, QueuesEmpty => QueuesEmpty',
             RAt("splice") /\ fl'.pc \in {"off", "slots"} => Fresh' \/ Found'
      PROVE  SleepInv'
  <2>1. Woken => Woken'  BY <1>2 DEF Woken, First, At
  <2> QED BY <1>1, <1>2, <2>1 DEF SleepInv, RAt
<1>3. CASE ClearMsgs
  BY <1>2, <1>3, ClearMsgsEffect DEF QueuesEmpty, queues, BufKeeps
<1>4. CASE TakeNonempty
  BY <1>2, <1>4, TakeNonemptyEffect DEF QueuesEmpty, queues, BufKeeps, Fresh
<1>5. CASE proc_sig_queue_flush_buffer
  <2>1. PICK i \in Slots : Emptied(i)  BY <1>5, FlushSlotEffect
  <2>2. inq \in Seq(Messages) /\ buf.queue[i] \in Seq(Messages)  BY DEF TypeOK, BufferArray
  <2>3. inq' = <<>> <=> inq = <<>> /\ buf.queue[i] = <<>>  BY <2>1, <2>2 DEF Emptied
  <2>4. QueuesEmpty => QueuesEmpty'  BY <2>1, <2>3 DEF QueuesEmpty, Emptied
  <2>5. Fresh => Fresh'  BY <1>5, <2>1, FlushSlotEffect DEF Fresh, Emptied, First, At
  <2>6. Found => Found'
    <3>1. \A s \in Senders : InSlot(s) => SlotOf[s] # i
      BY <2>1 DEF Emptied, SlotFree, BufferInv
    <3>2. Peek' <=> Peek  BY <1>5, FlushSlotEffect DEF Peek
    <3>3. \A s \in Senders : InSlot(s)' <=> InSlot(s)  BY <1>5, FlushSlotEffect DEF InSlot
    <3>4. \A j \in fl.slots \ {i} : j \in fl'.slots /\ buf'.queue[j] = buf.queue[j]
      BY <2>1 DEF Emptied, TypeOK, FlushState
    <3> QED BY <2>1, <2>3, <3>1, <3>2, <3>3, <3>4 DEF Found
  <2>7. RAt("splice") => Fresh \/ Found  BY <1>5, FlushSlotEffect DEF SleepInv
  <2> QED BY <1>2, <1>5, <2>4, <2>5, <2>6, <2>7, FlushSlotEffect
<1>6. CASE FlushRound
  <2>1. QueuesEmpty => QueuesEmpty'  BY <1>6, FlushRoundEffect DEF QueuesEmpty, queues, BufKeeps
  <2>2. Fresh => Fresh'  BY <1>6, FlushRoundEffect DEF Fresh, First, At
  <2>3. Found => Found'  BY <1>6, FlushRoundEffect DEF Found, Peek, queues
  <2>4. RAt("splice") => Fresh \/ Found  BY <1>6, FlushRoundEffect DEF SleepInv
  <2> QED BY <1>2, <1>6, <2>1, <2>2, <2>3, <2>4, FlushRoundEffect
<1>7. CASE KillSlot
  <2>1. PICK i \in Slots : Emptied(i)  BY <1>7, KillSlotEffect
  <2>2. inq \in Seq(Messages) /\ buf.queue[i] \in Seq(Messages)  BY DEF TypeOK, BufferArray
  <2>3. inq = <<>> /\ buf.queue[i] = <<>> => inq' = <<>>  BY <2>1, <2>2 DEF Emptied
  <2>4. QueuesEmpty => QueuesEmpty'  BY <2>1, <2>3 DEF QueuesEmpty, Emptied
  <2>5. fl'.pc = "kill"  BY <1>7, <2>1, KillSlotEffect DEF Emptied
  <2> QED BY <1>2, <1>7, <2>4, <2>5, KillSlotEffect
<1>8. CASE Uninstall
  BY <1>2, <1>8, UninstallEffect DEF QueuesEmpty, queues, Fresh
<1> QED BY <1>3, <1>4, <1>5, <1>6, <1>7, <1>8 DEF Flush

(* The receiver goes to a place where it does not rely on being woken. *)
LEMMA SleepAwake ==
  ASSUME rcv'.pc \notin {"splice", "clear", "raced", "reset", "peek", "wait", "sleep", "deactivate"},
         rcv'.pc \in {"out", "off"} => "ACTIVE" \in state'
  PROVE  SleepInv'
BY DEF SleepInv, RAt

(* Every step keeps SleepInv. *)
LEMMA SleepStep ==
  ASSUME TypeOK, LockInv, BufferInv, AnnounceInv, FlagInv, SleepInv, RunInv,
         RAt("match") => Peek, RAt("links") => save = 1, Next
  PROVE  SleepInv'
<1>1. ASSUME NEW s \in Senders, queue_messages(s) \/ Sending(s)  PROVE SleepInv'
  BY <1>1, SleepSender
<1>2. CASE Flush  BY <1>2, SleepFlush
<1>3. ASSUME ReceiverStep
      PROVE  /\ Fresh' <=> Fresh
             /\ Woken' <=> Woken
             /\ inq' = inq => (QueuesEmpty' <=> QueuesEmpty)
  BY <1>3, ReceiverFrame DEF Fresh, Woken, First, At, QueuesEmpty
<1>4. save' = save /\ inner' = inner => (Peek' <=> Peek)  BY DEF Peek
<1>5. CASE Preempt \/ i_loop_rec \/ RWaitForMsgq \/ ReadNonempty
  <2>1. CASE rcv.pc = "raced" /\ rcv'.pc \in {"peek", "reset"}
    BY <1>3, <1>4, <1>5, <2>1, ReceiverMovesEffect
       DEF SleepInv, RAt, ReceiverStep, Receiving, queues
  <2>2. CASE rcv.pc \in {"loop", "lock"} /\ rcv'.pc \in {"out", "lock", "match", "blocked"}
    BY <1>5, <2>2, ReceiverMovesEffect, SleepAwake, Zenon DEF RunInv
  <2> QED BY <1>5, <2>1, <2>2, ReceiverMovesEffect
<1>6. CASE Receive  BY <1>6, ReceiveEffect, SleepAwake
<1>7. CASE erts_proc_sig_fetch
  <2>1. ~buf.installed => Fresh'
    BY <1>3, <1>7, NoArray DEF ReceiverStep, Receiving, Fresh
  <2> QED BY <1>7, <2>1, FetchEffect DEF SleepInv, RAt
<1>8. CASE Splice
  <2>1. inner \in Seq(Messages) /\ inq \in Seq(Messages) /\ save \in 1 .. (Len(inner) + 1)
    BY DEF TypeOK
  <2>2. Len(inner') = Len(inner) + Len(inq) /\ Len(inq) \in Nat /\ (inq # <<>> => Len(inq) > 0)
    BY <1>8, <2>1, SpliceEffect
  <2>3. Peek \/ inq # <<>> => Peek'  BY <1>8, <2>1, <2>2, SpliceEffect DEF Peek
  <2>4. fl.slots = {} /\ RAt("splice")  BY <1>8, SpliceEffect, Zenon DEF LockInv, RAt
  <2>5. Fresh \/ Peek \/ inq # <<>>  BY <1>8, <2>4, SpliceEffect DEF SleepInv, Found
  <2>6. Fresh' \/ Peek'  BY <1>3, <1>8, <2>3, <2>5 DEF ReceiverStep, Receiving
  <2> QED BY <1>8, <2>6, SpliceEffect DEF SleepInv, RAt
<1>9. CASE ClearFlag
  BY <1>3, <1>4, <1>9, ClearFlagEffect DEF SleepInv, RAt, ReceiverStep, Receiving, queues
<1>10. CASE ResetFlag
  BY <1>3, <1>4, <1>10, ResetFlagEffect DEF SleepInv, RAt, ReceiverStep, Receiving, queues
<1>11. CASE PeekFetched
  BY <1>3, <1>11, PeekFetchedEffect DEF SleepInv, RAt, ReceiverStep, Receiving
<1>12. CASE remove_message  BY <1>12, remove_messageEffect, LeftEffect, SleepAwake
<1>13. CASE loop_rec_end
  <2>1. RAt("match")  BY <1>13 DEF loop_rec_end
  <2> QED BY <1>13, <2>1, loop_rec_endEffect, SleepAwake
<1>14. CASE wait
  BY <1>3, <1>14, waitEffect DEF SleepInv, RAt, ReceiverStep, Receiving
<1>15. CASE TestTimer
  <2>1. CASE rcv'.pc = "out"
    BY <1>15, <2>1, TestTimerEffect, SleepAwake, Zenon DEF RunInv
  <2>2. CASE rcv'.pc = "deactivate"
    BY <1>3, <1>15, <2>2, TestTimerEffect DEF SleepInv, RAt, ReceiverStep, Receiving
  <2> QED BY <1>15, <2>1, <2>2, TestTimerEffect
<1>16. CASE Deactivate
  <2>1. rcv.pc = "deactivate"  BY <1>16, DeactivateEffect
  <2>2. fl.pc = "off" /\ fl.slots = {} /\ inq = <<>> /\ Fresh
    BY <2>1, Zenon DEF LockInv, Holding, FlagInv, SleepInv
  <2>3. QueuesEmpty \/ Woken
    <3>1. CASE buf.nonempty = {}
      BY <2>2, <3>1 DEF AnnounceInv, SlotsAnnounced, QueuesEmpty
    <3>2. CASE \E s \in Senders : First(s) \/ At(s, "released")
      BY <3>2 DEF Woken, At
    <3> QED BY <2>2, <3>1, <3>2 DEF Fresh
  <2> QED BY <1>3, <1>16, <2>3, DeactivateEffect
          DEF SleepInv, RAt, ReceiverStep, Receiving, queues
<1>17. CASE timeout  BY <1>17, timeoutEffect, LeftEffect, SleepAwake
<1>18. CASE schedule_out_process
  <2>1. "ACTIVE" \in state' <=> "ACTIVE" \in state
    BY <1>18, schedule_out_processEffect DEF Flags
  <2> QED BY <1>3, <1>18, <2>1, schedule_out_processEffect
          DEF SleepInv, RAt, ReceiverStep, Scheduling, queues
<1>19. CASE ScheduleIn  BY <1>19, ScheduleInEffect, SleepAwake
<1>20. CASE Timing
  <2>1. UNCHANGED <<inq, inner, save, fl, rcv>>  BY <1>20, TimingEffect DEF queues
  <2>2. /\ Fresh => Fresh'
        /\ Woken => Woken'
        /\ QueuesEmpty => QueuesEmpty'
    BY <1>3, <1>20, <2>1 DEF ReceiverStep
  <2>3. Found => Found'
    BY <1>20, <2>1, ReceiverFrame DEF ReceiverStep, Found, Peek, InSlot
  <2>4. "ACTIVE" \in state => "ACTIVE" \in state'
    BY <1>20, TimingEffect, ActivateEffect
  <2> QED BY <2>1, <2>2, <2>3, <2>4, SleepFrame
<1>21. CASE set_self_exiting \/ SetFree  BY <1>21, ExitBeginsEffect, SleepAwake
<1>22. CASE ExitLocks \/ ChangeLocks  BY <1>22, TakesLockEffect, SleepAwake, Zenon
<1>23. CASE ExitFetches  BY <1>23, ExitFetchesEffect, SleepAwake, Zenon
<1>24. CASE delete_process
  <2>1. RAt("links")  BY <1>24 DEF delete_process
  <2> QED BY <1>24, <2>1, delete_processEffect, SleepAwake
<1>25. CASE ChangeSets \/ ChangeClears  BY <1>25, ChangeEffect, SleepAwake
<1>26. CASE WrongTime  BY <1>26, WrongTimeEffect, LeftEffect, SleepAwake
<1> QED
  BY <1>1, <1>2, <1>5, <1>6, <1>7, <1>8, <1>9, <1>10, <1>11, <1>12, <1>13, <1>14, <1>15,
     <1>16, <1>17, <1>18, <1>19, <1>20, <1>21, <1>22, <1>23, <1>24, <1>25, <1>26
  DEF Next, Receiving, Scheduling, Exiting, Changing

(***************************************************************************)
(* What an after 0 receive must not miss.                                  *)
(***************************************************************************)
LEMMA DueSlot ==
  ASSUME TypeOK, NEW m \in rcv.due
  PROVE  m[1] \in Senders /\ SlotOf[m[1]] \in Slots
BY SlotsAssumption DEF TypeOK, Process, Messages

(* What is put at the end of a queue is in it. *)
LEMMA AppendMessage ==
  ASSUME TypeOK, NEW s \in Senders, NEW q \in Seq(Messages)
  PROVE  Range(Append(q, Message(s))) = Range(q) \cup {Message(s)}
<1> DEFINE m == Message(s)
<1>1. m \in Messages  BY DEF Message, Messages, TypeOK, Sender
<1> HIDE DEF m
<1>2. Range(Append(q, m)) = Range(q) \cup {m}  BY <1>1, AppendSeq
<1> QED BY <1>2 DEF m

(* Messages only enter the outer queue and the buffers. *)
LEMMA DueFrame ==
  ASSUME DueInv, UNCHANGED <<inner, fl, rcv>>,
         \A m \in rcv.due : m \in Range(inq) => m \in Range(inq'),
         \A m \in rcv.due : Buffered(m) => Buffered(m)'
  PROVE  DueInv'
BY Zenon DEF DueInv, Fetched, InReceive, RAt

(* A sender keeps DueInv. *)
LEMMA DueSender ==
  ASSUME TypeOK, LockInv, BufferInv, DueInv, NEW s \in Senders, queue_messages(s) \/ Sending(s)
  PROVE  DueInv'
<1>1. CASE UNCHANGED <<inner, fl, rcv, inq>> /\ buf'.queue = buf.queue
  BY <1>1, DueFrame DEF Buffered
<1>2. CASE queue_messages(s)  BY <1>1, <1>2, queue_messagesEffect DEF queues
<1>3. CASE LockSlot(s)
  <2>1. buf'.queue = buf.queue  BY <1>3, LockSlotEffect, Zenon DEF BufKeeps
  <2> QED BY <1>1, <1>3, <2>1, LockSlotEffect, Zenon DEF queues
<1>4. CASE MarkNonempty(s)  BY <1>1, <1>4, MarkNonemptyEffect, Zenon DEF queues, BufKeeps
<1>5. CASE RecheckMsgs(s)
  <2>1. buf'.queue = buf.queue  BY <1>5, RecheckMsgsEffect, Zenon DEF BufKeeps
  <2> QED BY <1>1, <1>5, <2>1, RecheckMsgsEffect, Zenon DEF queues
<1>6. CASE ReadState(s)  BY <1>1, <1>6, ReadStateEffect DEF queues
<1>7. CASE \/ WaitUntilReleased(s) \/ WaitForMsgq(s) \/ NotifyPremises(s)
           \/ erts_proc_notify_new_message(s)
  BY <1>1, <1>7, SenderMovesEffect DEF queues
<1>8. CASE erts_schedule_process(s)  BY <1>1, <1>8, erts_schedule_processEffect DEF queues
<1>9. CASE EnqueueToSlot(s)
  <2>1. SlotOf[s] \in Slots /\ buf.queue[SlotOf[s]] \in Seq(Messages)
    BY SlotsAssumption, Zenon DEF TypeOK, BufferArray
  <2>2. Range(buf'.queue[SlotOf[s]]) = Range(buf.queue[SlotOf[s]]) \cup {Message(s)}
    BY <1>9, <2>1, EnqueueToSlotEffect, AppendMessage, Zenon
  <2>3. \A i \in Slots : Range(buf.queue[i]) \subseteq Range(buf'.queue[i])
    BY <1>9, <2>2, EnqueueToSlotEffect
  <2>4. \A m \in rcv.due : Buffered(m) => Buffered(m)'  BY <2>3, DueSlot DEF Buffered
  <2> QED BY <1>9, <2>4, EnqueueToSlotEffect, DueFrame DEF queues
<1>10. CASE LockMsgq(s)
  <2>1. ~RAt("splice")
    BY <1>10, LockMsgqEffect, ThreadsAssumption, Zenon DEF LockInv, Holding, RAt
  <2>2. \A i \in Slots : buf'.queue[i] = buf.queue[i]
    BY <1>10, LockMsgqEffect, NewArrayFields, NoArray
  <2>3. \A m \in rcv.due : Buffered(m) => Buffered(m)'  BY <2>2, DueSlot DEF Buffered
  <2> QED BY <1>10, <2>1, <2>3, LockMsgqEffect, Zenon DEF DueInv, Fetched, InReceive, RAt, queues
<1>11. CASE LINK_MESSAGE(s)
  <2>1. Range(inq') = Range(inq) \cup {Message(s)}
    BY <1>11, LINK_MESSAGEEffect, AppendMessage, Zenon DEF TypeOK
  <2> QED BY <1>11, <2>1, LINK_MESSAGEEffect, DueFrame DEF Buffered
<1> QED
  BY <1>2, <1>3, <1>4, <1>5, <1>6, <1>7, <1>8, <1>9, <1>10, <1>11 DEF Sending

(* A slot is emptied into the outer queue. *)
LEMMA DueEmptied ==
  ASSUME TypeOK, DueInv, NEW i \in Slots, Emptied(i), UNCHANGED <<inner, rcv>>
  PROVE  DueInv'
<1>1. inq \in Seq(Messages) /\ buf.queue[i] \in Seq(Messages)  BY DEF TypeOK, BufferArray
<1>2. Range(inq') = Range(inq) \cup Range(buf.queue[i])
  <2> DEFINE q == buf.queue[i]
  <2>1. inq' = inq \o q  BY Zenon DEF Emptied
  <2>2. q \in Seq(Messages)  BY <1>1
  <2> HIDE DEF q
  <2>3. Range(inq \o q) = Range(inq) \cup Range(q)  BY <1>1, <2>2, ConcatRange, Zenon
  <2> QED BY <2>1, <2>3, Zenon DEF q
<1>3. \A m \in rcv.due : Fetched(m) => Fetched(m)'  BY <1>2 DEF Fetched
<1>4. ASSUME NEW m \in rcv.due, Buffered(m)
      PROVE  Fetched(m)' \/ (SlotOf[m[1]] # i /\ Buffered(m)')
  <2>1. CASE SlotOf[m[1]] = i  BY <1>2, <1>4, <2>1 DEF Buffered, Fetched
  <2>2. CASE SlotOf[m[1]] # i  BY <1>4, <2>2, DueSlot DEF Buffered, Emptied
  <2> QED BY <2>1, <2>2
<1>5. fl'.pc = fl.pc /\ \A j \in fl.slots : j # i => j \in fl'.slots  BY DEF Emptied
<1> QED BY <1>3, <1>4, <1>5, Zenon DEF DueInv, InReceive, RAt

(* A flush keeps DueInv. *)
LEMMA DueFlush ==
  ASSUME TypeOK, LockInv, AnnounceInv, DueInv, Flush
  PROVE  DueInv'
<1>1. CASE ClearMsgs
  BY <1>1, ClearMsgsEffect, Zenon DEF DueInv, Fetched, Buffered, InReceive, RAt, queues, BufKeeps
<1>2. CASE TakeNonempty
  <2>1. UNCHANGED <<inner, inq, rcv>> /\ buf'.queue = buf.queue
    BY <1>2, TakeNonemptyEffect DEF queues, BufKeeps
  <2>2. fl.slots = {}  BY <1>2, TakeNonemptyEffect, Zenon DEF LockInv
  <2>3. ASSUME NEW m \in rcv.due, Buffered(m)  PROVE SlotOf[m[1]] \in fl'.slots
    <3>1. SlotOf[m[1]] \in Slots /\ buf.queue[SlotOf[m[1]]] # <<>>
      BY <2>3, DueSlot, EmptyHasNone DEF Buffered
    <3> QED BY <1>2, <2>2, <3>1, TakeNonemptyEffect DEF AnnounceInv, SlotsAnnounced
  <2> QED BY <2>1, <2>3, Zenon DEF DueInv, Fetched, Buffered, InReceive, RAt
<1>3. CASE proc_sig_queue_flush_buffer  BY <1>3, FlushSlotEffect, DueEmptied
<1>4. CASE FlushRound
  <2>1. UNCHANGED <<inner, inq, rcv>> /\ buf'.queue = buf.queue
    BY <1>4, FlushRoundEffect DEF queues, BufKeeps
  <2>2. RAt("splice") => \A m \in rcv.due : Fetched(m)
    BY <1>4, FlushRoundEffect DEF DueInv
  <2> QED BY <2>1, <2>2, Zenon DEF DueInv, Fetched, Buffered, InReceive, RAt
<1>5. CASE KillSlot  BY <1>5, KillSlotEffect, DueEmptied
<1>6. CASE Uninstall
  <2>1. UNCHANGED <<inner, inq, rcv>> /\ buf'.queue = buf.queue
    BY <1>6, UninstallEffect DEF queues
  <2>2. RAt("splice") => \A m \in rcv.due : Fetched(m)
    BY <1>6, UninstallEffect DEF DueInv
  <2> QED BY <2>1, <2>2, Zenon DEF DueInv, Fetched, Buffered, InReceive, RAt
<1> QED BY <1>1, <1>2, <1>3, <1>4, <1>5, <1>6 DEF Flush

(* The receiver goes on with the messages where they are. *)
LEMMA DueMoves ==
  ASSUME DueInv, UNCHANGED <<inner, inq, buf, fl>>,
         rcv'.want = rcv.want, rcv'.after = rcv.after, rcv'.due = rcv.due,
         InReceive' <=> InReceive, rcv'.pc # "splice",
         rcv'.pc \in {"loop", "lock", "blocked", "match", "out", "off"} =>
           \/ rcv.pc \in {"loop", "lock", "blocked", "match", "out", "off"}
           \/ rcv.due \subseteq Range(inner),
         rcv'.pc \in {"clear", "raced", "reset", "peek"} => rcv.due \subseteq Range(inner),
         rcv'.pc \in {"wait", "sleep", "deactivate", "timeout"} => rcv.due = {}
  PROVE  DueInv'
BY DEF DueInv, Fetched, Buffered, RAt

(* The receive has ended, or has not begun. *)
LEMMA DueOver ==
  ASSUME rcv'.due = {}
  PROVE  DueInv'
BY DEF DueInv

(* Every step keeps DueInv. *)
LEMMA DueStep ==
  ASSUME TypeOK, LockInv, BufferInv, AnnounceInv, FlagInv, TimerInv, ScanInv, DueInv, Next
  PROVE  DueInv'
<1>1. ASSUME NEW s \in Senders, queue_messages(s) \/ Sending(s)  PROVE DueInv'
  BY <1>1, DueSender
<1>2. CASE Flush  BY <1>2, DueFlush
<1>3. CASE Preempt \/ i_loop_rec \/ RWaitForMsgq \/ ReadNonempty
  <2>1. UNCHANGED <<inner, inq, buf, fl>>  BY <1>3, ReceiverMovesEffect DEF queues
  <2>2. CASE rcv.pc = "raced" /\ rcv'.pc \in {"peek", "reset"}
    BY <1>3, <2>1, <2>2, ReceiverMovesEffect, DueMoves, Zenon DEF DueInv, RcvKeeps, InReceive
  <2>3. CASE rcv.pc \in {"loop", "lock"} /\ rcv'.pc \in {"out", "lock", "match", "blocked"}
    BY <1>3, <2>1, <2>3, ReceiverMovesEffect, DueMoves, Zenon DEF RcvKeeps, InReceive
  <2> QED BY <1>3, <2>2, <2>3, ReceiverMovesEffect
<1>4. CASE Receive
  BY <1>4, ReceiveEffect, Zenon DEF DueInv, Fetched, Buffered, InReceive, RAt, queues
<1>5. CASE erts_proc_sig_fetch
  <2>1. UNCHANGED <<inner, inq, buf>> /\ rcv.pc \in {"lock", "blocked"}
    BY <1>5, FetchEffect, Zenon DEF queues
  <2>2. CASE buf.installed
    BY <1>5, <2>1, <2>2, FetchEffect, Zenon DEF DueInv, Fetched, Buffered, InReceive, RAt
  <2>3. CASE ~buf.installed
    <3>1. \A m \in rcv.due : ~Buffered(m)
      BY <2>3, NoArray, DueSlot, EmptyHasNone DEF Buffered
    <3>2. \A m \in rcv.due : Fetched(m)  BY <2>1, <3>1, Zenon DEF DueInv
    <3>3. CASE rcv'.pc = "splice"
      BY <1>5, <2>1, <3>2, <3>3, FetchEffect, Zenon DEF DueInv, Fetched, InReceive, RAt
    <3>4. CASE inq = <<>> /\ rcv'.pc = "peek"
      BY <1>5, <2>1, <3>2, <3>4, FetchEffect, EmptyHasNone, Zenon DEF DueInv, Fetched, InReceive, RAt
    <3> QED BY <1>5, <3>3, <3>4, FetchEffect
  <2> QED BY <2>2, <2>3
<1>6. CASE Splice
  <2>1. inner \in Seq(Messages) /\ inq \in Seq(Messages)  BY DEF TypeOK
  <2>2. Range(inner') = Range(inner) \cup Range(inq)
    BY <1>6, <2>1, SpliceEffect, ConcatRange, Zenon
  <2>3. fl.slots = {} /\ RAt("splice")  BY <1>6, SpliceEffect, Zenon DEF LockInv, RAt
  <2>4. rcv.due \subseteq Range(inner')
    BY <1>6, <2>2, <2>3, SpliceEffect DEF DueInv, Fetched
  <2> QED BY <1>6, <2>4, SpliceEffect, Zenon DEF DueInv, InReceive, RAt, RcvKeeps
<1>7. CASE ClearFlag
  BY <1>7, ClearFlagEffect, DueMoves, Zenon DEF DueInv, RcvKeeps, InReceive, queues
<1>8. CASE ResetFlag
  BY <1>8, ResetFlagEffect, DueMoves, Zenon DEF DueInv, RcvKeeps, InReceive, queues
<1>9. CASE PeekFetched
  <2>1. rcv.pc = "peek" /\ rcv.due \subseteq Range(inner)
    BY <1>9, PeekFetchedEffect, Zenon DEF DueInv
  <2>2. ASSUME ~Peek  PROVE rcv.due = {}
    <3>1. inner \in Seq(Messages) /\ Len(inner) \in Nat /\ save \in 1 .. (Len(inner) + 1)
      BY DEF TypeOK
    <3>2. save - 1 = Len(inner)  BY <2>2, <3>1 DEF Peek
    <3>3. \A j \in 1 .. Len(inner) : inner[j][1] \notin rcv.want
      BY <2>1, <3>2 DEF ScanInv, InReceive
    <3>4. \A m \in Range(inner) : m[1] \notin rcv.want  BY <3>1, <3>3 DEF Range
    <3> QED BY <2>1, <3>4 DEF DueInv
  <2> QED BY <1>9, <2>1, <2>2, PeekFetchedEffect, DueMoves, Zenon DEF InReceive, queues
<1>10. CASE remove_message  BY <1>10, remove_messageEffect, LeftEffect, DueOver
<1>11. CASE loop_rec_end
  <2>1. RAt("match") /\ Peek  BY <1>11 DEF loop_rec_end, ScanInv
  <2> QED BY <1>11, <2>1, loop_rec_endEffect, DueMoves, Zenon DEF RcvKeeps, InReceive
<1>12. CASE wait
  <2>1. rcv'.due = {}  BY <1>12, waitEffect DEF DueInv
  <2> QED BY <2>1, DueOver
<1>13. CASE TestTimer
  <2>1. rcv'.due = {}  BY <1>13, TestTimerEffect DEF DueInv, RcvKeeps
  <2> QED BY <2>1, DueOver
<1>14. CASE Deactivate
  <2>1. rcv'.due = {}  BY <1>14, DeactivateEffect DEF DueInv, RcvKeeps
  <2> QED BY <2>1, DueOver
<1>15. CASE timeout  BY <1>15, timeoutEffect, LeftEffect, DueOver
<1>16. CASE schedule_out_process
  BY <1>16, schedule_out_processEffect, DueMoves, Zenon DEF RcvKeeps, InReceive, queues
<1>17. CASE ScheduleIn
  <2>1. CASE timer = "timedout"
    <3>1. rcv'.due = {}  BY <1>17, <2>1, ScheduleInEffect DEF DueInv, TimerInv
    <3> QED BY <3>1, DueOver
  <2>2. CASE rcv'.pc = "loop"
    BY <1>17, <2>2, ScheduleInEffect, DueMoves, Zenon DEF InReceive, queues
  <2> QED BY <1>17, <2>1, <2>2, ScheduleInEffect
<1>18. CASE Timing  BY <1>18, TimingEffect, DueFrame DEF queues, Buffered
<1>19. CASE Exiting \/ Changing
  <2>1. rcv'.due = rcv.due /\ ~InReceive
    <3>1. CASE set_self_exiting \/ SetFree
      BY <3>1, ExitBeginsEffect, Zenon DEF RcvKeeps, InReceive
    <3>2. CASE ExitLocks \/ ChangeLocks  BY <3>2, TakesLockEffect, Zenon DEF RcvKeeps, InReceive
    <3>3. CASE ExitFetches  BY <3>3, ExitFetchesEffect, Zenon DEF RcvKeeps, InReceive
    <3>4. CASE delete_process
      <4>1. save = 1  BY <3>4 DEF delete_process, ScanInv, RAt, InReceive
      <4> QED BY <3>4, <4>1, delete_processEffect, Zenon DEF RcvKeeps, InReceive
    <3>5. CASE ChangeSets \/ ChangeClears  BY <3>5, ChangeEffect, Zenon DEF RcvKeeps, InReceive
    <3> QED BY <1>19, <3>1, <3>2, <3>3, <3>4, <3>5 DEF Exiting, Changing
  <2> QED BY <2>1, DueOver, Zenon DEF DueInv
<1>20. CASE WrongTime  BY <1>20, WrongTimeEffect, LeftEffect, DueOver
<1> QED
  BY <1>1, <1>2, <1>3, <1>4, <1>5, <1>6, <1>7, <1>8, <1>9, <1>10, <1>11, <1>12, <1>13,
     <1>14, <1>15, <1>16, <1>17, <1>18, <1>19, <1>20
  DEF Next, Receiving, Scheduling

(***************************************************************************)
(* The theorems.                                                           *)
(***************************************************************************)
(* The invariant holds before the first message is sent. *)
LEMMA QueueInit ==
  ASSUME Init
  PROVE  QueueInv
<1>1. /\ state = {"ACTIVE", "RUNNING", "OFF_HEAP_MSGQ"}
      /\ msgq = NoOne /\ contention = 0 /\ inq = <<>> /\ inner = <<>> /\ save = 1
      /\ timer = "none" /\ tpc = "off" /\ onHeap = FALSE
  BY DEF Init
<1>2. /\ buf.installed = FALSE /\ buf.alive = {} /\ buf.nonempty = {}
      /\ \A i \in Slots : buf.queue[i] = <<>>
      /\ buf \in BufferArray
  <2>1. <<>> \in Seq(Messages)  OBVIOUS
  <2>2. [i \in Slots |-> <<>>] \in [Slots -> Seq(Messages)]  BY <2>1, Zenon
  <2>3. 0 \in Nat  OBVIOUS
  <2> QED BY <2>2, <2>3, Zenon DEF Init, BufferArray
<1>3. fl \in FlushState /\ fl.pc = "off" /\ fl.slots = {}
  BY Zenon DEF Init, NoFlush, FlushState
<1>4. /\ snd \in [Senders -> Sender]
      /\ \A s \in Senders : snd[s].pc = "idle" /\ ~snd[s].restarted
  <2>1. 0 \in Nat  OBVIOUS
  <2>2. Idle(0) \in Sender /\ Idle(0).pc = "idle" /\ Idle(0).restarted = FALSE
    BY <2>1, Zenon DEF Idle, Sender, SenderPcs
  <2>3. snd = [s \in Senders |-> Idle(0)]  BY DEF Init
  <2> HIDE DEF Init
  <2> QED BY <2>2, <2>3, Zenon
<1>5. /\ rcv \in Process /\ rcv.pc = "idle" /\ rcv.after = "none" /\ rcv.flags = {}
      /\ rcv.due = {}
  BY Zenon DEF Init, Process, ProcessPcs
<1>6. TypeOK
  <2>1. <<>> \in Seq(Messages) /\ 1 \in 1 .. (Len(<<>>) + 1) /\ 0 \in Nat  OBVIOUS
  <2>2. inq \in Seq(Messages) /\ inner \in Seq(Messages) /\ save \in 1 .. (Len(inner) + 1)
    BY <1>1, <2>1, Zenon
  <2>3. state \subseteq Flags /\ msgq \in Senders \cup {Receiver, NoOne} /\ contention \in Nat
    BY <1>1, <2>1 DEF Flags
  <2>4. /\ timer \in {"none", "set", "timedout"} /\ tpc \in {"off", "lock", "schedule"}
        /\ onHeap \in BOOLEAN
    BY <1>1, Zenon
  <2> QED BY <1>2, <1>3, <1>4, <1>5, <2>2, <2>3, <2>4, Zenon DEF TypeOK
<1>7. LockInv
  BY <1>1, <1>3, <1>4, <1>5, ThreadsAssumption DEF LockInv, Holding, At
<1>8. BufferInv  BY <1>2, <1>3, <1>4 DEF BufferInv, InSlot
<1>9. AnnounceInv  BY <1>2, <1>4 DEF AnnounceInv, SlotsAnnounced, Placed, At
<1>10. FlagInv
  BY <1>1, <1>2, <1>4, <1>5, Zenon DEF FlagInv, Outside, QueuesEmpty, At, RAt
<1>11. SleepInv  BY <1>5 DEF SleepInv, RAt
<1>12. RunInv  BY <1>1, <1>5 DEF RunInv, RAt
<1>13. TimerInv  BY <1>1, <1>5 DEF TimerInv, RAt
<1>14. ScanInv  BY <1>1, <1>5 DEF ScanInv, InReceive, RAt
<1>15. DueInv  BY <1>5 DEF DueInv
<1> QED BY <1>6, <1>7, <1>8, <1>9, <1>10, <1>11, <1>12, <1>13, <1>14, <1>15 DEF QueueInv

(* Every step keeps it. *)
LEMMA QueueStep ==
  ASSUME QueueInv, [Next]_vars
  PROVE  QueueInv'
<1>1. CASE Next
  <2>1. /\ TypeOK /\ LockInv /\ BufferInv /\ AnnounceInv /\ FlagInv /\ SleepInv /\ RunInv
        /\ TimerInv /\ ScanInv /\ DueInv
    BY DEF QueueInv
  <2>2. (RAt("match") => Peek) /\ (RAt("links") => save = 1)
    BY <2>1, Zenon DEF ScanInv, InReceive, RAt
  <2> QED BY <1>1, <2>1, <2>2, LockStep, BufferStep, AnnounceStep, FlagStep, SleepStep,
             RunStep, TimerStep, ScanStep, DueStep
          DEF QueueInv
<1>2. CASE UNCHANGED vars
  <2>1. TypeOK'  BY <1>2 DEF QueueInv, TypeOK, vars, lock, queues
  <2>2. LockInv' /\ BufferInv'
    BY <1>2, Zenon DEF QueueInv, LockInv, Holding, At, BufferInv, InSlot, vars, lock
  <2>3. AnnounceInv'
    BY <1>2, Zenon
    DEF QueueInv, AnnounceInv, SlotsAnnounced, Placed, Taken, Announced, InSlot, At, vars
  <2>4. FlagInv'
    BY <1>2, Zenon DEF QueueInv, FlagInv, Outside, QueuesEmpty, At, RAt, vars, queues
  <2>5. SleepInv'
    BY <1>2, Zenon
    DEF QueueInv, SleepInv, Fresh, Found, Woken, First, QueuesEmpty, Peek, InSlot, At,
                RAt, vars, queues
  <2>6. RunInv' /\ TimerInv' /\ ScanInv'
    BY <1>2, Zenon DEF QueueInv, RunInv, TimerInv, ScanInv, InReceive, Peek, RAt, vars, queues
  <2>7. DueInv'
    BY <1>2, Zenon DEF QueueInv, DueInv, Fetched, Buffered, InReceive, RAt, vars, queues
  <2> QED BY <2>1, <2>2, <2>3, <2>4, <2>5, <2>6, <2>7 DEF QueueInv
<1> QED BY <1>1, <1>2

(* The inductive invariant of the signal queue, for any number of senders,     *)
(* buffers and messages, and any limits for their installation and removal.    *)
THEOREM QueueInvariant == Spec => []QueueInv
<1>1. Init => QueueInv  BY QueueInit
<1>2. QueueInv /\ [Next]_vars => QueueInv'  BY QueueStep
<1> QED BY <1>1, <1>2, PTL DEF Spec

(* The variables of queue_messages, of the flush and of the receive keep their *)
(* types.                                                                      *)
THEOREM QueueTypes == Spec => []TypeOK
<1>1. QueueInv => TypeOK  BY DEF QueueInv
<1> QED BY <1>1, QueueInvariant, PTL

(* No flush of the buffers overlooks a message: one that enqueue_signals has   *)
(* put into a slot is announced, although a flush clears msgs_in_slots and     *)
(* nonempty_slots without the lock of the slot.                                *)
THEOREM NothingOverlooked == Spec => []SlotsAnnounced
<1>1. QueueInv => SlotsAnnounced  BY DEF QueueInv, AnnounceInv
<1> QED BY <1>1, QueueInvariant, PTL

(* ERTS_PSFLG_MSG_SIG_IN_Q is never lost between the sender that does not set  *)
(* it because it is set and the receiver that clears it.                       *)
THEOREM FlagNotLost == Spec => []FlagCovers
<1>1. QueueInv => FlagCovers
  <2> SUFFICES ASSUME QueueInv, msgq = NoOne, ~QueuesEmpty  PROVE "MSG_SIG_IN_Q" \in state
    BY DEF FlagCovers, QueuesEmpty
  <2>1. ~Holding  BY ThreadsAssumption, Zenon DEF QueueInv, LockInv
  <2>2. Outside  BY DEF Outside
  <2> QED BY <2>1, <2>2, Zenon DEF QueueInv, FlagInv, Holding
<1> QED BY <1>1, QueueInvariant, PTL

(* No wake-up is lost: a process that sleeps in a receive while a message is   *)
(* in a queue is about to be woken by a sender.                                *)
THEOREM NoLostWakeup == Spec => []NotForgotten
<1>1. QueueInv => NotForgotten
  BY DEF QueueInv, SleepInv, NotForgotten, Woken, RAt
<1> QED BY <1>1, QueueInvariant, PTL

(* A receive with after 0 finds every message that was in a queue or a buffer  *)
(* when it began.                                                              *)
THEOREM ZeroFinds == Spec => []ZeroSees
<1>1. QueueInv => ZeroSees  BY DEF QueueInv, DueInv, ZeroSees, RAt
<1> QED BY <1>1, QueueInvariant, PTL

(* No timer outlives the receive that set it. *)
THEOREM TimerOfReceive == Spec => []TimerOwned
<1>1. QueueInv => TimerOwned
  BY Zenon DEF QueueInv, TimerInv, TimerOwned, InReceive, RAt
<1> QED BY <1>1, QueueInvariant, PTL

(* No late notification or timer schedules a process that has been freed. *)
THEOREM StaysDead == Spec => []DeadStaysDead
<1>1. QueueInv => DeadStaysDead
  BY DEF QueueInv, RunInv, DeadStaysDead, RAt
<1> QED BY <1>1, QueueInvariant, PTL

============================================================================
